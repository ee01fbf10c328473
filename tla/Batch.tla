-------------------------------- MODULE Batch --------------------------------
(***************************************************************************)
(* What the main of the type checker and that of the calculator's tests     *)
(* promise of a list of programs: they are run in its order, each as if it  *)
(* were alone, and no end is ever taken back.  There is no environment, no  *)
(* table and no exception that one program could leave to the next.         *)
(***************************************************************************)
EXTENDS Naturals, Sequences, SequencesExt

CONSTANTS
  Batches,   \* the lists of programs
  Ends(_),   \* the ends that a program may come to when it is run by itself
  Fatal(_)   \* an end that takes main with it

VARIABLES
  programs,  \* the list that is run
  ends       \* of those that have been run

vars == <<programs, ends>>

Init == programs \in Batches /\ ends = <<>>

Lost == ends # <<>> /\ Fatal(Last(ends))

RunNext ==
  /\ ~Lost /\ Len(ends) < Len(programs)
  /\ \E r \in Ends(programs[Len(ends) + 1]) : ends' = Append(ends, r)
  /\ UNCHANGED programs

Spec == Init /\ [][RunNext]_vars
=============================================================================
