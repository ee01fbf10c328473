------------------------------ MODULE MCTracer ------------------------------
(* A small target for the instruction counter; unsigned int is scaled. *)
EXTENDS Tracer, TLC

\* Six instructions: a loop-free program with a branch, an
\* instruction that may fault and an INT 3 of its own.
LineLen  == 16 :> 3 @@ 19 :> 5 @@ 24 :> 4 @@ 28 :> 4 @@ 32 :> 1 @@ 33 :> 7
LineFlow == 16 :> {19} @@ 19 :> {24, 28} @@ 24 :> {28} @@ 28 :> {32}
              @@ 32 :> {33} @@ 33 :> {}
=============================================================================
