----------------------------- MODULE MCDebugger -----------------------------
(***************************************************************************)
(* Small targets for the debugger.  A run chooses among these definitions   *)
(* in its .cfg.  Integers of TLC have 32 bits, so the unsigned int of the   *)
(* debugger is scaled to 16 bits, and addresses with it.                    *)
(***************************************************************************)
EXTENDS DebuggerRefinement, TLC

\* 24 bytes: a loop, an instruction that may fault, an INT 3 of the program's
\* own, and the exit.
LoopLen  == 16 :> 3 @@ 19 :> 5 @@ 24 :> 4 @@ 28 :> 4 @@ 32 :> 1 @@ 33 :> 7
LoopFlow == 16 :> {19} @@ 19 :> {24} @@ 24 :> {28} @@ 28 :> {19, 32}
              @@ 32 :> {33} @@ 33 :> {}

\* The same, for an unsigned int of 5 bits: the upper instructions have no name.
HighLen  == 23 :> 3 @@ 26 :> 5 @@ 31 :> 4 @@ 35 :> 4 @@ 39 :> 1 @@ 40 :> 7
HighFlow == 23 :> {26} @@ 26 :> {31} @@ 31 :> {35} @@ 35 :> {26, 39}
              @@ 39 :> {40} @@ 40 :> {}

\* 12 bytes: three instructions, the second jumps back or on.
TinyLen  == 16 :> 4 @@ 20 :> 4 @@ 24 :> 4
TinyFlow == 16 :> {20} @@ 20 :> {16, 24} @@ 24 :> {}
TinyLine == 16 :> {20, 24} @@ 20 :> {24} @@ 24 :> {}

\* 32 bytes, with padding behind two of the instructions: a jump over it, a
\* loop that may fault, an INT 3 of the program's own, and the exit.
PaddedLen  == 16 :> 3 @@ 19 :> 2 @@ 32 :> 4 @@ 36 :> 2 @@ 38 :> 1 @@ 39 :> 1
PaddedFlow == 16 :> {19} @@ 19 :> {32} @@ 32 :> {36} @@ 36 :> {32, 38}
                @@ 38 :> {39} @@ 39 :> {}

\* Addresses a word apart.  The last one is no unsigned int and saturates; the
\* INT 3 of the program's own looks like 7 when it is cut.
Apart8     == {7, 23, 39}
BeforePadding == {19, 36, 4096, 70000}
Tiny4Unset == {20, NoArg, Bare}

AllCommands == {"exit", "dis", "c", "", "break", "i r", "i b", "help"}
Driving     == {"exit", "c", "nexti", "break"}
Continuing  == {"exit", "continue", "break"}
=============================================================================
