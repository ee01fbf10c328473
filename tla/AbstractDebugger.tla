--------------------------- MODULE AbstractDebugger ---------------------------
(***************************************************************************)
(* What a debugger promises to a user who sets breakpoints and continues:   *)
(* the program runs as it is, and is held where it was asked to be, once    *)
(* for each time it was asked.  There is no text to change, no trap and no  *)
(* pointer to set back.                                                     *)
(***************************************************************************)
EXTENDS Integers

CONSTANTS
  Flow,      \* place -> places the program may be next
  Entry,     \* where it starts
  Exits,     \* places where it may end
  Faults,    \* places where it may fault
  OwnTraps,  \* places where it stops by itself, one byte further
  Signals,   \* other signals that may hold it
  Asked      \* the addresses its user may name

VARIABLES
  process,      \* what the process does
  place,        \* where it is, as long as it lives
  reason,       \* the signal that held it last
  breakpoints   \* the addresses where it will be held

vars == <<process, place, reason, breakpoints>>

Init ==
  /\ process = "starting" /\ place = Entry
  /\ reason = "none" /\ breakpoints = {}

Held(why) == process' = "held" /\ reason' = why

\* The program has been loaded and waits for its user.
Load ==
  /\ process = "starting" /\ Held("TRAP")
  /\ UNCHANGED <<place, breakpoints>>

SetBreakpoint ==
  /\ process = "held"
  /\ \E a \in Asked : breakpoints' = breakpoints \cup {a}
  /\ UNCHANGED <<process, place, reason>>

\* The user lets it go on.
Go ==
  /\ process = "held"
  /\ process' = "running"
  /\ UNCHANGED <<place, reason, breakpoints>>

\* It is at a breakpoint: nothing is executed.
Hit ==
  /\ process = "running" /\ place \in breakpoints /\ Held("TRAP")
  /\ breakpoints' = breakpoints \ {place}
  /\ UNCHANGED place

\* One instruction of the program, never one with a breakpoint.
Execute ==
  /\ process = "running" /\ place \notin breakpoints
  /\ place' \in Flow[place]
  /\ IF place \in OwnTraps THEN Held("TRAP") ELSE UNCHANGED <<process, reason>>
  /\ UNCHANGED breakpoints

\* A fault, or a signal from outside, holds it where it is.
Interrupted ==
  /\ process = "running"
  /\ \/ place \in Faults /\ place \notin breakpoints /\ Held("SEGV")
     \/ \E s \in Signals : Held(s)
  /\ UNCHANGED <<place, breakpoints>>

\* Of a process that has ended nothing is promised but its end.
Ends(how) ==
  /\ process' = how
  /\ place' = Entry /\ reason' = "none" /\ breakpoints' = {}

Exit ==
  /\ \/ process = "running" /\ place \in Exits /\ place \notin breakpoints
     \/ process = "starting"                          \* it cannot be loaded
  /\ Ends("exited")

Killed == process \in {"starting", "running", "held"} /\ Ends("killed")

Collected == process \in {"exited", "killed"} /\ Ends("gone")

Next == \/ Load \/ SetBreakpoint \/ Go \/ Hit \/ Execute
        \/ Interrupted \/ Exit \/ Killed \/ Collected

Spec == Init /\ [][Next]_vars
=============================================================================
