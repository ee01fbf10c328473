\* A 64-bit target, its upper half above every unsigned int; break commands that
\* keep a word's distance.
SPECIFICATION Spec
CONSTANTS
  TextBase = 23  TextSize = 24
  InstrLen <- HighLen  Flow <- HighFlow
  Entry = 23  Exits = {40}  Faults = {31}  OwnTraps = {39}
  Strays = {33, 42}  Signals = {"INT", "TRAP"}
  WordBytes = 8  SavedBytes = 4  UIntMax = 31
  MAX_EXECUTED_INSTRUCTIONS = 0
  Typed <- Driving  BreakArgs <- Apart8
  StdinEnds = FALSE  Garbage = {24}
INVARIANTS TypeOK ListedArePlanted SavedAreOriginal DamageIsConfined
PROPERTIES HitIsExact NeverRunsPast
