\* Every command, an input that may end, a table that fills up; the target has
\* no loop, and damaged text of it ends in a fault.
SPECIFICATION FairSpec
CONSTANTS
  TextBase = 16  TextSize = 12
  InstrLen <- TinyLen  Flow <- TinyLine
  Entry = 16  Exits = {24}  Faults = {20}  OwnTraps = {}
  Strays = {}  Signals = {"INT"}
  WordBytes = 8  SavedBytes = 4  UIntMax = 65535
  MAX_EXECUTED_INSTRUCTIONS = 2
  Typed <- AllCommands  BreakArgs <- Tiny4Unset
  StdinEnds = TRUE  Garbage = {21}
INVARIANTS TableSound ControlsTarget NoOrphan WaitsForTargetOnly
PROPERTIES CommandsReturn ContinueReturns
