\* nexti on an instruction that carries a breakpoint.
SPECIFICATION Spec
CONSTANTS
  TextBase = 16  TextSize = 24
  InstrLen <- LoopLen  Flow <- LoopFlow
  Entry = 16  Exits = {33}  Faults = {24}  OwnTraps = {32}
  Strays = {26}  Signals = {"INT"}
  WordBytes = 8  SavedBytes = 4  UIntMax = 65535
  MAX_EXECUTED_INSTRUCTIONS = 0
  Typed <- Driving  BreakArgs = {24}
  StdinEnds = FALSE  Garbage = {25}
INVARIANT StepsToInstruction
