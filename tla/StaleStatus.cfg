\* The target is gone and commands keep coming.
SPECIFICATION AttentiveSpec
CONSTANTS
  TextBase = 16  TextSize = 12
  InstrLen <- TinyLen  Flow <- TinyFlow
  Entry = 16  Exits = {24}  Faults = {20}  OwnTraps = {}
  Strays = {}  Signals = {}
  WordBytes = 8  SavedBytes = 4  UIntMax = 65535
  MAX_EXECUTED_INSTRUCTIONS = 0
  Typed = {"c", "i b", "exit"}  BreakArgs = {20}
  StdinEnds = FALSE  Garbage = {21}
PROPERTY EndsWithTarget
