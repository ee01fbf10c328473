\* Breakpoints on the instructions with padding behind them, at the width of
\* x86-64; continue alone.
SPECIFICATION Spec
CONSTANTS
  TextBase = 16  TextSize = 32
  InstrLen <- PaddedLen  Flow <- PaddedFlow
  Entry = 16  Exits = {39}  Faults = {32}  OwnTraps = {38}
  Strays = {26, 35}  Signals = {"INT", "TRAP"}
  WordBytes = 8  SavedBytes = 4  UIntMax = 65535
  MAX_EXECUTED_INSTRUCTIONS = 0
  Typed <- Continuing  BreakArgs <- BeforePadding
  StdinEnds = FALSE  Garbage = {25}
INVARIANT RunsOwnCode
PROPERTY ImplementsAbstract
