\* Signals, and a counter that wraps round.  An instruction that faults would
\* be tried for ever; there is none.
SPECIFICATION FairSpec
CONSTANTS
  TextBase = 16  TextSize = 24
  InstrLen <- LineLen  Flow <- LineFlow
  Entry = 16  Exits = {33}  Faults = {}  OwnTraps = {32}
  Strays = {}  Signals = {"INT"}  WordBytes = 8
  UIntMax = 3  MaxStops = 6
INVARIANTS TypeOK StopsAreCounted NeverWaitsForNothing NoOrphan
PROPERTY Terminates
