\* One signal from outside, and a counter that does not wrap.
SPECIFICATION Spec
CONSTANTS
  TextBase = 16  TextSize = 24
  InstrLen <- LineLen  Flow <- LineFlow
  Entry = 16  Exits = {33}  Faults = {}  OwnTraps = {32}
  Strays = {}  Signals = {"INT"}  WordBytes = 8
  UIntMax = 65535  MaxStops = 1
INVARIANT CountIsExact
