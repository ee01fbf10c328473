\* A loop over a comparison.
CONSTANTS
  Batches <- MCBatches
  Yields <- MCYields
  Nodes <- MCNodes
  Free <- MCFree
SPECIFICATION Spec
INVARIANT ComparisonIsBool
