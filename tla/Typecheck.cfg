\* The programs of the driver, pairs of them, and families of small ones.
CONSTANTS
  Batches <- MCBatches
  Yields <- MCYields
  Nodes <- MCNodes
  Free <- MCFree
SPECIFICATION FairSpec
INVARIANTS TypeOK VerdictIsRight ProgramsAreClosed EnvironmentsAreLexical RecordedOutput
PROPERTIES Terminates ImplementsBatch
