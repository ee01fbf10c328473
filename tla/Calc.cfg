\* The four tests and small programs at the ends of an 8-bit int.
SPECIFICATION FairSpec
CONSTANTS
  Batches <- MCBatches
  Value <- MCValue
  Meaning <- MCMeaning
  Rest <- MCRest
  Reads <- MCReads
  Assigned <- MCAssigned
  Assigns <- MCAssigns
  Half = 128
INVARIANTS TypeOK OutcomeIsRight ReadsAreAssigned RecordedOutput
PROPERTIES Terminates ImplementsBatch
