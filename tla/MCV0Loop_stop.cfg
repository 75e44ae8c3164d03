CONSTANTS
  Capacity = 2
  Reserve = 1
  Margin = 1
  Cap = 1
  MaxLoopErrors = 2
  Enough = 1
  Environment <- Harsh
SPECIFICATION FairSpec
INVARIANTS OneWriteAfterLatch WritesAreRecorded OnlyTapTransitions
PROPERTIES EvidenceIsEarned StopsWhenAsked
