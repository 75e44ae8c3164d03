CONSTANTS
  p1 = p1
  p2 = p2
  Process <- MCProcess
  Nobody = Nobody
  Gone = Gone
  Lease = 8
  Interval = 2
  Gap = 2
  MaxEvidence = 1
  Environment <- Failing
SPECIFICATION Spec
INVARIANTS LeaseTypeOK OneOwner
PROPERTIES NeverErased EvidenceIsSaved
