\* Create mode, the pairing profile named later, and adopt mode.
CONSTANTS
  s1 = s1  s2 = s2
  Output = {s1, s2}
  Specs <- SpecsPaths
  RetryAfterZero = FALSE
  MaxFaults = 1
  MaxChanges = 2
SPECIFICATION FairSpec
INVARIANTS TypeOK OnboardedIsPublished DeadEndIsLoss
PROPERTIES Onboards ConnectionRecovers
CHECK_DEADLOCK FALSE
