SPECIFICATION FairSpec
CONSTANTS
  Payment = {p1, p2}
  Instruction = {i1}
  Handler = {h1, h2}
  Null = Null
  Overlaps = {FALSE}
  Faults = FALSE
  MaxRequest <- FiveRequests
  MaxVersion <- ThreeVersions
PROPERTY
  WithdrawalReleases
CHECK_DEADLOCK FALSE
