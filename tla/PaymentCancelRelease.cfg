SPECIFICATION Spec
CONSTANTS
  Payment = {p1}
  Instruction = {i1}
  Handler = {h1}
  Null = Null
  Overlaps = {FALSE}
  Faults = FALSE
  MaxRequest <- FewRequests
  MaxVersion <- FewVersions
INVARIANT
  CancelReleases
CHECK_DEADLOCK FALSE
