SPECIFICATION Spec
CONSTANTS
  Payment = {p1, p2}
  Instruction = {i1}
  Handler = {h1, h2}
  Null = Null
  Overlaps = {TRUE, FALSE}
  Faults = TRUE
  MaxRequest <- Requests
  MaxVersion <- MCVersions
SYMMETRY Symmetry
INVARIANTS
  TypeOK
  SubmittedBacked
  ReleasedAfterWithdrawal
  TerminalIsFinal
  SingleUse
  ApprovedOnOwnTerms
CHECK_DEADLOCK FALSE
