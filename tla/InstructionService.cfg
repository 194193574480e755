SPECIFICATION MCSpec
CONSTANTS
  Instruction = {i1}
  Handler = {h1, h2}
  User = {u1, u2}
  Unaudited = {u2}
  Payment = {p1}
  Null = Null
  Offered = {"CREATE", "UPDATE", "SUBMIT", "APPROVE", "REJECT", "CANCEL", "SUSPEND", "REACTIVATE", "USE", "RELEASE_USE", "VIEW"}
  MaxRequest = 6
  Campaign = {"use", "edit"}
SYMMETRY Symmetry
INVARIANTS
  TypeOK
  VersionsChained
  LegalLineage
  UseAccounted
  AuditMatchesVersions
  EventIdsUnique
  FourEyes
PROPERTY
  ImplementsLedger
CHECK_DEADLOCK FALSE
