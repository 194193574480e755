SPECIFICATION MCSpec
CONSTANTS
  User = {u1, u2}
  Payment = {p1, p2}
  Run = {r1, r2}
  Thread = {t1, t2}
  Skill = {"CREATE", "SUBMIT", "APPROVE", "CANCEL"}
  MaxFaults = 1
  MaxMoves = 1
  Null = Null
  Campaign = {"crowd", "rivals"}
INVARIANTS
  TypeOK
  OneChangePerGo
  OutcomesBacked
PROPERTY
  DecisionRecorded
CHECK_DEADLOCK FALSE
