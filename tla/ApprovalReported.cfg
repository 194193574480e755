SPECIFICATION MCSpec
CONSTANTS
  User = {u1}
  Payment = {p1}
  Run = {r1}
  Thread = {t1}
  Skill = {"APPROVE"}
  MaxFaults = 0
  MaxMoves = 1
  Null = Null
  Campaign = {"crowd"}
INVARIANT
  ApprovalReported
CHECK_DEADLOCK FALSE
