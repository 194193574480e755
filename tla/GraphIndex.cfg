SPECIFICATION Spec
CONSTANTS
  i1 = i1
  i2 = i2
  p1 = p1
  p2 = p2
  a1 = a1
  a2 = a2
  t1 = t1
  t2 = t2
  l1 = l1
  l2 = l2
  Instruction = {i1, i2}
  Payment = {p1, p2}
  Account = {a1, a2}
  Terms = {t1, t2}
  Lob = {l1, l2}
  Null = Null
  MaxVersion = 6
  Replayer = {replay}
  MaxParked = 1
  Logs <- Deliveries
INVARIANTS
  TypeOK
  CurrentIsNewest
  SubmittedConsumes
  ConflictsFound
  VersionsAsRecorded
  InstructionAnswersAgree
  PaymentAnswersAgree
CHECK_DEADLOCK FALSE
