SPECIFICATION MCSpec
CONSTANTS
  Instruction = {i1}
  Handler = {h1, h2}
  User = {u1, u2}
  Unaudited = {}
  Payment = {p1}
  Null = Null
  Offered = {"CREATE", "UPDATE", "SUBMIT", "APPROVE", "REJECT", "CANCEL", "VIEW"}
  MaxRequest = 4
  Campaign = {"edit"}
SYMMETRY Symmetry
INVARIANT
  TerminalIsFinal
CHECK_DEADLOCK FALSE
