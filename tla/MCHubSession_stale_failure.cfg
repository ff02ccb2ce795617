CONSTANTS
  s1 = s1
  c1 = c1
  c2 = c2
  c3 = c3
  b1 = b1
  b2 = b2
  Session = {s1}
  Conn = {c1, c2, c3}
  Bot = {b1, b2}
  None = None
  Owner <- OneOwner
  BotOf <- TwoBots
  MaxAttempts = 1
  MaxPooled = 1
SPECIFICATION Spec
INVARIANT OneConnection
CHECK_DEADLOCK FALSE
