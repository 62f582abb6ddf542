CONSTANTS
  q1 = q1
  q2 = q2
  None = None
  Requests = {q1, q2}
  MaxTokens = 4
  MaxCalls = 4
  MaxFaults = 1
SPECIFICATION Spec
INVARIANTS OneActive LogoutFinal HeldIsUsable SignedOutForgets OneLogin
PROPERTY RequestsEnd
CHECK_DEADLOCK FALSE
