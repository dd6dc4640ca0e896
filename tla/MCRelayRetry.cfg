SPECIFICATION Spec
CONSTANTS
    c1 = c1
    c2 = c2
    h1 = h1
    h2 = h2
    s1 = s1
    s2 = s2
    i1 = i1
    i2 = i2
    None = None
    Conns = {c1, c2, h1, h2}
    Token <- RetryToken
    Sessions = {s1, s2}
    Identities = {i1, i2}
CHECK_DEADLOCK FALSE
INVARIANTS
  
  SessionsAccounted
  BridgedOnce
PROPERTIES
  ClosingEnds
