SPECIFICATION FairSpec
CONSTANTS
  c1 = c1
  c2 = c2
  c3 = c3
  b1 = b1
  b2 = b2
  NoRequest = NoRequest
  NoReply = NoReply
  Calls = {c1, c2, c3}
  Legacy = {c3}
  Bases = {b1}
  BaseLabel <- SharedBase
  MaxRetries = 1
CHECK_DEADLOCK FALSE
INVARIANTS
  TypeOK
  AtMostOnce
  SuccessIsOwn
PROPERTIES
  ImplementsLabelledLoad
  Returns
