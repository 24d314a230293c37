SPECIFICATION Spec
CONSTANTS
  c1 = c1
  c2 = c2
  l1 = l1
  l2 = l2
  b1 = b1
  b2 = b2
  NoCall = NoCall
  NoBatch = NoBatch
  NoRequest = NoRequest
  NoReply = NoReply
  Calls = {c1, c2}
  Legacy = {c2}
  Labels = {l1}
  LabelOf <- SharedLabel
  Batches = {b1}
  MaxAttempts = 2
  LabelReuse = FALSE
CHECK_DEADLOCK FALSE
INVARIANTS
  SuccessIsOwn
  OnlyOwnerActs
