CONSTANTS
  Uids = {u1, u2, u3}
  DecodeWait = 2
  PrefillWait = 3
  MaxStep = 2
  MaxCuts = 1
  MaxAge = 14
  None = None
SPECIFICATION Spec
INVARIANTS
  DecodeWaitBounded
  PrefillWaitBounded
