SPECIFICATION Spec
CONSTANTS
  Call = {c1, c2, c3}
  Person = {ann, bob}
  Nobody = Nobody
  MaxRequests = 2
  MaxMessages = 1
CHECK_DEADLOCK FALSE
INVARIANTS
  NoRequestBetweenFriends
