CONSTANTS
  hA = hA
  hV = hV
  hW = hW
  hU = hU
  l1 = l1
  l2 = l2
  c = c
  v1 = v1
  w1 = w1
  v2 = v2
  u = u
  p1 = p1
  p2 = p2
  r1 = r1
  r2 = r2
  None = None
  Processes = {p1}
  Requests = {r1, r2}
  OpenKinds = {"INITIAL", "RENEWAL", "PERSON_BG", "PERSON_AGREEMENT"}
  Inherited = {}
  Leads = {l1, l2}
  Adults = {l1, l2}
  Signers = {c}
  Reviewers = {v1, w1, v2}
  Board = {v2}
  Designated = {hA}
  Households <- Homes
  People <- Everyone
  HouseholdOf <- HomeOf
  Marks <- Unmarked
  ByHand <- HandsOff
SPECIFICATION Spec
CHECK_DEADLOCK FALSE
SYMMETRY SymmetryOfRequests
INVARIANTS
  ActiveIsEarned
  NobodyIsStranded
  ClearedByTwoHouseholds
  DuesFollowTheAllowlist
PROPERTIES
  OnlyTheReviewedAreDated
  GateIsAttended
