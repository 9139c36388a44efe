SPECIFICATION FairSpec
CONSTANTS
  p = p
  q = q
  j = j
  k = k
  People <- Both
  Kiosks <- MCKiosks
  Unknown <- Both
  Gone <- Never
  Fast <- MCFast
  Badges <- MCBadges
  MaxScans = 2
  MaxStray = 1
  Straying <- MCStraying
CHECK_DEADLOCK FALSE
INVARIANTS
  TypeOK
  RecordedOnce
  AcknowledgedIsRecorded
PROPERTIES
  EffectsInOrder
  ReplayTakesItsTurn
  QueueEmpties
