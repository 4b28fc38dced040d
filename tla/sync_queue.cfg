SPECIFICATION Spec
CONSTANTS
  Actions = {a1, a2, a3}
  MaxReloads = 1
CHECK_DEADLOCK FALSE
INVARIANTS
  TypeOK
  BadgeIsHonest
  InOrder
PROPERTIES
  StoredUntilTaken
  PassEnds
  Drains
