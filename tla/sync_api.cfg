SPECIFICATION ApiSpec
CONSTANTS
  Actions = {a1, a2}
  MaxReloads = 0
CHECK_DEADLOCK FALSE
PROPERTIES
  Drains
