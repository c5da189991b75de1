\* A mount brought back by hand is not idled out by the next tick.
SPECIFICATION Spec
CONSTANTS
  Mounts = {scratch}
  TickSpan = 1
  Flaky = FALSE
  Park = 1
  Idle = 2
  TripLimit = 2
  TripWindow = 3
  SustainTicks = 2
  Horizon = 3
PROPERTY IdleComebackIsFresh
