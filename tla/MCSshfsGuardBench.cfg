\* A benched mount stays down until mounted by hand.
SPECIFICATION Spec
CONSTANTS
  Mounts = {scratch}
  TickSpan = 1
  Flaky = FALSE
  Park = 1
  Idle = 2
  TripLimit = 2
  TripWindow = 3
  SustainTicks = 2
  Horizon = 3
PROPERTY BenchedStaysDown
