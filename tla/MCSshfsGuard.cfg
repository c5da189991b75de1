\* Every interleaving of the guard and the owner over one mount.
SPECIFICATION FairSpec
CONSTANTS
  Mounts = {scratch}
  TickSpan = 1
  Flaky = TRUE
  Park = 2
  Idle = 2
  TripLimit = 2
  TripWindow = 4
  SustainTicks = 2
  Horizon = 4
INVARIANTS TypeOK OwedIsRemembered
PROPERTIES NoCycling CooldownHolds OwedIsPaid
