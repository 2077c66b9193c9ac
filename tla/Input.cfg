SPECIFICATION Spec
CONSTANTS
  Devices <- AllDevices
  Frames = {1}
  SLEEP_DELAY = 2
  HOLD_DELAY = 2
  MENU_DELAY = 1
  OFF_DELAY = 2
  DEFER_FRAMES = 1
  MaxQueue = 2
INVARIANTS TypeOK NoStuckButton HoldIsHeld ClosedLidSleeps NoSleepAfterWake RumbleGivenBack
CHECK_DEADLOCK FALSE
