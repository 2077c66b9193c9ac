SPECIFICATION Spec
CONSTANTS
  Platforms <- Devices
  Clients = {"minui"}
  VOLUME_MAX = 1
  BRIGHTNESS_MAX = 1
  MaxEvents <- Events
INVARIANTS TypeOK SavedWhenQuiet NoRunaway PortsReported
CHECK_DEADLOCK FALSE
