SPECIFICATION Spec
CONSTANTS
  Games = {a, b}
  Count <- Counts
  Initial <- Initials
  system_cfg <- System
  default_cfg <- Pak
  Locks = {"effect"}
  NoFile = NoFile
  Removed = Removed
  Unknown = Unknown
  Cuts = {0, 5}
  MaxChanges = 2
  MaxWrites = 3
SYMMETRY Symmetry
INVARIANTS TypeOK CleanIsInForce SavedComesBack AppliedIsSet
