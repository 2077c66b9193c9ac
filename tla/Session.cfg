SPECIFICATION Spec
CONSTANTS
  Game = {g1, g2}
  NoGame = none
  PowerCuts = TRUE
  MaxSaves = 3
INVARIANTS
  TypeOK
  ResumeLoadsItsQuicksave
  LoadsChosenSlot
PROPERTIES
  ResumeAtMostOnce
