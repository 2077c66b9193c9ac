SPECIFICATION Spec
CONSTANTS
  Game = {g1, g2}
  NoGame = none
  PowerCuts = FALSE
  MaxSaves = 3
INVARIANT PowerOffKeepsQuicksave
