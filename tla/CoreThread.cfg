SPECIFICATION CoreSpec
CONSTANT DupeFrames = TRUE
INVARIANTS
  CoreTypeOK
  CoreRunsOnce
PROPERTIES
  NoFrameBehindMenu
  JoinReturns
  KeepsDrawing
\* minarch ends: "unloaded" is final.
CHECK_DEADLOCK FALSE
