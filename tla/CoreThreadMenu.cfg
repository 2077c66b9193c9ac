SPECIFICATION CoreSpec
CONSTANT DupeFrames = TRUE
PROPERTY MenuOpens
\* minarch ends: "unloaded" is final.
CHECK_DEADLOCK FALSE
