SPECIFICATION WorkSpec
PROPERTY WorkEnds
CHECK_DEADLOCK FALSE
