CONSTANT SendBuffer = 3
SPECIFICATION ConnectionSpec
PROPERTY DoneEnds
CHECK_DEADLOCK FALSE
