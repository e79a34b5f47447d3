CONSTANT Readings <- MCReadings
SPECIFICATION Spec
INVARIANT TypeOK
INVARIANT MisreadCaught
CHECK_DEADLOCK FALSE
