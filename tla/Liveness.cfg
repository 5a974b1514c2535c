SPECIFICATION LiveSpec
CHECK_DEADLOCK FALSE
PROPERTY EventuallySettled
PROPERTY ControlPlaneProgress
PROPERTY StreamsEnd
