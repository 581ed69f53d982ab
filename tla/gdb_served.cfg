SPECIFICATION Spec
CONSTANT MaxPackets = 2
PROPERTY PacketsAnswered
CHECK_DEADLOCK FALSE
