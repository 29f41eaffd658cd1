SPECIFICATION Spec
CONSTANT Cases <- MCAwak
PROPERTY DisconnectsOnDsrOff
CHECK_DEADLOCK FALSE
