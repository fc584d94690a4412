\* A stop request against a run that ends for another reason.
SPECIFICATION ControlFairSpec
CONSTANT MaxInterrogate = 0
CHECK_DEADLOCK FALSE
PROPERTY StopRequestStops
