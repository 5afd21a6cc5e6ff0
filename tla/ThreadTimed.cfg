SPECIFICATION StepSpec
CONSTANT MaxRuns = 2
PROPERTY TimedWaitReturns
CHECK_DEADLOCK FALSE
