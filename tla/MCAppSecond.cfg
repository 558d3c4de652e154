SPECIFICATION AppFairSpec
CONSTANTS
  Loops = {l1, l2}
  Front = l1
  Main = Main
  Callers = {}
  MaxSignals = 2
  DeadlineComes = FALSE
CHECK_DEADLOCK FALSE
PROPERTY SecondSignalStops
