CONSTANTS Capacity = 4
          Work = 2
SPECIFICATION FairSpec
INVARIANTS CurrentIsRunning TwoTasksByDesign OnlyFinishedTasksTerminate
PROPERTIES  EveryReadyTaskRuns ReturnedTasksTerminate
CHECK_DEADLOCK FALSE
