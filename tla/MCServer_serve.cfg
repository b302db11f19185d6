SPECIFICATION Spec
CONSTANTS
  Thread = {1, 2}
  Coro = {1, 2}
  NoCoro = NoCoro
  NoJob = NoJob
  Validation = {1, 2}
  jtPACK = 1
  jtCLIENT = 2
  jtUPDATE_PF = 3
  jtADVANCE = 4
  jtVALIDATION = 5
  jtWRITE = 6
  JobType <- Types
  JobLimit <- Limits
  Plans <- AllPlans
INVARIANTS
  TaskFindsJob
  AddedBeforeStop
  StoppedMeansDrained
  OneStaleWriter
  FlushWritesRest
PROPERTIES
  JobsRun
  
  StopsUnlessWaiting
  StaleWritten
CHECK_DEADLOCK FALSE
