\* Windows, where SIGPIPE ends nothing, and no NetEnv. Two sender threads with two
\* clients each on three descriptors; liveness, so no symmetry.
CONSTANTS
  Clients = {1, 2, 3, 4}
  Fds = {f1, f2, f3}
  None = None
  SendCap = 1
  Windows = TRUE
  NetEnvHeld = FALSE
  CallsAgain = FALSE
  MaxWsa = 4
  Threads = {1, 2}
  NumPerThread = 2
SPECIFICATION FairSpec
INVARIANTS TypeOK DoneReleases NoFalseAlarm
PROPERTIES UsesClientsInOrder ExitCloses LossNoticed
CHECK_DEADLOCK FALSE
