\* Windows, beside a server that holds NetEnv. Three clients on two descriptors,
\* used in any order of calls that has each closed once.
CONSTANTS
  Clients = {i1, i2, i3}
  Fds = {f1, f2}
  None = None
  SendCap = 1
  Windows = TRUE
  NetEnvHeld = TRUE
  CallsAgain = FALSE
  MaxWsa = 5
SPECIFICATION ClientSpec
INVARIANTS ClosedByItself OwnSocket NoLeakedSocket
CHECK_DEADLOCK FALSE
