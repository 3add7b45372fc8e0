\* POSIX. Two clients, each closed and then destroyed.
CONSTANTS
  Clients = {i1, i2}
  Fds = {f1, f2}
  None = None
  SendCap = 1
  Windows = FALSE
  CallsAgain = TRUE
  NetEnvHeld = FALSE
  MaxWsa = 4
SPECIFICATION ClientSpec
INVARIANTS ClosedByItself
CHECK_DEADLOCK FALSE
