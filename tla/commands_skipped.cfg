SPECIFICATION Spec
CONSTANTS
  h1 = h1  h2 = h2  here = here
  Attempts = 1
  MaxSteps = 3
  Hosts = {h1, h2, here}
  Localhost = here
  Steps <- CommandSteps
  Sessions <- AllConnected
  Spaced = {}
  SshFails = FALSE
CHECK_DEADLOCK FALSE
INVARIANT
  CompletedStepsRan
