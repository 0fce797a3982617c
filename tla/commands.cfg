SPECIFICATION Spec
CONSTANTS
  h1 = h1  h2 = h2  here = here
  Attempts = 3
  MaxSteps = 3
  Hosts = {h1, h2, here}
  Localhost = here
  Steps <- MixedSteps
  Sessions <- MixedSessions
  Spaced = {3}
  SshFails = TRUE
CHECK_DEADLOCK FALSE
INVARIANTS
  TypeOK
  StepsInOrder
  OneVariationAtATime
  CompletedScriptsRan
PROPERTY
  RunCommandReturns
