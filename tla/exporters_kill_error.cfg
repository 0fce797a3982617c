SPECIFICATION Spec
CONSTANTS
  cpu = cpu  power = power
  h1 = h1  here = here
  Rounds = 3
  Hosts = {h1, here}
  LocalHosts = {here}
  Exporters = {cpu, power}
  MaxExporters = 2
  Plan <- SamePlan
  Spaced = {}
  StageFails = FALSE
  SpawnFails = FALSE
  KillFails = TRUE
  SettleInTime = TRUE
  NoProcess = NoProcess
CHECK_DEADLOCK FALSE
INVARIANT
  Undisturbed
