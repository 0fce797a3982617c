SPECIFICATION Spec
CONSTANTS
  h1 = h1  h2 = h2  nohost = nohost
  a1 = a1  a2 = a2
  cpu = cpu  noexporter = noexporter
  x = x  v1 = v1  v2 = v2  sh = sh  dep = dep
  Configs <- MCConfigs
  ExperimentConfigs <- MCExperimentConfigs
  SshAddresses = {a1, a2}
  Localhost = Localhost
  None = None
  Files <- MCFiles
CHECK_DEADLOCK FALSE
INVARIANT
  ExecuteConnected
