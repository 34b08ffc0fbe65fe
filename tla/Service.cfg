SPECIFICATION Spec
CONSTANTS
  a = a
  b = b
  k1 = k1
  k2 = k2
  Missing = Missing
  Tenants <- MCTenants
  Migrations = 1
  Files <- MCFiles
  Envs <- MCEnvs
  Watcher = a
  Conns = {k1, k2}
  BufferSize = 2
  MaxSeq = 4
INVARIANTS
  TypeOK
  NoSilentHole
PROPERTIES
  OneSignalDrains
  EveryTenantTicked
  StopEnds
