\* Manual mode: three generations, one of them invalid, approvals, failures, restarts.
CONSTANTS
  p = p  q = q  app = app  web = web  env_ = env_
  CR = {p}
  Kind <- OneKind
  Label <- MCLabels
  InitLabels = {app, env_}
  Creatable = {}
  PortNumber = {5432}
  Port <- MCPorts
  SourceOf <- SourceTypo
  SpecOf <- MCSpecs
  Mode = "strict"
  ProvisioningMode = "manual"
  Scopes = {{app}}
  Readiness = {TRUE}
  RetryAfterZero = TRUE
  MaxFaults = 2
  MaxChanges = 2
SPECIFICATION GateSpec
INVARIANTS TypeOK ActiveIsComplete StatusIsTruthful NoOrphan NoLostWakeup GateRespected
PROPERTIES KeepsPromise
CHECK_DEADLOCK FALSE
