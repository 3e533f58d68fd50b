\* Skip and manual mode: late labels, approvals, liveness under failures.
CONSTANTS
  p = p  q = q  app = app  web = web  env_ = env_
  CR = {p}
  Kind <- OneKind
  Label <- MCLabels
  InitLabels = {app, env_}
  Creatable = {}
  PortNumber = {5432}
  Port <- MCPorts
  SourceOf <- SourceLate
  SpecOf <- MCSpecs
  Mode = "skip"
  ProvisioningMode = "manual"
  Scopes = {{app}, {env_}}
  Readiness = {TRUE, FALSE}
  RetryAfterZero = FALSE
  MaxFaults = 1
  MaxChanges = 2
SPECIFICATION FairSpec
INVARIANTS ActiveIsComplete NoLostWakeup
PROPERTIES Converges StatusConverges DeletionCompletes
CHECK_DEADLOCK FALSE
