\* A CR deleted while no profile is usable leaves its ruleset enforced.
CONSTANTS
  p = p  q = q  app = app  web = web  env_ = env_
  CR = {p}
  Kind <- OneKind
  Label <- MCLabels
  InitLabels = {app, env_}
  Creatable = {}
  PortNumber = {5432}
  Port <- MCPorts
  SourceOf <- SourceSimple
  SpecOf <- MCSpecs
  Mode = "strict"
  ProvisioningMode = "auto"
  Scopes = {{app}}
  Readiness = {TRUE, FALSE}
  RetryAfterZero = FALSE
  MaxFaults = 0
  MaxChanges = 1
SPECIFICATION Spec
INVARIANTS NoOrphan
CHECK_DEADLOCK FALSE
