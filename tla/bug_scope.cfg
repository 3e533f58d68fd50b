\* A namespace relabelled after its ruleset was created.
CONSTANTS
  p = p  q = q  app = app  web = web  env_ = env_
  CR = {p}
  Kind <- OneKind
  Label <- MCLabels
  InitLabels = {app, env_}
  Creatable = {}
  PortNumber = {5432}
  Port <- MCPorts
  SourceOf <- SourceSimple
  SpecOf <- MCSpecs
  Mode = "strict"
  ProvisioningMode = "auto"
  Scopes = {{app}, {env_}}
  Readiness = {TRUE}
  RetryAfterZero = FALSE
  MaxFaults = 0
  MaxChanges = 1
SPECIFICATION FairSpec
PROPERTIES ReplacedInFull
CHECK_DEADLOCK FALSE
