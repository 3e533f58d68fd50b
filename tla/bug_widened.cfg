\* Skip mode keeps a multi-label consumer with the labels it knows.
CONSTANTS
  p = p  q = q  app = app  web = web  env_ = env_
  CR = {p}
  Kind <- OneKind
  Label <- MCLabels
  InitLabels = {app, env_}
  Creatable = {}
  PortNumber = {5432}
  Port <- MCPorts
  SourceOf <- SourcePair
  SpecOf <- MCSpecs
  Mode = "skip"
  ProvisioningMode = "auto"
  Scopes = {{app}}
  Readiness = {TRUE}
  RetryAfterZero = FALSE
  MaxFaults = 0
  MaxChanges = 1
SPECIFICATION Spec
INVARIANTS NoRuleIsWidened
CHECK_DEADLOCK FALSE
