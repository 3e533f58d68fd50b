\* A deletion marked between the look-up and the provisioning is carried out.
CONSTANTS
  p = p  q = q  app = app  web = web  env_ = env_
  CR = {p}
  Kind <- OneKind
  Label <- MCLabels
  InitLabels = {app, env_}
  Creatable = {}
  PortNumber = {5432}
  Port <- MCPorts
  SourceOf <- SourceSimple
  SpecOf <- MCSpecs
  Mode = "strict"
  ProvisioningMode = "auto"
  Scopes = {{app}}
  Readiness = {TRUE}
  RetryAfterZero = FALSE
  MaxFaults = 0
  MaxChanges = 1
SPECIFICATION ConsoleSpec
PROPERTIES PendingDeletionRespected
CHECK_DEADLOCK FALSE
