\* An administrator deletes, reverts and provisions at the PCE console.
CONSTANTS
  p = p  q = q  app = app  web = web  env_ = env_
  CR = {p}
  Kind <- OneKind
  Label <- MCLabels
  InitLabels = {app, env_}
  Creatable = {}
  PortNumber = {5432}
  Port <- MCPorts
  SourceOf <- SourceReplace
  SpecOf <- MCSpecs
  Mode = "strict"
  ProvisioningMode = "auto"
  Scopes = {{app}}
  Readiness = {TRUE}
  RetryAfterZero = FALSE
  MaxFaults = 1
  MaxChanges = 2
SPECIFICATION FairLossySpec
INVARIANTS NoLostWakeup
PROPERTIES Converges ConflictIsReported DeletionCompletes PendingDeletionDeferred
CHECK_DEADLOCK FALSE
