\* Two CRs of two controllers that mint the same label; one mints the label the other narrows to.
CONSTANTS
  p = p  q = q  app = app  web = web  env_ = env_
  CR = {p, q}
  Kind <- TwoKinds
  Label <- MCLabels
  InitLabels = {app}
  Creatable = {web, env_}
  PortNumber = {5432}
  Port <- MCPorts
  SourceOf <- SourceMint
  SpecOf <- MCSpecs
  Written <- MCWritten
  Mode = "create"
  ProvisioningMode = "auto"
  Scopes = {{app}}
  Readiness = {TRUE}
  RetryAfterZero = FALSE
  MaxFaults = 0
  MaxChanges = 0
SPECIFICATION FairSpec
INVARIANTS ActiveIsComplete EnforcedIsGranted 
PROPERTIES Converges
CHECK_DEADLOCK FALSE
