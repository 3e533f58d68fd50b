\* Two namespaces, two generations, a label the PCE refuses to one of them.
CONSTANTS
  shop = shop  infra = infra  c = c
  Namespace = {shop, infra}
  K8sKey = {"team"}
  Key = {"app", "env"}
  Value = {"x", "y"}
  Specs <- SpecsTwo
  CR = {c}
  NsOf <- InShop
  Metas <- MetasTwo
  Requests = {"", "full"}
  Console <- ConsoleTwo
  BadPairs <- BadInfra
  LabelMaps <- MapsEnv
  MaxFaults = 1
  MaxChanges = 2
SPECIFICATION FairSpec
INVARIANTS TypeOK CleanIsApplied
PROPERTIES Converges OverlapIsReported
CHECK_DEADLOCK FALSE
