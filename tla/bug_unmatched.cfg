\* A namespace no rule matches, labelled by hand.
CONSTANTS
  shop = shop  infra = infra  c = c
  Namespace = {shop, infra}
  K8sKey = {"team"}
  Key = {"app"}
  Value = {"x", "y"}
  Specs <- SpecsOne
  CR = {c}
  NsOf <- InShop
  Metas <- MetasNone
  Requests = {"", "full"}
  Console <- ConsoleTwo
  BadPairs <- NoBadPairs
  LabelMaps <- NoMaps
  MaxFaults = 0
  MaxChanges = 1
SPECIFICATION Spec
PROPERTIES UnmatchedLeftAlone
CHECK_DEADLOCK FALSE
