\* A PolicyInsight or a RuleView: three requests, faults, foreign edits, changes.
CONSTANTS
  MaxRequests = 3
  MaxFaults = 2
  MaxChanges = 2
  Traffics <- MCTraffics
  RuleLists <- MCRuleLists
  Limits = {1, 2, 4}
  LabelsKey <- MCLabelsKey
  IpKey <- MCIpKey
SPECIFICATION FairSpec
INVARIANTS TypeOK QueriesAreBounded ReportIsOfRequest NothingForgotten PreflightIsWhole RuleListIsWhole
PROPERTIES RequestIsAnswered RuleViewFollows
CHECK_DEADLOCK FALSE
