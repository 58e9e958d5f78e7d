SPECIFICATION EvaluationSpec
CONSTANTS
  Setups <- AllSetups
  Instances <- AllInstances
  MailsIn <- AllMails
  Lists <- AllLists
CHECK_DEADLOCK FALSE
INVARIANTS
  ConditionsMeanTheGrammar
  RouteIsFirstMatch
  DecisionIsFirstMatch
  DetectionIsHeeded
