SPECIFICATION Spec
CONSTANTS
  Strings <- MCStrings
  Configs <- MCConfigs
  Records <- MCRecords
  Expressions <- MCExpressions
  Depth <- MCDepth
  Values <- MCValues
  Compiles <- MCCompiles
  AlphaNum <- MCAlphaNum
  ToLower <- MCToLower
  FindStringSubmatch <- MCFindStringSubmatch
  Matches <- MCMatches
INVARIANTS AcceptedHasItsExpressions ValidationCountsFirst KeysAreReachable OperatorsAsDocumented ValuesArePrintable
