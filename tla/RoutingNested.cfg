SPECIFICATION Spec
CONSTANTS
  ToLower <- MCToLower
  TrimLeft <- MCTrimLeft
  TrimRight <- MCTrimRight
  LabelChars <- Words
  MultiPartPublicSuffixes <- MCSuffixes
  Configs <- MCConfigs
  FQDNs <- MCFQDNs
INVARIANT
  AtMostOneMatch
CHECK_DEADLOCK FALSE
