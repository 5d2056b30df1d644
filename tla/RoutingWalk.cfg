SPECIFICATION Spec
CONSTANTS
  ToLower <- MCToLower
  TrimLeft <- MCTrimLeft
  TrimRight <- MCTrimRight
  LabelChars <- Words
  MultiPartPublicSuffixes <- MCSuffixes
  Configs <- MCConfigs
  FQDNs <- MCFQDNs
INVARIANTS
  WalkFindsLongest
  OneOwner
  RecordExact
CHECK_DEADLOCK FALSE
