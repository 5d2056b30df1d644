SPECIFICATION Spec
CONSTANTS
  ToLower <- MCToLower
  TrimLeft <- MCTrim
  TrimRight <- MCTrim
  LabelChars <- MCLabelChars
  MultiPartPublicSuffixes <- MCSuffixes
  projA = projA
  projB = projB
  tokA = tokA
  tokB = tokB
  zA = zA
  zB = zB
  zA2 = zA2
  zOrg = zOrg
  ProjectOf <- MCProjectOf
  ZoneName <- MCZoneName
  OwnerAtStart <- MCOwnerAtStart
  SecretRef <- MCSecretRef
  SecretAtStart <- MCSecretAtStart
  Unborn = Unborn
  Gone = Gone
  Foreign = Foreign
  NoEntry = NoEntry
  NoToken = NoToken
  NoZone = NoZone
  NoResponse = NoResponse
  Idle = Idle
  None = None
  Challenge <- OnlyApex
  Replica = {r1}
  Call = {c1}
  Project = {projA}
  Token = {tokA}
  ZoneId = {zA}
  PageSize = 1
  ZoneCacheTTL = 1
  MaxRetries = 0
  RequestBudget = 2
  FaultKinds = {"empty"}
  MaxFaults = 1
  ChurnKinds = {}
  MaxChurn = 0
INVARIANTS
  CleanedMeansGone
