SPECIFICATION FairSpec
CONSTANTS
  ToLower <- MCToLower
  TrimLeft <- MCTrim
  TrimRight <- MCTrim
  LabelChars <- MCLabelChars
  MultiPartPublicSuffixes <- MCSuffixes
  projA = projA
  projB = projB
  tokA = tokA
  tokB = tokB
  zA = zA
  zB = zB
  zA2 = zA2
  zOrg = zOrg
  ProjectOf <- MCProjectOf
  ZoneName <- MCZoneName
  OwnerAtStart <- MCOwnerAtStart
  SecretRef <- MCSecretRef
  SecretAtStart <- MCSecretAtStart
  Unborn = Unborn
  Gone = Gone
  Foreign = Foreign
  NoEntry = NoEntry
  NoToken = NoToken
  NoZone = NoZone
  NoResponse = NoResponse
  Idle = Idle
  None = None
  Challenge <- OnlyApex
  Replica = {r1}
  Call = {c1}
  Project = {projA, projB}
  Token = {tokA, tokB}
  ZoneId = {zA, zB, zA2}
  PageSize = 2
  ZoneCacheTTL = 1
  MaxRetries = 1
  RequestBudget = 2
  FaultKinds = {"500", "transport", "crash", "slow"}
  MaxFaults = 2
  ChurnKinds = {"delete", "create", "move", "rotate", "revoke"}
  MaxChurn = 2
INVARIANT
  StaleIdBounded
PROPERTIES
  PresentRecovers
  CleanUpRecovers
