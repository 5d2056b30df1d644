------------------------------ MODULE MCSolver ------------------------------
(***************************************************************************)
(* Instances of Solver for TLC: two projects, the zones example.com (in    *)
(* both) and example.org, and challenges that differ in one respect each.  *)
(***************************************************************************)
EXTENDS WebhookService, FiniteSets, TLC

MCLabels == {"", AcmeChallenge, "@", "app", "example", "Example", "com", "org"}
MCToLower == [l \in MCLabels |-> IF l = "Example" THEN "example" ELSE l]
\* The labels have no whitespace.
MCTrim == [l \in MCLabels |-> l]
MCLabelChars == {"app", "example", "Example", "com", "org"}
MCSuffixes == {<<"co", "uk">>}

ExampleCom == <<"example", "com">>
ExampleOrg == <<"example", "org">>

Credential(name, zones, secretName) ==
  [name |-> name, zones |-> zones, secretName |-> secretName, secretKey |-> "",
   namespace |-> ""]

Parsed(credentials) == [json |-> "parsed", credentials |-> credentials]

\* Both zones of project A under one credential; project B's example.com.
ConfigA == Parsed(<<Credential("a", <<<<"Example", "com">>, ExampleOrg>>, "token-a")>>)
ConfigB == Parsed(<<Credential("b", <<ExampleCom>>, "token-b")>>)

SecretA == <<"cert-manager", "token-a", "token">>
SecretB == <<"cert-manager", "token-b", "token">>

Chal(prefix, zone, key, config) ==
  [fqdn |-> <<AcmeChallenge>> \o prefix \o zone \o <<"">>, key |-> key,
   namespace |-> "cert-manager", config |-> config]

Apex == Chal(<<>>, ExampleCom, "k1", ConfigA)
Wildcard == Chal(<<>>, ExampleCom, "k2", ConfigA)
App == Chal(<<"app">>, ExampleCom, "k3", ConfigA)
Org == Chal(<<>>, ExampleOrg, "k4", ConfigA)
Other == Chal(<<>>, ExampleCom, "k5", ConfigB)

OnlyApex == {Apex}
ApexAndWildcard == {Apex, Wildcard}
TwoZones == {App, Org}
\* Apex and Org have the Secret in common, Apex and Other the zone name.
SharedCache == {Apex, Org, Other}

CONSTANTS projA, projB, tokA, tokB, zA, zB, zA2, zOrg

MCProjectOf == [t \in Token |-> IF t = tokA THEN projA ELSE projB]
MCZoneName == [z \in ZoneId |-> IF z = zOrg THEN ExampleOrg ELSE ExampleCom]
MCOwnerAtStart ==
  [z \in ZoneId |-> IF z = zA2 THEN Unborn ELSE IF z = zB THEN projB ELSE projA]

\* At most two of the challenges are ever started.
TwoStarted == Cardinality({ch \in Challenge : phase[ch] # "new"}) <= 2

\* Handler slots are interchangeable; so are pods.
Slots == Permutations(Call) \cup Permutations(Replica)

MCSecretRef == {Route[ch].secret : ch \in Routed}
MCSecretAtStart == [s \in SecretRef |-> IF s = SecretA THEN tokA ELSE tokB]

============================================================================
