----------------------------- MODULE MCRouting -----------------------------
(***************************************************************************)
(* Instances of RoutingWalk for TLC: every pair of credentials over a few  *)
(* zones, valid ones and invalid ones, and FQDNs in mixed case, with and   *)
(* without the challenge label, a trailing dot and outer whitespace.       *)
(***************************************************************************)
EXTENDS RoutingWalk

Words == {"app", "co", "com", "example", "Example", "uk"}
MCLabels == Words \cup {"", AcmeChallenge, "@", "*", " ", "com ", " _acme-challenge"}
MCToLower == [l \in MCLabels |-> IF l = "Example" THEN "example" ELSE l]
MCTrimLeft ==
  [l \in MCLabels |->
     CASE l = " " -> "" [] l = " _acme-challenge" -> AcmeChallenge [] OTHER -> l]
MCTrimRight == [l \in MCLabels |-> CASE l = " " -> "" [] l = "com " -> "com" [] OTHER -> l]
MCSuffixes == {<<"co", "uk">>}

Zones ==
  {<<"com">>, <<"example", "com">>, <<"Example", "com">>, <<"co", "uk">>,
   <<"example", "co", "uk">>, <<"app", "example", "com">>, <<"*", "com">>,
   <<"com", "">>}

ZoneLists == {<<>>} \cup {<<z>> : z \in Zones} \cup {<<y, z>> : y, z \in Zones}

Credential(name, zones) ==
  [name |-> name, zones |-> zones, apiTokenSecretRef |-> <<"ns", name, "token">>]
WithoutRef == [Credential("a", <<<<"com">>>>) EXCEPT !.apiTokenSecretRef = NoSecretRef]

MCConfigs ==
  {<<>>, <<WithoutRef>>}
    \cup {<<Credential("a", zs)>> : zs \in ZoneLists}
    \cup {<<Credential("a", ys), Credential(n, <<z>>)>> :
            n \in {"a", "b"}, ys \in ZoneLists, z \in Zones}

Names ==
  {<<"com">>, <<"uk">>, <<"example", "com">>, <<"Example", "com">>,
   <<"app", "Example", "com">>, <<"app", "example", "co", "uk">>,
   <<"app", "", "com">>, <<"">>, <<"example", "com ">>}

MCFQDNs ==
  {prefix \o name \o dot :
     prefix \in {<<>>, <<AcmeChallenge>>, <<" _acme-challenge">>}, name \in Names,
     dot \in {<<>>, <<"">>, <<" ">>}}

============================================================================
