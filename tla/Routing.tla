------------------------------ MODULE Routing ------------------------------
(***************************************************************************)
(* The routing layer (src/internal/routing/routing.go): which configured   *)
(* zone-apex, and so which credential, answers for a challenge FQDN, and   *)
(* the record name the solver derives from it (solver.go,                  *)
(* relativeRecordName).                                                    *)
(*                                                                         *)
(* A DNS name is the sequence of its dot-separated labels, as              *)
(* strings.Split(name, ".") returns it.  The representation is exact: a    *)
(* trailing dot is a final empty label, a leading dot an initial one, ".." *)
(* an empty label in between, and the empty string is <<"">>.              *)
(***************************************************************************)
EXTENDS Naturals, Sequences

CONSTANTS
  ToLower,                  \* [Label -> Label], strings.ToLower on a label
  TrimLeft, TrimRight,      \* [Label -> Label], a label without the whitespace at one end
  LabelChars,               \* the labels spelled with [A-Za-z0-9-] only
  MultiPartPublicSuffixes   \* two-label names such as <<"co", "uk">>

Label == DOMAIN ToLower

\* What Split leaves where a dot is the first or last character.
EmptyLabel == ""

ASSUME ToLowerAssumption ==
  \A l \in Label : /\ ToLower[l] \in Label
                   /\ ToLower[ToLower[l]] = ToLower[l]
                   /\ ToLower[l] = EmptyLabel <=> l = EmptyLabel

\* A label of whitespace alone becomes the empty one.
ASSUME TrimAssumption ==
  \A l \in Label : TrimLeft[l] \in Label /\ TrimRight[l] \in Label

AcmeChallenge == "_acme-challenge"

NoMatch == [matched |-> FALSE]

Lower(name) == [i \in DOMAIN name |-> ToLower[name[i]]]

\* strings.TrimSpace(name): the first label loses leading and the last one
\* trailing whitespace.
TrimOuterSpace(name) ==
  LET left == [name EXCEPT ![1] = TrimLeft[@]]
  IN  [left EXCEPT ![Len(name)] = TrimRight[@]]

\* strings.TrimSuffix(name, ".")
TrimDot(name) ==
  IF Len(name) > 1 /\ name[Len(name)] = EmptyLabel
    THEN SubSeq(name, 1, Len(name) - 1)
    ELSE name

\* strings.TrimPrefix(name, "_acme-challenge.")
TrimAcmePrefix(name) ==
  IF Len(name) > 1 /\ Head(name) = AcmeChallenge THEN Tail(name) ELSE name

NormaliseFQDN(fqdn) == 
  TrimAcmePrefix(TrimDot(Lower(TrimOuterSpace(fqdn))))

From(name, k) == SubSeq(name, k, Len(name))

\* Credential i lists the (lower-cased) zone.
Lists(creds, i, zone) ==
  \E j \in DOMAIN creds[i].zones : Lower(creds[i].zones[j]) = zone

\* The keys of the index Resolve builds.
Indexed(creds) ==
  UNION {{Lower(creds[i].zones[j]) : j \in DOMAIN creds[i].zones} :
           i \in DOMAIN creds}

\* index[zone]: a later credential overwrites an earlier one.
IndexEntry(creds, zone) ==
  CHOOSE i \in DOMAIN creds :
    /\ Lists(creds, i, zone)
    /\ \A j \in DOMAIN creds : Lists(creds, j, zone) => j <= i

\* The positions at which the leaf-to-root walk would hit the index.
Hits(creds, name) == {k \in 1..Len(name) : From(name, k) \in Indexed(creds)}

\* The walk stops at the first hit, so at the longest configured suffix.
Resolve(creds, fqdn) ==
  LET name == NormaliseFQDN(fqdn)
      hits == Hits(creds, name)
      apex == From(name, CHOOSE k \in hits : \A j \in hits : k <= j)
  IN  IF name = <<EmptyLabel>> \/ hits = {}
        THEN NoMatch
        ELSE [matched |-> TRUE, cred |-> IndexEntry(creds, apex), apex |-> apex]

----------------------------------------------------------------------------
IsSubdomainOfRegistrable(zone) ==
  /\ Len(zone) > 2
  /\ ~(Len(zone) = 3 /\ From(Lower(zone), 2) \in MultiPartPublicSuffixes)

\* Empty strings, leading, trailing and double dots are empty labels;
\* whitespace and wildcards are labels outside LabelChars.
ValidZoneString(zone) ==
  /\ \A i \in DOMAIN zone : zone[i] # EmptyLabel /\ zone[i] \in LabelChars
  /\ ~IsSubdomainOfRegistrable(zone)

\* A blank apiTokenSecretRef; others are tuples, see SecretRefString.
NoSecretRef == <<>>

\* A plausible slip: the duplicate check compares zones as they are written.
ValidConfigByCase(creds) ==
  /\ creds # <<>>
  /\ \A i \in DOMAIN creds :
       /\ creds[i].name # "" /\ creds[i].apiTokenSecretRef # NoSecretRef
       /\ creds[i].zones # <<>>
       /\ \A k \in DOMAIN creds[i].zones : ValidZoneString(creds[i].zones[k])
  /\ \A i, j \in DOMAIN creds : i # j => creds[i].name # creds[j].name
  /\ \A i, j \in DOMAIN creds :
       \A k \in DOMAIN creds[i].zones, l \in DOMAIN creds[j].zones :
         <<i, k>> # <<j, l>> => creds[i].zones[k] # creds[j].zones[l]

\* ValidateConfig(config) = nil
ValidConfig(creds) ==
  /\ creds # <<>>
  /\ \A i \in DOMAIN creds :
       /\ creds[i].name # "" /\ creds[i].apiTokenSecretRef # NoSecretRef
       /\ creds[i].zones # <<>>
       /\ \A k \in DOMAIN creds[i].zones : ValidZoneString(creds[i].zones[k])
  /\ \A i, j \in DOMAIN creds : i # j => creds[i].name # creds[j].name
  /\ \A i, j \in DOMAIN creds :
       \A k \in DOMAIN creds[i].zones, l \in DOMAIN creds[j].zones :
         <<i, k>> # <<j, l>> => Lower(creds[i].zones[k]) # Lower(creds[j].zones[l])

----------------------------------------------------------------------------
\* name ends with "." followed by apex
EndsWithApex(name, apex) ==
  /\ Len(name) > Len(apex)
  /\ From(name, Len(name) - Len(apex) + 1) = apex

\* name is the apex or lies under it.
InZone(name, apex) == name = apex \/ EndsWithApex(name, apex)

\* A plausible slip: the FQDN is compared with the apex in its own case.
RecordNameByCase(fqdn, apex) ==
  LET name == TrimDot(fqdn)
  IN  IF name = Lower(apex) THEN <<"@">>
      ELSE IF EndsWithApex(name, Lower(apex))
        THEN SubSeq(name, 1, Len(name) - Len(apex))
        ELSE <<AcmeChallenge>>

RelativeRecordName(fqdn, apex) ==
  LET name == Lower(TrimDot(fqdn))
  IN  IF name = Lower(apex) THEN <<"@">>
      ELSE IF EndsWithApex(name, Lower(apex))
        THEN SubSeq(name, 1, Len(name) - Len(apex))
        ELSE <<AcmeChallenge>>

\* No whitespace at either end.  normaliseFQDN takes such whitespace off, but
\* relativeRecordName does not.
Unpadded(fqdn) == TrimOuterSpace(fqdn) = fqdn

\* What the webhook contract says of ResolvedFQDN (the comment of
\* normaliseFQDN): a DNS name and nothing around it.  "@" is no host label.
ProperName(fqdn) ==
  /\ fqdn \in Seq(Label) /\ fqdn # <<>>
  /\ Unpadded(fqdn)
  /\ ToLower[fqdn[1]] # "@"

\* The name a resolver asks for, given a record name relative to its zone.
AbsoluteName(record, apex) == IF record = <<"@">> THEN apex ELSE record \o apex

============================================================================
