---------------------------- MODULE RoutingWalk ----------------------------
(***************************************************************************)
(* Resolve's leaf-to-root walk (src/internal/routing/routing.go) step by   *)
(* step, for a configuration that ValidateConfig has let through.  Routing *)
(* defines what the walk should return, as the longest configured suffix   *)
(* of the name; here it is the loop that the code runs.                    *)
(***************************************************************************)
EXTENDS Routing, FiniteSets

CONSTANTS
  Configs,   \* credential lists an operator may write
  FQDNs      \* values of ResolvedFQDN

ASSUME WalkAssumption ==
  /\ \A f \in FQDNs : f \in Seq(Label) /\ f # <<>>
  /\ \A cs \in Configs : DOMAIN cs \subseteq Nat

VARIABLES
  creds,       \* c.Credentials
  fqdn,        \* the FQDN being resolved
  candidate,   \* the suffix to look up next
  result,      \* what Resolve returns, once it is done
  done

vars == <<creds, fqdn, candidate, result, done>>

Accepted == {cs \in Configs : ValidConfig(cs)}

\* Resolve up to its loop: normalise the name, give up on an empty one.
Init ==
  /\ creds \in Accepted
  /\ fqdn \in FQDNs
  /\ candidate = NormaliseFQDN(fqdn)
  /\ result = NoMatch
  /\ done = (candidate = <<EmptyLabel>>)

Found ==
  /\ ~done
  /\ candidate \in Indexed(creds)
  /\ result' = [matched |-> TRUE, cred |-> IndexEntry(creds, candidate),
                apex |-> candidate]
  /\ done' = TRUE
  /\ UNCHANGED <<creds, fqdn, candidate>>

\* A plausible slip: stop before the last label is looked up.
CutStopsEarly ==
  /\ ~done
  /\ candidate \notin Indexed(creds)
  /\ IF Len(candidate) > 2
       THEN candidate' = Tail(candidate) /\ UNCHANGED done
       ELSE done' = TRUE /\ UNCHANGED candidate
  /\ UNCHANGED <<creds, fqdn, result>>

\* No hit: cut the first label off, or stop when no dot is left.
Cut ==
  /\ ~done
  /\ candidate \notin Indexed(creds)
  /\ IF Len(candidate) > 1
       THEN candidate' = Tail(candidate) /\ UNCHANGED done
       ELSE done' = TRUE /\ UNCHANGED candidate
  /\ UNCHANGED <<creds, fqdn, result>>

Next == Found \/ Cut

Spec == Init /\ [][Next]_vars

----------------------------------------------------------------------------
\* Resolve's loop returns the longest configured suffix of the normalised
\* FQDN, with the credential that its index holds for it, and no match only
\* when no suffix, down to the last label, is configured.
WalkFindsLongest == done => result = Resolve(creds, fqdn)

\* "each zone-apex must appear in exactly one credential" (ValidateConfig):
\* the credential that Resolve returns is the only one that lists the matched
\* apex, in whatever case, so overwriting in the index never picks a token.
OneOwner ==
  result.matched => {i \in DOMAIN creds : Lists(creds, i, result.apex)} = {result.cred}

\* For a name as the webhook contract has it, the record relativeRecordName
\* derives from a match is, seen from the DNS, the FQDN itself, in whatever
\* case and with or without a trailing dot.
RecordExact ==
  result.matched /\ ProperName(fqdn) =>
    AbsoluteName(RelativeRecordName(fqdn, result.apex), result.apex)
      = Lower(TrimDot(fqdn))

\* "The router (routing.Resolve) guarantees fqdn ends with zoneApex, so the
\* defensive fallback ... only fires if a future refactor breaks that
\* invariant" (relativeRecordName).  Violated: normaliseFQDN trims whitespace
\* that relativeRecordName keeps, so "example.com. " is matched and falls back.
MatchEndsWithApex ==
  result.matched => InZone(Lower(TrimDot(fqdn)), result.apex)

\* "at most one configured zone-apex can match any given FQDN" (the package
\* comment of routing.go).
AtMostOneMatch == Cardinality(Hits(creds, NormaliseFQDN(fqdn))) <= 1

============================================================================
