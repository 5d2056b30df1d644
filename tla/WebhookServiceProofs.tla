------------------------ MODULE WebhookServiceProofs ------------------------
(***************************************************************************)
(* What the webhook as a whole does: every record it leaves has the name   *)
(* of its challenge, and every step is one of the service that TxtService  *)
(* describes.  The refinement rests on both promises.                      *)
(***************************************************************************)
EXTENDS SolverPromiseProofs, WebhookService, RoutingProofs

LEMMA LateType == ASSUME TypeOK, NEW req \in late PROVE req.zone \in ZoneId
BY DEF TypeOK

LEMMA OrphanType ==
  ASSUME TypeOK, NEW p \in orphaned
  PROVE  p = <<p[1], p[2]>> /\ p[1] \in Challenge
BY DEF TypeOK

\* The record name and the zone-apex of a route make up the challenge's FQDN.
LEMMA RouteExact ==
  ASSUME NEW ch \in Routed
  PROVE  AbsoluteName(Route[ch].record, Route[ch].apex) = Lower(TrimDot(ch.fqdn))
<1> DEFINE creds == RoutingConfig(ch.config, ch.namespace)
           match == Resolve(creds, ch.fqdn)
<1>1. ch \in Challenge /\ Route[ch] = RouteOf(ch) /\ Route[ch].ok
  BY DEF Routed, Route
<1>2. /\ match.matched /\ Route[ch].apex = match.apex
      /\ Route[ch].record = RelativeRecordName(ch.fqdn, match.apex)
  <2> DEFINE ok == ParseConfigOK(ch.config, ch.namespace)
             cred == creds[match.cred]
             ref == SecretRefString(SecretRefs(ch.config, ch.namespace, cred.name))
             record == RelativeRecordName(ch.fqdn, match.apex)
  <2>1. RouteOf(ch) = IF ~ok \/ ~match.matched
                        THEN [ok |-> FALSE]
                        ELSE [ok |-> TRUE, secret |-> ref, apex |-> match.apex,
                              record |-> record]
    BY Zenon DEF RouteOf
  <2> HIDE DEF match, ok, ref, record
  <2>2. ok /\ match.matched
    BY <1>1, <2>1
  <2>3. Route[ch].apex = match.apex /\ Route[ch].record = record
    BY <1>1, <2>1, <2>2
  <2> QED BY <2>2, <2>3 DEF record
<1>3. ProperName(ch.fqdn)
  BY <1>1, SolverAssumption
<1> QED BY <1>2, <1>3, RecordNameExact

\* RoutingInv and the exactness of the derived record name give the property.
LEMMA RoutingSafe == TypeOK /\ RoutingInv => TxtOnlyWhereChallenged
<1> SUFFICES ASSUME TypeOK, RoutingInv, NEW r \in rrsets, r.value # Foreign
             PROVE  \E ch \in Routed :
                      /\ r.value = QuoteTXT(ch.key)
                      /\ AbsoluteName(r.name, ZoneName[r.zone]) = Lower(TrimDot(ch.fqdn))
  BY DEF TxtOnlyWhereChallenged
<1>1. PICK ch \in Routed : /\ ZoneName[r.zone] = Route[ch].apex
                           /\ r.name = Route[ch].record
                           /\ r.value = QuoteTXT(ch.key)
  BY DEF RoutingInv, RRSetsPlaced, Placed
<1>2. AbsoluteName(Route[ch].record, Route[ch].apex) = Lower(TrimDot(ch.fqdn))
  BY RouteExact
<1> QED BY <1>1, <1>2

\* Every TXT value the webhook leaves at Hetzner stands at the name of a
\* challenge for that value, in every reachable state: through faults,
\* retries, crashes, late writes, and zones deleted, recreated and moved
\* under the cache.
THEOREM TxtWhereChallenged == Spec => []TxtOnlyWhereChallenged
BY TypeInit, TypeStep, RoutingInit, RoutingStep, RoutingSafe, PTL DEF Spec

(***************************************************************************)
(* The refinement.                                                         *)
(***************************************************************************)

\* What an RRSet set R holds at every spot; Text is TextOf(rrsets).
TextOf(R) ==
  [s \in Spot |->
     LET here == {r \in R : r.zone = s[1] /\ r.name = s[2]}
     IN  IF here = {} THEN None ELSE (CHOOSE r \in here : TRUE).value]

\* A zone has at most one TXT RRSet of a name.
OneEach == \A q \in rrsets : \A r \in rrsets : q.zone = r.zone /\ q.name = r.name => q = r

LEMMA SpotOfRoute ==
  ASSUME NEW ch \in Routed, NEW z \in ZoneId, ZoneName[z] = Route[ch].apex
  PROVE  <<z, Route[ch].record>> \in SpotsOf[ch]
<1>1. <<z, Route[ch].record>> \in Spot
  BY DEF Spot, Record
<1> QED BY <1>1 DEF SpotsOf, Routed

LEMMA SpotMeans ==
  ASSUME NEW ch \in Challenge, NEW s \in SpotsOf[ch]
  PROVE  /\ ch \in Routed /\ s \in Spot /\ s[1] \in ZoneId
         /\ ZoneName[s[1]] = Route[ch].apex /\ s[2] = Route[ch].record
<1>1. ch \in Routed
  BY DEF SpotsOf
<1>2. s \in {t \in Spot : ZoneName[t[1]] = Route[ch].apex /\ t[2] = Route[ch].record}
  BY <1>1 DEF SpotsOf
<1> QED BY <1>1, <1>2 DEF Spot

\* The service's rivals are the challenges for one DNS name.
LEMMA RivalsShare ==
  ASSUME NEW a \in Challenge, NEW b \in Challenge, Service!Rivals(a, b)
  PROVE  a # b /\ SameRecord(a, b)
<1>1. a # b
  BY DEF Service!Rivals
<1>2. PICK s : s \in SpotsOf[a] /\ s \in SpotsOf[b]
  BY DEF Service!Rivals
<1> QED BY <1>1, <1>2, SpotMeans DEF SameRecord, Target

LEMMA ShareRivals ==
  ASSUME NEW a \in Routed, NEW b \in Routed, a # b, SameRecord(a, b),
         NEW s \in SpotsOf[b]
  PROVE  Service!Rivals(a, b)
<1>1. a \in Challenge /\ b \in Challenge
  BY DEF Routed
<1>2. SpotsOf[a] = SpotsOf[b]
  BY <1>1 DEF SpotsOf, SameRecord, Target
<1> QED BY <1>2 DEF Service!Rivals

LEMMA TextAt ==
  ASSUME NEW s \in Spot
  PROVE  \/ Text[s] = None
         \/ \E r \in rrsets : r.zone = s[1] /\ r.name = s[2] /\ r.value = Text[s]
<1> DEFINE here == {r \in rrsets : r.zone = s[1] /\ r.name = s[2]}
           it == CHOOSE r \in here : TRUE
<1>1. Text[s] = IF here = {} THEN None ELSE it.value
  BY DEF Text
<1>2. here # {} => it \in here
  OBVIOUS
<1> HIDE DEF it
<1> QED BY <1>1, <1>2

\* A published key shows in the service's text, and the text shows no key that
\* is not published.
LEMMA PublishedShows ==
  ASSUME TypeOK, OneEach, NEW ch \in Routed, Published(ch)
  PROVE  Service!Published(ch)
<1>1. PICK r \in rrsets : Served(ch, r)
  BY DEF Published
<1> DEFINE s == <<r.zone, r.name>>
           here == {q \in rrsets : q.zone = s[1] /\ q.name = s[2]}
<1>2. r.zone \in ZoneId /\ ZoneName[r.zone] = Route[ch].apex /\ r.name = Route[ch].record
  BY <1>1 DEF TypeOK, Served
<1>3. s \in SpotsOf[ch] /\ s \in Spot /\ ch \in Challenge
  BY <1>2, SpotOfRoute, SpotMeans DEF Routed
<1>4. here = {r}
  BY DEF OneEach
<1>5. Text[s] = r.value
  BY <1>3, <1>4 DEF Text
<1>6. r.value = QuoteTXT(ch.key)
  BY <1>1 DEF Served
<1> QED BY <1>3, <1>5, <1>6 DEF Service!Published

LEMMA NothingShows ==
  ASSUME NEW ch \in Challenge, \A r \in rrsets : ~Served(ch, r)
  PROVE  ~Service!Published(ch)
<1> SUFFICES ASSUME NEW s \in SpotsOf[ch], Text[s] = QuoteTXT(ch.key) PROVE FALSE
  BY DEF Service!Published
<1>1. /\ ch \in Routed /\ s \in Spot /\ ZoneName[s[1]] = Route[ch].apex
      /\ s[2] = Route[ch].record
  BY SpotMeans
<1>2. QuoteTXT(ch.key) # None
  BY <1>1, NoneAssumption DEF Value
<1>3. PICK r \in rrsets : r.zone = s[1] /\ r.name = s[2] /\ r.value = Text[s]
  BY <1>1, <1>2, TextAt
<1> QED BY <1>1, <1>3 DEF Served

\* A request that is carried out changes its own spot and no other.
LEMMA TextApplied ==
  ASSUME NEW R, NEW req, NEW s \in Spot, s = <<req.zone, req.name>>
  PROVE  TextOf(Applied(R, req)) =
           [TextOf(R) EXCEPT ![s] =
              IF req.op \in {"create", "set"} THEN req.value ELSE None]
<1> DEFINE Here(Q, t) == {r \in Q : r.zone = t[1] /\ r.name = t[2]}
           new == [zone |-> req.zone, name |-> req.name, value |-> req.value]
           Q0 == Applied(R, req)
<1>1. s[1] = req.zone /\ s[2] = req.name
  OBVIOUS
<1>2. new.zone = req.zone /\ new.name = req.name /\ new.value = req.value
  OBVIOUS
<1>3. Here(Q0, s) = IF req.op \in {"create", "set"} THEN {new} ELSE {}
  BY <1>1, <1>2 DEF Applied, RRSetsAt
<1>4. ASSUME NEW t \in Spot, t # s PROVE Here(Q0, t) = Here(R, t)
  <2>1. t[1] # req.zone \/ t[2] # req.name
    BY <1>1, <1>4 DEF Spot
  <2> QED BY <1>2, <2>1 DEF Applied, RRSetsAt
<1> HIDE DEF Q0, new
<1>5. \A Q : TextOf(Q) = [t \in Spot |-> IF Here(Q, t) = {} THEN None
                                         ELSE (CHOOSE r \in Here(Q, t) : TRUE).value]
  BY DEF TextOf
<1> HIDE DEF Here
<1>6. TextOf(Q0)[s] = IF req.op \in {"create", "set"} THEN req.value ELSE None
  <2>1. CASE req.op \in {"create", "set"}
    <3>1. Here(Q0, s) = {new} /\ (CHOOSE r \in {new} : TRUE) = new
      BY <1>3, <2>1
    <3> QED BY <1>2, <1>5, <2>1, <3>1
  <2>2. CASE req.op \notin {"create", "set"}
    BY <1>3, <1>5, <2>2
  <2> QED BY <2>1, <2>2
<1>7. ASSUME NEW t \in Spot, t # s PROVE TextOf(Q0)[t] = TextOf(R)[t]
  <2>1. \A Q : TextOf(Q)[t] = IF Here(Q, t) = {} THEN None
                                ELSE (CHOOSE r \in Here(Q, t) : TRUE).value
    BY <1>5, Zenon
  <2> QED BY <1>4, <1>7, <2>1, Zenon
<1>8. /\ TextOf(Q0) = [t \in Spot |-> TextOf(Q0)[t]]
      /\ TextOf(R) = [t \in Spot |-> TextOf(R)[t]]
  BY DEF TextOf
<1> QED BY <1>6, <1>7, <1>8 DEF Q0

\* Nobody but Present, CleanUp and the operators changes RRSets, and the
\* server keeps one of a name.
LEMMA OneEachInit == Init => OneEach
<1> SUFFICES ASSUME Init, NEW q \in rrsets, NEW r \in rrsets, q.zone = r.zone, q.name = r.name
             PROVE  q = r
  BY DEF OneEach
<1>1. \A t \in rrsets : t = [zone |-> t.zone, name |-> t.name, value |-> Foreign]
  BY DEF Init, LeftOver
<1> QED BY <1>1

LEMMA OneEachStep == TypeOK /\ CustodyInv /\ OneEach /\ [Next]_vars => OneEach'
<1> SUFFICES ASSUME TypeOK, CustodyInv, OneEach, [Next]_vars PROVE OneEach'
  OBVIOUS
<1>1. ASSUME NEW req, rrsets' = Applied(rrsets, req) PROVE OneEach'
  BY <1>1 DEF OneEach, Applied, RRSetsAt
<1>2. CASE Operators
  <2>1. rrsets' \subseteq rrsets
    BY <1>2 DEF Operators, DeleteZone, CreateZone, MoveZone, RotateSecret, RevokeToken, apiVars
  <2> QED BY <2>1 DEF OneEach
<1>3. CASE ~Operators
  <2>1. UNCHANGED rrsets \/ \E req : rrsets' = Applied(rrsets, req)
    BY <1>3, StepMoves DEF Moves, CustodyInv, StoreFate, ApplyLate
  <2> QED BY <1>1, <2>1 DEF OneEach
<1> QED BY <1>2, <1>3

\* cert-manager's view, the RRSets and the requests left to themselves change
\* one at a time.
LEMMA OneThingAtATime ==
  ASSUME [Next]_vars, ~Operators
  PROVE  /\ UNCHANGED phase \/ UNCHANGED <<rrsets, late, orphaned>>
         /\ UNCHANGED rrsets \/ UNCHANGED <<phase, orphaned>>
<1>1. CASE CertManager
  BY <1>1 DEF CertManager, CallWebhook, BeginCleanUp, Abandon, apiVars
<1>2. ASSUME NEW c \in Call, Handler(c)
      PROVE  /\ UNCHANGED phase \/ UNCHANGED <<rrsets, late, orphaned>>
             /\ UNCHANGED rrsets
  <2>1. CASE Prepare(c) \/ SecretReadFails(c) \/ LookupZone(c) \/ Receive(c)
    BY <2>1, Zenon DEF Prepare, SecretReadFails, LookupZone, Receive, apiVars
  <2>2. CASE TransportError(c) \/ DeadlineExceeded(c)
    BY <2>2, Zenon DEF TransportError, DeadlineExceeded, RetryOrFail, Return
  <2> QED BY <1>2, <2>1, <2>2 DEF Handler
<1>3. CASE Server
  <2>1. UNCHANGED phase
    BY <1>3, Zenon DEF Server, Serve, ServeBadly, AcceptAction, ApplyLate, cmVars
  <2>2. ASSUME NEW c \in Call, AcceptAction(c) PROVE UNCHANGED rrsets
    BY <2>2, Zenon DEF AcceptAction, Respond
  <2>3. (\E c \in Call : AcceptAction(c)) \/ UNCHANGED orphaned
    BY <1>3, Zenon DEF Server, Serve, ServeBadly, ApplyLate, cmVars
  <2> QED BY <2>1, <2>2, <2>3
<1>4. CASE Pods \/ Tick \/ UNCHANGED vars
  BY <1>4, Zenon DEF Pods, Initialize, Crash, Tick, vars, apiVars, cmVars
<1> QED BY <1>1, <1>2, <1>3, <1>4 DEF Next

LEMMA SpotFor ==
  ASSUME NEW ch \in Routed, NEW req, req.zone \in ZoneId
  PROVE  <<req.zone, req.name>> \in SpotsOf[ch] <=> For(req, ch)
<1> DEFINE s == <<req.zone, req.name>>
<1>1. ch \in Challenge /\ s[1] = req.zone /\ s[2] = req.name
  BY DEF Routed
<1>2. s \in SpotsOf[ch] => For(req, ch)
  <2> HIDE DEF s
  <2> QED BY <1>1, SpotMeans DEF For
<1>3. For(req, ch) => s \in SpotsOf[ch]
  BY SpotOfRoute DEF For
<1> QED BY <1>2, <1>3

LEMMA DisturbedShows ==
  ASSUME NEW ch \in Routed, NEW s \in SpotsOf[ch], Disturbed(ch)
  PROVE  Service!Disturbed(ch)
<1>1. PICK p \in orphaned : p[1] # ch /\ SameRecord(p[1], ch)
  BY DEF Disturbed
<1>2. Service!Rivals(p[1], ch)
  BY <1>1, ShareRivals DEF SameRecord
<1> QED BY <1>1, <1>2 DEF Service!Disturbed

\* What Present's promise says about the service.
LEMMA GoodShows ==
  ASSUME TypeOK, OneEach, NEW ch \in Routed, NEW s \in SpotsOf[ch], Good(ch)
  PROVE  Service!Published(ch) \/ Service!Disturbed(ch) \/ ch \in Pending
<1>1. CASE Coming(ch)
  <2>1. PICK req \in late : For(req, ch) /\ req.value = QuoteTXT(ch.key)
    BY <1>1 DEF Coming
  <2>2. req.zone \in ZoneId
    BY DEF TypeOK
  <2> QED BY <2>1, <2>2, SpotFor DEF Pending
<1> QED BY <1>1, PublishedShows, DisturbedShows DEF Good

\* cert-manager's view changes.
LEMMA PhaseRefines ==
  ASSUME TypeOK, RoutingInv, CustodyInv, KeptInv, GoneInv, OneEach,
         UNCHANGED <<rrsets, late, orphaned, churn>>,
         NEW ch \in Challenge, NEW st \in Phases, PhaseMove(ch, st),
         phase' = [phase EXCEPT ![ch] = st]
  PROVE  [Service!Next]_(Service!vars)
<1>1. UNCHANGED <<Text, orphaned, Pending, churn = 0>>
  BY DEF Text, Pending
<1>2. CASE phase[ch] = "new" /\ st = "presenting"
  <2>1. \A o \in Challenge \ {ch} : SameRecord(o, ch) => ~InProgress(o)
    BY <1>2, PhaseOrder
  <2>2. \A o \in Challenge : Service!Rivals(o, ch) => ~Service!InProgress(o)
    BY <2>1, RivalsShare DEF Service!InProgress, InProgress
  <2>3. Service!Ask(ch)
    BY <1>1, <1>2, <2>2 DEF Service!Ask
  <2> QED BY <2>3 DEF Service!Next
<1>3. CASE phase[ch] \in {"presenting", "presented"} /\ st = "cleaning"
  <2>1. Service!BeginCleaning(ch)
    BY <1>1, <1>3 DEF Service!BeginCleaning
  <2> QED BY <2>1 DEF Service!Next
<1>4. CASE phase[ch] = "presented" /\ st = "presented"
  <2>1. UNCHANGED phase
    BY <1>4 DEF TypeOK
  <2> QED BY <1>1, <2>1 DEF Service!vars
<1>5. CASE phase[ch] = "presenting" /\ st = "presented"
  <2>1. PICK c \in Call : Told(c) /\ call[c].ch = ch
    BY <1>5 DEF PhaseMove
  <2>2. At(c, Writing)
    BY <2>1 DEF Told, At, Writing
  <2>3. ch \in Routed /\ <<call[c].zid, Route[ch].record>> \in SpotsOf[ch]
    BY <2>1, <2>2, OwnRequest, SpotOfRoute DEF For
  <2>4. Service!Kept(ch) \/ ch \in Pending
    <3>1. churn = 0 => Good(ch)
      BY <2>1 DEF KeptInv, Kept
    <3> QED BY <2>3, <3>1, GoodShows DEF Service!Kept
  <2>5. Service!Confirm(ch)
    BY <1>1, <1>5, <2>4 DEF Service!Confirm
  <2> QED BY <2>5 DEF Service!Next
<1>6. CASE phase[ch] = "cleaning" /\ st = "cleaned"
  <2>1. PICK c \in Call : SaysGone(c) /\ call[c].ch = ch
    BY <1>6 DEF PhaseMove
  <2>2. churn = 0 => Settled(ch)
    BY <2>1 DEF GoneInv, CleanedUp
  <2>3. ~Service!Published(ch) \/ <<ch, "Present">> \in orphaned \/ churn # 0
    BY <2>2, NothingShows DEF Settled
  <2>4. Service!ConfirmGone(ch)
    BY <1>1, <1>6, <2>3 DEF Service!ConfirmGone
  <2> QED BY <2>4 DEF Service!Next
<1> QED BY <1>2, <1>3, <1>4, <1>5, <1>6, PhaseOrder

\* A request is carried out.
LEMMA WriteRefines ==
  ASSUME TypeOK, NEW ch \in Routed, NEW op, NEW req, WriteOf(req, ch, op),
         req.zone \in ZoneId, phase[ch] \in StageOf(op) \/ <<ch, op>> \in orphaned,
         rrsets' = Applied(rrsets, req), UNCHANGED <<phase, orphaned, churn>>,
         Pending' \in {Pending, Pending \ {ch}}
  PROVE  Service!Next
<1> DEFINE s == <<req.zone, req.name>>
<1>1. ch \in Challenge /\ s \in SpotsOf[ch] /\ s \in Spot
  BY SpotFor, SpotMeans DEF WriteOf, Routed
<1>2. Text' = [Text EXCEPT ![s] = IF req.op \in {"create", "set"} THEN req.value ELSE None]
  <2>1. Text = TextOf(rrsets) /\ Text' = TextOf(rrsets')
    BY DEF Text, TextOf
  <2> QED BY <1>1, <2>1, TextApplied
<1> HIDE DEF s
<1>3. UNCHANGED <<phase, orphaned, churn = 0>>
  OBVIOUS
<1>4. CASE op = "Present"
  <2>1. Text' = [Text EXCEPT ![s] = QuoteTXT(ch.key)]
    BY <1>2, <1>4, Zenon DEF WriteOf
  <2>2. Service!Write(ch)
    BY <1>1, <1>3, <1>4, <2>1, Zenon DEF Service!Write, StageOf
  <2> QED BY <1>1, <2>2 DEF Service!Next
<1>5. CASE op = "CleanUp"
  <2>1. Text' = [Text EXCEPT ![s] = None]
    BY <1>2, <1>5, Zenon DEF WriteOf
  <2>2. Service!Erase(ch)
    BY <1>1, <1>3, <1>5, <2>1, Zenon DEF Service!Erase, StageOf
  <2> QED BY <1>1, <2>2 DEF Service!Next
<1> QED BY <1>4, <1>5 DEF WriteOf

\* Calls and requests are left to themselves, or nothing visible happens.
LEMMA StrayRefines ==
  ASSUME Ordinary, TypeOK, TypeOK', CustodyInv, CustodyInv', OrphanFate, late \subseteq late',
         UNCHANGED <<rrsets, phase, churn>>
  PROVE  Service!Stray
<1>1. UNCHANGED <<Text, phase, churn = 0>>
  BY DEF Text
<1>2. ASSUME NEW p \in orphaned' \ orphaned
      PROVE  \E ch \in Challenge :
               \/ p = <<ch, "Present">> /\ phase[ch] \in {"presenting", "presented"}
               \/ p = <<ch, "CleanUp">> /\ phase[ch] = "cleaning"
  <2>1. PICK c \in Call : Active(c) /\ p = Owner(c)
    BY <1>2 DEF OrphanFate
  <2>2. p = <<call[c].ch, call[c].op>> /\ phase[call[c].ch] \in StageOf(call[c].op)
    BY <1>2, <2>1 DEF CustodyInv, Custody, Owner
  <2>3. call[c].ch \in Challenge /\ call[c].op \in {"Present", "CleanUp"}
    BY <2>1 DEF TypeOK, HandlerOK, CallState
  <2> QED BY <2>2, <2>3 DEF StageOf
<1>3. Pending \subseteq Pending'
  BY DEF Pending
<1>4. ASSUME NEW ch \in Pending' PROVE ch \in {p[1] : p \in orphaned'}
  <2>1. ch \in Routed
    BY DEF Pending
  <2>2. PICK req \in late' : /\ <<req.zone, req.name>> \in SpotsOf[ch]
                             /\ req.value = QuoteTXT(ch.key)
    BY DEF Pending
  <2>3. req.zone \in ZoneId
    BY DEF TypeOK
  <2>4. For(req, ch)
    BY <2>1, <2>2, <2>3, SpotFor
  <2>5. PICK p \in orphaned' : p[1] \in Routed /\ WriteOf(req, p[1], p[2])
    BY Zenon DEF CustodyInv, LateOwned, WriteOf, For
  <2>6. p[1] = ch
    BY <2>1, <2>2, <2>4, <2>5, OneWriter, Zenon DEF WriteOf
  <2> QED BY <2>5, <2>6
<1> QED BY <1>1, <1>2, <1>3, <1>4 DEF Service!Stray, OrphanFate

\* A request that nobody waits for reaches the server.
LEMMA LateRefines ==
  ASSUME Ordinary, TypeOK, CustodyInv, OneEach, TypeOK', OneEach', KeptInv',
         NEW req \in late, ApplyLate(req)
  PROVE  [Service!Next]_(Service!vars)
<1>1. UNCHANGED <<phase, orphaned, churn, owner, secret>> /\ late' = late \ {req}
  BY DEF ApplyLate, cmVars
<1>2. PICK p \in orphaned : p[1] \in Routed /\ WriteOf(req, p[1], p[2])
  BY DEF CustodyInv, LateOwned
<1>3. req.zone \in ZoneId /\ p = <<p[1], p[2]>> /\ p[1] \in Challenge
  BY LateType, OrphanType, Zenon
<1>4. ASSUME NEW o \in Routed, <<req.zone, req.name>> \in SpotsOf[o],
             req.value = QuoteTXT(o.key)
      PROVE  o = p[1]
  <2>1. For(req, o)
    BY <1>3, <1>4, SpotFor
  <2> QED BY <1>2, <1>4, <2>1, OneWriter, Zenon DEF WriteOf
<1>5. Pending' \in {Pending, Pending \ {p[1]}}
  <2>1. Pending' \subseteq Pending
    BY <1>1 DEF Pending
  <2>2. \A o \in Pending : o # p[1] => o \in Pending'
    BY <1>1, <1>4 DEF Pending
  <2> QED BY <2>1, <2>2
<1>6. CASE rrsets' = Applied(rrsets, req)
  BY <1>1, <1>2, <1>3, <1>5, <1>6, WriteRefines
<1>7. CASE UNCHANGED rrsets
  <2>0. UNCHANGED Text
    BY <1>7 DEF Text
  <2>1. UNCHANGED <<Text, phase, orphaned, churn = 0>>
    BY <1>1, <2>0
  <2>2. CASE Pending' = Pending
    BY <2>1, <2>2 DEF Service!vars
  <2>3. CASE Pending' = Pending \ {p[1]}
    <3>1. <<req.zone, req.name>> \in SpotsOf[p[1]]
      BY <1>2, <1>3, SpotFor DEF WriteOf
    <3>2. phase[p[1]] = "presented" => Service!Kept(p[1])
      <4> SUFFICES ASSUME phase[p[1]] = "presented", churn = 0 PROVE Service!Kept(p[1])
        BY DEF Service!Kept
      <4>1. PICK ch : ch = p[1]
        OBVIOUS
      <4>2. Good(ch)'
        BY <1>1, <1>3, <4>1 DEF KeptInv, Kept
      <4>3. ~Coming(ch)'
        <5> SUFFICES ASSUME Coming(ch)' PROVE FALSE
          OBVIOUS
        <5>1. PICK q \in late' : For(q, ch) /\ q.value = QuoteTXT(ch.key)
          BY DEF Coming, For
        <5>2. q.zone \in ZoneId
          BY DEF TypeOK
        <5>3. ch \in Pending'
          BY <1>2, <4>1, <5>1, <5>2, SpotFor DEF Pending
        <5> QED BY <2>3, <4>1, <5>3
      <4>4. Published(ch) \/ Disturbed(ch)
        BY <1>1, <1>7, <4>2, <4>3, Zenon
           DEF Good, Disturbed, SameRecord, Published, Served, Home
      <4>5. Service!Published(ch) \/ Service!Disturbed(ch)
        BY <1>2, <3>1, <4>1, <4>4, PublishedShows, DisturbedShows, Zenon
      <4> QED BY <4>1, <4>5 DEF Service!Kept
    <3>3. Service!Lapse(p[1])
      BY <2>1, <2>3, <3>2 DEF Service!Lapse
    <3> QED BY <1>3, <3>3 DEF Service!Next
  <2> QED BY <1>5, <2>2, <2>3
<1> QED BY <1>6, <1>7 DEF ApplyLate

\* Operators change the zones.
LEMMA OperatorsInterfere == ASSUME TypeOK, Operators PROVE Service!Next
<1>1. UNCHANGED <<phase, orphaned, late>>
  BY Zenon DEF Operators, DeleteZone, CreateZone, MoveZone, RotateSecret, RevokeToken,
               apiVars, cmVars
<1>2. (churn = 0)' = FALSE
  <2>1. churn' = churn + 1
    BY Zenon DEF Operators, DeleteZone, CreateZone, MoveZone, RotateSecret, RevokeToken, Churn
  <2> QED BY <2>1, TypeParts DEF RestOK
<1>3. Pending' = Pending
  BY <1>1 DEF Pending
<1>4. \E lost \in SUBSET Spot :
        Text' = [s \in Spot |-> IF s \in lost THEN None ELSE Text[s]]
  <2>1. CASE UNCHANGED rrsets
    <3> DEFINE lost == {}
    <3>1. Text' = [s \in Spot |-> IF s \in lost THEN None ELSE Text[s]]
      BY <2>1 DEF Text
    <3>2. lost \in SUBSET Spot
      OBVIOUS
    <3> HIDE DEF lost
    <3> QED BY <3>1, <3>2
  <2>2. ASSUME NEW z \in ZoneId, rrsets' = {r \in rrsets : r.zone # z}
        PROVE  \E lost \in SUBSET Spot :
                 Text' = [s \in Spot |-> IF s \in lost THEN None ELSE Text[s]]
    <3> DEFINE Here(R, s) == {r \in R : r.zone = s[1] /\ r.name = s[2]}
               lost == {s \in Spot : s[1] = z}
    <3>1. \A s \in Spot : Here(rrsets', s) = IF s \in lost THEN {} ELSE Here(rrsets, s)
      BY <2>2
    <3>2. /\ Text = [s \in Spot |-> IF Here(rrsets, s) = {} THEN None
                                    ELSE (CHOOSE r \in Here(rrsets, s) : TRUE).value]
          /\ Text' = [s \in Spot |-> IF Here(rrsets', s) = {} THEN None
                                     ELSE (CHOOSE r \in Here(rrsets', s) : TRUE).value]
      BY DEF Text
    <3> HIDE DEF Here
    <3>3. Text' = [s \in Spot |-> IF s \in lost THEN None ELSE Text[s]]
      BY <3>1, <3>2
    <3> QED BY <3>3, Zenon
  <2>3. UNCHANGED rrsets \/ \E z \in ZoneId : rrsets' = {r \in rrsets : r.zone # z}
    BY Zenon DEF Operators, DeleteZone, CreateZone, MoveZone, RotateSecret, RevokeToken, apiVars
  <2> QED BY <2>1, <2>2, <2>3
<1>5. Service!Interfere
  BY <1>1, <1>2, <1>3, <1>4 DEF Service!Interfere
<1> QED BY <1>5 DEF Service!Next

LEMMA ServiceInit == Init => Service!Init
<1> SUFFICES ASSUME Init PROVE Service!Init
  OBVIOUS
<1>1. \A r \in rrsets : r.value = Foreign
  BY LeftOverForeign, Zenon DEF Init
<1>2. ASSUME NEW ch \in Challenge PROVE ~Service!Published(ch)
  <2> SUFFICES ASSUME NEW s \in SpotsOf[ch], Text[s] = QuoteTXT(ch.key) PROVE FALSE
    BY DEF Service!Published
  <2>1. ch \in Routed /\ s \in Spot
    BY SpotMeans
  <2>2. QuoteTXT(ch.key) # None /\ QuoteTXT(ch.key) # Foreign
    BY <2>1, NoneAssumption, SolverAssumption DEF Value
  <2> QED BY <1>1, <2>1, <2>2, TextAt
<1>3. Text = [s \in Spot |-> Text[s]]
  BY DEF Text
<1>4. Pending = {}
  BY DEF Pending, Init
<1> QED BY <1>2, <1>3, <1>4 DEF Service!Init, Init

\* Every step of the webhook is a step of the service, or invisible to it.
LEMMA ServiceStep ==
  ASSUME Ordinary, TypeOK, TypeOK', RoutingInv, CustodyInv, CustodyInv', KeptInv, KeptInv',
         GoneInv, OneEach, OneEach', [Next]_vars
  PROVE  [Service!Next]_(Service!vars)
<1>1. CASE Operators
  BY <1>1, OperatorsInterfere
<1>2. CASE ~Operators
  <2>1. PhaseFate /\ OrphanFate /\ StoreFate
    BY <1>2, StepMoves DEF Moves, CustodyInv
  <2>2. UNCHANGED churn
    BY <1>2, OnlyOperators
  <2>3. /\ UNCHANGED phase \/ UNCHANGED <<rrsets, late, orphaned>>
        /\ UNCHANGED rrsets \/ UNCHANGED <<phase, orphaned>>
    BY <1>2, OneThingAtATime
  <2>4. CASE phase' # phase
    <3>1. PICK ch \in Challenge, st \in Phases :
            PhaseMove(ch, st) /\ phase' = [phase EXCEPT ![ch] = st]
      BY <2>1, <2>4 DEF PhaseFate
    <3> QED BY <2>2, <2>3, <2>4, <3>1, PhaseRefines, Zenon
  <2>5. CASE UNCHANGED <<phase, rrsets>> /\ late \subseteq late'
    <3>1. Service!Stray
      BY <2>1, <2>2, <2>5, StrayRefines
    <3> QED BY <3>1 DEF Service!Next
  <2>6. ASSUME UNCHANGED <<phase, late>>, rrsets' # rrsets, NEW c \in Call, At(c, Writing),
               rrsets' = Applied(rrsets, Request(c))
        PROVE  Service!Next
    <3> DEFINE ch == call[c].ch
               op == call[c].op
    <3>1. ch \in Routed /\ Request(c).zone \in ZoneId
      BY <2>6, OwnRequest
    <3>2. WriteOf(Request(c), ch, op)
      <4>1. /\ call[c].pc = "delete" => op = "CleanUp"
            /\ call[c].pc \in {"create", "set"} => op = "Present"
        BY <2>6 DEF CustodyInv, StepsOK, StepOK, At
      <4>2. call[c].pc \in {"create", "set"} \/ call[c].pc = "delete"
        BY <2>6 DEF At, Writing
      <4> QED BY <2>6, <4>1, <4>2, OwnRequest DEF WriteOf
    <3>3. phase[ch] \in StageOf(op) \/ <<ch, op>> \in orphaned
      BY <2>6 DEF CustodyInv, Custody, At, Owner
    <3>4. UNCHANGED <<phase, orphaned, churn>> /\ Pending' = Pending
      BY <2>2, <2>3, <2>6 DEF Pending
    <3> HIDE DEF ch, op
    <3> QED BY <2>6, <3>1, <3>2, <3>3, <3>4, WriteRefines
  <2>7. ASSUME NEW req \in late, ApplyLate(req)
        PROVE  [Service!Next]_(Service!vars)
    BY <2>7, LateRefines
  <2> QED BY <2>1, <2>4, <2>5, <2>6, <2>7 DEF StoreFate
<1> QED BY <1>1, <1>2

\* The webhook, with its handlers, caches, retries, time-outs, crashes and late
\* requests, implements the service, for any number of pods, calls, challenges
\* and zones and any number of faults and operator changes.
THEOREM WebhookImplementsService ==
  ASSUME Ordinary
  PROVE  Spec => ImplementsTxtService
<1>1. /\ TypeOK /\ RoutingInv /\ ProjectInv /\ CustodyInv /\ KeptInv /\ GoneInv
      /\ [Next]_vars
      => GoneInv'
  BY GoneStep
<1>2. /\ TypeOK /\ TypeOK' /\ RoutingInv /\ CustodyInv /\ CustodyInv' /\ KeptInv /\ KeptInv'
      /\ GoneInv /\ OneEach /\ OneEach' /\ [Next]_vars
      => [Service!Next]_(Service!vars)
  BY ServiceStep
<1> QED BY <1>1, <1>2, TypeInit, TypeStep, RoutingInit, RoutingStep, ProjectInit, ProjectStep,
           CustodyInit, CustodyStep, KeptInit, KeptStep, GoneInit, OneEachInit, OneEachStep,
           ServiceInit, PTL DEF Spec, ImplementsTxtService, Service!Spec

=============================================================================
