------------------------------- MODULE Solver -------------------------------
(***************************************************************************)
(* The webhook's Present and CleanUp (src/internal/solver/solver.go) as    *)
(* they run: handler goroutines of several pods, each pod with its own     *)
(* zone cache, calling the Hetzner Cloud Zones API through the retrying    *)
(* client (src/internal/hcloud/client.go), for challenges that             *)
(* cert-manager drives.                                                    *)
(*                                                                         *)
(* A handler is cut where another actor can be seen between two of its     *)
(* steps: the Secret read, the cache lookup, and for every API attempt the *)
(* moment the server carries it out and the moment the handler gets the    *)
(* answer.  All that runs between two such points is one action.           *)
(***************************************************************************)
EXTENDS WebhookConfig, ZoneCache, HetznerApi

CONSTANTS
  Replica,        \* webhook pods
  Call,           \* slots for handlers that run at the same time
  Challenge,      \* ChallengeRequests (see WebhookConfig)
  SecretRef,      \* Secrets, by SecretRefString
  SecretAtStart,  \* [SecretRef -> Token \cup {NoToken}]
  OwnerAtStart,   \* [ZoneId -> Project \cup {Unborn}]
  Foreign,        \* a TXT value no challenge asked for
  MaxRetries,     \* maxRetries
  RequestBudget,  \* requestBudget, in clock units
  FaultKinds, MaxFaults,   \* which faults happen, and how many at most
  ChurnKinds, MaxChurn,    \* which operator changes happen, and how many
  NoToken, NoZone, NoResponse, Idle

VARIABLES
  call,      \* [Call -> CallState \cup {Idle}]
  cache,     \* [Replica -> store of ZoneCache]
  ready,     \* the replicas whose Initialize has run
  secret,    \* what the Secrets hold
  owner,     \* the Hetzner zones
  rrsets,    \* the TXT RRSets of all zones
  revoked,   \* tokens the API no longer accepts
  late,      \* requests still to be carried out that nobody waits for
  phase,     \* cert-manager's view of each challenge
  orphaned,  \* <<challenge, op>>: a call's write was left to itself (history)
  goneFor,   \* time since a zone was deleted (history, saturating)
  faults, churn

podVars == <<call, cache, ready>>
apiVars == <<owner, rrsets, revoked, late, goneFor>>
cmVars  == <<phase, orphaned>>
vars == <<podVars, apiVars, cmVars, secret, faults, churn>>

----------------------------------------------------------------------------
Route == [ch \in Challenge |-> RouteOf(ch)]

Routed == {ch \in Challenge : Route[ch].ok}

CacheKeyOf(ch) == ZoneCacheKey(Route[ch].secret, Route[ch].apex)

CacheKeys == {CacheKeyOf(ch) : ch \in Routed}

\* strconv.Quote: the value on the wire is the quoted key.
QuoteTXT(key) == [quoted |-> key]

ApiSteps == {"list", "create", "set", "delete"}

CallState ==
  [pc : {"prepare", "lookup"} \cup ApiSteps, op : {"Present", "CleanUp"},
   ch : Challenge, rep : Replica, tok : Token \cup {NoToken},
   zid : ZoneId \cup {NoZone}, att : 0..MaxRetries,
   resp : [status : Nat, zones : SUBSET ZoneId, body : {"full", "empty", "garbled"}]
            \cup {NoResponse},
   left : 0..RequestBudget, attached : BOOLEAN]

Record == {Route[ch].record : ch \in Routed}

Value == {QuoteTXT(ch.key) : ch \in Routed} \cup {Foreign}

Entry == [id : ZoneId, left : -1..ZoneCacheTTL]

Phases == {"new", "presenting", "presented", "cleaning", "cleaned"}

\* Time left on a cached entry or a deleted zone is counted this far.
Horizon == ZoneCacheTTL + RequestBudget

ASSUME BoundsAssumption ==
  /\ MaxRetries \in Nat /\ RequestBudget \in Nat
  /\ MaxFaults \in Nat /\ MaxChurn \in Nat

ASSUME SolverAssumption ==
  /\ SecretAtStart \in [SecretRef -> Token \cup {NoToken}]
  /\ OwnerAtStart \in [ZoneId -> Project \cup {Unborn}]
  /\ \A ch \in Challenge : ProperName(ch.fqdn)
  /\ \A ch \in Routed : Route[ch].secret \in SecretRef
  /\ \A ch \in Routed : QuoteTXT(ch.key) # Foreign
  /\ NoToken \notin Token /\ NoZone \notin ZoneId
  /\ Idle \notin CallState /\ NoEntry \notin Entry

\* A handler that has just been entered; contextFor starts its budget.
NewCall(op, ch, r) ==
  [pc |-> "prepare", op |-> op, ch |-> ch, rep |-> r, tok |-> NoToken,
   zid |-> NoZone, att |-> 0, resp |-> NoResponse, left |-> RequestBudget,
   attached |-> TRUE]

Active(c) == call[c] # Idle

At(c, pcs) == Active(c) /\ call[c].pc \in pcs

\* The request of the current attempt.  StaticToken: every attempt of the
\* call carries the token prepare read.
Request(c) ==
  [op |-> call[c].pc, tok |-> call[c].tok, zone |-> call[c].zid,
   name |-> Route[call[c].ch].record, value |-> QuoteTXT(call[c].ch.key)]

\* On whose behalf the call runs.
Owner(c) == <<call[c].ch, call[c].op>>

Waiting(c) == At(c, ApiSteps) /\ call[c].resp = NoResponse

Fault(kind) == kind \in FaultKinds /\ faults < MaxFaults /\ faults' = faults + 1

Churn(kind) == kind \in ChurnKinds /\ churn < MaxChurn /\ churn' = churn + 1

----------------------------------------------------------------------------
\* RRSets that may be there already: from other tools, or of an earlier life.
LeftOver ==
  {[zone |-> p[1], name |-> Route[p[2]].record, value |-> Foreign] :
     p \in {p \in ZoneId \X Routed :
             OwnerAtStart[p[1]] # Unborn /\ ZoneName[p[1]] = Route[p[2]].apex}}

Init ==
  /\ call = [c \in Call |-> Idle]
  /\ cache = [r \in Replica |-> EmptyStore(CacheKeys)]
  /\ ready = {}
  /\ secret = SecretAtStart
  /\ owner = OwnerAtStart
  /\ rrsets \in SUBSET LeftOver
  /\ revoked = {}
  /\ late = {}
  /\ phase = [ch \in Challenge |-> "new"]
  /\ orphaned = {}
  /\ goneFor = [z \in ZoneId |-> 0]
  /\ faults = 0
  /\ churn = 0

----------------------------------------------------------------------------
(* cert-manager, external: what it may ask of the webhook, and when.       *)

InProgress(ch) == phase[ch] \in {"presenting", "presented", "cleaning"}

\* The DNS name of the challenge's record.
Target(ch) == <<Route[ch].record, Route[ch].apex>>

SameRecord(a, b) == a \in Routed /\ b \in Routed /\ Target(a) = Target(b)

\* One worker per challenge: it waits for its call before the next one.
\* Challenges for one DNS name are scheduled one after the other.
CallWebhook(c, op, ch, r) ==
  /\ ~Active(c)
  /\ \A d \in Call : Active(d) /\ call[d].ch = ch => ~call[d].attached
  /\ IF op = "Present"
       THEN phase[ch] \in {"new", "presenting", "presented"}
       ELSE phase[ch] = "cleaning"
  /\ phase[ch] = "new" =>
       \A o \in Challenge \ {ch} : SameRecord(o, ch) => ~InProgress(o)
  /\ call' = [call EXCEPT ![c] = NewCall(op, ch, r)]
  /\ phase' = [phase EXCEPT ![ch] = IF @ = "new" THEN "presenting" ELSE @]
  /\ UNCHANGED <<cache, ready, apiVars, orphaned, secret, faults, churn>>

\* The ACME order is finished or the Challenge is being deleted.
BeginCleanUp(ch) ==
  /\ phase[ch] \in {"presenting", "presented"}
  /\ \A d \in Call : Active(d) /\ call[d].ch = ch => ~call[d].attached
  /\ phase' = [phase EXCEPT ![ch] = "cleaning"]
  /\ UNCHANGED <<podVars, apiVars, orphaned, secret, faults, churn>>

\* cert-manager's own request times out; the handler runs on, because its
\* context derives from context.Background().
Abandon(c) ==
  /\ Active(c) /\ call[c].attached
  /\ Fault("abandon")
  /\ call' = [call EXCEPT ![c] = [@ EXCEPT !.attached = FALSE]]
  /\ orphaned' = orphaned \cup {Owner(c)}
  /\ UNCHANGED <<cache, ready, apiVars, phase, secret, churn>>

----------------------------------------------------------------------------
(* Steps of a handler.                                                     *)

\* The handler returns nil (ok) or an error.
Return(c, ok) ==
  /\ call' = [call EXCEPT ![c] = Idle]
  /\ phase' =
       IF ok /\ call[c].attached
         THEN [phase EXCEPT ![call[c].ch] =
                 IF call[c].op = "CleanUp" THEN "cleaned" ELSE "presented"]
         ELSE phase

Goto(c, pc, zid) ==
  /\ call' = [call EXCEPT ![c] = [@ EXCEPT !.pc = pc, !.zid = zid, !.att = 0,
                                           !.resp = NoResponse]]
  /\ UNCHANGED phase

AfterResolve(c) == IF call[c].op = "Present" THEN "create" ELSE "delete"

\* Mutation: one attempt more than maxRetries allows.
RetryOnceTooOften(c) ==
  IF call[c].att <= MaxRetries
    THEN /\ call' = [call EXCEPT ![c] = [@ EXCEPT !.att = call[c].att + 1,
                                                !.resp = NoResponse]]
         /\ UNCHANGED phase
    ELSE Return(c, FALSE)

\* do(): the next attempt of the same request, or the last error.
RetryOrFail(c) ==
  IF call[c].att < MaxRetries
    THEN /\ call' = [call EXCEPT ![c] = [@ EXCEPT !.att = call[c].att + 1,
                                                !.resp = NoResponse]]
         /\ UNCHANGED phase
    ELSE Return(c, FALSE)

\* prepare: route, then read the Secret (never cached) and build a client.
PrepareOK(c) ==
  /\ call[c].ch \in Routed
  /\ call[c].rep \in ready
  /\ secret[Route[call[c].ch].secret] # NoToken

Prepare(c) ==
  /\ At(c, {"prepare"})
  /\ call[c].left > 0
  /\ IF PrepareOK(c)
       THEN /\ call' = [call EXCEPT ![c] =
                          [@ EXCEPT !.pc = "lookup",
                                    !.tok = secret[Route[call[c].ch].secret]]]
            /\ UNCHANGED phase
       ELSE Return(c, FALSE)
  /\ UNCHANGED <<cache, ready, apiVars, orphaned, secret, faults, churn>>

\* The Kubernetes API fails the Secret read.
SecretReadFails(c) ==
  /\ At(c, {"prepare"})
  /\ Fault("secret")
  /\ Return(c, FALSE)
  /\ UNCHANGED <<cache, ready, apiVars, orphaned, secret, churn>>

\* resolveZoneID, first half.
LookupZone(c) ==
  /\ At(c, {"lookup"})
  /\ call[c].left > 0
  /\ LET r == call[c].rep
         key == CacheKeyOf(call[c].ch)
     IN  /\ cache' = [cache EXCEPT ![r] = AfterLookup(@, key)]
         /\ IF Hit(cache[r], key)
              THEN Goto(c, AfterResolve(c), cache[r][key].id)
              ELSE Goto(c, "list", NoZone)
  /\ UNCHANGED <<ready, apiVars, orphaned, secret, faults, churn>>

----------------------------------------------------------------------------
(* The server carries out an attempt.                                      *)

Answer(status, zones, body) == [status |-> status, zones |-> zones, body |-> body]

Success(status) == status \in 200..299

Verdicts(req) == Statuses(owner, revoked, rrsets, req)

Respond(c, answer, carriedOut) ==
  /\ call' = [call EXCEPT ![c] = [@ EXCEPT !.resp = answer]]
  /\ rrsets' = IF carriedOut THEN Applied(rrsets, Request(c)) ELSE rrsets

PageFor(c, status) ==
  IF call[c].pc = "list" /\ Success(status) THEN Pages(owner, Request(c)) ELSE {{}}

Serve(c) ==
  /\ Waiting(c)
  /\ \E status \in Verdicts(Request(c)) : \E page \in PageFor(c, status) :
       Respond(c, Answer(status, page, "full"), Success(status))
  /\ UNCHANGED <<cache, ready, owner, revoked, late, goneFor, cmVars, secret,
                 faults, churn>>

\* Rate limiting; a server error before or after the work was done; a 2xx
\* whose body breaks off at its start or later on.
ServeBadly(c) ==
  /\ Waiting(c)
  /\ \/ Fault("429") /\ Respond(c, Answer(429, {}, "full"), FALSE)
     \/ Fault("500") /\ Respond(c, Answer(500, {}, "full"), FALSE)
     \/ \E status \in Verdicts(Request(c)) :
          /\ Success(status)
          /\ \/ Fault("500") /\ Respond(c, Answer(500, {}, "full"), TRUE)
             \/ Fault("empty") /\ Respond(c, Answer(status, {}, "empty"), TRUE)
             \/ Fault("garbled") /\ Respond(c, Answer(status, {}, "garbled"), TRUE)
  /\ UNCHANGED <<cache, ready, owner, revoked, late, goneFor, cmVars, secret, churn>>

\* set_records answers with a running Action, carried out later on.
AcceptAction(c) ==
  /\ Waiting(c)
  /\ call[c].pc = "set"
  /\ Fault("async")
  /\ \E status \in Verdicts(Request(c)) :
       Success(status) /\ Respond(c, Answer(status, {}, "full"), FALSE)
  /\ late' = late \cup {Request(c)}
  /\ orphaned' = orphaned \cup {Owner(c)}
  /\ UNCHANGED <<cache, ready, owner, revoked, goneFor, phase, secret, churn>>

\* A request nobody waits for reaches the server.
ApplyLate(req) ==
  /\ req \in late
  /\ late' = late \ {req}
  /\ rrsets' = IF \E status \in Verdicts(req) : Success(status)
                 THEN Applied(rrsets, req) ELSE rrsets
  /\ UNCHANGED <<podVars, owner, revoked, goneFor, cmVars, secret, faults, churn>>

----------------------------------------------------------------------------
(* The handler gets the answer.                                            *)

\* errors.Is(err, ...): the sentinels go by the status code.
ErrNotFound(status) == status = 404

ErrConflict(status) == status = 409

\* isRetryable
Retryable(status) == status = 429 \/ status \in 500..599

\* Mutation: CleanUp takes every failure to list the zones for a zone that is
\* gone.
ListFailureIsZoneGone(c) ==
  LET resp == call[c].resp
      r == call[c].rep
      matches == {z \in resp.zones : ZoneName[z] = Route[call[c].ch].apex}
  IN  /\ call[c].pc = "list"
      /\ IF matches # {}
           THEN \E z \in matches :
                  /\ cache' = [cache EXCEPT ![r] = Store(@, CacheKeyOf(call[c].ch), z)]
                  /\ Goto(c, AfterResolve(c), z)
           ELSE /\ IF Retryable(resp.status) /\ call[c].att < MaxRetries
                     THEN RetryOrFail(c) ELSE Return(c, call[c].op = "CleanUp")
                /\ UNCHANGED cache

\* resolveZoneID, second half.
ReceiveList(c) ==
  LET resp == call[c].resp
      r == call[c].rep
      matches == {z \in resp.zones : ZoneName[z] = Route[call[c].ch].apex}
  IN  /\ call[c].pc = "list"
      /\ IF Success(resp.status) /\ resp.body # "garbled"
           THEN \/ \E z \in matches :
                     /\ cache' = [cache EXCEPT ![r] = Store(@, CacheKeyOf(call[c].ch), z)]
                     /\ Goto(c, AfterResolve(c), z)
                \/ /\ matches = {}
                   /\ Return(c, call[c].op = "CleanUp")
                   /\ UNCHANGED cache
           ELSE /\ IF Retryable(resp.status) THEN RetryOrFail(c)
                   ELSE Return(c, call[c].op = "CleanUp" /\ ErrNotFound(resp.status))
                /\ UNCHANGED cache

\* Mutation: an RRSet that exists already is taken for one's own.
ConflictIsDone(c) ==
  /\ call[c].pc = "create"
  /\ IF Retryable(call[c].resp.status) THEN RetryOrFail(c)
     ELSE Return(c, Success(call[c].resp.status) \/ ErrConflict(call[c].resp.status))
  /\ UNCHANGED cache

\* Mutation: an RRSet that exists already is an error.
ConflictIsError(c) ==
  /\ call[c].pc = "create"
  /\ cache' = IF ErrNotFound(call[c].resp.status)
                THEN [cache EXCEPT ![call[c].rep] = Invalidate(@, CacheKeyOf(call[c].ch))]
                ELSE cache
  /\ IF Success(call[c].resp.status) THEN Return(c, call[c].resp.body # "garbled")
     ELSE IF Retryable(call[c].resp.status) THEN RetryOrFail(c)
     ELSE Return(c, FALSE)

\* Mutation: Present deletes an RRSet that exists already, to create it anew.
DeleteFirst(c) ==
  /\ call[c].pc = "create"
  /\ IF Success(call[c].resp.status) THEN Return(c, call[c].resp.body # "garbled")
     ELSE IF ErrConflict(call[c].resp.status) THEN Goto(c, "delete", call[c].zid)
     ELSE IF Retryable(call[c].resp.status) THEN RetryOrFail(c)
     ELSE Return(c, FALSE)
  /\ UNCHANGED cache

ReceiveCreate(c) ==
  LET resp == call[c].resp
      r == call[c].rep
  IN  /\ call[c].pc = "create"
      /\ cache' = IF ErrNotFound(resp.status)
                    THEN [cache EXCEPT ![r] = Invalidate(@, CacheKeyOf(call[c].ch))]
                    ELSE cache
      /\ IF Success(resp.status) THEN Return(c, resp.body # "garbled")
         ELSE IF ErrConflict(resp.status) THEN Goto(c, "set", call[c].zid)
         ELSE IF Retryable(resp.status) THEN RetryOrFail(c)
         ELSE Return(c, FALSE)

\* reconcileExisting
ReceiveSet(c) ==
  LET resp == call[c].resp
  IN  /\ call[c].pc = "set"
      /\ IF Success(resp.status) THEN Return(c, resp.body # "garbled")
         ELSE IF Retryable(resp.status) THEN RetryOrFail(c)
         ELSE Return(c, FALSE)
      /\ UNCHANGED cache

\* Mutation: a record that has gone before is an error.
NotFoundFails(c) ==
  /\ call[c].pc = "delete"
  /\ IF Retryable(call[c].resp.status) THEN RetryOrFail(c)
     ELSE Return(c, Success(call[c].resp.status))
  /\ UNCHANGED cache

\* DELETE decodes no body, so a broken one goes unnoticed.
ReceiveDelete(c) ==
  LET resp == call[c].resp
  IN  /\ call[c].pc = "delete"
      /\ IF Success(resp.status) \/ ErrNotFound(resp.status) THEN Return(c, TRUE)
         ELSE IF Retryable(resp.status) THEN RetryOrFail(c)
         ELSE Return(c, FALSE)
      /\ UNCHANGED cache

\* An answer counts when it is read within the budget; a body that the
\* deadline cuts off is "empty" or "garbled".
Receive(c) ==
  /\ At(c, ApiSteps)
  /\ call[c].resp # NoResponse
  /\ call[c].left > 0
  /\ ReceiveList(c) \/ ReceiveCreate(c) \/ ReceiveSet(c) \/ ReceiveDelete(c)
  /\ UNCHANGED <<ready, apiVars, orphaned, secret, faults, churn>>

\* What becomes of an attempt its handler gives up on: it may be lost, or
\* have been carried out, or still be on its way.
Forsake(cs) ==
  \E sent \in SUBSET {c \in cs : Waiting(c) /\ call[c].pc # "list"} :
    /\ sent # {} => "late" \in FaultKinds
    /\ late' = late \cup {Request(c) : c \in sent}
    /\ orphaned' = orphaned \cup {Owner(c) : c \in sent}

\* Connection reset or request timeout: an APIError with status 0, retried.
TransportError(c) ==
  /\ At(c, ApiSteps)
  /\ call[c].left > 0
  /\ Fault("transport")
  /\ RetryOrFail(c)
  /\ Forsake({c})
  /\ UNCHANGED <<cache, ready, owner, rrsets, revoked, goneFor, secret, churn>>

\* The context is done: the Secret read, the attempt, or the Sleep before the
\* next one fails.
DeadlineExceeded(c) ==
  /\ Active(c)
  /\ call[c].left = 0
  /\ Return(c, FALSE)
  /\ Forsake({c})
  /\ UNCHANGED <<cache, ready, owner, rrsets, revoked, goneFor, secret, faults, churn>>

----------------------------------------------------------------------------
(* Pods, time and the operators of the projects.                           *)

Initialize(r) ==
  /\ r \notin ready
  /\ ready' = ready \cup {r}
  /\ UNCHANGED <<call, cache, apiVars, cmVars, secret, faults, churn>>

\* The pod dies with its handlers and its cache, and is started again.
Crash(r) ==
  LET lost == {c \in Call : Active(c) /\ call[c].rep = r}
  IN  /\ Fault("crash")
      /\ Forsake(lost)
      /\ call' = [c \in Call |-> IF c \in lost THEN Idle ELSE call[c]]
      /\ cache' = [cache EXCEPT ![r] = EmptyStore(CacheKeys)]
      /\ ready' = ready \ {r}
      /\ UNCHANGED <<owner, rrsets, revoked, goneFor, phase, secret, churn>>

\* A unit of time passes.  A unit that uses up a handler's budget is a fault
\* of the environment: answers normally arrive long before that.
Tick ==
  /\ \/ Fault("slow")
     \/ (\A c \in Call : Active(c) => call[c].left # 1) /\ UNCHANGED faults
  /\ call' = [c \in Call |->
                IF Active(c) /\ call[c].left > 0
                  THEN [call[c] EXCEPT !.left = @ - 1] ELSE call[c]]
  /\ cache' = [r \in Replica |-> Aged(cache[r])]
  /\ goneFor' = [z \in ZoneId |->
                   IF owner[z] = Gone /\ goneFor[z] <= Horizon
                     THEN goneFor[z] + 1 ELSE goneFor[z]]
  /\ UNCHANGED <<ready, owner, rrsets, revoked, late, cmVars, secret, churn>>

DeleteZone(z) ==
  /\ owner[z] \in Project
  /\ Churn("delete")
  /\ owner' = [owner EXCEPT ![z] = Gone]
  /\ rrsets' = {r \in rrsets : r.zone # z}
  /\ UNCHANGED <<podVars, revoked, late, goneFor, cmVars, secret, faults>>

\* A project has at most one zone of a name.
HasZoneNamed(p, name) == \E z \in ZoneId : owner[z] = p /\ ZoneName[z] = name

CreateZone(z, p) ==
  /\ owner[z] = Unborn
  /\ ~HasZoneNamed(p, ZoneName[z])
  /\ Churn("create")
  /\ owner' = [owner EXCEPT ![z] = p]
  /\ UNCHANGED <<podVars, rrsets, revoked, late, goneFor, cmVars, secret, faults>>

MoveZone(z, p) ==
  /\ owner[z] \in Project \ {p}
  /\ ~HasZoneNamed(p, ZoneName[z])
  /\ Churn("move")
  /\ owner' = [owner EXCEPT ![z] = p]
  /\ UNCHANGED <<podVars, rrsets, revoked, late, goneFor, cmVars, secret, faults>>

RotateSecret(s, t) ==
  /\ secret[s] # t
  /\ Churn("rotate")
  /\ secret' = [secret EXCEPT ![s] = t]
  /\ UNCHANGED <<podVars, apiVars, cmVars, faults>>

RevokeToken(t) ==
  /\ t \notin revoked
  /\ Churn("revoke")
  /\ revoked' = revoked \cup {t}
  /\ UNCHANGED <<podVars, owner, rrsets, late, goneFor, cmVars, secret, faults>>

----------------------------------------------------------------------------
CertManager ==
  \/ \E c \in Call, op \in {"Present", "CleanUp"}, ch \in Challenge, r \in Replica :
       CallWebhook(c, op, ch, r)
  \/ \E ch \in Challenge : BeginCleanUp(ch)
  \/ \E c \in Call : Abandon(c)

Handler(c) ==
  \/ Prepare(c) \/ SecretReadFails(c) \/ LookupZone(c)
  \/ Receive(c) \/ TransportError(c) \/ DeadlineExceeded(c)

Server ==
  \/ \E c \in Call : Serve(c) \/ ServeBadly(c) \/ AcceptAction(c)
  \/ \E req \in late : ApplyLate(req)

Pods == \E r \in Replica : Initialize(r) \/ Crash(r)

Operators ==
  \/ \E z \in ZoneId : DeleteZone(z)
  \/ \E z \in ZoneId, p \in Project : CreateZone(z, p) \/ MoveZone(z, p)
  \/ \E s \in SecretRef, t \in Token \cup {NoToken} : RotateSecret(s, t)
  \/ \E t \in Token : RevokeToken(t)

Next ==
  CertManager \/ (\E c \in Call : Handler(c)) \/ Server \/ Pods \/ Tick \/ Operators

Spec == Init /\ [][Next]_vars

\* The Go scheduler runs every handler and every attempt is answered; a pod
\* is initialised; time passes; cert-manager's workers retry what failed.
Fairness ==
  /\ \A c \in Call :
       WF_vars(Prepare(c) \/ LookupZone(c) \/ Serve(c) \/ Receive(c)
                 \/ DeadlineExceeded(c))
  /\ \A r \in Replica : WF_vars(Initialize(r))
  /\ WF_vars(Tick)
  /\ \A ch \in Challenge :
       WF_vars(\E c \in Call, op \in {"Present", "CleanUp"}, r \in Replica :
                 CallWebhook(c, op, ch, r))

FairSpec == Spec /\ Fairness

----------------------------------------------------------------------------
(* Properties.                                                             *)

\* A handler past prepare has a routed challenge and a token, and one past
\* resolveZoneID a zone ID.
HandlerOK(s) ==
  /\ s \in CallState
  /\ s.pc # "prepare" => s.ch \in Routed /\ s.tok \in Token
  /\ s.pc \in {"create", "set", "delete"} => s.zid \in ZoneId

\* The type of every variable.
TypeOK ==
  /\ call \in [Call -> CallState \cup {Idle}]
  /\ \A c \in Call : Active(c) => HandlerOK(call[c])
  /\ cache \in [Replica -> [CacheKeys -> Entry \cup {NoEntry}]]
  /\ ready \subseteq Replica
  /\ secret \in [SecretRef -> Token \cup {NoToken}]
  /\ owner \in [ZoneId -> Project \cup {Unborn, Gone}]
  /\ rrsets \subseteq [zone : ZoneId, name : Record, value : Value]
  /\ revoked \subseteq Token
  /\ late \subseteq [op : ApiSteps, tok : Token, zone : ZoneId, name : Record,
                     value : Value]
  /\ phase \in [Challenge -> Phases]
  /\ orphaned \subseteq Challenge \X {"Present", "CleanUp"}
  /\ goneFor \in [ZoneId -> 0..(Horizon + 1)]
  /\ faults \in 0..MaxFaults
  /\ churn \in 0..MaxChurn

\* The DNS name of every TXT record the webhook ever leaves at Hetzner is the
\* ResolvedFQDN of a challenge whose key the record carries: neither the
\* routing, nor the derived record name, nor a cached zone ID ever sends a
\* value to another name (relativeRecordName, resolveZoneID, zoneCache).
TxtOnlyWhereChallenged ==
  \A r \in rrsets : r.value # Foreign =>
    \E ch \in Routed :
      /\ r.value = QuoteTXT(ch.key)
      /\ AbsoluteName(r.name, ZoneName[r.zone]) = Lower(TrimDot(ch.fqdn))

\* As long as nobody moves zones or tokens, a handler never addresses a zone
\* of a project other than its credential's, whatever other credentials have
\* put into the shared cache (zoneCacheKey holds the Secret as well as the
\* zone name).
NoCrossProjectRequest ==
  churn = 0 =>
    \A c \in Call : At(c, {"create", "set", "delete"}) =>
      owner[call[c].zid] = ProjectOf[call[c].tok]

Served(ch, r) ==
  /\ ZoneName[r.zone] = Route[ch].apex
  /\ r.name = Route[ch].record
  /\ r.value = QuoteTXT(ch.key)

\* Present's promise: once cert-manager has seen it succeed, the record holds
\* the challenge's key until CleanUp begins, whatever was there before,
\* however many attempts, lost answers, abandoned and repeated calls it took.
\* Excepted are a write of another challenge for the name that was left to
\* itself, and a set_records Action that is still running.
PresentedMeansServed ==
  \A ch \in Challenge :
    /\ phase[ch] = "presented"
    /\ \A p \in orphaned : SameRecord(p[1], ch) => p[1] = ch
    /\ \A req \in late : req.value # QuoteTXT(ch.key)
    /\ churn = 0
    => \E r \in rrsets :
         Served(ch, r) /\ owner[r.zone] = ProjectOf[secret[Route[ch].secret]]

\* CleanUp's promise ("the record is already gone, which is exactly the
\* post-condition CleanUp guarantees"): once cert-manager has seen it
\* succeed, no zone holds the challenge's key any more, unless one of the
\* challenge's own Present calls was left to itself (abandoned, timed out on
\* its way, cut off by a crash, or accepted as a running Action).
CleanedMeansGone ==
  \A ch \in Challenge :
    phase[ch] = "cleaned" /\ <<ch, "Present">> \notin orphaned =>
      \A r \in rrsets : ~Served(ch, r)

\* "read each Secret at most once per N seconds": two handlers of a pod whose
\* whole budget is left and that are past prepare have both read their Secret
\* in the current unit of time, so it was not the same one.  Violated:
\* prepare asks the getter, which asks the Kubernetes API, in every call.
SecretReadOncePerTTL ==
  \A c, d \in Call :
    /\ c # d /\ At(c, {"lookup"}) /\ At(d, {"lookup"})
    /\ call[c].rep = call[d].rep
    /\ call[c].left = RequestBudget /\ call[d].left = RequestBudget
    => Route[call[c].ch].secret # Route[call[d].ch].secret

\* The cache answers with the ID of a deleted zone for at most the TTL plus
\* one request budget after the deletion, even when a slow ListZones stores
\* its answer late.
StaleIdBounded ==
  \A r \in Replica, k \in CacheKeys :
    Hit(cache[r], k) /\ owner[cache[r][k].id] = Gone =>
      goneFor[cache[r][k].id] <= Horizon

TokenWorks(ch) ==
  LET t == secret[Route[ch].secret] IN t # NoToken /\ t \notin revoked

ZoneVisible(ch) ==
  \E z \in ZoneId : /\ owner[z] = ProjectOf[secret[Route[ch].secret]]
                    /\ ZoneName[z] = Route[ch].apex

\* "cert-manager's repeated Present calls ... cannot wedge the challenge":
\* after the last fault, Present succeeds while the Secret holds a working
\* token and the zone is in its project, whatever ID the caches still hold.
PresentRecovers ==
  \A ch \in Routed :
    phase[ch] = "presenting" ~>
      phase[ch] # "presenting" \/ ~TokenWorks(ch) \/ ~ZoneVisible(ch)

\* CleanUp succeeds in the end with a working token, also when the record, or
\* the whole zone, has gone before.
CleanUpRecovers ==
  \A ch \in Routed :
    phase[ch] = "cleaning" ~> phase[ch] = "cleaned" \/ ~TokenWorks(ch)

============================================================================
