---------------------------- MODULE SolverProofs ----------------------------
(***************************************************************************)
(* Proofs about Solver for every number of pods, handlers, challenges,     *)
(* zones and projects, every retry limit, budget and TTL, and any number   *)
(* and kind of faults and operator changes.                                *)
(***************************************************************************)
EXTENDS Solver, TLAPS

\* The TXT RRSets that were there before the webhook are not the webhook's.
LEMMA LeftOverForeign == \A r \in LeftOver : r.value = Foreign
BY DEF LeftOver

LEMMA AnswerFields ==
  ASSUME NEW status, NEW zones, NEW body
  PROVE  /\ Answer(status, zones, body).status = status
         /\ Answer(status, zones, body).zones = zones
         /\ Answer(status, zones, body).body = body
BY DEF Answer

LEMMA EntryType ==
  ASSUME NEW e \in Entry
  PROVE  /\ e.id \in ZoneId /\ e.left \in Int
         /\ e.left >= 0 => e.left \in 0..ZoneCacheTTL
         /\ ~(e.left < 0) => e.left >= 0
BY ZoneCacheTTLAssumption DEF Entry

\* Ages and the time left of an entry or a budget.
LEMMA NoAge == ASSUME NEW b \in Nat, NEW n \in 0..b, NEW g, g = 0 PROVE g + n <= b
OBVIOUS

LEMMA OneUnit ==
  ASSUME NEW n \in Nat, NEW m, m = IF n > 0 THEN n - 1 ELSE 0, m > 0
  PROVE  n > 0 /\ m = n - 1
OBVIOUS

LEMMA AgeTogether ==
  ASSUME NEW g \in Nat, NEW h \in Nat, NEW n \in Int, NEW m, NEW b \in Int,
         g + n <= b, h <= g + 1, m = n - 1
  PROVE  h + m <= b
OBVIOUS

LEMMA AgeAlone ==
  ASSUME NEW g \in Nat, NEW n \in Int, NEW b \in Int, n >= 0, g + n <= b
  PROVE  g <= b
OBVIOUS

LEMMA NatIsInt == ASSUME NEW n \in Nat PROVE n \in Int
OBVIOUS

LEMMA HeardZones ==
  ASSUME NEW s, NEW x, NEW y, NEW z, s.resp = Answer(x, y, z)
  PROVE  s.resp.zones = y
BY DEF Answer

LEMMA FreshEntry ==
  ASSUME NEW g \in Nat, NEW n \in Nat, g + n <= RequestBudget
  PROVE  g + ZoneCacheTTL <= Horizon
BY BoundsAssumption, ZoneCacheTTLAssumption DEF Horizon

LEMMA HorizonType == Horizon \in Int /\ RequestBudget \in Int /\ RequestBudget \in Nat
BY BoundsAssumption, ZoneCacheTTLAssumption DEF Horizon

(***************************************************************************)
(* Types.  CallsOK is the part of TypeOK about the handlers.               *)
(***************************************************************************)
CallsOK ==
  /\ call \in [Call -> CallState \cup {Idle}]
  /\ \A c \in Call : Active(c) => HandlerOK(call[c])

\* What HandlerOK depends on.
SameRouting(s, t) == s.pc = t.pc /\ s.ch = t.ch /\ s.tok = t.tok /\ s.zid = t.zid

\* What stays the same for a handler from prepare to its return.
SameJob(s, t) == s.op = t.op /\ s.ch = t.ch /\ s.rep = t.rep /\ s.left = t.left

\* Whether cert-manager still waits for the call stays the same, too.
SameRun(s, t) == SameJob(s, t) /\ s.attached = t.attached

\* Handler c moves on to state s.
Becomes(c, s) == s \in CallState /\ call' = [call EXCEPT ![c] = s]

\* A step that changes one handler keeps the handlers typed when the new state
\* of that handler is.
LEMMA OneHandler ==
  ASSUME CallsOK, NEW c \in Call, NEW s, s = Idle \/ HandlerOK(s),
         call' = [call EXCEPT ![c] = s]
  PROVE  CallsOK'
BY DEF CallsOK, Active, HandlerOK

\* Return ends the handler and records its outcome with cert-manager.
LEMMA ReturnType ==
  ASSUME TypeOK, NEW c \in Call, Active(c), NEW ok, Return(c, ok)
  PROVE  CallsOK' /\ phase' \in [Challenge -> Phases]
<1>1. CallsOK /\ call[c] \in CallState
  BY DEF TypeOK, CallsOK, Active
<1>2. CallsOK'
  BY <1>1, OneHandler, Zenon DEF Return
<1>3. phase' \in [Challenge -> Phases]
  BY <1>1, Zenon DEF TypeOK, Return, Phases
<1> QED BY <1>2, <1>3

\* The state of the handler after Goto.
GoesTo(c, pc, zid, s) ==
  /\ Becomes(c, s) /\ SameRun(s, call[c]) /\ s.tok = call[c].tok
  /\ s.pc = pc /\ s.zid = zid /\ s.resp = NoResponse

LEMMA GotoState ==
  ASSUME TypeOK, NEW c \in Call, Active(c), NEW pc \in ApiSteps,
         NEW zid \in ZoneId \cup {NoZone}, Goto(c, pc, zid)
  PROVE  \E s : GoesTo(c, pc, zid, s)
<1> DEFINE s1 == [call[c] EXCEPT !.pc = pc]
           s2 == [s1 EXCEPT !.zid = zid]
           s3 == [s2 EXCEPT !.att = 0]
           s4 == [s3 EXCEPT !.resp = NoResponse]
<1>1. call[c] \in CallState
  BY DEF TypeOK, HandlerOK
<1>2. call' = [call EXCEPT ![c] = s4]
  BY DEF Goto
<1>3. s1 \in CallState /\ SameRun(s1, call[c]) /\ s1.tok = call[c].tok /\ s1.pc = pc
  BY <1>1 DEF CallState, ApiSteps, SameRun, SameJob
<1> HIDE DEF s1
<1>4. /\ s2 \in CallState /\ SameRun(s2, s1) /\ s2.tok = s1.tok
      /\ s2.pc = s1.pc /\ s2.zid = zid
  BY <1>3 DEF CallState, SameRun, SameJob
<1> HIDE DEF s2
<1>5. s3 \in CallState /\ SameRun(s3, s2) /\ SameRouting(s3, s2)
  BY BoundsAssumption, <1>4 DEF CallState, SameRun, SameJob, SameRouting
<1> HIDE DEF s3
<1>6. /\ s4 \in CallState /\ SameRun(s4, s3) /\ SameRouting(s4, s3)
      /\ s4.resp = NoResponse
  BY <1>5 DEF CallState, SameRun, SameJob, SameRouting
<1> HIDE DEF s4
<1>7. GoesTo(c, pc, zid, s4)
  BY <1>2, <1>3, <1>4, <1>5, <1>6 DEF GoesTo, SameRun, SameJob, SameRouting, Becomes
<1> QED BY <1>7, Zenon

\* Goto leads to an API step, which a handler past prepare may take.
LEMMA GotoType ==
  ASSUME TypeOK, NEW c \in Call, Active(c), call[c].pc # "prepare",
         NEW pc \in ApiSteps, NEW zid \in ZoneId \cup {NoZone},
         pc # "list" => zid \in ZoneId, Goto(c, pc, zid)
  PROVE  CallsOK' /\ phase' \in [Challenge -> Phases]
<1>0. PICK s : GoesTo(c, pc, zid, s)
  BY GotoState, Zenon
<1>1. /\ Becomes(c, s) /\ SameJob(s, call[c]) /\ s.tok = call[c].tok
      /\ s.pc = pc /\ s.zid = zid /\ s.resp = NoResponse
  BY <1>0 DEF GoesTo, SameRun
<1>2. CallsOK /\ HandlerOK(call[c])
  BY DEF TypeOK, CallsOK
<1>3. HandlerOK(s)
  BY <1>1, <1>2 DEF HandlerOK, SameJob, Becomes
<1>4. CallsOK'
  BY <1>1, <1>2, <1>3, OneHandler, Zenon DEF Becomes
<1> QED BY <1>4 DEF TypeOK, Goto

\* A further attempt keeps the handler where it is.
LEMMA RetryState ==
  ASSUME TypeOK, NEW c \in Call, Active(c), RetryOrFail(c)
  PROVE  \/ Return(c, FALSE)
         \/ /\ UNCHANGED phase
            /\ \E s : /\ Becomes(c, s) /\ SameRun(s, call[c])
                      /\ SameRouting(s, call[c]) /\ s.resp = NoResponse
<1> DEFINE s1 == [call[c] EXCEPT !.att = call[c].att + 1]
           s2 == [s1 EXCEPT !.resp = NoResponse]
<1>1. call[c] \in CallState
  BY DEF TypeOK, HandlerOK
<1>2. CASE call[c].att < MaxRetries
  <2>1. call' = [call EXCEPT ![c] = s2] /\ UNCHANGED phase
    BY <1>2, Zenon DEF RetryOrFail
  <2>2. s1 \in CallState /\ SameRun(s1, call[c]) /\ SameRouting(s1, call[c])
    BY BoundsAssumption, <1>1, <1>2 DEF CallState, SameRun, SameJob, SameRouting
  <2> HIDE DEF s1
  <2>3. /\ s2 \in CallState /\ SameRun(s2, s1) /\ SameRouting(s2, s1)
        /\ s2.resp = NoResponse
    BY <2>2 DEF CallState, SameRun, SameJob, SameRouting
  <2> HIDE DEF s2
  <2>4. Becomes(c, s2) /\ SameRun(s2, call[c]) /\ SameRouting(s2, call[c])
    BY <2>1, <2>2, <2>3 DEF SameRun, SameJob, SameRouting, Becomes
  <2> QED BY <2>1, <2>3, <2>4, Zenon
<1>3. CASE ~(call[c].att < MaxRetries)
  BY <1>3, Zenon DEF RetryOrFail
<1> QED BY <1>2, <1>3, Zenon

LEMMA RetryType ==
  ASSUME TypeOK, NEW c \in Call, Active(c), RetryOrFail(c)
  PROVE  CallsOK' /\ phase' \in [Challenge -> Phases]
<1>1. CASE Return(c, FALSE)
  BY <1>1, ReturnType, Zenon
<1>2. ASSUME UNCHANGED phase, NEW s, Becomes(c, s), SameRouting(s, call[c])
      PROVE  CallsOK' /\ phase' \in [Challenge -> Phases]
  <2>1. CallsOK /\ HandlerOK(call[c])
    BY DEF TypeOK, CallsOK
  <2>2. HandlerOK(s)
    BY <1>2, <2>1 DEF HandlerOK, SameRouting, Becomes
  <2> QED BY <1>2, <2>1, <2>2, OneHandler, Zenon DEF TypeOK, Becomes
<1> QED BY <1>1, <1>2, RetryState, Zenon

\* What the request of a handler past prepare carries.
LEMMA RequestType ==
  ASSUME TypeOK, NEW c \in Call, At(c, ApiSteps)
  PROVE  /\ call[c] \in CallState /\ HandlerOK(call[c])
         /\ Request(c).op = call[c].pc /\ Request(c).zone = call[c].zid
         /\ call[c].pc # "list" =>
              Request(c) \in [op : ApiSteps, tok : Token, zone : ZoneId,
                              name : Record, value : Value]
<1>1. call[c] \in CallState /\ HandlerOK(call[c])
  BY DEF TypeOK, HandlerOK, At
<1>2. call[c].ch \in Routed /\ call[c].tok \in Token
  BY <1>1 DEF At, ApiSteps, HandlerOK
<1>3. Route[call[c].ch].record \in Record /\ QuoteTXT(call[c].ch.key) \in Value
  BY <1>2 DEF Record, Value
<1>4. call[c].pc # "list" => call[c].zid \in ZoneId
  BY <1>1 DEF At, ApiSteps, HandlerOK
<1> QED BY <1>1, <1>2, <1>3, <1>4 DEF Request, At

\* The state of the handler after an answer to a pending attempt.
Hears(c, answer, s) ==
  /\ Becomes(c, s) /\ SameRun(s, call[c]) /\ SameRouting(s, call[c]) /\ s.resp = answer

LEMMA RespondState ==
  ASSUME TypeOK, NEW c \in Call, Waiting(c),
         NEW status \in Nat, NEW zones \in SUBSET ZoneId,
         NEW body \in {"full", "empty", "garbled"}, NEW done,
         Respond(c, Answer(status, zones, body), done)
  PROVE  \E s : Hears(c, Answer(status, zones, body), s)
<1> DEFINE a == Answer(status, zones, body)
           s == [call[c] EXCEPT !.resp = a]
<1>1. call[c] \in CallState
  BY RequestType DEF Waiting
<1>2. a \in [status : Nat, zones : SUBSET ZoneId, body : {"full", "empty", "garbled"}]
  BY DEF Answer
<1>3. call' = [call EXCEPT ![c] = s]
  BY DEF Respond
<1> HIDE DEF a
<1>4. s \in CallState /\ SameRun(s, call[c]) /\ SameRouting(s, call[c]) /\ s.resp = a
  BY <1>1, <1>2 DEF CallState, SameRun, SameJob, SameRouting
<1> HIDE DEF s
<1>5. Hears(c, a, s)
  BY <1>3, <1>4, Zenon DEF Hears, Becomes
<1> QED BY <1>5, Zenon DEF a

\* What the attempt does to the RRSets.
LEMMA RespondType ==
  ASSUME TypeOK, NEW c \in Call, Waiting(c),
         NEW status \in Nat, NEW zones \in SUBSET ZoneId,
         NEW body \in {"full", "empty", "garbled"}, NEW done,
         Respond(c, Answer(status, zones, body), done)
  PROVE  CallsOK' /\ rrsets' \subseteq [zone : ZoneId, name : Record, value : Value]
<1>1. At(c, ApiSteps) /\ CallsOK
  BY DEF Waiting, TypeOK, CallsOK
<1>0. PICK s : Hears(c, Answer(status, zones, body), s)
  BY RespondState, Zenon
<1>2. Becomes(c, s) /\ SameRouting(s, call[c])
  BY <1>0 DEF Hears
<1>3. HandlerOK(s)
  BY <1>1, <1>2, RequestType DEF HandlerOK, SameRouting, Becomes
<1>4. CallsOK'
  BY <1>1, <1>2, <1>3, OneHandler, Zenon DEF Becomes
<1>5. rrsets \subseteq [zone : ZoneId, name : Record, value : Value]
  BY DEF TypeOK
<1>6. Applied(rrsets, Request(c)) \subseteq [zone : ZoneId, name : Record, value : Value]
  BY <1>1, <1>5, RequestType DEF Applied, RRSetsAt
<1> QED BY <1>4, <1>5, <1>6 DEF Respond

\* The statuses of the server are numbers, and a page holds zone IDs.
LEMMA ServerType ==
  ASSUME NEW req
  PROVE  Verdicts(req) \subseteq Nat /\ Pages(owner, req) \subseteq SUBSET ZoneId
BY DEF Verdicts, Statuses, Pages

\* What Forsake leaves behind.
LEMMA ForsakeType ==
  ASSUME TypeOK, NEW cs \in SUBSET Call, Forsake(cs)
  PROVE  /\ late' \subseteq [op : ApiSteps, tok : Token, zone : ZoneId, name : Record,
                             value : Value]
         /\ orphaned' \subseteq Challenge \X {"Present", "CleanUp"}
<1>1. PICK sent \in SUBSET {c \in cs : Waiting(c) /\ call[c].pc # "list"} :
         /\ late' = late \cup {Request(c) : c \in sent}
         /\ orphaned' = orphaned \cup {Owner(c) : c \in sent}
  BY DEF Forsake
<1>2. \A c \in sent : Owner(c) \in Challenge \X {"Present", "CleanUp"}
  BY RequestType DEF Waiting, Owner, CallState
<1>3. \A c \in sent : Request(c) \in [op : ApiSteps, tok : Token, zone : ZoneId,
                                     name : Record, value : Value]
  BY RequestType DEF Waiting
<1> QED BY <1>1, <1>2, <1>3 DEF TypeOK

\* The server state of TypeOK, which the handlers' own steps leave alone.
ApiOK ==
  /\ owner \in [ZoneId -> Project \cup {Unborn, Gone}]
  /\ rrsets \subseteq [zone : ZoneId, name : Record, value : Value]
  /\ revoked \subseteq Token
  /\ late \subseteq [op : ApiSteps, tok : Token, zone : ZoneId, name : Record,
                     value : Value]
  /\ goneFor \in [ZoneId -> 0..(Horizon + 1)]

CacheOK == cache \in [Replica -> [CacheKeys -> Entry \cup {NoEntry}]]

CmOK ==
  /\ phase \in [Challenge -> Phases]
  /\ orphaned \subseteq Challenge \X {"Present", "CleanUp"}

RestOK ==
  /\ ready \subseteq Replica
  /\ secret \in [SecretRef -> Token \cup {NoToken}]
  /\ faults \in 0..MaxFaults
  /\ churn \in 0..MaxChurn

LEMMA TypeParts == TypeOK <=> CallsOK /\ ApiOK /\ CacheOK /\ CmOK /\ RestOK
BY DEF TypeOK, CallsOK, ApiOK, CacheOK, CmOK, RestOK

LEMMA TypePartsPrime ==
  TypeOK' <=> CallsOK' /\ ApiOK' /\ CacheOK' /\ CmOK' /\ RestOK'
BY DEF TypeOK, CallsOK, ApiOK, CacheOK, CmOK, RestOK

\* The cache operations keep the store typed.
LEMMA CacheUpdate ==
  ASSUME CacheOK, NEW r \in Replica, NEW store \in [CacheKeys -> Entry \cup {NoEntry}],
         cache' = [cache EXCEPT ![r] = store]
  PROVE  CacheOK'
BY DEF CacheOK

LEMMA StoreType ==
  ASSUME NEW st \in [CacheKeys -> Entry \cup {NoEntry}], NEW k \in CacheKeys
  PROVE  /\ AfterLookup(st, k) \in [CacheKeys -> Entry \cup {NoEntry}]
         /\ Invalidate(st, k) \in [CacheKeys -> Entry \cup {NoEntry}]
         /\ \A z \in ZoneId : Store(st, k, z) \in [CacheKeys -> Entry \cup {NoEntry}]
         /\ Aged(st) \in [CacheKeys -> Entry \cup {NoEntry}]
<1>1. AfterLookup(st, k) \in [CacheKeys -> Entry \cup {NoEntry}]
  BY DEF AfterLookup
<1>2. Invalidate(st, k) \in [CacheKeys -> Entry \cup {NoEntry}]
  BY DEF Invalidate
<1>3. ASSUME NEW z \in ZoneId
      PROVE  Store(st, k, z) \in [CacheKeys -> Entry \cup {NoEntry}]
  <2>1. [id |-> z, left |-> ZoneCacheTTL] \in Entry
    BY ZoneCacheTTLAssumption DEF Entry
  <2> QED BY <2>1 DEF Store
<1>4. \A e \in Entry \cup {NoEntry} : AgeEntry(e) \in Entry \cup {NoEntry}
  BY ZoneCacheTTLAssumption DEF AgeEntry, Expired, Entry
<1>5. Aged(st) \in [CacheKeys -> Entry \cup {NoEntry}]
  BY <1>4 DEF Aged
<1> QED BY <1>1, <1>2, <1>3, <1>5

\* A running handler has some of its budget left, or none.
LEMMA BudgetType ==
  ASSUME TypeOK, NEW c \in Call, call[c] # Idle
  PROVE  call[c] \in CallState /\ call[c].left \in 0..RequestBudget /\ call[c].left \in Nat
<1>1. call[c] \in CallState
  BY TypeParts DEF CallsOK
<1> QED BY <1>1, BoundsAssumption DEF CallState

\* The cache key of a routed handler is one of the keys.
LEMMA KeyType ==
  ASSUME TypeOK, NEW c \in Call, Active(c), call[c].pc # "prepare"
  PROVE  /\ call[c].ch \in Routed /\ call[c].tok \in Token /\ call[c].rep \in Replica
         /\ CacheKeyOf(call[c].ch) \in CacheKeys
<1>1. HandlerOK(call[c]) /\ call[c] \in CallState
  BY DEF TypeOK, HandlerOK
<1>2. call[c].rep \in Replica
  BY <1>1 DEF CallState
<1>3. call[c].ch \in Routed /\ call[c].tok \in Token
  BY <1>1 DEF HandlerOK
<1> QED BY <1>2, <1>3 DEF CacheKeys

LEMMA TypeInit == Init => TypeOK
<1> SUFFICES ASSUME Init PROVE TypeOK
  OBVIOUS
<1>1. CallsOK
  BY DEF Init, CallsOK, Active
<1>2. LeftOver \subseteq [zone : ZoneId, name : Record, value : Value]
  BY DEF LeftOver, Record, Value
<1>3. ApiOK
  BY BoundsAssumption, ZoneCacheTTLAssumption, <1>2, SolverAssumption
     DEF Init, ApiOK, Horizon
<1>4. CacheOK
  BY DEF Init, CacheOK, EmptyStore
<1>5. CmOK /\ RestOK
  BY BoundsAssumption, SolverAssumption DEF Init, CmOK, RestOK, Phases
<1> QED BY <1>1, <1>3, <1>4, <1>5, TypeParts

\* An abandoned handler goes on as it was.
LEMMA AbandonState ==
  ASSUME TypeOK, NEW c \in Call, Abandon(c)
  PROVE  \E s : /\ Becomes(c, s) /\ SameJob(s, call[c]) /\ SameRouting(s, call[c])
                /\ s.resp = call[c].resp /\ s.attached = FALSE
<1> DEFINE s == [call[c] EXCEPT !.attached = FALSE]
<1>1. call[c] \in CallState
  BY DEF Abandon, TypeOK, HandlerOK
<1>2. call' = [call EXCEPT ![c] = s]
  BY DEF Abandon
<1>3. /\ s \in CallState /\ SameJob(s, call[c]) /\ SameRouting(s, call[c])
      /\ s.resp = call[c].resp /\ s.attached = FALSE
  BY <1>1, Zenon DEF CallState, SameJob, SameRouting
<1> HIDE DEF s
<1> QED BY <1>2, <1>3, Zenon DEF Becomes

\* cert-manager's steps keep the types.
LEMMA CertManagerType == TypeOK /\ CertManager => TypeOK'
<1> SUFFICES ASSUME TypeOK, CertManager PROVE TypeOK'
  OBVIOUS
<1> USE TypeParts
<1>1. ASSUME NEW c \in Call, NEW op \in {"Present", "CleanUp"}, NEW ch \in Challenge,
             NEW r \in Replica, CallWebhook(c, op, ch, r)
      PROVE  TypeOK'
  <2> DEFINE s == NewCall(op, ch, r)
  <2>1. s \in CallState /\ s.pc = "prepare"
    BY BoundsAssumption DEF NewCall, CallState
  <2>2. HandlerOK(s)
    BY <2>1 DEF HandlerOK
  <2>3. CallsOK'
    BY <1>1, <2>2, OneHandler, Zenon DEF CallWebhook
  <2>4. CmOK'
    BY <1>1 DEF CallWebhook, CmOK, Phases
  <2>5. ApiOK' /\ CacheOK' /\ RestOK'
    BY <1>1 DEF CallWebhook, ApiOK, CacheOK, RestOK, apiVars
  <2> QED BY <2>3, <2>4, <2>5, TypePartsPrime
<1>2. ASSUME NEW ch \in Challenge, BeginCleanUp(ch)
      PROVE  TypeOK'
  <2>1. CmOK'
    BY <1>2 DEF BeginCleanUp, CmOK, Phases
  <2>2. CallsOK'
    BY <1>2 DEF BeginCleanUp, CallsOK, podVars, Active
  <2>3. ApiOK' /\ CacheOK' /\ RestOK'
    BY <1>2 DEF BeginCleanUp, ApiOK, CacheOK, RestOK, podVars, apiVars
  <2> QED BY <2>1, <2>2, <2>3, TypePartsPrime
<1>3. ASSUME NEW c \in Call, Abandon(c)
      PROVE  TypeOK'
  <2>1. HandlerOK(call[c]) /\ call[c] \in CallState
    BY <1>3 DEF Abandon, TypeOK, HandlerOK
  <2>2. PICK s : Becomes(c, s) /\ SameRouting(s, call[c])
    BY <1>3, AbandonState, Zenon
  <2>4. HandlerOK(s)
    BY <2>1, <2>2 DEF HandlerOK, SameRouting, Becomes
  <2>5. CallsOK'
    BY <2>2, <2>4, OneHandler, Zenon DEF Becomes
  <2>6. Owner(c) \in Challenge \X {"Present", "CleanUp"}
    BY <2>1 DEF Owner, CallState
  <2>7. CmOK'
    BY <1>3, <2>6 DEF Abandon, CmOK
  <2>8. ApiOK' /\ CacheOK' /\ RestOK'
    BY BoundsAssumption, <1>3 DEF Abandon, Fault, ApiOK, CacheOK, RestOK, apiVars
  <2> QED BY <2>5, <2>7, <2>8, TypePartsPrime
<1> QED BY <1>1, <1>2, <1>3 DEF CertManager

\* The four ways to get an answer keep the types.
LEMMA ReceiveType ==
  ASSUME TypeOK, NEW c \in Call, Receive(c)
  PROVE  TypeOK'
<1> USE TypeParts
<1>1. /\ Active(c) /\ call[c].pc # "prepare"
      /\ call[c] \in CallState /\ HandlerOK(call[c])
  BY RequestType DEF Receive, At, ApiSteps
<1>2. /\ call[c].ch \in Routed /\ call[c].rep \in Replica
      /\ CacheKeyOf(call[c].ch) \in CacheKeys
  BY <1>1, KeyType
<1>3. cache[call[c].rep] \in [CacheKeys -> Entry \cup {NoEntry}]
  BY <1>2 DEF CacheOK
<1>4. CASE ReceiveList(c)
  <2> DEFINE matches == {z \in call[c].resp.zones : ZoneName[z] = Route[call[c].ch].apex}
  <2>1. matches \subseteq ZoneId
    BY <1>1 DEF Receive, CallState
  <2>2. ASSUME NEW z \in matches,
               cache' = [cache EXCEPT ![call[c].rep] =
                           Store(@, CacheKeyOf(call[c].ch), z)],
               Goto(c, AfterResolve(c), z)
        PROVE  CallsOK' /\ phase' \in [Challenge -> Phases] /\ CacheOK'
    <3>1. AfterResolve(c) \in ApiSteps /\ z \in ZoneId
      BY <2>1 DEF AfterResolve, ApiSteps
    <3>2. CallsOK' /\ phase' \in [Challenge -> Phases]
      BY <1>1, <2>2, <3>1, GotoType
    <3>3. CacheOK'
      BY <1>2, <1>3, <2>2, <3>1, StoreType, CacheUpdate, Zenon
    <3> QED BY <3>2, <3>3
  <2>3. ASSUME Return(c, FALSE) /\ UNCHANGED cache
        PROVE  CallsOK' /\ phase' \in [Challenge -> Phases] /\ CacheOK'
    BY <1>1, <2>3, ReturnType, Zenon DEF CacheOK
  <2>4. ASSUME Return(c, call[c].op = "CleanUp") /\ UNCHANGED cache
        PROVE  CallsOK' /\ phase' \in [Challenge -> Phases] /\ CacheOK'
    BY <1>1, <2>4, ReturnType DEF CacheOK
  <2>5. ASSUME RetryOrFail(c) /\ UNCHANGED cache
        PROVE  CallsOK' /\ phase' \in [Challenge -> Phases] /\ CacheOK'
    BY <1>1, <2>5, RetryType DEF CacheOK
  <2>6. CallsOK' /\ phase' \in [Challenge -> Phases] /\ CacheOK'
    <3> HIDE DEF matches
    <3> QED BY <1>4, <2>2, <2>3, <2>4, <2>5, Zenon DEF ReceiveList, matches
  <2>7. ApiOK' /\ CmOK' /\ RestOK'
    BY <2>6 DEF Receive, ApiOK, CmOK, RestOK, apiVars
  <2> QED BY <2>6, <2>7, TypePartsPrime
<1>5. CASE ReceiveCreate(c)
  <2>1. CacheOK'
    <3>1. \/ UNCHANGED cache
          \/ cache' = [cache EXCEPT ![call[c].rep] =
                         Invalidate(cache[call[c].rep], CacheKeyOf(call[c].ch))]
      BY <1>5 DEF ReceiveCreate
    <3>2. CASE UNCHANGED cache
      BY <3>2 DEF CacheOK
    <3> QED BY <1>2, <1>3, <3>1, <3>2, StoreType, CacheUpdate
  <2>2. ASSUME Goto(c, "set", call[c].zid)
        PROVE  CallsOK' /\ phase' \in [Challenge -> Phases]
    <3>1. call[c].zid \in ZoneId
      BY <1>1, <1>5 DEF ReceiveCreate, HandlerOK
    <3>2. "set" \in ApiSteps
      BY DEF ApiSteps
    <3> QED BY <1>1, <2>2, <3>1, <3>2, GotoType
  <2>3. CallsOK' /\ phase' \in [Challenge -> Phases]
    <3>1. (\E ok : Return(c, ok)) \/ RetryOrFail(c) \/ Goto(c, "set", call[c].zid)
      BY <1>5, Zenon DEF ReceiveCreate
    <3> QED BY <1>1, <2>2, <3>1, ReturnType, RetryType
  <2>4. ApiOK' /\ CmOK' /\ RestOK'
    BY <2>3 DEF Receive, ApiOK, CmOK, RestOK, apiVars
  <2> QED BY <2>1, <2>3, <2>4, TypePartsPrime
<1>6. CASE ReceiveSet(c) \/ ReceiveDelete(c)
  <2>1. CacheOK'
    BY <1>6, Zenon DEF ReceiveSet, ReceiveDelete, CacheOK
  <2>2. CallsOK' /\ phase' \in [Challenge -> Phases]
    <3>1. (\E ok : Return(c, ok)) \/ RetryOrFail(c)
      BY <1>6, Zenon DEF ReceiveSet, ReceiveDelete
    <3> QED BY <1>1, <3>1, ReturnType, RetryType
  <2>3. ApiOK' /\ CmOK' /\ RestOK'
    BY <2>2 DEF Receive, ApiOK, CmOK, RestOK, apiVars
  <2> QED BY <2>1, <2>2, <2>3, TypePartsPrime
<1> QED BY <1>4, <1>5, <1>6 DEF Receive

\* prepare leaves the handler with the token of its credential's Secret.
GetsToken(c, s) ==
  /\ Becomes(c, s) /\ SameRun(s, call[c]) /\ s.pc = "lookup"
  /\ s.tok \in Token /\ s.tok = secret[Route[call[c].ch].secret]

LEMMA PrepareState ==
  ASSUME TypeOK, NEW c \in Call, Prepare(c), PrepareOK(c)
  PROVE  \E s : GetsToken(c, s)
<1> DEFINE t == secret[Route[call[c].ch].secret]
           s1 == [call[c] EXCEPT !.pc = "lookup"]
           s2 == [s1 EXCEPT !.tok = t]
<1>1. t \in Token /\ call[c] \in CallState
  BY SolverAssumption DEF Prepare, At, PrepareOK, TypeOK, HandlerOK
<1>2. call' = [call EXCEPT ![c] = s2]
  BY DEF Prepare
<1> HIDE DEF t
<1>3. s1 \in CallState /\ s1.pc = "lookup" /\ SameRun(s1, call[c])
  BY <1>1 DEF CallState, SameRun, SameJob
<1> HIDE DEF s1
<1>4. s2 \in CallState /\ s2.pc = s1.pc /\ SameRun(s2, s1) /\ s2.tok = t
  BY <1>1, <1>3 DEF CallState, SameRun, SameJob
<1> HIDE DEF s2
<1>5. Becomes(c, s2) /\ SameRun(s2, call[c])
  BY <1>2, <1>3, <1>4 DEF Becomes, SameRun, SameJob
<1>6. GetsToken(c, s2)
  BY <1>1, <1>3, <1>4, <1>5 DEF GetsToken, t
<1> QED BY <1>6, Zenon

\* The steps of a handler keep the types.
LEMMA HandlerType == ASSUME TypeOK, NEW c \in Call, Handler(c) PROVE TypeOK'
<1> USE TypeParts
<1>1. CASE Prepare(c)
  <2>1. HandlerOK(call[c]) /\ call[c] \in CallState /\ Active(c)
    BY <1>1 DEF Prepare, At, TypeOK, HandlerOK
  <2>2. CASE PrepareOK(c)
    <3>0. PICK s : GetsToken(c, s)
      BY <1>1, <2>2, PrepareState, Zenon
    <3>1. /\ Becomes(c, s) /\ SameJob(s, call[c]) /\ s.pc = "lookup"
          /\ s.tok \in Token /\ s.tok = secret[Route[call[c].ch].secret]
      BY <3>0 DEF GetsToken, SameRun
    <3>2. UNCHANGED phase /\ call[c].ch \in Routed
      BY <1>1, <2>2 DEF Prepare, PrepareOK
    <3>5. HandlerOK(s)
      BY <3>1, <3>2 DEF HandlerOK, Becomes, SameJob
    <3>6. CallsOK'
      BY <3>1, <3>5, OneHandler, Zenon DEF Becomes
    <3>7. ApiOK' /\ CacheOK' /\ CmOK' /\ RestOK'
      BY <1>1, <3>2 DEF Prepare, ApiOK, CacheOK, CmOK, RestOK, apiVars
    <3> QED BY <3>6, <3>7, TypePartsPrime
  <2>3. CASE ~PrepareOK(c)
    <3>1. CallsOK' /\ phase' \in [Challenge -> Phases]
      BY <1>1, <2>1, <2>3, ReturnType, Zenon DEF Prepare
    <3>2. ApiOK' /\ CacheOK' /\ CmOK' /\ RestOK'
      BY <1>1, <3>1 DEF Prepare, ApiOK, CacheOK, CmOK, RestOK, apiVars
    <3> QED BY <3>1, <3>2, TypePartsPrime
  <2> QED BY <2>2, <2>3
<1>2. CASE SecretReadFails(c)
  <2>1. CallsOK' /\ phase' \in [Challenge -> Phases]
    BY <1>2, ReturnType, Zenon DEF SecretReadFails, At
  <2>2. ApiOK' /\ CacheOK' /\ CmOK' /\ RestOK'
    BY BoundsAssumption, <1>2, <2>1
       DEF SecretReadFails, Fault, ApiOK, CacheOK, CmOK, RestOK, apiVars
  <2> QED BY <2>1, <2>2, TypePartsPrime
<1>3. CASE LookupZone(c)
  <2> DEFINE r == call[c].rep
             key == CacheKeyOf(call[c].ch)
  <2>1. Active(c) /\ call[c].pc # "prepare"
    BY <1>3 DEF LookupZone, At
  <2>2. r \in Replica /\ key \in CacheKeys
    BY <2>1, KeyType
  <2>3. cache[r] \in [CacheKeys -> Entry \cup {NoEntry}]
    BY <2>2 DEF CacheOK
  <2>4. cache' = [cache EXCEPT ![r] = AfterLookup(cache[r], key)]
    BY <1>3 DEF LookupZone
  <2>5. \/ Hit(cache[r], key) /\ Goto(c, AfterResolve(c), cache[r][key].id)
        \/ Goto(c, "list", NoZone)
    BY <1>3 DEF LookupZone
  <2> HIDE DEF r, key
  <2>6. CacheOK'
    BY <2>2, <2>3, <2>4, StoreType, CacheUpdate, Zenon
  <2>7. Hit(cache[r], key) => cache[r][key].id \in ZoneId
    BY <2>2, <2>3 DEF Hit, Entry
  <2>8. AfterResolve(c) \in ApiSteps /\ "list" \in ApiSteps
    BY DEF AfterResolve, ApiSteps
  <2>9. CallsOK' /\ phase' \in [Challenge -> Phases]
    BY <2>1, <2>5, <2>7, <2>8, GotoType
  <2>10. ApiOK' /\ CmOK' /\ RestOK'
    BY <1>3, <2>9 DEF LookupZone, ApiOK, CmOK, RestOK, apiVars
  <2> QED BY <2>6, <2>9, <2>10, TypePartsPrime
<1>4. CASE Receive(c)
  BY <1>4, ReceiveType
<1>5. CASE TransportError(c)
  <2>1. CallsOK' /\ phase' \in [Challenge -> Phases]
    BY <1>5, RetryType DEF TransportError, At
  <2>2. Forsake({c}) /\ {c} \in SUBSET Call
    BY <1>5 DEF TransportError
  <2>3. ApiOK' /\ CmOK'
    BY <1>5, <2>1, <2>2, ForsakeType DEF TransportError, ApiOK, CmOK
  <2>4. CacheOK' /\ RestOK'
    <3>1. faults < MaxFaults /\ faults' = faults + 1
      BY <1>5, Zenon DEF TransportError, Fault
    <3>2. UNCHANGED <<cache, ready, secret, churn>>
      BY <1>5 DEF TransportError
    <3> QED BY BoundsAssumption, <3>1, <3>2 DEF CacheOK, RestOK
  <2> QED BY <2>1, <2>3, <2>4, TypePartsPrime
<1>6. CASE DeadlineExceeded(c)
  <2>1. CallsOK' /\ phase' \in [Challenge -> Phases]
    BY <1>6, ReturnType, Zenon DEF DeadlineExceeded
  <2>2. Forsake({c}) /\ {c} \in SUBSET Call
    BY <1>6 DEF DeadlineExceeded
  <2>3. ApiOK' /\ CmOK'
    BY <1>6, <2>1, <2>2, ForsakeType DEF DeadlineExceeded, ApiOK, CmOK
  <2>4. CacheOK' /\ RestOK'
    BY <1>6 DEF DeadlineExceeded, CacheOK, RestOK
  <2> QED BY <2>1, <2>3, <2>4, TypePartsPrime
<1> QED BY <1>1, <1>2, <1>3, <1>4, <1>5, <1>6 DEF Handler

\* What a bad answer is.
Misinformed(c) ==
  \E status \in Nat, body \in {"full", "empty", "garbled"}, done \in BOOLEAN :
    Respond(c, Answer(status, {}, body), done)

LEMMA BadAnswer == ASSUME NEW c \in Call, ServeBadly(c) PROVE Misinformed(c)
<1>1. \A status \in Nat : \A body \in {"full", "empty", "garbled"} : \A done \in BOOLEAN :
        Respond(c, Answer(status, {}, body), done) => Misinformed(c)
  BY Zenon DEF Misinformed
<1>2. CASE \/ Respond(c, Answer(429, {}, "full"), FALSE)
           \/ Respond(c, Answer(500, {}, "full"), FALSE)
           \/ Respond(c, Answer(500, {}, "full"), TRUE)
  <2> DEFINE tooMany == 429
             broken == 500
  <2>1. tooMany \in Nat /\ broken \in Nat
    OBVIOUS
  <2>2. "full" \in {"full", "empty", "garbled"}
    OBVIOUS
  <2>3. \/ Respond(c, Answer(tooMany, {}, "full"), FALSE)
        \/ Respond(c, Answer(broken, {}, "full"), FALSE)
        \/ Respond(c, Answer(broken, {}, "full"), TRUE)
    BY <1>2, Zenon
  <2> HIDE DEF tooMany, broken
  <2> QED BY <1>1, <2>1, <2>2, <2>3, Zenon
<1>3. CASE \E status \in Verdicts(Request(c)) :
             \/ Respond(c, Answer(status, {}, "empty"), TRUE)
             \/ Respond(c, Answer(status, {}, "garbled"), TRUE)
  BY <1>1, <1>3, ServerType, Zenon
<1>4. \/ Respond(c, Answer(429, {}, "full"), FALSE)
      \/ Respond(c, Answer(500, {}, "full"), FALSE)
      \/ Respond(c, Answer(500, {}, "full"), TRUE)
      \/ \E status \in Verdicts(Request(c)) :
           \/ Respond(c, Answer(status, {}, "empty"), TRUE)
           \/ Respond(c, Answer(status, {}, "garbled"), TRUE)
  BY Zenon DEF ServeBadly
<1> QED BY <1>2, <1>3, <1>4, Zenon

\* The server's steps keep the types.
LEMMA ServerStepType == TypeOK /\ Server => TypeOK'
<1> SUFFICES ASSUME TypeOK, Server PROVE TypeOK'
  OBVIOUS
<1> USE TypeParts
<1>1. ASSUME NEW c \in Call, Serve(c)
      PROVE  TypeOK'
  <2>1. PICK status \in Verdicts(Request(c)) : \E page \in PageFor(c, status) :
          Respond(c, Answer(status, page, "full"), Success(status))
    BY <1>1 DEF Serve
  <2>2. PICK page \in PageFor(c, status) :
          Respond(c, Answer(status, page, "full"), Success(status))
    BY <2>1
  <2>3. status \in Nat /\ page \in SUBSET ZoneId
    BY ServerType DEF PageFor
  <2>4. CallsOK' /\ rrsets' \subseteq [zone : ZoneId, name : Record, value : Value]
    BY <1>1, <2>2, <2>3, RespondType DEF Serve
  <2>5. ApiOK' /\ CacheOK' /\ CmOK' /\ RestOK'
    BY <1>1, <2>4 DEF Serve, ApiOK, CacheOK, CmOK, RestOK, cmVars
  <2> QED BY <2>4, <2>5, TypePartsPrime
<1>2. ASSUME NEW c \in Call, ServeBadly(c)
      PROVE  TypeOK'
  <2>1. PICK status \in Nat, body \in {"full", "empty", "garbled"}, done \in BOOLEAN :
          Respond(c, Answer(status, {}, body), done)
    BY <1>2, BadAnswer, Zenon DEF Misinformed
  <2>2. CallsOK' /\ rrsets' \subseteq [zone : ZoneId, name : Record, value : Value]
    BY <1>2, <2>1, RespondType DEF ServeBadly
  <2>3. faults < MaxFaults /\ faults' = faults + 1
    BY <1>2, Zenon DEF ServeBadly, Fault
  <2>4. ApiOK' /\ CacheOK' /\ CmOK'
    BY <1>2, <2>2 DEF ServeBadly, ApiOK, CacheOK, CmOK, cmVars
  <2>5. RestOK'
    BY BoundsAssumption, <1>2, <2>3 DEF ServeBadly, RestOK, cmVars
  <2> QED BY <2>2, <2>4, <2>5, TypePartsPrime
<1>3. ASSUME NEW c \in Call, AcceptAction(c)
      PROVE  TypeOK'
  <2>1. PICK status \in Verdicts(Request(c)) : Respond(c, Answer(status, {}, "full"), FALSE)
    BY <1>3, Zenon DEF AcceptAction
  <2>2. CallsOK' /\ rrsets' \subseteq [zone : ZoneId, name : Record, value : Value]
    BY <1>3, <2>1, ServerType, RespondType, Zenon DEF AcceptAction
  <2>3. /\ Request(c) \in [op : ApiSteps, tok : Token, zone : ZoneId, name : Record,
                           value : Value]
        /\ call[c] \in CallState
    BY <1>3, RequestType, Zenon DEF AcceptAction, Waiting
  <2>4. Owner(c) \in Challenge \X {"Present", "CleanUp"}
    BY <2>3 DEF Owner, CallState
  <2>5. faults < MaxFaults /\ faults' = faults + 1
    BY <1>3, Zenon DEF AcceptAction, Fault
  <2>6. ApiOK'
    BY <1>3, <2>2, <2>3, Zenon DEF AcceptAction, ApiOK
  <2>7. CmOK'
    BY <1>3, <2>4, Zenon DEF AcceptAction, CmOK
  <2>8. CacheOK' /\ RestOK'
    <3>1. UNCHANGED <<cache, ready, secret, churn>>
      BY <1>3 DEF AcceptAction
    <3> QED BY BoundsAssumption, <2>5, <3>1 DEF CacheOK, RestOK
  <2> QED BY <2>2, <2>6, <2>7, <2>8, TypePartsPrime
<1>4. ASSUME NEW req \in late, ApplyLate(req)
      PROVE  TypeOK'
  <2>1. Applied(rrsets, req) \subseteq [zone : ZoneId, name : Record, value : Value]
    BY DEF ApiOK, Applied, RRSetsAt
  <2>2. ApiOK'
    BY <1>4, <2>1 DEF ApplyLate, ApiOK
  <2>3. CallsOK'
    BY <1>4 DEF ApplyLate, CallsOK, podVars, Active
  <2>4. CacheOK' /\ CmOK' /\ RestOK'
    BY <1>4 DEF ApplyLate, CacheOK, CmOK, RestOK, podVars, cmVars
  <2> QED BY <2>2, <2>3, <2>4, TypePartsPrime
<1> QED BY <1>1, <1>2, <1>3, <1>4 DEF Server

\* Starting and losing a pod keeps the types.
LEMMA PodsType == TypeOK /\ Pods => TypeOK'
<1> SUFFICES ASSUME TypeOK, NEW r \in Replica, Initialize(r) \/ Crash(r) PROVE TypeOK'
  BY DEF Pods
<1> USE TypeParts
<1>1. CASE Initialize(r)
  <2>1. CallsOK'
    BY <1>1 DEF Initialize, CallsOK, Active
  <2>2. ApiOK' /\ CacheOK' /\ CmOK' /\ RestOK'
    BY <1>1 DEF Initialize, ApiOK, CacheOK, CmOK, RestOK, apiVars, cmVars
  <2> QED BY <2>1, <2>2, TypePartsPrime
<1>2. CASE Crash(r)
  <2> DEFINE lost == {c \in Call : Active(c) /\ call[c].rep = r}
  <2>1. call' = [c \in Call |-> IF c \in lost THEN Idle ELSE call[c]]
    BY <1>2 DEF Crash
  <2>2. Forsake(lost)
    BY <1>2 DEF Crash
  <2>3. lost \in SUBSET Call
    OBVIOUS
  <2> HIDE DEF lost
  <2>4. CallsOK'
    BY <2>1 DEF CallsOK, Active
  <2>5. EmptyStore(CacheKeys) \in [CacheKeys -> Entry \cup {NoEntry}]
    BY DEF EmptyStore
  <2>6. CacheOK'
    BY <1>2, <2>5, CacheUpdate, Zenon DEF Crash
  <2>7. ApiOK' /\ CmOK'
    BY <1>2, <2>2, <2>3, ForsakeType DEF Crash, ApiOK, CmOK
  <2>8. RestOK'
    BY BoundsAssumption, <1>2 DEF Crash, Fault, RestOK
  <2> QED BY <2>4, <2>6, <2>7, <2>8, TypePartsPrime
<1> QED BY <1>1, <1>2

\* A handler lives through a unit of time with a smaller budget.
LEMMA TickState ==
  ASSUME TypeOK, Tick, NEW c \in Call
  PROVE  /\ call[c] = Idle => call'[c] = Idle
         /\ call[c] # Idle =>
              /\ call'[c] \in CallState /\ SameRouting(call'[c], call[c])
              /\ call'[c].op = call[c].op /\ call'[c].attached = call[c].attached
              /\ call'[c].resp = call[c].resp
              /\ call[c].left \in Nat
              /\ call'[c].left = IF call[c].left > 0 THEN call[c].left - 1 ELSE 0
<1> DEFINE s == [call[c] EXCEPT !.left = @ - 1]
<1>1. call'[c] = IF Active(c) /\ call[c].left > 0 THEN s ELSE call[c]
  BY DEF Tick
<1>2. CASE Active(c)
  <2>1. call[c] \in CallState
    BY <1>2 DEF TypeOK, HandlerOK
  <2>2. call[c].left \in 0..RequestBudget
    BY <2>1 DEF CallState
  <2>3. CASE call[c].left > 0
    <3>1. /\ s \in CallState /\ SameRouting(s, call[c]) /\ s.resp = call[c].resp
          /\ s.op = call[c].op /\ s.attached = call[c].attached
          /\ s.left = call[c].left - 1
      BY BoundsAssumption, <2>1, <2>3 DEF CallState, SameRouting
    <3> HIDE DEF s
    <3>2. call'[c] = s /\ call[c] # Idle
      BY <1>1, <1>2, <2>3 DEF Active
    <3>3. call[c].left \in Nat
      BY <2>2
    <3> QED BY <2>3, <3>1, <3>2, <3>3
  <2>4. CASE ~(call[c].left > 0)
    <3> HIDE DEF s
    <3>1. call'[c] = call[c] /\ call[c] # Idle
      BY <1>1, <1>2, <2>4 DEF Active
    <3>2. call[c].left \in Nat /\ call[c].left = 0
      BY <2>2, <2>4
    <3> QED BY <2>1, <3>1, <3>2 DEF SameRouting
  <2> QED BY <2>3, <2>4
<1>3. CASE ~Active(c)
  BY <1>1, <1>3 DEF Active
<1> QED BY <1>2, <1>3

\* The passing of time keeps the types: no budget and no entry runs below its
\* floor.
LEMMA TickType == TypeOK /\ Tick => TypeOK'
<1> SUFFICES ASSUME TypeOK, Tick PROVE TypeOK'
  OBVIOUS
<1> USE TypeParts
<1>1. CallsOK'
  <2>1. \A c \in Call : call'[c] = Idle \/ HandlerOK(call'[c])
    BY TickState DEF CallsOK, Active, HandlerOK, SameRouting
  <2>2. DOMAIN call' = Call /\ call' = [c \in Call |-> call'[c]]
    BY DEF Tick
  <2> QED BY <2>1, <2>2 DEF CallsOK, Active, HandlerOK
<1>2. CacheOK'
  <2>1. \A st \in [CacheKeys -> Entry \cup {NoEntry}] :
          Aged(st) \in [CacheKeys -> Entry \cup {NoEntry}]
    <3>1. \A e \in Entry \cup {NoEntry} : AgeEntry(e) \in Entry \cup {NoEntry}
      BY ZoneCacheTTLAssumption DEF AgeEntry, Expired, Entry
    <3> QED BY <3>1 DEF Aged
  <2> QED BY <2>1 DEF Tick, CacheOK
<1>3. ApiOK'
  BY BoundsAssumption, ZoneCacheTTLAssumption DEF Tick, ApiOK, Horizon
<1>4. CmOK' /\ RestOK'
  BY BoundsAssumption DEF Tick, Fault, CmOK, RestOK, cmVars
<1> QED BY <1>1, <1>2, <1>3, <1>4, TypePartsPrime

\* What operators do to zones, Secrets and tokens keeps the types.
LEMMA OperatorsType == TypeOK /\ Operators => TypeOK'
<1> SUFFICES ASSUME TypeOK, Operators PROVE TypeOK'
  OBVIOUS
<1> USE TypeParts
<1>1. UNCHANGED podVars /\ UNCHANGED cmVars /\ UNCHANGED faults
  BY Zenon DEF Operators, DeleteZone, CreateZone, MoveZone, RotateSecret, RevokeToken
<1>2. churn' \in 0..MaxChurn
  <2>1. churn < MaxChurn /\ churn' = churn + 1
    BY DEF Operators, DeleteZone, CreateZone, MoveZone, RotateSecret, RevokeToken, Churn
  <2> QED BY BoundsAssumption, <2>1 DEF RestOK
<1>3. CallsOK' /\ CacheOK' /\ CmOK'
  BY <1>1 DEF CallsOK, CacheOK, CmOK, podVars, cmVars, Active
<1>4. ApiOK'
  <2>1. ASSUME NEW z \in ZoneId, DeleteZone(z) PROVE ApiOK'
    BY <2>1 DEF DeleteZone, ApiOK
  <2>2. ASSUME NEW z \in ZoneId, NEW p \in Project, CreateZone(z, p) \/ MoveZone(z, p)
        PROVE  ApiOK'
    BY <2>2 DEF CreateZone, MoveZone, ApiOK
  <2>3. ASSUME NEW s \in SecretRef, NEW t \in Token \cup {NoToken}, RotateSecret(s, t)
        PROVE  ApiOK'
    BY <2>3 DEF RotateSecret, ApiOK, apiVars
  <2>4. ASSUME NEW t \in Token, RevokeToken(t) PROVE ApiOK'
    BY <2>4 DEF RevokeToken, ApiOK
  <2> QED BY <2>1, <2>2, <2>3, <2>4 DEF Operators
<1>5. RestOK'
  BY <1>1, <1>2 DEF Operators, DeleteZone, CreateZone, MoveZone, RotateSecret,
                    RevokeToken, RestOK, podVars
<1> QED BY <1>3, <1>4, <1>5, TypePartsPrime

LEMMA TypeStep == TypeOK /\ [Next]_vars => TypeOK'
<1> SUFFICES ASSUME TypeOK, [Next]_vars PROVE TypeOK'
  OBVIOUS
<1>1. CASE UNCHANGED vars
  BY <1>1 DEF TypeOK, vars, podVars, apiVars, cmVars, Active
<1>2. CASE Next
  BY <1>2, CertManagerType, HandlerType, ServerStepType, PodsType, TickType,
     OperatorsType DEF Next
<1> QED BY <1>1, <1>2

\* Type correctness.  Beyond the shapes of the variables it says that every
\* request the webhook sends carries a token that prepare read from a Secret,
\* the record name of a routed challenge and, past resolveZoneID, a zone ID,
\* and that no attempt counter passes maxRetries.
THEOREM TypeCorrect == Spec => []TypeOK
BY TypeInit, TypeStep, PTL DEF Spec

(***************************************************************************)
(* Fates: what a step of the system may do to one handler, one cache entry *)
(* and the writes at Hetzner.  Each safety invariant below follows from    *)
(* these fates and an inductive invariant of its own.                      *)
(***************************************************************************)
Writing == {"create", "set", "delete"}

\* Handler c may take zone z from the list of zones it has been sent.
Chosen(c, z) ==
  /\ At(c, {"list"}) /\ call[c].resp # NoResponse /\ call[c].left > 0
  /\ z \in call[c].resp.zones /\ ZoneName[z] = Route[call[c].ch].apex

\* What a handler that has a token, and keeps it, may do in one step.
OnItsWay(c) ==
  /\ call[c].pc # "prepare" /\ call'[c].tok = call[c].tok
  /\ \/ /\ call'[c].pc = call[c].pc /\ call'[c].zid = call[c].zid
        /\ \/ call'[c].resp \in {call[c].resp, NoResponse}
           \/ /\ \A z \in call'[c].resp.zones : owner[z] = ProjectOf[call[c].tok]
              /\ UNCHANGED owner
     \/ call'[c].pc = "list" /\ call'[c].resp = NoResponse
     \/ /\ Hit(cache[call[c].rep], CacheKeyOf(call[c].ch))
        /\ call'[c].zid = cache[call[c].rep][CacheKeyOf(call[c].ch)].id
        /\ call'[c].pc \in Writing
     \/ Chosen(c, call'[c].zid) /\ call'[c].pc \in Writing
     \/ call[c].pc = "create" /\ call'[c].pc = "set" /\ call'[c].zid = call[c].zid

\* prepare has just read the token.
Prepared(c) ==
  /\ call'[c].pc = "lookup" /\ UNCHANGED secret
  /\ call'[c].tok = secret[Route[call[c].ch].secret]

HandlerFate(c) ==
  \/ call'[c] = Idle
  \/ call'[c].pc = "prepare"
  \/ /\ call[c] # Idle /\ SameJob(call'[c], call[c])
     /\ OnItsWay(c) \/ Prepared(c)

CacheFate(r, k) ==
  \/ cache'[r][k] = NoEntry
  \/ cache'[r][k] = cache[r][k]
  \/ \E c \in Call : \E z \in ZoneId :
       /\ Chosen(c, z) /\ k = CacheKeyOf(call[c].ch)
       /\ cache'[r][k] = [id |-> z, left |-> ZoneCacheTTL]

\* The requests that are under way.
Sent == late \cup {Request(c) : c \in {c \in Call : At(c, Writing)}}

WriteFate ==
  /\ late' \subseteq Sent
  /\ \A r \in rrsets' :
       \/ r \in rrsets
       \/ \E req \in Sent : /\ r.zone = req.zone /\ r.name = req.name
                            /\ r.value = req.value

Fates ==
  /\ \A c \in Call : HandlerFate(c)
  /\ \A r \in Replica : \A k \in CacheKeys : CacheFate(r, k)
  /\ WriteFate

\* The fields of an entry that Store has just made.
LEMMA EntryFields ==
  ASSUME NEW e, NEW z, e = [id |-> z, left |-> ZoneCacheTTL]
  PROVE  e.id = z /\ e.left = ZoneCacheTTL
OBVIOUS

\* A handler that nobody touches keeps all it has.
LEMMA OthersFate ==
  ASSUME TypeOK, NEW c \in Call, NEW s, call' = [call EXCEPT ![c] = s], HandlerFate(c)
  PROVE  \A d \in Call : HandlerFate(d)
<1> SUFFICES ASSUME NEW d \in Call, d # c, call[d] # Idle, call[d].pc # "prepare"
             PROVE  HandlerFate(d)
  BY DEF TypeOK, HandlerFate
<1>1. call'[d] = call[d]
  BY DEF TypeOK
<1> QED BY <1>1, Zenon DEF HandlerFate, SameJob, OnItsWay

LEMMA UntouchedFate ==
  ASSUME UNCHANGED call
  PROVE  \A c \in Call : HandlerFate(c)
BY DEF HandlerFate, SameJob, OnItsWay

\* Return, Goto, a retry and an answer are fates.
LEMMA ReturnFate ==
  ASSUME TypeOK, NEW c \in Call, NEW ok, Return(c, ok)
  PROVE  \A d \in Call : HandlerFate(d)
<1>1. call' = [call EXCEPT ![c] = Idle]
  BY DEF Return
<1>2. HandlerFate(c)
  BY <1>1 DEF TypeOK, HandlerFate
<1> QED BY <1>1, <1>2, OthersFate, Zenon

\* Where a handler may go on from: to the listing, or to a write in the zone that
\* the cache, the listing or the step before gave it.
MayGo(c, pc, zid) ==
  \/ pc = "list"
  \/ /\ pc \in Writing
     /\ \/ /\ Hit(cache[call[c].rep], CacheKeyOf(call[c].ch))
           /\ zid = cache[call[c].rep][CacheKeyOf(call[c].ch)].id
        \/ Chosen(c, zid)
        \/ call[c].pc = "create" /\ pc = "set" /\ zid = call[c].zid

LEMMA GotoFate ==
  ASSUME TypeOK, NEW c \in Call, Active(c), call[c].pc # "prepare",
         NEW pc \in ApiSteps, NEW zid \in ZoneId \cup {NoZone}, Goto(c, pc, zid),
         MayGo(c, pc, zid)
  PROVE  \A d \in Call : HandlerFate(d)
<1>0. PICK s : GoesTo(c, pc, zid, s)
  BY GotoState, Zenon
<1>1. /\ Becomes(c, s) /\ SameRun(s, call[c]) /\ s.tok = call[c].tok
      /\ s.pc = pc /\ s.zid = zid /\ s.resp = NoResponse
  BY <1>0 DEF GoesTo
<1>2. call'[c] = s /\ call' = [call EXCEPT ![c] = s]
  BY <1>1 DEF Becomes, TypeOK
<1>3. OnItsWay(c)
  BY <1>1, <1>2, Zenon DEF OnItsWay, MayGo
<1>4. SameJob(call'[c], call[c])
  BY <1>1, <1>2 DEF SameRun
<1>5. HandlerFate(c)
  BY <1>3, <1>4, Zenon DEF HandlerFate, Active
<1> QED BY <1>2, <1>5, OthersFate, Zenon

LEMMA RetryFate ==
  ASSUME TypeOK, NEW c \in Call, Active(c), RetryOrFail(c)
  PROVE  \A d \in Call : HandlerFate(d)
<1>1. CASE Return(c, FALSE)
  BY <1>1, ReturnFate, Zenon
<1>2. ASSUME NEW s, Becomes(c, s), SameJob(s, call[c]), SameRouting(s, call[c]),
             s.resp = NoResponse
      PROVE  \A d \in Call : HandlerFate(d)
  <2>1. call'[c] = s /\ call' = [call EXCEPT ![c] = s]
    BY <1>2 DEF Becomes, TypeOK
  <2>2. call[c].pc = "prepare" \/ OnItsWay(c)
    BY <1>2, <2>1, Zenon DEF OnItsWay, SameRouting
  <2>3. HandlerFate(c)
    BY <1>2, <2>1, <2>2 DEF HandlerFate, Active, SameRouting
  <2> QED BY <2>1, <2>3, OthersFate, Zenon
<1> QED BY <1>1, <1>2, RetryState, Zenon DEF SameRun

LEMMA RespondFate ==
  ASSUME TypeOK, NEW c \in Call, Waiting(c),
         NEW status \in Nat, NEW zones \in SUBSET ZoneId,
         NEW body \in {"full", "empty", "garbled"}, NEW done,
         Respond(c, Answer(status, zones, body), done),
         \A z \in zones : owner[z] = ProjectOf[call[c].tok], UNCHANGED owner
  PROVE  /\ \A d \in Call : HandlerFate(d)
         /\ \A r \in rrsets' :
              \/ r \in rrsets
              \/ \E req \in Sent : /\ r.zone = req.zone /\ r.name = req.name
                                   /\ r.value = req.value
<1>0. PICK s : Hears(c, Answer(status, zones, body), s)
  BY RespondState, Zenon
<1>1. /\ Becomes(c, s) /\ SameJob(s, call[c]) /\ SameRouting(s, call[c])
      /\ s.resp = Answer(status, zones, body)
  BY <1>0 DEF Hears, SameRun
<1>2. call'[c] = s /\ call' = [call EXCEPT ![c] = s]
  BY <1>1, Zenon DEF Becomes, TypeOK
<1>3. s.resp.zones = zones
  BY <1>1, HeardZones, Zenon
<1>4. call[c].pc # "prepare" /\ call[c] # Idle
  BY DEF Waiting, At, ApiSteps, Active
<1>5. OnItsWay(c)
  BY <1>1, <1>2, <1>3, <1>4, Zenon DEF OnItsWay, SameRouting
<1>6. HandlerFate(c)
  BY <1>1, <1>2, <1>4, <1>5, Zenon DEF HandlerFate
<1>7. \A d \in Call : HandlerFate(d)
  BY <1>2, <1>6, OthersFate, Zenon
<1>8. ASSUME NEW r \in Applied(rrsets, Request(c)), r \notin rrsets
      PROVE  \E req \in Sent : /\ r.zone = req.zone /\ r.name = req.name
                               /\ r.value = req.value
  <2>1. Request(c).op = call[c].pc
    BY DEF Request
  <2>2. /\ call[c].pc \in {"create", "set"}
        /\ r = [zone |-> Request(c).zone, name |-> Request(c).name,
                value |-> Request(c).value]
    BY <1>8, <2>1 DEF Applied, RRSetsAt
  <2>3. Request(c) \in Sent
    BY <2>2, <1>4 DEF Sent, At, Active, Writing
  <2> QED BY <2>2, <2>3
<1>9. \A r \in rrsets' : r \in rrsets \/ r \in Applied(rrsets, Request(c))
  BY DEF Respond
<1> QED BY <1>7, <1>8, <1>9

LEMMA ForsakeFate ==
  ASSUME TypeOK, NEW cs \in SUBSET Call, Forsake(cs)
  PROVE  late' \subseteq Sent
<1>1. PICK sent \in SUBSET {c \in cs : Waiting(c) /\ call[c].pc # "list"} :
         late' = late \cup {Request(c) : c \in sent}
  BY DEF Forsake
<1>2. \A c \in sent : c \in Call /\ At(c, Writing)
  BY DEF Waiting, At, ApiSteps, Writing
<1> QED BY <1>1, <1>2, Zenon DEF Sent

LEMMA CertManagerFates == ASSUME TypeOK, CertManager PROVE Fates
<1>1. UNCHANGED <<cache, late, rrsets>>
  BY DEF CertManager, CallWebhook, BeginCleanUp, Abandon, podVars, apiVars
<1>2. \A r \in Replica : \A k \in CacheKeys : CacheFate(r, k)
  BY <1>1 DEF CacheFate
<1>3. WriteFate
  BY <1>1 DEF WriteFate, Sent
<1>4. ASSUME NEW c \in Call, NEW op \in {"Present", "CleanUp"}, NEW ch \in Challenge,
             NEW r \in Replica, CallWebhook(c, op, ch, r)
      PROVE  \A d \in Call : HandlerFate(d)
  <2>1. call' = [call EXCEPT ![c] = NewCall(op, ch, r)]
    BY <1>4 DEF CallWebhook
  <2>2. call'[c].pc = "prepare"
    BY <2>1 DEF NewCall, TypeOK
  <2> QED BY <2>1, <2>2, OthersFate, Zenon DEF HandlerFate
<1>5. ASSUME NEW ch \in Challenge, BeginCleanUp(ch)
      PROVE  \A d \in Call : HandlerFate(d)
  BY <1>5, UntouchedFate DEF BeginCleanUp, podVars
<1>6. ASSUME NEW c \in Call, Abandon(c)
      PROVE  \A d \in Call : HandlerFate(d)
  <2>1. PICK s : /\ Becomes(c, s) /\ SameJob(s, call[c]) /\ SameRouting(s, call[c])
                 /\ s.resp = call[c].resp
    BY <1>6, AbandonState, Zenon
  <2>2. call'[c] = s /\ call' = [call EXCEPT ![c] = s] /\ call[c] # Idle
    BY <1>6, <2>1, Zenon DEF Becomes, TypeOK, Abandon, Active
  <2>3. call[c].pc = "prepare" \/ OnItsWay(c)
    BY <2>1, <2>2, Zenon DEF OnItsWay, SameRouting
  <2>4. HandlerFate(c)
    BY <2>1, <2>2, <2>3 DEF HandlerFate, SameRouting
  <2> QED BY <2>2, <2>4, OthersFate, Zenon
<1> QED BY <1>2, <1>3, <1>4, <1>5, <1>6 DEF CertManager, Fates

LEMMA ReceiveFates == ASSUME TypeOK, NEW c \in Call, Receive(c) PROVE Fates
<1>1. /\ Active(c) /\ call[c].pc # "prepare" /\ At(c, ApiSteps)
      /\ call[c] \in CallState /\ HandlerOK(call[c])
      /\ call[c].resp # NoResponse /\ call[c].left > 0
  BY RequestType, Zenon DEF Receive, At, ApiSteps
<1>2. WriteFate
  BY Zenon DEF Receive, apiVars, WriteFate, Sent
<1>3. UNCHANGED cache => \A r \in Replica : \A k \in CacheKeys : CacheFate(r, k)
  BY Zenon DEF CacheFate
<1>4. CASE ReceiveList(c)
  <2> DEFINE matches == {z \in call[c].resp.zones : ZoneName[z] = Route[call[c].ch].apex}
             key == CacheKeyOf(call[c].ch)
  <2>1. ASSUME NEW z \in matches,
               cache' = [cache EXCEPT ![call[c].rep] =
                           Store(cache[call[c].rep], key, z)],
               Goto(c, AfterResolve(c), z)
        PROVE  Fates
    <3>1. z \in ZoneId /\ Chosen(c, z)
      BY <1>1, <1>4, Zenon DEF CallState, Chosen, At, ReceiveList
    <3>2. AfterResolve(c) \in ApiSteps /\ AfterResolve(c) \in Writing
      BY DEF AfterResolve, ApiSteps, Writing
    <3>3. \A d \in Call : HandlerFate(d)
      BY <1>1, <2>1, <3>1, <3>2, GotoFate, Zenon DEF MayGo
    <3>4. call[c].rep \in Replica /\ key \in CacheKeys
      BY <1>1, KeyType, Zenon
    <3>5. cache \in [Replica -> [CacheKeys -> Entry \cup {NoEntry}]]
      BY DEF TypeOK
    <3> HIDE DEF key
    <3>6. ASSUME NEW r \in Replica, NEW k \in CacheKeys,
                 ~(r = call[c].rep /\ k = key)
          PROVE  cache'[r][k] = cache[r][k]
      BY <2>1, <3>4, <3>5, <3>6, Zenon DEF Store
    <3>7. cache'[call[c].rep][key] = [id |-> z, left |-> ZoneCacheTTL]
      BY <2>1, <3>4, <3>5 DEF Store
    <3>8. \A r \in Replica : \A k \in CacheKeys : CacheFate(r, k)
      BY <3>1, <3>6, <3>7, Zenon DEF CacheFate, key
    <3> QED BY <1>2, <3>3, <3>8 DEF Fates
  <2>2. ASSUME UNCHANGED cache, (\E ok : Return(c, ok)) \/ RetryOrFail(c)
        PROVE  Fates
    BY <1>1, <1>2, <1>3, <2>2, ReturnFate, RetryFate, Zenon DEF Fates
  <2>3. \/ UNCHANGED cache /\ ((\E ok : Return(c, ok)) \/ RetryOrFail(c))
        \/ \E z \in matches :
             /\ cache' = [cache EXCEPT ![call[c].rep] =
                            Store(cache[call[c].rep], key, z)]
             /\ Goto(c, AfterResolve(c), z)
    BY <1>4, Zenon DEF ReceiveList
  <2> QED BY <2>1, <2>2, <2>3, Zenon
<1>5. CASE ReceiveCreate(c)
  <2>1. (\E ok : Return(c, ok)) \/ RetryOrFail(c) \/ Goto(c, "set", call[c].zid)
    BY <1>5, Zenon DEF ReceiveCreate
  <2>2. call[c].pc = "create" /\ call[c].zid \in ZoneId
    BY <1>1, <1>5, Zenon DEF ReceiveCreate, HandlerOK
  <2>3. "set" \in ApiSteps /\ "set" \in Writing
    BY DEF ApiSteps, Writing
  <2>4. \A d \in Call : HandlerFate(d)
    BY <1>1, <2>1, <2>2, <2>3, ReturnFate, RetryFate, GotoFate, Zenon DEF MayGo
  <2>5. \/ UNCHANGED cache
        \/ cache' = [cache EXCEPT ![call[c].rep] =
                       Invalidate(cache[call[c].rep], CacheKeyOf(call[c].ch))]
    BY <1>5, Zenon DEF ReceiveCreate
  <2>6. call[c].rep \in Replica /\ CacheKeyOf(call[c].ch) \in CacheKeys
    BY <1>1, KeyType
  <2>7. cache \in [Replica -> [CacheKeys -> Entry \cup {NoEntry}]]
    BY DEF TypeOK
  <2>8. ASSUME NEW r \in Replica, NEW k \in CacheKeys
        PROVE  cache'[r][k] = cache[r][k] \/ cache'[r][k] = NoEntry
    BY <2>5, <2>6, <2>7 DEF Invalidate
  <2>9. \A r \in Replica : \A k \in CacheKeys : CacheFate(r, k)
    BY <2>8, Zenon DEF CacheFate
  <2> QED BY <1>2, <2>4, <2>9 DEF Fates
<1>6. CASE ReceiveSet(c) \/ ReceiveDelete(c)
  <2>1. UNCHANGED cache /\ ((\E ok : Return(c, ok)) \/ RetryOrFail(c))
    BY <1>6, Zenon DEF ReceiveSet, ReceiveDelete
  <2> QED BY <1>1, <1>2, <1>3, <2>1, ReturnFate, RetryFate, Zenon DEF Fates
<1> QED BY <1>4, <1>5, <1>6, Zenon DEF Receive

LEMMA HandlerFates == ASSUME TypeOK, NEW c \in Call, Handler(c) PROVE Fates
<1>1. UNCHANGED <<late, rrsets>> => WriteFate
  BY DEF WriteFate, Sent
<1>2. UNCHANGED cache => \A r \in Replica : \A k \in CacheKeys : CacheFate(r, k)
  BY DEF CacheFate
<1>3. CASE Prepare(c)
  <2>1. UNCHANGED <<cache, late, rrsets, secret>> /\ Active(c)
    BY <1>3 DEF Prepare, apiVars, At
  <2>2. CASE PrepareOK(c)
    <3>0. PICK s : GetsToken(c, s)
      BY <1>3, <2>2, PrepareState, Zenon
    <3>1. /\ Becomes(c, s) /\ SameJob(s, call[c]) /\ s.pc = "lookup"
          /\ s.tok \in Token /\ s.tok = secret[Route[call[c].ch].secret]
      BY <3>0 DEF GetsToken, SameRun
    <3>2. call'[c] = s /\ call' = [call EXCEPT ![c] = s]
      BY <3>1 DEF Becomes, TypeOK
    <3>3. HandlerFate(c)
      BY <2>1, <3>1, <3>2, Zenon DEF HandlerFate, Prepared, Active
    <3> QED BY <1>1, <1>2, <2>1, <3>2, <3>3, OthersFate, Zenon DEF Fates
  <2>3. CASE ~PrepareOK(c)
    <3>1. Return(c, FALSE)
      BY <1>3, <2>3, Zenon DEF Prepare
    <3> QED BY <1>1, <1>2, <2>1, <3>1, ReturnFate, Zenon DEF Fates
  <2> QED BY <2>2, <2>3
<1>4. CASE SecretReadFails(c)
  <2>1. UNCHANGED <<cache, late, rrsets>> /\ Return(c, FALSE)
    BY <1>4, Zenon DEF SecretReadFails, apiVars
  <2> QED BY <1>1, <1>2, <2>1, ReturnFate, Zenon DEF Fates
<1>5. CASE LookupZone(c)
  <2> DEFINE r == call[c].rep
             key == CacheKeyOf(call[c].ch)
  <2>1. Active(c) /\ call[c].pc # "prepare" /\ UNCHANGED <<late, rrsets>>
    BY <1>5 DEF LookupZone, At, apiVars
  <2>2. r \in Replica /\ key \in CacheKeys
    BY <2>1, KeyType
  <2>3. cache \in [Replica -> [CacheKeys -> Entry \cup {NoEntry}]]
    BY DEF TypeOK
  <2>4. cache' = [cache EXCEPT ![r] = AfterLookup(cache[r], key)]
    BY <1>5, Zenon DEF LookupZone
  <2>5. \/ Hit(cache[r], key) /\ Goto(c, AfterResolve(c), cache[r][key].id)
        \/ Goto(c, "list", NoZone)
    BY <1>5, Zenon DEF LookupZone
  <2>6. AfterResolve(c) \in ApiSteps /\ AfterResolve(c) \in Writing /\ "list" \in ApiSteps
    BY DEF AfterResolve, ApiSteps, Writing
  <2>7. Hit(cache[r], key) => cache[r][key].id \in ZoneId
    BY <2>2, <2>3 DEF Hit, Entry
  <2>8. \A d \in Call : HandlerFate(d)
    BY <2>1, <2>5, <2>6, <2>7, GotoFate, Zenon DEF MayGo
  <2> HIDE DEF r, key
  <2>9. ASSUME NEW q \in Replica, NEW k \in CacheKeys
        PROVE  cache'[q][k] = cache[q][k] \/ cache'[q][k] = NoEntry
    BY <2>2, <2>3, <2>4 DEF AfterLookup
  <2>10. \A q \in Replica : \A k \in CacheKeys : CacheFate(q, k)
    BY <2>9 DEF CacheFate
  <2> QED BY <1>1, <2>1, <2>8, <2>10 DEF Fates
<1>6. CASE Receive(c)
  BY <1>6, ReceiveFates
<1>7. CASE TransportError(c)
  <2>1. UNCHANGED <<cache, rrsets>> /\ Active(c) /\ RetryOrFail(c) /\ Forsake({c})
    BY <1>7 DEF TransportError, At
  <2>2. WriteFate
    BY <2>1, ForsakeFate DEF WriteFate
  <2> QED BY <1>2, <2>1, <2>2, RetryFate DEF Fates
<1>8. CASE DeadlineExceeded(c)
  <2>1. UNCHANGED <<cache, rrsets>> /\ Return(c, FALSE) /\ Forsake({c})
    BY <1>8, Zenon DEF DeadlineExceeded
  <2>2. WriteFate
    BY <2>1, ForsakeFate DEF WriteFate
  <2> QED BY <1>2, <2>1, <2>2, ReturnFate, Zenon DEF Fates
<1> QED BY <1>3, <1>4, <1>5, <1>6, <1>7, <1>8 DEF Handler

LEMMA ServerFates == ASSUME TypeOK, Server PROVE Fates
<1>1. UNCHANGED cache /\ UNCHANGED owner
  BY Zenon DEF Server, Serve, ServeBadly, AcceptAction, ApplyLate, podVars
<1>2. \A r \in Replica : \A k \in CacheKeys : CacheFate(r, k)
  BY <1>1 DEF CacheFate
<1>3. ASSUME NEW c \in Call, Serve(c)
      PROVE  Fates
  <2>1. PICK status \in Verdicts(Request(c)) : \E page \in PageFor(c, status) :
          Respond(c, Answer(status, page, "full"), Success(status))
    BY <1>3 DEF Serve
  <2>2. PICK page \in PageFor(c, status) :
          Respond(c, Answer(status, page, "full"), Success(status))
    BY <2>1
  <2>3. status \in Nat /\ page \in SUBSET ZoneId
    BY ServerType DEF PageFor
  <2>4. \A z \in page : owner[z] = ProjectOf[call[c].tok]
    <3>1. Request(c).tok = call[c].tok
      BY DEF Request
    <3>2. \A pg \in Pages(owner, Request(c)) : \A z \in pg :
            owner[z] = ProjectOf[Request(c).tok]
      BY DEF Pages
    <3> QED BY <3>1, <3>2, Zenon DEF PageFor
  <2>5. Waiting(c) /\ UNCHANGED late
    BY <1>3 DEF Serve
  <2>6. (\A d \in Call : HandlerFate(d)) /\ WriteFate
    BY <1>1, <2>2, <2>3, <2>4, <2>5, RespondFate, Zenon DEF WriteFate, Sent
  <2> QED BY <1>2, <2>6 DEF Fates
<1>4. ASSUME NEW c \in Call, ServeBadly(c)
      PROVE  Fates
  <2>1. PICK status \in Nat, body \in {"full", "empty", "garbled"}, done \in BOOLEAN :
          Respond(c, Answer(status, {}, body), done)
    BY <1>4, BadAnswer, Zenon DEF Misinformed
  <2>2. Waiting(c) /\ UNCHANGED late
    BY <1>4 DEF ServeBadly
  <2>3. /\ \A d \in Call : HandlerFate(d)
        /\ \A r \in rrsets' :
             \/ r \in rrsets
             \/ \E req \in Sent : /\ r.zone = req.zone /\ r.name = req.name
                                  /\ r.value = req.value
    <3>1. {} \in SUBSET ZoneId /\ \A z \in {} : owner[z] = ProjectOf[call[c].tok]
      OBVIOUS
    <3> QED BY <1>1, <2>1, <2>2, <3>1, RespondFate, Zenon
  <2>4. WriteFate
    BY <2>2, <2>3 DEF WriteFate, Sent
  <2> QED BY <1>2, <2>3, <2>4 DEF Fates
<1>5. ASSUME NEW c \in Call, AcceptAction(c)
      PROVE  Fates
  <2>1. PICK status \in Verdicts(Request(c)) : Respond(c, Answer(status, {}, "full"), FALSE)
    BY <1>5, Zenon DEF AcceptAction
  <2>2. Waiting(c) /\ late' = late \cup {Request(c)} /\ status \in Nat
    BY <1>5, ServerType, Zenon DEF AcceptAction
  <2>3. At(c, Writing)
    BY <1>5, Zenon DEF AcceptAction, Waiting, At, Writing
  <2>4. /\ \A d \in Call : HandlerFate(d)
        /\ \A r \in rrsets' :
             \/ r \in rrsets
             \/ \E req \in Sent : /\ r.zone = req.zone /\ r.name = req.name
                                  /\ r.value = req.value
    <3>1. {} \in SUBSET ZoneId /\ \A z \in {} : owner[z] = ProjectOf[call[c].tok]
      OBVIOUS
    <3> QED BY <1>1, <2>1, <2>2, <3>1, RespondFate, Zenon
  <2>5. WriteFate
    BY <2>2, <2>3, <2>4 DEF WriteFate, Sent
  <2> QED BY <1>2, <2>4, <2>5 DEF Fates
<1>6. ASSUME NEW req \in late, ApplyLate(req)
      PROVE  Fates
  <2>1. UNCHANGED call /\ late' \subseteq late
    BY <1>6 DEF ApplyLate, podVars
  <2>2. \A r \in rrsets' : r \in rrsets \/ r \in Applied(rrsets, req)
    BY <1>6 DEF ApplyLate
  <2>3. \A r \in Applied(rrsets, req) :
          \/ r \in rrsets
          \/ r.zone = req.zone /\ r.name = req.name /\ r.value = req.value
    BY DEF Applied
  <2>4. WriteFate
    BY <2>1, <2>2, <2>3 DEF WriteFate, Sent
  <2> QED BY <1>2, <2>1, <2>4, UntouchedFate DEF Fates
<1> QED BY <1>3, <1>4, <1>5, <1>6 DEF Server

LEMMA PodsFates == ASSUME TypeOK, Pods PROVE Fates
<1> SUFFICES ASSUME NEW r \in Replica, Initialize(r) \/ Crash(r) PROVE Fates
  BY DEF Pods
<1>1. CASE Initialize(r)
  <2>1. UNCHANGED <<call, cache, late, rrsets>>
    BY <1>1 DEF Initialize, apiVars
  <2> QED BY <2>1, UntouchedFate, Zenon DEF Fates, CacheFate, WriteFate, Sent
<1>2. CASE Crash(r)
  <2> DEFINE lost == {c \in Call : Active(c) /\ call[c].rep = r}
  <2>1. call' = [c \in Call |-> IF c \in lost THEN Idle ELSE call[c]]
    BY <1>2 DEF Crash
  <2>2. Forsake(lost) /\ UNCHANGED rrsets
    BY <1>2 DEF Crash
  <2>3. lost \in SUBSET Call
    OBVIOUS
  <2> HIDE DEF lost
  <2>4. \A c \in Call : HandlerFate(c)
    BY <2>1, Zenon DEF HandlerFate, OnItsWay, SameJob
  <2>5. WriteFate
    BY <2>2, <2>3, ForsakeFate DEF WriteFate
  <2>6. cache' = [cache EXCEPT ![r] = EmptyStore(CacheKeys)]
    BY <1>2 DEF Crash
  <2>7. \A q \in Replica : \A k \in CacheKeys : CacheFate(q, k)
    BY <2>6, Zenon DEF CacheFate, EmptyStore, TypeOK
  <2> QED BY <2>4, <2>5, <2>7 DEF Fates
<1> QED BY <1>1, <1>2

LEMMA OperatorsFates == ASSUME TypeOK, Operators PROVE Fates
<1>1. UNCHANGED <<call, cache, late>>
  BY DEF Operators, DeleteZone, CreateZone, MoveZone, RotateSecret, RevokeToken,
         podVars, apiVars
<1>2. rrsets' \subseteq rrsets
  BY Zenon DEF Operators, DeleteZone, CreateZone, MoveZone, RotateSecret, RevokeToken, apiVars
<1>3. WriteFate
  BY <1>1, <1>2 DEF WriteFate, Sent
<1> QED BY <1>1, <1>3, UntouchedFate, Zenon DEF Fates, CacheFate

\* Every step is a unit of time or one of the fates.
LEMMA StepFates == ASSUME TypeOK, Next PROVE Tick \/ Fates
BY CertManagerFates, HandlerFates, ServerFates, PodsFates, OperatorsFates DEF Next

(***************************************************************************)
(* Where TXT records go.  The zone ID a value is sent to was taken from a  *)
(* list of zones by name, possibly long ago and by another handler of the  *)
(* pod; the record name was derived from the challenge alone.  RoutingInv  *)
(* ties the two together all the way from the cache to the RRSets.         *)
(***************************************************************************)

\* The write of value to this record of this zone serves a routed challenge.
Placed(zone, name, value) ==
  \E ch \in Routed : /\ ZoneName[zone] = Route[ch].apex
                     /\ name = Route[ch].record
                     /\ value = QuoteTXT(ch.key)

CacheByName ==
  \A r \in Replica : \A k \in CacheKeys :
    cache[r][k] # NoEntry => ZoneName[cache[r][k].id] = k[2]

CallsByName ==
  \A c \in Call : call[c] # Idle /\ call[c].pc \in Writing =>
    ZoneName[call[c].zid] = Route[call[c].ch].apex

LatePlaced == \A req \in late : Placed(req.zone, req.name, req.value)

RRSetsPlaced ==
  \A r \in rrsets : r.value # Foreign => Placed(r.zone, r.name, r.value)

RoutingInv == CacheByName /\ CallsByName /\ LatePlaced /\ RRSetsPlaced

CacheEmpty == \A r \in Replica : \A k \in CacheKeys : cache[r][k] = NoEntry

LEMMA CacheStart == Init => CacheEmpty
BY DEF Init, CacheEmpty, EmptyStore

LEMMA RoutingInit == Init => RoutingInv
<1> SUFFICES ASSUME Init PROVE RoutingInv
  OBVIOUS
<1>1. CacheByName
  BY CacheStart, Zenon DEF CacheEmpty, CacheByName
<1>2. CallsByName
  BY DEF Init, CallsByName
<1>3. LatePlaced
  BY DEF Init, LatePlaced
<1>4. RRSetsPlaced
  <2>1. rrsets \subseteq LeftOver
    BY DEF Init
  <2> QED BY <2>1, LeftOverForeign, Zenon DEF RRSetsPlaced
<1> QED BY <1>1, <1>2, <1>3, <1>4 DEF RoutingInv

LEMMA RoutingStep == TypeOK /\ RoutingInv /\ [Next]_vars => RoutingInv'
<1> SUFFICES ASSUME TypeOK, RoutingInv, [Next]_vars PROVE RoutingInv'
  OBVIOUS
<1>1. CASE UNCHANGED vars
  BY <1>1 DEF vars, podVars, apiVars, RoutingInv, CacheByName, CallsByName, LatePlaced,
              RRSetsPlaced
<1>2. CASE Tick
  <2>1. CallsByName'
    BY <1>2, TickState DEF CallsByName, RoutingInv, SameRouting
  <2>2. ASSUME NEW r \in Replica, NEW k \in CacheKeys, cache'[r][k] # NoEntry
        PROVE  cache[r][k] # NoEntry /\ cache'[r][k].id = cache[r][k].id
    <3>1. cache'[r][k] = AgeEntry(cache[r][k]) /\ cache[r][k] \in Entry \cup {NoEntry}
      BY <1>2 DEF Tick, Aged, TypeOK
    <3> QED BY <2>2, <3>1 DEF AgeEntry, Entry
  <2>3. CacheByName'
    BY <2>2 DEF CacheByName, RoutingInv
  <2>4. UNCHANGED <<late, rrsets>>
    BY <1>2 DEF Tick
  <2> QED BY <2>1, <2>3, <2>4 DEF RoutingInv, LatePlaced, RRSetsPlaced
<1>3. CASE Fates
  <2>1. \A c \in Call, z \in ZoneId : Chosen(c, z) =>
          ZoneName[z] = CacheKeyOf(call[c].ch)[2]
    BY DEF Chosen, CacheKeyOf, ZoneCacheKey
  <2>2. CacheByName'
    <3> SUFFICES ASSUME NEW r \in Replica, NEW k \in CacheKeys, cache'[r][k] # NoEntry
                 PROVE  ZoneName[cache'[r][k].id] = k[2]
      BY DEF CacheByName
    <3>1. CacheFate(r, k)
      BY <1>3 DEF Fates
    <3>2. CASE cache'[r][k] = cache[r][k]
      BY <3>2 DEF CacheByName, RoutingInv
    <3>3. ASSUME NEW c \in Call, NEW z \in ZoneId, Chosen(c, z),
                 k = CacheKeyOf(call[c].ch),
                 cache'[r][k] = [id |-> z, left |-> ZoneCacheTTL]
          PROVE  ZoneName[cache'[r][k].id] = k[2]
      <4>1. cache'[r][k].id = z
        BY <3>3, EntryFields, Zenon
      <4> QED BY <2>1, <3>3, <4>1, Zenon
    <3> QED BY <3>1, <3>2, <3>3, Zenon DEF CacheFate
  <2>3. ASSUME NEW c \in Call, call'[c] # Idle, call'[c].pc \in Writing
        PROVE  ZoneName[call'[c].zid] = Route[call'[c].ch].apex
    <3>1. call[c] # Idle /\ SameJob(call'[c], call[c]) /\ OnItsWay(c)
      BY <1>3, <2>3 DEF Fates, HandlerFate, Prepared, Writing
    <3>2. ASSUME Hit(cache[call[c].rep], CacheKeyOf(call[c].ch))
          PROVE  ZoneName[cache[call[c].rep][CacheKeyOf(call[c].ch)].id]
                   = Route[call[c].ch].apex
      <4>1. call[c].rep \in Replica /\ CacheKeyOf(call[c].ch) \in CacheKeys
        BY <3>1, KeyType, Zenon DEF Active, OnItsWay
      <4>2. CacheKeyOf(call[c].ch)[2] = Route[call[c].ch].apex
        BY DEF CacheKeyOf, ZoneCacheKey
      <4> QED BY <3>2, <4>1, <4>2 DEF Hit, RoutingInv, CacheByName
    <3>3. call[c].pc \in Writing => ZoneName[call[c].zid] = Route[call[c].ch].apex
      BY <3>1, Zenon DEF RoutingInv, CallsByName
    <3>4. ZoneName[call'[c].zid] = Route[call[c].ch].apex
      BY <2>3, <3>1, <3>2, <3>3, Zenon DEF OnItsWay, Chosen, Writing
    <3> QED BY <3>1, <3>4 DEF SameJob
  <2>4. CallsByName'
    BY <2>3 DEF CallsByName
  <2>5. ASSUME NEW req \in Sent
        PROVE  Placed(req.zone, req.name, req.value)
    <3>1. CASE req \in late
      BY <3>1 DEF RoutingInv, LatePlaced
    <3>2. ASSUME NEW c \in Call, At(c, Writing), req = Request(c)
          PROVE  Placed(req.zone, req.name, req.value)
      <4>1. /\ req.zone = call[c].zid /\ req.name = Route[call[c].ch].record
            /\ req.value = QuoteTXT(call[c].ch.key)
        BY <3>2 DEF Request
      <4>2. call[c].ch \in Routed
        BY <3>2, KeyType DEF At, Writing
      <4>3. ZoneName[call[c].zid] = Route[call[c].ch].apex
        BY <3>2 DEF RoutingInv, CallsByName, At, Active
      <4> QED BY <4>1, <4>2, <4>3 DEF Placed
    <3> QED BY <2>5, <3>1, <3>2 DEF Sent
  <2>6. LatePlaced'
    BY <1>3, <2>5 DEF Fates, WriteFate, LatePlaced, Placed
  <2>7. RRSetsPlaced'
    BY <1>3, <2>5 DEF Fates, WriteFate, RRSetsPlaced, Placed, RoutingInv
  <2> QED BY <2>2, <2>4, <2>6, <2>7 DEF RoutingInv
<1> QED BY <1>1, <1>2, <1>3, StepFates

(***************************************************************************)
(* Which project a handler works on.  ProjectInv follows the zone ID back  *)
(* to the list of zones it came from, through the cache: an entry belongs  *)
(* to the project of the Secret in its key.                                *)
(***************************************************************************)
CacheOwned ==
  \A r \in Replica : \A k \in CacheKeys :
    cache[r][k] # NoEntry => owner[cache[r][k].id] = ProjectOf[secret[k[1]]]

CallsOwned ==
  \A c \in Call : call[c] # Idle /\ call[c].pc # "prepare" =>
    /\ call[c].tok = secret[Route[call[c].ch].secret]
    /\ call[c].pc \in Writing => owner[call[c].zid] = ProjectOf[call[c].tok]
    /\ call[c].pc = "list" /\ call[c].resp # NoResponse =>
         \A z \in call[c].resp.zones : owner[z] = ProjectOf[call[c].tok]

ProjectInv == churn = 0 => CacheOwned /\ CallsOwned

LEMMA ProjectInit == Init => ProjectInv
<1> SUFFICES ASSUME Init PROVE CacheOwned /\ CallsOwned
  BY DEF ProjectInv
<1>1. CacheOwned
  BY CacheStart, Zenon DEF CacheEmpty, CacheOwned
<1>2. CallsOwned
  BY DEF Init, CallsOwned
<1> QED BY <1>1, <1>2

\* Only an operator's step changes a zone's project or a Secret.
LEMMA OnlyOperators ==
  ASSUME [Next]_vars, ~Operators
  PROVE  UNCHANGED <<owner, secret, churn>>
<1>1. CASE CertManager
  BY <1>1 DEF CertManager, CallWebhook, BeginCleanUp, Abandon, apiVars
<1>2. ASSUME NEW c \in Call, Handler(c)
      PROVE  UNCHANGED <<owner, secret, churn>>
  BY <1>2, Zenon DEF Handler, Prepare, SecretReadFails, LookupZone, Receive, TransportError,
              DeadlineExceeded, apiVars
<1>3. CASE Server
  BY <1>3, Zenon DEF Server, Serve, ServeBadly, AcceptAction, ApplyLate
<1>4. CASE Pods
  BY <1>4 DEF Pods, Initialize, Crash, apiVars
<1>5. CASE Tick
  BY <1>5 DEF Tick
<1>6. CASE UNCHANGED vars
  BY <1>6 DEF vars, apiVars
<1> QED BY <1>1, <1>2, <1>3, <1>4, <1>5, <1>6 DEF Next

LEMMA NoChurn ==
  ASSUME TypeOK, [Next]_vars, churn' = 0
  PROVE  ~Operators /\ churn = 0 /\ UNCHANGED <<owner, secret>>
<1>1. churn \in Nat
  BY TypeParts DEF RestOK
<1>2. CASE Operators
  <2>1. churn' = churn + 1
    BY <1>2 DEF Operators, DeleteZone, CreateZone, MoveZone, RotateSecret, RevokeToken,
                Churn
  <2> QED BY <1>1, <2>1
<1> QED BY <1>2, OnlyOperators

LEMMA ProjectStep == TypeOK /\ ProjectInv /\ [Next]_vars => ProjectInv'
<1> SUFFICES ASSUME TypeOK, ProjectInv, [Next]_vars, churn' = 0
             PROVE  CacheOwned' /\ CallsOwned'
  BY DEF ProjectInv
<1>1. CacheOwned /\ CallsOwned /\ UNCHANGED <<owner, secret>>
  BY NoChurn DEF ProjectInv
<1>2. CASE UNCHANGED vars
  BY <1>1, <1>2 DEF vars, podVars, CacheOwned, CallsOwned
<1>3. CASE Tick
  <2>1. CallsOwned'
    <3> SUFFICES ASSUME NEW c \in Call, call'[c] # Idle, call'[c].pc # "prepare"
                 PROVE  /\ call'[c].tok = secret[Route[call'[c].ch].secret]
                        /\ call'[c].pc \in Writing =>
                             owner[call'[c].zid] = ProjectOf[call'[c].tok]
                        /\ call'[c].pc = "list" /\ call'[c].resp # NoResponse =>
                             \A z \in call'[c].resp.zones :
                               owner[z] = ProjectOf[call'[c].tok]
      BY <1>1 DEF CallsOwned
    <3>1. call[c] # Idle /\ SameRouting(call'[c], call[c]) /\ call'[c].resp = call[c].resp
      BY <1>3, TickState, Zenon
    <3> QED BY <1>1, <3>1, Zenon DEF CallsOwned, SameRouting
  <2>2. ASSUME NEW r \in Replica, NEW k \in CacheKeys, cache'[r][k] # NoEntry
        PROVE  cache[r][k] # NoEntry /\ cache'[r][k].id = cache[r][k].id
    <3>1. cache'[r][k] = AgeEntry(cache[r][k]) /\ cache[r][k] \in Entry \cup {NoEntry}
      BY <1>3 DEF Tick, Aged, TypeOK
    <3> QED BY <2>2, <3>1 DEF AgeEntry, Entry
  <2>3. CacheOwned'
    BY <1>1, <2>2 DEF CacheOwned
  <2> QED BY <2>1, <2>3
<1>4. CASE Fates
  <2>1. ASSUME NEW c \in Call, NEW z, Chosen(c, z)
        PROVE  owner[z] = ProjectOf[call[c].tok] /\ call[c].tok = secret[CacheKeyOf(call[c].ch)[1]]
    BY <1>1, <2>1 DEF Chosen, At, Active, CallsOwned, CacheKeyOf, ZoneCacheKey
  <2>2. CacheOwned'
    <3> SUFFICES ASSUME NEW r \in Replica, NEW k \in CacheKeys, cache'[r][k] # NoEntry
                 PROVE  owner[cache'[r][k].id] = ProjectOf[secret[k[1]]]
      BY <1>1 DEF CacheOwned
    <3>1. CacheFate(r, k)
      BY <1>4 DEF Fates
    <3>2. CASE cache'[r][k] = cache[r][k]
      BY <1>1, <3>2 DEF CacheOwned
    <3>3. ASSUME NEW c \in Call, NEW z \in ZoneId, Chosen(c, z),
                 k = CacheKeyOf(call[c].ch),
                 cache'[r][k] = [id |-> z, left |-> ZoneCacheTTL]
          PROVE  owner[cache'[r][k].id] = ProjectOf[secret[k[1]]]
      <4>1. cache'[r][k].id = z
        BY <3>3, EntryFields, Zenon
      <4> QED BY <2>1, <3>3, <4>1, Zenon
    <3> QED BY <3>1, <3>2, <3>3, Zenon DEF CacheFate
  <2>3. ASSUME NEW c \in Call, call'[c] # Idle, call'[c].pc # "prepare"
        PROVE  /\ call'[c].tok = secret[Route[call'[c].ch].secret]
               /\ call'[c].pc \in Writing => owner[call'[c].zid] = ProjectOf[call'[c].tok]
               /\ call'[c].pc = "list" /\ call'[c].resp # NoResponse =>
                    \A z \in call'[c].resp.zones : owner[z] = ProjectOf[call'[c].tok]
    <3>1. /\ call[c] # Idle /\ SameJob(call'[c], call[c])
          /\ OnItsWay(c) \/ Prepared(c)
      BY <1>4, <2>3, Zenon DEF Fates, HandlerFate
    <3>2. CASE Prepared(c)
      BY <3>1, <3>2, Zenon DEF Prepared, SameJob, Writing
    <3>3. CASE OnItsWay(c)
      <4>1. call[c].pc # "prepare" /\ call'[c].tok = call[c].tok /\ call'[c].ch = call[c].ch
        BY <3>1, <3>3, Zenon DEF OnItsWay, SameJob
      <4>2. call[c].tok = secret[Route[call[c].ch].secret]
        BY <1>1, <3>1, <4>1, Zenon DEF CallsOwned
      <4>3. Hit(cache[call[c].rep], CacheKeyOf(call[c].ch)) =>
              owner[cache[call[c].rep][CacheKeyOf(call[c].ch)].id] = ProjectOf[call[c].tok]
        <5>1. call[c].rep \in Replica /\ CacheKeyOf(call[c].ch) \in CacheKeys
          BY <3>1, <4>1, KeyType DEF Active
        <5>2. CacheKeyOf(call[c].ch)[1] = Route[call[c].ch].secret
          BY DEF CacheKeyOf, ZoneCacheKey
        <5> QED BY <1>1, <4>2, <5>1, <5>2, Zenon DEF Hit, CacheOwned
      <4>4. call[c].pc \in Writing => owner[call[c].zid] = ProjectOf[call[c].tok]
        BY <1>1, <3>1, <4>1, Zenon DEF CallsOwned
      <4>5. call'[c].pc \in Writing => owner[call'[c].zid] = ProjectOf[call[c].tok]
        BY <2>1, <3>3, <4>3, <4>4, Zenon DEF OnItsWay, Writing
      <4>6. call'[c].pc = "list" /\ call'[c].resp # NoResponse =>
              \A z \in call'[c].resp.zones : owner[z] = ProjectOf[call[c].tok]
        BY <1>1, <3>1, <3>3, <4>1, Zenon DEF OnItsWay, Writing, CallsOwned
      <4> QED BY <4>1, <4>2, <4>5, <4>6, Zenon
    <3> QED BY <3>1, <3>2, <3>3, Zenon
  <2>4. CallsOwned'
    BY <1>1, <2>3, Zenon DEF CallsOwned
  <2> QED BY <2>2, <2>4
<1> QED BY <1>2, <1>3, <1>4, StepFates

LEMMA ProjectSafe == TypeOK /\ ProjectInv => NoCrossProjectRequest
BY Zenon DEF ProjectInv, CallsOwned, NoCrossProjectRequest, At, Active, Writing

\* Until an operator moves a zone or a token, a handler only ever addresses
\* zones of its own credential's project.
THEOREM NoCrossProject == Spec => []NoCrossProjectRequest
BY TypeInit, TypeStep, ProjectInit, ProjectStep, ProjectSafe, PTL DEF Spec

(***************************************************************************)
(* How long a deleted zone's ID can be served from the cache.  StaleInv    *)
(* follows it back to the answer it came from: a handler can hold an old   *)
(* answer no longer than its budget lasts.                                 *)
(***************************************************************************)
LiveNotGone == \A z \in ZoneId : owner[z] # Gone => goneFor[z] = 0

CacheStale ==
  \A r \in Replica : \A k \in CacheKeys :
    /\ cache[r][k] # NoEntry /\ cache[r][k].left >= 0
    /\ owner[cache[r][k].id] = Gone
    => goneFor[cache[r][k].id] + cache[r][k].left <= Horizon

AnswerStale ==
  \A c \in Call :
    /\ call[c] # Idle /\ call[c].pc = "list" /\ call[c].resp # NoResponse
    /\ call[c].left > 0
    => \A z \in call[c].resp.zones :
         owner[z] = Gone => goneFor[z] + call[c].left <= RequestBudget

StaleInv == LiveNotGone /\ CacheStale /\ AnswerStale

LEMMA StaleInit == Init => StaleInv
<1>1. Init => LiveNotGone
  BY DEF Init, LiveNotGone
<1>2. Init => CacheStale
  <2>1. Init => CacheEmpty
    BY CacheStart
  <2> QED BY <2>1, Zenon DEF CacheEmpty, CacheStale
<1>3. Init => AnswerStale
  BY DEF Init, AnswerStale
<1> QED BY <1>1, <1>2, <1>3 DEF StaleInv

\* A zone is gone for good, and the clock on it starts when it is deleted.
LEMMA Deletion ==
  ASSUME TypeOK, LiveNotGone, Next, ~Tick
  PROVE  /\ UNCHANGED goneFor
         /\ \A z \in ZoneId : owner'[z] = Gone => owner[z] = Gone \/ goneFor[z] = 0
         /\ \A z \in ZoneId : owner[z] = Gone => owner'[z] = Gone
<1>1. UNCHANGED goneFor
  <2>1. CASE Operators
    BY <2>1 DEF Operators, DeleteZone, CreateZone, MoveZone, RotateSecret, RevokeToken,
                apiVars
  <2>2. CASE CertManager
    BY <2>2 DEF CertManager, CallWebhook, BeginCleanUp, Abandon, apiVars
  <2>3. ASSUME NEW c \in Call, Handler(c)
        PROVE  UNCHANGED goneFor
    BY <2>3, Zenon DEF Handler, Prepare, SecretReadFails, LookupZone, Receive, TransportError,
                DeadlineExceeded, apiVars
  <2>4. CASE Server
    BY <2>4, Zenon DEF Server, Serve, ServeBadly, AcceptAction, ApplyLate
  <2>5. CASE Pods
    BY <2>5 DEF Pods, Initialize, Crash, apiVars
  <2> QED BY <2>1, <2>2, <2>3, <2>4, <2>5 DEF Next
<1>2. \A z \in ZoneId : owner'[z] = Gone => owner[z] = Gone \/ goneFor[z] = 0
  BY DEF LiveNotGone
<1>3. CASE Operators
  <2>1. \A z \in ZoneId : owner[z] = Gone => owner'[z] = Gone
    BY <1>3, OwnerAssumption
       DEF Operators, DeleteZone, CreateZone, MoveZone, RotateSecret, RevokeToken,
           apiVars, TypeOK
  <2> QED BY <1>1, <1>2, <2>1
<1>4. CASE ~Operators
  <2>1. UNCHANGED owner
    BY <1>4, OnlyOperators DEF Next
  <2> QED BY <1>1, <1>2, <2>1
<1> QED BY <1>3, <1>4

\* A unit of time brings entries and answers as far as the deleted zones.
LEMMA StaleTick == ASSUME TypeOK, StaleInv, Tick PROVE StaleInv'
<1>1. /\ UNCHANGED owner
      /\ \A z \in ZoneId : /\ goneFor[z] \in Nat /\ goneFor'[z] \in Nat
                           /\ goneFor'[z] <= goneFor[z] + 1
                           /\ owner[z] # Gone => goneFor'[z] = goneFor[z]
  BY BoundsAssumption, ZoneCacheTTLAssumption DEF Tick, TypeOK, Horizon
<1>2. LiveNotGone'
  BY <1>1 DEF LiveNotGone, StaleInv
<1>3. CacheStale'
  <2> SUFFICES ASSUME NEW r \in Replica, NEW k \in CacheKeys, cache'[r][k] # NoEntry,
                      cache'[r][k].left >= 0, owner[cache'[r][k].id] = Gone
               PROVE  goneFor'[cache'[r][k].id] + cache'[r][k].left <= Horizon
    BY <1>1 DEF CacheStale
  <2> DEFINE e == cache[r][k]
             f == cache'[r][k]
  <2>1. f = AgeEntry(e) /\ e \in Entry \cup {NoEntry}
    BY DEF Tick, Aged, TypeOK
  <2> HIDE DEF e, f
  <2>2. f # NoEntry /\ f.left >= 0
    BY DEF f
  <2>3. e \in Entry /\ f.id = e.id /\ f.left = e.left - 1 /\ e.left >= 0
    BY <2>1, <2>2, ZoneCacheTTLAssumption DEF AgeEntry, Expired, Entry
  <2>4. e.id \in ZoneId /\ e.left \in Int /\ e # NoEntry
    <3>1. e # NoEntry
      BY <2>3, SolverAssumption, Zenon
    <3> QED BY <2>3, <3>1, EntryType, Zenon
  <2>5. goneFor[e.id] + e.left <= Horizon
    BY <2>3, <2>4 DEF StaleInv, CacheStale, e, f
  <2>6. goneFor'[e.id] + f.left <= Horizon
    <3>1. /\ goneFor[e.id] \in Nat /\ goneFor'[e.id] \in Nat
          /\ goneFor'[e.id] <= goneFor[e.id] + 1
      BY <1>1, <2>4, Zenon
    <3>2. e.left \in Int /\ f.left = e.left - 1
      BY <2>3, <2>4, Zenon
    <3> QED BY <2>5, <3>1, <3>2, AgeTogether, HorizonType, Zenon
  <2>7. goneFor'[f.id] + f.left <= Horizon
    BY <2>3, <2>6, Zenon
  <2> QED BY <2>7, Zenon DEF f
<1>4. AnswerStale'
  <2> SUFFICES ASSUME NEW c \in Call, call'[c] # Idle, call'[c].pc = "list",
                      call'[c].resp # NoResponse, call'[c].left > 0,
                      NEW z \in call'[c].resp.zones, owner[z] = Gone
               PROVE  goneFor'[z] + call'[c].left <= RequestBudget
    BY <1>1 DEF AnswerStale
  <2>1. /\ call[c] # Idle /\ call[c].pc = "list" /\ call[c].resp = call'[c].resp
        /\ call[c].left \in Nat /\ call[c].left > 0 /\ call'[c].left = call[c].left - 1
    <3>1. call[c] # Idle
      BY TickState
    <3>2. /\ SameRouting(call'[c], call[c]) /\ call'[c].resp = call[c].resp
          /\ call[c].left \in Nat
          /\ call'[c].left = IF call[c].left > 0 THEN call[c].left - 1 ELSE 0
      BY <3>1, TickState
    <3>3. call[c].pc = "list"
      BY <3>2 DEF SameRouting
    <3>4. call[c].left > 0 /\ call'[c].left = call[c].left - 1
      BY <3>2, OneUnit, Zenon
    <3> QED BY <3>1, <3>2, <3>3, <3>4, Zenon
  <2>2. z \in ZoneId
    BY <2>1, Zenon DEF TypeOK, CallState
  <2>3. goneFor[z] + call[c].left <= RequestBudget
    BY <2>1, Zenon DEF StaleInv, AnswerStale
  <2>4. call[c].left \in Int
    BY <2>1, NatIsInt, Zenon
  <2>5. /\ goneFor[z] \in Nat /\ goneFor'[z] \in Nat
        /\ goneFor'[z] <= goneFor[z] + 1
    BY <1>1, <2>2, Zenon
  <2>6. call'[c].left = call[c].left - 1
    BY <2>1, Zenon
  <2> QED BY <2>3, <2>4, <2>5, <2>6, AgeTogether, HorizonType, Zenon
<1> QED BY <1>2, <1>3, <1>4 DEF StaleInv

LEMMA StaleStep == TypeOK /\ TypeOK' /\ StaleInv /\ [Next]_vars => StaleInv'
<1> SUFFICES ASSUME TypeOK, TypeOK', StaleInv, [Next]_vars PROVE StaleInv'
  OBVIOUS
<1> USE BoundsAssumption, ZoneCacheTTLAssumption
<1>1. CASE UNCHANGED vars
  BY <1>1, Zenon DEF vars, podVars, apiVars, StaleInv, LiveNotGone, CacheStale, AnswerStale
<1>2. CASE Tick
  BY <1>2, StaleTick
<1>3. CASE Next /\ ~Tick
  <2>1. Fates
    BY <1>3, StepFates
  <2>2. /\ UNCHANGED goneFor
        /\ \A z \in ZoneId : owner'[z] = Gone => owner[z] = Gone \/ goneFor[z] = 0
        /\ \A z \in ZoneId : owner[z] = Gone => owner'[z] = Gone
    BY <1>3, Deletion DEF StaleInv
  <2>3. LiveNotGone'
    BY <2>2 DEF StaleInv, LiveNotGone
  <2>4. \A z \in ZoneId : goneFor[z] \in Nat
    BY TypeParts DEF ApiOK, Horizon
  <2>5. CacheStale'
    <3> SUFFICES ASSUME NEW r \in Replica, NEW k \in CacheKeys, cache'[r][k] # NoEntry,
                        cache'[r][k].left >= 0, owner'[cache'[r][k].id] = Gone
                 PROVE  goneFor[cache'[r][k].id] + cache'[r][k].left <= Horizon
      BY <2>2 DEF CacheStale
    <3>1. cache'[r][k] \in Entry /\ CacheFate(r, k)
      BY <2>1, TypePartsPrime DEF CacheOK, Fates
    <3>2. cache'[r][k].id \in ZoneId /\ cache'[r][k].left \in 0..ZoneCacheTTL
      BY <3>1, EntryType, Zenon
    <3>3. CASE goneFor[cache'[r][k].id] = 0
      BY <3>2, <3>3 DEF Horizon
    <3>4. CASE cache'[r][k] = cache[r][k] /\ owner[cache'[r][k].id] = Gone
      BY <3>4 DEF StaleInv, CacheStale
    <3>5. ASSUME NEW c \in Call, NEW z \in ZoneId, Chosen(c, z), owner[z] = Gone,
                 cache'[r][k] = [id |-> z, left |-> ZoneCacheTTL]
          PROVE  goneFor[cache'[r][k].id] + cache'[r][k].left <= Horizon
      <4>1. goneFor[z] + call[c].left <= RequestBudget
        BY <3>5 DEF Chosen, At, Active, StaleInv, AnswerStale
      <4>2. call[c].left \in Nat
        <5>1. call[c] # Idle
          BY <3>5 DEF Chosen, At, Active
        <5> QED BY <5>1, BudgetType, Zenon
      <4>3. cache'[r][k].id = z /\ cache'[r][k].left = ZoneCacheTTL
        BY <3>5, EntryFields, Zenon
      <4>4. goneFor[z] + ZoneCacheTTL <= Horizon
        BY <2>4, <4>1, <4>2, FreshEntry, Zenon
      <4> QED BY <4>3, <4>4, Zenon
    <3>6. owner[cache'[r][k].id] = Gone \/ goneFor[cache'[r][k].id] = 0
      BY <2>2, <3>2, Zenon
    <3>7. \/ cache'[r][k] = cache[r][k]
          \/ \E c \in Call : \E z \in ZoneId :
               Chosen(c, z) /\ cache'[r][k] = [id |-> z, left |-> ZoneCacheTTL]
      BY <3>1, Zenon DEF CacheFate
    <3>8. ASSUME NEW z, cache'[r][k] = [id |-> z, left |-> ZoneCacheTTL]
          PROVE  cache'[r][k].id = z
      BY <3>8, EntryFields, Zenon
    <3> QED BY <3>3, <3>4, <3>5, <3>6, <3>7, <3>8, Zenon
  <2>6. AnswerStale'
    <3> SUFFICES ASSUME NEW c \in Call, call'[c] # Idle, call'[c].pc = "list",
                        call'[c].resp # NoResponse, call'[c].left > 0,
                        NEW z \in call'[c].resp.zones, owner'[z] = Gone
                 PROVE  goneFor[z] + call'[c].left <= RequestBudget
      BY <2>2 DEF AnswerStale
    <3>1. z \in ZoneId /\ call'[c].left \in 0..RequestBudget
      <4>1. call'[c] \in CallState
        BY TypePartsPrime DEF CallsOK
      <4> QED BY <4>1 DEF CallState
    <3>2. CASE goneFor[z] = 0
      BY <3>1, <3>2, NoAge, HorizonType, Zenon
    <3>3. CASE owner[z] = Gone
      <4>1. call[c] # Idle /\ SameJob(call'[c], call[c]) /\ OnItsWay(c)
        BY <2>1, Zenon DEF Fates, HandlerFate, Prepared
      <4>2. HandlerOK(call[c])
        BY <4>1, Zenon DEF TypeOK, Active
      <4>3. call[c].tok \in Token
        BY <4>1, <4>2, Zenon DEF HandlerOK, OnItsWay
      <4>4. ProjectOf[call[c].tok] # Gone
        BY <4>3, OwnerAssumption, TokenAssumption
      <4>5. /\ call[c].pc = "list" /\ call[c].resp = call'[c].resp
            /\ call[c].left = call'[c].left
        BY <3>3, <4>1, <4>4, Zenon DEF OnItsWay, SameJob, Writing
      <4> QED BY <3>3, <4>1, <4>5 DEF StaleInv, AnswerStale
    <3> QED BY <2>2, <3>1, <3>2, <3>3, Zenon
  <2> QED BY <2>3, <2>5, <2>6 DEF StaleInv
<1> QED BY <1>1, <1>2, <1>3

LEMMA StaleSafe == TypeOK /\ StaleInv => StaleIdBounded
<1> SUFFICES ASSUME TypeOK, StaleInv, NEW r \in Replica, NEW k \in CacheKeys,
                    Hit(cache[r], k), owner[cache[r][k].id] = Gone
             PROVE  goneFor[cache[r][k].id] <= Horizon
  BY DEF StaleIdBounded
<1>1. cache[r][k] \in Entry /\ cache[r][k] # NoEntry /\ ~(cache[r][k].left < 0)
  <2>1. cache[r][k] # NoEntry /\ ~(cache[r][k].left < 0)
    BY Zenon DEF Hit, Expired
  <2>2. cache[r][k] \in Entry \cup {NoEntry}
    BY TypeParts, Zenon DEF CacheOK
  <2> QED BY <2>1, <2>2, Zenon
<1>2. cache[r][k].left >= 0
  BY <1>1, EntryType, Zenon
<1>3. goneFor[cache[r][k].id] + cache[r][k].left <= Horizon
  BY <1>1, <1>2, Zenon DEF StaleInv, CacheStale
<1>4. goneFor[cache[r][k].id] \in Nat
  <2>1. cache[r][k].id \in ZoneId
    BY <1>1, EntryType, Zenon
  <2>2. goneFor \in [ZoneId -> 0..(Horizon + 1)]
    BY TypeParts, Zenon DEF ApiOK
  <2> QED BY <2>1, <2>2
<1>5. cache[r][k].left \in Int
  BY <1>1, EntryType, Zenon
<1> QED BY <1>2, <1>3, <1>4, <1>5, AgeAlone, HorizonType, Zenon

\* The cache serves the ID of a deleted zone for at most the TTL plus one
\* request budget, for every TTL and every budget.
THEOREM StaleBounded == Spec => []StaleIdBounded
BY TypeInit, TypeStep, StaleInit, StaleStep, StaleSafe, PTL DEF Spec

=============================================================================
