------------------------- MODULE SolverPromiseProofs -------------------------
(***************************************************************************)
(* The proofs of Present's promise, PresentedMeansServed, and of CleanUp's, *)
(* CleanedMeansGone: which requests may still reach a challenge's record,  *)
(* and on whose behalf.                                                    *)
(***************************************************************************)
EXTENDS SolverProofs

\* A write of another challenge for the name was left to itself.
Disturbed(ch) == \E p \in orphaned : p[1] # ch /\ SameRecord(p[1], ch)

\* The request goes to the challenge's own record.
For(req, ch) ==
  ZoneName[req.zone] = Route[ch].apex /\ req.name = Route[ch].record

Home(ch) == ProjectOf[secret[Route[ch].secret]]

Published(ch) == \E r \in rrsets : Served(ch, r) /\ owner[r.zone] = Home(ch)

\* A set_records Action of the challenge is running, and will find its RRSet.
Coming(ch) ==
  \E req \in late :
    /\ req.op = "set" /\ For(req, ch) /\ req.value = QuoteTXT(ch.key)
    /\ owner[req.zone] = Home(ch) /\ RRSetsAt(rrsets, req) # {}

Good(ch) == Disturbed(ch) \/ Published(ch) \/ Coming(ch)

\* One challenge per DNS name at a time.
Turns ==
  \A a \in Challenge : \A b \in Challenge :
    a # b /\ SameRecord(a, b) => ~(InProgress(a) /\ InProgress(b))

\* The phases in which cert-manager waits for a call of op.
StageOf(op) == IF op = "Present" THEN {"presenting", "presented"} ELSE {"cleaning"}

\* cert-manager waits for a call, or the call is known to be left to itself.
Custody ==
  \A c \in Call : Active(c) =>
    IF call[c].attached THEN phase[call[c].ch] \in StageOf(call[c].op)
    ELSE Owner(c) \in orphaned

\* cert-manager waits for one call per challenge.
OneAtATime ==
  \A c \in Call : \A d \in Call :
    /\ Active(c) /\ Active(d) /\ call[c].attached /\ call[d].attached
    /\ call[c].ch = call[d].ch
    => c = d

OrphanStage ==
  \A ch \in Challenge :
    <<ch, "CleanUp">> \in orphaned => phase[ch] \in {"cleaning", "cleaned"}

\* Which handler sends which request.
StepOK(s) ==
  /\ s.pc \in {"create", "set"} => s.op = "Present"
  /\ s.pc = "delete" => s.op = "CleanUp"
  /\ s.pc = "list" => s.zid = NoZone

StepsOK == \A c \in Call : Active(c) => StepOK(call[c])

\* The request is a write of challenge ch, in a call of op.
WriteOf(req, ch, op) ==
  /\ For(req, ch) /\ req.value = QuoteTXT(ch.key)
  /\ \/ req.op \in {"create", "set"} /\ op = "Present"
     \/ req.op = "delete" /\ op = "CleanUp"

LateOwned ==
  \A req \in late : \E p \in orphaned : p[1] \in Routed /\ WriteOf(req, p[1], p[2])

CustodyInv == Turns /\ Custody /\ OneAtATime /\ OrphanStage /\ StepsOK /\ LateOwned

\* Until an operator interferes, a late request finds its zone.
LateFunded ==
  revoked = {} /\ \A req \in late : owner[req.zone] = ProjectOf[req.tok]

\* Present has been told that its write succeeded.
Told(c) ==
  /\ At(c, {"create", "set"}) /\ call[c].attached
  /\ call[c].resp # NoResponse /\ Success(call[c].resp.status)

\* CleanUp has an answer that makes it report success: the RRSet was deleted or
\* is not there, or none of the zones listed has the name.
SaysGone(c) ==
  /\ Active(c) /\ call[c].attached /\ call[c].op = "CleanUp"
  /\ call[c].resp # NoResponse
  /\ LET resp == call[c].resp
     IN  \/ ErrNotFound(resp.status) /\ call[c].pc \in {"list", "delete"}
         \/ Success(resp.status) /\ call[c].pc = "delete"
         \/ /\ Success(resp.status) /\ call[c].pc = "list" /\ resp.body # "garbled"
            /\ \A z \in resp.zones : ZoneName[z] # Route[call[c].ch].apex

Kept ==
  /\ \A ch \in Challenge : phase[ch] = "presented" => ch \in Routed /\ Good(ch)
  /\ \A c \in Call : Told(c) => Good(call[c].ch)

KeptInv == churn = 0 => LateFunded /\ Kept

(***************************************************************************)
(* What one step may do to cert-manager's view, the handlers and the       *)
(* writes at Hetzner.                                                      *)
(***************************************************************************)
PhaseMove(ch, st) ==
  \/ /\ phase[ch] = "new" /\ st = "presenting"
     /\ \A o \in Challenge \ {ch} : SameRecord(o, ch) => ~InProgress(o)
  \/ /\ phase[ch] \in {"presenting", "presented"} /\ st = "cleaning"
     /\ \A d \in Call : Active(d) /\ call[d].ch = ch => ~call[d].attached
  \/ st = "presented" /\ \E c \in Call : Told(c) /\ call[c].ch = ch /\ call'[c] = Idle
  \/ /\ st = "cleaned"
     /\ \E c \in Call : SaysGone(c) /\ call[c].ch = ch /\ call'[c] = Idle

PhaseFate ==
  \/ UNCHANGED phase
  \/ \E ch \in Challenge, st \in Phases :
       PhaseMove(ch, st) /\ phase' = [phase EXCEPT ![ch] = st]

\* The server has carried out Present's write, or accepted to.
Answered(c) ==
  /\ At(c, {"create", "set"})
  /\ \E status \in Verdicts(Request(c)) : Success(status)
  /\ \/ rrsets' = Applied(rrsets, Request(c))
     \/ call[c].pc = "set" /\ Request(c) \in late' /\ UNCHANGED rrsets

\* A list of zones that leaves none out, unless its body was cut off.
Complete(c, zones) == zones \in Pages(owner, Request(c)) \/ "empty" \in FaultKinds

\* The server has deleted CleanUp's RRSet, has none, or has listed the zones and
\* there is none of the name.
Vanished(c) ==
  \/ /\ At(c, {"delete"})
     /\ \/ rrsets' = Applied(rrsets, Request(c))
        \/ UNCHANGED rrsets /\ \E status \in Verdicts(Request(c)) : ErrNotFound(status)
  \/ /\ At(c, {"list"}) /\ UNCHANGED rrsets /\ Complete(c, call'[c].resp.zones)
     /\ \A z \in call'[c].resp.zones : ZoneName[z] # Route[call[c].ch].apex

NewRun(c) ==
  /\ call[c] = Idle
  /\ call'[c].attached /\ call'[c].pc = "prepare"
  /\ phase'[call'[c].ch] \in StageOf(call'[c].op)
  /\ \A d \in Call : Active(d) /\ call[d].ch = call'[c].ch => ~call[d].attached
  /\ \A d \in Call : d # c => call'[d] = call[d]

RunsOn(c) ==
  /\ call[c] # Idle /\ call'[c].op = call[c].op /\ call'[c].ch = call[c].ch
  /\ \/ call'[c].attached = call[c].attached
     \/ ~call'[c].attached /\ Owner(c) \in orphaned'
  /\ StepOK(call[c]) => StepOK(call'[c])
  /\ Told(c)' => Told(c) \/ Answered(c)
  /\ SaysGone(c)' => SaysGone(c) \/ Vanished(c)

RunFate(c) == call'[c] = Idle \/ NewRun(c) \/ RunsOn(c)

OrphanFate ==
  /\ orphaned \subseteq orphaned'
  /\ \A p \in orphaned' : p \in orphaned \/ \E c \in Call : Active(c) /\ p = Owner(c)

LateFate ==
  \A req \in late' :
    \/ req \in late
    \/ \E c \in Call : At(c, Writing) /\ req = Request(c) /\ Owner(c) \in orphaned'

StoreFate ==
  \/ UNCHANGED rrsets /\ late \subseteq late'
  \/ \E c \in Call : /\ At(c, Writing) /\ rrsets' = Applied(rrsets, Request(c))
                     /\ UNCHANGED late
  \/ \E req \in late : ApplyLate(req)

Moves ==
  /\ PhaseFate /\ (\A c \in Call : RunFate(c)) /\ OrphanFate /\ LateFate
  /\ Operators \/ (StoreFate /\ UNCHANGED revoked)

\* Handlers that a step leaves alone.
LEMMA SameRuns ==
  ASSUME NEW c \in Call, call'[c] = call[c]
  PROVE  RunFate(c)
BY DEF RunFate, RunsOn, Told, SaysGone, At, Active

LEMMA OtherRuns ==
  ASSUME TypeOK, NEW c \in Call, NEW s, call' = [call EXCEPT ![c] = s], RunFate(c)
  PROVE  \A d \in Call : RunFate(d)
<1> SUFFICES ASSUME NEW d \in Call, d # c PROVE RunFate(d)
  OBVIOUS
<1>1. call'[d] = call[d]
  BY DEF TypeOK
<1> QED BY <1>1, SameRuns

\* Return reports success only for an answered write or a clean-up.
LEMMA ReturnMoves ==
  ASSUME TypeOK, NEW c \in Call, Active(c), NEW ok, Return(c, ok),
         ok /\ call[c].attached =>
           IF call[c].op = "CleanUp" THEN SaysGone(c) ELSE Told(c)
  PROVE  PhaseFate /\ \A d \in Call : RunFate(d)
<1>1. call' = [call EXCEPT ![c] = Idle] /\ call'[c] = Idle
  BY DEF Return, TypeOK
<1>2. \A d \in Call : RunFate(d)
  BY <1>1, OtherRuns, Zenon DEF RunFate
<1>3. call[c].ch \in Challenge
  BY DEF TypeOK, Active, HandlerOK, CallState
<1>4. CASE ok /\ call[c].attached /\ call[c].op = "CleanUp"
  <2>1. phase' = [phase EXCEPT ![call[c].ch] = "cleaned"]
    BY <1>4 DEF Return
  <2>2. PhaseMove(call[c].ch, "cleaned")
    BY <1>1, <1>4 DEF PhaseMove
  <2>3. "cleaned" \in Phases
    BY DEF Phases
  <2> QED BY <1>2, <1>3, <2>1, <2>2, <2>3, Zenon DEF PhaseFate
<1>5. CASE ok /\ call[c].attached /\ call[c].op # "CleanUp"
  <2>1. phase' = [phase EXCEPT ![call[c].ch] = "presented"]
    BY <1>5 DEF Return
  <2>2. PhaseMove(call[c].ch, "presented")
    BY <1>1, <1>5 DEF PhaseMove
  <2>3. "presented" \in Phases
    BY DEF Phases
  <2> QED BY <1>2, <1>3, <2>1, <2>2, <2>3, Zenon DEF PhaseFate
<1>6. CASE ~(ok /\ call[c].attached)
  <2>1. UNCHANGED phase
    BY <1>6 DEF Return
  <2> QED BY <1>2, <2>1 DEF PhaseFate
<1> QED BY <1>4, <1>5, <1>6

\* A handler that goes on without an answer in hand.
LEMMA GoesOn ==
  ASSUME TypeOK, NEW c \in Call, Active(c), NEW s, Becomes(c, s), SameRun(s, call[c]),
         s.resp = NoResponse \/ s.pc \notin ApiSteps,
         StepOK(call[c]) => StepOK(s)
  PROVE  \A d \in Call : RunFate(d)
<1>1. call'[c] = s /\ call' = [call EXCEPT ![c] = s]
  BY DEF Becomes, TypeOK
<1>2. RunsOn(c)
  <2>1. ~Told(c)' /\ ~SaysGone(c)'
    BY <1>1 DEF Told, SaysGone, At, ApiSteps
  <2> QED BY <1>1, <2>1 DEF RunsOn, Active, SameRun, SameJob
<1> QED BY <1>1, <1>2, OtherRuns, Zenon DEF RunFate

LEMMA RetryMoves ==
  ASSUME TypeOK, NEW c \in Call, Active(c), RetryOrFail(c)
  PROVE  PhaseFate /\ \A d \in Call : RunFate(d)
<1>1. CASE Return(c, FALSE)
  BY <1>1, ReturnMoves, Zenon
<1>2. ASSUME UNCHANGED phase, NEW s, Becomes(c, s), SameRun(s, call[c]),
             SameRouting(s, call[c]), s.resp = NoResponse
      PROVE  PhaseFate /\ \A d \in Call : RunFate(d)
  <2>1. StepOK(call[c]) => StepOK(s)
    BY <1>2 DEF StepOK, SameRun, SameJob, SameRouting
  <2> QED BY <1>2, <2>1, GoesOn DEF PhaseFate
<1> QED BY <1>1, <1>2, RetryState, Zenon

LEMMA GotoMoves ==
  ASSUME TypeOK, NEW c \in Call, Active(c), NEW pc \in ApiSteps,
         NEW zid \in ZoneId \cup {NoZone}, Goto(c, pc, zid),
         \/ pc = "list" /\ zid = NoZone
         \/ pc = AfterResolve(c)
         \/ pc = "set" /\ call[c].pc = "create"
  PROVE  PhaseFate /\ \A d \in Call : RunFate(d)
<1>0. PICK s : GoesTo(c, pc, zid, s)
  BY GotoState, Zenon
<1>1. /\ Becomes(c, s) /\ SameRun(s, call[c]) /\ s.tok = call[c].tok
      /\ s.pc = pc /\ s.zid = zid /\ s.resp = NoResponse
  BY <1>0 DEF GoesTo
<1>2. call[c].op \in {"Present", "CleanUp"}
  BY DEF TypeOK, Active, HandlerOK, CallState
<1>3. StepOK(call[c]) => StepOK(s)
  BY <1>1, <1>2 DEF StepOK, SameRun, SameJob, AfterResolve
<1>4. UNCHANGED phase
  BY DEF Goto
<1> QED BY <1>1, <1>3, <1>4, GoesOn DEF PhaseFate

LEMMA ForsakeMoves ==
  ASSUME TypeOK, NEW cs \in SUBSET Call, Forsake(cs)
  PROVE  OrphanFate /\ LateFate /\ late \subseteq late'
<1>1. PICK sent \in SUBSET {c \in cs : Waiting(c) /\ call[c].pc # "list"} :
         /\ late' = late \cup {Request(c) : c \in sent}
         /\ orphaned' = orphaned \cup {Owner(c) : c \in sent}
  BY DEF Forsake
<1>2. \A c \in sent : c \in Call /\ At(c, Writing) /\ Active(c)
  BY DEF Waiting, At, ApiSteps, Writing
<1> QED BY <1>1, <1>2 DEF OrphanFate, LateFate

LEMMA CertManagerMoves == ASSUME TypeOK, CertManager PROVE Moves
<1>1. UNCHANGED <<rrsets, late, revoked>>
  BY DEF CertManager, CallWebhook, BeginCleanUp, Abandon, podVars, apiVars
<1>2. LateFate /\ StoreFate
  BY <1>1 DEF LateFate, StoreFate
<1>3. ASSUME NEW c \in Call, NEW op \in {"Present", "CleanUp"}, NEW ch \in Challenge,
             NEW r \in Replica, CallWebhook(c, op, ch, r)
      PROVE  Moves
  <2> DEFINE s == NewCall(op, ch, r)
  <2>1. call' = [call EXCEPT ![c] = s] /\ call[c] = Idle /\ UNCHANGED orphaned
    BY <1>3 DEF CallWebhook, Active
  <2>2. s.attached /\ s.pc = "prepare" /\ s.ch = ch /\ s.op = op
    BY DEF NewCall
  <2> HIDE DEF s
  <2>3. call'[c] = s /\ \A d \in Call : d # c => call'[d] = call[d]
    BY <2>1 DEF TypeOK
  <2>4. phase' = [phase EXCEPT ![ch] = IF phase[ch] = "new" THEN "presenting" ELSE phase[ch]]
    BY <1>3 DEF CallWebhook
  <2>5. phase'[ch] \in StageOf(op)
    BY <1>3, <2>4 DEF CallWebhook, StageOf, TypeOK
  <2>6. \A d \in Call : Active(d) /\ call[d].ch = ch => ~call[d].attached
    BY <1>3 DEF CallWebhook
  <2>7. NewRun(c)
    BY <2>1, <2>2, <2>3, <2>5, <2>6 DEF NewRun
  <2>8. \A d \in Call : RunFate(d)
    BY <2>1, <2>7, OtherRuns, Zenon DEF RunFate
  <2>9. PhaseFate
    <3>1. CASE phase[ch] = "new"
      <4>1. PhaseMove(ch, "presenting") /\ "presenting" \in Phases
        BY <1>3, <3>1 DEF CallWebhook, PhaseMove, Phases
      <4> QED BY <2>4, <3>1, <4>1, Zenon DEF PhaseFate
    <3>2. CASE phase[ch] # "new"
      BY <2>4, <3>2 DEF PhaseFate, TypeOK
    <3> QED BY <3>1, <3>2
  <2> QED BY <1>1, <1>2, <2>1, <2>8, <2>9 DEF Moves, OrphanFate
<1>4. ASSUME NEW ch \in Challenge, BeginCleanUp(ch)
      PROVE  Moves
  <2>1. PhaseMove(ch, "cleaning") /\ "cleaning" \in Phases
    BY <1>4 DEF BeginCleanUp, PhaseMove, Phases
  <2>2. PhaseFate /\ UNCHANGED orphaned /\ UNCHANGED call
    BY <1>4, <2>1, Zenon DEF BeginCleanUp, PhaseFate, podVars
  <2> QED BY <1>1, <1>2, <2>2, SameRuns DEF Moves, OrphanFate
<1>5. ASSUME NEW c \in Call, Abandon(c)
      PROVE  Moves
  <2>1. PICK s : /\ Becomes(c, s) /\ SameJob(s, call[c]) /\ SameRouting(s, call[c])
                 /\ s.resp = call[c].resp /\ s.attached = FALSE
    BY <1>5, AbandonState, Zenon
  <2>2. call'[c] = s /\ call' = [call EXCEPT ![c] = s] /\ call[c] # Idle
    BY <1>5, <2>1, Zenon DEF Becomes, TypeOK, Abandon, Active
  <2>3. orphaned' = orphaned \cup {Owner(c)} /\ UNCHANGED phase
    BY <1>5 DEF Abandon
  <2>4. StepOK(call[c]) => StepOK(s)
    BY <2>1 DEF StepOK, SameJob, SameRouting
  <2>5. RunsOn(c)
    BY <2>1, <2>2, <2>3, <2>4 DEF RunsOn, SameJob, Told, SaysGone
  <2>6. \A d \in Call : RunFate(d)
    BY <2>2, <2>5, OtherRuns, Zenon DEF RunFate
  <2> QED BY <1>1, <1>2, <2>2, <2>3, <2>6 DEF Moves, OrphanFate, PhaseFate, Active
<1> QED BY <1>3, <1>4, <1>5 DEF CertManager

LEMMA ReceiveMoves == ASSUME TypeOK, StepsOK, NEW c \in Call, Receive(c) PROVE Moves
<1>1. /\ Active(c) /\ At(c, ApiSteps) /\ call[c].resp # NoResponse
      /\ call[c] \in CallState /\ HandlerOK(call[c]) /\ StepOK(call[c])
  BY RequestType DEF Receive, At, StepsOK
<1>2. UNCHANGED <<rrsets, late, revoked, orphaned>>
  BY DEF Receive, apiVars
<1>3. LateFate /\ StoreFate /\ OrphanFate
  BY <1>2 DEF LateFate, StoreFate, OrphanFate
<1>4. SUFFICES PhaseFate /\ \A d \in Call : RunFate(d)
  BY <1>2, <1>3 DEF Moves
<1>5. CASE ReceiveList(c)
  <2> DEFINE matches == {z \in call[c].resp.zones : ZoneName[z] = Route[call[c].ch].apex}
             cleanUp == call[c].op = "CleanUp"
             missing == cleanUp /\ ErrNotFound(call[c].resp.status)
             none == /\ matches = {} /\ Success(call[c].resp.status)
                     /\ call[c].resp.body # "garbled"
  <2>1. \/ \E z \in matches : Goto(c, AfterResolve(c), z)
        \/ none /\ Return(c, cleanUp)
        \/ Return(c, missing) \/ RetryOrFail(c)
    BY <1>5, Zenon DEF ReceiveList
  <2>2. ASSUME NEW z \in matches, Goto(c, AfterResolve(c), z)
        PROVE  PhaseFate /\ \A d \in Call : RunFate(d)
    <3>1. z \in ZoneId /\ AfterResolve(c) \in ApiSteps
      BY <1>1 DEF CallState, AfterResolve, ApiSteps
    <3> QED BY <1>1, <2>2, <3>1, GotoMoves
  <2>3. CASE none /\ Return(c, cleanUp)
    <3>1. cleanUp /\ call[c].attached => SaysGone(c)
      BY <1>1, <1>5, <2>3 DEF SaysGone, ReceiveList
    <3> QED BY <1>1, <2>3, <3>1, ReturnMoves, Zenon
  <2>4. CASE Return(c, missing)
    <3>1. missing /\ call[c].attached => SaysGone(c)
      BY <1>1, <1>5 DEF SaysGone, ReceiveList
    <3> QED BY <1>1, <2>4, <3>1, ReturnMoves, Zenon
  <2> QED BY <1>1, <2>1, <2>2, <2>3, <2>4, RetryMoves
<1>6. CASE ReceiveCreate(c) \/ ReceiveSet(c)
  <2> DEFINE whole == call[c].resp.body # "garbled"
  <2>1. \/ Success(call[c].resp.status) /\ Return(c, whole)
        \/ Return(c, FALSE) \/ RetryOrFail(c)
        \/ call[c].pc = "create" /\ Goto(c, "set", call[c].zid)
    BY <1>6, Zenon DEF ReceiveCreate, ReceiveSet
  <2>2. call[c].pc \in {"create", "set"}
    BY <1>6, Zenon DEF ReceiveCreate, ReceiveSet
  <2>3. CASE Success(call[c].resp.status) /\ Return(c, whole)
    <3>1. call[c].op # "CleanUp" /\ (call[c].attached => Told(c))
      BY <1>1, <2>2, <2>3 DEF Told, At, StepOK
    <3> QED BY <1>1, <2>3, <3>1, ReturnMoves
  <2>4. CASE call[c].pc = "create" /\ Goto(c, "set", call[c].zid)
    <3>1. call[c].zid \in ZoneId /\ "set" \in ApiSteps
      BY <1>1, <2>4 DEF HandlerOK, ApiSteps
    <3> QED BY <1>1, <2>4, <3>1, GotoMoves
  <2>5. CASE Return(c, FALSE)
    BY <1>1, <2>5, ReturnMoves, Zenon
  <2> QED BY <1>1, <2>1, <2>3, <2>4, <2>5, RetryMoves, Zenon
<1>7. CASE ReceiveDelete(c)
  <2> DEFINE status == call[c].resp.status
  <2>1. \/ (Success(status) \/ ErrNotFound(status)) /\ Return(c, TRUE)
        \/ Return(c, FALSE) \/ RetryOrFail(c)
    BY <1>7, Zenon DEF ReceiveDelete
  <2>2. call[c].op = "CleanUp"
    BY <1>1, <1>7 DEF ReceiveDelete, StepOK
  <2>3. CASE (Success(status) \/ ErrNotFound(status)) /\ Return(c, TRUE)
    <3>1. call[c].attached => SaysGone(c)
      BY <1>1, <1>7, <2>2, <2>3 DEF SaysGone, ReceiveDelete
    <3> QED BY <1>1, <2>2, <2>3, <3>1, ReturnMoves, Zenon
  <2>4. CASE Return(c, FALSE)
    BY <1>1, <2>4, ReturnMoves, Zenon
  <2> QED BY <1>1, <2>1, <2>3, <2>4, RetryMoves, Zenon
<1> QED BY <1>5, <1>6, <1>7 DEF Receive

LEMMA HandlerMoves == ASSUME TypeOK, StepsOK, NEW c \in Call, Handler(c) PROVE Moves
<1>1. ASSUME UNCHANGED <<rrsets, late, revoked, orphaned>>, PhaseFate,
             \A d \in Call : RunFate(d)
      PROVE  Moves
  BY <1>1 DEF Moves, LateFate, StoreFate, OrphanFate
<1>2. ASSUME UNCHANGED <<rrsets, revoked>>, Forsake({c}), PhaseFate,
             \A d \in Call : RunFate(d)
      PROVE  Moves
  <2>1. OrphanFate /\ LateFate /\ late \subseteq late'
    BY <1>2, ForsakeMoves
  <2> QED BY <1>2, <2>1 DEF Moves, StoreFate
<1>3. CASE Prepare(c)
  <2>1. UNCHANGED <<rrsets, late, revoked, orphaned>> /\ Active(c)
    BY <1>3 DEF Prepare, apiVars, At
  <2>2. CASE PrepareOK(c)
    <3>0. PICK s : GetsToken(c, s)
      BY <1>3, <2>2, PrepareState, Zenon
    <3>1. /\ Becomes(c, s) /\ SameRun(s, call[c]) /\ s.pc = "lookup"
          /\ s.tok \in Token /\ s.tok = secret[Route[call[c].ch].secret]
      BY <3>0 DEF GetsToken
    <3>2. StepOK(s) /\ s.pc \notin ApiSteps
      BY <3>1 DEF StepOK, ApiSteps
    <3>3. UNCHANGED phase
      BY <1>3, <2>2 DEF Prepare
    <3>4. \A d \in Call : RunFate(d)
      BY <2>1, <3>1, <3>2, GoesOn
    <3> QED BY <1>1, <2>1, <3>3, <3>4 DEF PhaseFate
  <2>3. CASE ~PrepareOK(c)
    <3>1. Return(c, FALSE)
      BY <1>3, <2>3, Zenon DEF Prepare
    <3>2. PhaseFate /\ \A d \in Call : RunFate(d)
      BY <2>1, <3>1, ReturnMoves, Zenon
    <3> QED BY <1>1, <2>1, <3>2
  <2> QED BY <2>2, <2>3
<1>4. CASE SecretReadFails(c)
  <2>1. UNCHANGED <<rrsets, late, revoked, orphaned>> /\ Active(c) /\ Return(c, FALSE)
    BY <1>4, Zenon DEF SecretReadFails, apiVars, At
  <2>2. PhaseFate /\ \A d \in Call : RunFate(d)
    BY <2>1, ReturnMoves, Zenon
  <2> QED BY <1>1, <2>1, <2>2
<1>5. CASE LookupZone(c)
  <2> DEFINE r == call[c].rep
             key == CacheKeyOf(call[c].ch)
  <2>1. /\ Active(c) /\ call[c].pc # "prepare"
        /\ UNCHANGED <<rrsets, late, revoked, orphaned>>
    BY <1>5 DEF LookupZone, At, apiVars
  <2>2. r \in Replica /\ key \in CacheKeys
    BY <2>1, KeyType
  <2>3. \/ Hit(cache[r], key) /\ Goto(c, AfterResolve(c), cache[r][key].id)
        \/ Goto(c, "list", NoZone)
    BY <1>5 DEF LookupZone
  <2> HIDE DEF r, key
  <2>4. Hit(cache[r], key) => cache[r][key].id \in ZoneId
    BY <2>2 DEF Hit, Entry, TypeOK
  <2>5. AfterResolve(c) \in ApiSteps /\ "list" \in ApiSteps
    BY DEF AfterResolve, ApiSteps
  <2>6. PhaseFate /\ \A d \in Call : RunFate(d)
    BY <2>1, <2>3, <2>4, <2>5, GotoMoves
  <2> QED BY <1>1, <2>1, <2>6
<1>6. CASE Receive(c)
  BY <1>6, ReceiveMoves
<1>7. CASE TransportError(c)
  <2>1. UNCHANGED <<rrsets, revoked>> /\ Active(c) /\ RetryOrFail(c) /\ Forsake({c})
    BY <1>7 DEF TransportError, At
  <2>2. PhaseFate /\ \A d \in Call : RunFate(d)
    BY <2>1, RetryMoves
  <2> QED BY <1>2, <2>1, <2>2
<1>8. CASE DeadlineExceeded(c)
  <2>1. UNCHANGED <<rrsets, revoked>> /\ Active(c) /\ Return(c, FALSE) /\ Forsake({c})
    BY <1>8, Zenon DEF DeadlineExceeded
  <2>2. PhaseFate /\ \A d \in Call : RunFate(d)
    BY <2>1, ReturnMoves, Zenon
  <2> QED BY <1>2, <2>1, <2>2
<1> QED BY <1>3, <1>4, <1>5, <1>6, <1>7, <1>8 DEF Handler

\* An answer that reports success is the server's own, and its work is done.
LEMMA HonestAnswer ==
  ASSUME NEW c \in Call, ServeBadly(c)
  PROVE  \E status \in Nat, body \in {"full", "empty", "garbled"}, done \in BOOLEAN :
           /\ Respond(c, Answer(status, {}, body), done) /\ ~ErrNotFound(status)
           /\ Success(status) => /\ status \in Verdicts(Request(c))
                                 /\ rrsets' = Applied(rrsets, Request(c))
                                 /\ body = "garbled" \/ "empty" \in FaultKinds
<1> DEFINE limited == 429
           internal == 500
           Bodies == {"full", "empty", "garbled"}
           Honest(st, body) ==
             /\ ~ErrNotFound(st)
             /\ Success(st) => /\ st \in Verdicts(Request(c))
                               /\ rrsets' = Applied(rrsets, Request(c))
                               /\ body = "garbled" \/ "empty" \in FaultKinds
           Goal == \E st \in Nat, body \in Bodies, done \in BOOLEAN :
                     Respond(c, Answer(st, {}, body), done) /\ Honest(st, body)
<1> SUFFICES Goal
  BY Zenon
<1>1. "full" \in Bodies /\ "empty" \in Bodies /\ "garbled" \in Bodies
  OBVIOUS
<1>2. Honest(limited, "full") /\ Honest(internal, "full")
  BY DEF Success, ErrNotFound
<1>3. ASSUME NEW st, Respond(c, Answer(st, {}, "full"), FALSE)
                       \/ Respond(c, Answer(st, {}, "full"), TRUE),
             st \in Nat, Honest(st, "full")
      PROVE  Goal
  <2> HIDE DEF Honest, Bodies
  <2>1. CASE Respond(c, Answer(st, {}, "full"), FALSE)
    BY <1>1, <1>3, <2>1, Zenon
  <2>2. CASE Respond(c, Answer(st, {}, "full"), TRUE)
    BY <1>1, <1>3, <2>2, Zenon
  <2> QED BY <1>3, <2>1, <2>2, Zenon
<1>4. ASSUME NEW st \in Verdicts(Request(c)), Success(st), NEW body \in Bodies,
             body = "garbled" \/ "empty" \in FaultKinds,
             Respond(c, Answer(st, {}, body), TRUE)
      PROVE  Goal
  <2>1. st \in Nat
    BY ServerType
  <2>2. rrsets' = Applied(rrsets, Request(c))
    BY <1>4, Zenon DEF Respond
  <2>3. ~ErrNotFound(st)
    BY <1>4 DEF Success, ErrNotFound
  <2>4. Honest(st, body)
    BY <1>4, <2>2, <2>3, Zenon
  <2> HIDE DEF Honest, Bodies
  <2> QED BY <1>4, <2>1, <2>4, Zenon
<1>5. limited \in Nat /\ internal \in Nat
  OBVIOUS
<1>6. \/ Respond(c, Answer(limited, {}, "full"), FALSE)
      \/ Respond(c, Answer(internal, {}, "full"), FALSE)
      \/ Respond(c, Answer(internal, {}, "full"), TRUE)
      \/ \E st \in Verdicts(Request(c)) :
           /\ Success(st)
           /\ \/ "empty" \in FaultKinds /\ Respond(c, Answer(st, {}, "empty"), TRUE)
              \/ Respond(c, Answer(st, {}, "garbled"), TRUE)
  BY Zenon DEF ServeBadly, Fault
<1> HIDE DEF limited, internal, Honest, Bodies, Goal
<1>7. CASE Respond(c, Answer(limited, {}, "full"), FALSE)
  BY <1>2, <1>3, <1>5, <1>7, Zenon
<1>8. CASE Respond(c, Answer(internal, {}, "full"), FALSE)
  BY <1>2, <1>3, <1>5, <1>8, Zenon
<1>9. CASE Respond(c, Answer(internal, {}, "full"), TRUE)
  BY <1>2, <1>3, <1>5, <1>9, Zenon
<1>10. CASE \E st \in Verdicts(Request(c)) :
             /\ Success(st)
             /\ \/ "empty" \in FaultKinds /\ Respond(c, Answer(st, {}, "empty"), TRUE)
                \/ Respond(c, Answer(st, {}, "garbled"), TRUE)
  BY <1>1, <1>4, <1>10, Zenon
<1> QED BY <1>6, <1>7, <1>8, <1>9, <1>10, Zenon

\* What an answer does to the handlers and, for a write, to the RRSets.
LEMMA RespondMoves ==
  ASSUME TypeOK, StepsOK, NEW c \in Call, Waiting(c),
         NEW status \in Nat, NEW zones \in SUBSET ZoneId,
         NEW body \in {"full", "empty", "garbled"}, NEW done,
         Respond(c, Answer(status, zones, body), done),
         Success(status) =>
           /\ status \in Verdicts(Request(c))
           /\ \/ rrsets' = Applied(rrsets, Request(c))
              \/ call[c].pc = "set" /\ Request(c) \in late' /\ UNCHANGED rrsets
           /\ call[c].pc = "list" /\ body # "garbled" => Complete(c, zones),
         ErrNotFound(status) => status \in Verdicts(Request(c)) /\ UNCHANGED rrsets
  PROVE  /\ \A d \in Call : RunFate(d)
         /\ \/ UNCHANGED rrsets
            \/ At(c, Writing) /\ rrsets' = Applied(rrsets, Request(c))
<1>0. PICK s : Hears(c, Answer(status, zones, body), s)
  BY RespondState, Zenon
<1>1. /\ Becomes(c, s) /\ SameRun(s, call[c]) /\ SameRouting(s, call[c])
      /\ s.resp = Answer(status, zones, body)
  BY <1>0 DEF Hears
<1>2. call'[c] = s /\ call' = [call EXCEPT ![c] = s]
  BY <1>1 DEF Becomes, TypeOK
<1>3. s.resp.status = status /\ s.resp.zones = zones /\ s.resp.body = body
  <2>1. LET answer == Answer(status, zones, body)
        IN  answer.status = status /\ answer.zones = zones /\ answer.body = body
    BY DEF Answer
  <2> QED BY <1>1, <2>1
<1>4. call[c] # Idle /\ At(c, ApiSteps)
  BY DEF Waiting, At, Active
<1>5. rrsets' = Applied(rrsets, Request(c)) \/ UNCHANGED rrsets
  BY DEF Respond
<1>6. Told(c)' => Answered(c)
  <2> SUFFICES ASSUME Told(c)' PROVE Answered(c)
    OBVIOUS
  <2>1. Success(status) /\ At(c, {"create", "set"})
    BY <1>1, <1>2, <1>3, <1>4 DEF Told, At, Active, SameRouting
  <2> QED BY <2>1 DEF Answered
<1>7. StepOK(call[c]) => StepOK(s)
  BY <1>1 DEF StepOK, SameRun, SameJob, SameRouting
<1>8. ASSUME call[c].pc = "list"
      PROVE  Applied(rrsets, Request(c)) = rrsets /\ UNCHANGED rrsets
  <2>1. call[c].zid = NoZone
    BY <1>4, <1>8 DEF StepsOK, StepOK, Active
  <2>2. Request(c).zone = NoZone /\ Request(c).op = "list"
    BY <1>8, <2>1 DEF Request
  <2>3. \A r \in rrsets : r.zone # NoZone
    BY SolverAssumption DEF TypeOK
  <2>4. Applied(rrsets, Request(c)) = rrsets
    BY <2>2, <2>3, Zenon DEF Applied, RRSetsAt
  <2> QED BY <1>5, <2>4
<1>9. SaysGone(c)' => Vanished(c)
  <2> SUFFICES ASSUME SaysGone(c)' PROVE Vanished(c)
    OBVIOUS
  <2>1. /\ s.pc = call[c].pc
        /\ \/ ErrNotFound(status) /\ s.pc \in {"list", "delete"}
           \/ Success(status) /\ s.pc = "delete"
           \/ /\ Success(status) /\ s.pc = "list" /\ body # "garbled"
              /\ \A z \in zones : ZoneName[z] # Route[call[c].ch].apex
    BY <1>1, <1>2, <1>3, Zenon DEF SaysGone, SameRouting
  <2>2. CASE call[c].pc = "list"
    <3>1. ~ErrNotFound(status)
      <4> SUFFICES ASSUME ErrNotFound(status) PROVE FALSE
        OBVIOUS
      <4>1. status \in Verdicts(Request(c)) /\ Request(c).op = "list"
        BY <2>2 DEF Request
      <4>2. status # 404
        BY <4>1 DEF Verdicts, Statuses
      <4> QED BY <4>2, Zenon DEF ErrNotFound
    <3>2. Complete(c, zones)
      BY <2>1, <2>2, <3>1
    <3>3. /\ Complete(c, call'[c].resp.zones)
          /\ \A z \in call'[c].resp.zones : ZoneName[z] # Route[call[c].ch].apex
      BY <1>2, <1>3, <2>1, <2>2, <3>1, <3>2
    <3> QED BY <1>4, <1>8, <2>2, <3>3, Zenon DEF Vanished, At
  <2>3. CASE call[c].pc = "delete"
    <3>1. At(c, {"delete"})
      BY <1>4, <2>3 DEF At
    <3>2. CASE ErrNotFound(status)
      BY <3>1, <3>2 DEF Vanished
    <3>3. CASE Success(status)
      BY <2>3, <3>1, <3>3 DEF Vanished
    <3> QED BY <2>1, <2>3, <3>2, <3>3
  <2> QED BY <2>1, <2>2, <2>3, Zenon
<1>10. RunsOn(c)
  BY <1>1, <1>2, <1>4, <1>6, <1>7, <1>9 DEF RunsOn, SameRun, SameJob
<1>11. \A d \in Call : RunFate(d)
  BY <1>2, <1>10, OtherRuns, Zenon DEF RunFate
<1>12. CASE call[c].pc = "list"
  BY <1>8, <1>11, <1>12
<1>13. CASE call[c].pc # "list"
  BY <1>4, <1>5, <1>11, <1>13 DEF At, ApiSteps, Writing
<1> QED BY <1>12, <1>13

LEMMA ServerMoves == ASSUME TypeOK, StepsOK, Server PROVE Moves
<1>1. UNCHANGED <<revoked, phase>>
  BY Zenon DEF Server, Serve, ServeBadly, AcceptAction, ApplyLate, cmVars
<1>2. PhaseFate
  BY <1>1 DEF PhaseFate
<1>3. ASSUME NEW c \in Call, UNCHANGED <<late, orphaned>>, \A d \in Call : RunFate(d),
             \/ UNCHANGED rrsets
             \/ At(c, Writing) /\ rrsets' = Applied(rrsets, Request(c))
      PROVE  Moves
  BY <1>1, <1>2, <1>3 DEF Moves, OrphanFate, LateFate, StoreFate
<1>4. ASSUME NEW c \in Call, Serve(c)
      PROVE  Moves
  <2>1. PICK status \in Verdicts(Request(c)) : \E page \in PageFor(c, status) :
          Respond(c, Answer(status, page, "full"), Success(status))
    BY <1>4 DEF Serve
  <2>2. PICK page \in PageFor(c, status) :
          Respond(c, Answer(status, page, "full"), Success(status))
    BY <2>1
  <2>3. status \in Nat /\ page \in SUBSET ZoneId
    BY ServerType DEF PageFor
  <2>4. Waiting(c) /\ UNCHANGED <<late, orphaned>>
    BY <1>4 DEF Serve, cmVars
  <2> DEFINE done == Success(status)
  <2>5. Respond(c, Answer(status, page, "full"), done)
    BY <2>2
  <2>6. /\ Success(status) => /\ rrsets' = Applied(rrsets, Request(c))
                              /\ call[c].pc = "list" => Complete(c, page)
        /\ ErrNotFound(status) => UNCHANGED rrsets
    <3>1. ErrNotFound(status) => ~Success(status)
      BY DEF ErrNotFound, Success
    <3>2. Success(status) /\ call[c].pc = "list" => page \in Pages(owner, Request(c))
      BY <2>2 DEF PageFor
    <3> QED BY <2>2, <3>1, <3>2 DEF Respond, Complete
  <2> HIDE DEF done
  <2>7. /\ \A d \in Call : RunFate(d)
        /\ \/ UNCHANGED rrsets
           \/ At(c, Writing) /\ rrsets' = Applied(rrsets, Request(c))
    BY <2>3, <2>4, <2>5, <2>6, RespondMoves, Zenon
  <2> QED BY <1>3, <2>4, <2>7
<1>5. ASSUME NEW c \in Call, ServeBadly(c)
      PROVE  Moves
  <2>1. PICK status \in Nat, body \in {"full", "empty", "garbled"}, done \in BOOLEAN :
          /\ Respond(c, Answer(status, {}, body), done) /\ ~ErrNotFound(status)
          /\ Success(status) => /\ status \in Verdicts(Request(c))
                                /\ rrsets' = Applied(rrsets, Request(c))
                                /\ body = "garbled" \/ "empty" \in FaultKinds
    BY <1>5, HonestAnswer
  <2>2. Waiting(c) /\ UNCHANGED <<late, orphaned>> /\ {} \in SUBSET ZoneId
    BY <1>5 DEF ServeBadly, cmVars
  <2>3. /\ \A d \in Call : RunFate(d)
        /\ \/ UNCHANGED rrsets
           \/ At(c, Writing) /\ rrsets' = Applied(rrsets, Request(c))
    <3>1. Success(status) /\ body # "garbled" => Complete(c, {})
      BY <2>1 DEF Complete
    <3> QED BY <2>1, <2>2, <3>1, RespondMoves, Zenon
  <2> QED BY <1>3, <2>2, <2>3
<1>6. ASSUME NEW c \in Call, AcceptAction(c)
      PROVE  Moves
  <2>1. PICK status \in Verdicts(Request(c)) :
          Success(status) /\ Respond(c, Answer(status, {}, "full"), FALSE)
    BY <1>6, Zenon DEF AcceptAction
  <2>2. /\ Waiting(c) /\ call[c].pc = "set" /\ status \in Nat
        /\ late' = late \cup {Request(c)} /\ orphaned' = orphaned \cup {Owner(c)}
    BY <1>6, ServerType DEF AcceptAction
  <2>3. {} \in SUBSET ZoneId /\ Request(c) \in late'
    BY <2>2
  <2>4. (\A d \in Call : RunFate(d)) /\ UNCHANGED rrsets
    <3>1. UNCHANGED rrsets
      BY <2>1 DEF Respond
    <3>2. ~ErrNotFound(status) /\ call[c].pc # "list"
      BY <2>1, <2>2 DEF ErrNotFound, Success
    <3>3. \A d \in Call : RunFate(d)
      BY <2>1, <2>2, <2>3, <3>1, <3>2, RespondMoves, Zenon
    <3> QED BY <3>1, <3>3
  <2>5. At(c, Writing) /\ Active(c)
    BY <2>2 DEF Waiting, At, Writing
  <2>6. OrphanFate /\ LateFate /\ StoreFate
    BY <2>2, <2>4, <2>5 DEF OrphanFate, LateFate, StoreFate
  <2> QED BY <1>1, <1>2, <2>4, <2>6 DEF Moves
<1>7. ASSUME NEW req \in late, ApplyLate(req)
      PROVE  Moves
  <2>1. UNCHANGED <<call, orphaned>> /\ late' \subseteq late
    BY <1>7 DEF ApplyLate, podVars, cmVars
  <2>2. StoreFate
    BY <1>7 DEF StoreFate
  <2> QED BY <1>1, <1>2, <2>1, <2>2, SameRuns DEF Moves, OrphanFate, LateFate
<1> QED BY <1>4, <1>5, <1>6, <1>7 DEF Server

LEMMA OtherMoves ==
  ASSUME TypeOK, Pods \/ Tick \/ Operators \/ UNCHANGED vars
  PROVE  Moves
<1>1. UNCHANGED phase /\ PhaseFate
  BY Zenon DEF Pods, Initialize, Crash, Tick, Operators, DeleteZone, CreateZone, MoveZone,
         RotateSecret, RevokeToken, vars, cmVars, PhaseFate
<1>2. CASE UNCHANGED vars \/ \E r \in Replica : Initialize(r)
  <2>1. UNCHANGED <<call, rrsets, late, revoked, orphaned>>
    BY <1>2 DEF Initialize, vars, podVars, apiVars, cmVars
  <2> QED BY <1>1, <2>1, SameRuns DEF Moves, OrphanFate, LateFate, StoreFate
<1>3. ASSUME NEW r \in Replica, Crash(r)
      PROVE  Moves
  <2> DEFINE lost == {c \in Call : Active(c) /\ call[c].rep = r}
  <2>1. call' = [c \in Call |-> IF c \in lost THEN Idle ELSE call[c]]
    BY <1>3 DEF Crash
  <2>2. Forsake(lost) /\ UNCHANGED <<rrsets, revoked>>
    BY <1>3 DEF Crash
  <2>3. lost \in SUBSET Call
    OBVIOUS
  <2> HIDE DEF lost
  <2>4. \A c \in Call : RunFate(c)
    <3>1. \A c \in Call : call'[c] = Idle \/ call'[c] = call[c]
      BY <2>1
    <3> QED BY <3>1, SameRuns DEF RunFate
  <2>5. OrphanFate /\ LateFate /\ late \subseteq late'
    BY <2>2, <2>3, ForsakeMoves
  <2> QED BY <1>1, <2>2, <2>4, <2>5 DEF Moves, StoreFate
<1>4. CASE Tick
  <2>1. UNCHANGED <<rrsets, late, revoked, orphaned>>
    BY <1>4 DEF Tick, cmVars
  <2>2. ASSUME NEW c \in Call
        PROVE  RunFate(c)
    <3>1. CASE call[c] = Idle
      BY <1>4, <3>1, TickState DEF RunFate
    <3>2. CASE call[c] # Idle
      <4>1. /\ SameRouting(call'[c], call[c]) /\ call'[c].op = call[c].op
            /\ call'[c].attached = call[c].attached /\ call'[c].resp = call[c].resp
        BY <1>4, <3>2, TickState, Zenon
      <4>2. RunsOn(c)
        BY <3>2, <4>1, Zenon DEF RunsOn, SameRouting, StepOK, Told, SaysGone, At, Active
      <4> QED BY <4>2 DEF RunFate
    <3> QED BY <3>1, <3>2
  <2> QED BY <1>1, <2>1, <2>2 DEF Moves, OrphanFate, LateFate, StoreFate
<1>5. CASE Operators
  <2>1. UNCHANGED <<call, late, orphaned>>
    BY <1>5 DEF Operators, DeleteZone, CreateZone, MoveZone, RotateSecret, RevokeToken,
                podVars, apiVars, cmVars
  <2>2. \A c \in Call : RunFate(c)
    BY <2>1, SameRuns
  <2>3. OrphanFate /\ LateFate
    BY <2>1 DEF OrphanFate, LateFate
  <2> QED BY <1>1, <1>5, <2>2, <2>3 DEF Moves
<1> QED BY <1>2, <1>3, <1>4, <1>5 DEF Pods

\* Every step is such a move.
LEMMA StepMoves == ASSUME TypeOK, StepsOK, [Next]_vars PROVE Moves
BY CertManagerMoves, HandlerMoves, ServerMoves, OtherMoves DEF Next

(***************************************************************************)
(* CustodyInv is inductive.                                                *)
(***************************************************************************)
LEMMA CustodyInit == Init => CustodyInv
BY DEF Init, CustodyInv, Turns, Custody, OneAtATime, OrphanStage, StepsOK, LateOwned,
       InProgress, Active

\* The phases run in one direction, and the calls cert-manager waits for are
\* of the phase's op.
LEMMA PhaseOrder ==
  ASSUME TypeOK, CustodyInv, NEW ch \in Challenge, NEW st, PhaseMove(ch, st)
  PROVE  \/ /\ phase[ch] = "new" /\ st = "presenting"
            /\ \A o \in Challenge \ {ch} : SameRecord(o, ch) => ~InProgress(o)
         \/ phase[ch] \in {"presenting", "presented"} /\ st \in {"presented", "cleaning"}
         \/ phase[ch] = "cleaning" /\ st = "cleaned"
<1>1. ASSUME NEW c \in Call, Told(c), call[c].ch = ch
      PROVE  phase[ch] \in {"presenting", "presented"}
  <2>1. Active(c) /\ call[c].attached /\ call[c].op = "Present"
    BY <1>1 DEF Told, At, CustodyInv, StepsOK, StepOK
  <2> QED BY <1>1, <2>1 DEF CustodyInv, Custody, StageOf
<1>2. ASSUME NEW c \in Call, SaysGone(c), call[c].ch = ch
      PROVE  phase[ch] = "cleaning"
  BY <1>2 DEF SaysGone, CustodyInv, Custody, StageOf
<1> QED BY <1>1, <1>2, Zenon DEF PhaseMove

\* A call that cert-manager waits for is not overtaken.
LEMMA StillWaiting ==
  ASSUME TypeOK, CustodyInv, PhaseFate, NEW c \in Call, Active(c), call[c].attached,
         call'[c] # Idle
  PROVE  phase'[call[c].ch] = phase[call[c].ch]
<1> DEFINE ch == call[c].ch
<1>1. ch \in Challenge /\ phase[ch] \in StageOf(call[c].op)
  BY Zenon DEF TypeOK, Active, HandlerOK, CallState, CustodyInv, Custody
<1>2. phase[ch] # "new"
  BY <1>1, Zenon DEF StageOf
<1>3. \A d \in Call : Active(d) /\ call[d].attached /\ call[d].ch = ch => d = c
  BY DEF CustodyInv, OneAtATime
<1>4. ASSUME NEW st PROVE ~PhaseMove(ch, st)
  BY <1>2, <1>3, Zenon DEF PhaseMove, Told, SaysGone, At
<1> HIDE DEF ch
<1>5. phase'[ch] = phase[ch]
  BY <1>1, <1>4, Zenon DEF PhaseFate, TypeOK
<1> QED BY <1>5 DEF ch

LEMMA TurnsStep == ASSUME TypeOK, CustodyInv, PhaseFate PROVE Turns'
<1>1. CASE UNCHANGED phase
  BY <1>1 DEF CustodyInv, Turns, InProgress
<1>2. ASSUME NEW ch \in Challenge, NEW st \in Phases, PhaseMove(ch, st),
             phase' = [phase EXCEPT ![ch] = st]
      PROVE  Turns'
  <2>1. /\ phase'[ch] = st
        /\ \A o \in Challenge : o # ch => phase'[o] = phase[o]
    BY <1>2 DEF TypeOK
  <2>2. \A o \in Challenge : o # ch => (InProgress(o)' <=> InProgress(o))
    BY <2>1 DEF InProgress
  <2>3. \/ InProgress(ch)' => InProgress(ch)
        \/ \A o \in Challenge \ {ch} : SameRecord(o, ch) => ~InProgress(o)
    BY <1>2, <2>1, PhaseOrder DEF InProgress
  <2>4. \A a \in Challenge, b \in Challenge : SameRecord(a, b) => SameRecord(b, a)
    BY DEF SameRecord
  <2> SUFFICES ASSUME NEW a \in Challenge, NEW b \in Challenge, a # b, SameRecord(a, b),
                      InProgress(a)', InProgress(b)'
               PROVE  FALSE
    BY DEF Turns, SameRecord
  <2>5. ~(InProgress(a) /\ InProgress(b))
    BY DEF CustodyInv, Turns
  <2> QED BY <2>2, <2>3, <2>4, <2>5
<1> QED BY <1>1, <1>2 DEF PhaseFate

LEMMA CustodyStep == TypeOK /\ RoutingInv /\ CustodyInv /\ [Next]_vars => CustodyInv'
<1> SUFFICES ASSUME TypeOK, RoutingInv, CustodyInv, [Next]_vars PROVE CustodyInv'
  OBVIOUS
<1>1. PhaseFate /\ (\A c \in Call : RunFate(c)) /\ OrphanFate /\ LateFate
  BY StepMoves DEF Moves, CustodyInv
<1>2. Turns'
  BY <1>1, TurnsStep
<1>3. Custody'
  <2> SUFFICES ASSUME NEW c \in Call, call'[c] # Idle
               PROVE  IF call'[c].attached
                        THEN phase'[call'[c].ch] \in StageOf(call'[c].op)
                        ELSE <<call'[c].ch, call'[c].op>> \in orphaned'
    BY DEF Custody, Active, Owner, StageOf
  <2>1. CASE NewRun(c)
    BY <2>1 DEF NewRun
  <2>2. CASE RunsOn(c)
    <3>1. Active(c) /\ call'[c].ch = call[c].ch /\ call'[c].op = call[c].op
      BY <2>2, Zenon DEF RunsOn, Active
    <3>2. \/ call'[c].attached = call[c].attached
          \/ ~call'[c].attached /\ Owner(c) \in orphaned'
      BY <2>2 DEF RunsOn
    <3>3. CASE call'[c].attached
      <4>1. call[c].attached
        BY <3>2, <3>3, Zenon
      <4>2. phase'[call[c].ch] = phase[call[c].ch]
        BY <1>1, <3>1, <4>1, StillWaiting
      <4>3. phase[call[c].ch] \in StageOf(call[c].op)
        BY <3>1, <4>1 DEF CustodyInv, Custody
      <4> QED BY <3>1, <3>3, <4>2, <4>3
    <3>4. CASE ~call'[c].attached
      <4>1. ~call[c].attached => Owner(c) \in orphaned
        BY <3>1 DEF CustodyInv, Custody
      <4>2. Owner(c) \in orphaned'
        BY <1>1, <3>2, <3>4, <4>1 DEF OrphanFate
      <4> QED BY <3>1, <3>4, <4>2 DEF Owner
    <3> QED BY <3>3, <3>4
  <2> QED BY <1>1, <2>1, <2>2 DEF RunFate
<1>4. OneAtATime'
  <2> SUFFICES ASSUME NEW c \in Call, NEW d \in Call, call'[c] # Idle, call'[d] # Idle,
                      call'[c].attached, call'[d].attached, call'[c].ch = call'[d].ch,
                      c # d
               PROVE  FALSE
    BY DEF OneAtATime, Active
  <2>1. ASSUME NEW b \in Call, RunsOn(b), call'[b].attached
        PROVE  Active(b) /\ call[b].attached /\ call'[b].ch = call[b].ch
    BY <2>1, Zenon DEF RunsOn, Active
  <2>2. ~(RunsOn(c) /\ RunsOn(d))
    BY <2>1 DEF CustodyInv, OneAtATime
  <2>3. ~(NewRun(c) /\ RunsOn(d)) /\ ~(NewRun(d) /\ RunsOn(c))
    BY <2>1 DEF NewRun
  <2>4. ~(NewRun(c) /\ NewRun(d))
    BY DEF NewRun
  <2> QED BY <1>1, <2>2, <2>3, <2>4 DEF RunFate
<1>5. OrphanStage'
  <2> SUFFICES ASSUME NEW ch \in Challenge, <<ch, "CleanUp">> \in orphaned'
               PROVE  phase'[ch] \in {"cleaning", "cleaned"}
    BY DEF OrphanStage
  <2>1. ASSUME NEW c \in Call, Active(c), <<ch, "CleanUp">> = Owner(c)
        PROVE  phase[ch] \in {"cleaning", "cleaned"}
    <3>1. call[c].ch = ch /\ call[c].op = "CleanUp"
      BY <2>1 DEF Owner
    <3>2. CASE call[c].attached
      BY <2>1, <3>1, <3>2 DEF CustodyInv, Custody, StageOf
    <3>3. CASE ~call[c].attached
      BY <2>1, <3>3 DEF CustodyInv, Custody, OrphanStage
    <3> QED BY <3>2, <3>3
  <2>2. phase[ch] \in {"cleaning", "cleaned"}
    BY <1>1, <2>1 DEF OrphanFate, CustodyInv, OrphanStage
  <2>3. ASSUME NEW st, PhaseMove(ch, st) PROVE st \in {"cleaning", "cleaned"}
    BY <2>2, <2>3, PhaseOrder
  <2> QED BY <1>1, <2>2, <2>3 DEF PhaseFate, TypeOK
<1>6. StepsOK'
  <2> SUFFICES ASSUME NEW c \in Call, call'[c] # Idle PROVE StepOK(call'[c])
    BY DEF StepsOK, Active, StepOK
  <2>1. CASE NewRun(c)
    BY <2>1 DEF NewRun, StepOK
  <2>2. CASE RunsOn(c)
    BY <2>2, Zenon DEF RunsOn, CustodyInv, StepsOK, Active
  <2> QED BY <1>1, <2>1, <2>2 DEF RunFate
<1>7. LateOwned'
  <2> SUFFICES ASSUME NEW req \in late'
               PROVE  \E p \in orphaned' : p[1] \in Routed /\ WriteOf(req, p[1], p[2])
    BY DEF LateOwned, WriteOf, For
  <2>1. CASE req \in late
    BY <1>1, <2>1 DEF CustodyInv, LateOwned, OrphanFate
  <2>2. ASSUME NEW c \in Call, At(c, Writing), req = Request(c), Owner(c) \in orphaned'
        PROVE  \E p \in orphaned' : p[1] \in Routed /\ WriteOf(req, p[1], p[2])
    <3>1. Owner(c)[1] = call[c].ch /\ Owner(c)[2] = call[c].op
      BY DEF Owner
    <3>2. call[c].ch \in Routed
      BY <2>2, KeyType DEF At, Writing
    <3>3. WriteOf(req, call[c].ch, call[c].op)
      <4>1. /\ req.zone = call[c].zid /\ req.name = Route[call[c].ch].record
            /\ req.value = QuoteTXT(call[c].ch.key) /\ req.op = call[c].pc
        BY <2>2 DEF Request
      <4>2. ZoneName[call[c].zid] = Route[call[c].ch].apex
        BY <2>2 DEF RoutingInv, CallsByName, At, Active
      <4>3. /\ call[c].pc = "delete" => call[c].op = "CleanUp"
            /\ call[c].pc \in {"create", "set"} => call[c].op = "Present"
        BY <2>2 DEF CustodyInv, StepsOK, StepOK, At
      <4>4. call[c].pc \in {"create", "set"} \/ call[c].pc = "delete"
        BY <2>2 DEF At, Writing
      <4> QED BY <4>1, <4>2, <4>3, <4>4 DEF WriteOf, For
    <3> QED BY <2>2, <3>1, <3>2, <3>3
  <2> QED BY <1>1, <2>1, <2>2 DEF LateFate
<1> QED BY <1>2, <1>3, <1>4, <1>5, <1>6, <1>7 DEF CustodyInv

(***************************************************************************)
(* The record stays once it is there.                                      *)
(***************************************************************************)

\* A request that is under way for the record of a challenge in Present's
\* hands is that challenge's own write, unless the record is disturbed.
LEMMA Harmless ==
  ASSUME TypeOK, RoutingInv, CustodyInv, NEW ch \in Routed, ~Disturbed(ch),
         phase[ch] \in {"presenting", "presented"}, NEW req \in Sent, For(req, ch)
  PROVE  req.op \in {"create", "set"} /\ req.value = QuoteTXT(ch.key)
<1>1. ch \in Challenge /\ <<ch, "CleanUp">> \notin orphaned
  BY DEF Routed, CustodyInv, OrphanStage
<1>2. ASSUME NEW o \in Routed, For(req, o)
      PROVE  SameRecord(o, ch)
  BY <1>2 DEF For, SameRecord, Target
<1>3. CASE req \in late
  <2>1. PICK p \in orphaned : p[1] \in Routed /\ WriteOf(req, p[1], p[2])
    BY <1>3 DEF CustodyInv, LateOwned
  <2>2. p[1] = ch
    BY <1>2, <2>1 DEF WriteOf, Disturbed
  <2>3. p = <<p[1], p[2]>>
    BY DEF TypeOK
  <2>4. p[2] # "CleanUp"
    BY <1>1, <2>2, <2>3
  <2> QED BY <2>1, <2>2, <2>4 DEF WriteOf
<1>4. ASSUME NEW c \in Call, At(c, Writing), req = Request(c)
      PROVE  req.op \in {"create", "set"} /\ req.value = QuoteTXT(ch.key)
  <2>1. /\ req.zone = call[c].zid /\ req.name = Route[call[c].ch].record
        /\ req.value = QuoteTXT(call[c].ch.key) /\ req.op = call[c].pc
    BY <1>4 DEF Request
  <2>2. call[c].ch \in Routed /\ Active(c)
    BY <1>4, KeyType DEF At, Writing
  <2>3. For(req, call[c].ch)
    BY <1>4, <2>1, Zenon DEF RoutingInv, CallsByName, At, Active, For
  <2>4. SameRecord(call[c].ch, ch)
    BY <1>2, <2>2, <2>3, Zenon
  <2>5. \/ call[c].attached /\ phase[call[c].ch] \in StageOf(call[c].op)
        \/ Owner(c) \in orphaned
    BY <2>2 DEF CustodyInv, Custody
  <2>6. Owner(c)[1] = call[c].ch /\ Owner(c) = <<call[c].ch, call[c].op>>
    BY DEF Owner
  <2>7. call[c].ch = ch
    <3> SUFFICES ASSUME call[c].ch # ch PROVE FALSE
      OBVIOUS
    <3>1. Owner(c) \notin orphaned
      BY <2>4, <2>6 DEF Disturbed
    <3>2. InProgress(call[c].ch) /\ InProgress(ch)
      BY <2>5, <3>1 DEF StageOf, InProgress
    <3>3. call[c].ch \in Challenge
      BY <2>2 DEF Routed
    <3> QED BY <1>1, <2>4, <3>2, <3>3 DEF CustodyInv, Turns
  <2>8. call[c].op # "CleanUp"
    BY <1>1, <2>5, <2>6, <2>7 DEF StageOf
  <2>9. call[c].pc \in {"create", "set"}
    BY <1>4, <2>2, <2>8 DEF At, Writing, CustodyInv, StepsOK, StepOK
  <2> QED BY <2>1, <2>7, <2>9
<1> QED BY <1>3, <1>4 DEF Sent

\* Whatever such a write does, the challenge's record has its key afterwards.
LEMMA Overwritten ==
  ASSUME TypeOK, RoutingInv, CustodyInv, NEW ch \in Routed, ~Disturbed(ch),
         phase[ch] \in {"presenting", "presented"}, NEW req \in Sent,
         rrsets' = Applied(rrsets, req), UNCHANGED <<owner, secret>>
  PROVE  /\ Published(ch) => Published(ch)'
         /\ \A q \in late : For(q, ch) /\ RRSetsAt(rrsets, q) # {}
                              => RRSetsAt(rrsets', q) # {}
<1> DEFINE new == [zone |-> req.zone, name |-> req.name, value |-> req.value]
<1>1. For(req, ch) => new \in rrsets' /\ req.value = QuoteTXT(ch.key)
  BY Harmless DEF Applied
<1>2. new.zone = req.zone /\ new.name = req.name /\ new.value = req.value
  OBVIOUS
<1> HIDE DEF new
<1>3. ASSUME NEW r \in rrsets, r.zone # req.zone \/ r.name # req.name
      PROVE  r \in rrsets'
  BY <1>3 DEF Applied, RRSetsAt
<1>4. ASSUME NEW r \in rrsets, Served(ch, r), owner[r.zone] = Home(ch)
      PROVE  \E q \in rrsets' : Served(ch, q) /\ owner[q.zone] = Home(ch)
  <2>1. CASE r.zone = req.zone /\ r.name = req.name
    <3>1. For(req, ch)
      BY <1>4, <2>1 DEF For, Served
    <3>2. Served(ch, new) /\ owner[new.zone] = Home(ch)
      BY <1>1, <1>2, <1>4, <2>1, <3>1, Zenon DEF Served
    <3> QED BY <1>1, <3>1, <3>2
  <2>2. CASE ~(r.zone = req.zone /\ r.name = req.name)
    BY <1>3, <1>4, <2>2
  <2> QED BY <2>1, <2>2
<1>5. ASSUME NEW q \in late, For(q, ch), NEW r \in RRSetsAt(rrsets, q)
      PROVE  RRSetsAt(rrsets', q) # {}
  <2>1. r \in rrsets /\ r.zone = q.zone /\ r.name = q.name
    BY DEF RRSetsAt
  <2>2. CASE r.zone = req.zone /\ r.name = req.name
    <3>1. For(req, ch)
      BY <1>5, <2>1, <2>2 DEF For
    <3> QED BY <1>1, <1>2, <2>1, <2>2, <3>1 DEF RRSetsAt
  <2>3. CASE ~(r.zone = req.zone /\ r.name = req.name)
    BY <1>3, <2>1, <2>3 DEF RRSetsAt
  <2> QED BY <2>2, <2>3, Zenon
<1> QED BY <1>4, <1>5, Zenon DEF Published, Home, Served

\* A running Action publishes its record when it is carried out.
LEMMA Arrives ==
  ASSUME TypeOK, LateFunded, NEW ch \in Routed, NEW req \in late, ApplyLate(req),
         req.op = "set", For(req, ch), req.value = QuoteTXT(ch.key),
         owner[req.zone] = Home(ch), RRSetsAt(rrsets, req) # {}, UNCHANGED <<owner, secret>>
  PROVE  Published(ch)'
<1> DEFINE new == [zone |-> req.zone, name |-> req.name, value |-> req.value]
<1>1. req.tok \in Token /\ req.zone \in ZoneId
  BY DEF TypeOK
<1>2. /\ req.tok \notin revoked /\ owner[req.zone] \in Project
      /\ owner[req.zone] = ProjectOf[req.tok]
  BY <1>1, TokenAssumption, Zenon DEF LateFunded
<1>3. 200 \in Verdicts(req) /\ Success(200)
  BY <1>2 DEF Verdicts, Statuses, Success
<1>4. rrsets' = Applied(rrsets, req)
  BY <1>3 DEF ApplyLate
<1>5. new \in rrsets'
  BY <1>4 DEF Applied
<1>6. Served(ch, new) /\ owner[new.zone] = Home(ch)
  BY Zenon DEF Served, For
<1> HIDE DEF new
<1> QED BY <1>5, <1>6, Zenon DEF Published, Served, Home

\* A record that is there, or on its way, stays so as long as Present has the
\* challenge in hand.
LEMMA GoodStays ==
  ASSUME TypeOK, RoutingInv, CustodyInv, LateFunded, StoreFate, OrphanFate,
         UNCHANGED <<owner, secret>>, NEW ch \in Routed,
         phase[ch] \in {"presenting", "presented"}, Good(ch)
  PROVE  Good(ch)'
<1>1. Disturbed(ch) => Disturbed(ch)'
  BY Zenon DEF Disturbed, OrphanFate, SameRecord
<1> SUFFICES ASSUME ~Disturbed(ch), Published(ch) \/ Coming(ch)
             PROVE  Published(ch)' \/ Coming(ch)'
  BY <1>1 DEF Good
<1>2. ASSUME NEW q \in late', q \in late, q.op = "set", For(q, ch),
             q.value = QuoteTXT(ch.key), owner[q.zone] = Home(ch),
             RRSetsAt(rrsets', q) # {}
      PROVE  Coming(ch)'
  BY <1>2 DEF Coming, For, Home
<1>3. CASE UNCHANGED rrsets /\ late \subseteq late'
  <2>1. Published(ch) => Published(ch)'
    BY <1>3, Zenon DEF Published, Home, Served
  <2>2. Coming(ch) => Coming(ch)'
    BY <1>2, <1>3, Zenon DEF Coming
  <2> QED BY <2>1, <2>2
<1>4. ASSUME NEW c \in Call, At(c, Writing), rrsets' = Applied(rrsets, Request(c)),
             UNCHANGED late
      PROVE  Published(ch)' \/ Coming(ch)'
  <2>1. Request(c) \in Sent
    BY <1>4 DEF Sent
  <2>2. /\ Published(ch) => Published(ch)'
        /\ \A q \in late : For(q, ch) /\ RRSetsAt(rrsets, q) # {}
                             => RRSetsAt(rrsets', q) # {}
    BY <1>4, <2>1, Overwritten
  <2>3. Coming(ch) => Coming(ch)'
    BY <1>2, <1>4, <2>2, Zenon DEF Coming
  <2> QED BY <2>2, <2>3
<1>5. ASSUME NEW req \in late, ApplyLate(req)
      PROVE  Published(ch)' \/ Coming(ch)'
  <2>1. late' = late \ {req} /\ (UNCHANGED rrsets \/ rrsets' = Applied(rrsets, req))
    BY <1>5 DEF ApplyLate
  <2>2. /\ Published(ch) => Published(ch)'
        /\ \A q \in late : For(q, ch) /\ RRSetsAt(rrsets, q) # {}
                             => RRSetsAt(rrsets', q) # {}
    <3>1. CASE UNCHANGED rrsets
      BY <3>1, Zenon DEF Published, Home, Served
    <3>2. CASE rrsets' = Applied(rrsets, req)
      <4>1. req \in Sent
        BY DEF Sent
      <4> QED BY <3>2, <4>1, Overwritten
    <3> QED BY <2>1, <3>1, <3>2
  <2>3. ASSUME NEW q \in late, q.op = "set", For(q, ch), q.value = QuoteTXT(ch.key),
               owner[q.zone] = Home(ch), RRSetsAt(rrsets, q) # {}
        PROVE  Published(ch)' \/ Coming(ch)'
    <3>1. CASE q = req
      BY <1>5, <2>3, <3>1, Arrives, Zenon
    <3>2. CASE q # req
      BY <1>2, <2>1, <2>2, <2>3, <3>2, Zenon
    <3> QED BY <3>1, <3>2
  <2> QED BY <2>2, <2>3, Zenon DEF Coming
<1> QED BY <1>3, <1>4, <1>5 DEF StoreFate

\* A write that the server has just answered with success is there, or on its
\* way.
LEMMA AnsweredGood ==
  ASSUME TypeOK, RoutingInv, CallsOwned, UNCHANGED <<owner, secret>>,
         NEW c \in Call, Answered(c), NEW ch, ch = call[c].ch
  PROVE  Good(ch)'
<1> DEFINE req == Request(c)
           new == [zone |-> req.zone, name |-> req.name, value |-> req.value]
<1>1. Active(c) /\ call[c].pc \in {"create", "set"}
  BY Zenon DEF Answered, At
<1>2. /\ req.zone = call[c].zid /\ req.name = Route[ch].record
      /\ req.value = QuoteTXT(ch.key) /\ req.op = call[c].pc /\ req.tok = call[c].tok
  BY Zenon DEF Request
<1>3. For(req, ch) /\ owner[req.zone] = Home(ch)
  <2>1. ZoneName[call[c].zid] = Route[ch].apex
    BY <1>1 DEF RoutingInv, CallsByName, Active, Writing
  <2>2. call[c].tok = secret[Route[ch].secret] /\ owner[call[c].zid] = ProjectOf[call[c].tok]
    BY <1>1 DEF CallsOwned, Active, Writing
  <2> QED BY <1>2, <2>1, <2>2 DEF For, Home
<1>4. CASE rrsets' = Applied(rrsets, req)
  <2>1. new \in rrsets'
    BY <1>1, <1>2, <1>4 DEF Applied
  <2>2. Served(ch, new) /\ owner[new.zone] = Home(ch)
    BY <1>2, <1>3, Zenon DEF Served, For
  <2> HIDE DEF new, req
  <2>3. Published(ch)'
    BY <2>1, <2>2, Zenon DEF Published, Served, Home
  <2> QED BY <2>3 DEF Good
<1>5. CASE call[c].pc = "set" /\ req \in late' /\ UNCHANGED rrsets
  <2>1. PICK status \in Verdicts(req) : Success(status)
    BY Zenon DEF Answered
  <2>2. RRSetsAt(rrsets, req) # {}
    <3> SUFFICES ASSUME RRSetsAt(rrsets, req) = {} PROVE FALSE
      OBVIOUS
    <3>1. req.op = "set"
      BY <1>2, <1>5
    <3> HIDE DEF req
    <3>2. status \in {401, 403, 404}
      BY <2>1, <3>1 DEF Verdicts, Statuses
    <3> QED BY <2>1, <3>2 DEF Success
  <2>3. req.op = "set"
    BY <1>2, <1>5
  <2> HIDE DEF req, new
  <2>4. Coming(ch)'
    BY <1>2, <1>3, <1>5, <2>2, <2>3, Zenon DEF Coming, For, Home
  <2> QED BY <2>4 DEF Good
<1> QED BY <1>4, <1>5, Zenon DEF Answered

LEMMA KeptInit == Init => KeptInv
BY DEF Init, KeptInv, LateFunded, Kept, Told, At, Active

LEMMA KeptStep ==
  TypeOK /\ RoutingInv /\ ProjectInv /\ CustodyInv /\ KeptInv /\ [Next]_vars => KeptInv'
<1> SUFFICES ASSUME TypeOK, RoutingInv, ProjectInv, CustodyInv, KeptInv, [Next]_vars,
                    churn' = 0
             PROVE  LateFunded' /\ Kept'
  BY DEF KeptInv
<1>1. churn = 0 /\ UNCHANGED <<owner, secret>> /\ ~Operators
  BY NoChurn
<1>2. LateFunded /\ Kept /\ CallsOwned
  BY <1>1 DEF KeptInv, ProjectInv
<1>3. /\ PhaseFate /\ (\A c \in Call : RunFate(c)) /\ OrphanFate /\ LateFate
      /\ StoreFate /\ UNCHANGED revoked
  BY <1>1, StepMoves DEF Moves, CustodyInv
<1>4. LateFunded'
  <2>1. ASSUME NEW c \in Call, At(c, Writing)
        PROVE  owner[Request(c).zone] = ProjectOf[Request(c).tok]
    <3>1. owner[call[c].zid] = ProjectOf[call[c].tok]
      BY <1>2, <2>1 DEF CallsOwned, At, Active, Writing
    <3> QED BY <3>1 DEF Request
  <2>2. \A req \in late' : owner[req.zone] = ProjectOf[req.tok]
    BY <1>2, <1>3, <2>1 DEF LateFate, LateFunded
  <2> QED BY <1>1, <1>2, <1>3, <2>2 DEF LateFunded
<1>5. ASSUME NEW ch \in Routed, phase[ch] \in {"presenting", "presented"}, Good(ch)
      PROVE  Good(ch)'
  BY <1>1, <1>2, <1>3, <1>5, GoodStays
<1>6. ASSUME NEW c \in Call, Told(c)
      PROVE  /\ call[c].ch \in Routed /\ phase[call[c].ch] \in {"presenting", "presented"}
             /\ Good(call[c].ch)
  <2>1. Active(c) /\ call[c].pc # "prepare" /\ call[c].attached /\ call[c].op = "Present"
    BY <1>6 DEF Told, At, CustodyInv, StepsOK, StepOK
  <2>2. call[c].ch \in Routed
    BY <2>1, KeyType
  <2>3. phase[call[c].ch] \in {"presenting", "presented"}
    BY <2>1 DEF CustodyInv, Custody, StageOf
  <2> QED BY <1>2, <1>6, <2>2, <2>3 DEF Kept
<1>7. ASSUME NEW ch \in Challenge, phase'[ch] = "presented"
      PROVE  ch \in Routed /\ Good(ch)'
  <2>1. CASE phase[ch] = "presented"
    BY <1>2, <1>5, <2>1 DEF Kept
  <2>2. CASE phase[ch] # "presented"
    <3>1. PhaseMove(ch, "presented")
      BY <1>3, <1>7, <2>2, Zenon DEF PhaseFate, TypeOK
    <3>2. PICK c \in Call : Told(c) /\ call[c].ch = ch
      BY <3>1 DEF PhaseMove
    <3> QED BY <1>5, <1>6, <3>2
  <2> QED BY <2>1, <2>2
<1>8. ASSUME NEW c \in Call, Told(c)'
      PROVE  Good(call[c].ch)'
  <2>1. RunsOn(c)
    BY <1>3, <1>8 DEF RunFate, NewRun, Told, At, Active
  <2>2. (Told(c) \/ Answered(c)) /\ call'[c].ch = call[c].ch
    BY <1>8, <2>1, Zenon DEF RunsOn
  <2>3. PICK ch : ch = call[c].ch
    OBVIOUS
  <2>4. Good(ch)'
    <3>1. CASE Told(c)
      BY <1>5, <1>6, <2>3, <3>1
    <3>2. CASE Answered(c)
      BY <1>1, <1>2, <2>3, <3>2, AnsweredGood
    <3> QED BY <2>2, <3>1, <3>2
  <2> QED BY <2>2, <2>3, <2>4
<1>9. Kept'
  BY <1>7, <1>8 DEF Kept
<1> QED BY <1>4, <1>9

LEMMA PromiseSafe == TypeOK /\ KeptInv => PresentedMeansServed
<1> SUFFICES ASSUME TypeOK, KeptInv, NEW ch \in Challenge, phase[ch] = "presented",
                    \A p \in orphaned : SameRecord(p[1], ch) => p[1] = ch,
                    \A req \in late : req.value # QuoteTXT(ch.key), churn = 0
             PROVE  \E r \in rrsets :
                      Served(ch, r) /\ owner[r.zone] = ProjectOf[secret[Route[ch].secret]]
  BY DEF PresentedMeansServed
<1>1. Good(ch)
  BY Zenon DEF KeptInv, Kept
<1>2. ~Disturbed(ch) /\ ~Coming(ch)
  BY Zenon DEF Disturbed, Coming
<1> QED BY <1>1, <1>2, Zenon DEF Good, Published, Home

\* Present's promise, for any number of pods, handlers, challenges and zones and
\* any number and kind of faults: what cert-manager has seen presented is
\* published, unless another challenge's write for the name was left to
\* itself or the challenge's own set_records Action is still running.
THEOREM PresentKeepsPromise == Spec => []PresentedMeansServed
BY TypeInit, TypeStep, RoutingInit, RoutingStep, ProjectInit, ProjectStep, CustodyInit,
   CustodyStep, KeptInit, KeptStep, PromiseSafe, PTL DEF Spec

(***************************************************************************)
(* CleanUp's promise.                                                      *)
(***************************************************************************)

\* What this and the refinement rest on.  Listings arrive whole or not at all, and one
\* page holds all zones of a project (SolverCutListing shows what happens
\* otherwise); challenges for one name have different keys, as ACME's are
\* random; a project has one zone of a name, as at Hetzner.
Ordinary ==
  /\ "empty" \notin FaultKinds
  /\ \A p \in Project : Cardinality({z \in ZoneId : OwnerAtStart[z] = p}) <= PageSize
  /\ \A a \in Routed : \A b \in Routed : SameRecord(a, b) /\ a.key = b.key => a = b
  /\ \A y \in ZoneId : \A z \in ZoneId :
       /\ OwnerAtStart[y] = OwnerAtStart[z] /\ OwnerAtStart[z] \in Project
       /\ ZoneName[y] = ZoneName[z]
       => y = z

\* Only the challenge's own Present writes its key, and only in its project.
Writes(req, ch) ==
  /\ req.op \in {"create", "set"} /\ For(req, ch) /\ req.value = QuoteTXT(ch.key)

AtHome ==
  /\ \A ch \in Routed : \A r \in rrsets : Served(ch, r) => owner[r.zone] = Home(ch)
  /\ \A ch \in Routed : \A req \in late : Writes(req, ch) => owner[req.zone] = Home(ch)

\* Nothing is left of the challenge but what its own stray Present may write.
Settled(ch) == <<ch, "Present">> \in orphaned \/ \A r \in rrsets : ~Served(ch, r)

CleanedUp ==
  /\ \A ch \in Challenge : phase[ch] = "cleaned" => ch \in Routed /\ Settled(ch)
  /\ \A c \in Call : SaysGone(c) => Settled(call[c].ch)

GoneInv == churn = 0 => owner = OwnerAtStart /\ AtHome /\ CleanedUp

----------------------------------------------------------------------------
\* A quoted TXT value tells its key, so one request writes the key of one
\* challenge.
LEMMA OneWriter ==
  ASSUME Ordinary, NEW a \in Routed, NEW b \in Routed, NEW req, For(req, a), For(req, b),
         req.value = QuoteTXT(a.key), req.value = QuoteTXT(b.key)
  PROVE  a = b
<1>1. SameRecord(a, b)
  BY DEF For, SameRecord, Target
<1>2. [quoted |-> a.key].quoted = [quoted |-> b.key].quoted
  BY DEF QuoteTXT
<1>3. a.key = b.key
  BY <1>2
<1> QED BY <1>1, <1>3 DEF Ordinary

\* A handler's write goes to its challenge's record and carries its key.
LEMMA OwnRequest ==
  ASSUME TypeOK, RoutingInv, NEW c \in Call, At(c, Writing)
  PROVE  /\ call[c].ch \in Routed /\ call[c].zid \in ZoneId
         /\ Request(c).op = call[c].pc /\ Request(c).zone = call[c].zid
         /\ Request(c).value = QuoteTXT(call[c].ch.key) /\ For(Request(c), call[c].ch)
<1>1. call[c].ch \in Routed /\ Active(c)
  BY KeyType DEF At, Writing
<1>2. call[c].zid \in ZoneId
  BY DEF TypeOK, HandlerOK, At, Writing
<1>3. ZoneName[call[c].zid] = Route[call[c].ch].apex
  BY DEF RoutingInv, CallsByName, At, Active
<1> QED BY <1>1, <1>2, <1>3, Zenon DEF Request, For

\* A request under way that writes the key of a challenge is a request of the
\* challenge: Present is running, or was left to itself.
LEMMA OwnWrite ==
  ASSUME Ordinary, TypeOK, RoutingInv, CustodyInv, NEW ch \in Routed, NEW req \in Sent,
         Writes(req, ch)
  PROVE  phase[ch] \in {"presenting", "presented"} \/ <<ch, "Present">> \in orphaned
<1>1. \A o \in Routed : For(req, o) /\ req.value = QuoteTXT(o.key) => o = ch
  BY OneWriter, Zenon DEF Writes
<1>2. CASE req \in late
  <2>1. PICK p \in orphaned : p[1] \in Routed /\ WriteOf(req, p[1], p[2])
    BY <1>2 DEF CustodyInv, LateOwned
  <2>2. p[1] = ch /\ p[2] = "Present"
    BY <1>1, <2>1 DEF WriteOf, Writes
  <2>3. p = <<p[1], p[2]>>
    BY DEF TypeOK
  <2> QED BY <2>2, <2>3
<1>3. ASSUME NEW c \in Call, At(c, Writing), req = Request(c)
      PROVE  phase[ch] \in {"presenting", "presented"} \/ <<ch, "Present">> \in orphaned
  <2>1. call[c].ch = ch /\ call[c].pc \in {"create", "set"}
    BY <1>1, <1>3, OwnRequest, Zenon DEF Writes
  <2>2. Active(c) /\ call[c].op = "Present"
    BY <1>3, <2>1 DEF At, CustodyInv, StepsOK, StepOK
  <2> QED BY <2>1, <2>2, Zenon DEF CustodyInv, Custody, StageOf, Owner
<1> QED BY <1>2, <1>3 DEF Sent

\* The RRSets after a step: nothing but what a request under way writes is new.
LEMMA NewRRSets ==
  ASSUME StoreFate
  PROVE  \A r \in rrsets' :
           \/ r \in rrsets
           \/ \E req \in Sent : /\ req.op \in {"create", "set"} /\ r.zone = req.zone
                                /\ r.name = req.name /\ r.value = req.value
<1>1. ASSUME NEW req \in Sent, rrsets' = Applied(rrsets, req), NEW r \in rrsets',
             r \notin rrsets
      PROVE  /\ req.op \in {"create", "set"} /\ r.zone = req.zone
             /\ r.name = req.name /\ r.value = req.value
  BY <1>1 DEF Applied
<1>2. \/ UNCHANGED rrsets \/ \E req \in Sent : rrsets' = Applied(rrsets, req)
  BY DEF StoreFate, Sent, ApplyLate
<1> QED BY <1>1, <1>2

\* Keys stay in the project of their challenge's credential.
LEMMA AtHomeStep ==
  ASSUME Ordinary, TypeOK, RoutingInv, CallsOwned, AtHome, StoreFate, LateFate,
         UNCHANGED <<owner, secret>>
  PROVE  AtHome'
<1>1. ASSUME NEW ch \in Routed, NEW c \in Call, At(c, Writing), Writes(Request(c), ch)
      PROVE  owner[Request(c).zone] = Home(ch)
  <2>1. call[c].ch = ch
    BY <1>1, OwnRequest, OneWriter, Zenon DEF Writes
  <2>2. owner[call[c].zid] = ProjectOf[secret[Route[call[c].ch].secret]]
    BY <1>1, Zenon DEF CallsOwned, At, Active, Writing
  <2> QED BY <1>1, <2>1, <2>2, OwnRequest, Zenon DEF Home
<1>2. ASSUME NEW ch \in Routed, NEW req \in Sent, Writes(req, ch)
      PROVE  owner[req.zone] = Home(ch)
  BY <1>1, <1>2 DEF Sent, AtHome
<1>3. ASSUME NEW ch \in Routed, NEW r \in rrsets', Served(ch, r)
      PROVE  owner[r.zone] = Home(ch)
  <2>1. CASE r \in rrsets
    BY <1>3, <2>1 DEF AtHome
  <2>2. ASSUME NEW req \in Sent, req.op \in {"create", "set"}, r.zone = req.zone,
               r.name = req.name, r.value = req.value
        PROVE  owner[r.zone] = Home(ch)
    <3>1. Writes(req, ch)
      BY <1>3, <2>2 DEF Writes, For, Served
    <3> QED BY <1>2, <2>2, <3>1
  <2> QED BY <2>1, <2>2, NewRRSets
<1>4. late' \subseteq Sent
  BY DEF LateFate, Sent
<1>5. \A ch \in Routed : Home(ch)' = Home(ch)
  BY DEF Home
<1> QED BY <1>2, <1>3, <1>4, <1>5, Zenon DEF AtHome, Served, Writes, For

\* Once nothing is left of a challenge that Present has finished with, nothing
\* of it comes back.
LEMMA SettledStays ==
  ASSUME Ordinary, TypeOK, RoutingInv, CustodyInv, StoreFate, OrphanFate, NEW ch \in Routed,
         phase[ch] \notin {"presenting", "presented"}, Settled(ch)
  PROVE  Settled(ch)'
<1>1. <<ch, "Present">> \in orphaned => <<ch, "Present">> \in orphaned'
  BY DEF OrphanFate
<1> SUFFICES ASSUME <<ch, "Present">> \notin orphaned, NEW r \in rrsets', Served(ch, r)
             PROVE  FALSE
  BY <1>1, Zenon DEF Settled, Served
<1>2. r \notin rrsets
  BY DEF Settled
<1>3. PICK req \in Sent : /\ req.op \in {"create", "set"} /\ r.zone = req.zone
                          /\ r.name = req.name /\ r.value = req.value
  BY <1>2, NewRRSets, Zenon
<1>4. Writes(req, ch)
  BY <1>3, Zenon DEF Writes, For, Served
<1> QED BY <1>3, <1>4, OwnWrite

\* When the server has deleted the RRSet, has none, or has no zone of the name,
\* the challenge's key is nowhere.
LEMMA VanishedIsGone ==
  ASSUME Ordinary, TypeOK, RoutingInv, CallsOwned, owner = OwnerAtStart, revoked = {},
         AtHome, NEW c \in Call, Vanished(c), NEW ch, ch = call[c].ch
  PROVE  ch \in Routed /\ \A r \in rrsets' : ~Served(ch, r)
<1> DEFINE tok == call[c].tok
           zid == call[c].zid
<1>1. Active(c) /\ call[c].pc \in {"delete", "list"}
  BY Zenon DEF Vanished, At
<1>2. ch \in Routed /\ tok \in Token
  BY <1>1, KeyType
<1>3. ProjectOf[tok] = Home(ch) /\ ProjectOf[tok] \in Project
  BY <1>1, <1>2, TokenAssumption, Zenon DEF CallsOwned, Home, Active
<1>4. \A r \in rrsets : Served(ch, r) => r.zone \in ZoneId /\ owner[r.zone] = ProjectOf[tok]
  BY <1>2, <1>3, Zenon DEF AtHome, TypeOK
<1>5. CASE call[c].pc = "delete"
  <2>1. /\ Request(c).zone = zid /\ Request(c).op = "delete" /\ Request(c).tok = tok
        /\ Request(c).name = Route[ch].record
    BY <1>5, Zenon DEF Request
  <2>2. zid \in ZoneId /\ ZoneName[zid] = Route[ch].apex /\ owner[zid] = ProjectOf[tok]
    BY <1>1, <1>5, OwnRequest, Zenon
    DEF At, Writing, For, CallsOwned, Active, RoutingInv, CallsByName
  <2>3. ASSUME NEW r \in rrsets, Served(ch, r)
        PROVE  r \in RRSetsAt(rrsets, Request(c))
    <3>1. ZoneName[r.zone] = ZoneName[zid] /\ r.name = Route[ch].record
      BY <2>2, <2>3 DEF Served
    <3>2. r.zone = zid
      BY <1>3, <1>4, <2>2, <2>3, <3>1, Zenon DEF Ordinary
    <3> QED BY <2>1, <3>1, <3>2, Zenon DEF RRSetsAt
  <2>4. CASE rrsets' = Applied(rrsets, Request(c))
    <3>1. rrsets' = rrsets \ RRSetsAt(rrsets, Request(c))
      BY <2>1, <2>4 DEF Applied
    <3> QED BY <1>2, <2>3, <3>1
  <2>5. CASE UNCHANGED rrsets /\ \E status \in Verdicts(Request(c)) : ErrNotFound(status)
    <3>1. RRSetsAt(rrsets, Request(c)) = {}
      <4> SUFFICES ASSUME RRSetsAt(rrsets, Request(c)) # {} PROVE FALSE
        OBVIOUS
      <4>1. Verdicts(Request(c)) = {200}
        BY <1>3, <2>1, <2>2 DEF Verdicts, Statuses
      <4> QED BY <2>5, <4>1 DEF ErrNotFound
    <3> QED BY <1>2, <2>3, <2>5, <3>1
  <2> QED BY <1>5, <2>4, <2>5, Zenon DEF Vanished, At
<1>6. CASE call[c].pc = "list"
  <2> DEFINE zones == call'[c].resp.zones
             visible == {z \in ZoneId : owner[z] = ProjectOf[tok]}
  <2>1. /\ UNCHANGED rrsets /\ Complete(c, zones)
        /\ \A z \in zones : ZoneName[z] # Route[ch].apex
    BY <1>6, Zenon DEF Vanished, At
  <2>2. Request(c).tok = tok
    BY DEF Request
  <2>3. zones \in Pages(owner, Request(c))
    BY <2>1, Zenon DEF Complete, Ordinary
  <2>4. Cardinality(visible) <= PageSize
    BY <1>3, Zenon DEF Ordinary
  <2>5. zones = visible
    BY <2>2, <2>3, <2>4 DEF Pages
  <2> HIDE DEF zones
  <2> QED BY <1>2, <1>4, <2>1, <2>5, Zenon DEF Served
<1> QED BY <1>1, <1>5, <1>6

LEMMA GoneInit == Init => GoneInv
<1> SUFFICES ASSUME Init PROVE GoneInv
  OBVIOUS
<1>1. \A ch \in Routed : \A r \in rrsets : ~Served(ch, r)
  <2>1. \A r \in rrsets : r.value = Foreign
    BY LeftOverForeign, Zenon DEF Init
  <2> QED BY <2>1, SolverAssumption DEF Served
<1>2. AtHome
  BY <1>1 DEF AtHome, Init
<1>3. CleanedUp
  BY Zenon DEF CleanedUp, Init, SaysGone, Active
<1> QED BY <1>2, <1>3 DEF GoneInv, Init

LEMMA GoneStep ==
  ASSUME Ordinary, TypeOK, RoutingInv, ProjectInv, CustodyInv, KeptInv, GoneInv, [Next]_vars
  PROVE  GoneInv'
<1> SUFFICES ASSUME churn' = 0
             PROVE  (owner = OwnerAtStart)' /\ AtHome' /\ CleanedUp'
  BY DEF GoneInv
<1>1. churn = 0 /\ UNCHANGED <<owner, secret>> /\ ~Operators
  BY NoChurn
<1>2. CallsOwned /\ revoked = {} /\ owner = OwnerAtStart /\ AtHome /\ CleanedUp
  BY <1>1 DEF ProjectInv, KeptInv, LateFunded, GoneInv
<1>3. /\ PhaseFate /\ (\A c \in Call : RunFate(c)) /\ OrphanFate /\ LateFate
      /\ StoreFate
  BY <1>1, StepMoves DEF Moves, CustodyInv
<1>4. AtHome'
  BY <1>1, <1>2, <1>3, AtHomeStep
<1>5. ASSUME NEW c \in Call, SaysGone(c)
      PROVE  /\ call[c].ch \in Routed /\ phase[call[c].ch] = "cleaning"
             /\ Settled(call[c].ch)
  <2>1. Active(c) /\ call[c].pc # "prepare" /\ call[c].attached /\ call[c].op = "CleanUp"
    BY <1>5 DEF SaysGone
  <2>2. call[c].ch \in Routed
    BY <2>1, KeyType
  <2>3. phase[call[c].ch] = "cleaning"
    BY <2>1 DEF CustodyInv, Custody, StageOf
  <2> QED BY <1>2, <1>5, <2>2, <2>3 DEF CleanedUp
<1>6. ASSUME NEW ch \in Routed, phase[ch] \notin {"presenting", "presented"}, Settled(ch)
      PROVE  Settled(ch)'
  BY <1>3, <1>6, SettledStays
<1>7. ASSUME NEW ch \in Challenge, phase'[ch] = "cleaned"
      PROVE  ch \in Routed /\ Settled(ch)'
  <2>1. CASE phase[ch] = "cleaned"
    BY <1>2, <1>6, <2>1 DEF CleanedUp
  <2>2. CASE phase[ch] # "cleaned"
    <3>1. PhaseMove(ch, "cleaned")
      BY <1>3, <1>7, <2>2 DEF PhaseFate, TypeOK
    <3>2. PICK c \in Call : SaysGone(c) /\ call[c].ch = ch
      BY <3>1, Zenon DEF PhaseMove
    <3> QED BY <1>5, <1>6, <3>2
  <2> QED BY <2>1, <2>2
<1>8. ASSUME NEW c \in Call, SaysGone(c)'
      PROVE  Settled(call[c].ch)'
  <2>1. RunsOn(c)
    BY <1>3, <1>8, Zenon DEF RunFate, NewRun, SaysGone, Active
  <2>2. (SaysGone(c) \/ Vanished(c)) /\ call'[c].ch = call[c].ch
    BY <1>8, <2>1, Zenon DEF RunsOn
  <2>3. PICK ch : ch = call[c].ch
    OBVIOUS
  <2>4. Settled(ch)'
    <3>1. CASE SaysGone(c)
      BY <1>5, <1>6, <2>3, <3>1
    <3>2. CASE Vanished(c)
      <4>1. \A r \in rrsets' : ~Served(ch, r)
        BY <1>2, <2>3, <3>2, VanishedIsGone
      <4> QED BY <4>1 DEF Settled, Served
    <3> QED BY <2>2, <3>1, <3>2, Zenon
  <2> QED BY <2>2, <2>3, <2>4
<1>9. CleanedUp'
  BY <1>7, <1>8 DEF CleanedUp
<1> QED BY <1>1, <1>2, <1>4, <1>9

LEMMA GoneSafe == GoneInv => (churn = 0 => CleanedMeansGone)
BY DEF GoneInv, CleanedUp, Settled, CleanedMeansGone

\* CleanUp's promise, for any number of pods, handlers, challenges and zones and
\* any number of lost, late and repeated requests, crashes and time-outs: once
\* cert-manager has seen it succeed, the key is in no zone, unless a Present of
\* the challenge was left to itself.
THEOREM CleanUpKeepsPromise ==
  ASSUME Ordinary
  PROVE  Spec => [](churn = 0 => CleanedMeansGone)
<1>1. /\ TypeOK /\ RoutingInv /\ ProjectInv /\ CustodyInv /\ KeptInv /\ GoneInv
      /\ [Next]_vars
      => GoneInv'
  BY GoneStep
<1> QED BY <1>1, TypeInit, TypeStep, RoutingInit, RoutingStep, ProjectInit, ProjectStep,
           CustodyInit, CustodyStep, KeptInit, KeptStep, GoneInit, GoneSafe, PTL DEF Spec

=============================================================================
