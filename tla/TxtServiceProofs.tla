-------------------------- MODULE TxtServiceProofs --------------------------
(***************************************************************************)
(* What TxtService guarantees, for any challenges, spots and keys.  With   *)
(* the refinement of WebhookService these are guarantees of the webhook.   *)
(***************************************************************************)
EXTENDS TxtService, TLAPS

\* The spots of a challenge are spots; rivals have different keys.
WellNamed ==
  /\ SpotsOf \in [Challenge -> SUBSET Spot]
  /\ \A a, b \in Challenge : Rivals(a, b) => KeyOf[a] # KeyOf[b]
  /\ \A ch \in Challenge : KeyOf[ch] # None

Typed ==
  /\ text = [s \in Spot |-> text[s]]
  /\ status \in [Challenge -> {"new", "presenting", "presented", "cleaning", "cleaned"}]
  /\ loose \subseteq Challenge \X {"Present", "CleanUp"}
  /\ calm \in BOOLEAN

\* Challenges for one spot take turns, and a CleanUp is left to itself only
\* after Present is over.
TakeTurns ==
  /\ \A a, b \in Challenge : Rivals(a, b) => ~(InProgress(a) /\ InProgress(b))
  /\ \A ch \in Challenge :
       <<ch, "CleanUp">> \in loose => status[ch] \in {"cleaning", "cleaned"}

IInv == Typed /\ TakeTurns /\ PresentedIsKept /\ CleanedIsGone

----------------------------------------------------------------------------
\* One spot changes: the record of a challenge that does not have the spot
\* stays as it is.
LEMMA OtherSpot ==
  ASSUME WellNamed, Typed, NEW o \in Challenge, NEW s \in SpotsOf[o], NEW v,
         text' = [text EXCEPT ![s] = v], NEW ch \in Challenge, ~Rivals(o, ch), ch # o
  PROVE  Published(ch)' <=> Published(ch)
<1>1. s \notin SpotsOf[ch]
  BY DEF Rivals
<1>2. \A t \in SpotsOf[ch] : text'[t] = text[t]
  BY <1>1 DEF WellNamed, Typed
<1> QED BY <1>2 DEF Published

\* A challenge that is in progress meets only disturbing rivals.
LEMMA RivalIsLoose ==
  ASSUME IInv, NEW o \in Challenge, NEW ch \in Challenge, Rivals(o, ch), InProgress(ch),
         \/ InProgress(o)
         \/ \E op \in {"Present", "CleanUp"} : <<o, op>> \in loose
  PROVE  Disturbed(ch)
<1>1. ~InProgress(o)
  BY DEF IInv, TakeTurns
<1>2. PICK op \in {"Present", "CleanUp"} : <<o, op>> \in loose
  BY <1>1
<1> QED BY <1>2 DEF Disturbed

\* The promises hold at the start.
LEMMA InitInv == Init => IInv
<1> SUFFICES ASSUME Init PROVE IInv
  OBVIOUS
<1> QED
  BY DEF Init, IInv, Typed, TakeTurns, PresentedIsKept, CleanedIsGone, InProgress

\* A Present writes: its own record is as asked, and a rival in progress is
\* disturbed.
LEMMA WriteStep ==
  ASSUME WellNamed, IInv, NEW o \in Challenge, Write(o)
  PROVE  IInv'
<1> USE DEF IInv
<1>1. PICK s \in SpotsOf[o] : text' = [text EXCEPT ![s] = KeyOf[o]]
  BY DEF Write
<1>2. UNCHANGED <<status, loose, calm>> /\ pending \ {o} \subseteq pending'
  BY DEF Write
<1>3. s \in Spot
  BY DEF WellNamed
<1>4. text'[s] = KeyOf[o]
  BY <1>1, <1>3 DEF Typed
<1>5. Published(o)'
  BY <1>4 DEF Published
<1>6. Typed'
  BY <1>1, <1>2, <1>3 DEF Typed
<1>7. TakeTurns'
  BY <1>2 DEF TakeTurns, InProgress, Rivals
<1>8. ASSUME NEW ch \in Challenge, status[ch] = "presented", ch \notin pending'
      PROVE  Kept(ch)'
  <2>1. CASE ch = o
    BY <2>1, <1>5 DEF Kept
  <2>2. CASE ch # o /\ ~Rivals(o, ch)
    <3>1. Published(ch)' <=> Published(ch)
      BY <2>2, <1>1, OtherSpot
    <3>2. Kept(ch)
      BY <1>2, <1>8, <2>2 DEF PresentedIsKept
    <3> QED BY <3>1, <3>2, <1>2 DEF Kept, Disturbed, Rivals
  <2>3. CASE Rivals(o, ch)
    <3>1. InProgress(ch) /\ (InProgress(o) \/ <<o, "Present">> \in loose)
      BY <1>8 DEF Write, InProgress
    <3>2. Disturbed(ch)
      BY <2>3, <3>1, RivalIsLoose
    <3> QED BY <3>2, <1>2 DEF Kept, Disturbed, Rivals
  <2> QED BY <2>1, <2>2, <2>3
<1>9. ASSUME NEW ch \in Challenge, status[ch] = "cleaned", <<ch, "Present">> \notin loose, calm
      PROVE  ~Published(ch)'
  <2>1. ~Published(ch) /\ ch # o
    BY <1>9 DEF CleanedIsGone, Write
  <2>2. CASE ~Rivals(o, ch)
    BY <2>1, <2>2, <1>1, OtherSpot
  <2>3. CASE Rivals(o, ch)
    <3>1. KeyOf[o] # KeyOf[ch]
      BY <2>3 DEF WellNamed
    <3>2. \A t \in SpotsOf[ch] : text'[t] \in {text[t], KeyOf[o]}
      BY <1>1 DEF WellNamed, Typed
    <3> QED BY <2>1, <3>1, <3>2 DEF Published
  <2> QED BY <2>2, <2>3
<1>10. PresentedIsKept'
  BY <1>2, <1>8 DEF PresentedIsKept
<1>11. CleanedIsGone'
  BY <1>2, <1>9 DEF CleanedIsGone
<1> QED BY <1>6, <1>7, <1>10, <1>11

\* A CleanUp erases: the challenge itself is past Present, and a rival in
\* progress is disturbed.
LEMMA EraseStep ==
  ASSUME WellNamed, IInv, NEW o \in Challenge, Erase(o)
  PROVE  IInv'
<1> USE DEF IInv
<1>1. PICK s \in SpotsOf[o] : text' = [text EXCEPT ![s] = None]
  BY DEF Erase
<1>2. UNCHANGED <<status, loose, calm>> /\ pending \ {o} \subseteq pending'
  BY DEF Erase
<1>3. s \in Spot
  BY DEF WellNamed
<1>4. status[o] \in {"cleaning", "cleaned"}
  BY DEF Erase, TakeTurns
<1>6. Typed'
  BY <1>1, <1>2, <1>3 DEF Typed
<1>7. TakeTurns'
  BY <1>2 DEF TakeTurns, InProgress, Rivals
<1>8. ASSUME NEW ch \in Challenge, status[ch] = "presented", ch \notin pending'
      PROVE  Kept(ch)'
  <2>1. ch # o
    BY <1>4, <1>8
  <2>2. CASE ~Rivals(o, ch)
    <3>1. Published(ch)' <=> Published(ch)
      BY <2>1, <2>2, <1>1, OtherSpot
    <3>2. Kept(ch)
      BY <1>2, <1>8, <2>1 DEF PresentedIsKept
    <3> QED BY <3>1, <3>2, <1>2 DEF Kept, Disturbed, Rivals
  <2>3. CASE Rivals(o, ch)
    <3>1. InProgress(ch) /\ (InProgress(o) \/ <<o, "CleanUp">> \in loose)
      BY <1>8 DEF Erase, InProgress
    <3>2. Disturbed(ch)
      BY <2>3, <3>1, RivalIsLoose
    <3> QED BY <3>2, <1>2 DEF Kept, Disturbed, Rivals
  <2> QED BY <2>2, <2>3
<1>9. ASSUME NEW ch \in Challenge, status[ch] = "cleaned", <<ch, "Present">> \notin loose, calm
      PROVE  ~Published(ch)'
  <2>1. ~Published(ch)
    BY <1>9 DEF CleanedIsGone
  <2>2. \A t \in SpotsOf[ch] : text'[t] \in {text[t], None}
    BY <1>1 DEF WellNamed, Typed
  <2> QED BY <2>1, <2>2 DEF Published, WellNamed
<1>10. PresentedIsKept'
  BY <1>2, <1>8 DEF PresentedIsKept
<1>11. CleanedIsGone'
  BY <1>2, <1>9 DEF CleanedIsGone
<1> QED BY <1>6, <1>7, <1>10, <1>11

\* A step that changes the stage of one challenge only.
LEMMA StageStep ==
  ASSUME IInv, NEW o \in Challenge,
         Ask(o) \/ BeginCleaning(o) \/ Confirm(o) \/ ConfirmGone(o)
  PROVE  IInv'
<1> USE DEF IInv
<1>1. PICK st \in {"presenting", "presented", "cleaning", "cleaned"} :
        status' = [status EXCEPT ![o] = st]
  BY DEF Ask, BeginCleaning, Confirm, ConfirmGone
<1>2. UNCHANGED <<text, loose, pending, calm>>
  BY DEF Ask, BeginCleaning, Confirm, ConfirmGone
<1>3. \A ch \in Challenge : status'[ch] = IF ch = o THEN st ELSE status[ch]
  BY <1>1 DEF Typed
<1>4. \A ch \in Challenge : /\ Published(ch)' <=> Published(ch)
                            /\ Kept(ch)' <=> Kept(ch)
  BY <1>2 DEF Published, Kept, Disturbed, Rivals
<1>5. Typed'
  BY <1>1, <1>2 DEF Typed
<1>6. ASSUME NEW a \in Challenge, NEW b \in Challenge, Rivals(a, b),
             InProgress(a)', InProgress(b)'
      PROVE  FALSE
  <2>1. Rivals(b, a) /\ a # b
    BY <1>6 DEF Rivals
  <2>2. CASE Ask(o)
    BY <2>1, <2>2, <1>3, <1>6 DEF Ask, InProgress, TakeTurns
  <2>3. CASE BeginCleaning(o) \/ Confirm(o) \/ ConfirmGone(o)
    <3>1. InProgress(o)
      BY <2>3 DEF BeginCleaning, Confirm, ConfirmGone, InProgress
    <3>2. InProgress(a) /\ InProgress(b)
      BY <3>1, <1>3, <1>6 DEF InProgress
    <3> QED BY <3>2, <1>6 DEF TakeTurns
  <2> QED BY <2>2, <2>3
<1>7. ASSUME NEW ch \in Challenge, <<ch, "CleanUp">> \in loose
      PROVE  status'[ch] \in {"cleaning", "cleaned"}
  <2>1. status[ch] \in {"cleaning", "cleaned"}
    BY <1>7 DEF TakeTurns
  <2> QED BY <2>1, <1>3 DEF Ask, BeginCleaning, Confirm, ConfirmGone, Typed
<1>8. TakeTurns'
  BY <1>2, <1>6, <1>7 DEF TakeTurns, Rivals
<1>9. PresentedIsKept'
  <2>1. ASSUME NEW ch \in Challenge, status'[ch] = "presented", ch \notin pending
        PROVE  Kept(ch)
    <3>1. CASE ch # o
      BY <3>1, <2>1, <1>3 DEF PresentedIsKept
    <3>2. CASE ch = o
      BY <3>2, <2>1 DEF Ask, BeginCleaning, Confirm, ConfirmGone, Typed
    <3> QED BY <3>1, <3>2
  <2> QED BY <2>1, <1>2, <1>4 DEF PresentedIsKept
<1>10. CleanedIsGone'
  <2>1. ASSUME NEW ch \in Challenge, status'[ch] = "cleaned", <<ch, "Present">> \notin loose, calm
        PROVE  ~Published(ch)
    <3>1. CASE ch # o
      BY <3>1, <2>1, <1>3 DEF CleanedIsGone
    <3>2. CASE ch = o
      BY <3>2, <2>1 DEF Ask, BeginCleaning, Confirm, ConfirmGone, Typed
    <3> QED BY <3>1, <3>2
  <2> QED BY <2>1, <1>2, <1>4 DEF CleanedIsGone
<1> QED BY <1>5, <1>8, <1>9, <1>10

\* Requests left to themselves only add exceptions.
LEMMA StrayStep ==
  ASSUME IInv, Stray
  PROVE  IInv'
<1> USE DEF IInv
<1>1. UNCHANGED <<text, status, calm>> /\ loose \subseteq loose' /\ pending \subseteq pending'
  BY DEF Stray
<1>2. Typed'
  BY DEF Stray, Typed
<1>3. TakeTurns'
  <2>1. ASSUME NEW ch \in Challenge, <<ch, "CleanUp">> \in loose'
        PROVE  status[ch] \in {"cleaning", "cleaned"}
    <3>1. CASE <<ch, "CleanUp">> \in loose
      BY <3>1 DEF TakeTurns
    <3>2. CASE <<ch, "CleanUp">> \notin loose
      <4>1. PICK o \in Challenge :
              \/ <<ch, "CleanUp">> = <<o, "Present">>
              \/ <<ch, "CleanUp">> = <<o, "CleanUp">> /\ status[o] = "cleaning"
        BY <2>1, <3>2 DEF Stray
      <4> QED BY <4>1
    <3> QED BY <3>1, <3>2
  <2> QED BY <2>1, <1>1 DEF TakeTurns, InProgress, Rivals
<1>4. \A ch \in Challenge : Published(ch)' <=> Published(ch)
  BY <1>1 DEF Published
<1>5. \A ch \in Challenge : Kept(ch) => Kept(ch)'
  BY <1>1, <1>4 DEF Kept, Disturbed, Rivals
<1>6. PresentedIsKept' /\ CleanedIsGone'
  BY <1>1, <1>4, <1>5 DEF PresentedIsKept, CleanedIsGone
<1> QED BY <1>2, <1>3, <1>6

\* A request that comes to nothing was not counted on.
LEMMA LapseStep ==
  ASSUME IInv, NEW o \in Challenge, Lapse(o)
  PROVE  IInv'
<1> USE DEF IInv, Lapse
<1>1. Typed' /\ TakeTurns'
  BY DEF Typed, TakeTurns, InProgress, Rivals
<1>2. \A ch \in Challenge : (Published(ch)' <=> Published(ch)) /\ (Kept(ch)' <=> Kept(ch))
  BY DEF Published, Kept, Disturbed, Rivals
<1>3. PresentedIsKept' /\ CleanedIsGone'
  BY <1>2 DEF PresentedIsKept, CleanedIsGone
<1> QED BY <1>1, <1>3

\* After an operator's change the promises are void.
LEMMA InterfereStep ==
  ASSUME IInv, Interfere
  PROVE  IInv'
<1> USE DEF IInv, Interfere
<1>1. Typed' /\ TakeTurns'
  BY DEF Typed, TakeTurns, InProgress, Rivals
<1>2. PresentedIsKept' /\ CleanedIsGone'
  BY DEF PresentedIsKept, CleanedIsGone, Kept
<1> QED BY <1>1, <1>2

\* Nothing happens.
LEMMA StutterStep ==
  ASSUME IInv, UNCHANGED vars
  PROVE  IInv'
BY DEF vars, IInv, Typed, TakeTurns, PresentedIsKept, CleanedIsGone, InProgress, Kept,
       Published, Disturbed, Rivals

\* While the keys of rivals differ, a Present that was reported as done keeps
\* its record until CleanUp begins, and a CleanUp that was reported as done
\* leaves nothing behind: whatever the number of challenges, zones, retries
\* and requests left to themselves, with the exceptions the two state.
THEOREM ServiceKeepsPromises ==
  ASSUME WellNamed
  PROVE  Spec => [](PresentedIsKept /\ CleanedIsGone)
<1>1. IInv /\ [Next]_vars => IInv'
  <2> SUFFICES ASSUME IInv, [Next]_vars PROVE IInv'
    OBVIOUS
  <2>1. CASE UNCHANGED vars
    BY <2>1, StutterStep
  <2>2. CASE \E ch \in Challenge : Write(ch) \/ Erase(ch)
    BY <2>2, WriteStep, EraseStep
  <2>3. CASE \E ch \in Challenge : Ask(ch) \/ BeginCleaning(ch) \/ Confirm(ch) \/ ConfirmGone(ch)
    BY <2>3, StageStep
  <2>4. CASE \E ch \in Challenge : Lapse(ch)
    BY <2>4, LapseStep
  <2>5. CASE Stray \/ Interfere
    BY <2>5, StrayStep, InterfereStep
  <2> QED BY <2>1, <2>2, <2>3, <2>4, <2>5 DEF Next
<1>2. IInv => PresentedIsKept /\ CleanedIsGone
  BY DEF IInv
<1> QED BY InitInv, <1>1, <1>2, PTL DEF Spec

============================================================================
