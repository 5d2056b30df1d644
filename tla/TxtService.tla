----------------------------- MODULE TxtService -----------------------------
(***************************************************************************)
(* What the webhook promises cert-manager, without handlers, caches, API   *)
(* requests or retries: a TXT record changes only on behalf of a challenge *)
(* that asked for it, at that challenge's own name, and success is         *)
(* reported only when the record is as asked.  Solver implements it.       *)
(***************************************************************************)
CONSTANTS
  Challenge,
  Spot,       \* where an RRSet can be: a zone and a name in it
  SpotsOf,    \* [Challenge -> SUBSET Spot], the spots with the challenge's name
  KeyOf,      \* the TXT value of each challenge
  None        \* no RRSet

VARIABLES
  text,       \* what every spot holds
  status,     \* cert-manager's view of each challenge
  loose,      \* <<challenge, op>> with writes nobody waits for any more
  pending,    \* challenges with a request that is still to be carried out
  calm        \* no operator has interfered yet

vars == <<text, status, loose, pending, calm>>

Rivals(a, b) == a # b /\ SpotsOf[a] \cap SpotsOf[b] # {}

InProgress(ch) == status[ch] \in {"presenting", "presented", "cleaning"}

Published(ch) == \E s \in SpotsOf[ch] : text[s] = KeyOf[ch]

Init ==
  /\ status = [ch \in Challenge |-> "new"]
  /\ text = [s \in Spot |-> text[s]]
  /\ \A ch \in Challenge : ~Published(ch)
  /\ loose = {} /\ pending = {} /\ calm = TRUE

\* Challenges for one name take turns.
Ask(ch) ==
  /\ status[ch] = "new"
  /\ \A o \in Challenge : Rivals(o, ch) => ~InProgress(o)
  /\ status' = [status EXCEPT ![ch] = "presenting"]
  /\ UNCHANGED <<text, loose, pending, calm>>

BeginCleaning(ch) ==
  /\ status[ch] \in {"presenting", "presented"}
  /\ status' = [status EXCEPT ![ch] = "cleaning"]
  /\ UNCHANGED <<text, loose, pending, calm>>

\* A Present writes: during the challenge, or later if it was left to itself.
Write(ch) ==
  /\ status[ch] \in {"presenting", "presented"} \/ <<ch, "Present">> \in loose
  /\ \E s \in SpotsOf[ch] : text' = [text EXCEPT ![s] = KeyOf[ch]]
  /\ pending' \in {pending, pending \ {ch}}
  /\ UNCHANGED <<status, loose, calm>>

\* A CleanUp erases.
Erase(ch) ==
  /\ status[ch] = "cleaning" \/ <<ch, "CleanUp">> \in loose
  /\ \E s \in SpotsOf[ch] : text' = [text EXCEPT ![s] = None]
  /\ pending' \in {pending, pending \ {ch}}
  /\ UNCHANGED <<status, loose, calm>>

\* A write of another challenge for the name was left to itself.
Disturbed(ch) == \E p \in loose : Rivals(p[1], ch)

\* The record is in place, or what is missing is not the challenge's doing.
Kept(ch) == Published(ch) \/ Disturbed(ch) \/ ~calm

\* Success is reported; a request that is still to be carried out counts.
Confirm(ch) ==
  /\ status[ch] = "presenting"
  /\ Kept(ch) \/ ch \in pending
  /\ status' = [status EXCEPT ![ch] = "presented"]
  /\ UNCHANGED <<text, loose, pending, calm>>

ConfirmGone(ch) ==
  /\ status[ch] = "cleaning"
  /\ ~Published(ch) \/ <<ch, "Present">> \in loose \/ ~calm
  /\ status' = [status EXCEPT ![ch] = "cleaned"]
  /\ UNCHANGED <<text, loose, pending, calm>>

\* Calls are abandoned, requests time out, pods die, Actions take their time:
\* only while the challenge is at the stage of the call.
Stray ==
  /\ loose \subseteq loose'
  /\ \A p \in loose' \ loose :
       \E ch \in Challenge :
         \/ p = <<ch, "Present">> /\ status[ch] \in {"presenting", "presented"}
         \/ p = <<ch, "CleanUp">> /\ status[ch] = "cleaning"
  /\ pending \subseteq pending'
  /\ pending' \ pending \subseteq {p[1] : p \in loose'}
  /\ UNCHANGED <<text, status, calm>>

\* A request comes to nothing: never one a reported success counts on.
Lapse(ch) ==
  /\ status[ch] = "presented" => Kept(ch)
  /\ pending' = pending \ {ch}
  /\ UNCHANGED <<text, status, loose, calm>>

\* Operators delete, create and move zones.
Interfere ==
  /\ calm' = FALSE
  /\ \E lost \in SUBSET Spot :
       text' = [s \in Spot |-> IF s \in lost THEN None ELSE text[s]]
  /\ UNCHANGED <<status, loose, pending>>

Next ==
  \/ \E ch \in Challenge :
       \/ Ask(ch) \/ Write(ch) \/ Confirm(ch)
       \/ BeginCleaning(ch) \/ Erase(ch) \/ ConfirmGone(ch) \/ Lapse(ch)
  \/ Stray \/ Interfere

Spec == Init /\ [][Next]_vars

----------------------------------------------------------------------------
(* What the service guarantees.                                            *)

\* A challenge reported as presented has its key at its name, unless a rival's
\* write was left to itself, an Action is running or operators interfered.
PresentedIsKept ==
  \A ch \in Challenge :
    status[ch] = "presented" /\ ch \notin pending => Kept(ch)

\* A challenge reported as cleaned up has left nothing behind, with the same
\* kind of exceptions.
CleanedIsGone ==
  \A ch \in Challenge :
    status[ch] = "cleaned" /\ <<ch, "Present">> \notin loose /\ calm => ~Published(ch)

============================================================================
