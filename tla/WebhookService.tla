--------------------------- MODULE WebhookService ---------------------------
(***************************************************************************)
(* The webhook implements TxtService: a spot is a zone ID with a record    *)
(* name, and the handlers, caches, retries and tokens are hidden.          *)
(***************************************************************************)
EXTENDS Solver

CONSTANT None

ASSUME NoneAssumption == None \notin Value

Spot == ZoneId \X Record

SpotsOf ==
  [ch \in Challenge |->
     IF ch \in Routed
       THEN {s \in Spot : ZoneName[s[1]] = Route[ch].apex /\ s[2] = Route[ch].record}
       ELSE {}]

Text ==
  [s \in Spot |->
     LET here == {r \in rrsets : r.zone = s[1] /\ r.name = s[2]}
     IN  IF here = {} THEN None ELSE (CHOOSE r \in here : TRUE).value]

\* A request with the challenge's key is still on its way to the record.
Pending ==
  {ch \in Routed : \E req \in late :
     /\ <<req.zone, req.name>> \in SpotsOf[ch]
     /\ req.value = QuoteTXT(ch.key)}

Service ==
  INSTANCE TxtService WITH
    KeyOf <- [ch \in Challenge |-> QuoteTXT(ch.key)],
    text <- Text, status <- phase, loose <- orphaned, pending <- Pending,
    calm <- (churn = 0)

\* Every step of the handlers, of the API and of everything that can go wrong
\* is a step of the service or invisible to it: Present and CleanUp change
\* only the record of a challenge whose turn it is, or that left a request to
\* itself, and return nil only when the record is as asked.
ImplementsTxtService == Service!Spec

============================================================================
