----------------------------- MODULE HetznerApi -----------------------------
(***************************************************************************)
(* The Hetzner Cloud Zones API as the webhook sees it: what the server     *)
(* answers to a request and what the request does to the RRSets.  It is    *)
(* external to the repository; the status codes are the ones errors.go     *)
(* documents and the tests' mock server (solver_test.go) returns.          *)
(*                                                                         *)
(* The server's state is owner, the project of every zone ID (IDs are      *)
(* never reused), and rrsets, the set of TXT RRSets.  One record is enough *)
(* as an RRSet's value: every request the webhook sends carries exactly    *)
(* one.                                                                    *)
(***************************************************************************)
EXTENDS Naturals, FiniteSets

CONSTANTS
  Project,      \* Hetzner Cloud projects
  Token,        \* API tokens
  ProjectOf,    \* [Token -> Project]
  ZoneId,       \* zone IDs, live or not
  ZoneName,     \* [ZoneId -> DNS name], fixed when the zone is created
  Unborn,       \* owner of an ID that no zone has had yet
  Gone,         \* owner of the ID of a deleted zone
  PageSize      \* zones in one page of GET /v1/zones

ASSUME OwnerAssumption ==
  Unborn \notin Project /\ Gone \notin Project /\ Gone # Unborn
ASSUME TokenAssumption == ProjectOf \in [Token -> Project]

RRSetsAt(rrsets, req) ==
  {r \in rrsets : r.zone = req.zone /\ r.name = req.name}

\* The statuses the server may answer a request with.  A zone of another
\* project is reported as forbidden or as missing.
Statuses(owner, revoked, rrsets, req) ==
  CASE req.tok \in revoked -> {401}
    [] req.tok \notin revoked /\ req.op = "list" -> {200}
    [] req.tok \notin revoked /\ req.op # "list" ->
         IF owner[req.zone] \notin Project THEN {404}
         ELSE IF owner[req.zone] # ProjectOf[req.tok] THEN {403, 404}
         ELSE IF req.op = "create"
           THEN IF RRSetsAt(rrsets, req) = {} THEN {201} ELSE {409}
           ELSE IF RRSetsAt(rrsets, req) = {} THEN {404} ELSE {200}

\* What the request does when it is carried out.
Applied(rrsets, req) ==
  (rrsets \ RRSetsAt(rrsets, req))
    \cup IF req.op \in {"create", "set"}
           THEN {[zone |-> req.zone, name |-> req.name, value |-> req.value]}
           ELSE {}

\* The zones in the page a list request returns.
Pages(owner, req) ==
  LET visible == {z \in ZoneId : owner[z] = ProjectOf[req.tok]}
  IN  {page \in SUBSET visible :
         IF Cardinality(visible) <= PageSize
           THEN page = visible
           ELSE Cardinality(page) = PageSize}

============================================================================
