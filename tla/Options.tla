------------------------------ MODULE Options ------------------------------
(***************************************************************************)
(* The two constructors and their options: New of the Hetzner client       *)
(* (src/internal/hcloud/client.go) and New of the Solver, with the client  *)
(* factory and Initialize (src/internal/solver/solver.go, secrets.go).     *)
(* Options are applied one by one, in any order and number.                *)
(*                                                                         *)
(* Loggers, clocks, factories, getters and strings are opaque; Nil stands  *)
(* for nil and "".  Numbers are in seconds, backoffs in half seconds.  A   *)
(* URL is what is in front of its trailing slashes, and their number.      *)
(***************************************************************************)
EXTENDS Integers, Sequences, FiniteSetsExt

CONSTANTS
  Nil,
  Things,      \* non-nil loggers, clocks, factories, ...
  MaxNumber,   \* bound on durations and counts
  MaxOptions   \* bound on the number of options

VARIABLES
  kind,   \* what is built: "client" or "solver"
  obj,    \* the object under construction
  opts,   \* the options applied so far, <<field, argument>> (history)
  pc      \* "options", then "built"

vars == <<kind, obj, opts, pc>>

ASSUME OptionsAssumption ==
  Nil \notin Things /\ "default" \notin Things /\ MaxNumber \in Nat /\ MaxOptions \in Nat

\* Durations and counts an option may be given, valid or not.
Numbers == -1..MaxNumber

----------------------------------------------------------------------------
(* hcloud.New and its options.                                             *)

\* An argument that is nil or empty leaves the field alone.
IfGiven(o, field, v) == IF v # Nil THEN [o EXCEPT ![field] = v] ELSE o

\* So does a number that is not positive.
IfPositive(o, field, n) == IF n > 0 THEN [o EXCEPT ![field] = n] ELSE o

URL(front, slashes) == [front |-> front, slashes |-> slashes]

ClientDefaults ==
  [baseURL |-> URL("default", 0), httpClient |-> "default", logger |-> "default",
   clock |-> "default", requestTimeout |-> 30, maxRetries |-> 6,
   initialBackoff |-> 1, maxBackoff |-> 60, userAgent |-> "default"]

WithHTTPClient(c, hc) == IfGiven(c, "httpClient", hc)

\* strings.TrimRight(u, "/")
TrimSlashes(u) == [u EXCEPT !.slashes = 0]

WithBaseURL(c, u) ==
  IF u # URL(Nil, 0) THEN [c EXCEPT !.baseURL = TrimSlashes(u)] ELSE c

ClientWithLogger(c, l) == IfGiven(c, "logger", l)

ClientWithClock(c, k) == IfGiven(c, "clock", k)

WithUserAgent(c, ua) == IfGiven(c, "userAgent", ua)

WithRequestTimeout(c, d) == IfPositive(c, "requestTimeout", d)

\* Mutation: any number of retries is taken.
AnyRetries(c, n) == [c EXCEPT !.maxRetries = n]

WithMaxRetries(c, n) == IF n >= 0 THEN [c EXCEPT !.maxRetries = n] ELSE c

WithBackoff(c, initial, max) ==
  IfPositive(IfPositive(c, "initialBackoff", initial), "maxBackoff", max)

----------------------------------------------------------------------------
(* solver.New and its options.                                             *)

SolverDefaults ==
  [logger |-> "default", now |-> "default", rrsetTTL |-> 60, requestBudget |-> 120,
   zonesTTL |-> 30, zonesNow |-> "default", clientFactory |-> Nil, secrets |-> Nil]

WithLogger(s, l) == IfGiven(s, "logger", l)

\* clientFactorySet is clientFactory # Nil.
WithClientFactory(s, f) == IfGiven(s, "clientFactory", f)

WithSecretGetter(s, g) == IfGiven(s, "secrets", g)

WithRRSetTTL(s, seconds) == IfPositive(s, "rrsetTTL", seconds)

WithRequestBudget(s, d) == IfPositive(s, "requestBudget", d)

\* The cache is rebuilt with the clock of the moment.
WithZoneCacheTTL(s, d) ==
  IF d > 0 THEN [s EXCEPT !.zonesTTL = d, !.zonesNow = s.now] ELSE s

\* Mutation: the cache keeps the clock it was built with.
ClockWithoutCache(s, now) == IfGiven(s, "now", now)

\* And again with the new clock and the TTL it has.
WithClock(s, now) == IF now # Nil THEN [s EXCEPT !.now = now, !.zonesNow = now] ELSE s

\* The options DefaultClientFactory passes to hcloud.New.
DefaultClientFactory(logger) == ClientWithLogger(ClientDefaults, logger)

\* The end of New: the default factory, with the final logger.
DefaultFactory(s) ==
  IF s.clientFactory = Nil
    THEN [s EXCEPT !.clientFactory = DefaultClientFactory(s.logger)] ELSE s

\* A getter that is there already stays; buildable: NewForConfig succeeds.
\* (The kubeConfig field is written and never read.)
InitializeSecrets(s, kubeConfig, buildable) ==
  IF kubeConfig # Nil /\ s.secrets = Nil /\ buildable
    THEN [s EXCEPT !.secrets = "kube"] ELSE s

----------------------------------------------------------------------------
\* (A client also needs a token source: New refuses nil.)
Init ==
  /\ kind \in {"client", "solver"}
  /\ obj = IF kind = "client" THEN ClientDefaults ELSE SolverDefaults
  /\ opts = <<>>
  /\ pc = "options"

Apply(what, new, given) ==
  /\ kind = what /\ pc = "options" /\ Len(opts) < MaxOptions
  /\ obj' = new
  /\ opts' = opts \o given
  /\ UNCHANGED <<kind, pc>>

URLs == {URL(front, n) : front \in Things \cup {Nil}, n \in 0..2}

ClientOption ==
  \/ \E v \in Things \cup {Nil} :
       \/ Apply("client", WithHTTPClient(obj, v), <<<<"httpClient", v>>>>)
       \/ Apply("client", ClientWithLogger(obj, v), <<<<"logger", v>>>>)
       \/ Apply("client", ClientWithClock(obj, v), <<<<"clock", v>>>>)
       \/ Apply("client", WithUserAgent(obj, v), <<<<"userAgent", v>>>>)
  \/ \E u \in URLs : Apply("client", WithBaseURL(obj, u), <<<<"baseURL", u>>>>)
  \/ \E n \in Numbers :
       \/ Apply("client", WithRequestTimeout(obj, n), <<<<"requestTimeout", n>>>>)
       \/ Apply("client", WithMaxRetries(obj, n), <<<<"maxRetries", n>>>>)
       \/ \E m \in Numbers : Apply("client", WithBackoff(obj, n, m),
            <<<<"initialBackoff", n>>, <<"maxBackoff", m>>>>)

SolverOption ==
  \/ \E v \in Things \cup {Nil} :
       \/ Apply("solver", WithLogger(obj, v), <<<<"logger", v>>>>)
       \/ Apply("solver", WithClientFactory(obj, v), <<<<"clientFactory", v>>>>)
       \/ Apply("solver", WithSecretGetter(obj, v), <<<<"secrets", v>>>>)
       \/ Apply("solver", WithClock(obj, v), <<<<"now", v>>>>)
  \/ \E n \in Numbers :
       \/ Apply("solver", WithZoneCacheTTL(obj, n), <<<<"zonesTTL", n>>>>)
       \/ Apply("solver", WithRRSetTTL(obj, n), <<<<"rrsetTTL", n>>>>)
       \/ Apply("solver", WithRequestBudget(obj, n), <<<<"requestBudget", n>>>>)

New ==
  /\ pc = "options"
  /\ pc' = "built"
  /\ obj' = IF kind = "solver" THEN DefaultFactory(obj) ELSE obj
  /\ UNCHANGED <<kind, opts>>

Initialize ==
  /\ kind = "solver" /\ pc = "built"
  /\ \E kubeConfig \in Things \cup {Nil}, buildable \in BOOLEAN :
       obj' = InitializeSecrets(obj, kubeConfig, buildable)
  /\ UNCHANGED <<kind, opts, pc>>

Next == ClientOption \/ SolverOption \/ New \/ Initialize

Spec == Init /\ [][Next]_vars

----------------------------------------------------------------------------
(* Properties.                                                             *)

Valid(field, v) ==
  IF field = "maxRetries" THEN v >= 0
  ELSE IF field \in {"requestTimeout", "initialBackoff", "maxBackoff", "zonesTTL",
                     "rrsetTTL", "requestBudget"} THEN v > 0
  ELSE v # Nil

\* The last valid argument an option gave for the field, or the default.
Wanted(field, default) ==
  LET given == {i \in DOMAIN opts : opts[i][1] = field /\ Valid(field, opts[i][2])}
  IN  IF given = {} THEN default ELSE opts[Max(given)][2]

\* "it picks up the operator-supplied logger": in whatever order the options
\* come, a finished Solver has the last valid value of each, its zone cache
\* runs on the Solver's own clock with the configured TTL, the default client
\* factory has the final logger, and Initialize replaces no given getter.
SolverCoherent ==
  kind = "solver" /\ pc = "built" =>
    /\ obj.zonesNow = obj.now /\ obj.now = Wanted("now", "default")
    /\ obj.zonesTTL = Wanted("zonesTTL", 30)
    /\ LET default == [ClientDefaults EXCEPT !.logger = Wanted("logger", "default")]
       IN  obj.clientFactory = Wanted("clientFactory", default)
    /\ Wanted("secrets", Nil) # Nil => obj.secrets = Wanted("secrets", Nil)
    /\ obj.rrsetTTL = Wanted("rrsetTTL", 60)
    /\ obj.requestBudget = Wanted("requestBudget", 120)

\* Whatever the options, a client can work: with a negative maxRetries do would
\* return nil without a single request, and without positive backoffs and
\* timeout it would retry in a busy loop or time out at once.  Its base URL
\* does not end in a slash, as every path starts with one.
ClientUsable ==
  kind = "client" =>
    /\ obj.baseURL.slashes = 0
    /\ obj.maxRetries >= 0
    /\ obj.initialBackoff > 0 /\ obj.maxBackoff > 0 /\ obj.requestTimeout > 0

============================================================================
