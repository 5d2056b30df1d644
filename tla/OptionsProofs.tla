--------------------------- MODULE OptionsProofs ---------------------------
(***************************************************************************)
(* The two constructors build what their options ask for, whatever their   *)
(* number, order and arguments.                                            *)
(***************************************************************************)
EXTENDS Options, WellFoundedInduction, TLAPS

Thing == Things \cup {Nil, "default"}

ClientObject ==
  [baseURL : [front : Thing, slashes : {0}], httpClient : Thing, logger : Thing, clock : Thing,
   requestTimeout : Nat \ {0}, maxRetries : Nat,
   initialBackoff : Nat \ {0}, maxBackoff : Nat \ {0}, userAgent : Thing]

\* Only the fields matter: what a factory or a getter is, is left open.
SolverFields ==
  {"logger", "now", "rrsetTTL", "requestBudget", "zonesTTL", "zonesNow",
   "clientFactory", "secrets"}

IsRecord(o, fields) == o = [x \in fields |-> o[x]]

Arguments == Things \cup {Nil} \cup Numbers \cup URLs

Fields ==
  {"baseURL", "httpClient", "logger", "clock", "requestTimeout", "maxRetries",
   "initialBackoff", "maxBackoff", "userAgent"} \cup SolverFields

Pairs == Fields \X Arguments

\* What the options applied so far ask of the object.
AsAsked(o) ==
  /\ o.logger = Wanted("logger", "default")
  /\ o.zonesNow = o.now /\ o.now = Wanted("now", "default")
  /\ o.zonesTTL = Wanted("zonesTTL", 30)
  /\ o.rrsetTTL = Wanted("rrsetTTL", 60)
  /\ o.requestBudget = Wanted("requestBudget", 120)

\* The factory and the getter: as given while options are applied; then New
\* puts the default factory, and Initialize a getter where there is none.
Supplied(o) ==
  /\ pc = "options" => /\ o.clientFactory = Wanted("clientFactory", Nil)
                       /\ o.secrets = Wanted("secrets", Nil)
  /\ pc = "built" =>
       /\ o.clientFactory = Wanted("clientFactory",
            [ClientDefaults EXCEPT !.logger = Wanted("logger", "default")])
       /\ Wanted("secrets", Nil) # Nil => o.secrets = Wanted("secrets", Nil)

OInv ==
  /\ kind \in {"client", "solver"} /\ pc \in {"options", "built"}
  /\ opts \in Seq(Pairs)
  /\ kind = "client" => obj \in ClientObject
  /\ kind = "solver" => IsRecord(obj, SolverFields) /\ AsAsked(obj) /\ Supplied(obj)

----------------------------------------------------------------------------
\* The arguments given for a field that the option accepts.
Given(field) == {i \in DOMAIN opts : opts[i][1] = field /\ Valid(field, opts[i][2])}

\* A non-empty set of numbers up to a bound has a greatest element.
LEMMA Greatest ==
  ASSUME NEW n \in Nat, NEW S \in SUBSET (1..n), S # {}
  PROVE  Max(S) \in S /\ \A y \in S : Max(S) >= y
<1> DEFINE less == OpToRel(<, Nat)
           T == {n - i : i \in S}
<1>1. IsWellFoundedOn(less, Nat)
  BY NatLessThanWellFounded, Zenon
<1>2. T \subseteq Nat /\ T # {}
  <2>1. \A i \in S : n - i \in Nat
    OBVIOUS
  <2> QED BY <2>1
<1>3. \A a, b \in Nat : a < b => <<a, b>> \in less
  BY DEF OpToRel
<1> HIDE DEF less, T
<1>4. PICK t \in T : \A y \in T : <<y, t>> \notin less
  BY <1>1, <1>2, WFMin, Zenon
<1>5. PICK m \in S : t = n - m
  BY DEF T
<1>6. ASSUME NEW y \in S PROVE m >= y
  <2>1. n - y \in T /\ n - y \in Nat /\ t \in Nat
    BY <1>2 DEF T
  <2>2. ~(n - y < t)
    BY <1>3, <1>4, <2>1
  <2>3. m \in Int /\ y \in Int
    OBVIOUS
  <2> QED BY <1>5, <2>2, <2>3
<1>7. \E x \in S : \A y \in S : x >= y
  BY <1>6
<1> QED BY <1>7 DEF Max

\* One more option: its argument is the wanted value if it is for this field
\* and valid, and otherwise nothing changes.
LEMMA OneMore ==
  ASSUME opts \in Seq(Pairs), NEW field, NEW default, NEW g, NEW v,
         opts' = opts \o <<<<g, v>>>>
  PROVE  Wanted(field, default)' =
           IF g = field /\ Valid(field, v) THEN v ELSE Wanted(field, default)
<1> DEFINE n == Len(opts)
<1>1. /\ n \in Nat /\ DOMAIN opts = 1..n /\ DOMAIN opts' = 1..(n + 1)
      /\ opts'[n + 1] = <<g, v>> /\ \A i \in 1..n : opts'[i] = opts[i]
  OBVIOUS
<1>2. \A i \in 1..n : i \in Given(field)' <=> i \in Given(field)
  BY <1>1 DEF Given, Valid
<1>3. n + 1 \in Given(field)' <=> (g = field /\ Valid(field, v))
  BY <1>1 DEF Given, Valid
<1>4. Given(field) \subseteq 1..n /\ Given(field)' \subseteq 1..(n + 1)
  BY <1>1 DEF Given
<1>5. /\ Wanted(field, default) =
           IF Given(field) = {} THEN default ELSE opts[Max(Given(field))][2]
      /\ Wanted(field, default)' =
           IF Given(field)' = {} THEN default ELSE opts'[Max(Given(field)')][2]
  BY Zenon DEF Wanted, Given
<1> HIDE DEF n
<1>6. CASE g = field /\ Valid(field, v)
  <2>1. n + 1 \in Given(field)'
    BY <1>3, <1>6
  <2>2. Max(Given(field)') = n + 1
    <3>1. PICK G : G = Given(field)'
      OBVIOUS
    <3>2. n + 1 \in Nat /\ G \in SUBSET (1..(n + 1)) /\ G # {}
      BY <1>1, <1>4, <2>1, <3>1
    <3>3. Max(G) \in G /\ \A y \in G : Max(G) >= y
      BY <3>2, Greatest, Zenon
    <3>4. Max(G) = n + 1
      BY <3>1, <3>2, <3>3, <2>1, <1>1
    <3> QED BY <3>1, <3>4
  <2>3. opts'[n + 1][2] = v
    BY <1>1
  <2> QED BY <1>5, <2>1, <2>2, <2>3, <1>6, Zenon
<1>7. CASE ~(g = field /\ Valid(field, v))
  <2>1. Given(field)' = Given(field)
    <3>1. \A i \in 1..(n + 1) : i \in 1..n \/ i = n + 1
      BY <1>1
    <3> QED BY <1>2, <1>3, <1>4, <1>7, <3>1, Zenon
  <2>2. CASE Given(field) = {}
    BY <1>5, <1>7, <2>1, <2>2
  <2>3. CASE Given(field) # {}
    <3>1. Max(Given(field)) \in 1..n
      BY <2>3, <1>1, <1>4, Greatest
    <3> QED BY <1>1, <1>5, <1>7, <2>1, <2>3, <3>1
  <2> QED BY <2>2, <2>3
<1> QED BY <1>6, <1>7

\* The wanted logger, clock, factory or getter is the default or not nil.
LEMMA WantedSupplied ==
  ASSUME opts \in Seq(Pairs), NEW field \in {"logger", "now", "clientFactory", "secrets"}
  PROVE  IF Given(field) = {}
           THEN \A default : Wanted(field, default) = default
           ELSE \E v : v # Nil /\ \A default : Wanted(field, default) = v
<1>1. ASSUME NEW default
      PROVE  Wanted(field, default) =
               IF Given(field) = {} THEN default ELSE opts[Max(Given(field))][2]
  BY Zenon DEF Wanted, Given
<1>2. CASE Given(field) = {}
  BY <1>1, <1>2
<1>3. CASE Given(field) # {}
  <2>1. Len(opts) \in Nat /\ Given(field) \in SUBSET (1..Len(opts))
    BY DEF Given
  <2>2. Max(Given(field)) \in Given(field)
    BY <1>3, <2>1, Greatest
  <2>3. opts[Max(Given(field))][2] # Nil
    BY <2>2 DEF Given, Valid
  <2> QED BY <1>1, <1>3, <2>3
<1> QED BY <1>2, <1>3

----------------------------------------------------------------------------
\* Both constructors start from what no option asks for.
LEMMA Start == Init => OInv
<1> SUFFICES ASSUME Init PROVE OInv
  OBVIOUS
<1>1. opts \in Seq(Pairs) /\ DOMAIN opts = {}
  BY DEF Init
<1>2. ASSUME NEW field, NEW default PROVE Wanted(field, default) = default
  BY <1>1 DEF Wanted
<1>3. ASSUME kind = "client" PROVE obj \in ClientObject
  BY <1>3 DEF Init, ClientDefaults, ClientObject, Thing, URL
<1>4. ASSUME kind = "solver"
      PROVE  IsRecord(obj, SolverFields) /\ AsAsked(obj) /\ Supplied(obj)
  <2>1. IsRecord(obj, SolverFields)
    BY <1>4 DEF Init, SolverDefaults, IsRecord, SolverFields
  <2>2. AsAsked(obj) /\ Supplied(obj)
    BY <1>2, <1>4 DEF Init, SolverDefaults, AsAsked, Supplied
  <2> QED BY <2>1, <2>2
<1> QED BY <1>1, <1>3, <1>4 DEF OInv, Init

\* One more pair at the end of the options.
LEMMA PairAppended ==
  ASSUME NEW s \in Seq(Pairs), NEW f \in Fields, NEW v \in Arguments
  PROVE  s \o <<<<f, v>>>> \in Seq(Pairs)
<1>1. <<f, v>> \in Pairs
  BY DEF Pairs
<1>2. ASSUME NEW S, NEW t \in Seq(S), NEW p \in S PROVE t \o <<p>> \in Seq(S)
  OBVIOUS
<1> QED BY <1>1, <1>2

\* Every option of the client keeps its fields typed, numbers positive.
LEMMA ClientStep == OInv /\ ClientOption => OInv'
<1> SUFFICES ASSUME OInv, ClientOption PROVE OInv'
  OBVIOUS
<1>1. /\ kind = "client" /\ pc = "options" /\ obj \in ClientObject /\ opts \in Seq(Pairs)
      /\ kind' = kind /\ pc' = pc
  BY Zenon DEF OInv, ClientOption, Apply
<1>2. Numbers \subseteq Int
  BY OptionsAssumption DEF Numbers
<1>3. CASE \E v \in Things \cup {Nil} :
             \/ Apply("client", WithHTTPClient(obj, v), <<<<"httpClient", v>>>>)
             \/ Apply("client", ClientWithLogger(obj, v), <<<<"logger", v>>>>)
             \/ Apply("client", ClientWithClock(obj, v), <<<<"clock", v>>>>)
             \/ Apply("client", WithUserAgent(obj, v), <<<<"userAgent", v>>>>)
  <2>1. PICK v \in Things \cup {Nil},
             f \in {"httpClient", "logger", "clock", "userAgent"} :
          obj' = IfGiven(obj, f, v) /\ opts' = opts \o <<<<f, v>>>>
    BY <1>3 DEF Apply, WithHTTPClient, ClientWithLogger, ClientWithClock, WithUserAgent
  <2>2. obj' \in ClientObject
    BY <1>1, <2>1 DEF IfGiven, ClientObject, Thing
  <2>3. opts' \in Seq(Pairs)
    <3>1. f \in Fields /\ v \in Arguments
      BY DEF Arguments, Fields
    <3> QED BY <1>1, <2>1, <3>1, PairAppended
  <2> QED BY <1>1, <2>2, <2>3 DEF OInv
<1>4. CASE \E n \in Numbers :
             Apply("client", WithRequestTimeout(obj, n), <<<<"requestTimeout", n>>>>)
  <2>1. PICK n \in Numbers :
          obj' = WithRequestTimeout(obj, n) /\ opts' = opts \o <<<<"requestTimeout", n>>>>
    BY <1>4 DEF Apply
  <2>2. obj' \in ClientObject
    <3>1. obj' = obj \/ (n > 0 /\ obj' = [obj EXCEPT !.requestTimeout = n])
      BY <2>1 DEF WithRequestTimeout, IfPositive
    <3>2. n > 0 => n \in Nat \ {0}
      BY <1>2
    <3>3. ASSUME NEW m \in Nat \ {0} PROVE [obj EXCEPT !.requestTimeout = m] \in ClientObject
      BY <1>1 DEF ClientObject
    <3> QED BY <1>1, <3>1, <3>2, <3>3
  <2>3. opts' \in Seq(Pairs)
    <3>1. "requestTimeout" \in Fields /\ "maxRetries" \in Fields /\ n \in Arguments
      BY DEF Arguments, Fields
    <3> QED BY <1>1, <2>1, <3>1, PairAppended
  <2> QED BY <1>1, <2>2, <2>3 DEF OInv
<1>5. CASE \E n \in Numbers :
             Apply("client", WithMaxRetries(obj, n), <<<<"maxRetries", n>>>>)
  <2>1. PICK n \in Numbers :
          obj' = WithMaxRetries(obj, n) /\ opts' = opts \o <<<<"maxRetries", n>>>>
    BY <1>5 DEF Apply
  <2>2. obj' \in ClientObject
    <3>1. obj' = obj \/ (n >= 0 /\ obj' = [obj EXCEPT !.maxRetries = n])
      BY <2>1 DEF WithMaxRetries
    <3>2. n >= 0 => n \in Nat
      BY <1>2
    <3>3. ASSUME NEW m \in Nat PROVE [obj EXCEPT !.maxRetries = m] \in ClientObject
      BY <1>1 DEF ClientObject
    <3> QED BY <1>1, <3>1, <3>2, <3>3
  <2>3. opts' \in Seq(Pairs)
    <3>1. "requestTimeout" \in Fields /\ "maxRetries" \in Fields /\ n \in Arguments
      BY DEF Arguments, Fields
    <3> QED BY <1>1, <2>1, <3>1, PairAppended
  <2> QED BY <1>1, <2>2, <2>3 DEF OInv
<1>6. CASE \E n, m \in Numbers : Apply("client", WithBackoff(obj, n, m),
             <<<<"initialBackoff", n>>, <<"maxBackoff", m>>>>)
  <2>1. PICK n \in Numbers, m \in Numbers :
          /\ obj' = WithBackoff(obj, n, m)
          /\ opts' = opts \o <<<<"initialBackoff", n>>, <<"maxBackoff", m>>>>
    BY <1>6 DEF Apply
  <2>2. obj' \in ClientObject
    <3>1. IfPositive(obj, "initialBackoff", n) \in ClientObject
      BY <1>1, <1>2 DEF ClientObject, IfPositive
    <3>2. ASSUME NEW o \in ClientObject PROVE IfPositive(o, "maxBackoff", m) \in ClientObject
      BY <1>2 DEF ClientObject, IfPositive
    <3> QED BY <2>1, <3>1, <3>2 DEF WithBackoff
  <2>3. opts' \in Seq(Pairs)
    <3>1. <<"initialBackoff", n>> \in Pairs /\ <<"maxBackoff", m>> \in Pairs
      BY DEF Pairs, Arguments, Fields
    <3>2. ASSUME NEW S, NEW s \in Seq(S), NEW p \in S, NEW q \in S
          PROVE  s \o <<p, q>> \in Seq(S)
      OBVIOUS
    <3> QED BY <1>1, <2>1, <3>1, <3>2, Zenon
  <2> QED BY <1>1, <2>2, <2>3 DEF OInv
<1>7. CASE \E u \in URLs : Apply("client", WithBaseURL(obj, u), <<<<"baseURL", u>>>>)
  <2>1. PICK u \in URLs : obj' = WithBaseURL(obj, u) /\ opts' = opts \o <<<<"baseURL", u>>>>
    BY <1>7 DEF Apply
  <2>2. TrimSlashes(u) \in [front : Thing, slashes : {0}]
    BY DEF TrimSlashes, URLs, URL, Thing
  <2>3. obj' \in ClientObject
    <3>1. obj' = obj \/ obj' = [obj EXCEPT !.baseURL = TrimSlashes(u)]
      BY <2>1 DEF WithBaseURL
    <3>2. ASSUME NEW b \in [front : Thing, slashes : {0}]
          PROVE  [obj EXCEPT !.baseURL = b] \in ClientObject
      BY <1>1 DEF ClientObject
    <3> QED BY <1>1, <2>2, <3>1, <3>2
  <2>4. opts' \in Seq(Pairs)
    <3>1. "baseURL" \in Fields /\ u \in Arguments
      BY DEF Arguments, Fields
    <3> QED BY <1>1, <2>1, <3>1, PairAppended
  <2> QED BY <1>1, <2>3, <2>4 DEF OInv
<1> QED BY <1>3, <1>4, <1>5, <1>6, <1>7 DEF ClientOption

\* An option of the Solver that sets one field to its argument when that is
\* valid, and the clock of the cache with its own clock.
LEMMA SolverSet ==
  ASSUME OInv, kind = "solver", pc = "options",
         NEW f \in SolverFields \ {"zonesNow"}, NEW v \in Arguments,
         opts' = opts \o <<<<f, v>>>>, kind' = kind, pc' = pc,
         ~Valid(f, v) => obj' = obj,
         Valid(f, v) /\ f \notin {"now", "zonesTTL"} => obj' = [obj EXCEPT ![f] = v],
         Valid(f, v) /\ f = "now" => obj' = [obj EXCEPT !.now = v, !.zonesNow = v],
         Valid(f, v) /\ f = "zonesTTL" => obj' = [obj EXCEPT !.zonesTTL = v, !.zonesNow = obj.now]
  PROVE  OInv'
<1>1. /\ opts \in Seq(Pairs) /\ IsRecord(obj, SolverFields) /\ AsAsked(obj)
      /\ obj.clientFactory = Wanted("clientFactory", Nil)
      /\ obj.secrets = Wanted("secrets", Nil)
  BY DEF OInv, Supplied
<1>2. ASSUME NEW field, NEW default
      PROVE  Wanted(field, default)' =
               IF f = field /\ Valid(field, v) THEN v ELSE Wanted(field, default)
  BY <1>1, OneMore
<1>3. opts' \in Seq(Pairs)
  <2>1. f \in Fields
    BY DEF Fields
  <2> QED BY <1>1, <2>1, PairAppended
<1>4. IsRecord(obj', SolverFields)
  BY <1>1 DEF IsRecord, SolverFields
<1>5. /\ obj'.zonesNow = obj'.now
      /\ \A x \in SolverFields \ {"zonesNow"} :
           obj'[x] = IF f = x /\ Valid(x, v) THEN v ELSE obj[x]
  <2>1. CASE ~Valid(f, v)
    BY <1>1, <2>1 DEF AsAsked
  <2>2. CASE Valid(f, v) /\ f \notin {"now", "zonesTTL"}
    <3>1. obj' = [obj EXCEPT ![f] = v]
      BY <2>2
    <3>2. obj'[f] = v /\ \A x \in SolverFields \ {f} : obj'[x] = obj[x]
      <4>1. f \in SolverFields /\ DOMAIN obj = SolverFields
        BY <1>1 DEF IsRecord
      <4> QED BY <3>1, <4>1
    <3>3. "now" \in SolverFields \ {f} /\ "zonesNow" \in SolverFields \ {f}
      BY <2>2 DEF SolverFields
    <3>4. obj'.zonesNow = obj'.now
      BY <1>1, <3>2, <3>3 DEF AsAsked
    <3> QED BY <2>2, <3>2, <3>4
  <2>3. CASE Valid(f, v) /\ f = "now"
    <3>1. obj' = [obj EXCEPT !.now = v, !.zonesNow = v]
      BY <2>3
    <3>2. obj'.zonesNow = v /\ obj'.now = v
          /\ \A x \in SolverFields \ {"now", "zonesNow"} : obj'[x] = obj[x]
      BY <1>1, <3>1 DEF IsRecord, SolverFields
    <3> QED BY <2>3, <3>2
  <2>4. CASE Valid(f, v) /\ f = "zonesTTL"
    <3>1. obj' = [obj EXCEPT !.zonesTTL = v, !.zonesNow = obj.now]
      BY <2>4
    <3>2. obj'.zonesNow = obj.now /\ obj'.zonesTTL = v
          /\ \A x \in SolverFields \ {"zonesTTL", "zonesNow"} : obj'[x] = obj[x]
      BY <1>1, <3>1 DEF IsRecord, SolverFields
    <3>3. obj'.now = obj.now
      BY <3>2 DEF SolverFields
    <3> QED BY <2>4, <3>2, <3>3
  <2> QED BY <2>1, <2>2, <2>3, <2>4
<1>6. AsAsked(obj)'
  BY <1>1, <1>2, <1>5 DEF AsAsked, SolverFields
<1>7. Supplied(obj)'
  BY <1>1, <1>2, <1>5 DEF Supplied, SolverFields
<1> QED BY <1>3, <1>4, <1>6, <1>7 DEF OInv

\* Every option of the Solver leaves it as the options so far ask.
LEMMA SolverStep == OInv /\ SolverOption => OInv'
<1> SUFFICES ASSUME OInv, SolverOption PROVE OInv'
  OBVIOUS
<1>1. kind = "solver" /\ pc = "options" /\ kind' = kind /\ pc' = pc
  BY DEF SolverOption, Apply
<1>2. ASSUME NEW v \in Things \cup {Nil},
             NEW f \in {"logger", "clientFactory", "secrets"},
             obj' = IfGiven(obj, f, v), opts' = opts \o <<<<f, v>>>>
      PROVE  OInv'
  <2>1. f \in SolverFields \ {"zonesNow"} /\ v \in Arguments
    BY DEF SolverFields, Arguments
  <2>2. /\ f \notin {"now", "zonesTTL"}
        /\ ~Valid(f, v) => obj' = obj
        /\ Valid(f, v) => obj' = [obj EXCEPT ![f] = v]
    BY <1>2 DEF Valid, IfGiven
  <2> QED BY <1>1, <1>2, <2>1, <2>2, SolverSet
<1>3. ASSUME NEW v \in Things \cup {Nil},
             obj' = WithClock(obj, v), opts' = opts \o <<<<"now", v>>>>
      PROVE  OInv'
  <2>1. "now" \in SolverFields \ {"zonesNow"} /\ v \in Arguments
    BY DEF SolverFields, Arguments
  <2>2. /\ ~Valid("now", v) => obj' = obj
        /\ Valid("now", v) => obj' = [obj EXCEPT !.now = v, !.zonesNow = v]
    BY <1>3 DEF Valid, WithClock
  <2> QED BY <1>1, <1>3, <2>1, <2>2, SolverSet
<1>4. ASSUME NEW n \in Numbers,
             obj' = WithZoneCacheTTL(obj, n), opts' = opts \o <<<<"zonesTTL", n>>>>
      PROVE  OInv'
  <2>1. "zonesTTL" \in SolverFields \ {"zonesNow"} /\ n \in Arguments
    BY DEF SolverFields, Arguments
  <2>2. /\ ~Valid("zonesTTL", n) => obj' = obj
        /\ Valid("zonesTTL", n) => obj' = [obj EXCEPT !.zonesTTL = n, !.zonesNow = obj.now]
    BY <1>4 DEF Valid, WithZoneCacheTTL
  <2> QED BY <1>1, <1>4, <2>1, <2>2, SolverSet
<1>5. ASSUME NEW n \in Numbers, NEW f \in {"rrsetTTL", "requestBudget"},
             obj' = IfPositive(obj, f, n), opts' = opts \o <<<<f, n>>>>
      PROVE  OInv'
  <2>1. f \in SolverFields \ {"zonesNow"} /\ n \in Arguments
    BY DEF SolverFields, Arguments
  <2>2. /\ f \notin {"now", "zonesTTL"}
        /\ ~Valid(f, n) => obj' = obj
        /\ Valid(f, n) => obj' = [obj EXCEPT ![f] = n]
    BY <1>5 DEF Valid, IfPositive
  <2> QED BY <1>1, <1>5, <2>1, <2>2, SolverSet
<1> QED
  BY <1>2, <1>3, <1>4, <1>5 DEF SolverOption, Apply, WithLogger, WithClientFactory,
     WithSecretGetter, WithRRSetTTL, WithRequestBudget

\* New and Initialize: the default factory has the final logger, a given
\* factory and a given getter stay.
LEMMA Finish == OInv /\ (New \/ Initialize) => OInv'
<1> SUFFICES ASSUME OInv, New \/ Initialize PROVE OInv'
  OBVIOUS
<1>1. opts' = opts /\ kind' = kind /\ opts \in Seq(Pairs)
  BY DEF OInv, New, Initialize
<1>2. ASSUME NEW field, NEW default PROVE Wanted(field, default)' = Wanted(field, default)
  BY <1>1, Zenon DEF Wanted
<1>3. ASSUME New, kind = "solver" PROVE OInv'
  <2>1. IsRecord(obj, SolverFields) /\ AsAsked(obj) /\ pc' = "built" /\ obj' = DefaultFactory(obj)
        /\ obj.clientFactory = Wanted("clientFactory", Nil) /\ obj.secrets = Wanted("secrets", Nil)
    BY <1>3 DEF New, OInv, Supplied
  <2> DEFINE default == [ClientDefaults EXCEPT !.logger = Wanted("logger", "default")]
  <2>2. DefaultClientFactory(obj.logger) = default
    <3>1. obj.logger # Nil \/ obj.logger = "default"
      BY <1>1, <2>1, WantedSupplied DEF AsAsked
    <3>2. obj.logger = Wanted("logger", "default")
      BY <2>1 DEF AsAsked
    <3> QED BY <3>1, <3>2 DEF DefaultClientFactory, ClientWithLogger, IfGiven, ClientDefaults
  <2>3. IF Given("clientFactory") = {}
          THEN Wanted("clientFactory", Nil) = Nil /\ Wanted("clientFactory", default) = default
          ELSE /\ Wanted("clientFactory", Nil) # Nil
               /\ Wanted("clientFactory", default) = Wanted("clientFactory", Nil)
    BY <1>1, WantedSupplied
  <2>4. IsRecord(obj', SolverFields) /\ obj'.clientFactory = Wanted("clientFactory", default)
        /\ \A x \in SolverFields \ {"clientFactory"} : obj'[x] = obj[x]
    <3> HIDE DEF default
    <3>1. "clientFactory" \in SolverFields
      BY DEF SolverFields
    <3> QED BY <2>1, <2>2, <2>3, <3>1 DEF DefaultFactory, IsRecord
  <2>5. AsAsked(obj)'
    BY <1>2, <2>1, <2>4 DEF AsAsked, SolverFields
  <2>6. Supplied(obj)'
    BY <1>2, <2>1, <2>4 DEF Supplied, SolverFields
  <2> QED BY <1>1, <1>3, <2>1, <2>4, <2>5, <2>6 DEF OInv
<1>4. ASSUME New, kind # "solver" PROVE OInv'
  BY <1>1, <1>4 DEF New, OInv
<1>5. ASSUME Initialize PROVE OInv'
  <2>1. IsRecord(obj, SolverFields) /\ AsAsked(obj) /\ Supplied(obj) /\ kind = "solver"
        /\ pc = "built" /\ pc' = pc
    BY <1>5 DEF Initialize, OInv
  <2>2. obj' = obj \/ (obj.secrets = Nil /\ obj' = [obj EXCEPT !.secrets = "kube"])
    BY <1>5 DEF Initialize, InitializeSecrets
  <2>3. IsRecord(obj', SolverFields) /\ (obj.secrets # Nil => obj'.secrets = obj.secrets)
        /\ \A x \in SolverFields \ {"secrets"} : obj'[x] = obj[x]
    BY <2>1, <2>2 DEF IsRecord, SolverFields
  <2>4. AsAsked(obj)'
    BY <1>2, <2>1, <2>3 DEF AsAsked, SolverFields
  <2>5. Supplied(obj)'
    BY <1>2, <2>1, <2>3 DEF Supplied, SolverFields
  <2> QED BY <1>1, <2>1, <2>3, <2>4, <2>5 DEF OInv
<1> QED BY <1>3, <1>4, <1>5

\* All the facts together hold in every reachable state.
LEMMA OptionsInvariant == Spec => []OInv
<1>1. OInv /\ UNCHANGED vars => OInv'
  <2> SUFFICES ASSUME OInv, UNCHANGED vars PROVE OInv'
    OBVIOUS
  <2>1. opts' = opts /\ kind' = kind /\ pc' = pc /\ obj' = obj
    BY DEF vars
  <2>2. ASSUME NEW field, NEW default PROVE Wanted(field, default)' = Wanted(field, default)
    BY <2>1, Zenon DEF Wanted
  <2>3. AsAsked(obj)' = AsAsked(obj)
    BY <2>1, <2>2 DEF AsAsked
  <2>4. Supplied(obj)' = Supplied(obj)
    BY <2>1, <2>2 DEF Supplied
  <2> QED BY <2>1, <2>3, <2>4 DEF OInv
<1>2. OInv /\ [Next]_vars => OInv'
  BY <1>1, ClientStep, SolverStep, Finish DEF Next
<1> QED BY <1>2, Start, PTL DEF Spec

\* A finished Solver has the last valid value of each option, whatever their
\* number and order: its zone cache runs on its own clock with the configured
\* TTL, and the default client factory has the final logger.
THEOREM OptionsSolverCoherent == Spec => []SolverCoherent
<1>1. OInv => SolverCoherent
  BY DEF OInv, AsAsked, Supplied, SolverCoherent
<1> QED BY <1>1, OptionsInvariant, PTL

\* A client built with any options, valid or not, can work: no negative number
\* of retries, and positive backoffs and timeout.
THEOREM OptionsClientUsable == Spec => []ClientUsable
<1>1. OInv => ClientUsable
  BY DEF OInv, ClientObject, ClientUsable
<1> QED BY <1>1, OptionsInvariant, PTL

=============================================================================
