------------------------- MODULE HcloudClientProofs -------------------------
(***************************************************************************)
(* How long a call of the Hetzner client lasts, how long it waits between  *)
(* attempts and when it gives up, for every configuration of the client    *)
(* and every behaviour of the server.                                      *)
(***************************************************************************)
EXTENDS HcloudClient, WellFoundedInduction, TLAPS

Longest == Greater(InitialBackoff, MaxBackoff)

\* The time used: before an attempt, as many attempts and delays as rounds
\* have passed; before a Sleep, one delay less.
Elapsed ==
  /\ pc = "attempt" => now <= attempt * RequestTimeout + attempt * Longest
  /\ pc = "sleep" =>
       attempt > 0 /\ now <= attempt * RequestTimeout + (attempt - 1) * Longest
  /\ pc = "returned" => now <= (attempt + 1) * RequestTimeout + attempt * Longest

CInv ==
  /\ pc \in {"attempt", "sleep", "returned"}
  /\ now \in Nat /\ deadline \in Nat /\ now <= deadline
  /\ attempt \in 0..MaxRetries
  /\ delay \in Int /\ delay <= Longest
  /\ Elapsed
  /\ GivesUpOnlyWhenSpent

----------------------------------------------------------------------------
\* Induction: a set of naturals with zero and successors is all of them.
LEMMA SetInduction ==
  ASSUME NEW T \in SUBSET Nat, 0 \in T, \A n \in T : n + 1 \in T
  PROVE  T = Nat
<1> DEFINE less == OpToRel(<, Nat)
           rest == Nat \ T
<1>1. IsWellFoundedOn(less, Nat)
  BY NatLessThanWellFounded, Zenon
<1> HIDE DEF less
<1> SUFFICES ASSUME rest # {} PROVE FALSE
  OBVIOUS
<1>2. PICK x \in rest : \A y \in rest : <<y, x>> \notin less
  BY <1>1, WFMin, Zenon
<1>3. x - 1 \in Nat /\ x - 1 < x
  OBVIOUS
<1>4. <<x - 1, x>> \in less
  BY <1>3 DEF less, OpToRel
<1>5. x - 1 \in T
  BY <1>2, <1>3, <1>4
<1> QED BY <1>5

\* Recursion: a start value and a step function define a sequence.
LEMMA Recursion ==
  ASSUME NEW a \in Int, NEW g \in [Int -> Int]
  PROVE  \E f \in [Nat -> Int] : f[0] = a /\ \A n \in Nat : f[n + 1] = g[f[n]]
<1> DEFINE Upto(n, f) ==
             f \in [0..n -> Int] /\ f[0] = a /\ \A i \in 0..(n - 1) : f[i + 1] = g[f[i]]
           T == {n \in Nat : \E f : Upto(n, f)}
           U == {k \in Nat : \A n, m \in Nat : \A f, h :
                               Upto(n, f) /\ Upto(m, h) /\ k <= n /\ k <= m => f[k] = h[k]}
<1>1. T = Nat
  <2>1. 0 \in T
    <3>1. Upto(0, [i \in 0..0 |-> a])
      OBVIOUS
    <3> QED BY <3>1
  <2>2. ASSUME NEW n \in T PROVE n + 1 \in T
    <3>1. PICK f : Upto(n, f)
      OBVIOUS
    <3> DEFINE h == [i \in 0..(n + 1) |-> IF i = n + 1 THEN g[f[n]] ELSE f[i]]
    <3>2. h \in [0..(n + 1) -> Int] /\ h[0] = a
      BY <3>1
    <3>3. ASSUME NEW i \in 0..n PROVE h[i + 1] = g[h[i]]
      <4>1. h[i] = f[i]
        OBVIOUS
      <4>2. CASE i = n
        BY <4>1, <4>2
      <4>3. CASE i # n
        BY <3>1, <4>1, <4>3
      <4> QED BY <4>2, <4>3
    <3> HIDE DEF h
    <3>4. (n + 1) - 1 = n
      OBVIOUS
    <3>5. Upto(n + 1, h)
      BY <3>2, <3>3, <3>4
    <3> HIDE DEF Upto
    <3>6. n + 1 \in Nat
      OBVIOUS
    <3> QED BY <3>5, <3>6
  <2> HIDE DEF T
  <2>3. T \in SUBSET Nat
    BY DEF T
  <2> QED BY <2>1, <2>2, <2>3, SetInduction
<1>2. U = Nat
  <2>1. 0 \in U
    OBVIOUS
  <2>2. ASSUME NEW k \in U PROVE k + 1 \in U
    <3>1. ASSUME NEW n \in Nat, NEW m \in Nat, NEW f, NEW h, Upto(n, f), Upto(m, h),
                 k + 1 <= n, k + 1 <= m
          PROVE  f[k + 1] = h[k + 1]
      <4>1. k \in Nat /\ k <= n /\ k <= m /\ k \in 0..(n - 1) /\ k \in 0..(m - 1)
        BY <3>1
      <4>2. f[k] = h[k]
        <5> HIDE DEF Upto
        <5> QED BY <3>1, <4>1
      <4> QED BY <3>1, <4>1, <4>2
    <3>2. k + 1 \in Nat
      OBVIOUS
    <3> HIDE DEF Upto
    <3> QED BY <3>1, <3>2
  <2> HIDE DEF U
  <2>3. U \in SUBSET Nat
    BY DEF U
  <2> QED BY <2>1, <2>2, <2>3, SetInduction
<1> DEFINE pick == [n \in Nat |-> CHOOSE f : Upto(n, f)]
           F == [n \in Nat |-> pick[n][n]]
<1>3. ASSUME NEW n \in Nat PROVE Upto(n, pick[n])
  <2>1. \E f : Upto(n, f)
    BY <1>1
  <2> HIDE DEF Upto
  <2> QED BY <2>1
<1> HIDE DEF pick
<1>4. ASSUME NEW n \in Nat PROVE F[n] \in Int
  BY <1>3
<1>5. F[0] = a
  BY <1>3
<1>6. ASSUME NEW n \in Nat PROVE F[n + 1] = g[F[n]]
  <2>1. pick[n + 1][n + 1] = g[pick[n + 1][n]]
    BY <1>3
  <2>2. pick[n + 1][n] = pick[n][n]
    <3>1. n <= n /\ n <= n + 1 /\ n + 1 \in Nat
      OBVIOUS
    <3> HIDE DEF Upto
    <3>2. Upto(n, pick[n]) /\ Upto(n + 1, pick[n + 1])
      BY <1>3, <3>1
    <3>3. \A i, j \in Nat : \A f, h :
            Upto(i, f) /\ Upto(j, h) /\ n <= i /\ n <= j => f[n] = h[n]
      BY <1>2
    <3> QED BY <3>1, <3>2, <3>3
  <2> QED BY <2>1, <2>2
<1>7. F \in [Nat -> Int]
  BY <1>4
<1> QED BY <1>5, <1>6, <1>7

\* What the assumption says of the derived constants.
LEMMA Constants ==
  /\ MaxInt \in Int /\ MinInt \in Int /\ MinInt < 0 /\ MinInt = -(MaxInt + 1)
  /\ InitialBackoff <= MaxInt
  /\ Longest \in Nat /\ InitialBackoff <= Longest /\ MaxBackoff <= Longest
BY ClientAssumption DEF MaxInt, MinInt, Longest, Greater

\* int64 arithmetic: the result is an integer, and exact within the range.
LEMMA WrapExact ==
  ASSUME NEW n \in Int
  PROVE  Wrap(n) \in Int /\ (0 <= n /\ n <= MaxInt => Wrap(n) = n)
<1> DEFINE w == MaxInt - MinInt + 1
<1>1. w \in Int /\ w > 0
  BY Constants
<1>2. ASSUME NEW k \in Int, k > 0, NEW j \in Int
      PROVE  j % k \in Int /\ (0 <= j /\ j < k => j % k = j)
  BY <1>2
<1>3. (n - MinInt) \in Int
  BY Constants
<1>4. /\ (n - MinInt) % w \in Int
      /\ 0 <= n - MinInt /\ n - MinInt < w => (n - MinInt) % w = n - MinInt
  BY <1>1, <1>2, <1>3
<1>5. Wrap(n) = ((n - MinInt) % w) + MinInt
  BY DEF Wrap
<1> HIDE DEF w
<1>6. 0 <= n /\ n <= MaxInt => 0 <= n - MinInt /\ n - MinInt < w
  BY Constants DEF w
<1> QED BY <1>4, <1>5, <1>6, Constants

\* The doubling loop computes what its recursive definition says.
LEMMA GrownDef ==
  Grown[0] = InitialBackoff /\ \A n \in Nat : Grown[n] \in Int /\ Grown[n + 1] = Wrap(2 * Grown[n])
<1> DEFINE double == [x \in Int |-> Wrap(2 * x)]
           Def(G) == G = [n \in Nat |-> IF n = 0 THEN InitialBackoff ELSE Wrap(2 * G[n - 1])]
<1>1. double \in [Int -> Int] /\ InitialBackoff \in Int
  BY WrapExact, ClientAssumption
<1>2. PICK f \in [Nat -> Int] : f[0] = InitialBackoff /\ \A n \in Nat : f[n + 1] = double[f[n]]
  <2> HIDE DEF double
  <2> QED BY <1>1, Recursion
<1>3. ASSUME NEW n \in Nat
      PROVE  f[n] = IF n = 0 THEN InitialBackoff ELSE Wrap(2 * f[n - 1])
  <2>1. CASE n = 0
    BY <2>1, <1>2
  <2>2. CASE n # 0
    <3>1. n - 1 \in Nat /\ n = (n - 1) + 1 /\ f[n - 1] \in Int
      BY <2>2
    <3> QED BY <2>2, <3>1, <1>2
  <2> QED BY <2>1, <2>2
<1>4. Def(Grown)
  <2>1. Def(f)
    BY <1>3
  <2>2. Grown = CHOOSE G : Def(G)
    BY DEF Grown
  <2> HIDE DEF Def
  <2> QED BY <2>1, <2>2
<1>5. \A n \in Nat : Grown[n] = IF n = 0 THEN InitialBackoff ELSE Wrap(2 * Grown[n - 1])
  BY <1>4
<1>6. Grown[0] = InitialBackoff /\ \A n \in Nat : Grown[n + 1] = Wrap(2 * Grown[n])
  <2>1. ASSUME NEW n \in Nat PROVE n + 1 \in Nat /\ n + 1 # 0 /\ (n + 1) - 1 = n
    OBVIOUS
  <2> QED BY <1>5, <2>1
<1>7. \A n \in Nat : Grown[n] \in Int
  <2> DEFINE T == {n \in Nat : Grown[n] \in Int}
  <2>1. T \in SUBSET Nat /\ 0 \in T
    BY <1>1, <1>6
  <2>2. ASSUME NEW n \in T PROVE n + 1 \in T
    BY <1>6, WrapExact
  <2> HIDE DEF T
  <2>3. T = Nat
    BY <2>1, <2>2, SetInduction
  <2> QED BY <2>3 DEF T
<1> QED BY <1>6, <1>7

\* So do the powers of two, and they are positive.
LEMMA PowerDef ==
  /\ PowerOfTwo[0] = 1
  /\ \A n \in Nat : /\ PowerOfTwo[n] \in Int /\ PowerOfTwo[n] >= 1
                     /\ PowerOfTwo[n + 1] = 2 * PowerOfTwo[n]
<1> DEFINE double == [x \in Int |-> 2 * x]
           Def(G) == G = [n \in Nat |-> IF n = 0 THEN 1 ELSE 2 * G[n - 1]]
<1>1. double \in [Int -> Int] /\ 1 \in Int
  OBVIOUS
<1>2. PICK f \in [Nat -> Int] : f[0] = 1 /\ \A n \in Nat : f[n + 1] = double[f[n]]
  <2> HIDE DEF double
  <2> QED BY <1>1, Recursion
<1>3. ASSUME NEW n \in Nat
      PROVE  f[n] = IF n = 0 THEN 1 ELSE 2 * f[n - 1]
  <2>1. CASE n = 0
    BY <2>1, <1>2
  <2>2. CASE n # 0
    <3>1. n - 1 \in Nat /\ n = (n - 1) + 1 /\ f[n - 1] \in Int
      BY <2>2
    <3> QED BY <2>2, <3>1, <1>2
  <2> QED BY <2>1, <2>2
<1>4. Def(PowerOfTwo)
  <2>1. Def(f)
    BY <1>3
  <2>2. PowerOfTwo = CHOOSE G : Def(G)
    BY DEF PowerOfTwo
  <2> HIDE DEF Def
  <2> QED BY <2>1, <2>2
<1>5. \A n \in Nat : PowerOfTwo[n] = IF n = 0 THEN 1 ELSE 2 * PowerOfTwo[n - 1]
  BY <1>4
<1>6. PowerOfTwo[0] = 1 /\ \A n \in Nat : PowerOfTwo[n + 1] = 2 * PowerOfTwo[n]
  <2>1. ASSUME NEW n \in Nat PROVE n + 1 \in Nat /\ n + 1 # 0 /\ (n + 1) - 1 = n
    OBVIOUS
  <2> QED BY <1>5, <2>1
<1>7. \A n \in Nat : PowerOfTwo[n] \in Int /\ PowerOfTwo[n] >= 1
  <2> DEFINE T == {n \in Nat : PowerOfTwo[n] \in Int /\ PowerOfTwo[n] >= 1}
  <2>1. T \in SUBSET Nat /\ 0 \in T
    BY <1>1, <1>6
  <2>2. ASSUME NEW n \in T PROVE n + 1 \in T
    BY <1>6
  <2> HIDE DEF T
  <2>3. T = Nat
    BY <2>1, <2>2, SetInduction
  <2> QED BY <2>3 DEF T
<1> QED BY <1>6, <1>7

\* While no round of the loop has reached the cap, no doubling has overflowed.
LEMMA GrowsExactly ==
  ASSUME NEW n \in Nat, \A i \in 1..n : Grown[i] < MaxBackoff
  PROVE  /\ Grown[n] = InitialBackoff * PowerOfTwo[n]
         /\ Grown[n] > 0 /\ 2 * Grown[n] <= MaxInt
<1> DEFINE Below(k) == \A i \in 1..k : Grown[i] < MaxBackoff
           Exact(k) == /\ Grown[k] = InitialBackoff * PowerOfTwo[k]
                       /\ Grown[k] > 0 /\ 2 * Grown[k] <= MaxInt
           T == {k \in Nat : Below(k) => Exact(k)}
<1>1. T \in SUBSET Nat /\ 0 \in T
  BY GrownDef, PowerDef, ClientAssumption
<1>2. ASSUME NEW k \in T PROVE k + 1 \in T
  <2> SUFFICES ASSUME Below(k + 1) PROVE Exact(k + 1)
    OBVIOUS
  <2>1. Below(k) /\ Grown[k + 1] < MaxBackoff
    OBVIOUS
  <2>2. Exact(k) /\ Grown[k] \in Int /\ PowerOfTwo[k] \in Int
    BY <2>1, GrownDef, PowerDef
  <2>3. Grown[k + 1] = 2 * Grown[k]
    BY <2>2, GrownDef, WrapExact
  <2>4. InitialBackoff * PowerOfTwo[k + 1] = 2 * (InitialBackoff * PowerOfTwo[k])
    BY <2>2, PowerDef, ClientAssumption
  <2> QED BY <2>1, <2>2, <2>3, <2>4, Constants, ClientAssumption
<1> HIDE DEF T
<1>3. T = Nat
  BY <1>1, <1>2, SetInduction
<1> QED BY <1>3 DEF T

\* Once a round has reached the cap, the closed form is at or above it.
LEMMA CappedForGood ==
  ASSUME NEW n \in Nat, \E i \in 1..n : Grown[i] >= MaxBackoff
  PROVE  InitialBackoff * PowerOfTwo[n] >= MaxBackoff
<1> DEFINE Capped(k) == \E i \in 1..k : Grown[i] >= MaxBackoff
           T == {k \in Nat : Capped(k) => InitialBackoff * PowerOfTwo[k] >= MaxBackoff}
<1>1. T \in SUBSET Nat /\ 0 \in T
  OBVIOUS
<1>2. ASSUME NEW k \in T PROVE k + 1 \in T
  <2> SUFFICES ASSUME Capped(k + 1) PROVE InitialBackoff * PowerOfTwo[k + 1] >= MaxBackoff
    OBVIOUS
  <2>1. /\ PowerOfTwo[k] \in Int /\ PowerOfTwo[k] >= 1
        /\ InitialBackoff * PowerOfTwo[k + 1] = 2 * (InitialBackoff * PowerOfTwo[k])
    BY PowerDef, ClientAssumption
  <2>2. CASE Capped(k)
    <3>1. InitialBackoff * PowerOfTwo[k] >= MaxBackoff
      BY <2>2
    <3> QED BY <2>1, <3>1, ClientAssumption
  <2>3. CASE ~Capped(k)
    <3>1. Grown[k + 1] >= MaxBackoff
      BY <2>3
    <3>2. \A i \in 1..k : Grown[i] < MaxBackoff
      BY <2>3, GrownDef, ClientAssumption
    <3>3. /\ Grown[k] = InitialBackoff * PowerOfTwo[k] /\ Grown[k] \in Int
          /\ Grown[k] > 0 /\ 2 * Grown[k] <= MaxInt
      BY <3>2, GrowsExactly, GrownDef
    <3>4. Grown[k + 1] = 2 * Grown[k]
      BY <3>3, GrownDef, WrapExact
    <3> QED BY <2>1, <3>1, <3>3, <3>4
  <2> QED BY <2>2, <2>3
<1> HIDE DEF T
<1>3. T = Nat
  BY <1>1, <1>2, SetInduction
<1> QED BY <1>3 DEF T

\* The loop of backoffDelay and its closed form.
LEMMA BackoffClosedForm ==
  ASSUME NEW n \in 1..MaxRetries, NEW err, err.retryAfter \in Int, err.retryAfter <= 0
  PROVE  /\ BackoffDelay(n, err) =
              IF n = 1 THEN InitialBackoff
              ELSE Lesser(InitialBackoff * PowerOfTwo[n - 1], MaxBackoff)
         /\ BackoffDelay(n, err) > 0
<1>1. n \in Nat /\ n - 1 \in Nat /\ ~(err.retryAfter > 0)
  BY ClientAssumption
<1>2. CASE \E i \in 1..(n - 1) : Grown[i] >= MaxBackoff
  <2>1. n # 1 /\ BackoffDelay(n, err) = MaxBackoff
    BY <1>1, <1>2 DEF BackoffDelay
  <2>2. InitialBackoff * PowerOfTwo[n - 1] >= MaxBackoff /\ PowerOfTwo[n - 1] \in Int
    BY <1>1, <1>2, CappedForGood, PowerDef
  <2> QED BY <2>1, <2>2, ClientAssumption DEF Lesser
<1>3. CASE ~\E i \in 1..(n - 1) : Grown[i] >= MaxBackoff
  <2>1. BackoffDelay(n, err) = Grown[n - 1]
    BY <1>1, <1>3 DEF BackoffDelay
  <2>2. \A i \in 1..(n - 1) : Grown[i] < MaxBackoff
    BY <1>3, GrownDef, ClientAssumption
  <2>3. Grown[n - 1] = InitialBackoff * PowerOfTwo[n - 1] /\ Grown[n - 1] > 0
    BY <1>1, <2>2, GrowsExactly
  <2>4. CASE n = 1
    BY <2>1, <2>4, GrownDef, ClientAssumption
  <2>5. CASE n # 1
    <3>1. Grown[n - 1] < MaxBackoff
      BY <1>1, <2>2, <2>5
    <3> QED BY <2>1, <2>3, <2>5, <3>1 DEF Lesser
  <2> QED BY <2>4, <2>5
<1> QED BY <1>2, <1>3

\* Whatever the server asks for and however often the delay was doubled, no
\* delay is longer than the larger backoff.
LEMMA DelayUpperBound ==
  ASSUME NEW n \in 1..MaxRetries, NEW err, err.retryAfter \in Int
  PROVE  BackoffDelay(n, err) \in Int /\ BackoffDelay(n, err) <= Longest
<1>1. CASE err.retryAfter > 0
  BY <1>1, Constants, ClientAssumption DEF BackoffDelay, Lesser
<1>2. ASSUME NEW i \in Nat PROVE Grown[i] \in Int
  BY GrownDef
<1>3. Grown[0] = InitialBackoff
  BY GrownDef
<1>4. CASE ~(err.retryAfter > 0) /\ \E i \in 1..(n - 1) : Grown[i] >= MaxBackoff
  BY <1>4, Constants, ClientAssumption DEF BackoffDelay
<1>5. CASE ~(err.retryAfter > 0) /\ ~\E i \in 1..(n - 1) : Grown[i] >= MaxBackoff
  <2>1. BackoffDelay(n, err) = Grown[n - 1] /\ n - 1 \in Nat
    BY <1>5, ClientAssumption DEF BackoffDelay
  <2>2. CASE n = 1
    BY <2>1, <2>2, <1>3, Constants, ClientAssumption
  <2>3. CASE n # 1
    <3>1. n - 1 \in 1..(n - 1)
      BY <2>3, ClientAssumption
    <3>2. ~(Grown[n - 1] >= MaxBackoff)
      BY <3>1, <1>5
    <3> QED BY <2>1, <3>2, <1>2, Constants, ClientAssumption
  <2> QED BY <2>2, <2>3
<1> QED BY <1>1, <1>4, <1>5

\* What parseRetryAfter returns is an integer.
LEMMA ParsedIsInt ==
  ASSUME NEW header \in RetryAfters, NEW t \in Int
  PROVE  ParseRetryAfter(header, t) \in Int
<1>1. header.n \in Int /\ header.kind \in {"delta", "date", "none"}
  BY ClientAssumption
<1>2. Wrap(header.n * Second) \in Int
  BY <1>1, ClientAssumption, WrapExact
<1>3. Greater(Saturate(header.n - t), 0) \in Int
  BY <1>1, Constants DEF Greater, Saturate
<1> QED BY <1>1, <1>2, <1>3 DEF ParseRetryAfter

\* An attempt ends between its start and the deadline.
LEMMA EndsInTime ==
  ASSUME CInv, NEW t \in Ends
  PROVE  t \in Nat /\ t <= deadline /\ t <= now + RequestTimeout
BY ClientAssumption DEF CInv, Ends, AttemptEnd, Lesser, Greater

\* The loop's reaction to an attempt that ends in time.
LEMMA AfterAttemptStep ==
  ASSUME CInv, pc = "attempt", NEW err, err.retryAfter \in Int, err.kind # "context",
         AfterAttempt(err), now' \in Nat, now' <= deadline, now' <= now + RequestTimeout,
         UNCHANGED deadline
  PROVE  CInv'
<1>1. /\ now \in Nat /\ deadline \in Nat /\ attempt \in 0..MaxRetries
      /\ delay \in Int /\ delay <= Longest
      /\ now <= attempt * RequestTimeout + attempt * Longest
  BY DEF CInv, Elapsed
<1>2. UNCHANGED Longest
  BY DEF Longest, Greater
<1>3. now' <= (attempt + 1) * RequestTimeout + attempt * Longest
  BY <1>1, Constants, ClientAssumption
<1>4. CASE IsRetryable(err) /\ attempt < MaxRetries
  <2>1. pc' = "sleep" /\ attempt' = attempt + 1 /\ delay' = BackoffDelay(attempt + 1, err)
    BY <1>4 DEF AfterAttempt, Retry
  <2>2. attempt + 1 \in 1..MaxRetries
    BY <1>1, <1>4, ClientAssumption
  <2>3. delay' \in Int /\ delay' <= Longest
    BY <2>1, <2>2, DelayUpperBound
  <2>4. Elapsed'
    BY <2>1, <1>1, <1>2, <1>3, Constants, ClientAssumption DEF Elapsed
  <2>5. GivesUpOnlyWhenSpent'
    BY <2>1 DEF GivesUpOnlyWhenSpent
  <2> QED BY <2>1, <2>2, <2>3, <2>4, <2>5, <1>1, <1>2, ClientAssumption DEF CInv
<1>5. CASE ~(IsRetryable(err) /\ attempt < MaxRetries)
  <2>1. pc' = "returned" /\ result' = err /\ UNCHANGED <<attempt, delay>>
    BY <1>5 DEF AfterAttempt, Return
  <2>2. Elapsed'
    BY <2>1, <1>2, <1>3 DEF Elapsed
  <2>3. IsRetryable(err) => attempt = MaxRetries
    BY <1>1, <1>5, ClientAssumption
  <2>4. err # ContextErr
    BY DEF ContextErr
  <2>5. GivesUpOnlyWhenSpent'
    BY <2>1, <2>3, <2>4 DEF GivesUpOnlyWhenSpent, IsRetryable, ContextErr
  <2> QED BY <2>1, <2>2, <2>5, <1>1, <1>2 DEF CInv
<1> QED BY <1>4, <1>5

\* Every outcome of an attempt keeps the invariant.
LEMMA DoOnceStep ==
  ASSUME CInv, DoOnce
  PROVE  CInv'
<1> USE DEF APIError, Nil, Plain
<1>1. CASE NotSent
  BY <1>1, AfterAttemptStep, ClientAssumption DEF NotSent, CInv
<1>2. CASE TransportError
  BY <1>2, AfterAttemptStep, EndsInTime DEF TransportError
<1>3. CASE Succeed
  BY <1>3, AfterAttemptStep, EndsInTime DEF Succeed
<1>4. ASSUME NEW status \in Statuses, Refuse(status)
      PROVE  CInv'
  <2>1. PICK t \in Ends :
          /\ now' = t
          /\ IF status = 429
               THEN \E header \in RetryAfters :
                      AfterAttempt(APIError(429, ParseRetryAfter(header, t)))
               ELSE AfterAttempt(APIError(status, 0))
    BY <1>4 DEF Refuse
  <2>2. now' \in Nat /\ now' <= deadline /\ now' <= now + RequestTimeout
    BY <2>1, EndsInTime
  <2>3. pc = "attempt" /\ UNCHANGED deadline
    BY <1>4 DEF Refuse
  <2>4. \E err : err.retryAfter \in Int /\ err.kind # "context" /\ AfterAttempt(err)
    <3>1. CASE status # 429
      BY <2>1, <3>1
    <3>2. CASE status = 429
      <4>1. PICK header \in RetryAfters : AfterAttempt(APIError(429, ParseRetryAfter(header, t)))
        BY <2>1, <3>2
      <4>2. ParseRetryAfter(header, t) \in Int
        BY <2>1, <2>2, ParsedIsInt
      <4> HIDE DEF APIError
      <4>3. /\ APIError(429, ParseRetryAfter(header, t)).retryAfter \in Int
            /\ APIError(429, ParseRetryAfter(header, t)).kind # "context"
        BY <4>2 DEF APIError
      <4> QED BY <4>1, <4>3
    <3> QED BY <3>1, <3>2
  <2> QED BY <2>2, <2>3, <2>4, AfterAttemptStep
<1> QED BY <1>1, <1>2, <1>3, <1>4 DEF DoOnce

\* So does the end of a Sleep, by its timer or by the context.
LEMMA SleepStep ==
  ASSUME CInv, Wake \/ CutShort
  PROVE  CInv'
<1>1. /\ now \in Nat /\ deadline \in Nat /\ attempt \in 0..MaxRetries /\ now <= deadline
      /\ delay \in Int /\ delay <= Longest /\ pc = "sleep" /\ attempt > 0
      /\ now <= attempt * RequestTimeout + (attempt - 1) * Longest
  BY DEF CInv, Elapsed, Wake, CutShort
<1>2. UNCHANGED <<deadline, attempt, delay, Longest>>
  BY DEF Wake, CutShort, Return, Longest, Greater
<1>3. now' \in Nat /\ now' <= deadline /\ now' <= now + Greater(delay, 0)
  BY <1>1 DEF Wake, CutShort, Greater
<1>4. now + Greater(delay, 0) <= now + Longest
  BY <1>1, Constants DEF Greater
<1>5. now' <= attempt * RequestTimeout + attempt * Longest
  BY <1>1, <1>3, <1>4, Constants, ClientAssumption DEF Greater
<1>6. attempt * RequestTimeout <= (attempt + 1) * RequestTimeout
  BY <1>1, ClientAssumption
<1>7. Elapsed'
  BY <1>1, <1>2, <1>3, <1>5, <1>6, Constants, ClientAssumption DEF Elapsed, Wake, CutShort, Return
<1>8. GivesUpOnlyWhenSpent'
  BY <1>1 DEF GivesUpOnlyWhenSpent, Wake, CutShort, Return, Greater, ContextErr
<1> QED BY <1>1, <1>2, <1>3, <1>7, <1>8 DEF CInv, Wake, CutShort, Return

\* The inductive invariant of a call.
LEMMA CallInvariant == Spec => []CInv
<1>1. Init => CInv
  BY ClientAssumption, Constants DEF Init, CInv, Elapsed, GivesUpOnlyWhenSpent
<1>2. CInv /\ [Next]_vars => CInv'
  <2> SUFFICES ASSUME CInv, [Next]_vars PROVE CInv'
    OBVIOUS
  <2>1. CASE UNCHANGED vars
    BY <2>1 DEF vars, CInv, Elapsed, GivesUpOnlyWhenSpent, Longest, Greater
  <2> QED BY <2>1, DoOnceStep, SleepStep DEF Next
<1> QED BY <1>1, <1>2, PTL DEF Spec

\* do is back by its context's deadline, and within its attempts' timeouts and
\* the capped delays between them even without one.
THEOREM CallBackInTime == Spec => []BackInTime
<1>1. CInv => BackInTime
  <2> SUFFICES ASSUME CInv PROVE BackInTime
    OBVIOUS
  <2>1. now \in Nat /\ attempt \in Nat /\ now <= deadline /\ Elapsed
    BY ClientAssumption DEF CInv
  <2>2. now <= (attempt + 1) * RequestTimeout + attempt * Longest
    BY <2>1, Constants, ClientAssumption DEF Elapsed, CInv
  <2> QED BY <2>1, <2>2 DEF BackInTime, Longest
<1> QED BY <1>1, CallInvariant, PTL

\* do gives up on a retryable failure only when its retries are used up, and
\* reports the context's error only at the deadline.
THEOREM CallGivesUpOnlyWhenSpent == Spec => []GivesUpOnlyWhenSpent
<1>1. CInv => GivesUpOnlyWhenSpent
  BY DEF CInv
<1> QED BY <1>1, CallInvariant, PTL

\* A header that asks for no more than a duration holds is parsed exactly.
LEMMA ParsedExactly ==
  ASSUME NEW header \in RetryAfters, NEW t \in Int, Asked(header, t) \in 1..MaxInt
  PROVE  ParseRetryAfter(header, t) = Asked(header, t)
<1>1. header.n \in Int /\ header.kind \in {"delta", "date", "none"}
  BY ClientAssumption
<1>2. CASE header.kind = "delta"
  <2> DEFINE asked == header.n * Second
  <2>1. asked \in 1..MaxInt /\ Asked(header, t) = asked
    BY <1>1, <1>2, Constants, ClientAssumption DEF Asked, Greater
  <2>2. header.n > 0 /\ Second > 0
    BY <1>1, <2>1, ClientAssumption, Constants
  <2>3. header.n <= asked
    BY <1>1, <2>2, ClientAssumption
  <2>4. header.n \in 0..MaxInt
    BY <1>1, <2>1, <2>2, <2>3, Constants
  <2>5. Wrap(asked) = asked
    BY <2>1, WrapExact, Constants
  <2> QED BY <1>2, <2>1, <2>4, <2>5 DEF ParseRetryAfter
<1>3. CASE header.kind = "date"
  BY <1>1, <1>3, Constants DEF Asked, ParseRetryAfter, Greater, Saturate
<1>4. CASE header.kind = "none"
  BY <1>4, Constants DEF Asked
<1> QED BY <1>1, <1>2, <1>3, <1>4

\* After a 429 the delay is what Retry-After asks for or the cap, whichever is
\* less, unless the header asks for more than a duration holds.
THEOREM CallRetryAfterOrCap == Spec => []RetryAfterOrCap
<1>1. Init => RetryAfterOrCap
  BY DEF Init, RetryAfterOrCap
<1>2. CInv /\ RetryAfterOrCap /\ [Next]_vars => RetryAfterOrCap'
  <2> SUFFICES ASSUME CInv, RetryAfterOrCap, [Next]_vars PROVE RetryAfterOrCap'
    OBVIOUS
  <2>1. CASE UNCHANGED vars
    BY <2>1 DEF vars, RetryAfterOrCap
  <2>2. CASE NotSent \/ TransportError \/ Succeed
    BY <2>2 DEF NotSent, TransportError, Succeed, AfterAttempt, RetryAfterOrCap,
                APIError, Nil, Plain
  <2>3. ASSUME NEW status \in Statuses, Refuse(status)
        PROVE  RetryAfterOrCap'
    <3>1. CASE status # 429
      BY <2>3, <3>1 DEF Refuse, AfterAttempt, RetryAfterOrCap, APIError
    <3>2. CASE status = 429
      <4>1. PICK t \in Ends, header \in RetryAfters :
              /\ now' = t
              /\ AfterAttempt(APIError(429, ParseRetryAfter(header, t)))
              /\ notBefore' = t + Asked(header, t)
        BY <2>3, <3>2 DEF Refuse
      <4>2. t \in Nat /\ Asked(header, t) \in Int
        BY EndsInTime, ClientAssumption DEF Asked, Greater
      <4>3. notBefore' - now' = Asked(header, t)
        BY <4>1, <4>2
      <4> SUFFICES ASSUME pc' = "sleep", Asked(header, t) \in 1..MaxInt
                   PROVE  delay' = Lesser(Asked(header, t), MaxBackoff)
        BY <4>3 DEF RetryAfterOrCap, Lesser
      <4>4. ParseRetryAfter(header, t) = Asked(header, t)
        BY <4>2, ParsedExactly
      <4>5. delay' = BackoffDelay(attempt + 1, APIError(429, Asked(header, t)))
        BY <4>1, <4>4 DEF AfterAttempt, Retry, Return
      <4> QED BY <4>5, <4>2, Constants DEF BackoffDelay, APIError
    <3> QED BY <3>1, <3>2
  <2>4. CASE Wake \/ CutShort
    BY <2>4 DEF Wake, CutShort, Return, RetryAfterOrCap
  <2> QED BY <2>1, <2>2, <2>3, <2>4 DEF Next, DoOnce
<1> QED BY <1>1, <1>2, CallInvariant, PTL DEF Spec

----------------------------------------------------------------------------
(* The type of every variable, and the delays.                             *)

DInv == TypeOK /\ DelayBounded /\ BackoffDoubles

\* int64 arithmetic stays within int64.
LEMMA WrapInRange ==
  ASSUME NEW n \in Int
  PROVE  Wrap(n) \in Durations
<1> DEFINE w == MaxInt - MinInt + 1
<1>1. w \in Int /\ w > 0 /\ n - MinInt \in Int
  BY Constants
<1>2. ASSUME NEW k \in Int, k > 0, NEW j \in Int
      PROVE  j % k \in 0..(k - 1)
  BY <1>2
<1>3. (n - MinInt) % w \in 0..(w - 1)
  <2> HIDE DEF w
  <2> QED BY <1>1, <1>2
<1>4. Wrap(n) = ((n - MinInt) % w) + MinInt
  BY DEF Wrap
<1>5. w - 1 + MinInt = MaxInt
  BY Constants
<1> HIDE DEF w
<1> QED BY <1>1, <1>3, <1>4, <1>5, Constants DEF Durations

\* What parseRetryAfter returns is a duration.
LEMMA ParsedInRange ==
  ASSUME NEW header \in RetryAfters, NEW t \in Int
  PROVE  ParseRetryAfter(header, t) \in Durations
<1>1. header.n \in Int /\ header.kind \in {"delta", "date", "none"}
  BY ClientAssumption
<1>2. Wrap(header.n * Second) \in Durations
  BY <1>1, ClientAssumption, WrapInRange
<1>3. 0 \in Durations /\ Greater(Saturate(header.n - t), 0) \in Durations
  BY <1>1, Constants, ClientAssumption DEF Greater, Saturate, Durations
<1> QED BY <1>1, <1>2, <1>3 DEF ParseRetryAfter

\* The errors that attempts end with.
LEMMA ErrorsType ==
  /\ Nil \in Errors /\ Plain \in Errors /\ ContextErr \in Errors
  /\ \A status \in Statuses \cup {0, 429}, d \in Durations : APIError(status, d) \in Errors
  /\ \A err \in Errors : err.retryAfter \in Int
<1>1. Durations \subseteq Int
  BY Constants DEF Durations
<1>2. Nil \in Errors /\ Plain \in Errors /\ ContextErr \in Errors
  BY DEF Errors
<1>3. ASSUME NEW status \in Statuses \cup {0, 429}, NEW d \in Durations
      PROVE  APIError(status, d) \in Errors
  BY DEF Errors, APIError
<1>4. ASSUME NEW err \in Errors PROVE err.retryAfter \in Int
  <2>1. CASE err \in {Nil, Plain, ContextErr}
    BY <2>1 DEF Nil, Plain, ContextErr
  <2>2. CASE err \in [kind : {"api"}, status : Statuses \cup {0, 429}, retryAfter : Durations]
    <3>1. err.retryAfter \in Durations
      BY <2>2, Zenon
    <3> QED BY <1>1, <3>1
  <2> QED BY <2>1, <2>2 DEF Errors
<1> QED BY <1>2, <1>3, <1>4

\* The delay that follows an error is positive, bounded, and a duration.
LEMMA DelayType ==
  ASSUME NEW n \in 1..MaxRetries, NEW err \in Errors
  PROVE  /\ BackoffDelay(n, err) \in Durations
         /\ 0 < BackoffDelay(n, err) /\ BackoffDelay(n, err) <= Longest
<1>1. err.retryAfter \in Int
  BY ErrorsType
<1>2. BackoffDelay(n, err) \in Int /\ BackoffDelay(n, err) <= Longest
  BY <1>1, DelayUpperBound
<1>3. CASE err.retryAfter > 0
  BY <1>1, <1>2, <1>3, Constants, ClientAssumption
     DEF BackoffDelay, Lesser, Durations, Longest, Greater
<1>4. CASE ~(err.retryAfter > 0)
  <2>1. 0 < BackoffDelay(n, err)
    BY <1>1, <1>2, <1>4, BackoffClosedForm
  <2> QED BY <1>2, <2>1, Constants, ClientAssumption DEF Durations, Longest, Greater
<1> QED BY <1>3, <1>4

\* The loop's reaction to an attempt.
LEMMA AfterAttemptDelay ==
  ASSUME DInv, pc = "attempt", NEW err \in Errors, AfterAttempt(err),
         now' \in Nat, notBefore' \in Nat, UNCHANGED deadline
  PROVE  DInv'
<1>1. attempt \in 0..MaxRetries /\ result \in Errors /\ delay \in Durations
      /\ deadline \in Deadlines
  BY DEF DInv, TypeOK
<1>2. UNCHANGED <<Errors, Durations, Longest>>
  BY DEF Errors, Durations, Longest, Greater, Nil, Plain, ContextErr
<1>3. CASE IsRetryable(err) /\ attempt < MaxRetries
  <2>1. /\ pc' = "sleep" /\ attempt' = attempt + 1 /\ UNCHANGED result
        /\ delay' = BackoffDelay(attempt + 1, err) /\ lastErr' = err
    BY <1>3 DEF AfterAttempt, Retry
  <2>2. attempt + 1 \in 1..MaxRetries /\ attempt + 1 \in 0..MaxRetries
    BY <1>1, <1>3, ClientAssumption
  <2>3. delay' \in Durations /\ 0 < delay' /\ delay' <= Longest
    BY <2>1, <2>2, DelayType
  <2>4. TypeOK'
    BY <1>1, <1>2, <2>1, <2>2, <2>3 DEF TypeOK
  <2>5. DelayBounded'
    BY <2>3 DEF DelayBounded, Longest
  <2>6. BackoffDoubles'
    <3> SUFFICES ASSUME err.retryAfter <= 0
                 PROVE  delay' = IF attempt' = 1 THEN InitialBackoff
                                 ELSE Lesser(InitialBackoff * PowerOfTwo[attempt' - 1], MaxBackoff)
      BY <2>1 DEF BackoffDoubles
    <3>1. err.retryAfter \in Int
      BY ErrorsType
    <3> QED BY <2>1, <2>2, <3>1, BackoffClosedForm
  <2> QED BY <2>4, <2>5, <2>6 DEF DInv
<1>4. CASE ~(IsRetryable(err) /\ attempt < MaxRetries)
  <2>1. pc' = "returned" /\ result' = err /\ lastErr' = err /\ UNCHANGED <<attempt, delay>>
    BY <1>4 DEF AfterAttempt, Return
  <2>2. TypeOK'
    BY <1>1, <1>2, <2>1 DEF TypeOK
  <2> QED BY <2>1, <2>2 DEF DInv, DelayBounded, BackoffDoubles
<1> QED BY <1>3, <1>4

\* Every step of a call keeps the types and the delays.
LEMMA DelayStep ==
  ASSUME CInv, DInv, [Next]_vars
  PROVE  DInv'
<1>1. CASE UNCHANGED vars
  BY <1>1 DEF vars, DInv, TypeOK, DelayBounded, BackoffDoubles
<1>2. \A t \in Ends : t \in Nat
  BY EndsInTime
<1>3. now \in Nat /\ notBefore \in Nat /\ 0 \in Durations
  BY Constants, ClientAssumption DEF DInv, TypeOK, Durations
<1>4. CASE NotSent
  BY <1>3, <1>4, ErrorsType, AfterAttemptDelay DEF NotSent
<1>5. CASE TransportError
  BY <1>2, <1>3, <1>5, ErrorsType, AfterAttemptDelay DEF TransportError
<1>6. CASE Succeed
  BY <1>2, <1>3, <1>6, ErrorsType, AfterAttemptDelay DEF Succeed
<1>7. ASSUME NEW status \in Statuses, Refuse(status)
      PROVE  DInv'
  <2>1. pc = "attempt" /\ UNCHANGED deadline
    BY <1>7 DEF Refuse
  <2>2. CASE status # 429
    <3>1. PICK t \in Ends : now' = t /\ AfterAttempt(APIError(status, 0)) /\ UNCHANGED notBefore
      BY <1>7, <2>2 DEF Refuse
    <3>2. APIError(status, 0) \in Errors
      BY <1>3, ErrorsType
    <3> QED BY <1>2, <1>3, <2>1, <3>1, <3>2, AfterAttemptDelay
  <2>3. CASE status = 429
    <3>1. PICK t \in Ends, header \in RetryAfters :
            /\ now' = t
            /\ AfterAttempt(APIError(429, ParseRetryAfter(header, t)))
            /\ notBefore' = t + Asked(header, t)
      BY <1>7, <2>3 DEF Refuse
    <3>2. t \in Nat /\ Asked(header, t) \in Nat
      <4>1. /\ t \in Nat /\ header.n \in Int /\ header.n * Second \in Int
            /\ header.kind \in {"delta", "date", "none"}
        BY <1>2, ClientAssumption
      <4>2. ASSUME NEW k \in Int PROVE Greater(k, 0) \in Nat
        BY DEF Greater
      <4> QED BY <4>1, <4>2 DEF Asked
    <3> DEFINE d == ParseRetryAfter(header, t)
    <3>3. d \in Durations
      BY <3>2, ParsedInRange
    <3> HIDE DEF d
    <3>4. APIError(status, d) \in Errors
      BY <3>3, ErrorsType
    <3>5. AfterAttempt(APIError(status, d))
      BY <2>3, <3>1 DEF d
    <3> QED BY <2>1, <3>1, <3>2, <3>4, <3>5, AfterAttemptDelay
  <2> QED BY <2>2, <2>3
<1>8. CASE Wake \/ CutShort
  <2>1. pc' \in {"attempt", "returned"} /\ now' \in Nat /\ result' \in Errors
    BY <1>8, <1>3, ErrorsType, ClientAssumption, Constants
       DEF Wake, CutShort, Return, Greater, DInv, TypeOK, Durations
  <2>2. UNCHANGED <<deadline, notBefore, attempt, lastErr, delay>>
    BY <1>8 DEF Wake, CutShort, Return
  <2>3. UNCHANGED <<Errors, Durations>>
    BY DEF Errors, Durations, Nil, Plain, ContextErr
  <2>4. TypeOK'
    BY <2>1, <2>2, <2>3 DEF DInv, TypeOK
  <2> QED BY <2>1, <2>4 DEF DInv, DelayBounded, BackoffDoubles
<1> QED BY <1>1, <1>4, <1>5, <1>6, <1>7, <1>8 DEF Next, DoOnce

LEMMA DelayInvariant == Spec => []DInv
<1>1. Init => DInv
  <2> SUFFICES ASSUME Init PROVE DInv
    OBVIOUS
  <2>1. 0 \in Durations
    BY Constants, ClientAssumption DEF Durations
  <2> QED BY <2>1, ErrorsType, ClientAssumption
          DEF Init, DInv, TypeOK, DelayBounded, BackoffDoubles
<1> QED BY <1>1, DelayStep, CallInvariant, PTL DEF Spec

\* Every variable keeps its type; do makes at most MaxRetries + 1 attempts.
THEOREM CallTypeCorrect == Spec => []TypeOK
BY DelayInvariant, PTL DEF DInv

\* Whatever Retry-After holds, overflow included, and however often the delay
\* was doubled, every Sleep is longer than zero and at most the larger backoff.
THEOREM CallDelayBounded == Spec => []DelayBounded
BY DelayInvariant, PTL DEF DInv

\* Without a Retry-After the loop of backoffDelay computes the closed form,
\* for every number of retries: initialBackoff times a power of two, capped.
THEOREM CallBackoffDoubles == Spec => []BackoffDoubles
BY DelayInvariant, PTL DEF DInv

============================================================================
