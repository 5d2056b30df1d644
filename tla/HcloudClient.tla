---------------------------- MODULE HcloudClient ----------------------------
(***************************************************************************)
(* One call of the Hetzner client's do (src/internal/hcloud/client.go)     *)
(* with its clock (clock.go): attempts, the delays between them, the       *)
(* timeout of each request and the deadline of the caller's context.       *)
(*                                                                         *)
(* Time jumps from one event to the next.  now counts from the entry into  *)
(* do; deadline is what the handler's earlier steps have left of its       *)
(* budget.  A duration is a signed integer of Bits bits (64 in Go).        *)
(***************************************************************************)
EXTENDS Integers

CONSTANTS
  MaxRetries, InitialBackoff, MaxBackoff, RequestTimeout,  \* fields of Client
  Second,        \* time.Second in clock units
  Bits,          \* width of int and time.Duration
  Deadlines,     \* what may be left of the context's budget at entry
  Latencies,     \* how long an attempt may take, besides its full timeout
  Statuses,      \* status codes of answers
  RetryAfters    \* Retry-After headers of 429 answers

VARIABLES
  pc,         \* "attempt", "sleep" or "returned"
  now, deadline,
  attempt,    \* the loop variable
  lastErr,    \* the error of the last attempt
  delay,      \* the argument of Sleep
  result,     \* what do has returned
  notBefore   \* when the server's last 429 allows the next request (history)

vars == <<pc, now, deadline, attempt, lastErr, delay, result, notBefore>>

MaxInt == 2^(Bits - 1) - 1

MinInt == -(2^(Bits - 1))

\* int64 arithmetic wraps around.
Wrap(n) == ((n - MinInt) % (MaxInt - MinInt + 1)) + MinInt

\* time.Time.Sub saturates.
Saturate(n) == IF n > MaxInt THEN MaxInt ELSE IF n < MinInt THEN MinInt ELSE n

Lesser(a, b) == IF a < b THEN a ELSE b

Greater(a, b) == IF a > b THEN a ELSE b

\* What New and the options guarantee of a Client (see Options), and room for
\* one doubling of a delay below the cap.
ASSUME ClientAssumption ==
  /\ MaxRetries \in Nat
  /\ InitialBackoff \in Nat /\ InitialBackoff > 0
  /\ MaxBackoff \in Nat /\ MaxBackoff > 0
  /\ RequestTimeout \in Nat /\ RequestTimeout > 0
  /\ Second \in Nat /\ Bits \in Nat
  /\ InitialBackoff + InitialBackoff <= MaxInt /\ MaxBackoff + MaxBackoff <= MaxInt
  /\ Deadlines \subseteq Nat /\ Latencies \subseteq Nat /\ Statuses \subseteq Nat
  /\ RetryAfters \subseteq [kind : {"delta", "date", "none"}, n : Int]

----------------------------------------------------------------------------
(* Errors: an *APIError, or one without a status (kind "plain": token,     *)
(* decoding; kind "context": the context's own error).                     *)

Nil == [kind |-> "nil", status |-> 0, retryAfter |-> 0]

Plain == [kind |-> "plain", status |-> 0, retryAfter |-> 0]

ContextErr == [kind |-> "context", status |-> 0, retryAfter |-> 0]

APIError(status, retryAfter) ==
  [kind |-> "api", status |-> status, retryAfter |-> retryAfter]

IsRetryable(err) ==
  /\ err.kind = "api"
  /\ err.status = 0 \/ err.status = 429 \/ err.status \in 500..599

\* A header is "delta" with a number, "date" with an instant, or neither:
\* absent, blank or unparsable.  Atoi rejects numbers out of range.
ParseRetryAfter(header, instant) ==
  CASE header.kind = "delta" ->
         IF header.n \in 0..MaxInt THEN Wrap(header.n * Second) ELSE 0
    [] header.kind = "date" -> Greater(Saturate(header.n - instant), 0)
    [] header.kind = "none" -> 0

\* How long the header asks to wait, whatever the width of the integers.
Asked(header, instant) ==
  CASE header.kind = "delta" -> Greater(header.n * Second, 0)
    [] header.kind = "date" -> Greater(header.n - instant, 0)
    [] header.kind = "none" -> 0

\* Mutation: the shift is one too far.
BackoffOneTooFar(n, err) ==
  IF err.retryAfter > 0 THEN Lesser(err.retryAfter, MaxBackoff)
  ELSE Lesser(InitialBackoff * 2^n, MaxBackoff)

\* Mutation: Retry-After is taken as it comes.
RetryAfterUncapped(n, err) ==
  IF err.retryAfter > 0 THEN err.retryAfter
  ELSE Lesser(InitialBackoff * 2^(n - 1), MaxBackoff)

\* Mutation: Retry-After counts only when it is longer than the backoff.
LongerRetryAfter(n, err) ==
  Lesser(Greater(err.retryAfter, InitialBackoff * 2^(n - 1)), MaxBackoff)

\* d after i rounds of the doubling loop.
Grown[i \in Nat] == IF i = 0 THEN InitialBackoff ELSE Wrap(2 * Grown[i - 1])

BackoffDelay(n, err) ==
  IF err.retryAfter > 0 THEN Lesser(err.retryAfter, MaxBackoff)
  ELSE IF \E i \in 1..(n - 1) : Grown[i] >= MaxBackoff THEN MaxBackoff
  ELSE Grown[n - 1]

----------------------------------------------------------------------------
Init ==
  /\ pc = "attempt"
  /\ now = 0
  /\ deadline \in Deadlines
  /\ attempt = 0
  /\ lastErr = Nil
  /\ delay = 0
  /\ result = Nil
  /\ notBefore = 0

Return(err) ==
  /\ pc' = "returned"
  /\ result' = err
  /\ UNCHANGED <<attempt, delay>>

\* The next round of the loop, as far as its Sleep.
Retry(err) ==
  /\ pc' = "sleep"
  /\ attempt' = attempt + 1
  /\ delay' = BackoffDelay(attempt + 1, err)
  /\ UNCHANGED result

\* Mutation: the loop runs once more.
OnceMore(err) ==
  /\ lastErr' = err
  /\ IF IsRetryable(err) /\ attempt <= MaxRetries THEN Retry(err) ELSE Return(err)

\* Mutation: a 429 is final.
RateLimitIsFinal(err) ==
  /\ lastErr' = err
  /\ IF IsRetryable(err) /\ err.status # 429 /\ attempt < MaxRetries
       THEN Retry(err) ELSE Return(err)

\* The loop's reaction to the result of doOnce.
AfterAttempt(err) ==
  /\ lastErr' = err
  /\ IF IsRetryable(err) /\ attempt < MaxRetries THEN Retry(err) ELSE Return(err)

\* The latest end of an attempt: reqCtx inherits the caller's deadline.
AttemptEnd == Lesser(now + RequestTimeout, Greater(deadline, now))

Ends == {t \in {now + l : l \in Latencies} : t <= AttemptEnd} \cup {AttemptEnd}

\* The token source fails, or the request cannot be built.  (Marshalling the
\* request structs cannot fail.)
NotSent ==
  /\ pc = "attempt"
  /\ AfterAttempt(Plain)
  /\ UNCHANGED <<now, deadline, notBefore>>

\* httpClient.Do fails: a broken connection, the request's timeout, or a
\* context that is done.
TransportError ==
  /\ pc = "attempt"
  /\ \E t \in Ends : now' = t
  /\ AfterAttempt(APIError(0, 0))
  /\ UNCHANGED <<deadline, notBefore>>

\* 2xx.  An empty body is not decoded, and neither is any body when out is
\* nil; one that is cut off may not decode.
Succeed ==
  /\ pc = "attempt"
  /\ now < deadline
  /\ \E t \in Ends : now' = t
  /\ AfterAttempt(Nil) \/ AfterAttempt(Plain)
  /\ UNCHANGED <<deadline, notBefore>>

\* Any other answer; parseAPIError reads Retry-After from a 429 only.
Refuse(status) ==
  /\ pc = "attempt"
  /\ now < deadline
  /\ \E t \in Ends :
       /\ now' = t
       /\ IF status = 429
            THEN \E header \in RetryAfters :
                   /\ AfterAttempt(APIError(429, ParseRetryAfter(header, t)))
                   /\ notBefore' = t + Asked(header, t)
            ELSE /\ AfterAttempt(APIError(status, 0))
                 /\ UNCHANGED notBefore
  /\ UNCHANGED deadline

\* Mutation: Sleep does not look at the context.
SleepOn ==
  /\ pc = "sleep"
  /\ pc' = "attempt"
  /\ now' = now + Greater(delay, 0)
  /\ UNCHANGED <<deadline, attempt, lastErr, delay, result, notBefore>>

\* Sleep: the timer fires first.
Wake ==
  /\ pc = "sleep"
  /\ IF delay > 0 THEN now + delay <= deadline ELSE now < deadline
  /\ pc' = "attempt"
  /\ now' = now + Greater(delay, 0)
  /\ UNCHANGED <<deadline, attempt, lastErr, delay, result, notBefore>>

\* Sleep: the context ends first, or both at once.
CutShort ==
  /\ pc = "sleep"
  /\ now + Greater(delay, 0) >= deadline
  /\ now' = Greater(deadline, now)
  /\ Return(ContextErr)
  /\ UNCHANGED <<deadline, lastErr, notBefore>>

DoOnce == NotSent \/ TransportError \/ Succeed \/ \E status \in Statuses : Refuse(status)

Next == DoOnce \/ Wake \/ CutShort

Spec == Init /\ [][Next]_vars

----------------------------------------------------------------------------
(* Properties.                                                             *)

Durations == MinInt..MaxInt

Errors ==
  {Nil, Plain, ContextErr} \cup [kind : {"api"}, status : Statuses \cup {0, 429},
                                 retryAfter : Durations]

\* The type of every variable: in particular do makes at most MaxRetries + 1
\* attempts.
TypeOK ==
  /\ pc \in {"attempt", "sleep", "returned"}
  /\ now \in Nat /\ deadline \in Deadlines /\ notBefore \in Nat
  /\ attempt \in 0..MaxRetries
  /\ lastErr \in Errors /\ result \in Errors
  /\ delay \in Durations

\* "so a misbehaving server can't make us sleep arbitrarily long": whatever
\* Retry-After holds, a number that overflows included, no delay exceeds
\* maxBackoff (or the first one, initialBackoff), and none is a busy loop.
DelayBounded ==
  pc = "sleep" => 0 < delay /\ delay <= Greater(InitialBackoff, MaxBackoff)

PowerOfTwo[n \in Nat] == IF n = 0 THEN 1 ELSE 2 * PowerOfTwo[n - 1]

\* Without a positive Retry-After the n-th delay is initialBackoff doubled
\* n - 1 times and capped: the loop of backoffDelay against its closed form,
\* however 429s, 5xx and transport errors alternate.
BackoffDoubles ==
  pc = "sleep" /\ lastErr.retryAfter <= 0 =>
    delay = IF attempt = 1 THEN InitialBackoff
            ELSE Lesser(InitialBackoff * PowerOfTwo[attempt - 1], MaxBackoff)

\* do gives up on a transport error, a 429 or a 5xx only when its retries are
\* used up, and reports the context's error only when the deadline has come.
GivesUpOnlyWhenSpent ==
  pc = "returned" =>
    /\ result.kind = "api" /\ result.status \in {0, 429} \cup 500..599
         => attempt = MaxRetries
    /\ result = ContextErr => now = deadline

\* do is back by the deadline of its context: neither a request nor a sleep
\* outlasts it.  And even without a deadline it is back within its attempts'
\* timeouts and the capped delays between them.
BackInTime ==
  /\ now <= deadline
  /\ now <= (attempt + 1) * RequestTimeout
              + attempt * Greater(InitialBackoff, MaxBackoff)

\* What backoffDelay makes of Retry-After, its cut at maxBackoff included:
\* after a 429 with a positive header the delay is what the header asks for
\* or the cap, whichever is less, for seconds and dates alike.  Excepted are
\* headers that ask for more than a duration can hold: seconds wrap around,
\* and the delay is then neither.
RetryAfterOrCap ==
  pc = "sleep" /\ lastErr.status = 429 /\ notBefore - now \in 1..MaxInt =>
    delay = Lesser(notBefore - now, MaxBackoff)

\* "429 -> honour Retry-After", "Don't second-guess the API": no attempt is
\* made before the instant that the server's last 429 has named.  Violated:
\* backoffDelay cuts a longer Retry-After at maxBackoff.
NeverBeforeRetryAfter == pc = "attempt" => now >= notBefore

============================================================================
