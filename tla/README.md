# Formal model of cert-manager-webhook-hcloud-zones

TLA+ modules, TLC configurations and TLAPS proofs for the webhook that answers
cert-manager's DNS-01 challenges with TXT records in Hetzner Cloud Zones.

## The system and its parts

| Part | Source | Model |
| --- | --- | --- |
| `Present`, `CleanUp`, `prepare`, `resolveZoneID`, `reconcileExisting`, `Initialize` | `internal/solver/solver.go` | `Solver` |
| what the two promise cert-manager | the same, and their comments | `TxtService`, implemented by `Solver` (`WebhookService`) |
| constructors and options | `internal/solver/solver.go`, `secrets.go`, `internal/hcloud/client.go` | `Options` |
| zone-ID cache | `internal/solver/zonecache.go` | `ZoneCache`, used by `Solver` |
| per-challenge config | `internal/solver/config.go` | `WebhookConfig` |
| Secret access | `internal/solver/secrets.go` | `Prepare`, `SecretReadFails`, `RotateSecret` of `Solver` |
| routing and validation | `internal/routing/routing.go` | `Routing` (definitions), `RoutingWalk` (the loop) |
| attempts, retryable errors, sentinels | `internal/hcloud/client.go`, `errors.go` | `Solver` (`RetryOrFail`, `Receive`, `TransportError`) |
| one request with its delays: `do`, `doOnce`, `Retry-After`, backoff, `Sleep` | `internal/hcloud/client.go`, `clock.go` | `HcloudClient` |
| Hetzner API, cert-manager, pods, operators | external | `HetznerApi`, and the actions of `Solver` marked external |
| `main.go`, Helm chart, harness, workflows | `cmd/`, `charts/`, `tests/`, `.github/` | not modelled: no state of the running system |

cert-manager calls `Present` until it succeeds, then `CleanUp` until it
succeeds.  A call parses the Issuer's config, routes the FQDN to a zone-apex and
a credential, reads the credential's Secret, finds the zone's ID (pod-local
cache, or `GET /v1/zones`), and creates, replaces or deletes one TXT RRSet.
Every API request is retried on 429, 5xx and transport errors, and the whole
call has a budget of two minutes.

## Modules

* **Routing** – a DNS name is the sequence of its dot-separated labels, exactly
  as `strings.Split` gives it.  `Resolve` is stated as "the longest configured
  suffix"; `ValidConfig` is `ValidateConfig`; `RelativeRecordName` is the
  solver's derivation of the record name.  Whitespace can stand around a name in
  its first and last label only; `TrimLeft` and `TrimRight` say what a label is
  without it, and `TrimOuterSpace` is `strings.TrimSpace` of the name.
* **RoutingWalk** – the leaf-to-root loop of `Resolve`, one pass per step
  (`Found`, `Cut`), for configurations that validation has accepted.
* **WebhookConfig** – `parseConfig`, `resolveSecretRef`, `RoutingConfig` (the
  configuration `parseConfig` hands to the router), and `RouteOf`: what
  `prepare` makes of a ChallengeRequest before it reads the Secret.
* **ZoneCache** – `Lookup`, `Store`, `Invalidate` as functions on a store.
  `expiresAt` is kept as the time left until it.
* **HetznerApi** (external) – status codes and effects of the four requests.
* **Solver** – the composition.  `call[c]` is a handler goroutine: its program
  counter, operation, challenge, pod, token, zone ID, attempt number, the answer
  that has arrived and the budget left.  `cache[r]` is one pod's cache.

  | Action | Code |
  | --- | --- |
  | `Prepare`, `SecretReadFails` | `prepare`, `GetToken` |
  | `LookupZone` | `zones.Lookup` in `resolveZoneID` |
  | `Serve`, `ServeBadly`, `AcceptAction`, `ApplyLate` | the server carries an attempt out (external) |
  | `Receive` = `ReceiveList`, `ReceiveCreate`, `ReceiveSet`, `ReceiveDelete` | the rest of `resolveZoneID`, `Present`, `reconcileExisting`, `CleanUp` for one answer, with the retry decision of `do` |
  | `TransportError`, `DeadlineExceeded` | `httpClient.Do` fails; the context ends |
  | `Initialize`, `Crash`, `Tick` | start, loss of a pod, time |
  | `CallWebhook`, `BeginCleanUp`, `Abandon` | cert-manager (external) |
  | `DeleteZone`, `CreateZone`, `MoveZone`, `RotateSecret`, `RevokeToken` | operators (external) |

  A handler is cut wherever another actor can act between two of its steps.  An
  attempt that its handler gives up on may be lost, done, or still under way
  (`late`).  `orphaned` and `goneFor` are history variables.  An answer is received
  while some of the budget is left; a body that the deadline cuts is one of
  `ServeBadly`'s.
* **HcloudClient** – one call of `do` on a real time line.  `AfterAttempt` is the
  loop's reaction to the result of `doOnce`, whose outcomes are `NotSent`,
  `TransportError`, `Succeed` and `Refuse`; `Wake` and `CutShort` are the two ends
  of `Sleep`.  Durations are signed integers of `Bits` bits and wrap around.
  `notBefore` is a history variable: when the server's last 429 allows the next
  request.  `Solver` contains the same loop with the lengths of the delays
  abstracted to `Tick`: its `RetryOrFail` is `AfterAttempt` for a retryable error,
  its `DeadlineExceeded` is `CutShort` or an attempt whose context is done.
* **Options** – the `With*` options of both packages, applied one by one in any
  order and number, then `New` and `Initialize`.  A base URL is its front and the
  number of slashes at its end, which `WithBaseURL` trims.
* **TxtService** – the abstract service: what each spot (zone and name) holds,
  cert-manager's view of each challenge, and which challenges have requests that
  nobody waits for.  It has no handlers, caches, tokens, attempts or pods.
  **WebhookService** maps `Solver` to it: `text` from `rrsets`, `status` from
  `phase`, `loose` from `orphaned`, `pending` from the requests in `late` that carry
  the challenge's key to its own record, `calm` from `churn = 0`.
  Most steps of `Solver` are invisible; `Serve`, `ServeBadly` and `ApplyLate` are
  `Write`, `Erase` or (when they come to nothing) `Lapse`; a `Receive` that
  returns nil is `Confirm` or `ConfirmGone`; `Abandon`, `TransportError`,
  `DeadlineExceeded`, `AcceptAction` and `Crash` are `Stray`.
* **MCSolver**, **MCRouting**, **MCClient** – constants for TLC.
* **RoutingProofs**, **RoutingWalkProofs**, **HcloudClientProofs**,
  **OptionsProofs**, **TxtServiceProofs** – theorems about the module of that name.
  **SolverProofs** (types, projects, stale IDs), **SolverPromiseProofs** (the two
  promises) and **WebhookServiceProofs** (record names, the refinement) – theorems
  about `Solver`, each on top of the one before.

Operators whose comment starts "Mutation" or "A plausible slip" are deliberately
wrong variants of the definition after them.  They are used by no specification;
substituting one for its definition makes TLC report the property that guards
against that slip.

## Runs

| Run | Shows |
| --- | --- |
| `SolverShared` | `TxtOnlyWhereChallenged`, `NoCrossProjectRequest`: two zones under one credential and one zone name in two projects, all in one pod's cache, with pages of one zone, empty bodies, lost, late and abandoned writes |
| `SolverFaults` | `PresentedMeansServed`, `CleanedMeansGone`, `TypeOK`: apex and wildcard challenge share one record, any two faults of nine kinds, with or without late delivery; `ImplementsTxtService`: every step is one of `TxtService` |
| `SolverRecovery` | `PresentRecovers`, `CleanUpRecovers` under fairness, two faults and two operator changes; `StaleIdBounded`: zones deleted, created and moved between the steps of a handler, with budgets that run out |
| `RoutingWalk` | `WalkFindsLongest`, `OneOwner`, `RecordExact` over every pair of credentials on eight zones, valid or not, and FQDNs in mixed case, with and without challenge label, trailing dot and whitespace around them (`RecordExact` for those without) |
| `Client` | `DelayBounded`, `BackoffDoubles`, `GivesUpOnlyWhenSpent`, `BackInTime`, `RetryAfterOrCap`, `TypeOK`: one call of `do` with the production parameters, ten kinds of `Retry-After`, three deadlines |
| `Options` | `SolverCoherent`, `ClientUsable`: up to three options, valid or not, in any order |
| `SolverStaleCleanUp` (violated) | `CleanUp` with a stale cached ID reports success and leaves the record |
| `SolverCutListing` (violated) | a listing that breaks off at its start makes `CleanUp` report success |
| `RoutingNested` (violated) | nested zones pass validation, so more than one apex can match |
| `RoutingPadded` (violated) | an FQDN with trailing whitespace is matched but does not end with the apex |
| `ClientRetryAfterCut` (violated) | after a 429 with `Retry-After: 45` the next attempt comes after 30 s |
| `SolverSecretReads` (violated) | two handlers of a pod read one Secret in the same instant |

**Bounds.**  Two handlers are enough for every pairwise race; a third adds no new
kind of step.  `SolverRecovery` has one, which liveness can afford; `StaleBounded` covers any number.  Faults and operator changes are named (`FaultKinds`,
`ChurnKinds`) and counted (`MaxFaults`, `MaxChurn`): two suffice for a lost
answer followed by a failed retry, and for delete-then-create of a zone.  A TTL
of one unit and a budget of two let an entry expire within a call and a call
outlive an entry.  `MaxRetries` is 0 or 1: with 1 there is a retry and an
exhausted retry; where it is 0 the question does not depend on retries.
`PageSize` is below the number of zones only in `SolverShared`.  There, of three
challenges at most two are started (`TwoStarted`): every pair shares the cache in
its own way, and the properties relate one challenge to one other or to a record.  A body is
full, cut at its start (`empty`) or cut later (`garbled`).  `RoutingWalk` ends when
the name is resolved, a call of `do` when it returns, and `Options` when a client is
built, so deadlock is not checked in those runs; it is checked in all others.
`Client` counts in units of 100 ms with the production values (six retries,
0.5 s doubling up to 30 s, 30 s per request, two minutes in all; also a deadline
that has passed and one that never matters).  Only the width of a duration
is smaller, 12 bits, with headers on each side of the overflow.  An
attempt takes no time or its full timeout.  Three options are enough for an option to be overridden and for each
order of two options with a third before, between or after them.
Symmetry permutes handler slots, in runs without liveness only.

**Fairness.**  `SolverRecovery`: weak fairness of each handler's own steps
and of the server's answers (the Go scheduler runs goroutines; a request that is
never answered ends by its timeout), of `Initialize` (a post-start hook), of
`Tick`, and of cert-manager's calls for each challenge (its work queue retries
failed challenges).  No fairness is assumed of faults or operators.

**Exceptions stated in the properties.**  `PresentedMeansServed` and
`CleanedMeansGone` except writes that nobody waits for any more: an abandoned
call's, a timed-out request's, or a running `set_records` Action's.  The code has
no means to take those back, so the properties say what holds otherwise.

## Findings

1. `CleanUp` (`solver.go:341`) takes the 404 of a zone with a stale cached ID for
   "RRSet already gone".  `Present` on pod 1 writes into the re-created zone,
   `CleanUp` on pod 2 still has the old ID and succeeds, and the record stays.
   `Present` invalidates the entry on 404; `CleanUp` does not.
2. `doOnce` (`client.go:333`) drops the error of `io.ReadAll`, and an empty 2xx
   body is accepted, so a broken listing reads as "no zones" and `CleanUp`
   succeeds.
3. `ValidateConfig` (`routing.go:169`) accepts `com` beside `example.com`,
   against "at most one configured zone-apex can match any given FQDN".  The walk
   then prefers the longer.
4. There is no token cache: `prepare` (`solver.go:388`) reads the Secret in every
   call, against "at most once per N seconds" (`app-concept.md:424`).

5. `normaliseFQDN` (`routing.go:124`) trims whitespace around the FQDN and
   `relativeRecordName` (`solver.go:495`) does not, so a matched FQDN need not end with
   the apex, and the fallback said to be "unreachable through the normal API"
   (`relative_name_test.go:86`) is taken.  cert-manager sends no such FQDN, which is
   what `SolverAssumption` assumes of a challenge (`ProperName`); without that
   assumption `FallbackOnlyPadded` says that nothing else leads there.
6. `backoffDelay` (`client.go:433`) cuts `Retry-After` at `maxBackoff`, so the next
   attempt may come before the server allows it, against "Honour `Retry-After`
   ... Don't second-guess the API" (`app-concept.md:422`).  `RetryAfterOrCap` states what
   holds.

Met in the client, and stated in the properties rather than against them: a number
of seconds that overflows a duration (`client.go:393`) gives a delay that is neither
the header's nor the cap (excepted in `RetryAfterOrCap`, still bounded by
`DelayBounded`); the first delay is `initialBackoff` even above `maxBackoff`
(`client.go:439`, `DelayBounded`, `BackoffDoubles`); and when the budget ends during the
`Sleep` after a 429, the call reports the context's error (`client.go:268`,
`GivesUpOnlyWhenSpent`), not the 429.

## Proofs

All for every value of the constants, from the named `ASSUME`s
(`ToLowerAssumption`: lower-casing is idempotent and keeps labels non-empty;
`TrimAssumption`: a label without its whitespace is a label;
`BoundsAssumption`: the bounds are naturals; `SolverAssumption`: types of the
constants, proper FQDNs, distinct special values; `OwnerAssumption`, `TokenAssumption`, `ZoneCacheTTLAssumption`,
`WalkAssumption`, `NoneAssumption`: an empty spot's mark is no value;
`ClientAssumption`: a usable client, as `ClientUsable` says
`New` makes it, with room for one doubling).

* `FallbackOnlyPadded`, `RecordNameExact` – `relativeRecordName` takes its fallback
  only for an FQDN with whitespace around it, and for every other match the record
  name, put back in front of the apex, is the FQDN.  The apex is a suffix of
  the normalised name (`ResolveSuffix`), which without whitespace is the
  FQDN in lower case without its trailing dot (`TrimmedName`, `ApexPosition`), and adjacent
  subsequences concatenate.
* `WalkCorrect`, `WalkRecordExact`, `WalkOneOwner` – by `WalkInv`: the candidate
  is the suffix from position k and no earlier suffix is configured.  The FQDN is
  any non-empty sequence of labels (`WalkAssumption`), padded or not.  The
  properties speak of the finished walk only, so they are not inductive.
* `TypeCorrect` – `TypeOK`, with `HandlerOK`: past `prepare` a handler has a
  routed challenge and a token, past `resolveZoneID` a zone ID.
* `TxtWhereChallenged`, `NoCrossProject`, `StaleBounded` – the three share one
  frame (`Fates`): what a step can do to a handler, a cache entry, and the
  set of writes, independently of the property.  `RoutingInv` says of every
  handler, cache entry, late request and RRSet that its zone has the name the
  challenge was routed to; `ProjectInv` that zone and token belong to one
  project; `StaleInv` bounds the age of a listing on its way to the cache by
  the budget its handler has used.
* `PresentKeepsPromise` – `PresentedMeansServed`, for any number and kind of
  faults.  It needs to know which requests may still reach a record.  `Moves` is
  the frame: what a step can do to a challenge's phase, a call, the writes left
  to themselves and the RRSets.  `CustodyInv` says that cert-manager waits for each
  running call, in the phase that fits its operation, or the call is on record
  as left to itself; that every late request belongs to such a call; and that
  rivals for a name are never in progress together.  Hence (`Harmless`) a request
  on its way to the record of a challenge in `Present`'s hands writes that
  challenge's key, unless a rival's write was left to itself.  `KeptInv`, until an
  operator interferes: the record is published, or coming with a running Action,
  from the moment the server answers the write with success, before `Present` has
  returned.  It rests on `RoutingInv` and `ProjectInv`.
* `CleanUpKeepsPromise` – `CleanedMeansGone` until an operator interferes, for
  any number of lost, late and repeated requests, crashes and time-outs.
  `GoneInv` adds to the invariants of `PresentKeepsPromise` that a key stands, and
  is written, only in the project of its challenge's credential (`AtHome`), and that
  the record is gone as soon as a handler holds the answer from which `CleanUp` will
  return nil (`SaysGone`), before cert-manager hears of it.  From there on only the
  challenge's own Present can write the key, and cert-manager has no such call in
  progress, or it is on record as left to itself.  The theorem has the
  hypothesis `Ordinary`, and each part of it is needed: listings are not cut at their
  start and one page holds a project's zones (otherwise finding 2); two challenges
  for one name have different keys (ACME's are random; otherwise the other's record
  is indistinguishable from the challenge's); a project has one zone of a name
  at the start (as at Hetzner; otherwise `CleanUp` may look into the other one).
  `churn = 0` is needed because of finding 1.
* `WebhookImplementsService` – `ImplementsTxtService`, with operators at work and any
  number of faults, under `Ordinary`.  The initial states map to initial
  states (`ServiceInit`).  A step changes the phase of a challenge, or the writes
  left to themselves, or the RRSets, never two of them (`OneThingAtATime`), so each
  kind is mapped on its own: `PhaseRefines` (`Confirm` needs `KeptInv`, `ConfirmGone`
  needs `GoneInv`: they are where the service promises something), `StrayRefines`,
  `WriteRefines` for an attempt that a handler waits for, `LateRefines` for one that
  nobody waits for, `OperatorsInterfere`.  `OneEach`, that a zone has one TXT RRSet
  of a name, makes the `CHOOSE` in `Text` mean what the name server would answer.
  With `ServiceKeepsPromises` the promises follow from the abstract service alone.
* `CallBackInTime`, `CallGivesUpOnlyWhenSpent` – by `CInv`: the time used is at
  most one timeout per attempt and one longest delay per retry (`Elapsed`, finer
  than `BackInTime` because it depends on the program counter), the delay is
  bounded (`DelayUpperBound`) and the deadline has not passed.
* `CallRetryAfterOrCap` – `RetryAfterOrCap`: a header within the range of a
  duration is parsed exactly (`ParsedExactly`, from `WrapExact`), and nothing but a
  429 leads to a `Sleep` with that status.
* `CallTypeCorrect`, `CallDelayBounded`, `CallBackoffDoubles` – by `DInv`, the three
  together: the delay is chosen in the step that starts the `Sleep`.  Underneath is
  what the loop of `backoffDelay` computes.  `Grown` and `PowerOfTwo` are recursive
  functions; that they satisfy their equations is `Recursion`, and what they
  compute is `GrowsExactly` (as long as the cap is not reached, the doubling is exact
  and cannot wrap around, because `ClientAssumption` leaves room for one doubling)
  and `CappedForGood` (once it is reached, the loop returns the cap).  Both inductions
  are over a set of numbers (`SetInduction`, from the well-foundedness of `<`).
* `OptionsSolverCoherent`, `OptionsClientUsable` – for any number of options.
  `OInv` says of an unfinished solver what `SolverCoherent` says of a finished one,
  field by field: it holds the last valid argument so far, or the default
  (`AsAsked`), except that the two fields `New` and `Initialize` fill in are still
  empty (`Supplied`).  `OneMore` is what one more option does to the last valid one.
* `ServiceKeepsPromises` – `TxtService` keeps the promises of `Present` and
  `CleanUp`, when the spots are spots and rivals have different keys
  (`WellNamed`).  They are not inductive without `TakeTurns`: two rivals are never
  in progress together, and a CleanUp is left to itself only after its Present
  is over.  `WebhookImplementsService` carries this over to the webhook.

Every invariant that a passing run checks, and the refinement, is stated by a
theorem; the refinement with operators at work only by the theorem, since
`SolverFaults` has none.  Only model-checked are the liveness properties `PresentRecovers` and
`CleanUpRecovers`: fairness is out of the prover's reach.  `SolverFaults` and
`SolverRecovery` are instances of `Ordinary`, so their passing shows that
its hypotheses can be met.

## Not modelled

Log lines, error texts, HTTP headers other than `Retry-After`, and JSON layout
(`types.go` is struct declarations, `APIError.Error` and `formatConfiguredZones`
only word a message); the RRSet's TTL field, which the API stores and the code
never reads back; the torn read that the unsynchronised `s.secrets` allows
(it ends in the error of a pod that is not initialised, or in a panic that the API
server library turns into one); the ACME order and the DNS self-check; `main.go`, which reads `GROUP_NAME`
and starts the cert-manager library's server; everything under `charts/`, `tests/`,
`.github/`, `scripts/`.
