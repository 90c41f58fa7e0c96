# Alert2IR verified

A TLA+ development kept beside Alert2IR. It models how a Splunk event becomes a
finding, a finding an alert, and an alert at most one backend investigation,
although requests race, processes die, database acknowledgements are lost,
deliveries are repeated and the backend answers late or never. TLC checks the
models on small instances; TLAPS proves every safety property, and both
refinements, for any number of rows, threads, requests, backends and operations.
Liveness is checked by TLC alone.

## 1. Inventory

| Component | State | Operations | Interacts through |
| --- | --- | --- | --- |
| Durable processor (`application/processing.py`) | thread locals only | `process`, `_advance_accepted`, `_submit`, `_poll_submitted`, `reconcile_once` | repository calls, backend calls |
| PostgreSQL repository (`persistence/postgres.py`, migrations) | `processing_records`, `execution_attempts` | accept, plan, claim, mark submitted, record poll, complete, fail, recovery, find reconcilable | one short transaction per call, compare-and-set on state |
| In-memory repository (`persistence/memory.py`) | two dictionaries and a lock | the same protocol | tests |
| Policy, planning, routing (`core/workflow.py`, `orchestrator.py`, `router.py`) | none | decide by severity, select exactly one capable backend | called by the processor |
| Velociraptor backend (`backends/velociraptor.py`) | host mapping; flows live on the server | submit, poll, collect, `investigate()` | gRPC queries with deadlines |
| HTTP API (`api/app.py`) | none | POST alert, GET processing, health, readiness; one pass per start | threads of one process |
| Operator command (`cli.py`) | none | one pass per invocation | its own process on the same tables |
| Splunk gateway (`adapters/splunk`) | none: requests are admitted by signature and timestamp window, not by a memory of earlier ones | verify, normalise, derive key and alert, deliver once, classify | HTTP from the alert action, HTTP to the core |
| Splunk alert action (`alert2ir_delivery.py`) | none that survives the invocation | read one result row, build a finding, up to three signed attempts, exit code | HTTP to the gateway |
| Observability | correlation ids in context variables; metrics | set, reset, emit | request middleware, processor, passes |
| Mock backend, tools, detections, infrastructure | files | scripts | outside the running system |

What is hard here:

* any number of request threads and passes, in several processes, work on one
  row, each from what it read before its last call;
* there is no way to find out whether a submission whose answer was lost
  created an operation, so a wrong reading either collects twice or forgets a
  running collection;
* a transaction can commit and report failure;
* work that a dead process left behind is resumed only by a later pass, and a
  pass has a row limit and a time limit;
* neither the sender nor the gateway remembers anything: whether a repeated
  finding is a new event depends on two programs deriving one key;
* the tests of the processor run on the in-memory repository, production on
  the tables.

What makes each component correct:

* processor and repository: at most one operation per processing, no operation
  without a durable claim, no lost operation closed as finished, terminal rows
  frozen and true about the operation, one row per scoped key, answers that
  stay true, tables that agree, progress when passes are run;
* routing: a persisted selection is used or given up, never replaced;
* the two repositories: indistinguishable to a caller; no call refused by a
  CHECK, no row the record constructors reject, upgraded rows left settled;
* a pass: every row it found accounted for, no row starved;
* Velociraptor: a rejection is final, an id is the operation's own, a report
  is what the server says of that flow;
* Splunk delivery: one processing per event, an exit code 0 only for a durable
  row, no acceptance that ends as a final failure without a trace;
* finding identity: two events never share a key, one event never has two;
* correlation: every event names the work it is about.

`PROJECT.json` lists the hazards with the lines where they bite.

## 2. Modules

| Module | Models | Read it for |
| --- | --- | --- |
| `DurableProcessing` | processor, repository calls, routing, backend calls, restarts, API and operator passes | the core; its properties, fairness, and the mutants used to test them |
| `ProcessingContract` | what the core promises per processing, without threads, tables or messages | refined by `DurableProcessing` (`ImplementsContract`) |
| `DurableRows` | what a client of the API can rely on: a row is created once per key and leaves "active" once | refined by `DurableProcessing` (`ImplementsRows`), the core of `FindingDelivery` |
| `FindingDelivery` | alert action, wire, gateway handler, core answers | retries, late and repeated requests, lost answers |
| `FindingIdentity` | result row to finding to normalised finding to key, alert and fingerprint | the same event spelled in different ways |
| `RepositoryRows` | `postgres.py` over migration 0002 beside `memory.py`, call by call | NULLness of columns, CHECKs, record constructors, upgrade |
| `ReconcilePass` | `reconcile_once` over rows ordered by `updated_at` | row limit, time limit, failures, crashes, starvation |
| `VelociraptorFlows` | the backend against the server's flows | late service, bad answers, remapped hosts |
| `UpdateOrder` | the rows by `updated_at`: what a write does to the order, what a query with a limit returns | used by `RepositoryRows` and `ReconcilePass` |
| `Correlation` | context variables of middleware, endpoint, processor, pass | which identities an event carries |
| `MC*` | instances for TLC | |
| `*_proofs` | proofs about the module they are named after | section 5 |

How they fit: `DurableProcessing` implements `DurableRows`, and
`FindingDelivery` is built on `DurableRows` with `INSTANCE`, so what is shown of
the delivery rests on what is shown of the core and not on a second model of
it. `FindingDelivery` takes key and alert as functions of the finding;
`FindingIdentity` is about these functions. `DurableProcessing` has every
interleaving within a row but picks any rows for a pass; `ReconcilePass` has
the order and the limits of a pass but one step per row. `DurableProcessing`
has one abstract backend; `VelociraptorFlows` is what it abstracts.
`DurableProcessing` has the repository's calls as compare-and-sets on states;
`RepositoryRows` has them as writes of columns.

Definitions marked "Mutant" are not part of a specification: each is a
plausible bug that a property must catch (`PROJECT.json`, "mutants").

### DurableProcessing

| Variable | In the code |
| --- | --- |
| `processing`, `attempt` | the two tables; attempt 1 is the only attempt `store_plan` ever inserts, so it is a column of the processing id here. `"none"` is a row that is not there |
| `operation` | operations on the backend, with the processing they were submitted for (the backend knows no such owner; it exists for the properties) |
| `wire` | submissions on their way (`op = None`) and answers on their way back |
| `stale` | attempts whose `started_at` is older than five minutes |
| `config` | the backends each process was started with |
| `startupDue` | the API process has yet to run its startup pass |
| `pc`, `job` | where a thread is, and its locals: row, request key and alert, operation id, last observation |
| `todo` | the rows of a pass that are left, with the states it read at its start |
| `reply` | the last answer given on a request thread |

Alerts are values; the fingerprint is injective on them, and `Source` gives
the idempotency scope. Timestamps, telemetry, evidence and wording are left
out. Clock time is two nondeterministic facts: an attempt grows stale, a
deadline is found expired.

Each repository call is one step, because it is one transaction. Its outcome
is `ok`, `down` (nothing committed, exception) or `lost` (committed,
exception). `Transact` is the two-UPDATE transaction: the first statement's
WHERE clause decides whether the caller lost the race, the second one's
whether the transaction rolls back with "states diverged". A backend call is
two steps, leaving and returning; between them the submission may be served,
delayed past the caller's timeout, or outlive the caller. `Restart` ends every
thread of one process at any point and may change its configuration.

### FindingDelivery

`sender` is an invocation and its attempt counter, `wire` the state of each
attempt's HTTP request (sent, late beyond the timestamp window, copied by the
network, gone), `call` a gateway handler with the core request it made, and
`row` the core's rows as `DurableRows` has them. The gateway's and the sender's
classification tables are operators (`ClassifyUpstream`, `GatewayStatus`,
`ClassifyAdapter`, `Fallback`). A handler and the core request it made end
independently: the gateway may give up while the core goes on. The computation
of the signature is taken as sound; what is modelled of it is the window.

### FindingIdentity

One step is one delivery, from the result row to the core's answer. Values
carry the ways they can be spelled: a time as an epoch or in RFC 3339 with an
offset, in thirds of a microsecond; a host name plain or in capitals with a
final dot; a number with leading zeros. SHA-256 is taken as injective.

### RepositoryRows

`pg` and `memory` are the two stores, `answer` what the last call returned from
each. A column is NULL or not; the CHECK constraints, the constructors and the
order by `updated_at` are operators. Every call is applied to both at once. The
initial state holds rows of schema 0001 as migration 0002 leaves them.

### ReconcilePass

`row` is the state of each processing, `order` the rows by `updated_at`, `pass`
the batch, counters and remaining time of each pass. `counted` is the sum of
the report's advanced and failed rows: a row is in at most one of the two. One
row is handled in one step that ends in any of the states its handler can
reach, or, if it fails (`FailRow`), can leave it in.

### VelociraptorFlows

`call` is what the caller of each operation does and knows, `request` and
`response` the scheduling queries under way, `flow` the server's flows,
`mapping` the host mapping of the running process. `Rows` is what the server's
tables may say of a flow, including that it is not listed yet.

### Correlation

`context` are the context variables of each endpoint and of the pass, `outer`
those of the middleware (the endpoint's thread starts with a copy of them and
cannot change them), `shared` is `request.state`, `events` what was emitted. An
answer with a record also shares the record's error category.

## 3. Runs

| Run | Question | Instance |
| --- | --- | --- |
| `race` | do two requests under one key and a startup pass keep one row, one operation, true answers? Is each step one of `ProcessingContract` and of `DurableRows`? | 2 ids, 1 key, 2 alerts (one needs no action), 2 requests, 1 pass, 2 operations |
| `routing` | what if API and operator process start with different backends, or none, and restart with others? | 1 row, 1 request, startup and operator pass, 0 to 2 backends |
| `backlog` | can anything of one row reach another? | 2 rows, 1 request, 1 pass, 2 operations |
| `progress` | is every request answered, and does every interrupted row surface? | 1 row, 1 request, startup and operator pass |
| `loser` | does a losing caller re-read, as the documentation says? | as `race`; expected to fail |
| `delivery` | is one key run once, and is what is reported of it true? | 2 invocations with different alerts under one key, 2 attempts and 1, 2 handlers, 2 ids |
| `identity` | are different events told apart, and one event recognised? | every pair of deliveries of the spellings of section 2, before and after 1970 and at both ends of the calendar |
| `repositories` | can a caller tell the repositories apart? does every row satisfy CHECKs and constructors? | 2 new rows, 1 legacy row, 2 keys, every order of calls |
| `pass` | is each found row accounted for, and each offered row reached? | 3 rows, 2 per pass, one fault |
| `pass_isolated` | does the failure of one row leave the others alone? | as `pass`; expected to fail |
| `flows` | are rejections, ids and reports true, and does each operation end? | 3 operations (submitted, `investigate()`, unsupported), 2 clients, 2 flows, every mapping, 3 faults |
| `correlation` | does every event name its work? | 2 requests, 2 processings, 2 passes |

Bounds, and why they are enough to mean something:

* `DurableProcessing`: two operations are what a second submission needs; two
  ids are what a second row under one key, or an id that strays to another
  row, needs; two request threads and a pass are enough for every pair of
  roles (creator and replay, creator and pass, two pollers) to meet at every
  pair of labels. There is no bound on crashes, lost acknowledgements,
  timeouts or stale marks: the state space is finite because rows only move
  forward. Ids, operations and request threads are interchangeable
  (symmetry), except in `routing`, where there is only one of each, and in
  `progress`, which checks liveness. `backlog` leaves the answers out of the
  state (`VIEW`): no step reads them and its property does not mention them.
* `FindingDelivery`: two bodies of one event share the key and not the alert (the
  identity document leaves out the rule's title and the level), so a retry meets
  its own row or another's. `MaximumAttempts` is 2 where the code has 3: one
  attempt repeats another, and the theorems hold for any number. `Posts` is the
  number of attempts of each invocation that are made (an invocation that stops
  short of `MaximumAttempts` has been killed): two of the first, one of the
  second. `Copied` names the requests that may arrive twice: the first one. Two
  handlers let an attempt overlap the one it repeats; the second id is what a
  second processing of the key would need.
* `FindingIdentity`: one delivery and, if it was accepted, one more; parts of
  the row vary one or two at a time around a base, since the code treats them
  independently except for the two host names and the two numbers, which vary
  together. Times run from two microseconds before the first datetime of the
  instance to two after its last.
* `ReconcilePass`: `Limit` 2 of 3 rows makes a row wait behind a full batch and
  a batch longer than one; `Budget` 1 is a pass whose time can run out at each
  row, whether the row was handled, lost to another caller, or failed; `Faults`
  bounds database failures, crashes and expiries. New work is bounded by
  `Rows`: arrivals without end are not modelled, and would make waiting longer,
  not endless, since a new row enters behind all others.
* `VelociraptorFlows`: `Polls` bounds the polls before the deadline of
  `investigate()` (one, so that the loop can wait and can expire), `Faults` the
  unusable answers, failing polls and restarts. A scheduling query that is given
  up is no fault: its deadline may pass at any time.
* `Correlation`: `Passes` bounds the passes; two rows are what an identity
  that stays behind needs.

Deadlock is checked in `DurableProcessing` (a process can always be restarted,
so a stuck thread would show in `progress` instead), `RepositoryRows` and
`ReconcilePass`. The others really end: each invocation, request or operation
is used once.

### Fairness

* `progress`, for the requests: a thread which is not idle takes its next step
  (`WF(Advance)`): connections and statements have timeouts in `postgres.py`,
  backend calls in `velociraptor.py`, and nothing is held across calls. For the
  rows it assumes more, and none of it is in the code: that an operator keeps
  running `alert2ir reconcile --once` and that not every one of these passes
  is stopped at the same call (`SF` on starting, taking a row and committing).
  The repository has no scheduler; without those passes a row interrupted in
  `accepted`, `planned` or `submitting` stays there until the next API start.
* `pass`: passes are started again and again, and a started pass runs. The
  same remark holds for the first half.
* `flows`: a call to `submit` or `investigate` takes its next step
  (`CallsGoOn`), because each ends without the server: every query has a gRPC
  deadline (`velociraptor.py` line 199, `stub.Query(request, timeout=...)`), which is
  `GiveUpSchedule` for the scheduling query, and the loop of `collect` a local
  one (line 475). Nothing is assumed of the server and the endpoints: a request
  may never be served and a flow never end. `FinishedIsReported` also assumes
  that a held operation is polled again and again (`PassesPoll`). This is not in
  the code: one poll is made by the request that submitted the operation, every
  other by a pass, at the start of the API or by an operator, as in `progress`
  and `pass`. Under that assumption a flow that has ended on the client its host
  is still mapped to is reported as succeeded or failed; a flow whose poll
  cannot be interpreted ("unsafe") is not counted as reported, so the property
  excuses only what a further fault (a bad answer, a restart that remaps the
  host) brings about.

### What the runs found

`loser`: `docs/APPLICATION.md` line 75 says that a losing compare-and-set
caller re-reads durable state. `fail_processing` first updates the attempt,
which may be in any active state, then the processing row; when another
thread has moved the row meanwhile (recovery, for instance) it raises
`RuntimeError`, the transaction rolls back, and the request ends in a 500. The
tables stay consistent (`RowsAgree`); the caller's view differs from the
documented one, and from the in-memory repository, which returns `None`:
`SameAnswers` in `RepositoryRows` names this as the one difference between the
repositories.

`pass_isolated`: `reconcile_once` is documented as failure-isolated
(`processing.py` line 752), but reads the row's attempt for the log context
(line 771) before the `try` of the row. If that read fails the exception leaves
the pass and the rows behind it wait for the next one. They are not lost
(`EveryRowReached`).

Known divergences the models keep as they are, without a run of their own:

* `client.py` line 208 reports every 503 of the core as `acceptance_unknown =
  False`. The core also answers 503 after an acceptance that committed and whose
  acknowledgement was lost (`app.py` line 315). The sender retries in both
  cases, so nothing is lost by it (`AcceptanceTraceable`); only the flag is not
  true.
* `postgres.py` line 667 compares the stored result with the one it was given,
  after the commit, and raises `ValueError` if they differ. The processor builds
  that result from the durable plan of the same row, so they cannot;
  `RepositoryRows` has no such branch.
* `mapping.py` lines 105 and 131 raise `OverflowError` for a time within an offset of
  either end of the calendar, which `submit_finding` does not catch: the answer
  is a 500, which is retried, and not the documented 422. `FindingIdentity` has
  it as the answer "internal".
* `mapping.py` line 98 says that flooring makes epochs agree with RFC 3339. The
  product is rounded to 28 digits before it is floored, so an epoch with a longer
  fraction can come out one microsecond later. `SkippedIsHeld` and
  `RepeatIsReplayed` are stated for times of at most 28 digits.

## 4. Properties worth knowing

Besides one type invariant where the shape of the state is not evident:

* `DurableProcessing`: `AtMostOneOperation`, `OrphansAwaitRecovery`,
  `NoEffectWithoutClaim`, `OutcomeIsRemote`, `RowsAgree`, `ScopedKeyUnique`,
  `RepliesDurable`; steps: `TransitionsAllowed`, `SettledFactsFrozen`; refinement:
  `ImplementsContract`, `ImplementsRows`; liveness: `RequestsAnswered`,
  `RowsSurface`.
* `FindingDelivery`: `OneProcessingPerAlert`, `SuccessIsDurable`,
  `AcceptanceTraceable`, `ConflictIsReal` (a conflict is due to another alert
  that is stored), `ReportedIdIsOwn` (and does not name that alert's
  processing).
* `FindingIdentity`: `SkippedIsHeld` (a finding not run is about an event
  already held), `RepeatIsReplayed` (the same event is a replay), and
  `SenderIsStricter` (what the alert action accepts the gateway does not drop).
* `RepositoryRows`: `RepositoriesAgree`, `NeverRefused`, `LegacySettled`.
* `ReconcilePass`: `ReportAccounts`, `EveryRowReached`.
* `VelociraptorFlows`: `RejectedIsFinal`, `HoldsOwnFlow`, `ReportsAreTrue`,
  `InvestigateEnds`, `FinishedIsReported`.
* `Correlation`: `ContextIsOfWork`, `OperationIsNamed`, `AnswerIsNamed`.

## 5. Proofs

All theorems are of the form `Spec => []P`, `Spec => [][A]_vars` or
`Spec => Abstract!Spec`. Those about `DurableProcessing` rest on two
assumptions on its constants: threads of different kinds are different
(`ThreadsAssumption`) and NULL is not a value (`ValuesAssumption`).

* `TypeCorrect`. Needs one strengthening: a thread at a working label knows
  its row (`JobOK`).
* `RowsAlwaysAgree`, `TransitionsAlwaysAllowed`, `SettledFactsAlwaysFrozen`.
  `NextRowStep` shows that a step does to one row at most one of eleven
  guarded writes (`RowStep`); the rest is about these writes. `RowShape` adds
  that plan and operation id are absent before they are written.
* `AtMostOneOperationAlways`. The invariant (`Licence`, `Claimed`) says that a
  claimed row has one licence to submit, which is first the winning thread,
  then the request on the wire, then the operation, and that no row before its
  claim has one. It needs `RefInv`: every operation id in a thread, an answer
  or a row belongs to that row; without it a row could leave `submitting` by
  somebody else's id while its own request is still on its way.
* `OrphansAlwaysAwaitRecovery`, `NoEffectWithoutClaimAlways`. A row with an
  operation has no holder left that could close it as rejected.
* `OutcomeAlwaysRemote`. `SeenInv`: a thread that fails, collects or completes
  has seen its operation end so, and ends are stable; uniqueness makes the
  thread's operation the row's operation.
* `ScopedKeysUnique`. `NextOneWrite`: a step writes one row; `RowOrigin`: a key
  appears only in a row that was absent, by an insert that found no holder.
* `RepliesAlwaysDurable`. `OwnRow`: a thread at a working label works on a row
  that exists and has its alert. `RowGrows` (from `RowStep`): a row only moves on
  in rank and stays where it is at the last; so an answer that agrees once agrees
  for good (`FitsKept`), and every new answer is read off the row after the step
  (`Answers`), or, of a lost planning failure, claims no more than acceptance.
* `ContractImplemented`: the core implements `ProcessingContract`. A step of a
  row that matters to the contract is one of its actions or a stutter
  (`RowStep`); that an operation starts only for a claimed row, once, and that a
  final row agrees with its operation is what the invariants above say.
* `RowsImplemented`: the core implements `DurableRows`. `EmptyInv` (an absent
  row has no columns) and `AcceptInv` (a thread about to accept carries a key
  and an alert of its request) make every step of a row an `Accept`, a `Close`
  or a stutter of its public image.

Those about `VelociraptorFlows` rest on `OperationsAssumption`: a process is
started with a mapping of hosts to clients, and the value that stands for "none"
is no operation, host, client or flow.

* `FlowsTyped`, `RejectionsAlwaysFinal`, `FlowsAlwaysOwn`, `ReportsAlwaysTrue`.
  The properties are not inductive: a rejection is final because nothing was sent
  for it, and an id is the right one because of the answer it came in. `SentOnce`
  says that an operation that is new or rejected has no request, answer or flow,
  that it has at most one request or one flow, and that its request names the
  client its caller remembers; `OwnFlows` that every answer that `schedule`
  accepts names the flow of its operation. A caller keeps the client it asked
  for, so a restart with another mapping changes neither.

`FindingDelivery`: `DeliveryTyped`, `OneProcessingAlways`,
`SuccessAlwaysDurable`, `ConflictAlwaysReal`, `AcceptanceAlwaysTraceable`,
`ReportedIdAlwaysOwn`, for any number of invocations, findings, attempts, handlers and
rows. They assume that there is at least one attempt, that NULL is no id, and
(`KeyInAlertAssumption`) that findings of one alert have one key, because
`_to_canonical_alert` writes the key into the alert (`mapping.py` line 217).

* The properties speak of the two ends, the sender and the rows; the invariant
  carries what is known between them. `CallOK` says for each handler what its
  result is backed by: a success by a row with the key and the alert of its
  message (`Held`), a conflict by a row that another alert holds under the key
  (`Rival`), an acceptance by its trace; an id, in any result, by the row of
  its own finding. `OutcomeOK` says the same of what the sender made of a
  result. `RowInv`: a row has the key and the alert of a finding that was sent,
  and no two rows have one key. Rows never lose what they have (`RowsKept`), so
  a backed answer stays backed however late it arrives.

`FindingIdentity`: `SkippedAlwaysHeld`, `RepeatAlwaysReplayed`,
`SenderAlwaysStricter`, for any set of invocations and any range of times and
numbers. They assume that times are integers (`TimeAssumption`) and that the
two conversion errors are told apart from times and from each other
(`ErrorsAssumption`).

* For an invocation that reaches the comparison the key is a function of the
  event it is about and the fingerprint one of the event and what is said about
  it (`KeyOf`, `PrintOf`), both injective: floor, offset and bounds cancel. The
  invariant is that what is held are the key and the fingerprint of the held
  invocation.

`RepositoryRows`: `RowsTyped`, `NeverRefusedAlways`, `RepositoriesAlwaysAgree`,
`LegacyAlwaysSettled`, for any number of rows, keys and legacy rows. They assume
that new and legacy ids are different, that there are finitely many legacy rows
(`IdsAssumption`) and that NULL is no decision (`NullAssumption`).

* None of the four is inductive: that a call is not refused depends on the
  columns earlier calls left. `Cell` says, for one processing, exactly which
  columns the row has in each state (`RowOK`), which the attempt (`AttOK`), how
  their states go together (`Coupled`), and that the record in memory mirrors the
  row (`Mirrors`). The CHECKs, the constructors and what a reader sees follow
  from it (`CellRowChecks`, `CellRecordValid`, `CellAttemptChecks`,
  `CellReadable`, `CellView`). Every call either misses in both stores or writes
  a `Cell` to both (`CommitsOrMisses`), so one lemma per call is enough. The
  order of legacy rows is known to the tables only; `OrdersOK` says that the two
  orders agree on the rows both have, and `OldestSame` that this is all
  `find_reconcilable` depends on.

`ReconcilePass`: `PassesTyped`, `ReportAlwaysAccounts`, for any numbers of rows,
passes and faults and any limits.

* `Accounted` follows a pass through its loop: examined rows and the rest of the
  batch make up what was found. That a batch has no more rows than the limit,
  and no place in it is empty, is `OldestFound`, by counting
  (`UpdateOrder_proofs`).

`Correlation`: `ContextAlwaysOfWork`, `OperationAlwaysNamed`,
`AnswerAlwaysNamed`, for any number of requests, rows and passes.

* `TaskOK` relates the context of a task to where it is, `RequestOK` the
  middleware's context, `request.state` and the events of a request to how far it
  has come; the count of `request.finished` events needs both.

`UpdateOrder` states `Touch` and `Oldest` by what they do to places and not
with a recursive filter over the sequence, of which nothing can be proved here.
Its lemmas: a write keeps one place per row (`TouchListed`) and the order of the
others (`TouchEarlier`); the n-th oldest exists (`PlaceExists`).

Checked by TLC only, because liveness under fairness is outside this prover's
reach: `RequestsAnswered`, `RowsSurface`, `EveryRowReached`, `InvestigateEnds`
and `FinishedIsReported`. Every other property of a passing run is stated by a
theorem.

## 6. Plan

Done: the core, the contract and `DurableRows`; delivery and identity of
findings; the two repositories; one pass in order; Velociraptor flows;
correlation; proofs of all safety properties and of the refinements. Left: the
safety half of starvation in `ReconcilePass` as a theorem (a row that waits is
never overtaken by one written after it); the GET routes and the loading of the
gateway's configuration, if they come to hold state.

## 7. Not modelled

* Metrics and spans: written and never read back.
* HMAC and SHA-256 (taken as sound), media types and body size limits, TLS,
  the loading of environment and secrets (one nondeterministic failure in
  `FindingDelivery`, none in the gateway).
* The read-only GET routes, health and readiness.
* (De)serialisation of evidence and entities; entity kinds of alerts that do
  not come from Splunk.
* The mock backend, which completes at once and is a special case of the
  backend of `DurableProcessing`.
* `tools/sigma/prepare_validation_data.py`: a single-process script of the
  detection pipeline that shares no state with the running system.
* Shell tooling, Sigma detections, Puppet and Compose files.
