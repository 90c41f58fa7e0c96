-------------------------- MODULE DurableProcessing --------------------------
(***************************************************************************)
(* Durable alert processing: PersistentAlertProcessor (processing.py) over *)
(* the PostgreSQL repository (postgres.py) and an investigation backend.   *)
(*                                                                         *)
(* Threads are the request handlers of POST /v1/alerts and the one-shot    *)
(* reconciliation passes (one per API start, others from the operator's    *)
(* command line).  They share two tables, processing_records and           *)
(* execution_attempts, and the remote backend.  Every repository call is   *)
(* one transaction and one step here; no step spans a backend call, so any *)
(* thread may run, and any process may die, between two of them.           *)
(***************************************************************************)
EXTENDS Naturals, FiniteSets

CONSTANTS
    Ids,             \* processing ids the server may draw (uuid4)
    Keys,            \* caller idempotency keys
    Alerts,          \* canonical alerts; the v1 fingerprint tells them apart
    Severe,          \* the alerts whose severity is high or critical
    Source,          \* Source[a]: the alert's source, the idempotency scope
    Backends,        \* names of backends that support process.list
    Configs,         \* the backend sets a process may be started with
    Operations,      \* opaque external operation ids
    Requests,        \* request-handling threads of the API process
    StartupPass,     \* the reconciliation thread the API process starts
    OperatorPasses,  \* "alert2ir reconcile --once" processes
    Limit,           \* row limit of one reconciliation pass
    None             \* SQL NULL

Passes    == {StartupPass} \cup OperatorPasses
Threads   == Requests \cup Passes
Processes == {"api"} \cup OperatorPasses

ASSUME ThreadsAssumption ==
    /\ Requests \cap Passes = {}
    /\ StartupPass \notin OperatorPasses
    /\ "api" \notin OperatorPasses

ASSUME ValuesAssumption ==
    /\ Severe \subseteq Alerts
    /\ Configs \subseteq SUBSET Backends
    /\ Configs # {}
    /\ Limit \in Nat \ {0}
    /\ None \notin Ids \cup Keys \cup Alerts \cup Backends \cup Operations

VARIABLES
    processing,   \* table processing_records
    attempt,      \* table execution_attempts (attempt 1 of each processing)
    operation,    \* operations that exist on the backend
    wire,         \* submissions and their answers in transit
    stale,        \* attempts whose started_at is beyond the stale threshold
    config,       \* backends each process was started with
    startupDue,   \* the API process has not started its pass yet
    pc,           \* where each thread is
    job,          \* the thread's locals
    todo,         \* a pass's remaining rows, with the states it read
    reply         \* what the last request on a thread was answered

db     == <<processing, attempt>>
remote == <<operation, wire>>
env    == <<stale, config, startupDue>>
thread == <<pc, job, todo, reply>>
vars   == <<processing, attempt, operation, wire, stale, config, startupDue,
            pc, job, todo, reply>>

-----------------------------------------------------------------------------
(* Values. "none" is a row that does not exist. *)

ProcessingState == {"accepted", "planned", "submitting", "submitted",
                    "completed", "failed", "recovery_required"}

ExecutionAttemptState == {"planned", "submitting", "submitted",
                          "completed", "failed", "recovery_required"}

Terminal == {"completed", "failed"}

\* Error categories written to processing_records.error_category.
Category == {"none", "unsupported_capability", "backend_selection_error",
             "backend_submission_failed", "backend_submission_unknown",
             "backend_execution_failed", "backend_protocol_error",
             "backend_timeout", "recovery_required"}

\* ALLOWED_PROCESSING_TRANSITIONS.
AllowedTransitions ==
    ({"accepted"} \X {"planned", "completed", "failed"})
    \cup ({"planned"} \X {"submitting", "failed"})
    \cup ({"submitting"} \X {"submitted", "failed", "recovery_required"})
    \cup ({"submitted"} \X {"submitted", "completed", "failed", "recovery_required"})
    \cup ({"recovery_required"} \X {"submitted", "failed"})

Rows == [state: ProcessingState \cup {"none"}, key: Keys \cup {None},
         alert: Alerts \cup {None}, backend: Backends \cup {None},
         error: Category, result: Operations \cup {None}]

Attempts == [state: ExecutionAttemptState \cup {"none"},
             ext: Operations \cup {None}]

RemoteOperations == [owner: Ids \cup {None},
                     state: {"none", "running", "finished", "failed"}]

\* op = None: the request on its way; otherwise the backend's answer.
Messages == [thread: Threads, id: Ids, op: Operations \cup {None}]

Observation == {"none", "running", "finished", "failed", "timeout"}

Jobs == [id: Ids \cup {None}, key: Keys \cup {None}, alert: Alerts \cup {None},
         ext: Operations \cup {None}, seen: Observation]

ReplyKind == {"none", "record", "conflict", "unavailable", "unsupported",
              "ambiguous", "internal", "diverged"}

Replies == [kind: ReplyKind, id: Ids \cup {None}, alert: Alerts \cup {None},
            state: ProcessingState \cup {"none"}, error: Category,
            replayed: BOOLEAN]

Labels == {"idle", "accept", "plan", "claim", "claimed", "awaiting", "reject",
           "unknown", "record", "unrecorded", "poll", "observed", "unsafe",
           "fail", "collect", "complete", "reread", "next", "stale"}

NoRow     == [state |-> "none", key |-> None, alert |-> None,
              backend |-> None, error |-> "none", result |-> None]
NoAttempt == [state |-> "none", ext |-> None]
NoJob     == [id |-> None, key |-> None, alert |-> None, ext |-> None,
              seen |-> "none"]
NoReply   == [kind |-> "none", id |-> None, alert |-> None, state |-> "none",
              error |-> "none", replayed |-> FALSE]
NoTodo    == [i \in Ids |-> "none"]

Process(t) == IF t \in OperatorPasses THEN t ELSE "api"

\* The three ways a repository call ends: it commits and returns, it fails
\* before the commit, or it commits and the acknowledgement is lost.
Outcomes == {"ok", "down", "lost"}

-----------------------------------------------------------------------------
(* Control flow of a thread. *)

Goto(t, label) ==
    /\ pc' = [pc EXCEPT ![t] = label]
    /\ UNCHANGED <<job, todo, reply>>

\* A request is answered; a pass moves to its next row.
Finish(t, answer) ==
    /\ pc' = [pc EXCEPT ![t] = IF t \in Requests THEN "idle" ELSE "next"]
    /\ job' = [job EXCEPT ![t] = NoJob]
    /\ reply' = IF t \in Requests THEN [reply EXCEPT ![t] = answer] ELSE reply
    /\ UNCHANGED todo

\* The answer that carries a durable row.
RecordReply(t, row, replayed) ==
    [kind |-> "record", id |-> job[t].id, alert |-> job[t].alert,
     state |-> row.state, error |-> row.error, replayed |-> replayed]

\* The answer of an exception that reaches the HTTP handler.
ErrorReply(t, kind, state) ==
    [NoReply EXCEPT !.kind = kind, !.id = job[t].id, !.alert = job[t].alert,
                    !.state = state]

Raise(t, kind) == Finish(t, ErrorReply(t, kind, "none"))

\* What a transaction that conditionally updates one processing and its
\* attempt does to the tables: "hit" is the first UPDATE's WHERE clause,
\* "agree" the second one's (if it fails the transaction rolls back).
Transact(id, outcome, hit, agree, row, att) ==
    IF hit /\ agree /\ outcome # "down"
    THEN /\ processing' = [processing EXCEPT ![id] = row]
         /\ attempt' = [attempt EXCEPT ![id] = att]
    ELSE UNCHANGED db

\* What the caller sees of it.
Verdict(outcome, hit, agree) ==
    IF outcome # "ok" THEN "raised"
    ELSE IF ~hit THEN "lost"
    ELSE IF agree THEN "won" ELSE "diverged"

\* A won compare-and-set continues at label, or returns the new row; a lost
\* one re-reads; an exception is raised as the given kind.
Continue(t, verdict, label, kind) ==
    \/ verdict = "won" /\ Goto(t, label)
    \/ verdict = "lost" /\ Goto(t, "reread")
    \/ verdict = "raised" /\ Raise(t, kind)
    \/ verdict = "diverged" /\ Raise(t, IF kind = "internal" THEN "diverged" ELSE kind)

\* Mutant: a caller that lost answers with the row it meant to write.
ConcludeWithoutReread(t, verdict, row, kind) ==
    \/ verdict \in {"won", "lost"} /\ Finish(t, RecordReply(t, row, FALSE))
    \/ verdict = "raised" /\ Raise(t, kind)
    \/ verdict = "diverged" /\ Raise(t, IF kind = "internal" THEN "diverged" ELSE kind)

Conclude(t, verdict, row, kind) ==
    \/ verdict = "won" /\ Finish(t, RecordReply(t, row, FALSE))
    \/ verdict = "lost" /\ Goto(t, "reread")
    \/ verdict = "raised" /\ Raise(t, kind)
    \/ verdict = "diverged" /\ Raise(t, IF kind = "internal" THEN "diverged" ELSE kind)

-----------------------------------------------------------------------------
(* Accepting a request: _process. *)

\* A client posts an alert under an idempotency key.
ReceiveRequest(t, k, a) ==
    /\ t \in Requests /\ pc[t] = "idle"
    /\ pc' = [pc EXCEPT ![t] = "accept"]
    /\ job' = [job EXCEPT ![t] = [NoJob EXCEPT !.key = k, !.alert = a]]
    /\ reply' = [reply EXCEPT ![t] = NoReply]
    /\ UNCHANGED <<db, remote, env, todo>>

\* The row holding a scoped key, if any: UNIQUE (idempotency_scope,
\* idempotency_key).
Holds(id, k, a) ==
    /\ processing[id].state # "none"
    /\ processing[id].key = k
    /\ Source[processing[id].alert] = Source[a]

AcceptedRow(k, a) ==
    [NoRow EXCEPT !.state = "accepted", !.key = k, !.alert = a]

\* Mutant: an INSERT without the unique key.
AcceptNewAnyKey(t, id) ==
    /\ pc[t] = "accept"
    /\ processing[id].state = "none"
    /\ processing' = [processing EXCEPT ![id] = AcceptedRow(job[t].key, job[t].alert)]
    /\ pc' = [pc EXCEPT ![t] = "plan"]
    /\ job' = [job EXCEPT ![t].id = id]
    /\ UNCHANGED <<attempt, remote, env, todo, reply>>

\* accept_processing inserts: INSERT ... ON CONFLICT DO NOTHING found no row.
AcceptNew(t, id) ==
    /\ pc[t] = "accept"
    /\ processing[id].state = "none"
    /\ ~\E i \in Ids : Holds(i, job[t].key, job[t].alert)
    /\ \E r \in Outcomes :
         /\ IF r = "down" THEN UNCHANGED processing
            ELSE processing' = [processing EXCEPT ![id] =
                                  AcceptedRow(job[t].key, job[t].alert)]
         /\ IF r = "ok"
            THEN /\ pc' = [pc EXCEPT ![t] = "plan"]
                 /\ job' = [job EXCEPT ![t].id = id]
                 /\ UNCHANGED <<todo, reply>>
            ELSE Raise(t, "unavailable")
    /\ UNCHANGED <<attempt, remote, env>>

\* accept_processing finds the key taken: a different fingerprint is a
\* conflict, the same one is a replay that reads and never advances the row.
AcceptExisting(t, id) ==
    /\ pc[t] = "accept"
    /\ Holds(id, job[t].key, job[t].alert)
    /\ \/ Raise(t, "unavailable")
       \/ /\ processing[id].alert # job[t].alert
          /\ Raise(t, "conflict")
       \/ /\ processing[id].alert = job[t].alert
          /\ Finish(t, [RecordReply(t, processing[id], TRUE) EXCEPT !.id = id])
    /\ UNCHANGED <<db, remote, env>>

-----------------------------------------------------------------------------
(* Planning: _advance_accepted. The plan is a deterministic function of the *)
(* alert and of the backends the process was started with.                  *)

Decision(t) == IF processing[job[t].id].alert \in Severe
               THEN "investigate" ELSE "no_action"

Routable(t) == config[Process(t)]

\* Mutant: the caller is told "failed" whether or not the row was failed.
FailPlanningAssumed(t) ==
    LET id == job[t].id
    IN /\ pc[t] = "plan"
       /\ Decision(t) = "investigate" /\ Routable(t) = {}
       /\ Transact(id, "ok", processing[id].state = "accepted", TRUE,
                   [processing[id] EXCEPT !.state = "failed",
                                          !.error = "unsupported_capability"], attempt[id])
       /\ Finish(t, ErrorReply(t, "unsupported", "failed"))
       /\ UNCHANGED <<remote, env>>

\* UnsupportedCapabilitiesError, AmbiguousBackendError or any other planning
\* exception: fail_processing({accepted}), then the exception goes on.
FailPlanning(t) ==
    LET id  == job[t].id
        hit == processing[id].state = "accepted"
    IN /\ pc[t] = "plan"
       /\ \E e \in {"unsupported", "ambiguous", "internal"}, r \in Outcomes :
            LET category == IF e = "unsupported" THEN "unsupported_capability"
                            ELSE "backend_selection_error"
                row == [processing[id] EXCEPT !.state = "failed", !.error = category]
            IN /\ e = "unsupported" => Decision(t) = "investigate" /\ Routable(t) = {}
               /\ e = "ambiguous" => /\ Decision(t) = "investigate"
                                     /\ Cardinality(Routable(t)) > 1
               /\ Transact(id, r, hit, TRUE, row, attempt[id])
               /\ \/ r # "ok" /\ Raise(t, "unavailable")
                  \/ r = "ok" /\ e = "internal" /\ ~hit /\ Goto(t, "reread")
                  \/ r = "ok" /\ (e # "internal" \/ hit)
                     /\ Finish(t, ErrorReply(t, e,
                               IF e = "internal" THEN "none"
                               ELSE IF hit THEN "failed" ELSE "accepted"))
       /\ UNCHANGED <<remote, env>>

\* store_no_action_result: the decision and the completion together.
StoreNoActionResult(id, r) ==
    Transact(id, r, processing[id].state = "accepted", TRUE,
             [processing[id] EXCEPT !.state = "completed"], attempt[id])

StoreNoAction(t) ==
    LET id  == job[t].id
        hit == processing[id].state = "accepted"
        row == [processing[id] EXCEPT !.state = "completed"]
    IN /\ pc[t] = "plan"
       /\ Decision(t) = "no_action"
       /\ \E r \in Outcomes :
            /\ StoreNoActionResult(id, r)
            /\ Conclude(t, Verdict(r, hit, TRUE), row, "unavailable")
       /\ UNCHANGED <<remote, env>>

\* Mutant: the attempt gets the processing's state of before.
StorePlanAndAcceptedAttempt(id, r, b) ==
    Transact(id, r, processing[id].state = "accepted", TRUE,
             [processing[id] EXCEPT !.state = "planned", !.backend = b],
             [attempt[id] EXCEPT !.state = "accepted"])

\* store_plan: the plan and attempt 1 are committed together.
StorePlanAndAttempt(id, r, b) ==
    Transact(id, r, processing[id].state = "accepted", TRUE,
             [processing[id] EXCEPT !.state = "planned", !.backend = b],
             [attempt[id] EXCEPT !.state = "planned"])

StorePlan(t) ==
    LET id  == job[t].id
        hit == processing[id].state = "accepted"
    IN /\ pc[t] = "plan"
       /\ Decision(t) = "investigate"
       /\ Cardinality(Routable(t)) = 1
       /\ \E b \in Routable(t), r \in Outcomes :
            /\ StorePlanAndAttempt(id, r, b)
            /\ Continue(t, Verdict(r, hit, TRUE), "claim", "unavailable")
       /\ UNCHANGED <<remote, env>>

-----------------------------------------------------------------------------
(* Submitting: _submit. *)

Configured(t) == processing[job[t].id].backend \in config[Process(t)]

ActiveAttempt == {"planned", "submitting", "submitted", "recovery_required"}

\* fail_processing(expected, attempt): the attempt row is updated first,
\* whatever active state it is in, then the processing row if it is in the
\* expected state; otherwise the transaction raises and rolls back.
FailProcessing(t, expected, category) ==
    LET id    == job[t].id
        hit   == attempt[id].state \in ActiveAttempt
        agree == processing[id].state = expected
        row   == [processing[id] EXCEPT !.state = "failed", !.error = category]
    IN \E r \in Outcomes :
         /\ Transact(id, r, hit, agree, row, [attempt[id] EXCEPT !.state = "failed"])
         /\ Conclude(t, Verdict(r, hit, agree), row, "internal")

\* Mutant: both rows are given to the operator whatever state they are in.
MarkRecoveryRequiredAnyState(t, expected, category) ==
    LET id  == job[t].id
        row == [processing[id] EXCEPT !.state = "recovery_required", !.error = category]
    IN /\ Transact(id, "ok", TRUE, TRUE, row,
                   [attempt[id] EXCEPT !.state = "recovery_required"])
       /\ Conclude(t, "won", row, "internal")

\* mark_recovery_required(attempt, {expected}).
MarkRecoveryRequired(t, expected, category) ==
    LET id    == job[t].id
        hit   == attempt[id].state = expected
        agree == processing[id].state = expected
        row   == [processing[id] EXCEPT !.state = "recovery_required",
                                        !.error = category]
    IN \E r \in Outcomes :
         /\ Transact(id, r, hit, agree, row,
                     [attempt[id] EXCEPT !.state = "recovery_required"])
         /\ Conclude(t, Verdict(r, hit, agree), row, "internal")

\* The persisted backend is not configured in this process.
FailUnconfigured(t) ==
    /\ pc[t] = "claim"
    /\ ~Configured(t)
    /\ FailProcessing(t, "planned", "backend_selection_error")
    /\ UNCHANGED <<remote, env>>

\* Mutant: only the attempt is updated.
ClaimAttemptOnly(id, r) ==
    Transact(id, r, attempt[id].state = "planned", processing[id].state = "planned",
             processing[id], [attempt[id] EXCEPT !.state = "submitting"])

\* claim_attempt_for_submission: planned to submitting, in both tables.
ClaimAttemptForSubmission(id, r) ==
    Transact(id, r, attempt[id].state = "planned", processing[id].state = "planned",
             [processing[id] EXCEPT !.state = "submitting"],
             [attempt[id] EXCEPT !.state = "submitting"])

\* Mutant: the claim's result is not looked at.
ClaimAttemptUnchecked(t) ==
    /\ pc[t] = "claim"
    /\ Configured(t)
    /\ ClaimAttemptForSubmission(job[t].id, "ok")
    /\ Goto(t, "claimed")
    /\ UNCHANGED <<remote, env>>

ClaimAttempt(t) ==
    LET id    == job[t].id
        hit   == attempt[id].state = "planned"
        agree == processing[id].state = "planned"
    IN /\ pc[t] = "claim"
       /\ Configured(t)
       /\ \E r \in Outcomes :
            /\ ClaimAttemptForSubmission(id, r)
            /\ Continue(t, Verdict(r, hit, agree), "claimed", "unavailable")
       /\ UNCHANGED <<remote, env>>

\* The pass deadline expired between the claim and the backend call.
ExpireAfterClaim(t) ==
    /\ t \in Passes /\ pc[t] = "claimed"
    /\ MarkRecoveryRequired(t, "submitting", "recovery_required")
    /\ UNCHANGED <<remote, env>>

\* backend.submit leaves the process.
SendSubmission(t) ==
    /\ pc[t] = "claimed"
    /\ wire' = wire \cup {[thread |-> t, id |-> job[t].id, op |-> None]}
    /\ Goto(t, "awaiting")
    /\ UNCHANGED <<db, operation, env>>

\* BackendSubmissionRejectedError: nothing was sent (no channel, no target).
RejectSubmission(t) ==
    /\ pc[t] = "claimed"
    /\ Goto(t, "reject")
    /\ UNCHANGED <<db, remote, env>>

FailRejected(t) ==
    /\ pc[t] = "reject"
    /\ FailProcessing(t, "submitting", "backend_submission_failed")
    /\ UNCHANGED <<remote, env>>

\* Mutant: any answer on the connection is taken for this submission's.
AnySubmissionAnswered(t, m) ==
    /\ pc[t] = "awaiting"
    /\ m \in wire /\ m.op # None
    /\ wire' = wire \ {m}
    /\ pc' = [pc EXCEPT ![t] = "record"]
    /\ job' = [job EXCEPT ![t].ext = m.op]
    /\ UNCHANGED <<db, operation, env, todo, reply>>

\* The operation id arrives.
SubmissionAnswered(t, m) ==
    /\ pc[t] = "awaiting"
    /\ m \in wire /\ m.thread = t /\ m.id = job[t].id /\ m.op # None
    /\ wire' = wire \ {m}
    /\ pc' = [pc EXCEPT ![t] = "record"]
    /\ job' = [job EXCEPT ![t].ext = m.op]
    /\ UNCHANGED <<db, operation, env, todo, reply>>

\* Mutant: a timeout is taken for a rejection.
SubmissionTimeoutRejected(t) ==
    /\ pc[t] = "awaiting"
    /\ wire' = {m \in wire : m.thread # t \/ m.op = None}
    /\ Goto(t, "reject")
    /\ UNCHANGED <<db, operation, env>>

\* Timeout, broken stream or malformed answer: whether an operation exists,
\* or will once the request is served, is not known. A late answer is dropped.
SubmissionUnknown(t) ==
    /\ pc[t] = "awaiting"
    /\ wire' = {m \in wire : m.thread # t \/ m.op = None}
    /\ Goto(t, "unknown")
    /\ UNCHANGED <<db, operation, env>>

\* Mutant: a submission that is not known to exist is closed as failed.
RecordUnknownAsFailed(t) ==
    /\ pc[t] = "unknown"
    /\ FailProcessing(t, "submitting", "backend_submission_unknown")
    /\ UNCHANGED <<remote, env>>

RecordUnknown(t) ==
    /\ pc[t] = "unknown"
    /\ MarkRecoveryRequired(t, "submitting", "backend_submission_unknown")
    /\ UNCHANGED <<remote, env>>

\* Mutant: a late id revives a row that was given to an operator.
MarkAttemptRevived(id, r, ext) ==
    Transact(id, r, attempt[id].state \in {"submitting", "recovery_required"},
             processing[id].state \in {"submitting", "recovery_required"},
             [processing[id] EXCEPT !.state = "submitted"],
             [attempt[id] EXCEPT !.state = "submitted", !.ext = ext])

\* mark_attempt_submitted: the operation id becomes durable.
MarkAttemptSubmitted(id, r, ext) ==
    Transact(id, r, attempt[id].state = "submitting", processing[id].state = "submitting",
             [processing[id] EXCEPT !.state = "submitted"],
             [attempt[id] EXCEPT !.state = "submitted", !.ext = ext])

\* Its exception leads to a best-effort mark_recovery_required before the
\* request is answered 503.
RecordSubmitted(t) ==
    LET id    == job[t].id
        hit   == attempt[id].state = "submitting"
        agree == processing[id].state = "submitting"
    IN /\ pc[t] = "record"
       /\ \E r \in Outcomes :
            LET verdict == Verdict(r, hit, agree) IN
            /\ MarkAttemptSubmitted(id, r, job[t].ext)
            /\ \/ verdict = "won" /\ (Goto(t, "poll") \/ Raise(t, "internal"))
               \/ verdict = "lost" /\ Goto(t, "reread")
               \/ verdict \in {"raised", "diverged"} /\ Goto(t, "unrecorded")
       /\ UNCHANGED <<remote, env>>

RecordUnrecorded(t) ==
    LET id    == job[t].id
        hit   == attempt[id].state = "submitting"
        agree == processing[id].state = "submitting"
        row   == [processing[id] EXCEPT !.state = "recovery_required",
                                        !.error = "backend_submission_unknown"]
    IN /\ pc[t] = "unrecorded"
       /\ \E r \in Outcomes :
            /\ Transact(id, r, hit, agree, row,
                        [attempt[id] EXCEPT !.state = "recovery_required"])
            /\ Raise(t, "unavailable")
       /\ UNCHANGED <<remote, env>>

-----------------------------------------------------------------------------
(* Polling and completing: _poll_submitted. *)

\* The row's operation id or its backend is not available to this process.
RecoverUnpollable(t) ==
    /\ pc[t] = "poll"
    /\ job[t].ext = None \/ ~Configured(t)
    /\ MarkRecoveryRequired(t, "submitted", "recovery_required")
    /\ UNCHANGED <<remote, env>>

\* backend.poll: the operation's state, a timeout, or an error.
PollOperation(t) ==
    /\ pc[t] = "poll"
    /\ job[t].ext # None /\ Configured(t)
    /\ \/ \E s \in {operation[job[t].ext].state, "timeout"} :
            /\ s \in Observation \ {"none"}
            /\ pc' = [pc EXCEPT ![t] = "observed"]
            /\ job' = [job EXCEPT ![t].seen = s]
            /\ UNCHANGED <<todo, reply>>
       \/ Goto(t, "unsafe")
    /\ UNCHANGED <<db, remote, env>>

\* Mutant: an observation is recorded whatever became of the row.
RecordLateObservation(id, r, seen) ==
    Transact(id, r, TRUE, TRUE,
             [processing[id] EXCEPT !.error = IF seen = "timeout" THEN "backend_timeout"
                                              ELSE "none"],
             attempt[id])

\* record_poll: the observation, on a row that is still submitted.
RecordObservation(id, r, seen) ==
    Transact(id, r, attempt[id].state = "submitted", processing[id].state = "submitted",
             [processing[id] EXCEPT !.error = IF seen = "timeout" THEN "backend_timeout"
                                              ELSE "none"],
             attempt[id])

\* Mutant: the handler polls until the operation ends.
RecordPollAndWait(t) ==
    /\ pc[t] = "observed"
    /\ RecordObservation(job[t].id, "ok", job[t].seen)
    /\ \/ job[t].seen \in {"running", "timeout"} /\ Goto(t, "poll")
       \/ job[t].seen = "failed" /\ Goto(t, "fail")
       \/ job[t].seen = "finished" /\ Goto(t, "collect")
    /\ UNCHANGED <<remote, env>>

\* Its result is not looked at, only its exceptions count. The deadline is
\* checked again before a result is collected.
RecordPoll(t) ==
    LET id    == job[t].id
        hit   == attempt[id].state = "submitted"
        agree == processing[id].state = "submitted"
    IN /\ pc[t] = "observed"
       /\ \E r \in Outcomes :
            LET verdict == Verdict(r, hit, agree) IN
            /\ RecordObservation(id, r, job[t].seen)
            /\ \/ /\ verdict \in {"won", "lost"}
                  /\ \/ job[t].seen \in {"running", "timeout"} /\ Goto(t, "reread")
                     \/ job[t].seen = "failed" /\ Goto(t, "fail")
                     \/ job[t].seen = "finished" /\ Goto(t, "collect")
                     \/ job[t].seen = "finished" /\ t \in Passes /\ Goto(t, "reread")
               \/ verdict = "raised" /\ Raise(t, "internal")
               \/ verdict = "diverged" /\ Raise(t, "diverged")
       /\ UNCHANGED <<remote, env>>

FailExecution(t) ==
    /\ pc[t] = "fail"
    /\ FailProcessing(t, "submitted", "backend_execution_failed")
    /\ UNCHANGED <<remote, env>>

\* backend.collect_result returns the operation's result, or raises.
CollectResult(t) ==
    /\ pc[t] = "collect"
    /\ Goto(t, "complete") \/ Goto(t, "unsafe")
    /\ UNCHANGED <<db, remote, env>>

\* The operation's status or result is not safely interpretable.
RecordUnsafe(t) ==
    /\ pc[t] = "unsafe"
    /\ MarkRecoveryRequired(t, "submitted", "backend_protocol_error")
    /\ UNCHANGED <<remote, env>>

\* complete_processing: the terminal attempt and the public result together.
StoreCompletion(id, r, ext) ==
    Transact(id, r, attempt[id].state = "submitted", processing[id].state = "submitted",
             [processing[id] EXCEPT !.state = "completed", !.error = "none", !.result = ext],
             [attempt[id] EXCEPT !.state = "completed"])

CompleteProcessing(t) ==
    LET id    == job[t].id
        hit   == attempt[id].state = "submitted"
        agree == processing[id].state = "submitted"
        row   == [processing[id] EXCEPT !.state = "completed", !.error = "none",
                                        !.result = job[t].ext]
    IN /\ pc[t] = "complete"
       /\ \E r \in Outcomes :
            /\ StoreCompletion(id, r, job[t].ext)
            /\ Conclude(t, Verdict(r, hit, agree), row, "internal")
       /\ UNCHANGED <<remote, env>>

\* _reread: a caller that lost reads what is durable now.
Reread(t) ==
    /\ pc[t] = "reread"
    /\ \/ Finish(t, RecordReply(t, processing[job[t].id], FALSE))
       \/ Raise(t, "internal")
    /\ UNCHANGED <<db, remote, env>>

-----------------------------------------------------------------------------
(* Reconciliation: reconcile_once. *)

\* Mutant: a claimed row is left to the thread that claimed it.
ReconcilableUnclaimed(id) == processing[id].state \in {"accepted", "planned", "submitted"}

\* The rows a pass works on.
Reconcilable(id) ==
    \/ processing[id].state \in {"accepted", "planned", "submitted"}
    \/ /\ processing[id].state = "submitting"
       /\ attempt[id].state = "submitting"
       /\ id \in stale

\* find_reconcilable: at most Limit rows, with the states they have now.
StartPass(t) ==
    /\ t \in Passes /\ pc[t] = "idle"
    /\ t = StartupPass => startupDue
    /\ startupDue' = IF t = StartupPass THEN FALSE ELSE startupDue
    /\ LET due == {i \in Ids : Reconcilable(i)} IN
       \/ \E rows \in SUBSET due :
            /\ Cardinality(rows) = Limit \/ (rows = due /\ Cardinality(due) < Limit)
            /\ todo' = [todo EXCEPT ![t] =
                          [i \in Ids |-> IF i \in rows THEN processing[i].state
                                         ELSE "none"]]
            /\ pc' = [pc EXCEPT ![t] = "next"]
       \/ UNCHANGED <<todo, pc>>     \* the query raised
    /\ UNCHANGED <<db, remote, stale, config, job, reply>>

\* The pass takes its next row, by the state it read when it started. The
\* attempt is read for the correlation context outside the per-row handler,
\* so that error ends the pass; the handler's own read fails only this row.
TakeRow(t, id) ==
    LET label == CASE todo[t][id] = "accepted"   -> "plan"
                   [] todo[t][id] = "planned"    -> "claim"
                   [] todo[t][id] = "submitting" -> "stale"
                   [] OTHER                      -> "poll"
    IN /\ t \in Passes /\ pc[t] = "next"
       /\ todo[t][id] # "none"
       /\ \/ /\ pc' = [pc EXCEPT ![t] = label]
             /\ job' = [job EXCEPT ![t] =
                          [NoJob EXCEPT !.id = id,
                             !.ext = IF label = "poll" THEN attempt[id].ext ELSE None]]
             /\ todo' = [todo EXCEPT ![t][id] = "none"]
          \/ /\ label # "plan"
             /\ todo' = [todo EXCEPT ![t][id] = "none"]
             /\ UNCHANGED <<pc, job>>
          \/ /\ pc' = [pc EXCEPT ![t] = "idle"]
             /\ todo' = [todo EXCEPT ![t] = NoTodo]
             /\ UNCHANGED job
       /\ UNCHANGED <<db, remote, env, reply>>

\* No row is left, or the time budget is spent.
EndPass(t) ==
    /\ t \in Passes /\ pc[t] = "next"
    /\ pc' = [pc EXCEPT ![t] = "idle"]
    /\ todo' = [todo EXCEPT ![t] = NoTodo]
    /\ UNCHANGED <<db, remote, env, job, reply>>

\* The deadline is found expired before the claim or before the poll.
ExpireRow(t) ==
    /\ t \in Passes /\ pc[t] \in {"claim", "poll"}
    /\ Configured(t) /\ (pc[t] = "poll" => job[t].ext # None)
    /\ Finish(t, NoReply)
    /\ UNCHANGED <<db, remote, env>>

\* Mutant: a stale submission is closed as failed.
FailStale(t) ==
    /\ pc[t] = "stale"
    /\ FailProcessing(t, "submitting", "backend_submission_unknown")
    /\ UNCHANGED <<remote, env>>

\* A submitting row older than the threshold has no discoverable operation.
RecoverStale(t) ==
    /\ pc[t] = "stale"
    /\ MarkRecoveryRequired(t, "submitting", "backend_submission_unknown")
    /\ UNCHANGED <<remote, env>>

-----------------------------------------------------------------------------
(* The environment. *)

\* The backend serves a submission; the answer travels back if the caller
\* still waits for it.
ServeSubmission(m, o) ==
    /\ m \in wire /\ m.op = None
    /\ operation[o].owner = None
    /\ operation' = [operation EXCEPT ![o] = [owner |-> m.id, state |-> "running"]]
    /\ wire' = IF pc[m.thread] = "awaiting" /\ job[m.thread].id = m.id
               THEN (wire \ {m}) \cup {[m EXCEPT !.op = o]}
               ELSE wire \ {m}
    /\ UNCHANGED <<db, env, thread>>

\* A running operation ends.
EndOperation(o, s) ==
    /\ operation[o].state = "running"
    /\ s \in {"finished", "failed"}
    /\ operation' = [operation EXCEPT ![o].state = s]
    /\ UNCHANGED <<db, wire, env, thread>>

\* Five minutes pass while an attempt is in submitting.
GrowStale(id) ==
    /\ attempt[id].state = "submitting"
    /\ stale' = stale \cup {id}
    /\ UNCHANGED <<db, remote, config, startupDue, thread>>

\* A process dies, or ends, and is started again, perhaps reconfigured. Its
\* threads are gone with everything they knew; a request is never answered.
Restart(p) ==
    LET mine == {t \in Threads : Process(t) = p} IN
    /\ config' \in {[config EXCEPT ![p] = c] : c \in Configs}
    /\ startupDue' = (startupDue \/ p = "api")
    /\ pc' = [t \in Threads |-> IF t \in mine THEN "idle" ELSE pc[t]]
    /\ job' = [t \in Threads |-> IF t \in mine THEN NoJob ELSE job[t]]
    /\ todo' = [t \in Threads |-> IF t \in mine THEN NoTodo ELSE todo[t]]
    /\ wire' = {m \in wire : m.thread \notin mine \/ m.op = None}
    /\ UNCHANGED <<db, operation, stale, reply>>

-----------------------------------------------------------------------------
Init ==
    /\ processing = [i \in Ids |-> NoRow]
    /\ attempt = [i \in Ids |-> NoAttempt]
    /\ operation = [o \in Operations |-> [owner |-> None, state |-> "none"]]
    /\ wire = {}
    /\ stale = {}
    /\ config \in [Processes -> Configs]
    /\ startupDue = TRUE
    /\ pc = [t \in Threads |-> "idle"]
    /\ job = [t \in Threads |-> NoJob]
    /\ todo = [t \in Threads |-> NoTodo]
    /\ reply = [t \in Threads |-> NoReply]

Accepting(t) ==
    \/ \E k \in Keys, a \in Alerts : ReceiveRequest(t, k, a)
    \/ \E id \in Ids : AcceptNew(t, id) \/ AcceptExisting(t, id)

Planning(t) == FailPlanning(t) \/ StoreNoAction(t) \/ StorePlan(t)

Submitting(t) ==
    \/ FailUnconfigured(t) \/ ClaimAttempt(t) \/ ExpireAfterClaim(t)
    \/ SendSubmission(t) \/ RejectSubmission(t) \/ FailRejected(t)
    \/ \E m \in wire : SubmissionAnswered(t, m)
    \/ SubmissionUnknown(t) \/ RecordUnknown(t)
    \/ RecordSubmitted(t) \/ RecordUnrecorded(t)

Polling(t) ==
    \/ RecoverUnpollable(t) \/ PollOperation(t) \/ RecordPoll(t)
    \/ FailExecution(t) \/ CollectResult(t) \/ RecordUnsafe(t)
    \/ CompleteProcessing(t) \/ Reread(t)

Reconciling(t) ==
    \/ StartPass(t) \/ EndPass(t) \/ ExpireRow(t) \/ RecoverStale(t)
    \/ \E id \in Ids : TakeRow(t, id)

Environment ==
    \/ \E m \in wire, o \in Operations : ServeSubmission(m, o)
    \/ \E o \in Operations, s \in {"finished", "failed"} : EndOperation(o, s)
    \/ \E id \in Ids : GrowStale(id)
    \/ \E p \in Processes : Restart(p)

Next ==
    \/ \E t \in Threads : \/ Accepting(t) \/ Planning(t) \/ Submitting(t)
                          \/ Polling(t) \/ Reconciling(t)
    \/ Environment

Spec == Init /\ [][Next]_vars
-----------------------------------------------------------------------------
(* Properties. *)

\* Every variable keeps the shape the columns, locals and messages have.
TypeOK ==
    /\ processing \in [Ids -> Rows]
    /\ attempt \in [Ids -> Attempts]
    /\ operation \in [Operations -> RemoteOperations]
    /\ wire \subseteq Messages
    /\ stale \subseteq Ids
    /\ config \in [Processes -> SUBSET Backends]
    /\ startupDue \in BOOLEAN
    /\ pc \in [Threads -> Labels]
    /\ job \in [Threads -> Jobs]
    /\ todo \in [Threads -> [Ids -> ProcessingState \cup {"none"}]]
    /\ reply \in [Threads -> Replies]

\* The two tables never disagree: the attempt exists exactly from planning
\* on and is in the processing's state, a no-action completion and a planning
\* failure have none. The "states diverged" errors of claim, record, poll,
\* completion and recovery (postgres.py) are unreachable because of this.
RowsAgree ==
    \A i \in Ids :
        LET p == processing[i].state
            a == attempt[i].state
        IN /\ p \in {"none", "accepted"} => a = "none"
           /\ p \in {"planned", "submitting", "submitted", "recovery_required"}
                => a = p
           /\ p = "completed" =>
                a = IF processing[i].alert \in Severe THEN "completed" ELSE "none"
           /\ p = "failed" => a \in {"none", "failed"}

\* Whatever the interleaving of requests, passes, crashes, lost
\* acknowledgements and late answers, the backend never runs two operations
\* for one processing: only the winner of the claim submits, and once.
AtMostOneOperation ==
    \A o, q \in Operations :
        operation[o].owner # None /\ operation[o].owner = operation[q].owner => o = q

\* No backend action without a durable claim: while a row reads accepted or
\* planned, is a no-action, or failed for a reason that means "never
\* submitted" (routing, configuration, definitive rejection), no operation
\* exists for it.
NoEffectWithoutClaim ==
    \A o \in Operations, i \in Ids :
        operation[o].owner = i =>
            /\ processing[i].state \notin {"none", "accepted", "planned"}
            /\ processing[i].alert \in Severe
            /\ processing[i].error \notin {"unsupported_capability",
                  "backend_selection_error", "backend_submission_failed"}

\* An operation whose id never became durable is never forgotten: its row is
\* still submitting, or is held for an operator in recovery_required; it is
\* not closed as completed or failed and not offered for submission again.
OrphansAwaitRecovery ==
    \A o \in Operations, i \in Ids :
        operation[o].owner = i /\ attempt[i].ext = None =>
            processing[i].state \in {"submitting", "recovery_required"}

\* A terminal row states what the backend did: an investigated completion
\* carries the result of this processing's own, finished operation, and
\* backend_execution_failed is written only about an operation that failed,
\* even when another thread polled or gave up in between.
OutcomeIsRemote ==
    \A i \in Ids :
        /\ processing[i].state = "completed" /\ processing[i].alert \in Severe =>
             /\ processing[i].result # None
             /\ attempt[i].ext = processing[i].result
             /\ operation[processing[i].result] = [owner |-> i, state |-> "finished"]
        /\ processing[i].error = "backend_execution_failed" =>
             /\ attempt[i].ext # None
             /\ operation[attempt[i].ext] = [owner |-> i, state |-> "failed"]

\* One processing per scoped idempotency key, however acceptances race and
\* whichever of their acknowledgements are lost.
ScopedKeyUnique ==
    \A i, j \in Ids :
        /\ processing[i].state # "none" /\ processing[j].state # "none"
        /\ processing[i].key = processing[j].key
        /\ Source[processing[i].alert] = Source[processing[j].alert]
        => i = j

Rank == [s \in ProcessingState |->
            CASE s = "accepted"          -> 0
              [] s = "planned"           -> 1
              [] s = "submitting"        -> 2
              [] s = "submitted"         -> 3
              [] OTHER                   -> 4]

\* What a client was told stays true: an answered row is about the client's
\* own alert, an answered final state (or recovery_required) is still the
\* durable one, and an answered intermediate state was not ahead of it.
RepliesDurable ==
    \A t \in Requests :
        LET r == reply[t] IN
        r.kind \in {"record", "unsupported", "ambiguous"} =>
            /\ processing[r.id].state # "none"
            /\ processing[r.id].alert = r.alert
            /\ Rank[r.state] = 4 => processing[r.id].state = r.state
            /\ Rank[r.state] <= Rank[processing[r.id].state]

\* A caller that loses a compare-and-set re-reads the durable row; it is not
\* answered with an exception about diverged states (docs/APPLICATION.md).
LosingCallerRereads == \A t \in Requests : reply[t].kind # "diverged"

\* Rows move only along ALLOWED_PROCESSING_TRANSITIONS, and no automatic step
\* leaves recovery_required although the table lists transitions out of it.
TransitionsAllowed ==
    [][\A i \in Ids :
         processing'[i].state # processing[i].state =>
            \/ processing[i].state = "none" /\ processing'[i].state = "accepted"
            \/ /\ processing[i].state # "recovery_required"
               /\ <<processing[i].state, processing'[i].state>> \in AllowedTransitions
      ]_vars

\* Late writers change nothing that is settled: a terminal row is frozen in
\* every column, and key, alert, plan and operation id never change once set.
SettledFactsFrozen ==
    [][\A i \in Ids :
         /\ processing[i].state \in Terminal =>
              /\ processing'[i] = processing[i]
              /\ attempt'[i] = attempt[i]
         /\ processing[i].state # "none" =>
              /\ processing'[i].key = processing[i].key
              /\ processing'[i].alert = processing[i].alert
         /\ processing[i].backend # None => processing'[i].backend = processing[i].backend
         /\ attempt[i].ext # None => attempt'[i].ext = attempt[i].ext
      ]_vars

-----------------------------------------------------------------------------
(* The contract the processor implements. *)

Phase(state) ==
    IF state = "none" THEN "absent"
    ELSE IF state \in {"accepted", "planned"} THEN "open"
    ELSE IF state = "submitting" THEN "claimed"
    ELSE IF state = "submitted" THEN "tracked"
    ELSE IF state = "recovery_required" THEN "held" ELSE state

Contract == INSTANCE ProcessingContract WITH
    phase <- [i \in Ids |-> Phase(processing[i].state)],
    runs  <- [i \in Ids |-> {o \in Operations : operation[o].owner = i}],
    ended <- [o \in Operations |-> operation[o].state]

\* What the API shows of a row: see FindingDelivery, which relies on it.
PublicState(r) ==
    IF r.state = "none" THEN "absent"
    ELSE IF r.state = "completed" THEN "completed"
    ELSE IF r.state # "failed" THEN "active"
    ELSE IF r.error = "unsupported_capability" THEN "unsupported" ELSE "failed"

PublicRow(r) ==
    [state    |-> PublicState(r),
     identity |-> IF r.state = "none" THEN None ELSE <<Source[r.alert], r.key>>,
     alert    |-> r.alert]

PublicRows == INSTANCE DurableRows WITH
    Identities <- {<<Source[a], k>> : a \in Alerts, k \in Keys},
    row        <- [i \in Ids |-> PublicRow(processing[i])]

\* The rows a client can see are created once per scoped key, keep their
\* identity and alert, and close at most once, whatever threads, crashes and
\* lost acknowledgements do.
ImplementsRows == PublicRows!Spec

\* Seen from the tables and the backend alone, every step of every thread,
\* crash or late message is one step of the contract or none.
ImplementsContract == Contract!Spec

-----------------------------------------------------------------------------
(* Progress. *)

\* A thread goes on from where it is: connect, statement and backend
\* timeouts bound every call it makes.
Advance(t) ==
    /\ pc[t] # "idle"
    /\ Accepting(t) \/ Planning(t) \/ Submitting(t) \/ Polling(t) \/ Reconciling(t)

\* A step of a pass on a row that is not yet submitted commits.
Commit(t) ==
    /\ Planning(t) \/ Submitting(t) \/ RecoverStale(t)
    /\ processing' # processing

\* Threads are scheduled and time passes. The code has no scheduler for
\* passes: an operator keeps running them, and not each of them fails at the
\* same call.
FairSpec ==
    /\ Spec
    /\ \A t \in Threads : WF_vars(Advance(t))
    /\ \A i \in Ids : WF_vars(GrowStale(i))
    /\ \A t \in OperatorPasses :
         /\ SF_vars(StartPass(t) /\ pc'[t] = "next")
         /\ \A i \in Ids : SF_vars(TakeRow(t, i) /\ job'[t].id = i)
         /\ SF_vars(Commit(t))

\* Every request is answered, unless its process dies.
RequestsAnswered ==
    \A t \in Requests : pc[t] = "accept" ~> pc[t] = "idle"

\* No row stays in a state before submitted for ever, wherever its thread
\* died: it is submitted, closed, or handed to an operator.
RowsSurface ==
    \A i \in Ids : processing[i].state \in {"accepted", "planned", "submitting"}
                    ~> processing[i].state \in {"submitted", "recovery_required"} \cup Terminal
=============================================================================
