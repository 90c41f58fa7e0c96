--------------------------- MODULE RepositoryRows ---------------------------
(***************************************************************************)
(* The two implementations of ProcessingRepository, side by side: the      *)
(* PostgreSQL tables (postgres.py over the schema of migration 0002) and   *)
(* the in-memory repository the tests run the processor on (memory.py).    *)
(* Both receive the same calls in the same order; each call is one         *)
(* transaction in PostgreSQL and one critical section in memory.  Columns  *)
(* and fields are modelled by whether they are NULL, which is what the     *)
(* CHECK constraints and the record constructors look at.                  *)
(***************************************************************************)
EXTENDS Naturals, Sequences, FiniteSets, UpdateOrder

CONSTANTS
    NewIds,     \* processings accepted by this version
    LegacyIds,  \* processings stored by schema 0001
    Keys,       \* scoped idempotency keys
    None        \* NULL

Ids == NewIds \cup LegacyIds

ASSUME IdsAssumption ==
    NewIds \cap LegacyIds = {} /\ IsFiniteSet(LegacyIds) /\ None \notin Keys

VARIABLES
    pg,      \* processing_records, execution_attempts, rows by updated_at
    memory,  \* _records, _attempts, records by updated_at
    answer   \* what the last call returned from each

vars == <<pg, memory, answer>>

-----------------------------------------------------------------------------
(* Rows, and the objects they are read as. *)

States == {"accepted", "planned", "submitting", "submitted",
           "completed", "failed", "recovery_required"}

\* Between planning and a terminal state.
Executing == {"planned", "submitting", "submitted", "recovery_required"}

\* ACTIVE_ATTEMPT_STATES.
ActiveAttempts == Executing

Decisions == {"investigate", "no_action"}

ASSUME NullAssumption == None \notin Decisions

\* A row of processing_records; "has" are the nullable groups that are not
\* NULL, "error" standing for the category and detail written together.
RowColumns == {"request", "selected_backend", "result",
               "completed_at", "failed_at", "error"}

Row == [state: States \cup {"none"}, key: Keys \cup {None},
        decision: Decisions \cup {None}, has: SUBSET RowColumns]

\* A ProcessingRecord: planned_decision, planned_incident with
\* planned_request, and completed_result.
RecordFields == {"selected_backend", "completed_at", "failed_at", "error"}

Record == [state: States \cup {"none"}, key: Keys \cup {None},
           decision: Decisions \cup {None}, planned: BOOLEAN,
           result: Decisions \cup {None}, has: SUBSET RecordFields]

AttemptColumns == {"started_at", "submitted_at", "external_operation_id",
                   "last_polled_at", "completed_at", "failed_at", "error"}

\* A row of execution_attempts, and the ExecutionAttempt read from it.
Attempt == [state: (States \ {"accepted"}) \cup {"none"}, has: SUBSET AttemptColumns]

NoRow     == [state |-> "none", key |-> None, decision |-> None, has |-> {}]
NoRecord  == [state |-> "none", key |-> None, decision |-> None,
              planned |-> FALSE, result |-> None, has |-> {}]
NoAttempt == [state |-> "none", has |-> {}]

\* ck_processing_records_lifecycle_coherence.
RowChecks(r) ==
    \/ r.state = "accepted" /\ r.decision = None /\ r.has = {}
    \/ /\ r.state \in Executing
       /\ r.decision = "investigate"
       /\ {"request", "selected_backend"} \subseteq r.has
       /\ r.has \cap {"result", "completed_at", "failed_at"} = {}
       /\ r.state = "recovery_required" => "error" \in r.has
    \/ /\ r.state = "completed"
       /\ "completed_at" \in r.has /\ "failed_at" \notin r.has
       /\ \/ /\ r.decision = "no_action"
             /\ r.has \cap {"request", "selected_backend", "result"} = {}
          \/ /\ r.decision = "investigate"
             /\ {"request", "result"} \subseteq r.has
             /\ "selected_backend" \in r.has \/ r.key = None
    \/ /\ r.state = "failed"
       /\ {"failed_at", "error"} \subseteq r.has
       /\ r.has \cap {"completed_at", "result"} = {}

\* ck_execution_attempts_lifecycle_coherence.
AttemptChecks(a) ==
    \/ /\ a.state = "planned"
       /\ a.has \subseteq {"last_polled_at", "error"}
    \/ /\ a.state = "submitting"
       /\ "started_at" \in a.has
       /\ a.has \subseteq {"started_at", "last_polled_at", "error"}
    \/ /\ a.state = "submitted"
       /\ {"started_at", "submitted_at", "external_operation_id"} \subseteq a.has
       /\ a.has \cap {"completed_at", "failed_at"} = {}
    \/ /\ a.state = "completed"
       /\ AttemptColumns \ {"failed_at", "error", "last_polled_at"} \subseteq a.has
       /\ "failed_at" \notin a.has
    \/ /\ a.state = "failed"
       /\ {"failed_at", "error"} \subseteq a.has /\ "completed_at" \notin a.has
    \/ /\ a.state = "recovery_required"
       /\ {"started_at", "error"} \subseteq a.has
       /\ a.has \cap {"completed_at", "failed_at"} = {}

\* Mutant: an error is taken for a sign of a terminal record.
RecordValidErrorIsTerminal(r) ==
    \/ /\ r.state \in Executing \ {"recovery_required"}
       /\ r.decision # None /\ r.planned /\ "selected_backend" \in r.has
       /\ r.result = None /\ "error" \notin r.has
    \/ r.state \notin Executing \ {"recovery_required"}

\* ProcessingRecord.__post_init__ accepts the values.
RecordValid(r) ==
    \/ /\ r.state = "accepted"
       /\ r.decision = None /\ ~r.planned /\ "selected_backend" \notin r.has
       /\ r.result = None
    \/ /\ r.state \in Executing
       /\ r.decision # None /\ r.planned /\ "selected_backend" \in r.has
       /\ r.result = None
    \/ /\ r.state = "completed"
       /\ r.result # None /\ "completed_at" \in r.has /\ "failed_at" \notin r.has
    \/ /\ r.state = "failed"
       /\ {"failed_at", "error"} \subseteq r.has
       /\ r.result = None /\ "completed_at" \notin r.has

\* ExecutionAttempt.__post_init__ accepts the values.
AttemptValid(a) ==
    \/ /\ a.state = "planned"
       /\ a.has \subseteq {"last_polled_at", "error"}
    \/ /\ a.state = "submitting"
       /\ "started_at" \in a.has /\ "external_operation_id" \notin a.has
    \/ /\ a.state = "submitted"
       /\ {"started_at", "submitted_at", "external_operation_id"} \subseteq a.has
       /\ a.has \cap {"completed_at", "failed_at"} = {}
    \/ /\ a.state = "completed"
       /\ {"started_at", "submitted_at", "external_operation_id",
           "completed_at"} \subseteq a.has
       /\ "failed_at" \notin a.has
    \/ /\ a.state = "failed"
       /\ {"failed_at", "error"} \subseteq a.has /\ "completed_at" \notin a.has
    \/ /\ a.state = "recovery_required"
       /\ {"started_at", "error"} \subseteq a.has
       /\ a.has \cap {"completed_at", "failed_at"} = {}

\* _deserialize_processing builds a completed_result from these columns.
ResultReadable(r) ==
    r.state = "completed" =>
        \/ r.decision = "no_action"
        \/ r.decision = "investigate" /\ {"request", "result"} \subseteq r.has

\* _deserialize_processing: a completed row is read as its result only.
Deserialize(r) ==
    LET done == r.state = "completed"
    IN [state    |-> r.state,
        key      |-> r.key,
        decision |-> IF done THEN None ELSE r.decision,
        planned  |-> ~done /\ r.decision = "investigate" /\ "request" \in r.has,
        result   |-> IF done THEN r.decision ELSE None,
        has      |-> r.has \cap RecordFields]

Readable(r) == ResultReadable(r) /\ RecordValid(Deserialize(r))

\* What callers read of a record: its state and its decision, request and
\* result properties, which prefer completed_result to the plan.
View(r) ==
    [state    |-> r.state,
     key      |-> r.key,
     decision |-> IF r.result # None THEN r.result ELSE r.decision,
     request  |-> IF r.result # None THEN r.result = "investigate" ELSE r.planned,
     result   |-> r.result,
     has      |-> r.has]

-----------------------------------------------------------------------------
(* How a call ends. *)

\* Answers other than a record: the compare-and-set missed, the two tables
\* disagreed, a constraint or a constructor refused the new values.
Failure(kind) == [kind |-> kind]

\* A PostgreSQL transaction: "hit" is the first statement's condition,
\* "agree" the second one's; it rolls back if a CHECK refuses a new row.
Transaction(id, hit, agree, row, att, returned) ==
    IF ~hit THEN [store |-> pg, answer |-> Failure("missed")]
    ELSE IF ~agree THEN [store |-> pg, answer |-> Failure("diverged")]
    ELSE IF ~RowChecks(row) \/ ~(att = NoAttempt \/ AttemptChecks(att))
         THEN [store |-> pg, answer |-> Failure("refused")]
    ELSE [store  |-> [pg EXCEPT !.row[id] = row, !.attempt[id] = att,
                                !.order = Touch(pg.order, id)],
          answer |-> returned]

\* A critical section of the in-memory repository.
Section(id, hit, record, att, returned) ==
    IF ~hit THEN [store |-> memory, answer |-> Failure("missed")]
    ELSE IF ~RecordValid(record) \/ ~(att = NoAttempt \/ AttemptValid(att))
         THEN [store |-> memory, answer |-> Failure("refused")]
    ELSE [store  |-> [memory EXCEPT !.record[id] = record, !.attempt[id] = att,
                                    !.order = Touch(memory.order, id)],
          answer |-> returned]

\* The same call on both.
Both(onPg, onMemory) ==
    /\ pg' = onPg.store
    /\ memory' = onMemory.store
    /\ answer' = [pg |-> onPg.answer, memory |-> onMemory.answer]

\* Results of calls that return a processing, an attempt, or both.
ReturnedRow(row)    == [kind |-> "record", record |-> View(Deserialize(row))]
ReturnedRecord(rec) == [kind |-> "record", record |-> View(rec)]
ReturnedAttempt(a)  == [kind |-> "attempt", attempt |-> a]

-----------------------------------------------------------------------------
(* The calls the processor makes. *)

\* accept_processing: insert, or return the row that holds the key.
AcceptOnPg(i, k) ==
    IF \E j \in Ids : pg.row[j].key = k
    THEN LET j == CHOOSE j \in Ids : pg.row[j].key = k
         IN [store |-> pg, answer |-> ReturnedRow(pg.row[j])]
    ELSE LET row == [NoRow EXCEPT !.state = "accepted", !.key = k]
         IN Transaction(i, TRUE, TRUE, row, NoAttempt, ReturnedRow(row))

AcceptInMemory(i, k) ==
    IF \E j \in Ids : memory.record[j].key = k
    THEN LET j == CHOOSE j \in Ids : memory.record[j].key = k
         IN [store |-> memory, answer |-> ReturnedRecord(memory.record[j])]
    ELSE LET record == [NoRecord EXCEPT !.state = "accepted", !.key = k]
         IN Section(i, TRUE, record, NoAttempt, ReturnedRecord(record))

\* The id is a fresh uuid4.
AcceptProcessing(i, k) ==
    /\ pg.row[i].state = "none"
    /\ Both(AcceptOnPg(i, k), AcceptInMemory(i, k))

StoreNoActionOnPg(i) ==
    LET row == [pg.row[i] EXCEPT !.state = "completed", !.decision = "no_action",
                                 !.has = @ \cup {"completed_at"}]
    IN Transaction(i, pg.row[i].state = "accepted", TRUE, row, pg.attempt[i],
                   ReturnedRow(row))

StoreNoActionInMemory(i) ==
    LET record == [memory.record[i] EXCEPT !.state = "completed", !.result = "no_action",
                                           !.has = @ \cup {"completed_at"}]
    IN Section(i, memory.record[i].state = "accepted", record, memory.attempt[i],
               ReturnedRecord(record))

StoreNoActionResult(i) == Both(StoreNoActionOnPg(i), StoreNoActionInMemory(i))

PlannedAttempt == [NoAttempt EXCEPT !.state = "planned"]

\* store_plan: the plan and attempt 1; the answer carries both.
StorePlanOnPg(i) ==
    LET row == [pg.row[i] EXCEPT !.state = "planned", !.decision = "investigate",
                                 !.has = @ \cup {"request", "selected_backend"}]
    IN Transaction(i, pg.row[i].state = "accepted", pg.attempt[i] = NoAttempt,
                   row, PlannedAttempt, ReturnedRow(row))

StorePlanInMemory(i) ==
    LET record == [memory.record[i] EXCEPT !.state = "planned", !.planned = TRUE,
                                           !.decision = "investigate",
                                           !.has = @ \cup {"selected_backend"}]
    IN Section(i, memory.record[i].state = "accepted" /\ memory.attempt[i] = NoAttempt,
               record, PlannedAttempt, ReturnedRecord(record))

StorePlan(i) == Both(StorePlanOnPg(i), StorePlanInMemory(i))

\* The attempt after each call: the same columns in both repositories.
ClaimedAttempt(a) ==
    [a EXCEPT !.state = "submitting", !.has = @ \cup {"started_at"}]
SubmittedAttempt(a) ==
    [a EXCEPT !.state = "submitted",
              !.has = @ \cup {"submitted_at", "external_operation_id"}]

\* In memory an attempt call looks at both states before it writes.
AttemptSection(i, s, record, att, returned) ==
    Section(i, memory.attempt[i].state = s /\ memory.record[i].state = s,
            record, att, returned)

\* In PostgreSQL the attempt's UPDATE is first and the processing's decides.
AttemptTransaction(i, s, row, att, returned) ==
    Transaction(i, pg.attempt[i].state = s, pg.row[i].state = s, row, att, returned)

\* Mutant: the claim does not stamp started_at.
ClaimOnPgUnstamped(i) ==
    LET att == [pg.attempt[i] EXCEPT !.state = "submitting"]
    IN AttemptTransaction(i, "planned", [pg.row[i] EXCEPT !.state = "submitting"],
                          att, ReturnedAttempt(att))

\* claim_attempt_for_submission.
ClaimOnPg(i) ==
    LET att == ClaimedAttempt(pg.attempt[i])
    IN AttemptTransaction(i, "planned", [pg.row[i] EXCEPT !.state = "submitting"],
                          att, ReturnedAttempt(att))

ClaimInMemory(i) ==
    LET att == ClaimedAttempt(memory.attempt[i])
    IN AttemptSection(i, "planned", [memory.record[i] EXCEPT !.state = "submitting"],
                      att, ReturnedAttempt(att))

ClaimAttemptForSubmission(i) == Both(ClaimOnPg(i), ClaimInMemory(i))

\* mark_attempt_submitted.
SubmittedOnPg(i) ==
    LET att == SubmittedAttempt(pg.attempt[i])
    IN AttemptTransaction(i, "submitting", [pg.row[i] EXCEPT !.state = "submitted"],
                          att, ReturnedAttempt(att))

SubmittedInMemory(i) ==
    LET att == SubmittedAttempt(memory.attempt[i])
    IN AttemptSection(i, "submitting", [memory.record[i] EXCEPT !.state = "submitted"],
                      att, ReturnedAttempt(att))

MarkAttemptSubmitted(i) == Both(SubmittedOnPg(i), SubmittedInMemory(i))

\* A poll writes its error, or clears the one of an earlier poll.
WithError(has, error) == (has \ {"error"}) \cup error

PolledAttempt(a, error) ==
    [a EXCEPT !.has = WithError(@ \cup {"last_polled_at"}, error)]

\* Mutant: the poll leaves processing_records.updated_at alone.
PollOnPgUntouched(i, error) ==
    LET att == PolledAttempt(pg.attempt[i], error)
        row == [pg.row[i] EXCEPT !.has = WithError(@, error)]
        r   == AttemptTransaction(i, "submitted", row, att, ReturnedAttempt(att))
    IN [r EXCEPT !.store.order = pg.order]

\* record_poll.
PollOnPg(i, error) ==
    LET att == PolledAttempt(pg.attempt[i], error)
        row == [pg.row[i] EXCEPT !.has = WithError(@, error)]
    IN AttemptTransaction(i, "submitted", row, att, ReturnedAttempt(att))

PollInMemory(i, error) ==
    LET att == PolledAttempt(memory.attempt[i], error)
        record == [memory.record[i] EXCEPT !.has = WithError(@, error)]
    IN AttemptSection(i, "submitted", record, att, ReturnedAttempt(att))

RecordPoll(i, error) == Both(PollOnPg(i, error), PollInMemory(i, error))

CompletedAttempt(a) ==
    [a EXCEPT !.state = "completed",
              !.has = WithError(@ \cup {"completed_at", "last_polled_at"}, {})]

\* complete_processing: the result columns are added and the error cleared.
\* The comparison of the stored result with the given one, after the commit, is
\* left out: the processor builds the result from the row's own plan.
CompleteOnPg(i) ==
    LET row == [pg.row[i] EXCEPT !.state = "completed",
                      !.has = WithError(@ \cup {"result", "completed_at"}, {})]
    IN AttemptTransaction(i, "submitted", row, CompletedAttempt(pg.attempt[i]),
                          ReturnedRow(row))

CompleteInMemory(i) ==
    LET record == [memory.record[i] EXCEPT !.state = "completed",
                      !.result = "investigate",
                      !.has = WithError(@ \cup {"completed_at"}, {})]
    IN AttemptSection(i, "submitted", record, CompletedAttempt(memory.attempt[i]),
                      ReturnedRecord(record))

CompleteProcessing(i) == Both(CompleteOnPg(i), CompleteInMemory(i))

FailedAttempt(a) ==
    [a EXCEPT !.state = "failed", !.has = @ \cup {"failed_at", "error"}]

\* fail_processing in PostgreSQL: the attempt is updated first, in whatever
\* active state it is, then the processing if it is in the expected state.
FailOnPg(i, expected, attempted) ==
    LET row == [pg.row[i] EXCEPT !.state = "failed",
                                 !.has = @ \cup {"failed_at", "error"}]
    IN IF attempted
       THEN Transaction(i, pg.attempt[i].state \in ActiveAttempts,
                        pg.row[i].state = expected, row,
                        FailedAttempt(pg.attempt[i]), ReturnedRow(row))
       ELSE Transaction(i, pg.row[i].state = expected, TRUE, row, pg.attempt[i],
                        ReturnedRow(row))

\* In memory both are looked at before either is written.
FailInMemory(i, expected, attempted) ==
    LET record == [memory.record[i] EXCEPT !.state = "failed",
                                           !.has = @ \cup {"failed_at", "error"}]
    IN Section(i, /\ memory.record[i].state = expected
                  /\ attempted => memory.attempt[i].state \in ActiveAttempts,
               record,
               IF attempted THEN FailedAttempt(memory.attempt[i]) ELSE memory.attempt[i],
               ReturnedRecord(record))

\* Planning fails without an attempt; later failures name theirs.
FailProcessing(i, expected) ==
    LET attempted == expected # "accepted"
    IN /\ attempted => pg.attempt[i] # NoAttempt
       /\ Both(FailOnPg(i, expected, attempted), FailInMemory(i, expected, attempted))

RecoveryAttempt(a) ==
    [a EXCEPT !.state = "recovery_required", !.has = @ \cup {"error"}]

\* mark_recovery_required.
RecoveryOnPg(i, expected) ==
    LET row == [pg.row[i] EXCEPT !.state = "recovery_required", !.has = @ \cup {"error"}]
    IN AttemptTransaction(i, expected, row, RecoveryAttempt(pg.attempt[i]),
                          ReturnedRow(row))

RecoveryInMemory(i, expected) ==
    LET record == [memory.record[i] EXCEPT !.state = "recovery_required",
                                           !.has = @ \cup {"error"}]
    IN AttemptSection(i, expected, record, RecoveryAttempt(memory.attempt[i]),
                      ReturnedRecord(record))

MarkRecoveryRequired(i, expected) ==
    Both(RecoveryOnPg(i, expected), RecoveryInMemory(i, expected))

-----------------------------------------------------------------------------
(* find_reconcilable, given the attempts whose started_at is old enough. *)

ReconcilableOnPg(i, old) ==
    \/ pg.row[i].state \in {"accepted", "planned", "submitted"}
    \/ /\ pg.row[i].state = "submitting" /\ pg.attempt[i].state = "submitting"
       /\ "started_at" \in pg.attempt[i].has /\ i \in old

ReconcilableInMemory(i, old) ==
    \/ memory.record[i].state \in {"accepted", "planned", "submitted"}
    \/ /\ memory.record[i].state = "submitting"
       /\ "started_at" \in memory.attempt[i].has /\ i \in old

FindOnPg(limit, old) ==
    Oldest(pg.order, {i \in Ids : ReconcilableOnPg(i, old)}, limit)
FindInMemory(limit, old) ==
    Oldest(memory.order, {i \in Ids : ReconcilableInMemory(i, old)}, limit)

-----------------------------------------------------------------------------
\* A row of schema 0001: a finished processing, its decision and its result.
LegacyRow(d) ==
    [NoRow EXCEPT !.decision = d,
                  !.has = IF d = "investigate" THEN {"request", "result"} ELSE {}]

\* Mutant: rows without a stored selected_backend are queued to be run again.
UpgradeAsAccepted(r) == [r EXCEPT !.state = "accepted"]

\* Migration 0002 marks every row it finds completed when it was created.
Upgrade(r) == [r EXCEPT !.state = "completed", !.has = @ \cup {"completed_at"}]

Init ==
    \E decided \in [LegacyIds -> Decisions],
       order \in [1 .. Cardinality(LegacyIds) -> LegacyIds] :
        /\ {order[n] : n \in DOMAIN order} = LegacyIds
        /\ pg = [row     |-> [i \in Ids |-> IF i \in LegacyIds
                                            THEN Upgrade(LegacyRow(decided[i]))
                                            ELSE NoRow],
                 attempt |-> [i \in Ids |-> NoAttempt],
                 order   |-> order]
        /\ memory = [record  |-> [i \in Ids |-> NoRecord],
                     attempt |-> [i \in Ids |-> NoAttempt],
                     order   |-> <<>>]
        /\ answer = [pg |-> Failure("missed"), memory |-> Failure("missed")]

\* What the processor may do with a processing it has read, however old the
\* state it read.
Call(i) ==
    /\ pg.row[i].state # "none"
    /\ \/ StoreNoActionResult(i)
       \/ StorePlan(i)
       \/ ClaimAttemptForSubmission(i)
       \/ MarkAttemptSubmitted(i)
       \/ \E error \in SUBSET {"error"} : RecordPoll(i, error)
       \/ CompleteProcessing(i)
       \/ \E s \in {"accepted", "planned", "submitting", "submitted"} : FailProcessing(i, s)
       \/ \E s \in {"submitting", "submitted"} : MarkRecoveryRequired(i, s)

Next ==
    \E i \in NewIds :
        \/ \E k \in Keys : AcceptProcessing(i, k)
        \/ Call(i)

Spec == Init /\ [][Next]_vars

-----------------------------------------------------------------------------
(* Properties. *)

\* Both stores hold rows of the record types, with one place in the order for
\* each: what the CHECKs of the tables let in after any calls and the migration,
\* the constructors of the records accept when it is read back.
TypeOK ==
    /\ pg.row \in [Ids -> Row] /\ pg.attempt \in [Ids -> Attempt]
    /\ memory.record \in [Ids -> Record] /\ memory.attempt \in [Ids -> Attempt]
    /\ \A i \in Ids :
           /\ pg.row[i].state # "none" => Readable(pg.row[i])
           /\ pg.attempt[i].state # "none" => AttemptValid(pg.attempt[i])
    /\ {pg.order[n] : n \in DOMAIN pg.order} = {i \in Ids : pg.row[i].state # "none"}
    /\ Len(pg.order) = Cardinality({i \in Ids : pg.row[i].state # "none"})

\* No call, in any order, is refused by a CHECK or by a constructor: every
\* UPDATE writes all the columns the state it enters requires.
NeverRefused ==
    answer.pg # Failure("refused") /\ answer.memory # Failure("refused")

\* Whoever reads a processing or its attempt sees the same in both.
SameRecords ==
    \A i \in NewIds :
        /\ View(Deserialize(pg.row[i])) = View(memory.record[i])
        /\ pg.attempt[i] = memory.attempt[i]

\* A call answers the same from both, but for one case: an attempt that is
\* active in another state than the caller expects is "diverged" for
\* PostgreSQL, whose transaction is rolled back, and a miss in memory.
SameAnswers ==
    \/ answer.pg = answer.memory
    \/ answer.pg = Failure("diverged") /\ answer.memory = Failure("missed")

\* Reconciliation is offered the same rows in the same order by both, for
\* every limit and every set of old submissions.
SameReconcilable ==
    \A limit \in 1 .. Cardinality(NewIds), old \in SUBSET NewIds :
        FindOnPg(limit, old) = FindInMemory(limit, old)

\* After any calls the two repositories are indistinguishable to a caller, so
\* what the tests establish on the in-memory one holds of the tables (memory.py
\* against postgres.py, method by method).
RepositoriesAgree == SameRecords /\ SameAnswers /\ SameReconcilable

\* A processing finished under schema 0001 is readable after the upgrade and
\* is never run again.
LegacySettled ==
    \A i \in LegacyIds :
        /\ Readable(pg.row[i])
        /\ Deserialize(pg.row[i]).result # None
        /\ ~ReconcilableOnPg(i, Ids)
=============================================================================
