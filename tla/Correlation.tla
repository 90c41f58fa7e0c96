----------------------------- MODULE Correlation -----------------------------
(***************************************************************************)
(* The correlation identities of structured events (observability.py):     *)
(* context variables that the request middleware, the endpoint, the        *)
(* processor and the reconciliation pass set and reset.  A request has two *)
(* contexts: the middleware's, and the copy its endpoint runs in, whose    *)
(* changes the middleware does not see; request.state is shared by both.   *)
(*                                                                         *)
(* A processing is identified with its attempt; it moves from "none" over  *)
(* "accepted", "planned" and "submitting" to "ended", or from "accepted"   *)
(* to "closed" without an attempt.                                         *)
(***************************************************************************)
EXTENDS Naturals, FiniteSets

CONSTANTS
    Requests,     \* requests to POST /v1/alerts, each used once
    Processings,
    Pass,         \* the reconciliation pass
    Passes,       \* bound: passes
    None

ASSUME PassAssumption == Pass \notin Requests /\ None \notin Requests \cup Processings

VARIABLES
    row,       \* the state of each processing
    pc,        \* what each endpoint and the pass do next
    work,      \* the processing each is at
    context,   \* the context variables of each endpoint and the pass
    outer,     \* those of the middleware of each request
    shared,    \* request.state of each request
    previous,  \* what process() found and will put back
    answer,    \* how process() ended: an error category, or "ok"
    todo,      \* rows the pass has still to take, in the state it found them
    passes,    \* passes begun
    events     \* what was emitted

vars == <<row, pc, work, context, outer, shared, previous, answer, todo, passes, events>>

Blank == [request |-> None, processing |-> None, attempt |-> None, error |-> None]

Tasks == Requests \cup {Pass}

\* JsonEventLogger.emit: the identities of the emitter's context; a field that
\* is given takes their place.
Event(kind, c, about, by) ==
    [kind |-> kind, request |-> c.request, processing |-> c.processing,
     attempt |-> c.attempt, error |-> None, about |-> about, by |-> by]

-----------------------------------------------------------------------------
(* The middleware, before the endpoint. *)

\* correlate_request: request_context(uuid4()); the endpoint's thread starts
\* with a copy.
BeginRequest(r) ==
    LET c == [Blank EXCEPT !.request = r]
    IN /\ pc[r] = "new"
       /\ pc' = [pc EXCEPT ![r] = "accept"]
       /\ outer' = [outer EXCEPT ![r] = c]
       /\ context' = [context EXCEPT ![r] = c]
       /\ UNCHANGED <<row, work, shared, previous, answer, todo, passes, events>>

\* _set_request_correlation, in the endpoint's context and in request.state.
SetRequestCorrelation(r, p, error) ==
    /\ context' = [context EXCEPT ![r].processing = IF p = None THEN @ ELSE p,
                                  ![r].error = IF error = None THEN @ ELSE error]
    /\ shared' = [shared EXCEPT ![r].processing = IF p = None THEN @ ELSE p,
                                ![r].error = IF error = None THEN @ ELSE error]

\* The Idempotency-Key is missing or invalid.
RefuseKey(r) ==
    /\ pc[r] = "accept"
    /\ SetRequestCorrelation(r, None, "invalid_idempotency_key")
    /\ pc' = [pc EXCEPT ![r] = "finish"]
    /\ UNCHANGED <<row, work, outer, previous, answer, todo, passes, events>>

-----------------------------------------------------------------------------
(* PersistentAlertProcessor.process, in an endpoint's thread. *)

\* _process leaves by an error or with a record: process puts back what it
\* found, and the endpoint answers.
Leave(r, error) ==
    /\ pc' = [pc EXCEPT ![r] = "respond"]
    /\ answer' = [answer EXCEPT ![r] = error]
    /\ context' = [context EXCEPT ![r].attempt = None,
                                  ![r].processing = previous[r].processing,
                                  ![r].error = previous[r].error]

\* Acceptance fails: the processing is not known.
FailAccept(r) ==
    /\ pc[r] = "accept"
    /\ Leave(r, "persistence_failed")
    /\ UNCHANGED <<row, work, outer, shared, previous, todo, passes, events>>

\* Accepted: the creator goes on, with the id in its context.
Accept(r, p) ==
    /\ pc[r] = "accept" /\ row[p] = "none"
    /\ row' = [row EXCEPT ![p] = "accepted"]
    /\ work' = [work EXCEPT ![r] = p]
    /\ previous' = [previous EXCEPT ![r] = context[r]]
    /\ context' = [context EXCEPT ![r].processing = p]
    /\ pc' = [pc EXCEPT ![r] = "plan"]
    /\ UNCHANGED <<outer, shared, answer, todo, passes, events>>

\* The key is bound to p: a replay, or a conflict.
Replay(r, p, error) ==
    /\ pc[r] = "accept" /\ row[p] # "none"
    /\ work' = [work EXCEPT ![r] = p]
    /\ previous' = [previous EXCEPT ![r] = context[r]]
    /\ Leave(r, error)
    /\ UNCHANGED <<row, outer, shared, todo, passes, events>>

\* Mutant: the endpoint leaves it to the middleware to read the context.
RespondInContext(r) ==
    /\ pc[r] = "respond"
    /\ pc' = [pc EXCEPT ![r] = "finish"]
    /\ context' = [context EXCEPT ![r].processing = work[r]]
    /\ UNCHANGED <<row, work, outer, shared, previous, answer, todo, passes, events>>

\* The error_category of p's record: only one that has ended may have one.
RecordErrors(p) ==
    {None} \cup (IF row[p] \in {"ended", "closed"} THEN {"record_error"} ELSE {})

\* process_alert: each answer but that of a PersistenceUnavailableError shares
\* the id, and an answer with a record shares the record's error. An exception
\* it does not know goes to the middleware.
Respond(r) ==
    /\ pc[r] = "respond"
    /\ pc' = [pc EXCEPT ![r] = "finish"]
    /\ CASE answer[r] = "ok" ->
              \E error \in RecordErrors(work[r]) : SetRequestCorrelation(r, work[r], error)
         [] answer[r] = "persistence_failed" -> SetRequestCorrelation(r, None, answer[r])
         [] answer[r] = "internal_error" -> UNCHANGED <<context, shared>>
         [] OTHER -> SetRequestCorrelation(r, work[r], answer[r])
    /\ UNCHANGED <<row, work, outer, previous, answer, todo, passes, events>>

\* The middleware, after the endpoint: request.finished, and the context ends.
FinishRequest(r) ==
    LET named == IF shared[r].processing # None THEN shared[r].processing
                 ELSE outer[r].processing
        error == IF answer[r] = "internal_error" THEN "internal_error" ELSE shared[r].error
    IN /\ pc[r] = "finish"
       /\ events' = events \cup
              {[Event("request.finished", outer[r], work[r], r)
                    EXCEPT !.processing = named, !.error = error]}
       /\ outer' = [outer EXCEPT ![r] = Blank]
       /\ context' = [context EXCEPT ![r] = Blank]
       /\ pc' = [pc EXCEPT ![r] = "done"]
       /\ UNCHANGED <<row, work, shared, previous, answer, todo, passes>>

-----------------------------------------------------------------------------
(* One processing, advanced by its creator or by the pass. *)

\* The task ends with its processing: process() leaves, or the pass goes on to
\* its next row, reconciliation_context putting back what it found.
EndWork(t, error) ==
    IF t = Pass
    THEN /\ pc' = [pc EXCEPT ![t] = "next"]
         /\ context' = [context EXCEPT ![t] = previous[t]]
         /\ UNCHANGED answer
    ELSE Leave(t, error)

\* _advance_accepted stores the plan and goes on to _submit.
Plan(t) ==
    /\ pc[t] = "plan" /\ row[work[t]] = "accepted"
    /\ row' = [row EXCEPT ![work[t]] = "planned"]
    /\ pc' = [pc EXCEPT ![t] = "claim"]
    /\ UNCHANGED <<work, context, outer, shared, previous, answer, todo, passes, events>>

\* No action, or no backend for it: the row is closed.
CloseUnplanned(t, error) ==
    /\ pc[t] = "plan" /\ row[work[t]] = "accepted"
    /\ row' = [row EXCEPT ![work[t]] = "closed"]
    /\ EndWork(t, error)
    /\ UNCHANGED <<work, outer, shared, previous, todo, passes, events>>

\* A call to the repository raises.
FailWork(t, error) ==
    /\ pc[t] \in {"plan", "claim", "submit", "stale"}
    /\ EndWork(t, error)
    /\ UNCHANGED <<row, work, outer, shared, previous, todo, passes, events>>

\* Mutant: the attempt is left out of the context.
ClaimUnnamed(t) ==
    /\ pc[t] = "claim" /\ row[work[t]] = "planned"
    /\ row' = [row EXCEPT ![work[t]] = "submitting"]
    /\ pc' = [pc EXCEPT ![t] = "submit"]
    /\ UNCHANGED <<work, context, outer, shared, previous, answer, todo, passes, events>>

\* _submit: the attempt is claimed and becomes part of the context.
Claim(t) ==
    /\ pc[t] = "claim" /\ row[work[t]] = "planned"
    /\ row' = [row EXCEPT ![work[t]] = "submitting"]
    /\ context' = [context EXCEPT ![t].attempt = work[t]]
    /\ pc' = [pc EXCEPT ![t] = "submit"]
    /\ UNCHANGED <<work, outer, shared, previous, answer, todo, passes, events>>

\* The state a compare-and-set at pc expects.
Expected == [plan |-> "accepted", claim |-> "planned", stale |-> "submitting"]

\* Another task has advanced the row: it is read again and returned.
LoseRow(t) ==
    /\ pc[t] \in DOMAIN Expected /\ row[work[t]] # Expected[pc[t]]
    /\ EndWork(t, "ok")
    /\ UNCHANGED <<row, work, outer, shared, previous, todo, passes, events>>

\* The pass closes a stale submission.
MarkStale ==
    /\ pc[Pass] = "stale" /\ row[work[Pass]] = "submitting"
    /\ row' = [row EXCEPT ![work[Pass]] = "ended"]
    /\ EndWork(Pass, "ok")
    /\ UNCHANGED <<work, outer, shared, previous, todo, passes, events>>

\* The backend schedules the operation and emits its flow id; the row ends.
SubmitWork(t) ==
    /\ pc[t] = "submit"
    /\ events' = events \cup
           {Event("backend.operation.submitted", context[t], work[t], t)}
    /\ row' = [row EXCEPT ![work[t]] = "ended"]
    /\ EndWork(t, "ok")
    /\ UNCHANGED <<work, outer, shared, previous, todo, passes>>

-----------------------------------------------------------------------------
(* reconcile_once. *)

StartPass ==
    /\ pc[Pass] = "new" /\ passes < Passes
    /\ passes' = passes + 1
    /\ todo' = {[processing |-> p, state |-> row[p]] :
                   p \in {q \in Processings : row[q] \in {"accepted", "planned", "submitting"}}}
    /\ pc' = [pc EXCEPT ![Pass] = "next"]
    /\ UNCHANGED <<row, work, context, outer, shared, previous, answer, events>>

\* What is done with a row found in a state.
Handler == [accepted |-> "plan", planned |-> "claim", submitting |-> "stale"]

\* Mutant: an attempt is not put back, and stays for a row without one.
NextRowOver(f) ==
    LET p == f.processing IN
    /\ pc[Pass] = "next" /\ f \in todo
    /\ todo' = todo \ {f}
    /\ work' = [work EXCEPT ![Pass] = p]
    /\ previous' = [previous EXCEPT ![Pass].attempt = p]
    /\ context' = [context EXCEPT
           ![Pass].processing = p,
           ![Pass].attempt = IF row[p] \in {"accepted", "closed"} THEN @ ELSE p]
    /\ pc' = [pc EXCEPT ![Pass] = Handler[f.state]]
    /\ UNCHANGED <<row, outer, shared, answer, passes, events>>

\* The attempt, if the row has one by now, is read, and reconciliation_context
\* sets all identities; the row is handled by the state it was found in.
NextRow(f) ==
    LET p == f.processing IN
    /\ pc[Pass] = "next" /\ f \in todo
    /\ todo' = todo \ {f}
    /\ work' = [work EXCEPT ![Pass] = p]
    /\ previous' = [previous EXCEPT ![Pass] = context[Pass]]
    /\ context' = [context EXCEPT
           ![Pass] = [Blank EXCEPT !.processing = p,
                          !.attempt = IF row[p] \in {"accepted", "closed"} THEN None ELSE p]]
    /\ pc' = [pc EXCEPT ![Pass] = Handler[f.state]]
    /\ UNCHANGED <<row, outer, shared, answer, passes, events>>

\* No row is left, or the time limit is reached.
EndPass ==
    /\ pc[Pass] = "next"
    /\ pc' = [pc EXCEPT ![Pass] = "new"]
    /\ todo' = {}
    /\ UNCHANGED <<row, work, context, outer, shared, previous, answer, passes, events>>

-----------------------------------------------------------------------------
Init ==
    /\ row \in [Processings -> {"none", "accepted", "planned", "submitting"}]
    /\ pc = [t \in Tasks |-> "new"]
    /\ work = [t \in Tasks |-> None]
    /\ context = [t \in Tasks |-> Blank]
    /\ outer = [r \in Requests |-> Blank]
    /\ shared = [r \in Requests |-> [processing |-> None, error |-> None]]
    /\ previous = [t \in Tasks |-> Blank]
    /\ answer = [r \in Requests |-> "ok"]
    /\ todo = {} /\ passes = 0 /\ events = {}

RequestStep(r) ==
    \/ BeginRequest(r) \/ RefuseKey(r) \/ FailAccept(r) \/ Respond(r) \/ FinishRequest(r)
    \/ \E p \in Processings :
           Accept(r, p) \/ Replay(r, p, "ok") \/ Replay(r, p, "idempotency_conflict")

WorkStep(t) ==
    \/ Plan(t) \/ Claim(t) \/ LoseRow(t) \/ SubmitWork(t)
    \/ \E e \in {"ok", "unsupported_capability"} : CloseUnplanned(t, e)
    \/ \E e \in {"persistence_failed", "internal_error"} : FailWork(t, e)

Next ==
    \/ \E r \in Requests : RequestStep(r)
    \/ \E t \in Tasks : WorkStep(t)
    \/ StartPass \/ MarkStale \/ EndPass \/ \E f \in todo : NextRow(f)

Spec == Init /\ [][Next]_vars

-----------------------------------------------------------------------------
(* Properties. *)

\* "processing or attempt identity cannot leak into the next non-HTTP work
\* item" (docs/OBSERVABILITY.md): a task at work has the identities of that
\* work in its context and no others, and those of no work otherwise.
ContextIsOfWork ==
    \A t \in Tasks :
        IF pc[t] \in {"plan", "claim", "submit", "stale"}
        THEN context[t].processing = work[t] /\ context[t].attempt \in {None, work[t]}
        ELSE context[t].attempt = None /\ (t = Pass => context[t] = Blank)

\* The event of a scheduled operation, which alone names its flow until that is
\* durable, carries the processing and the attempt it was scheduled for, and
\* the request, if one ran it.
OperationIsNamed ==
    \A e \in events : e.kind = "backend.operation.submitted" =>
        /\ e.processing = e.about /\ e.attempt = e.about
        /\ e.request = IF e.by = Pass THEN None ELSE e.by

\* Every request, however it ended, has one request.finished event, and that of
\* an answer about a processing carries its id, although process() has put back
\* the context and the middleware has another one; what it carries is never the
\* id of another request's processing.
AnswerIsNamed ==
    /\ \A r \in Requests :
           Cardinality({e \in events : e.kind = "request.finished" /\ e.by = r}) =
               IF pc[r] = "done" THEN 1 ELSE 0
    /\ \A e \in events : e.kind = "request.finished" =>
           /\ e.request = e.by /\ e.attempt = None
           /\ e.processing \in {None, e.about}
           /\ e.error \notin {"persistence_failed", "internal_error", "invalid_idempotency_key"}
                  => e.processing = e.about /\ e.about # None
=============================================================================
