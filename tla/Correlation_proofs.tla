-------------------------- MODULE Correlation_proofs --------------------------
(***************************************************************************)
(* Events are correlated correctly for any number of requests, processings *)
(* and passes: no identity leaks from one piece of work into the next, an  *)
(* operation's event names its attempt, and every request is finished by   *)
(* one event that names its processing.                                    *)
(***************************************************************************)
EXTENDS Correlation, FiniteSetTheorems, TLAPS

-----------------------------------------------------------------------------
(* The inductive invariant. *)

Answers == {"ok", "persistence_failed", "internal_error", "unsupported_capability",
            "idempotency_conflict"}

Errors == Answers \cup {"invalid_idempotency_key", "record_error", None}

Named == Processings \cup {None}

Contexts == [request: Requests \cup {None}, processing: Named, attempt: Named, error: Errors]

\* Labels at which a task has a processing in hand.
Busy == {"plan", "claim", "submit", "stale"}

TypeInv ==
    /\ pc \in [Tasks -> Busy \cup {"new", "next", "accept", "respond", "finish", "done"}]
    /\ work \in [Tasks -> Named]
    /\ context \in [Tasks -> Contexts]
    /\ previous \in [Tasks -> Contexts]
    /\ outer \in [Requests -> Contexts]
    /\ shared \in [Requests -> [processing: Named, error: Errors]]
    /\ answer \in [Requests -> Answers]
    /\ todo \subseteq [processing: Processings, state: {"accepted", "planned", "submitting"}]

\* The context a request begins with.
Begun(r) == [Blank EXCEPT !.request = r]

Unshared == [processing |-> None, error |-> None]

\* A task at work has the identities of that work; the pass finds a blank
\* context and puts it back.
TaskOK(t) ==
    /\ pc[t] \in Busy =>
         /\ work[t] \in Processings
         /\ context[t].processing = work[t]
         /\ context[t].attempt \in {None, work[t]}
         /\ pc[t] = "submit" => context[t].attempt = work[t]
         /\ context[t].request = IF t = Pass THEN None ELSE t
         /\ t = Pass => previous[t] = Blank
    /\ pc[t] \notin Busy => context[t].attempt = None /\ (t = Pass => context[t] = Blank)

Finished(r) == {e \in events : e.kind = "request.finished" /\ e.by = r}

\* The middleware's context is the one the request began with; what is shared
\* is shared by the endpoint's answer, and is the request's own processing.
RequestOK(r) ==
    /\ pc[r] \notin {"next", "stale"}
    /\ pc[r] \in {"new", "accept"} => work[r] = None /\ answer[r] = "ok"
    /\ pc[r] = "accept" => context[r] = Begun(r)
    /\ pc[r] \notin {"finish", "done"} => shared[r] = Unshared
    /\ pc[r] \notin {"new", "done"} => outer[r] = Begun(r)
    /\ pc[r] = "respond" =>
         work[r] \in Processings \/ answer[r] \in {"persistence_failed", "internal_error"}
    /\ pc[r] = "finish" =>
         /\ shared[r].processing \in {None, work[r]}
         /\ \/ shared[r].processing # None
            \/ shared[r].error \in {"persistence_failed", "invalid_idempotency_key"}
            \/ answer[r] = "internal_error"
    /\ pc[r] # "done" => Finished(r) = {}
    /\ pc[r] = "done" => \E e \in events : Finished(r) = {e}

\* What a request.finished event says.
FinishedIsNamed ==
    \A e \in events : e.kind = "request.finished" =>
        /\ e.request = e.by /\ e.attempt = None
        /\ e.processing \in {None, e.about}
        /\ e.error \notin {"persistence_failed", "internal_error", "invalid_idempotency_key"}
               => e.processing = e.about /\ e.about # None

Inv ==
    /\ TypeInv
    /\ \A t \in Tasks : TaskOK(t)
    /\ \A r \in Requests : RequestOK(r)
    /\ OperationIsNamed /\ FinishedIsNamed

\* A blank context, and the one a request begins with, are contexts.
LEMMA BlankContext ==
    /\ Blank \in Contexts /\ Blank.processing = None /\ Blank.attempt = None
    /\ Blank.request = None
    /\ \A r \in Requests : /\ Begun(r) \in Contexts /\ Begun(r).request = r
                           /\ Begun(r).processing = None /\ Begun(r).attempt = None
  BY DEF Blank, Begun, Contexts, Named, Errors

\* Before the first request and the first pass all of it holds.
LEMMA InitInv == Init => Inv
  <1> SUFFICES ASSUME Init PROVE Inv
    OBVIOUS
  <1>1. [processing |-> None, error |-> None] \in [processing: Named, error: Errors]
    BY DEF Named, Errors
  <1>2. TypeInv
    BY <1>1, BlankContext DEF Init, TypeInv, Named, Answers
  <1>3. \A t \in Tasks : TaskOK(t)
    BY BlankContext DEF Init, TaskOK, Busy
  <1>4. \A r \in Requests : RequestOK(r)
    BY DEF Init, RequestOK, Tasks, Unshared, Finished
  <1>5. OperationIsNamed /\ FinishedIsNamed
    BY DEF Init, OperationIsNamed, FinishedIsNamed
  <1> QED BY <1>2, <1>3, <1>4, <1>5 DEF Inv

-----------------------------------------------------------------------------
(* A step moves one task. *)

\* Nothing of task t changes.
Rests(t) ==
    /\ pc'[t] = pc[t] /\ work'[t] = work[t] /\ context'[t] = context[t]
    /\ previous'[t] = previous[t]
    /\ t \in Requests => /\ outer'[t] = outer[t] /\ shared'[t] = shared[t]
                         /\ answer'[t] = answer[t]

\* If the task that moves keeps its invariant and no request is finished, all
\* of it is kept.
LEMMA TaskMoves ==
    ASSUME Inv, TypeInv', NEW t \in Tasks, \A u \in Tasks \ {t} : Rests(u),
           TaskOK(t)', t \in Requests => RequestOK(t)',
           \A r \in Requests : r # t => Finished(r)' = Finished(r),
           events \subseteq events', OperationIsNamed', FinishedIsNamed'
    PROVE  Inv'
  <1>1. \A u \in Tasks \ {t} : TaskOK(u)'
    BY DEF Inv, TaskOK, Rests
  <1>2. ASSUME NEW r \in Requests, r # t
        PROVE  RequestOK(r)'
    <2>1. r \in Tasks \ {t} /\ Rests(r) /\ RequestOK(r) /\ Finished(r)' = Finished(r)
      BY <1>2 DEF Tasks, Inv
    <2>2. /\ pc'[r] = pc[r] /\ work'[r] = work[r] /\ context'[r] = context[r]
          /\ outer'[r] = outer[r] /\ shared'[r] = shared[r] /\ answer'[r] = answer[r]
      BY <2>1 DEF Rests
    <2>3. \A S : (\E e \in events : S = {e}) => \E e \in events' : S = {e}
      OBVIOUS
    <2> HIDE DEF Finished
    <2> QED BY <2>1, <2>2, <2>3 DEF RequestOK
  <1> QED BY <1>1, <1>2 DEF Inv

\* Most steps emit nothing.
LEMMA SilentMoves ==
    ASSUME Inv, TypeInv', NEW t \in Tasks, \A u \in Tasks \ {t} : Rests(u),
           TaskOK(t)', t \in Requests => RequestOK(t)', UNCHANGED events
    PROVE  Inv'
  <1>1. /\ \A r \in Requests : Finished(r)' = Finished(r)
        /\ OperationIsNamed' /\ FinishedIsNamed'
    BY DEF Inv, Finished, OperationIsNamed, FinishedIsNamed
  <1> QED BY <1>1, TaskMoves

-----------------------------------------------------------------------------
(* The middleware and the endpoint. *)

\* A request begins with its own id and nothing else.
LEMMA BeginRequestKeeps ==
    ASSUME Inv, NEW r \in Requests, BeginRequest(r)
    PROVE  Inv'
  <1>1. r \in Tasks /\ r # Pass /\ TypeInv /\ TaskOK(r) /\ RequestOK(r)
    BY PassAssumption DEF Tasks, Inv
  <1>2. /\ pc[r] = "new" /\ pc' = [pc EXCEPT ![r] = "accept"]
        /\ outer' = [outer EXCEPT ![r] = Begun(r)]
        /\ context' = [context EXCEPT ![r] = Begun(r)]
        /\ UNCHANGED <<row, work, shared, previous, answer, todo, passes, events>>
    BY DEF BeginRequest, Begun
  <1>3. TypeInv' /\ \A u \in Tasks \ {r} : Rests(u)
    BY <1>1, <1>2, BlankContext DEF TypeInv, Rests, Busy
  <1>4. pc'[r] = "accept" /\ context'[r] = Begun(r) /\ outer'[r] = Begun(r)
    BY <1>1, <1>2 DEF TypeInv
  <1>5. TaskOK(r)'
    BY <1>1, <1>4, BlankContext DEF TaskOK, Busy
  <1>6. RequestOK(r)'
    BY <1>1, <1>2, <1>4 DEF RequestOK, Finished, Begun, Blank
  <1> QED BY <1>1, <1>2, <1>3, <1>5, <1>6, SilentMoves

\* What _set_request_correlation shares, given the request's own processing.
LEMMA SharedCorrelation ==
    ASSUME TypeInv, NEW r \in Requests, NEW p \in Named, NEW e \in Errors,
           SetRequestCorrelation(r, p, e)
    PROVE  /\ context' \in [Tasks -> Contexts]
           /\ shared' \in [Requests -> [processing: Named, error: Errors]]
           /\ \A t \in Tasks \ {r} : context'[t] = context[t]
           /\ \A q \in Requests \ {r} : shared'[q] = shared[q]
           /\ context'[r].attempt = context[r].attempt
           /\ shared'[r].processing = IF p = None THEN shared[r].processing ELSE p
           /\ shared'[r].error = IF e = None THEN shared[r].error ELSE e
  <1>1. r \in Tasks /\ context[r] \in Contexts
        /\ shared[r] \in [processing: Named, error: Errors]
    BY DEF Tasks, TypeInv
  <1> DEFINE x  == IF p = None THEN context[r].processing ELSE p
             y  == IF e = None THEN context[r].error ELSE e
             c1 == [context[r] EXCEPT !.processing = x]
             c2 == [c1 EXCEPT !.error = y]
             u  == IF p = None THEN shared[r].processing ELSE p
             v  == IF e = None THEN shared[r].error ELSE e
             s1 == [shared[r] EXCEPT !.processing = u]
             s2 == [s1 EXCEPT !.error = v]
  <1>2. x \in Named /\ y \in Errors /\ u \in Named /\ v \in Errors
    BY <1>1 DEF Contexts
  <1>3. c1 \in Contexts /\ c1.attempt = context[r].attempt /\ c1.error = context[r].error
    BY <1>1, <1>2 DEF Contexts
  <1>4. s1 \in [processing: Named, error: Errors] /\ s1.processing = u
        /\ s1.error = shared[r].error
    BY <1>1, <1>2
  <1>5. context' = [context EXCEPT ![r] = c2]
    BY <1>1, <1>3 DEF SetRequestCorrelation, TypeInv
  <1>6. shared' = [shared EXCEPT ![r] = s2]
    BY <1>1, <1>4 DEF SetRequestCorrelation, TypeInv
  <1> HIDE DEF c1, s1
  <1>7. c2 \in Contexts /\ c2.attempt = context[r].attempt
    BY <1>2, <1>3 DEF Contexts
  <1>8. s2 \in [processing: Named, error: Errors] /\ s2.processing = u /\ s2.error = v
    BY <1>2, <1>4
  <1> HIDE DEF c2, s2, SetRequestCorrelation
  <1>9. /\ context' \in [Tasks -> Contexts] /\ context'[r] = c2
        /\ \A t \in Tasks \ {r} : context'[t] = context[t]
    BY <1>1, <1>5, <1>7 DEF TypeInv
  <1>10. /\ shared' \in [Requests -> [processing: Named, error: Errors]]
         /\ shared'[r] = s2
         /\ \A q \in Requests \ {r} : shared'[q] = shared[q]
    BY <1>6, <1>8 DEF TypeInv
  <1> QED BY <1>7, <1>8, <1>9, <1>10

\* A refused key is shared as the request's error.
LEMMA RefuseKeyKeeps ==
    ASSUME Inv, NEW r \in Requests, RefuseKey(r)
    PROVE  Inv'
  <1> DEFINE e == "invalid_idempotency_key"
  <1>1. r \in Tasks /\ r # Pass /\ TypeInv /\ TaskOK(r) /\ RequestOK(r)
    BY PassAssumption DEF Tasks, Inv
  <1>2. /\ pc[r] = "accept" /\ pc' = [pc EXCEPT ![r] = "finish"]
        /\ SetRequestCorrelation(r, None, e)
        /\ UNCHANGED <<row, work, outer, previous, answer, todo, passes, events>>
    BY DEF RefuseKey
  <1>3. /\ context' \in [Tasks -> Contexts]
        /\ shared' \in [Requests -> [processing: Named, error: Errors]]
        /\ \A t \in Tasks \ {r} : context'[t] = context[t]
        /\ \A q \in Requests \ {r} : shared'[q] = shared[q]
        /\ context'[r].attempt = context[r].attempt
        /\ shared'[r].processing = shared[r].processing
        /\ shared'[r].error = IF e = None THEN shared[r].error ELSE e
    <2>1. None \in Named /\ e \in Errors
      BY DEF Named, Errors
    <2> QED BY <1>1, <1>2, <2>1, SharedCorrelation
  <1>4. TypeInv' /\ \A u \in Tasks \ {r} : Rests(u)
    BY <1>1, <1>2, <1>3 DEF TypeInv, Rests, Busy
  <1>5. pc'[r] = "finish"
    BY <1>1, <1>2 DEF TypeInv
  <1>6. TaskOK(r)'
    BY <1>1, <1>2, <1>3, <1>5 DEF TaskOK, Busy
  <1>7. shared[r].processing = None /\ shared[r].error = None
    BY <1>1, <1>2 DEF RequestOK, Unshared
  <1>8. outer'[r] = Begun(r) /\ Begun(r)' = Begun(r) /\ Finished(r)' = {}
    BY <1>1, <1>2 DEF RequestOK, Begun, Blank, Finished
  <1>9. RequestOK(r)'
    BY <1>3, <1>5, <1>7, <1>8 DEF RequestOK
  <1> QED BY <1>1, <1>2, <1>4, <1>6, <1>9, SilentMoves

\* The endpoint shares its processing unless the answer does not know it.
LEMMA RespondKeeps ==
    ASSUME Inv, NEW r \in Requests, Respond(r)
    PROVE  Inv'
  <1>1. r \in Tasks /\ r # Pass /\ TypeInv /\ TaskOK(r) /\ RequestOK(r)
    BY PassAssumption DEF Tasks, Inv
  <1>2. /\ pc[r] = "respond" /\ pc' = [pc EXCEPT ![r] = "finish"]
        /\ UNCHANGED <<row, work, outer, previous, answer, todo, passes, events>>
    BY DEF Respond
  <1>3. /\ shared[r].processing = None /\ shared[r].error = None
        /\ outer'[r] = Begun(r) /\ Begun(r)' = Begun(r) /\ Finished(r)' = {}
        /\ work[r] \in Processings \/ answer[r] \in {"persistence_failed", "internal_error"}
    BY <1>1, <1>2 DEF RequestOK, Unshared, Begun, Blank, Finished
  <1>4. /\ answer[r] \in Answers /\ answer[r] \in Errors /\ work[r] \in Named
        /\ None \in Named /\ None \in Errors
    BY <1>1 DEF TypeInv, Errors, Named
  <1>5. /\ context' \in [Tasks -> Contexts]
        /\ shared' \in [Requests -> [processing: Named, error: Errors]]
        /\ \A t \in Tasks \ {r} : context'[t] = context[t]
        /\ \A q \in Requests \ {r} : shared'[q] = shared[q]
        /\ context'[r].attempt = context[r].attempt
        /\ shared'[r].processing \in {None, work[r]}
        /\ \/ shared'[r].processing # None
           \/ shared'[r].error \in {"persistence_failed", "invalid_idempotency_key"}
           \/ answer[r] = "internal_error"
    <2>1. CASE answer[r] = "ok"
      <3>1. PICK error \in RecordErrors(work[r]) : SetRequestCorrelation(r, work[r], error)
        BY <2>1 DEF Respond
      <3>3. error \in Errors
        BY DEF RecordErrors, Errors
      <3>2. work[r] # None
        BY <1>3, <2>1, PassAssumption
      <3> QED BY <1>1, <1>4, <3>1, <3>2, <3>3, SharedCorrelation
    <2>2. CASE answer[r] = "persistence_failed"
      <3>1. SetRequestCorrelation(r, None, answer[r])
        BY <2>2 DEF Respond
      <3> QED BY <1>1, <1>3, <1>4, <2>2, <3>1, SharedCorrelation
    <2>3. CASE answer[r] = "internal_error"
      <3>1. UNCHANGED <<context, shared>>
        BY <2>3 DEF Respond
      <3> QED BY <1>1, <1>3, <2>3, <3>1 DEF TypeInv
    <2>4. CASE answer[r] \notin {"ok", "persistence_failed", "internal_error"}
      <3>1. SetRequestCorrelation(r, work[r], answer[r])
        BY <2>4 DEF Respond
      <3>2. work[r] # None
        BY <1>3, <2>4, PassAssumption
      <3> QED BY <1>1, <1>4, <3>1, <3>2, SharedCorrelation
    <2> QED BY <2>1, <2>2, <2>3, <2>4
  <1>6. TypeInv' /\ \A u \in Tasks \ {r} : Rests(u)
    BY <1>1, <1>2, <1>5 DEF TypeInv, Rests, Busy
  <1>7. pc'[r] = "finish"
    BY <1>1, <1>2 DEF TypeInv
  <1>8. TaskOK(r)'
    BY <1>1, <1>2, <1>5, <1>7 DEF TaskOK, Busy
  <1>9. RequestOK(r)'
    BY <1>2, <1>3, <1>5, <1>7 DEF RequestOK
  <1> QED BY <1>1, <1>2, <1>6, <1>8, <1>9, SilentMoves

\* A request that leaves the processor has no attempt in its context.
LEMMA LeaveContext ==
    ASSUME TypeInv, NEW r \in Requests, NEW e \in Answers, Leave(r, e)
    PROVE  /\ context' \in [Tasks -> Contexts]
           /\ \A t \in Tasks \ {r} : context'[t] = context[t]
           /\ context'[r].attempt = None
           /\ pc' = [pc EXCEPT ![r] = "respond"]
           /\ answer' \in [Requests -> Answers] /\ answer'[r] = e
           /\ \A q \in Requests \ {r} : answer'[q] = answer[q]
  <1>1. r \in Tasks /\ context[r] \in Contexts /\ previous[r] \in Contexts
    BY DEF Tasks, TypeInv
  <1> DEFINE x  == previous[r].processing
             y  == previous[r].error
             c1 == [context[r] EXCEPT !.attempt = None]
             c2 == [c1 EXCEPT !.processing = x]
             c3 == [c2 EXCEPT !.error = y]
  <1>2. x \in Named /\ y \in Errors /\ None \in Named
    BY <1>1 DEF Contexts, Named
  <1>3. context' = [context EXCEPT ![r] = c3]
    BY <1>1 DEF Leave, TypeInv
  <1> HIDE DEF x, y
  <1>4. c1 \in Contexts /\ c1.attempt = None
    BY <1>1, <1>2 DEF Contexts
  <1> HIDE DEF c1
  <1>5. c2 \in Contexts /\ c2.attempt = None
    BY <1>2, <1>4 DEF Contexts
  <1> HIDE DEF c2
  <1>6. c3 \in Contexts /\ c3.attempt = None
    BY <1>2, <1>5 DEF Contexts
  <1> HIDE DEF c3
  <1>7. /\ context' \in [Tasks -> Contexts] /\ context'[r] = c3
        /\ \A t \in Tasks \ {r} : context'[t] = context[t]
    BY <1>1, <1>3, <1>6 DEF TypeInv
  <1>8. /\ answer' \in [Requests -> Answers] /\ answer'[r] = e
        /\ \A q \in Requests \ {r} : answer'[q] = answer[q]
    BY DEF Leave, TypeInv
  <1> QED BY <1>6, <1>7, <1>8 DEF Leave

\* Leaving keeps the invariant: the answer knows its processing, or says that
\* it does not.
LEMMA LeaveKeeps ==
    ASSUME Inv, NEW r \in Requests, NEW e \in Answers, Leave(r, e),
           pc[r] \in Busy \cup {"accept"},
           UNCHANGED <<outer, shared, todo>>,
           work' \in [Tasks -> Named], \A t \in Tasks \ {r} : work'[t] = work[t],
           previous' \in [Tasks -> Contexts], \A t \in Tasks \ {r} : previous'[t] = previous[t],
           work'[r] \in Processings \/ e \in {"persistence_failed", "internal_error"}
    PROVE  /\ TypeInv' /\ \A u \in Tasks \ {r} : Rests(u)
           /\ TaskOK(r)'
           /\ UNCHANGED events => RequestOK(r)'
           /\ Finished(r)' = {} => RequestOK(r)'
  <1>1. r \in Tasks /\ r # Pass /\ TypeInv /\ RequestOK(r)
    BY PassAssumption DEF Tasks, Inv
  <1>2. /\ context' \in [Tasks -> Contexts]
        /\ \A t \in Tasks \ {r} : context'[t] = context[t]
        /\ context'[r].attempt = None
        /\ pc' = [pc EXCEPT ![r] = "respond"]
        /\ answer' \in [Requests -> Answers] /\ answer'[r] = e
        /\ \A q \in Requests \ {r} : answer'[q] = answer[q]
    BY <1>1, LeaveContext
  <1>3. TypeInv' /\ \A u \in Tasks \ {r} : Rests(u)
    BY <1>1, <1>2 DEF TypeInv, Rests, Busy
  <1>4. pc'[r] = "respond"
    BY <1>1, <1>2 DEF TypeInv
  <1>5. TaskOK(r)'
    BY <1>1, <1>2, <1>4 DEF TaskOK, Busy
  <1>6. shared'[r] = Unshared /\ outer'[r] = Begun(r) /\ Finished(r) = {}
        /\ Unshared' = Unshared /\ Begun(r)' = Begun(r)
    BY <1>1 DEF RequestOK, Busy, Unshared, Begun, Blank
  <1>7. Finished(r)' = {} => RequestOK(r)'
    BY <1>2, <1>4, <1>6 DEF RequestOK
  <1>8. UNCHANGED events => Finished(r)' = {}
    BY <1>6 DEF Finished
  <1> QED BY <1>3, <1>5, <1>7, <1>8

\* Acceptance that fails, a replay and a conflict.
LEMMA AnswerAtOnceKeeps ==
    ASSUME Inv, NEW r \in Requests,
           \/ FailAccept(r)
           \/ \E p \in Processings : Replay(r, p, "ok") \/ Replay(r, p, "idempotency_conflict")
    PROVE  Inv'
  <1>1. r \in Tasks /\ TypeInv
    BY DEF Tasks, Inv
  <1>2. CASE FailAccept(r)
    <2>1. /\ Leave(r, "persistence_failed") /\ pc[r] = "accept"
          /\ UNCHANGED <<work, previous, outer, shared, todo, events>>
      BY <1>2 DEF FailAccept
    <2>2. work' \in [Tasks -> Named] /\ previous' \in [Tasks -> Contexts]
      BY <1>1, <2>1 DEF TypeInv
    <2>3. "persistence_failed" \in Answers
      BY DEF Answers
    <2>4. /\ TypeInv' /\ \A u \in Tasks \ {r} : Rests(u)
          /\ TaskOK(r)' /\ RequestOK(r)'
      BY <2>1, <2>2, <2>3, LeaveKeeps
    <2> QED BY <1>1, <2>1, <2>4, SilentMoves
  <1>3. ASSUME NEW p \in Processings, NEW e \in {"ok", "idempotency_conflict"}, Replay(r, p, e)
        PROVE  Inv'
    <2>1. /\ Leave(r, e) /\ pc[r] = "accept"
          /\ UNCHANGED <<outer, shared, todo, events>>
          /\ work' = [work EXCEPT ![r] = p]
          /\ previous' = [previous EXCEPT ![r] = context[r]]
      BY <1>3 DEF Replay
    <2>2. /\ work' \in [Tasks -> Named] /\ work'[r] = p
          /\ previous' \in [Tasks -> Contexts]
          /\ \A t \in Tasks \ {r} : work'[t] = work[t] /\ previous'[t] = previous[t]
      BY <1>1, <2>1 DEF TypeInv, Named
    <2>3. e \in Answers
      BY DEF Answers
    <2>4. /\ TypeInv' /\ \A u \in Tasks \ {r} : Rests(u)
          /\ TaskOK(r)' /\ RequestOK(r)'
      BY <2>1, <2>2, <2>3, LeaveKeeps
    <2> QED BY <1>1, <2>1, <2>4, SilentMoves
  <1> QED BY <1>2, <1>3

\* The creator goes on with its new processing in its context.
LEMMA AcceptKeeps ==
    ASSUME Inv, NEW r \in Requests, NEW p \in Processings, Accept(r, p)
    PROVE  Inv'
  <1>1. r \in Tasks /\ r # Pass /\ TypeInv /\ TaskOK(r) /\ RequestOK(r)
    BY PassAssumption DEF Tasks, Inv
  <1> DEFINE c == [context[r] EXCEPT !.processing = p]
  <1>2. /\ pc[r] = "accept" /\ pc' = [pc EXCEPT ![r] = "plan"]
        /\ work' = [work EXCEPT ![r] = p]
        /\ previous' = [previous EXCEPT ![r] = context[r]]
        /\ context' = [context EXCEPT ![r] = c]
        /\ UNCHANGED <<outer, shared, answer, todo, events>>
    BY <1>1 DEF Accept, TypeInv
  <1>3. context[r] \in Contexts /\ context[r].request = r /\ context[r].attempt = None
    BY <1>1, <1>2, BlankContext DEF TypeInv, RequestOK
  <1>4. c \in Contexts /\ c.request = r /\ c.processing = p /\ c.attempt = None
    BY <1>3 DEF Contexts, Named
  <1> HIDE DEF c
  <1>5. TypeInv' /\ \A u \in Tasks \ {r} : Rests(u)
    BY <1>1, <1>2, <1>3, <1>4 DEF TypeInv, Rests, Busy, Named
  <1>6. pc'[r] = "plan" /\ work'[r] = p /\ context'[r] = c
    BY <1>1, <1>2 DEF TypeInv
  <1>7. TaskOK(r)'
    BY <1>1, <1>4, <1>6 DEF TaskOK, Busy
  <1>8. shared'[r] = Unshared /\ outer'[r] = Begun(r) /\ Finished(r)' = {}
        /\ Unshared' = Unshared /\ Begun(r)' = Begun(r)
    BY <1>1, <1>2 DEF RequestOK, Unshared, Begun, Blank, Finished
  <1>9. RequestOK(r)'
    BY <1>6, <1>8 DEF RequestOK
  <1> QED BY <1>1, <1>2, <1>5, <1>7, <1>9, SilentMoves

\* One event finishes the request; it carries what the endpoint has shared.
LEMMA FinishRequestKeeps ==
    ASSUME Inv, NEW r \in Requests, FinishRequest(r)
    PROVE  Inv'
  <1>1. r \in Tasks /\ r # Pass /\ TypeInv /\ RequestOK(r)
    BY PassAssumption DEF Tasks, Inv
  <1> DEFINE named == IF shared[r].processing # None THEN shared[r].processing
                      ELSE outer[r].processing
             error == IF answer[r] = "internal_error" THEN "internal_error"
                      ELSE shared[r].error
             e1 == Event("request.finished", outer[r], work[r], r)
             e2 == [e1 EXCEPT !.processing = named]
             e  == [e2 EXCEPT !.error = error]
  <1>2. /\ pc[r] = "finish" /\ pc' = [pc EXCEPT ![r] = "done"]
        /\ events' = events \cup {e}
        /\ outer' = [outer EXCEPT ![r] = Blank]
        /\ context' = [context EXCEPT ![r] = Blank]
        /\ UNCHANGED <<row, work, shared, previous, answer, todo, passes>>
    BY DEF FinishRequest
  <1>3. outer[r].processing = None /\ outer[r].attempt = None /\ outer[r].request = r
    BY <1>1, <1>2, BlankContext DEF RequestOK
  <1>4. named \in {None, work[r]}
        /\ (error \notin {"persistence_failed", "internal_error", "invalid_idempotency_key"}
              => named = work[r] /\ work[r] # None)
    BY <1>1, <1>2, <1>3 DEF RequestOK
  <1> HIDE DEF named, error
  <1>5. /\ e.kind = "request.finished" /\ e.by = r /\ e.about = work[r]
        /\ e.request = r /\ e.attempt = None /\ e.processing = named /\ e.error = error
    BY <1>3 DEF Event
  <1> HIDE DEF e
  <1>6. TypeInv' /\ \A u \in Tasks \ {r} : Rests(u)
    BY <1>1, <1>2, BlankContext DEF TypeInv, Rests, Busy
  <1>7. pc'[r] = "done" /\ context'[r] = Blank
    BY <1>1, <1>2 DEF TypeInv
  <1>8. TaskOK(r)'
    BY <1>1, <1>7, BlankContext DEF TaskOK, Busy
  <1>9. /\ Finished(r)' = {e} /\ e \in events' /\ events \subseteq events'
        /\ \A q \in Requests : q # r => Finished(q)' = Finished(q)
    BY <1>1, <1>2, <1>5 DEF RequestOK, Finished
  <1>10. RequestOK(r)'
    BY <1>7, <1>9 DEF RequestOK
  <1>11. FinishedIsNamed'
    BY <1>2, <1>4, <1>5 DEF Inv, FinishedIsNamed
  <1>12. OperationIsNamed'
    BY <1>2, <1>5 DEF Inv, OperationIsNamed
  <1> QED BY <1>1, <1>6, <1>8, <1>9, <1>10, <1>11, <1>12, TaskMoves

-----------------------------------------------------------------------------
(* Work on one processing. *)

\* A task that ends its work, with or without an event about it.
LEMMA EndWorkKeeps ==
    ASSUME Inv, NEW t \in Tasks, NEW e \in Answers, EndWork(t, e), pc[t] \in Busy,
           UNCHANGED <<work, outer, shared, previous, todo>>,
           events \subseteq events', \A r \in Requests : Finished(r)' = Finished(r),
           OperationIsNamed', FinishedIsNamed'
    PROVE  Inv'
  <1>1. TypeInv /\ TaskOK(t)
    BY DEF Inv
  <1>2. CASE t = Pass
    <2>1. /\ pc' = [pc EXCEPT ![t] = "next"] /\ UNCHANGED answer
          /\ context' = [context EXCEPT ![t] = previous[t]]
      BY <1>2 DEF EndWork
    <2>2. previous[t] = Blank /\ t \notin Requests
      BY <1>1, <1>2, PassAssumption DEF TaskOK
    <2>3. TypeInv' /\ \A u \in Tasks \ {t} : Rests(u)
      BY <1>1, <2>1, <2>2, BlankContext DEF TypeInv, Rests, Busy
    <2>4. pc'[t] = "next" /\ context'[t] = Blank /\ Blank' = Blank
      BY <1>1, <2>1, <2>2 DEF TypeInv, Blank
    <2>5. TaskOK(t)'
      BY <2>4, BlankContext DEF TaskOK, Busy
    <2> QED BY <2>2, <2>3, <2>5, TaskMoves
  <1>3. CASE t # Pass
    <2>1. t \in Requests /\ Leave(t, e) /\ work[t] \in Processings
      BY <1>1, <1>3 DEF Tasks, EndWork, TaskOK
    <2>2. work' \in [Tasks -> Named] /\ previous' \in [Tasks -> Contexts]
          /\ work'[t] \in Processings
      BY <1>1, <2>1 DEF TypeInv
    <2>3. Finished(t)' = {}
      BY <2>1 DEF Inv, RequestOK, Busy
    <2>4. /\ TypeInv' /\ \A u \in Tasks \ {t} : Rests(u)
          /\ TaskOK(t)' /\ RequestOK(t)'
      BY <2>1, <2>2, <2>3, LeaveKeeps
    <2> QED BY <2>4, TaskMoves
  <1> QED BY <1>2, <1>3

\* Work that ends without an event.
LEMMA EndSilentKeeps ==
    ASSUME Inv, NEW t \in Tasks,
           \/ \E e \in {"ok", "unsupported_capability"} : CloseUnplanned(t, e)
           \/ \E e \in {"persistence_failed", "internal_error"} : FailWork(t, e)
           \/ LoseRow(t)
           \/ t = Pass /\ MarkStale
    PROVE  Inv'
  <1>1. PICK e \in Answers :
          EndWork(t, e) /\ UNCHANGED <<work, outer, shared, previous, todo, events>>
    BY DEF CloseUnplanned, FailWork, LoseRow, MarkStale, Answers
  <1>2. pc[t] \in Busy
    <2>1. DOMAIN Expected = {"plan", "claim", "stale"}
      BY DEF Expected
    <2> QED BY <2>1 DEF CloseUnplanned, FailWork, LoseRow, MarkStale, Busy
  <1>3. /\ \A r \in Requests : Finished(r)' = Finished(r)
        /\ OperationIsNamed' /\ FinishedIsNamed'
    BY <1>1 DEF Inv, Finished, OperationIsNamed, FinishedIsNamed
  <1> QED BY <1>1, <1>2, <1>3, EndWorkKeeps

\* Planning and claiming keep the identities; the claim adds the attempt.
LEMMA AdvanceKeeps ==
    ASSUME Inv, NEW t \in Tasks, Plan(t) \/ Claim(t)
    PROVE  Inv'
  <1>1. TypeInv /\ TaskOK(t) /\ (t \in Requests => t # Pass /\ RequestOK(t))
    BY PassAssumption DEF Inv
  <1>2. /\ pc[t] \in Busy \ {"stale", "submit"}
        /\ UNCHANGED <<work, outer, shared, previous, answer, todo, events>>
    BY DEF Plan, Claim, Busy
  <1>3. /\ work[t] \in Processings /\ context[t] \in Contexts
        /\ context[t].processing = work[t] /\ context[t].attempt \in {None, work[t]}
        /\ context[t].request = IF t = Pass THEN None ELSE t
        /\ t = Pass => previous[t] = Blank
    BY <1>1, <1>2 DEF TaskOK, TypeInv
  <1>4. /\ \/ pc' = [pc EXCEPT ![t] = "claim"] /\ UNCHANGED context
           \/ /\ pc' = [pc EXCEPT ![t] = "submit"]
              /\ context' = [context EXCEPT ![t].attempt = work[t]]
    BY DEF Plan, Claim
  <1>5. /\ context' \in [Tasks -> Contexts] /\ \A u \in Tasks \ {t} : context'[u] = context[u]
        /\ pc'[t] \in {"claim", "submit"}
        /\ pc' \in [Tasks -> Busy \cup {"new", "next", "accept", "respond", "finish", "done"}]
        /\ \A u \in Tasks \ {t} : pc'[u] = pc[u]
        /\ context'[t].processing = work[t] /\ context'[t].attempt \in {None, work[t]}
        /\ context'[t].request = context[t].request
        /\ pc'[t] = "submit" => context'[t].attempt = work[t]
    <2>1. CASE pc' = [pc EXCEPT ![t] = "claim"] /\ UNCHANGED context
      BY <1>1, <1>3, <2>1 DEF TypeInv, Busy
    <2>2. CASE /\ pc' = [pc EXCEPT ![t] = "submit"]
               /\ context' = [context EXCEPT ![t].attempt = work[t]]
      <3> DEFINE c == [context[t] EXCEPT !.attempt = work[t]]
      <3>1. /\ c \in Contexts /\ c.attempt = work[t] /\ c.processing = work[t]
            /\ c.request = context[t].request
        BY <1>3 DEF Contexts, Named
      <3>2. context' = [context EXCEPT ![t] = c]
        BY <2>2
      <3> HIDE DEF c
      <3> QED BY <1>1, <2>2, <3>1, <3>2 DEF TypeInv, Busy
    <2> QED BY <1>4, <2>1, <2>2
  <1>6. TypeInv' /\ \A u \in Tasks \ {t} : Rests(u)
    BY <1>1, <1>2, <1>5 DEF TypeInv, Rests
  <1>7. TaskOK(t)'
    BY <1>2, <1>3, <1>5 DEF TaskOK, Busy, Blank
  <1>8. ASSUME t \in Requests
        PROVE  RequestOK(t)'
    <2>1. shared'[t] = Unshared /\ outer'[t] = Begun(t) /\ Finished(t)' = {}
          /\ Unshared' = Unshared /\ Begun(t)' = Begun(t)
      BY <1>1, <1>2, <1>8 DEF RequestOK, Unshared, Begun, Blank, Finished, Busy
    <2> QED BY <1>5, <2>1 DEF RequestOK
  <1> QED BY <1>2, <1>6, <1>7, <1>8, SilentMoves

\* The event of a submission carries the identities of its work.
LEMMA SubmitWorkKeeps ==
    ASSUME Inv, NEW t \in Tasks, SubmitWork(t)
    PROVE  Inv'
  <1> DEFINE e == Event("backend.operation.submitted", context[t], work[t], t)
  <1>1. /\ pc[t] = "submit" /\ events' = events \cup {e} /\ EndWork(t, "ok")
        /\ UNCHANGED <<work, outer, shared, previous, todo>>
    BY DEF SubmitWork
  <1>2. /\ context[t].processing = work[t] /\ context[t].attempt = work[t]
        /\ context[t].request = IF t = Pass THEN None ELSE t
    BY <1>1 DEF Inv, TaskOK, Busy
  <1>3. /\ e.kind = "backend.operation.submitted" /\ e.by = t /\ e.about = work[t]
        /\ e.processing = work[t] /\ e.attempt = work[t]
        /\ e.request = IF t = Pass THEN None ELSE t
    BY <1>2 DEF Event
  <1> HIDE DEF e
  <1>4. /\ events \subseteq events' /\ \A r \in Requests : Finished(r)' = Finished(r)
    BY <1>1, <1>3 DEF Finished
  <1>5. OperationIsNamed' /\ FinishedIsNamed'
    BY <1>1, <1>3 DEF Inv, OperationIsNamed, FinishedIsNamed
  <1>6. pc[t] \in Busy /\ "ok" \in Answers
    BY <1>1 DEF Busy, Answers
  <1> QED BY <1>1, <1>4, <1>5, <1>6, EndWorkKeeps

-----------------------------------------------------------------------------
(* The pass. *)

\* Beginning and ending a pass leave its context blank.
LEMMA PassEdgeKeeps ==
    ASSUME Inv, StartPass \/ EndPass
    PROVE  Inv'
  <1>1. Pass \in Tasks /\ Pass \notin Requests /\ TypeInv /\ TaskOK(Pass)
    BY PassAssumption DEF Tasks, Inv
  <1>2. /\ pc[Pass] \in {"new", "next"}
        /\ \E l \in {"new", "next"} : pc' = [pc EXCEPT ![Pass] = l]
        /\ UNCHANGED <<work, context, outer, shared, previous, answer, events>>
    BY DEF StartPass, EndPass
  <1>3. todo' \subseteq [processing: Processings, state: {"accepted", "planned", "submitting"}]
    BY DEF StartPass, EndPass
  <1>4. TypeInv' /\ \A u \in Tasks \ {Pass} : Rests(u)
    BY <1>1, <1>2, <1>3 DEF TypeInv, Rests
  <1>5. pc'[Pass] \in {"new", "next"} /\ context'[Pass] = Blank /\ context'[Pass].attempt = None
        /\ Blank' = Blank
    BY <1>1, <1>2 DEF TypeInv, TaskOK, Busy, Blank
  <1>6. TaskOK(Pass)'
    BY <1>5 DEF TaskOK, Busy
  <1> QED BY <1>1, <1>2, <1>4, <1>6, SilentMoves

\* The pass takes a row with the identities of that row and no others.
LEMMA NextRowKeeps ==
    ASSUME Inv, NEW f \in todo, NextRow(f)
    PROVE  Inv'
  <1>1. Pass \in Tasks /\ Pass \notin Requests /\ TypeInv /\ TaskOK(Pass)
    BY PassAssumption DEF Tasks, Inv
  <1> DEFINE p  == f.processing
             a  == IF row[p] \in {"accepted", "closed"} THEN None ELSE p
             c1 == [Blank EXCEPT !.processing = p]
             c  == [c1 EXCEPT !.attempt = a]
             l  == Handler[f.state]
  <1>2. /\ pc[Pass] = "next" /\ todo' = todo \ {f}
        /\ work' = [work EXCEPT ![Pass] = p]
        /\ previous' = [previous EXCEPT ![Pass] = context[Pass]]
        /\ context' = [context EXCEPT ![Pass] = c]
        /\ pc' = [pc EXCEPT ![Pass] = l]
        /\ UNCHANGED <<row, outer, shared, answer, passes, events>>
    BY DEF NextRow
  <1>3. p \in Processings /\ f.state \in {"accepted", "planned", "submitting"}
    BY <1>1 DEF TypeInv
  <1>4. l \in {"plan", "claim", "stale"}
    BY <1>3 DEF Handler
  <1>5. a \in {None, p}
    OBVIOUS
  <1> HIDE DEF a, l
  <1>6. c1 \in Contexts /\ c1.processing = p /\ c1.request = None
    BY <1>3, BlankContext DEF Contexts, Named
  <1> HIDE DEF c1
  <1>7. c \in Contexts /\ c.processing = p /\ c.attempt = a /\ c.request = None
    BY <1>3, <1>5, <1>6 DEF Contexts, Named
  <1> HIDE DEF c, p
  <1>8. context[Pass] = Blank
    BY <1>1, <1>2 DEF TaskOK, Busy
  <1>9. TypeInv' /\ \A u \in Tasks \ {Pass} : Rests(u)
    BY <1>1, <1>2, <1>3, <1>4, <1>7 DEF TypeInv, Rests, Busy, Named
  <1>10. /\ pc'[Pass] = l /\ work'[Pass] = p /\ context'[Pass] = c
         /\ previous'[Pass] = Blank /\ Blank' = Blank
    BY <1>1, <1>2, <1>8 DEF TypeInv, Blank
  <1>11. TaskOK(Pass)'
    BY <1>3, <1>4, <1>5, <1>7, <1>10 DEF TaskOK, Busy
  <1> QED BY <1>1, <1>2, <1>9, <1>11, SilentMoves

-----------------------------------------------------------------------------
(* The theorems. *)

\* Every step keeps the invariant.
LEMMA NextInv == Inv /\ [Next]_vars => Inv'
  <1> SUFFICES ASSUME Inv, [Next]_vars PROVE Inv'
    OBVIOUS
  <1>1. ASSUME NEW r \in Requests, RequestStep(r)
        PROVE  Inv'
    BY <1>1, BeginRequestKeeps, RefuseKeyKeeps, RespondKeeps, FinishRequestKeeps,
       AnswerAtOnceKeeps, AcceptKeeps DEF RequestStep
  <1>2. ASSUME NEW t \in Tasks, WorkStep(t)
        PROVE  Inv'
    BY <1>2, AdvanceKeeps, SubmitWorkKeeps, EndSilentKeeps DEF WorkStep
  <1>3. CASE MarkStale
    BY <1>3, EndSilentKeeps DEF Tasks
  <1>4. CASE UNCHANGED vars
    BY <1>4 DEF vars, Inv, TypeInv, TaskOK, RequestOK, Finished, OperationIsNamed,
       FinishedIsNamed, Blank, Begun, Unshared
  <1> QED BY <1>1, <1>2, <1>3, <1>4, PassEdgeKeeps, NextRowKeeps DEF Next

\* The invariant holds throughout.
LEMMA InvAlways == Spec => []Inv
  BY InitInv, NextInv, PTL DEF Spec

\* No processing or attempt identity leaks into other work: what is in a task's
\* context is of the work it is at.
THEOREM ContextAlwaysOfWork == Spec => []ContextIsOfWork
  <1>1. Inv => ContextIsOfWork
    BY DEF Inv, TaskOK, Busy, ContextIsOfWork
  <1> QED BY <1>1, InvAlways, PTL

\* The event of a scheduled operation names its processing, attempt and request.
THEOREM OperationAlwaysNamed == Spec => []OperationIsNamed
  <1>1. Inv => OperationIsNamed
    BY DEF Inv
  <1> QED BY <1>1, InvAlways, PTL

\* Every request has exactly one request.finished event, with its processing.
THEOREM AnswerAlwaysNamed == Spec => []AnswerIsNamed
  <1>1. Inv => AnswerIsNamed
    <2> SUFFICES ASSUME Inv PROVE AnswerIsNamed
      OBVIOUS
    <2>1. ASSUME NEW r \in Requests
          PROVE  Cardinality(Finished(r)) = IF pc[r] = "done" THEN 1 ELSE 0
      <3>1. RequestOK(r)
        BY DEF Inv
      <3>2. CASE pc[r] = "done"
        <4>1. PICK e \in events : Finished(r) = {e}
          BY <3>1, <3>2 DEF RequestOK
        <4>2. Cardinality({e}) = 1
          BY FS_Singleton
        <4> QED BY <3>2, <4>1, <4>2
      <3>3. CASE pc[r] # "done"
        BY <3>1, <3>3, FS_EmptySet DEF RequestOK
      <3> QED BY <3>2, <3>3
    <2> QED BY <2>1 DEF Inv, FinishedIsNamed, AnswerIsNamed, Finished
  <1> QED BY <1>1, InvAlways, PTL
=============================================================================
