----------------------- MODULE DurableProcessing_proofs -----------------------
(* Proofs about DurableProcessing, for every value of its constants: types, *)
(* what a step may do to a row of the tables, what a client may rely on     *)
(* about the rows it can see, what it was told, and that a processing has   *)
(* at most one backend operation.                                           *)
EXTENDS DurableProcessing, TLAPS

\* Labels at which a thread works on a row.
Working == Labels \ {"idle", "accept", "next"}

\* A working thread knows its row.
JobOK == \A t \in Threads : pc[t] \in Working => job[t].id \in Ids

DbOK     == processing \in [Ids -> Rows] /\ attempt \in [Ids -> Attempts]
RemoteOK == operation \in [Operations -> RemoteOperations] /\ wire \subseteq Messages
EnvOK    == /\ stale \subseteq Ids
            /\ config \in [Processes -> SUBSET Backends]
            /\ startupDue \in BOOLEAN
ThreadOK == /\ pc \in [Threads -> Labels]
            /\ job \in [Threads -> Jobs]
            /\ todo \in [Threads -> [Ids -> ProcessingState \cup {"none"}]]
            /\ reply \in [Threads -> Replies]
            /\ JobOK

TypeInv == DbOK /\ RemoteOK /\ EnvOK /\ ThreadOK

\* Goto keeps the thread state well typed.
LEMMA GotoType ==
    ASSUME NEW t \in Threads, NEW label \in Labels, ThreadOK,
           label \in Working => job[t].id \in Ids, Goto(t, label)
    PROVE  ThreadOK'
  BY DEF ThreadOK, Goto, JobOK

\* Finish keeps the thread state well typed.
LEMMA FinishType ==
    ASSUME NEW t \in Threads, NEW answer \in Replies, ThreadOK, Finish(t, answer)
    PROVE  ThreadOK'
  <1>1. NoJob \in Jobs
    BY DEF NoJob, Jobs, Observation
  <1>2. pc' \in [Threads -> Labels] /\ job' \in [Threads -> Jobs]
    BY <1>1 DEF ThreadOK, Finish, Labels
  <1>3. reply' \in [Threads -> Replies]
    BY DEF ThreadOK, Finish
  <1>4. JobOK'
    BY DEF ThreadOK, Finish, JobOK, Working, Labels
  <1> QED BY <1>2, <1>3, <1>4 DEF ThreadOK, Finish

\* A raised exception is a well-typed answer.
LEMMA RaiseType ==
    ASSUME NEW t \in Threads, NEW kind \in ReplyKind, ThreadOK, Raise(t, kind)
    PROVE  ThreadOK'
  <1>1. job[t] \in Jobs
    BY DEF ThreadOK
  <1>2. ErrorReply(t, kind, "none") \in Replies
    BY <1>1 DEF ErrorReply, NoReply, Replies, Jobs, Category
  <1> QED BY <1>2, FinishType DEF Raise

\* A durable row is a well-typed answer.
LEMMA RecordReplyType ==
    ASSUME NEW t \in Threads, NEW row \in Rows, NEW replayed \in BOOLEAN,
           ThreadOK, row.state # "none"
    PROVE  RecordReply(t, row, replayed) \in Replies
  <1>1. job[t] \in Jobs
    BY DEF ThreadOK
  <1> QED BY <1>1 DEF RecordReply, Replies, Jobs, Rows, ReplyKind

\* A transaction keeps the tables well typed.
LEMMA TransactType ==
    ASSUME NEW id \in Ids, NEW outcome, NEW hit, NEW agree,
           NEW row \in Rows, NEW att \in Attempts, DbOK,
           Transact(id, outcome, hit, agree, row, att)
    PROVE  DbOK'
  BY DEF DbOK, Transact, db

\* Continuing or raising after a compare-and-set keeps the thread state typed.
LEMMA ContinueType ==
    ASSUME NEW t \in Threads, NEW verdict, NEW label \in Labels,
           NEW kind \in ReplyKind, ThreadOK, job[t].id \in Ids,
           Continue(t, verdict, label, kind)
    PROVE  ThreadOK'
  <1>1. CASE \E l \in Labels : Goto(t, l)
    BY <1>1, GotoType
  <1>2. CASE \E k \in ReplyKind : Raise(t, k)
    BY <1>2, RaiseType
  <1>3. "reread" \in Labels /\ "diverged" \in ReplyKind
    BY DEF Labels, ReplyKind
  <1> QED BY <1>1, <1>2, <1>3 DEF Continue

\* Answering, re-reading or raising keeps the thread state typed.
LEMMA ConcludeType ==
    ASSUME NEW t \in Threads, NEW verdict, NEW row \in Rows,
           NEW kind \in ReplyKind, ThreadOK, job[t].id \in Ids,
           row.state # "none", Conclude(t, verdict, row, kind)
    PROVE  ThreadOK'
  <1>1. CASE Goto(t, "reread")
    BY <1>1, GotoType DEF Labels
  <1>2. CASE \E k \in ReplyKind : Raise(t, k)
    BY <1>2, RaiseType
  <1>3. CASE Finish(t, RecordReply(t, row, FALSE))
    BY <1>3, RecordReplyType, FinishType
  <1>4. "diverged" \in ReplyKind
    BY DEF ReplyKind
  <1> QED BY <1>1, <1>2, <1>3, <1>4 DEF Conclude

\* fail_processing keeps tables and thread typed.
LEMMA FailProcessingType ==
    ASSUME NEW t \in Threads, NEW expected, NEW category \in Category,
           DbOK, ThreadOK, job[t].id \in Ids,
           FailProcessing(t, expected, category)
    PROVE  DbOK' /\ ThreadOK'
  <1> DEFINE id  == job[t].id
             row == [processing[id] EXCEPT !.state = "failed", !.error = category]
             att == [attempt[id] EXCEPT !.state = "failed"]
  <1>0. processing[id] \in Rows /\ attempt[id] \in Attempts
    BY DEF DbOK
  <1>1. row \in Rows /\ att \in Attempts /\ row.state # "none"
    BY <1>0 DEF Rows, Attempts, ProcessingState, ExecutionAttemptState
  <1>2. PICK r \in Outcomes :
          /\ Transact(id, r, attempt[id].state \in ActiveAttempt,
                      processing[id].state = expected, row, att)
          /\ Conclude(t, Verdict(r, attempt[id].state \in ActiveAttempt,
                      processing[id].state = expected), row, "internal")
    BY DEF FailProcessing
  <1>3. DbOK'
    BY <1>1, <1>2, TransactType
  <1>4. ThreadOK'
    BY <1>1, <1>2, ConcludeType DEF ReplyKind
  <1> QED BY <1>3, <1>4

\* mark_recovery_required keeps tables and thread typed.
LEMMA MarkRecoveryRequiredType ==
    ASSUME NEW t \in Threads, NEW expected, NEW category \in Category,
           DbOK, ThreadOK, job[t].id \in Ids,
           MarkRecoveryRequired(t, expected, category)
    PROVE  DbOK' /\ ThreadOK'
  <1> DEFINE id  == job[t].id
             row == [processing[id] EXCEPT !.state = "recovery_required",
                                           !.error = category]
             att == [attempt[id] EXCEPT !.state = "recovery_required"]
  <1>0. processing[id] \in Rows /\ attempt[id] \in Attempts
    BY DEF DbOK
  <1>1. row \in Rows /\ att \in Attempts /\ row.state # "none"
    BY <1>0 DEF Rows, Attempts, ProcessingState, ExecutionAttemptState
  <1>2. PICK r \in Outcomes :
          /\ Transact(id, r, attempt[id].state = expected,
                      processing[id].state = expected, row, att)
          /\ Conclude(t, Verdict(r, attempt[id].state = expected,
                      processing[id].state = expected), row, "internal")
    BY DEF MarkRecoveryRequired
  <1>3. DbOK'
    BY <1>1, <1>2, TransactType
  <1>4. ThreadOK'
    BY <1>1, <1>2, ConcludeType DEF ReplyKind
  <1> QED BY <1>3, <1>4

-----------------------------------------------------------------------------
(* Type correctness, one lemma per group of actions. *)

\* The type invariant holds at the start.
LEMMA InitType == Init => TypeInv
  <1> SUFFICES ASSUME Init PROVE TypeInv
    OBVIOUS
  <1>1. NoRow \in Rows /\ NoAttempt \in Attempts
    BY DEF NoRow, NoAttempt, Rows, Attempts, Category
  <1>2. NoJob \in Jobs /\ NoReply \in Replies
    BY DEF NoJob, NoReply, Jobs, Replies, Observation, ReplyKind, Category
  <1>3. NoTodo \in [Ids -> ProcessingState \cup {"none"}]
    BY DEF NoTodo
  <1>4. DbOK
    BY <1>1 DEF Init, DbOK
  <1>5. RemoteOK
    BY DEF Init, RemoteOK, RemoteOperations
  <1>6. EnvOK
    BY ValuesAssumption DEF Init, EnvOK
  <1>7. ThreadOK
    BY <1>2, <1>3 DEF Init, ThreadOK, JobOK, Working, Labels
  <1> QED BY <1>4, <1>5, <1>6, <1>7 DEF TypeInv

\* Accepting a request keeps the type invariant.
LEMMA AcceptingType ==
    ASSUME TypeInv, NEW t \in Threads, Accepting(t)
    PROVE  TypeInv'
  <1> USE DEF TypeInv
  <1>1. ASSUME NEW k \in Keys, NEW a \in Alerts, ReceiveRequest(t, k, a)
        PROVE  TypeInv'
    <2>1. [NoJob EXCEPT !.key = k, !.alert = a] \in Jobs /\ NoReply \in Replies
      BY DEF NoJob, Jobs, Observation, NoReply, Replies, ReplyKind, Category
    <2>2. ThreadOK'
      BY <1>1, <2>1 DEF ReceiveRequest, ThreadOK, JobOK, Working, Labels
    <2> QED BY <1>1, <2>2 DEF ReceiveRequest, DbOK, RemoteOK, EnvOK, db, remote, env
  <1>2. ASSUME NEW id \in Ids, AcceptNew(t, id)
        PROVE  TypeInv'
    <2>0. job[t] \in Jobs
      BY DEF ThreadOK
    <2>1. AcceptedRow(job[t].key, job[t].alert) \in Rows
      BY <2>0 DEF AcceptedRow, NoRow, Rows, Jobs, ProcessingState, Category
    <2>2. DbOK'
      BY <1>2, <2>1 DEF AcceptNew, DbOK
    <2>3. CASE Raise(t, "unavailable")
      <3>1. ThreadOK'
        BY <2>3, RaiseType DEF ReplyKind
      <3> QED BY <1>2, <2>2, <3>1 DEF AcceptNew, RemoteOK, EnvOK, remote, env
    <2>4. CASE /\ pc' = [pc EXCEPT ![t] = "plan"]
               /\ job' = [job EXCEPT ![t].id = id]
               /\ UNCHANGED <<todo, reply>>
      <3>1. job' \in [Threads -> Jobs]
        BY <2>4 DEF ThreadOK, Jobs
      <3>2. ThreadOK'
        BY <2>4, <3>1 DEF ThreadOK, JobOK, Labels, Working
      <3> QED BY <1>2, <2>2, <3>2 DEF AcceptNew, RemoteOK, EnvOK, remote, env
    <2> QED BY <1>2, <2>3, <2>4 DEF AcceptNew
  <1>3. ASSUME NEW id \in Ids, AcceptExisting(t, id)
        PROVE  TypeInv'
    <2>0. processing[id] \in Rows /\ processing[id].state # "none"
      BY <1>3 DEF AcceptExisting, Holds, DbOK
    <2>1. RecordReply(t, processing[id], TRUE) \in Replies
      BY <2>0, RecordReplyType
    <2>2. [RecordReply(t, processing[id], TRUE) EXCEPT !.id = id] \in Replies
      BY <2>1 DEF Replies
    <2>3. ThreadOK'
      BY <1>3, <2>2, FinishType, RaiseType DEF AcceptExisting, ReplyKind
    <2> QED BY <1>3, <2>3 DEF AcceptExisting, DbOK, RemoteOK, EnvOK, db, remote, env
  <1> QED BY <1>1, <1>2, <1>3 DEF Accepting

\* Planning, submitting and polling steps of a thread leave the backend's
\* state and the environment well typed when they leave them unchanged.
LEMMA FrameType ==
    ASSUME TypeInv, DbOK', ThreadOK', UNCHANGED <<remote, env>>
    PROVE  TypeInv'
  BY DEF TypeInv, RemoteOK, EnvOK, remote, env

\* Planning keeps the type invariant.
LEMMA PlanningType ==
    ASSUME TypeInv, NEW t \in Threads, Planning(t)
    PROVE  TypeInv'
  <1> DEFINE id == job[t].id
  <1>1. id \in Ids
    BY DEF Planning, FailPlanning, StoreNoAction, StorePlan, TypeInv, ThreadOK,
           JobOK, Working, Labels
  <1>2. processing[id] \in Rows /\ attempt[id] \in Attempts /\ job[t] \in Jobs
    BY <1>1 DEF TypeInv, DbOK, ThreadOK
  <1>3. CASE FailPlanning(t)
    <2>1. PICK e \in {"unsupported", "ambiguous", "internal"}, r \in Outcomes,
               category \in Category :
            LET hit == processing[id].state = "accepted"
                row == [processing[id] EXCEPT !.state = "failed", !.error = category]
            IN /\ Transact(id, r, hit, TRUE, row, attempt[id])
               /\ \/ Raise(t, "unavailable")
                  \/ Goto(t, "reread")
                  \/ \E s \in {"none", "failed", "accepted"} :
                       Finish(t, ErrorReply(t, e, s))
      BY <1>3 DEF FailPlanning, Category
    <2>2. [processing[id] EXCEPT !.state = "failed", !.error = category] \in Rows
      BY <1>2 DEF Rows, ProcessingState
    <2>3. DbOK'
      BY <1>1, <1>2, <2>1, <2>2, TransactType DEF TypeInv
    <2>4. \A s \in {"none", "failed", "accepted"} : ErrorReply(t, e, s) \in Replies
      BY <1>2 DEF ErrorReply, NoReply, Replies, Jobs, Category, ReplyKind, ProcessingState
    <2>5. ThreadOK'
      BY <1>1, <2>1, <2>4, RaiseType, GotoType, FinishType
         DEF TypeInv, Labels, ReplyKind
    <2> QED BY <1>3, <2>3, <2>5, FrameType DEF FailPlanning
  <1>4. CASE StoreNoAction(t)
    <2> DEFINE row == [processing[id] EXCEPT !.state = "completed"]
    <2>1. row \in Rows /\ row.state # "none"
      BY <1>2 DEF Rows, ProcessingState
    <2>2. DbOK' /\ ThreadOK'
      BY <1>1, <1>2, <1>4, <2>1, TransactType, ConcludeType
         DEF StoreNoAction, StoreNoActionResult, TypeInv, ReplyKind
    <2> QED BY <1>4, <2>2, FrameType DEF StoreNoAction
  <1>5. CASE StorePlan(t)
    <2>1. PICK b \in Routable(t), r \in Outcomes :
            LET hit == processing[id].state = "accepted" IN
            /\ Transact(id, r, hit, TRUE,
                        [processing[id] EXCEPT !.state = "planned", !.backend = b],
                        [attempt[id] EXCEPT !.state = "planned"])
            /\ Continue(t, Verdict(r, hit, TRUE), "claim", "unavailable")
      BY <1>5 DEF StorePlan, StorePlanAndAttempt
    <2>2. Process(t) \in Processes
      BY DEF Process, Processes
    <2>3. b \in Backends
      BY <2>1, <2>2 DEF Routable, TypeInv, EnvOK
    <2>4. /\ [processing[id] EXCEPT !.state = "planned", !.backend = b] \in Rows
          /\ [attempt[id] EXCEPT !.state = "planned"] \in Attempts
      BY <1>2, <2>3 DEF Rows, Attempts, ProcessingState, ExecutionAttemptState
    <2>5. DbOK' /\ ThreadOK'
      BY <1>1, <2>1, <2>4, TransactType, ContinueType DEF TypeInv, Labels, ReplyKind
    <2> QED BY <1>5, <2>5, FrameType DEF StorePlan
  <1> QED BY <1>3, <1>4, <1>5 DEF Planning

\* Submitting keeps the type invariant.
LEMMA SubmittingType ==
    ASSUME TypeInv, NEW t \in Threads, Submitting(t)
    PROVE  TypeInv'
  <1> DEFINE id == job[t].id
  <1>1. id \in Ids
    BY DEF Submitting, FailUnconfigured, ClaimAttempt, ExpireAfterClaim,
           SendSubmission, RejectSubmission, FailRejected, SubmissionAnswered,
           SubmissionUnknown, RecordUnknown, RecordSubmitted, RecordUnrecorded,
           TypeInv, ThreadOK, JobOK, Working, Labels
  <1>2. processing[id] \in Rows /\ attempt[id] \in Attempts /\ job[t] \in Jobs
    BY <1>1 DEF TypeInv, DbOK, ThreadOK
  <1>3. CASE FailUnconfigured(t) \/ FailRejected(t)
    <2>1. DbOK' /\ ThreadOK'
      BY <1>1, <1>3, FailProcessingType
         DEF FailUnconfigured, FailRejected, TypeInv, Category
    <2> QED BY <1>3, <2>1, FrameType DEF FailUnconfigured, FailRejected
  <1>4. CASE ExpireAfterClaim(t) \/ RecordUnknown(t)
    <2>1. DbOK' /\ ThreadOK'
      BY <1>1, <1>4, MarkRecoveryRequiredType
         DEF ExpireAfterClaim, RecordUnknown, TypeInv, Category
    <2> QED BY <1>4, <2>1, FrameType DEF ExpireAfterClaim, RecordUnknown
  <1>5. CASE ClaimAttempt(t)
    <2>1. /\ [processing[id] EXCEPT !.state = "submitting"] \in Rows
          /\ [attempt[id] EXCEPT !.state = "submitting"] \in Attempts
      BY <1>2 DEF Rows, Attempts, ProcessingState, ExecutionAttemptState
    <2>2. DbOK' /\ ThreadOK'
      BY <1>1, <1>5, <2>1, TransactType, ContinueType
         DEF ClaimAttempt, ClaimAttemptForSubmission, TypeInv, Labels, ReplyKind
    <2> QED BY <1>5, <2>2, FrameType DEF ClaimAttempt
  <1>6. CASE SendSubmission(t)
    <2>1. [thread |-> t, id |-> id, op |-> None] \in Messages
      BY <1>1 DEF Messages
    <2>2. RemoteOK'
      BY <1>6, <2>1 DEF SendSubmission, TypeInv, RemoteOK
    <2>3. ThreadOK'
      BY <1>1, <1>6, GotoType DEF SendSubmission, TypeInv, Labels
    <2> QED BY <1>6, <2>2, <2>3 DEF SendSubmission, TypeInv, DbOK, EnvOK, db, env
  <1>7. CASE RejectSubmission(t)
    <2>1. ThreadOK'
      BY <1>1, <1>7, GotoType DEF RejectSubmission, TypeInv, Labels
    <2> QED BY <1>7, <2>1, FrameType DEF RejectSubmission, TypeInv, DbOK, db
  <1>8. ASSUME NEW m \in wire, SubmissionAnswered(t, m)
        PROVE  TypeInv'
    <2>1. m.op \in Operations
      BY <1>8 DEF SubmissionAnswered, TypeInv, RemoteOK, Messages
    <2>2. job' \in [Threads -> Jobs]
      <3>1. [job[t] EXCEPT !.ext = m.op] \in Jobs
        BY <1>2, <2>1 DEF Jobs
      <3>2. job' = [job EXCEPT ![t] = [job[t] EXCEPT !.ext = m.op]]
        BY <1>8 DEF SubmissionAnswered
      <3> QED BY <3>1, <3>2 DEF TypeInv, ThreadOK
    <2>3. ThreadOK'
      BY <1>1, <1>8, <2>2 DEF SubmissionAnswered, TypeInv, ThreadOK, JobOK, Labels
    <2> QED BY <1>8, <2>3
            DEF SubmissionAnswered, TypeInv, DbOK, RemoteOK, EnvOK, db, env
  <1>9. CASE SubmissionUnknown(t)
    <2>1. ThreadOK'
      BY <1>1, <1>9, GotoType DEF SubmissionUnknown, TypeInv, Labels
    <2> QED BY <1>9, <2>1
            DEF SubmissionUnknown, TypeInv, DbOK, RemoteOK, EnvOK, db, env
  <1>10. CASE RecordSubmitted(t)
    <2>1. /\ [processing[id] EXCEPT !.state = "submitted"] \in Rows
          /\ [attempt[id] EXCEPT !.state = "submitted", !.ext = job[t].ext] \in Attempts
      BY <1>2 DEF Rows, Attempts, Jobs, ProcessingState, ExecutionAttemptState
    <2>2. DbOK'
      BY <1>1, <1>10, <2>1, TransactType DEF RecordSubmitted, MarkAttemptSubmitted, TypeInv
    <2>3. \/ \E label \in {"poll", "reread", "unrecorded"} : Goto(t, label)
          \/ Raise(t, "internal")
      BY <1>10 DEF RecordSubmitted
    <2>4. ThreadOK'
      BY <1>1, <2>3, GotoType, RaiseType DEF TypeInv, Labels, ReplyKind
    <2> QED BY <1>10, <2>2, <2>4, FrameType DEF RecordSubmitted
  <1>11. CASE RecordUnrecorded(t)
    <2>1. /\ [processing[id] EXCEPT !.state = "recovery_required",
                                    !.error = "backend_submission_unknown"] \in Rows
          /\ [attempt[id] EXCEPT !.state = "recovery_required"] \in Attempts
      BY <1>2 DEF Rows, Attempts, ProcessingState, ExecutionAttemptState, Category
    <2>2. DbOK'
      BY <1>1, <1>11, <2>1, TransactType DEF RecordUnrecorded, TypeInv
    <2>3. ThreadOK'
      BY <1>11, RaiseType DEF RecordUnrecorded, TypeInv, ReplyKind
    <2> QED BY <1>11, <2>2, <2>3, FrameType DEF RecordUnrecorded
  <1> QED BY <1>3, <1>4, <1>5, <1>6, <1>7, <1>8, <1>9, <1>10, <1>11 DEF Submitting

\* Polling keeps the type invariant.
LEMMA PollingType ==
    ASSUME TypeInv, NEW t \in Threads, Polling(t)
    PROVE  TypeInv'
  <1> DEFINE id == job[t].id
  <1>1. id \in Ids
    BY DEF Polling, RecoverUnpollable, PollOperation, RecordPoll, FailExecution,
           CollectResult, RecordUnsafe, CompleteProcessing, Reread,
           TypeInv, ThreadOK, JobOK, Working, Labels
  <1>2. processing[id] \in Rows /\ attempt[id] \in Attempts /\ job[t] \in Jobs
    BY <1>1 DEF TypeInv, DbOK, ThreadOK
  <1>3. CASE RecoverUnpollable(t) \/ RecordUnsafe(t)
    <2>1. DbOK' /\ ThreadOK'
      BY <1>1, <1>3, MarkRecoveryRequiredType
         DEF RecoverUnpollable, RecordUnsafe, TypeInv, Category
    <2> QED BY <1>3, <2>1, FrameType DEF RecoverUnpollable, RecordUnsafe
  <1>4. CASE PollOperation(t)
    <2>1. ASSUME NEW s \in Observation, pc' = [pc EXCEPT ![t] = "observed"],
                 job' = [job EXCEPT ![t].seen = s], UNCHANGED <<todo, reply>>
          PROVE  ThreadOK'
      <3>1. job' \in [Threads -> Jobs]
        BY <2>1 DEF TypeInv, ThreadOK, Jobs
      <3> QED BY <1>1, <2>1, <3>1 DEF TypeInv, ThreadOK, JobOK, Labels
    <2>2. ThreadOK'
      BY <1>1, <1>4, <2>1, GotoType DEF PollOperation, TypeInv, Labels
    <2> QED BY <1>4, <2>2, FrameType DEF PollOperation, TypeInv, DbOK, db
  <1>5. CASE RecordPoll(t)
    <2> DEFINE error == IF job[t].seen = "timeout" THEN "backend_timeout" ELSE "none"
    <2>1. [processing[id] EXCEPT !.error = error] \in Rows
      BY <1>2 DEF Rows, Category
    <2>2. DbOK'
      BY <1>1, <1>2, <1>5, <2>1, TransactType DEF RecordPoll, RecordObservation, TypeInv
    <2>3. \/ \E label \in {"reread", "fail", "collect"} : Goto(t, label)
          \/ \E kind \in {"internal", "diverged"} : Raise(t, kind)
      BY <1>5 DEF RecordPoll
    <2>4. ThreadOK'
      BY <1>1, <2>3, GotoType, RaiseType DEF TypeInv, Labels, ReplyKind
    <2> QED BY <1>5, <2>2, <2>4, FrameType DEF RecordPoll
  <1>6. CASE FailExecution(t)
    <2>1. DbOK' /\ ThreadOK'
      BY <1>1, <1>6, FailProcessingType DEF FailExecution, TypeInv, Category
    <2> QED BY <1>6, <2>1, FrameType DEF FailExecution
  <1>7. CASE CollectResult(t)
    <2>1. ThreadOK'
      BY <1>1, <1>7, GotoType DEF CollectResult, TypeInv, Labels
    <2> QED BY <1>7, <2>1, FrameType DEF CollectResult, TypeInv, DbOK, db
  <1>8. CASE CompleteProcessing(t)
    <2> DEFINE row == [processing[id] EXCEPT !.state = "completed", !.error = "none",
                                             !.result = job[t].ext]
    <2>1. /\ row \in Rows /\ row.state # "none"
          /\ [attempt[id] EXCEPT !.state = "completed"] \in Attempts
      BY <1>2 DEF Rows, Attempts, Jobs, ProcessingState, ExecutionAttemptState, Category
    <2>2. DbOK' /\ ThreadOK'
      BY <1>1, <1>8, <2>1, TransactType, ConcludeType
         DEF CompleteProcessing, StoreCompletion, TypeInv, ReplyKind
    <2> QED BY <1>8, <2>2, FrameType DEF CompleteProcessing
  <1>9. CASE Reread(t)
    <2>1. RecordReply(t, processing[id], FALSE) \in Replies
      BY <1>2 DEF RecordReply, Replies, Jobs, Rows, ReplyKind
    <2>2. ThreadOK'
      BY <1>9, <2>1, FinishType, RaiseType DEF Reread, TypeInv, ReplyKind
    <2> QED BY <1>9, <2>2, FrameType DEF Reread, TypeInv, DbOK, db
  <1> QED BY <1>3, <1>4, <1>5, <1>6, <1>7, <1>8, <1>9 DEF Polling

\* Reconciling keeps the type invariant.
LEMMA ReconcilingType ==
    ASSUME TypeInv, NEW t \in Threads, Reconciling(t)
    PROVE  TypeInv'
  <1>0. NoJob \in Jobs /\ NoTodo \in [Ids -> ProcessingState \cup {"none"}]
    BY DEF NoJob, NoTodo, Jobs, Observation
  <1>1. CASE StartPass(t)
    <2>1. \A i \in Ids : processing[i].state \in ProcessingState \cup {"none"}
      BY DEF TypeInv, DbOK, Rows
    <2>2. todo' \in [Threads -> [Ids -> ProcessingState \cup {"none"}]]
      <3> DEFINE Read(rows) == [i \in Ids |-> IF i \in rows THEN processing[i].state
                                              ELSE "none"]
      <3>1. \A rows : Read(rows) \in [Ids -> ProcessingState \cup {"none"}]
        BY <2>1
      <3>2. \/ UNCHANGED todo
            \/ \E rows : todo' = [todo EXCEPT ![t] = Read(rows)]
        BY <1>1 DEF StartPass
      <3> HIDE DEF Read
      <3> QED BY <3>1, <3>2 DEF TypeInv, ThreadOK
    <2>3. ThreadOK'
      BY <1>1, <2>2 DEF StartPass, TypeInv, ThreadOK, JobOK, Working, Labels
    <2> QED BY <1>1, <2>3 DEF StartPass, TypeInv, DbOK, RemoteOK, EnvOK, db, remote
  <1>2. CASE EndPass(t)
    <2>1. ThreadOK'
      BY <1>0, <1>2 DEF EndPass, TypeInv, ThreadOK, JobOK, Working, Labels
    <2> QED BY <1>2, <2>1, FrameType DEF EndPass, TypeInv, DbOK, db
  <1>3. CASE ExpireRow(t)
    <2>1. NoReply \in Replies
      BY DEF NoReply, Replies, ReplyKind, Category
    <2>2. ThreadOK'
      BY <1>3, <2>1, FinishType DEF ExpireRow, TypeInv
    <2> QED BY <1>3, <2>2, FrameType DEF ExpireRow, TypeInv, DbOK, db
  <1>4. CASE RecoverStale(t)
    <2>1. job[t].id \in Ids
      BY <1>4 DEF RecoverStale, TypeInv, ThreadOK, JobOK, Working, Labels
    <2>2. DbOK' /\ ThreadOK'
      BY <1>4, <2>1, MarkRecoveryRequiredType DEF RecoverStale, TypeInv, Category
    <2> QED BY <1>4, <2>2, FrameType DEF RecoverStale
  <1>5. ASSUME NEW id \in Ids, TakeRow(t, id)
        PROVE  TypeInv'
    <2>1. attempt[id].ext \in Operations \cup {None}
      BY DEF TypeInv, DbOK, Attempts
    <2>2. \A x \in Operations \cup {None} :
             /\ [NoJob EXCEPT !.id = id, !.ext = x] \in Jobs
             /\ [NoJob EXCEPT !.id = id, !.ext = x].id = id
      BY DEF NoJob, Jobs, Observation
    <2>3. \/ \E label \in {"plan", "claim", "stale", "poll"}, x \in Operations \cup {None} :
               /\ pc' = [pc EXCEPT ![t] = label]
               /\ job' = [job EXCEPT ![t] = [NoJob EXCEPT !.id = id, !.ext = x]]
          \/ UNCHANGED <<pc, job>>
          \/ pc' = [pc EXCEPT ![t] = "idle"] /\ UNCHANGED job
      BY <1>5, <2>1 DEF TakeRow
    <2>4. \/ todo' = [todo EXCEPT ![t] = [todo[t] EXCEPT ![id] = "none"]]
          \/ todo' = [todo EXCEPT ![t] = NoTodo]
      BY <1>5 DEF TakeRow
    <2>5. todo' \in [Threads -> [Ids -> ProcessingState \cup {"none"}]]
      <3>1. [todo[t] EXCEPT ![id] = "none"] \in [Ids -> ProcessingState \cup {"none"}]
        BY DEF TypeInv, ThreadOK
      <3> QED BY <1>0, <2>4, <3>1 DEF TypeInv, ThreadOK
    <2>6. pc' \in [Threads -> Labels] /\ job' \in [Threads -> Jobs]
      BY <2>2, <2>3 DEF TypeInv, ThreadOK, Labels
    <2>7. JobOK'
      BY <2>2, <2>3 DEF TypeInv, ThreadOK, JobOK, Working, Labels
    <2>8. ThreadOK'
      BY <1>5, <2>5, <2>6, <2>7 DEF TakeRow, TypeInv, ThreadOK
    <2> QED BY <1>5, <2>8, FrameType DEF TakeRow, TypeInv, DbOK, db
  <1> QED BY <1>1, <1>2, <1>3, <1>4, <1>5 DEF Reconciling

\* Backend, clock and restarts keep the type invariant.
LEMMA EnvironmentType ==
    ASSUME TypeInv, Environment
    PROVE  TypeInv'
  <1> USE DEF TypeInv
  <1>1. ASSUME NEW m \in wire, NEW o \in Operations, ServeSubmission(m, o)
        PROVE  TypeInv'
    <2>0. m \in Messages
      BY DEF RemoteOK
    <2>1. [m EXCEPT !.op = o] \in Messages /\ m.id \in Ids
      BY <2>0 DEF Messages
    <2>2. RemoteOK'
      BY <1>1, <2>1 DEF ServeSubmission, RemoteOK, RemoteOperations
    <2> QED BY <1>1, <2>2 DEF ServeSubmission, DbOK, EnvOK, ThreadOK, JobOK, db, env, thread
  <1>2. ASSUME NEW o \in Operations, NEW s \in {"finished", "failed"}, EndOperation(o, s)
        PROVE  TypeInv'
    <2>1. RemoteOK'
      BY <1>2 DEF EndOperation, RemoteOK, RemoteOperations
    <2> QED BY <1>2, <2>1 DEF EndOperation, DbOK, EnvOK, ThreadOK, JobOK, db, env, thread
  <1>3. ASSUME NEW id \in Ids, GrowStale(id)
        PROVE  TypeInv'
    BY <1>3 DEF GrowStale, DbOK, RemoteOK, EnvOK, ThreadOK, JobOK, db, remote, thread
  <1>4. ASSUME NEW p \in Processes, Restart(p)
        PROVE  TypeInv'
    <2>1. NoJob \in Jobs /\ NoTodo \in [Ids -> ProcessingState \cup {"none"}]
      BY DEF NoJob, NoTodo, Jobs, Observation
    <2>2. ThreadOK'
      BY <1>4, <2>1 DEF Restart, ThreadOK, JobOK, Working, Labels
    <2>3. EnvOK'
      BY <1>4, ValuesAssumption DEF Restart, EnvOK
    <2> QED BY <1>4, <2>2, <2>3 DEF Restart, DbOK, RemoteOK, db
  <1> QED BY <1>1, <1>2, <1>3, <1>4 DEF Environment

\* Every step keeps the type invariant.
LEMMA NextType == TypeInv /\ [Next]_vars => TypeInv'
  <1> SUFFICES ASSUME TypeInv, [Next]_vars PROVE TypeInv'
    OBVIOUS
  <1>1. CASE UNCHANGED vars
    BY <1>1 DEF vars, TypeInv, DbOK, RemoteOK, EnvOK, ThreadOK, JobOK
  <1>2. CASE Next
    BY <1>2, AcceptingType, PlanningType, SubmittingType, PollingType,
       ReconcilingType, EnvironmentType DEF Next
  <1> QED BY <1>1, <1>2

\* Tables, messages, locals and answers keep their types in every behaviour
\* of the processor.
THEOREM TypeCorrect == Spec => []TypeOK
  <1>1. TypeInv => TypeOK
    BY DEF TypeInv, TypeOK, DbOK, RemoteOK, EnvOK, ThreadOK
  <1> QED BY <1>1, InitType, NextType, PTL DEF Spec

-----------------------------------------------------------------------------
(* What one step may do to one row of the two tables, and the invariants and *)
(* action properties of the tables that follow from it.                      *)

Kept(i) == processing'[i] = processing[i] /\ attempt'[i] = attempt[i]

Wrote(i, row, att) == processing'[i] = row /\ attempt'[i] = att

\* Which thread fails a row with an attempt, from which state and why.
FailCase(label, state, category) ==
    \/ label = "claim" /\ state = "planned" /\ category = "backend_selection_error"
    \/ label = "reject" /\ state = "submitting" /\ category = "backend_submission_failed"
    \/ label = "fail" /\ state = "submitted" /\ category = "backend_execution_failed"

RecoveryCategory == {"backend_submission_unknown", "recovery_required",
                     "backend_protocol_error"}

\* The writes the repository can commit to a row: each is guarded by the
\* states its UPDATE statements expect.
RowStep(i) ==
    LET p == processing[i]
        a == attempt[i]
    IN \/ Kept(i)
       \/ /\ p.state = "none"
          /\ \E t \in Threads : /\ AcceptNew(t, i)
                                /\ Wrote(i, AcceptedRow(job[t].key, job[t].alert), a)
       \/ /\ p.state = "accepted"
          /\ \E c \in {"unsupported_capability", "backend_selection_error"} :
               Wrote(i, [p EXCEPT !.state = "failed", !.error = c], a)
       \/ /\ p.state = "accepted" /\ p.alert \notin Severe
          /\ Wrote(i, [p EXCEPT !.state = "completed"], a)
       \/ /\ p.state = "accepted" /\ p.alert \in Severe
          /\ \E b \in Backends :
               Wrote(i, [p EXCEPT !.state = "planned", !.backend = b],
                        [a EXCEPT !.state = "planned"])
       \/ /\ p.state = "planned" /\ a.state = "planned"
          /\ Wrote(i, [p EXCEPT !.state = "submitting"], [a EXCEPT !.state = "submitting"])
       \/ /\ p.state = "submitting" /\ a.state = "submitting"
          /\ \E t \in Threads :
               /\ pc[t] = "record" /\ job[t].id = i
               /\ Wrote(i, [p EXCEPT !.state = "submitted"],
                           [a EXCEPT !.state = "submitted", !.ext = job[t].ext])
       \/ /\ p.state = "submitted" /\ a.state = "submitted"
          /\ \E c \in {"none", "backend_timeout"} : Wrote(i, [p EXCEPT !.error = c], a)
       \/ /\ p.state = "submitted" /\ a.state = "submitted"
          /\ \E t \in Threads :
               /\ pc[t] = "complete" /\ job[t].id = i
               /\ Wrote(i, [p EXCEPT !.state = "completed", !.error = "none",
                                     !.result = job[t].ext],
                           [a EXCEPT !.state = "completed"])
       \/ \E t \in Threads, c \in Category :
            /\ job[t].id = i
            /\ FailCase(pc[t], p.state, c)
            /\ pc'[t] \in {"idle", "next"}
            /\ a.state \in ActiveAttempt
            /\ Wrote(i, [p EXCEPT !.state = "failed", !.error = c],
                        [a EXCEPT !.state = "failed"])
       \/ \E c \in RecoveryCategory :
            /\ p.state \in {"submitting", "submitted"} /\ a.state = p.state
            /\ Wrote(i, [p EXCEPT !.state = "recovery_required", !.error = c],
                        [a EXCEPT !.state = "recovery_required"])

\* A step that leaves the tables alone is a row step.
LEMMA KeptStep ==
    ASSUME UNCHANGED db
    PROVE  \A i \in Ids : RowStep(i)
  BY DEF db, RowStep, Kept

\* fail_processing writes only a row in the expected state, and ends the job.
LEMMA FailProcessingStep ==
    ASSUME NEW t \in Threads, NEW category \in Category,
           NEW expected, FailCase(pc[t], expected, category),
           DbOK, ThreadOK, job[t].id \in Ids, FailProcessing(t, expected, category)
    PROVE  \A i \in Ids : RowStep(i)
  <1> DEFINE id    == job[t].id
             hit   == attempt[id].state \in ActiveAttempt
             agree == processing[id].state = expected
             row   == [processing[id] EXCEPT !.state = "failed", !.error = category]
             att   == [attempt[id] EXCEPT !.state = "failed"]
  <1>1. PICK r \in Outcomes :
          /\ Transact(id, r, hit, agree, row, att)
          /\ Conclude(t, Verdict(r, hit, agree), row, "internal")
    BY DEF FailProcessing
  <1>2. \A i \in Ids : \/ Kept(i)
                       \/ i = id /\ hit /\ agree /\ Wrote(i, row, att)
    BY <1>1 DEF DbOK, Transact, db, Kept, Wrote
  <1>3. hit /\ agree => Verdict(r, hit, agree) \in {"won", "raised"}
    BY DEF Verdict
  <1>4. ASSUME NEW answer, Finish(t, answer)
        PROVE  pc'[t] \in {"idle", "next"}
    BY <1>4 DEF Finish, ThreadOK
  <1>5. hit /\ agree => pc'[t] \in {"idle", "next"}
    BY <1>1, <1>3, <1>4 DEF Conclude, Raise
  <1> QED BY <1>2, <1>5 DEF RowStep

\* mark_recovery_required writes only a row in the expected state.
LEMMA MarkRecoveryRequiredStep ==
    ASSUME NEW t \in Threads, NEW category \in RecoveryCategory,
           NEW expected \in {"submitting", "submitted"},
           DbOK, job[t].id \in Ids, MarkRecoveryRequired(t, expected, category)
    PROVE  \A i \in Ids : RowStep(i)
  <1> DEFINE id  == job[t].id
             row == [processing[id] EXCEPT !.state = "recovery_required",
                                           !.error = category]
             att == [attempt[id] EXCEPT !.state = "recovery_required"]
  <1>1. PICK r \in Outcomes :
          Transact(id, r, attempt[id].state = expected,
                   processing[id].state = expected, row, att)
    BY DEF MarkRecoveryRequired
  <1>2. \A i \in Ids : \/ Kept(i)
                       \/ /\ i = id /\ attempt[i].state = expected
                          /\ processing[i].state = expected /\ Wrote(i, row, att)
    BY <1>1 DEF DbOK, Transact, db, Kept, Wrote
  <1> QED BY <1>2 DEF RowStep

\* Accepting inserts a row or leaves the tables alone.
LEMMA AcceptingStep ==
    ASSUME TypeInv, NEW t \in Threads, Accepting(t)
    PROVE  \A i \in Ids : RowStep(i)
  <1>1. ASSUME NEW k \in Keys, NEW a \in Alerts, ReceiveRequest(t, k, a)
        PROVE  \A i \in Ids : RowStep(i)
    BY <1>1, KeptStep DEF ReceiveRequest
  <1>2. ASSUME NEW id \in Ids, AcceptNew(t, id)
        PROVE  \A i \in Ids : RowStep(i)
    <2>1. \A i \in Ids :
            \/ Kept(i)
            \/ /\ i = id /\ processing[i].state = "none"
               /\ Wrote(i, AcceptedRow(job[t].key, job[t].alert), attempt[i])
      BY <1>2 DEF AcceptNew, TypeInv, DbOK, Kept, Wrote
    <2> QED BY <1>2, <2>1 DEF RowStep
  <1>3. ASSUME NEW id \in Ids, AcceptExisting(t, id)
        PROVE  \A i \in Ids : RowStep(i)
    BY <1>3, KeptStep DEF AcceptExisting
  <1> QED BY <1>1, <1>2, <1>3 DEF Accepting

\* Planning writes only an accepted row.
LEMMA PlanningStep ==
    ASSUME TypeInv, NEW t \in Threads, Planning(t)
    PROVE  \A i \in Ids : RowStep(i)
  <1> DEFINE id == job[t].id
  <1>1. id \in Ids
    BY DEF Planning, FailPlanning, StoreNoAction, StorePlan, TypeInv, ThreadOK,
           JobOK, Working, Labels
  <1>2. CASE FailPlanning(t)
    <2>1. PICK r \in Outcomes,
               c \in {"unsupported_capability", "backend_selection_error"} :
            Transact(id, r, processing[id].state = "accepted", TRUE,
                     [processing[id] EXCEPT !.state = "failed", !.error = c],
                     attempt[id])
      BY <1>2 DEF FailPlanning
    <2>2. \A i \in Ids :
            \/ Kept(i)
            \/ /\ processing[i].state = "accepted"
               /\ Wrote(i, [processing[i] EXCEPT !.state = "failed", !.error = c],
                        attempt[i])
      BY <1>1, <2>1 DEF TypeInv, DbOK, Transact, db, Kept, Wrote
    <2> QED BY <2>2 DEF RowStep
  <1>3. CASE StoreNoAction(t)
    <2>1. \A i \in Ids :
            \/ Kept(i)
            \/ /\ processing[i].state = "accepted" /\ processing[i].alert \notin Severe
               /\ Wrote(i, [processing[i] EXCEPT !.state = "completed"], attempt[i])
      BY <1>1, <1>3 DEF StoreNoAction, StoreNoActionResult, Decision, TypeInv, DbOK, Transact, db, Kept, Wrote
    <2> QED BY <2>1 DEF RowStep
  <1>4. CASE StorePlan(t)
    <2>1. PICK b \in Routable(t), r \in Outcomes :
            Transact(id, r, processing[id].state = "accepted", TRUE,
                     [processing[id] EXCEPT !.state = "planned", !.backend = b],
                     [attempt[id] EXCEPT !.state = "planned"])
      BY <1>4 DEF StorePlan, StorePlanAndAttempt
    <2>2. b \in Backends
      BY <2>1 DEF Routable, Process, Processes, TypeInv, EnvOK
    <2>3. processing[id].alert \in Severe
      BY <1>4 DEF StorePlan, Decision
    <2>4. \A i \in Ids :
            \/ Kept(i)
            \/ /\ processing[i].state = "accepted" /\ processing[i].alert \in Severe
               /\ Wrote(i, [processing[i] EXCEPT !.state = "planned", !.backend = b],
                           [attempt[i] EXCEPT !.state = "planned"])
      BY <1>1, <2>1, <2>3 DEF TypeInv, DbOK, Transact, db, Kept, Wrote
    <2> QED BY <2>2, <2>4 DEF RowStep
  <1> QED BY <1>2, <1>3, <1>4 DEF Planning

\* Submitting writes only a planned or submitting row.
LEMMA SubmittingStep ==
    ASSUME TypeInv, NEW t \in Threads, Submitting(t)
    PROVE  \A i \in Ids : RowStep(i)
  <1> DEFINE id == job[t].id
  <1>1. id \in Ids
    BY DEF Submitting, FailUnconfigured, ClaimAttempt, ExpireAfterClaim,
           SendSubmission, RejectSubmission, FailRejected, SubmissionAnswered,
           SubmissionUnknown, RecordUnknown, RecordSubmitted, RecordUnrecorded,
           TypeInv, ThreadOK, JobOK, Working, Labels
  <1>2. CASE FailUnconfigured(t) \/ FailRejected(t)
    BY <1>1, <1>2, FailProcessingStep
       DEF FailUnconfigured, FailRejected, FailCase, TypeInv, Category
  <1>3. CASE ExpireAfterClaim(t) \/ RecordUnknown(t)
    BY <1>1, <1>3, MarkRecoveryRequiredStep
       DEF ExpireAfterClaim, RecordUnknown, TypeInv, RecoveryCategory
  <1>4. CASE ClaimAttempt(t)
    <2>1. \A i \in Ids :
            \/ Kept(i)
            \/ /\ processing[i].state = "planned" /\ attempt[i].state = "planned"
               /\ Wrote(i, [processing[i] EXCEPT !.state = "submitting"],
                           [attempt[i] EXCEPT !.state = "submitting"])
      BY <1>1, <1>4 DEF ClaimAttempt, ClaimAttemptForSubmission, TypeInv, DbOK, Transact, db, Kept, Wrote
    <2> QED BY <2>1 DEF RowStep
  <1>5. CASE SendSubmission(t) \/ RejectSubmission(t) \/ SubmissionUnknown(t)
    BY <1>5, KeptStep DEF SendSubmission, RejectSubmission, SubmissionUnknown
  <1>6. ASSUME NEW m \in wire, SubmissionAnswered(t, m)
        PROVE  \A i \in Ids : RowStep(i)
    BY <1>6, KeptStep DEF SubmissionAnswered
  <1>7. CASE RecordSubmitted(t)
    <2>1. pc[t] = "record"
      BY <1>7 DEF RecordSubmitted
    <2>2. \A i \in Ids :
            \/ Kept(i)
            \/ /\ i = id
               /\ processing[i].state = "submitting" /\ attempt[i].state = "submitting"
               /\ Wrote(i, [processing[i] EXCEPT !.state = "submitted"],
                           [attempt[i] EXCEPT !.state = "submitted", !.ext = job[t].ext])
      <3>1. PICK r \in Outcomes :
              Transact(id, r, attempt[id].state = "submitting",
                       processing[id].state = "submitting",
                       [processing[id] EXCEPT !.state = "submitted"],
                       [attempt[id] EXCEPT !.state = "submitted", !.ext = job[t].ext])
        BY <1>7 DEF RecordSubmitted, MarkAttemptSubmitted
      <3> QED BY <1>1, <3>1 DEF TypeInv, DbOK, Transact, db, Kept, Wrote
    <2> QED BY <2>1, <2>2 DEF RowStep
  <1>8. CASE RecordUnrecorded(t)
    <2>1. \A i \in Ids :
            \/ Kept(i)
            \/ /\ processing[i].state = "submitting" /\ attempt[i].state = "submitting"
               /\ Wrote(i, [processing[i] EXCEPT !.state = "recovery_required",
                                                 !.error = "backend_submission_unknown"],
                           [attempt[i] EXCEPT !.state = "recovery_required"])
      BY <1>1, <1>8 DEF RecordUnrecorded, TypeInv, DbOK, Transact, db, Kept, Wrote
    <2> QED BY <2>1 DEF RowStep, RecoveryCategory
  <1> QED BY <1>2, <1>3, <1>4, <1>5, <1>6, <1>7, <1>8 DEF Submitting

\* Polling writes only a submitted row.
LEMMA PollingStep ==
    ASSUME TypeInv, NEW t \in Threads, Polling(t)
    PROVE  \A i \in Ids : RowStep(i)
  <1> DEFINE id == job[t].id
  <1>1. id \in Ids
    BY DEF Polling, RecoverUnpollable, PollOperation, RecordPoll, FailExecution,
           CollectResult, RecordUnsafe, CompleteProcessing, Reread,
           TypeInv, ThreadOK, JobOK, Working, Labels
  <1>2. CASE RecoverUnpollable(t) \/ RecordUnsafe(t)
    BY <1>1, <1>2, MarkRecoveryRequiredStep
       DEF RecoverUnpollable, RecordUnsafe, TypeInv, RecoveryCategory
  <1>3. CASE FailExecution(t)
    BY <1>1, <1>3, FailProcessingStep DEF FailExecution, FailCase, TypeInv, Category
  <1>4. CASE PollOperation(t) \/ CollectResult(t) \/ Reread(t)
    BY <1>4, KeptStep DEF PollOperation, CollectResult, Reread
  <1>5. CASE RecordPoll(t)
    <2> DEFINE c == IF job[t].seen = "timeout" THEN "backend_timeout" ELSE "none"
    <2>1. \A i \in Ids :
            \/ Kept(i)
            \/ /\ processing[i].state = "submitted" /\ attempt[i].state = "submitted"
               /\ Wrote(i, [processing[i] EXCEPT !.error = c], attempt[i])
      BY <1>1, <1>5 DEF RecordPoll, RecordObservation, TypeInv, DbOK, Transact, db, Kept, Wrote
    <2> QED BY <2>1 DEF RowStep
  <1>6. CASE CompleteProcessing(t)
    <2>1. pc[t] = "complete"
      BY <1>6 DEF CompleteProcessing
    <2>2. \A i \in Ids :
            \/ Kept(i)
            \/ /\ i = id
               /\ processing[i].state = "submitted" /\ attempt[i].state = "submitted"
               /\ Wrote(i, [processing[i] EXCEPT !.state = "completed", !.error = "none",
                                                 !.result = job[t].ext],
                           [attempt[i] EXCEPT !.state = "completed"])
      <3>1. PICK r \in Outcomes :
              Transact(id, r, attempt[id].state = "submitted",
                       processing[id].state = "submitted",
                       [processing[id] EXCEPT !.state = "completed", !.error = "none",
                                              !.result = job[t].ext],
                       [attempt[id] EXCEPT !.state = "completed"])
        BY <1>6 DEF CompleteProcessing, StoreCompletion
      <3> QED BY <1>1, <3>1 DEF TypeInv, DbOK, Transact, db, Kept, Wrote
    <2> QED BY <2>1, <2>2 DEF RowStep
  <1> QED BY <1>2, <1>3, <1>4, <1>5, <1>6 DEF Polling

\* Every step of the processor moves every row by at most one of the guarded
\* repository writes.
LEMMA NextRowStep ==
    ASSUME TypeInv, [Next]_vars
    PROVE  \A i \in Ids : RowStep(i)
  <1>1. CASE UNCHANGED vars
    BY <1>1, KeptStep DEF vars, db
  <1>2. ASSUME NEW t \in Threads, Reconciling(t)
        PROVE  \A i \in Ids : RowStep(i)
    <2>1. CASE RecoverStale(t)
      <3>1. job[t].id \in Ids
        BY <2>1 DEF RecoverStale, TypeInv, ThreadOK, JobOK, Working, Labels
      <3> QED BY <2>1, <3>1, MarkRecoveryRequiredStep DEF RecoverStale, TypeInv, RecoveryCategory
    <2>2. CASE ~RecoverStale(t)
      BY <1>2, <2>2, KeptStep DEF Reconciling, StartPass, EndPass, ExpireRow, TakeRow
    <2> QED BY <2>1, <2>2
  <1>3. CASE Environment
    BY <1>3, KeptStep DEF Environment, ServeSubmission, EndOperation, GrowStale, Restart
  <1> QED BY <1>1, <1>2, <1>3, AcceptingStep, PlanningStep, SubmittingStep, PollingStep
          DEF Next

-----------------------------------------------------------------------------
(* The invariant of the two tables. *)

\* A plan is written once and with its attempt, an operation id once and not
\* before the claim; only severe alerts have attempts.
RowShape(i) ==
    /\ processing[i].state \in {"none", "accepted"} => processing[i].backend = None
    /\ attempt[i].state \in {"none", "planned", "submitting"} => attempt[i].ext = None
    /\ attempt[i].state # "none" => processing[i].alert \in Severe

RowsInv == RowsAgree /\ \A i \in Ids : RowShape(i)

\* The tables are empty at the start.
LEMMA InitRows == Init => RowsInv
  BY DEF Init, RowsInv, RowsAgree, RowShape, NoRow, NoAttempt

\* Every guarded write keeps the tables in agreement.
LEMMA NextRows == TypeInv /\ RowsInv /\ [Next]_vars => RowsInv'
  <1> SUFFICES ASSUME TypeInv, RowsInv, [Next]_vars,
                      NEW i \in Ids
               PROVE  /\ RowShape(i)'
                      /\ LET p == processing'[i].state
                             a == attempt'[i].state
                         IN /\ p \in {"none", "accepted"} => a = "none"
                            /\ p \in {"planned", "submitting", "submitted",
                                      "recovery_required"} => a = p
                            /\ p = "completed" =>
                                 a = IF processing'[i].alert \in Severe
                                     THEN "completed" ELSE "none"
                            /\ p = "failed" => a \in {"none", "failed"}
    BY DEF RowsInv, RowsAgree
  <1>1. RowStep(i)
    BY NextRowStep
  <1>2. processing[i] \in Rows /\ attempt[i] \in Attempts
    BY DEF TypeInv, DbOK
  <1>3. RowShape(i)
    BY DEF RowsInv
  <1> DEFINE p == processing[i].state
             a == attempt[i].state
  <1>4. /\ p \in {"none", "accepted"} => a = "none"
        /\ p \in {"planned", "submitting", "submitted", "recovery_required"} => a = p
        /\ p = "completed" =>
             a = IF processing[i].alert \in Severe THEN "completed" ELSE "none"
        /\ p = "failed" => a \in {"none", "failed"}
    BY DEF RowsInv, RowsAgree
  <1>5. CASE Kept(i)
    BY <1>3, <1>4, <1>5 DEF RowShape, Kept
  <1>6. CASE ~Kept(i)
    <2>1. RowShape(i)'
      BY <1>1, <1>2, <1>3, <1>4, <1>6
         DEF RowShape, RowStep, FailCase, Wrote, AcceptedRow, NoRow, Rows, Attempts
    <2>2. processing'[i].state \in {"none", "accepted"} => attempt'[i].state = "none"
      BY <1>1, <1>2, <1>4, <1>6
         DEF RowStep, FailCase, Wrote, AcceptedRow, NoRow, Rows, Attempts
    <2>3. processing'[i].state \in {"planned", "submitting", "submitted", "recovery_required"}
            => attempt'[i].state = processing'[i].state
      BY <1>1, <1>2, <1>4, <1>6
         DEF RowStep, FailCase, Wrote, AcceptedRow, NoRow, Rows, Attempts
    <2>4. processing'[i].state = "completed" =>
            attempt'[i].state = IF processing'[i].alert \in Severe THEN "completed" ELSE "none"
      BY <1>1, <1>2, <1>3, <1>4, <1>6
         DEF RowShape, RowStep, FailCase, Wrote, AcceptedRow, NoRow, Rows, Attempts
    <2>5. processing'[i].state = "failed" => attempt'[i].state \in {"none", "failed"}
      BY <1>1, <1>2, <1>4, <1>6
         DEF RowStep, FailCase, Wrote, AcceptedRow, NoRow, Rows, Attempts
    <2> QED BY <2>1, <2>2, <2>3, <2>4, <2>5
  <1> QED BY <1>5, <1>6

\* The processing row and its execution attempt never disagree.
THEOREM RowsAlwaysAgree == Spec => []RowsAgree
  <1>1. RowsInv => RowsAgree
    BY DEF RowsInv
  <1> QED BY <1>1, InitType, NextType, InitRows, NextRows, PTL DEF Spec

\* Rows move only along the allowed transitions and never out of
\* recovery_required.
THEOREM TransitionsAlwaysAllowed == Spec => TransitionsAllowed
  <1>1. TypeInv /\ RowsInv /\ [Next]_vars =>
          [\A i \in Ids :
             processing'[i].state # processing[i].state =>
                \/ processing[i].state = "none" /\ processing'[i].state = "accepted"
                \/ /\ processing[i].state # "recovery_required"
                   /\ <<processing[i].state, processing'[i].state>> \in AllowedTransitions
          ]_vars
    <2> SUFFICES ASSUME TypeInv, RowsInv, [Next]_vars, NEW i \in Ids,
                        processing'[i].state # processing[i].state
                 PROVE  \/ processing[i].state = "none" /\ processing'[i].state = "accepted"
                        \/ /\ processing[i].state # "recovery_required"
                           /\ <<processing[i].state, processing'[i].state>>
                                \in AllowedTransitions
      OBVIOUS
    <2>1. RowStep(i)
      BY NextRowStep
    <2>2. processing[i] \in Rows /\ attempt[i] \in Attempts
      BY DEF TypeInv, DbOK
    <2> QED BY <2>1, <2>2
            DEF RowStep, FailCase, Kept, Wrote, AcceptedRow, NoRow, Rows, AllowedTransitions
  <1> QED BY <1>1, InitType, NextType, InitRows, NextRows, PTL DEF Spec, TransitionsAllowed

\* Terminal rows are frozen; keys, alerts, plans and operation ids are written
\* once.
THEOREM SettledFactsAlwaysFrozen == Spec => SettledFactsFrozen
  <1>1. TypeInv /\ RowsInv /\ [Next]_vars =>
          [\A i \in Ids :
             /\ processing[i].state \in Terminal =>
                  /\ processing'[i] = processing[i]
                  /\ attempt'[i] = attempt[i]
             /\ processing[i].state # "none" =>
                  /\ processing'[i].key = processing[i].key
                  /\ processing'[i].alert = processing[i].alert
             /\ processing[i].backend # None =>
                  processing'[i].backend = processing[i].backend
             /\ attempt[i].ext # None => attempt'[i].ext = attempt[i].ext
          ]_vars
    <2> SUFFICES ASSUME TypeInv, RowsInv, [Next]_vars, NEW i \in Ids
                 PROVE  /\ processing[i].state \in Terminal =>
                             /\ processing'[i] = processing[i]
                             /\ attempt'[i] = attempt[i]
                        /\ processing[i].state # "none" =>
                             /\ processing'[i].key = processing[i].key
                             /\ processing'[i].alert = processing[i].alert
                        /\ processing[i].backend # None =>
                             processing'[i].backend = processing[i].backend
                        /\ attempt[i].ext # None => attempt'[i].ext = attempt[i].ext
      OBVIOUS
    <2>1. RowStep(i) /\ RowShape(i)
      BY NextRowStep DEF RowsInv
    <2>2. processing[i] \in Rows /\ attempt[i] \in Attempts
      BY DEF TypeInv, DbOK
    <2> QED BY <2>1, <2>2
            DEF RowStep, FailCase, RowShape, Kept, Wrote, AcceptedRow, NoRow, Rows, Attempts, Terminal
  <1> QED BY <1>1, InitType, NextType, InitRows, NextRows, PTL DEF Spec, SettledFactsFrozen

-----------------------------------------------------------------------------
(* One row per scoped key, and the refinement of DurableRows: what a client  *)
(* of the API may rely on about the rows it can see.                         *)

(* A step changes at most one row. *)

OneWrite ==
    \/ UNCHANGED processing
    \/ \E i \in Ids : \E row : processing' = [processing EXCEPT ![i] = row]

\* A conditional update of both tables writes one processing row.
LEMMA FailProcessingOne ==
    ASSUME NEW t \in Threads, NEW expected, NEW category, job[t].id \in Ids,
           FailProcessing(t, expected, category)
    PROVE  OneWrite
  BY DEF FailProcessing, Transact, db, OneWrite

\* So does giving a row to an operator.
LEMMA MarkRecoveryRequiredOne ==
    ASSUME NEW t \in Threads, NEW expected, NEW category, job[t].id \in Ids,
           MarkRecoveryRequired(t, expected, category)
    PROVE  OneWrite
  BY DEF MarkRecoveryRequired, Transact, db, OneWrite

\* A thread on its way through a request or a pass writes one row.
LEMMA ThreadOne ==
    ASSUME TypeInv, NEW t \in Threads,
           Accepting(t) \/ Planning(t) \/ Submitting(t) \/ Polling(t) \/ Reconciling(t)
    PROVE  OneWrite
  <1>1. CASE Accepting(t)
    BY <1>1 DEF Accepting, ReceiveRequest, AcceptNew, AcceptExisting, db, OneWrite
  <1>2. CASE pc[t] \notin Working
    BY <1>1, <1>2 DEF Planning, FailPlanning, StoreNoAction, StorePlan,
           Submitting, FailUnconfigured, ClaimAttempt, ExpireAfterClaim,
           SendSubmission, RejectSubmission, FailRejected, SubmissionAnswered,
           SubmissionUnknown, RecordUnknown, RecordSubmitted, RecordUnrecorded,
           Polling, RecoverUnpollable, PollOperation, RecordPoll, FailExecution,
           CollectResult, RecordUnsafe, CompleteProcessing, Reread,
           Reconciling, StartPass, EndPass, ExpireRow, RecoverStale, TakeRow,
           Working, Labels, db, OneWrite
  <1>3. CASE pc[t] \in Working
    <2>1. job[t].id \in Ids
      BY <1>3 DEF TypeInv, ThreadOK, JobOK
    <2>2. CASE Planning(t)
      BY <2>1, <2>2 DEF Planning, FailPlanning, StoreNoAction, StorePlan,
             StoreNoActionResult, StorePlanAndAttempt, Transact, db, OneWrite
    <2>3. CASE Submitting(t)
      <3>1. CASE FailUnconfigured(t) \/ FailRejected(t)
        BY <2>1, <3>1, FailProcessingOne DEF FailUnconfigured, FailRejected
      <3>2. CASE ExpireAfterClaim(t) \/ RecordUnknown(t)
        BY <2>1, <3>2, MarkRecoveryRequiredOne DEF ExpireAfterClaim, RecordUnknown
      <3>3. CASE ClaimAttempt(t)
        BY <2>1, <3>3 DEF ClaimAttempt, ClaimAttemptForSubmission, Transact, db, OneWrite
      <3>4. CASE RecordSubmitted(t)
        BY <2>1, <3>4 DEF RecordSubmitted, MarkAttemptSubmitted, Transact, db, OneWrite
      <3>5. CASE RecordUnrecorded(t)
        BY <2>1, <3>5 DEF RecordUnrecorded, Transact, db, OneWrite
      <3>6. CASE \/ SendSubmission(t) \/ RejectSubmission(t) \/ SubmissionUnknown(t)
                 \/ \E m \in wire : SubmissionAnswered(t, m)
        BY <3>6 DEF SendSubmission, RejectSubmission, SubmissionUnknown,
                    SubmissionAnswered, db, OneWrite
      <3> QED BY <2>3, <3>1, <3>2, <3>3, <3>4, <3>5, <3>6 DEF Submitting
    <2>4. CASE Polling(t)
      <3>1. CASE FailExecution(t)
        BY <2>1, <3>1, FailProcessingOne DEF FailExecution
      <3>2. CASE RecoverUnpollable(t) \/ RecordUnsafe(t)
        BY <2>1, <3>2, MarkRecoveryRequiredOne DEF RecoverUnpollable, RecordUnsafe
      <3>3. CASE RecordPoll(t)
        BY <2>1, <3>3 DEF RecordPoll, RecordObservation, Transact, db, OneWrite
      <3>4. CASE CompleteProcessing(t)
        BY <2>1, <3>4 DEF CompleteProcessing, StoreCompletion, Transact, db, OneWrite
      <3>5. CASE PollOperation(t) \/ CollectResult(t) \/ Reread(t)
        BY <3>5 DEF PollOperation, CollectResult, Reread, db, OneWrite
      <3> QED BY <2>4, <3>1, <3>2, <3>3, <3>4, <3>5 DEF Polling
    <2>5. CASE Reconciling(t)
      <3>1. CASE RecoverStale(t)
        BY <2>1, <3>1, MarkRecoveryRequiredOne DEF RecoverStale
      <3>2. CASE ~RecoverStale(t)
        BY <2>5, <3>2 DEF Reconciling, StartPass, EndPass, ExpireRow, TakeRow, db, OneWrite
      <3> QED BY <3>1, <3>2
    <2> QED BY <1>1, <2>2, <2>3, <2>4, <2>5
  <1> QED BY <1>2, <1>3

\* Every step of the processor changes at most one row.
LEMMA NextOneWrite ==
    ASSUME TypeInv, [Next]_vars
    PROVE  OneWrite
  <1>1. CASE UNCHANGED vars
    BY <1>1 DEF vars, OneWrite
  <1>2. CASE Environment
    BY <1>2 DEF Environment, ServeSubmission, EndOperation, GrowStale, Restart, db, OneWrite
  <1> QED BY <1>1, <1>2, ThreadOne DEF Next

-----------------------------------------------------------------------------
(* Unique scoped keys. *)

\* No row holds a scoped key before the first acceptance.
LEMMA InitUnique == Init => ScopedKeyUnique
  BY DEF Init, ScopedKeyUnique, NoRow

\* A row appears only by an INSERT that found its scoped key free, and a row
\* that exists keeps its key and its alert.
LEMMA RowOrigin ==
    ASSUME TypeInv, [Next]_vars, NEW i \in Ids, processing'[i].state # "none"
    PROVE  \/ /\ processing[i].state # "none"
              /\ processing'[i].key = processing[i].key
              /\ processing'[i].alert = processing[i].alert
           \/ /\ processing[i].state = "none"
              /\ \E t \in Threads :
                   /\ AcceptNew(t, i)
                   /\ processing'[i] = AcceptedRow(job[t].key, job[t].alert)
  <1>1. RowStep(i)
    BY NextRowStep
  <1>2. processing[i] \in Rows
    BY DEF TypeInv, DbOK
  <1> QED BY <1>1, <1>2 DEF RowStep, Kept, Wrote, Rows, FailCase

\* Every step keeps scoped keys unique.
LEMMA NextUnique == TypeInv /\ ScopedKeyUnique /\ [Next]_vars => ScopedKeyUnique'
  <1> SUFFICES ASSUME TypeInv, ScopedKeyUnique, [Next]_vars,
                      NEW i \in Ids, NEW j \in Ids,
                      processing'[i].state # "none", processing'[j].state # "none",
                      processing'[i].key = processing'[j].key,
                      Source[processing'[i].alert] = Source[processing'[j].alert],
                      i # j
               PROVE  FALSE
    BY DEF ScopedKeyUnique
  <1>1. CASE processing[i].state # "none" /\ processing[j].state # "none"
    BY <1>1, RowOrigin DEF ScopedKeyUnique
  <1>2. ASSUME NEW x \in Ids, NEW y \in Ids, x # y, {x, y} = {i, j},
               processing[x].state = "none"
        PROVE  FALSE
    <2>1. PICK t \in Threads : /\ AcceptNew(t, x)
                               /\ processing'[x] = AcceptedRow(job[t].key, job[t].alert)
      BY <1>2, RowOrigin
    <2>2. processing'[y] = processing[y] /\ processing[y].state # "none"
      <3>1. processing'[x] # processing[x]
        BY <1>2
      <3>2. processing'[y] = processing[y]
        BY <1>2, <3>1, NextOneWrite DEF OneWrite, TypeInv, DbOK
      <3> QED BY <1>2, <3>2
    <2>3. processing'[x].key = job[t].key /\ processing'[x].alert = job[t].alert
      BY <2>1 DEF AcceptedRow, NoRow
    <2>4. Holds(y, job[t].key, job[t].alert)
      BY <1>2, <2>2, <2>3 DEF Holds
    <2> QED BY <2>1, <2>4 DEF AcceptNew
  <1> QED BY <1>1, <1>2

\* One processing per scoped idempotency key, in every behaviour.
THEOREM ScopedKeysUnique == Spec => []ScopedKeyUnique
  BY InitType, NextType, InitUnique, NextUnique, PTL DEF Spec

-----------------------------------------------------------------------------
(* The rows of the API: DurableRows. *)

\* A request that is about to be accepted has a key and an alert.
AcceptInv == \A t \in Threads : pc[t] = "accept" =>
                job[t].key \in Keys /\ job[t].alert \in Alerts

\* A row that does not exist has no columns.
EmptyInv == \A i \in Ids : processing[i].state = "none" => processing[i] = NoRow

\* Rows do not disappear.
LEMMA NextEmpty == TypeInv /\ EmptyInv /\ [Next]_vars => EmptyInv'
  <1> SUFFICES ASSUME TypeInv, EmptyInv, [Next]_vars, NEW i \in Ids,
                      processing'[i].state = "none"
               PROVE  processing'[i] = NoRow
    BY DEF EmptyInv
  <1>1. RowStep(i) /\ processing[i] \in Rows
    BY NextRowStep DEF TypeInv, DbOK
  <1>2. processing'[i] = processing[i]
    BY <1>1 DEF RowStep, Kept, Wrote, Rows, AcceptedRow, NoRow
  <1> QED BY <1>2 DEF EmptyInv

\* No thread gets to "accept" except by receiving a request.
NoneArrive == \A t \in Threads :
                 pc'[t] = "accept" => pc[t] = "accept" /\ job'[t] = job[t]

\* Going on elsewhere or finishing is no arrival.
LEMMA MoveArrival ==
    ASSUME ThreadOK, NEW t \in Threads, NEW label, label # "accept",
           NEW answer, Goto(t, label) \/ Finish(t, answer)
    PROVE  NoneArrive
  BY DEF ThreadOK, Goto, Finish, NoneArrive

\* Answering, re-reading or raising is no arrival.
LEMMA ConcludeArrival ==
    ASSUME ThreadOK, NEW t \in Threads, NEW verdict, NEW row, NEW kind,
           Conclude(t, verdict, row, kind)
    PROVE  NoneArrive
  BY MoveArrival DEF Conclude, Raise

\* fail_processing and mark_recovery_required end in one of those.
LEMMA FailArrival ==
    ASSUME ThreadOK, NEW t \in Threads, NEW expected, NEW category,
           FailProcessing(t, expected, category) \/ MarkRecoveryRequired(t, expected, category)
    PROVE  NoneArrive
  <1>1. CASE FailProcessing(t, expected, category)
    BY <1>1, ConcludeArrival DEF FailProcessing
  <1>2. CASE MarkRecoveryRequired(t, expected, category)
    BY <1>2, ConcludeArrival DEF MarkRecoveryRequired
  <1> QED BY <1>1, <1>2

\* Every step keeps the requests to be accepted complete.
LEMMA NextAccept == TypeInv /\ AcceptInv /\ [Next]_vars => AcceptInv'
  <1> SUFFICES ASSUME TypeInv, AcceptInv, [Next]_vars PROVE AcceptInv'
    OBVIOUS
  <1>0. ThreadOK
    BY DEF TypeInv
  <1>1. NoneArrive => AcceptInv'
    BY DEF NoneArrive, AcceptInv
  <1>2. ASSUME NEW t \in Threads, Accepting(t)
        PROVE  AcceptInv'
    <2>1. ASSUME NEW k \in Keys, NEW a \in Alerts, ReceiveRequest(t, k, a)
          PROVE  AcceptInv'
      <3>1. \A u \in Threads : u # t => pc'[u] = pc[u] /\ job'[u] = job[u]
        BY <2>1 DEF ReceiveRequest, TypeInv, ThreadOK
      <3>2. job'[t].key = k /\ job'[t].alert = a
        BY <2>1 DEF ReceiveRequest, TypeInv, ThreadOK, NoJob
      <3> QED BY <3>1, <3>2 DEF AcceptInv
    <2>2. ASSUME NEW id \in Ids, AcceptNew(t, id) \/ AcceptExisting(t, id)
          PROVE  NoneArrive
      <3>1. CASE \/ Raise(t, "unavailable") \/ Raise(t, "conflict")
                 \/ \E answer : Finish(t, answer)
        BY <1>0, <3>1, MoveArrival DEF Raise
      <3>2. CASE /\ pc' = [pc EXCEPT ![t] = "plan"]
                 /\ job' = [job EXCEPT ![t].id = id]
        BY <1>0, <3>2 DEF ThreadOK, NoneArrive
      <3>3. CASE AcceptNew(t, id)
        BY <3>1, <3>2, <3>3 DEF AcceptNew
      <3>4. CASE AcceptExisting(t, id)
        BY <3>1, <3>4 DEF AcceptExisting
      <3> QED BY <2>2, <3>3, <3>4
    <2> QED BY <1>1, <1>2, <2>1, <2>2 DEF Accepting
  <1>3. ASSUME NEW t \in Threads, Planning(t)
        PROVE  NoneArrive
    <2>1. CASE FailPlanning(t)
      BY <1>0, <2>1, MoveArrival DEF FailPlanning, Raise
    <2>2. CASE StoreNoAction(t)
      BY <1>0, <2>2, ConcludeArrival DEF StoreNoAction
    <2>3. CASE StorePlan(t)
      BY <1>0, <2>3, MoveArrival DEF StorePlan, Continue, Raise
    <2> QED BY <1>3, <2>1, <2>2, <2>3 DEF Planning
  <1>4. ASSUME NEW t \in Threads, Submitting(t)
        PROVE  NoneArrive
    <2>1. CASE \/ FailUnconfigured(t) \/ ExpireAfterClaim(t) \/ FailRejected(t)
               \/ RecordUnknown(t)
      BY <1>0, <2>1, FailArrival
         DEF FailUnconfigured, ExpireAfterClaim, FailRejected, RecordUnknown
    <2>2. CASE ClaimAttempt(t)
      BY <1>0, <2>2, MoveArrival DEF ClaimAttempt, Continue, Raise
    <2>3. CASE SendSubmission(t) \/ RejectSubmission(t) \/ SubmissionUnknown(t)
      BY <1>0, <2>3, MoveArrival DEF SendSubmission, RejectSubmission, SubmissionUnknown
    <2>4. ASSUME NEW m \in wire, SubmissionAnswered(t, m)
          PROVE  NoneArrive
      BY <1>0, <2>4 DEF SubmissionAnswered, ThreadOK, NoneArrive
    <2>5. CASE RecordSubmitted(t)
      BY <1>0, <2>5, MoveArrival DEF RecordSubmitted, Raise
    <2>6. CASE RecordUnrecorded(t)
      BY <1>0, <2>6, MoveArrival DEF RecordUnrecorded, Raise
    <2> QED BY <1>4, <2>1, <2>2, <2>3, <2>4, <2>5, <2>6 DEF Submitting
  <1>5. ASSUME NEW t \in Threads, Polling(t)
        PROVE  NoneArrive
    <2>1. CASE RecoverUnpollable(t) \/ FailExecution(t) \/ RecordUnsafe(t)
      BY <1>0, <2>1, FailArrival DEF RecoverUnpollable, FailExecution, RecordUnsafe
    <2>2. CASE PollOperation(t)
      <3>1. CASE Goto(t, "unsafe")
        BY <1>0, <3>1, MoveArrival
      <3>2. CASE ~Goto(t, "unsafe")
        BY <1>0, <2>2, <3>2 DEF PollOperation, ThreadOK, NoneArrive
      <3> QED BY <3>1, <3>2
    <2>3. CASE RecordPoll(t)
      BY <1>0, <2>3, MoveArrival DEF RecordPoll, Raise
    <2>4. CASE CollectResult(t) \/ Reread(t)
      BY <1>0, <2>4, MoveArrival DEF CollectResult, Reread, Raise
    <2>5. CASE CompleteProcessing(t)
      BY <1>0, <2>5, ConcludeArrival DEF CompleteProcessing
    <2> QED BY <1>5, <2>1, <2>2, <2>3, <2>4, <2>5 DEF Polling
  <1>6. ASSUME NEW t \in Threads, Reconciling(t)
        PROVE  NoneArrive
    <2>1. CASE RecoverStale(t)
      BY <1>0, <2>1, FailArrival DEF RecoverStale
    <2>2. CASE ExpireRow(t)
      BY <1>0, <2>2, MoveArrival DEF ExpireRow
    <2>3. CASE StartPass(t) \/ EndPass(t) \/ \E id \in Ids : TakeRow(t, id)
      BY <1>0, <2>3 DEF StartPass, EndPass, TakeRow, ThreadOK, NoneArrive
    <2> QED BY <1>6, <2>1, <2>2, <2>3 DEF Reconciling
  <1>7. ASSUME Environment
        PROVE  NoneArrive
    <2>1. ASSUME NEW p \in Processes, Restart(p)
          PROVE  NoneArrive
      BY <1>0, <2>1 DEF Restart, ThreadOK, NoneArrive
    <2>2. CASE UNCHANGED thread
      BY <2>2 DEF thread, NoneArrive
    <2> QED BY <1>7, <2>1, <2>2
            DEF Environment, ServeSubmission, EndOperation, GrowStale
  <1>8. ASSUME UNCHANGED vars
        PROVE  NoneArrive
    BY <1>8 DEF vars, NoneArrive
  <1> QED BY <1>1, <1>2, <1>3, <1>4, <1>5, <1>6, <1>7, <1>8 DEF Next

\* What a write of one row looks like from the API.
LEMMA PublicStep ==
    ASSUME TypeInv, NEW i \in Ids, RowStep(i), processing[i].state # "none"
    PROVE  \/ PublicRow(processing'[i]) = PublicRow(processing[i])
           \/ /\ PublicState(processing[i]) = "active"
              /\ \E s \in {"completed", "failed", "unsupported"} :
                   PublicRow(processing'[i]) = [PublicRow(processing[i]) EXCEPT !.state = s]
  <1>1. processing[i] \in Rows
    BY DEF TypeInv, DbOK
  <1>2. /\ processing'[i].key = processing[i].key
        /\ processing'[i].alert = processing[i].alert
    BY <1>1 DEF RowStep, Kept, Wrote, Rows, FailCase
  <1>3. /\ processing'[i].state # "none"
        /\ \/ processing'[i] = processing[i]
           \/ PublicState(processing[i]) = "active"
    <2>1. \/ processing'[i] = processing[i]
          \/ processing[i].state \in {"accepted", "planned", "submitting", "submitted"}
      BY DEF RowStep, Kept, FailCase
    <2>2. processing'[i].state # "none"
      BY <1>1 DEF RowStep, Kept, Wrote, Rows
    <2> QED BY <2>1, <2>2 DEF PublicState
  <1>4. PublicState(processing'[i]) \in {"active", "completed", "failed", "unsupported"}
    BY <1>3 DEF PublicState
  <1> DEFINE r == PublicRow(processing[i])
  <1>5. PublicRow(processing'[i]) = [r EXCEPT !.state = PublicState(processing'[i])]
    BY <1>2, <1>3 DEF PublicRow
  <1>6. r = [r EXCEPT !.state = PublicState(processing[i])]
    BY DEF PublicRow
  <1> QED BY <1>3, <1>4, <1>5, <1>6

\* Every step of the processor is a step of DurableRows or none.
LEMMA NextPublic ==
    TypeInv /\ AcceptInv /\ EmptyInv /\ [Next]_vars =>
        [PublicRows!Next]_([i \in Ids |-> PublicRow(processing[i])])
  <1> DEFINE public == [i \in Ids |-> PublicRow(processing[i])]
             Public(i) == public[i]
  <1> SUFFICES ASSUME TypeInv, AcceptInv, EmptyInv, [Next]_vars, public' # public
               PROVE  PublicRows!Next
    OBVIOUS
  <1>1. PICK i \in Ids : \E row : processing' = [processing EXCEPT ![i] = row]
    BY NextOneWrite DEF OneWrite
  <1>2. \A j \in Ids : j # i => processing'[j] = processing[j]
    BY <1>1 DEF TypeInv, DbOK
  <1>3. public' = [public EXCEPT ![i] = PublicRow(processing'[i])]
    BY <1>2
  <1>4. RowStep(i)
    BY NextRowStep
  <1>5. CASE processing[i].state # "none"
    <2>1. PublicRow(processing'[i]) # public[i]
      BY <1>3
    <2>2. PICK s \in {"completed", "failed", "unsupported"} :
            /\ PublicState(processing[i]) = "active"
            /\ PublicRow(processing'[i]) = [public[i] EXCEPT !.state = s]
      BY <1>4, <1>5, <2>1, PublicStep
    <2>3. public[i].state = "active"
      BY <2>2 DEF PublicRow
    <2>4. PublicRows!Close(i, s)
      BY <1>3, <2>2, <2>3 DEF PublicRows!Close, PublicRows!Closed
    <2> QED BY <2>2, <2>4 DEF PublicRows!Next, PublicRows!Closed
  <1>6. CASE processing[i].state = "none"
    <2>1. processing'[i].state # "none"
      BY <1>3, <1>4, <1>6 DEF RowStep, Kept, Wrote, FailCase, AcceptedRow, NoRow
    <2>2. PICK t \in Threads :
            AcceptNew(t, i) /\ processing'[i] = AcceptedRow(job[t].key, job[t].alert)
      BY <1>6, <2>1, RowOrigin
    <2> DEFINE k == job[t].key
               a == job[t].alert
               x == <<Source[a], k>>
    <2>3. k \in Keys /\ a \in Alerts
      BY <2>2 DEF AcceptNew, AcceptInv
    <2>4. PublicRow(processing'[i]) = [state |-> "active", identity |-> x, alert |-> a]
      BY <2>2 DEF AcceptedRow, NoRow, PublicRow, PublicState
    <2>5. \A j \in Ids : ~PublicRows!Holder(j, x)
      <3> SUFFICES ASSUME NEW j \in Ids, public[j].state # "absent", public[j].identity = x
                   PROVE  FALSE
        BY DEF PublicRows!Holder
      <3>1. processing[j].state # "none"
        BY DEF PublicRow, PublicState
      <3>2. <<Source[processing[j].alert], processing[j].key>> = x
        BY <3>1 DEF PublicRow
      <3>3. Holds(j, k, a)
        BY <3>1, <3>2 DEF Holds
      <3> QED BY <2>2, <3>3 DEF AcceptNew
    <2>6. public[i] = PublicRows!Absent
      <3>1. processing[i] = NoRow
        BY <1>6 DEF EmptyInv
      <3> QED BY <3>1 DEF NoRow, PublicRow, PublicState, PublicRows!Absent
    <2>7. PublicRows!Accept(i, x, a)
      BY <1>3, <2>4, <2>5, <2>6 DEF PublicRows!Accept
    <2> QED BY <2>3, <2>7 DEF PublicRows!Next
  <1> QED BY <1>5, <1>6

\* The processor implements the rows its clients rely on.
THEOREM RowsImplemented == Spec => ImplementsRows
  <1>1. Init => PublicRows!Init
    BY DEF Init, PublicRows!Init, PublicRows!Absent, NoRow, PublicRow, PublicState
  <1>2. Init => AcceptInv /\ EmptyInv
    BY DEF Init, AcceptInv, EmptyInv
  <1> QED BY <1>1, <1>2, InitType, NextType, NextAccept, NextEmpty, NextPublic, PTL
          DEF Spec, ImplementsRows, PublicRows!Spec

-----------------------------------------------------------------------------
(* What a client was told stays true: the argument that every answer is read *)
(* off the row it is about, and that rows only move on.                      *)

Told == {"record", "unsupported", "ambiguous"}

\* An answer r that agrees with the rows of a table.
Fits(r, table) ==
    r.kind \in Told =>
        /\ r.id \in Ids /\ r.state \in ProcessingState
        /\ table[r.id].state # "none"
        /\ table[r.id].alert = r.alert
        /\ Rank[r.state] = 4 => table[r.id].state = r.state
        /\ Rank[r.state] <= Rank[table[r.id].state]

\* A thread works on a row that exists, for the alert it was sent.
OwnRow(t) ==
    pc[t] \in Working => /\ processing[job[t].id].state # "none"
                         /\ processing[job[t].id].alert = job[t].alert

ReplyInv == \A t \in Requests : Fits(reply[t], processing) /\ OwnRow(t)

\* Nothing was told at the start.
LEMMA InitReply == Init => ReplyInv
  BY DEF Init, ReplyInv, Fits, OwnRow, NoReply, Told, Working, Threads

\* Ranks are small numbers.
LEMMA RankType == \A s \in ProcessingState : Rank[s] \in 0 .. 4
  BY DEF Rank, ProcessingState

\* A row that exists remains, keeps its alert and moves on; at the last rank it
\* stays.
LEMMA RowGrows ==
    ASSUME TypeInv, [Next]_vars, NEW i \in Ids, processing[i].state # "none"
    PROVE  /\ processing'[i].state \in ProcessingState
           /\ processing'[i].alert = processing[i].alert
           /\ Rank[processing[i].state] <= Rank[processing'[i].state]
           /\ Rank[processing[i].state] = 4 => processing'[i].state = processing[i].state
  <1>1. RowStep(i)
    BY NextRowStep
  <1>2. processing[i] \in Rows
    BY DEF TypeInv, DbOK
  <1>3. /\ processing'[i].alert = processing[i].alert
        /\ \/ processing'[i].state = processing[i].state
           \/ /\ processing[i].state = "accepted"
              /\ processing'[i].state \in {"planned", "completed", "failed"}
           \/ /\ processing[i].state = "planned"
              /\ processing'[i].state \in {"submitting", "failed"}
           \/ /\ processing[i].state = "submitting"
              /\ processing'[i].state \in {"submitted", "failed", "recovery_required"}
           \/ /\ processing[i].state = "submitted"
              /\ processing'[i].state \in {"completed", "failed", "recovery_required"}
    BY <1>1, <1>2 DEF RowStep, Kept, Wrote, FailCase, Rows
  <1>4. processing[i].state \in ProcessingState
    BY <1>2 DEF Rows
  <1> QED BY <1>3, <1>4 DEF Rank, ProcessingState

\* An answer that agreed agrees after any step.
LEMMA FitsKept ==
    ASSUME TypeInv, [Next]_vars, NEW r, Fits(r, processing)
    PROVE  Fits(r, processing')
  <1> SUFFICES ASSUME r.kind \in Told
               PROVE  Fits(r, processing')
    BY DEF Fits
  <1> DEFINE p == processing[r.id]
             q == processing'[r.id]
  <1>1. /\ r.id \in Ids /\ r.state \in ProcessingState
        /\ p.state # "none" /\ p.alert = r.alert
        /\ Rank[r.state] = 4 => p.state = r.state
        /\ Rank[r.state] <= Rank[p.state]
    BY DEF Fits
  <1>2. /\ q.state \in ProcessingState /\ q.alert = p.alert
        /\ Rank[p.state] <= Rank[q.state]
        /\ Rank[p.state] = 4 => q.state = p.state
    BY <1>1, RowGrows
  <1>3. p.state \in ProcessingState
    BY <1>1 DEF TypeInv, DbOK, Rows
  <1>4. Rank[r.state] \in 0 .. 4 /\ Rank[p.state] \in 0 .. 4 /\ Rank[q.state] \in 0 .. 4
    BY <1>1, <1>2, <1>3, RankType
  <1>5. Rank[r.state] <= Rank[q.state] /\ q.state # "none"
    BY <1>1, <1>2, <1>4 DEF ProcessingState
  <1> QED BY <1>1, <1>2, <1>5 DEF Fits

-----------------------------------------------------------------------------
(* What a step of one thread does to answers and locals. *)

\* A request thread keeps its answer or gets one that agrees, and works on the
\* row it worked on or on one of its alert.
Answers(t) ==
    /\ \A u \in Threads \ {t} :
           pc'[u] = pc[u] /\ job'[u] = job[u] /\ reply'[u] = reply[u]
    /\ t \in Requests =>
           /\ reply'[t] = reply[t] \/ Fits(reply'[t], processing')
           /\ pc'[t] \in Working =>
                \/ /\ pc[t] \in Working
                   /\ job'[t].id = job[t].id /\ job'[t].alert = job[t].alert
                \/ /\ processing'[job'[t].id].state # "none"
                   /\ processing'[job'[t].id].alert = job'[t].alert

\* Such a step keeps the invariant.
LEMMA AnswersKeep ==
    ASSUME TypeInv, ReplyInv, [Next]_vars, NEW t \in Threads, Answers(t)
    PROVE  ReplyInv'
  <1>1. ASSUME NEW u \in Requests
        PROVE  Fits(reply'[u], processing')
    <2>1. Fits(reply[u], processing')
      BY FitsKept DEF ReplyInv
    <2> QED BY <2>1 DEF Answers, Threads
  <1>2. ASSUME NEW u \in Requests, pc'[u] \in Working
        PROVE  /\ processing'[job'[u].id].state # "none"
               /\ processing'[job'[u].id].alert = job'[u].alert
    <2>1. CASE /\ pc[u] \in Working
               /\ job'[u].id = job[u].id /\ job'[u].alert = job[u].alert
      <3>1. /\ job[u].id \in Ids /\ processing[job[u].id].state # "none"
            /\ processing[job[u].id].alert = job[u].alert
        BY <2>1 DEF ReplyInv, OwnRow, TypeInv, ThreadOK, JobOK, Threads
      <3>2. /\ processing'[job[u].id].state \in ProcessingState
            /\ processing'[job[u].id].alert = processing[job[u].id].alert
        BY <3>1, RowGrows
      <3> QED BY <2>1, <3>1, <3>2 DEF ProcessingState
    <2>2. CASE ~(/\ pc[u] \in Working
                 /\ job'[u].id = job[u].id /\ job'[u].alert = job[u].alert)
      BY <1>2, <2>2 DEF Answers, Threads
    <2> QED BY <2>1, <2>2
  <1> QED BY <1>1, <1>2 DEF ReplyInv, OwnRow

\* Going on in the same job answers nothing.
LEMMA GotoAnswers ==
    ASSUME TypeInv, NEW t \in Threads, pc[t] \in Working, NEW label, Goto(t, label)
    PROVE  Answers(t)
  BY DEF TypeInv, ThreadOK, Goto, Answers

\* Finishing with an answer that agrees.
LEMMA FinishAnswers ==
    ASSUME TypeInv, NEW t \in Threads, NEW answer, Finish(t, answer),
           t \in Requests => Fits(answer, processing')
    PROVE  Answers(t)
  <1>1. \A u \in Threads \ {t} :
            pc'[u] = pc[u] /\ job'[u] = job[u] /\ reply'[u] = reply[u]
    BY DEF TypeInv, ThreadOK, Finish
  <1>2. t \in Requests => reply'[t] = answer /\ pc'[t] \notin Working
    BY DEF TypeInv, ThreadOK, Finish, Working
  <1> QED BY <1>1, <1>2 DEF Answers

\* An exception tells nothing about a row.
LEMMA RaiseAnswers ==
    ASSUME TypeInv, NEW t \in Threads, NEW kind, kind \notin Told, Raise(t, kind)
    PROVE  Answers(t)
  <1>1. ErrorReply(t, kind, "none").kind = kind
    BY DEF ErrorReply, NoReply
  <1>2. Fits(ErrorReply(t, kind, "none"), processing')
    BY <1>1 DEF Fits
  <1> QED BY <1>2, FinishAnswers DEF Raise

\* The row that is durable now is a true answer.
LEMMA DurableFits ==
    ASSUME TypeInv, ReplyInv, [Next]_vars, NEW t \in Requests, pc[t] \in Working,
           NEW b, NEW row, row = processing'[job[t].id]
    PROVE  Fits(RecordReply(t, row, b), processing')
  <1>1. /\ job[t].id \in Ids /\ processing[job[t].id].state # "none"
        /\ processing[job[t].id].alert = job[t].alert
    BY DEF ReplyInv, OwnRow, TypeInv, ThreadOK, JobOK, Threads
  <1>2. row.state \in ProcessingState /\ row.alert = job[t].alert
    BY <1>1, RowGrows
  <1>3. Rank[row.state] <= Rank[row.state] /\ row.state # "none"
    BY <1>2, RankType DEF ProcessingState
  <1> QED BY <1>1, <1>2, <1>3 DEF RecordReply, Fits

\* A winner answers the row it wrote, a loser goes to read it.
LEMMA ConcludeAnswers ==
    ASSUME TypeInv, ReplyInv, [Next]_vars, NEW t \in Threads, pc[t] \in Working,
           NEW verdict, NEW row, NEW kind, kind \notin Told,
           Conclude(t, verdict, row, kind),
           verdict = "won" => row = processing'[job[t].id]
    PROVE  Answers(t)
  <1>1. CASE Goto(t, "reread")
    BY <1>1, GotoAnswers
  <1>2. CASE Raise(t, kind) \/ Raise(t, "diverged")
    BY <1>2, RaiseAnswers DEF Told
  <1>3. CASE verdict = "won" /\ Finish(t, RecordReply(t, row, FALSE))
    BY <1>3, DurableFits, FinishAnswers
  <1> QED BY <1>1, <1>2, <1>3 DEF Conclude

\* A won transaction has written its row.
LEMMA WonWrites ==
    ASSUME TypeInv, NEW id \in Ids, NEW r \in Outcomes, NEW hit \in BOOLEAN,
           NEW agree \in BOOLEAN, NEW row, NEW att,
           Transact(id, r, hit, agree, row, att), Verdict(r, hit, agree) = "won"
    PROVE  row = processing'[id]
  BY DEF TypeInv, DbOK, Transact, Verdict, Outcomes

\* fail_processing and mark_recovery_required answer what they wrote.
LEMMA FailAnswers ==
    ASSUME TypeInv, ReplyInv, [Next]_vars, NEW t \in Threads, pc[t] \in Working,
           NEW expected, NEW category,
           FailProcessing(t, expected, category) \/ MarkRecoveryRequired(t, expected, category)
    PROVE  Answers(t)
  <1>1. job[t].id \in Ids
    BY DEF TypeInv, ThreadOK, JobOK
  <1> DEFINE id    == job[t].id
             agree == processing[id].state = expected
  <1>2. CASE FailProcessing(t, expected, category)
    <2> DEFINE hit == attempt[id].state \in ActiveAttempt
               row == [processing[id] EXCEPT !.state = "failed", !.error = category]
               att == [attempt[id] EXCEPT !.state = "failed"]
    <2>1. PICK r \in Outcomes : /\ Transact(id, r, hit, agree, row, att)
                                /\ Conclude(t, Verdict(r, hit, agree), row, "internal")
      BY <1>2 DEF FailProcessing
    <2>2. hit \in BOOLEAN /\ agree \in BOOLEAN
      OBVIOUS
    <2> HIDE DEF hit, row, att, agree
    <2> QED BY <1>1, <2>1, <2>2, WonWrites, ConcludeAnswers DEF Told
  <1>3. CASE MarkRecoveryRequired(t, expected, category)
    <2> DEFINE hit == attempt[id].state = expected
               row == [processing[id] EXCEPT !.state = "recovery_required",
                                             !.error = category]
               att == [attempt[id] EXCEPT !.state = "recovery_required"]
    <2>1. PICK r \in Outcomes : /\ Transact(id, r, hit, agree, row, att)
                                /\ Conclude(t, Verdict(r, hit, agree), row, "internal")
      BY <1>3 DEF MarkRecoveryRequired
    <2>2. hit \in BOOLEAN /\ agree \in BOOLEAN
      OBVIOUS
    <2> HIDE DEF hit, row, att, agree
    <2> QED BY <1>1, <2>1, <2>2, WonWrites, ConcludeAnswers DEF Told
  <1> QED BY <1>2, <1>3

-----------------------------------------------------------------------------
(* The actions. *)

\* A replay is answered with the row as it is; a new row is its request's own.
LEMMA AcceptingAnswers ==
    ASSUME TypeInv, ReplyInv, [Next]_vars, NEW t \in Threads, Accepting(t)
    PROVE  Answers(t)
  <1>1. ASSUME NEW k \in Keys, NEW a \in Alerts, ReceiveRequest(t, k, a)
        PROVE  Answers(t)
    <2>1. /\ \A u \in Threads \ {t} :
                 pc'[u] = pc[u] /\ job'[u] = job[u] /\ reply'[u] = reply[u]
          /\ pc'[t] = "accept" /\ reply'[t] = NoReply
      BY <1>1 DEF ReceiveRequest, TypeInv, ThreadOK
    <2>2. Fits(reply'[t], processing')
      BY <2>1 DEF Fits, NoReply, Told
    <2> QED BY <2>1, <2>2 DEF Answers, Working
  <1>2. ASSUME NEW id \in Ids, AcceptNew(t, id)
        PROVE  Answers(t)
    <2>1. CASE Raise(t, "unavailable")
      BY <2>1, RaiseAnswers DEF Told
    <2>2. CASE /\ pc' = [pc EXCEPT ![t] = "plan"]
               /\ job' = [job EXCEPT ![t].id = id]
               /\ UNCHANGED <<todo, reply>>
               /\ processing' = [processing EXCEPT ![id] =
                                   AcceptedRow(job[t].key, job[t].alert)]
      <3>1. /\ processing'[id].state = "accepted"
            /\ processing'[id].alert = job[t].alert
        BY <2>2 DEF TypeInv, DbOK, AcceptedRow, NoRow
      <3>2. job'[t].id = id /\ job'[t].alert = job[t].alert
        BY <2>2 DEF TypeInv, ThreadOK, Jobs
      <3> QED BY <2>2, <3>1, <3>2 DEF Answers, TypeInv, ThreadOK
    <2> QED BY <1>2, <2>1, <2>2 DEF AcceptNew
  <1>3. ASSUME NEW id \in Ids, AcceptExisting(t, id)
        PROVE  Answers(t)
    <2>1. CASE Raise(t, "unavailable") \/ Raise(t, "conflict")
      BY <2>1, RaiseAnswers DEF Told
    <2>2. CASE /\ processing[id].alert = job[t].alert
               /\ Finish(t, [RecordReply(t, processing[id], TRUE) EXCEPT !.id = id])
      <3> DEFINE answer == [RecordReply(t, processing[id], TRUE) EXCEPT !.id = id]
      <3>1. /\ answer.id = id /\ answer.alert = processing[id].alert
            /\ answer.state = processing[id].state
        BY <2>2 DEF RecordReply
      <3>2. processing' = processing /\ processing[id].state # "none"
        BY <1>3 DEF AcceptExisting, Holds, db
      <3>3. processing[id].state \in ProcessingState
        BY <3>2 DEF TypeInv, DbOK, Rows
      <3> HIDE DEF answer
      <3>4. Fits(answer, processing')
        BY <3>1, <3>2, <3>3, RankType DEF Fits
      <3>5. Finish(t, answer)
        BY <2>2 DEF answer
      <3> QED BY <3>4, <3>5, FinishAnswers
    <2> QED BY <1>3, <2>1, <2>2 DEF AcceptExisting
  <1> QED BY <1>1, <1>2, <1>3 DEF Accepting

\* A planning failure is told as far as it is known: "failed" by the thread that
\* failed the row, and no more than "accepted" by one that found it moved.
LEMMA FailPlanningAnswers ==
    ASSUME TypeInv, ReplyInv, [Next]_vars, NEW t \in Threads, FailPlanning(t)
    PROVE  Answers(t)
  <1> DEFINE id  == job[t].id
             hit == processing[id].state = "accepted"
  <1>1. pc[t] \in Working /\ id \in Ids
    BY DEF FailPlanning, Working, Labels, TypeInv, ThreadOK, JobOK
  <1>2. PICK e \in {"unsupported", "ambiguous", "internal"}, r \in Outcomes,
             category \in {"unsupported_capability", "backend_selection_error"} :
            /\ Transact(id, r, hit, TRUE, [processing[id] EXCEPT !.state = "failed",
                                                                 !.error = category],
                        attempt[id])
            /\ \/ Raise(t, "unavailable")
               \/ Goto(t, "reread")
               \/ r = "ok" /\ (e # "internal" \/ hit)
                  /\ Finish(t, ErrorReply(t, e, IF e = "internal" THEN "none"
                                                ELSE IF hit THEN "failed" ELSE "accepted"))
    BY DEF FailPlanning
  <1>3. CASE Raise(t, "unavailable")
    BY <1>3, RaiseAnswers DEF Told
  <1>4. CASE Goto(t, "reread")
    BY <1>1, <1>4, GotoAnswers
  <1>5. CASE r = "ok" /\ e = "internal" /\ Raise(t, "internal")
    BY <1>5, RaiseAnswers DEF Told
  <1>6. CASE /\ r = "ok" /\ e # "internal"
             /\ Finish(t, ErrorReply(t, e, IF hit THEN "failed" ELSE "accepted"))
    <2> DEFINE state  == IF hit THEN "failed" ELSE "accepted"
               answer == ErrorReply(t, e, state)
    <2>1. /\ answer.id = id /\ answer.alert = job[t].alert /\ answer.state = state
      BY DEF ErrorReply, NoReply
    <2>2. t \in Requests => /\ processing'[id].state \in ProcessingState
                            /\ processing'[id].alert = job[t].alert
      BY <1>1, RowGrows DEF ReplyInv, OwnRow
    <2>3. hit => processing'[id].state = "failed"
      <3>1. processing[id] \in Rows /\ processing \in [Ids -> Rows]
        BY <1>1 DEF TypeInv, DbOK
      <3>2. hit => processing' = [processing EXCEPT
                          ![id] = [processing[id] EXCEPT !.state = "failed",
                                                         !.error = category]]
        BY <1>2, <1>6 DEF Transact
      <3>3. [processing[id] EXCEPT !.state = "failed", !.error = category].state = "failed"
        BY <3>1 DEF Rows
      <3> HIDE DEF id, hit
      <3> QED BY <1>1, <3>1, <3>2, <3>3
    <2>4. Rank["accepted"] = 0 /\ "accepted" \in ProcessingState /\ "failed" \in ProcessingState
      BY DEF Rank, ProcessingState
    <2>5. t \in Requests => /\ Rank[state] <= Rank[processing'[id].state]
                            /\ Rank[state] = 4 => processing'[id].state = state
      <3>1. CASE hit
        BY <2>3, <2>4, <3>1, RankType
      <3>2. CASE ~hit
        BY <2>2, <2>4, <3>2, RankType
      <3> QED BY <3>1, <3>2
    <2>6. state \in ProcessingState /\ "none" \notin ProcessingState
      BY <2>4 DEF ProcessingState
    <2>7. Finish(t, answer)
      BY <1>6
    <2> HIDE DEF answer, state
    <2>8. t \in Requests => Fits(answer, processing')
      BY <1>1, <2>1, <2>2, <2>5, <2>6 DEF Fits
    <2> QED BY <2>7, <2>8, FinishAnswers
  <1> QED BY <1>2, <1>3, <1>4, <1>5, <1>6 DEF Raise

\* Planning.
LEMMA PlanningAnswers ==
    ASSUME TypeInv, ReplyInv, [Next]_vars, NEW t \in Threads, Planning(t)
    PROVE  Answers(t)
  <1>1. pc[t] = "plan" /\ pc[t] \in Working /\ job[t].id \in Ids
    BY DEF Planning, FailPlanning, StoreNoAction, StorePlan, Working, Labels,
           TypeInv, ThreadOK, JobOK
  <1>2. CASE StoreNoAction(t)
    <2> DEFINE id  == job[t].id
               hit == processing[id].state = "accepted"
               row == [processing[id] EXCEPT !.state = "completed"]
    <2>1. PICK r \in Outcomes : /\ Transact(id, r, hit, TRUE, row, attempt[id])
                                /\ Conclude(t, Verdict(r, hit, TRUE), row, "unavailable")
      BY <1>2 DEF StoreNoAction, StoreNoActionResult
    <2>2. hit \in BOOLEAN
      OBVIOUS
    <2> HIDE DEF hit, row
    <2> QED BY <1>1, <2>1, <2>2, WonWrites, ConcludeAnswers DEF Told
  <1>3. CASE StorePlan(t)
    BY <1>1, <1>3, GotoAnswers, RaiseAnswers DEF StorePlan, Continue, Told
  <1> QED BY <1>2, <1>3, FailPlanningAnswers DEF Planning

\* Submitting.
LEMMA SubmittingAnswers ==
    ASSUME TypeInv, ReplyInv, [Next]_vars, NEW t \in Threads, Submitting(t)
    PROVE  Answers(t)
  <1>1. pc[t] \in Working
    BY DEF Submitting, FailUnconfigured, ClaimAttempt, ExpireAfterClaim, SendSubmission,
           RejectSubmission, FailRejected, SubmissionAnswered, SubmissionUnknown,
           RecordUnknown, RecordSubmitted, RecordUnrecorded, Working, Labels
  <1>2. CASE FailUnconfigured(t) \/ ExpireAfterClaim(t) \/ FailRejected(t) \/ RecordUnknown(t)
    BY <1>1, <1>2, FailAnswers
       DEF FailUnconfigured, ExpireAfterClaim, FailRejected, RecordUnknown
  <1>3. CASE ClaimAttempt(t)
    BY <1>1, <1>3, GotoAnswers, RaiseAnswers DEF ClaimAttempt, Continue, Told
  <1>4. CASE SendSubmission(t) \/ RejectSubmission(t) \/ SubmissionUnknown(t)
    BY <1>1, <1>4, GotoAnswers DEF SendSubmission, RejectSubmission, SubmissionUnknown
  <1>5. ASSUME NEW m \in wire, SubmissionAnswered(t, m)
        PROVE  Answers(t)
    BY <1>1, <1>5 DEF SubmissionAnswered, TypeInv, ThreadOK, Jobs, Answers
  <1>6. CASE RecordSubmitted(t)
    BY <1>1, <1>6, GotoAnswers, RaiseAnswers DEF RecordSubmitted, Told
  <1>7. CASE RecordUnrecorded(t)
    BY <1>7, RaiseAnswers DEF RecordUnrecorded, Told
  <1> QED BY <1>2, <1>3, <1>4, <1>5, <1>6, <1>7 DEF Submitting

\* Polling, completing and re-reading.
LEMMA PollingAnswers ==
    ASSUME TypeInv, ReplyInv, [Next]_vars, NEW t \in Threads, Polling(t)
    PROVE  Answers(t)
  <1>1. pc[t] \in Working /\ job[t].id \in Ids
    BY DEF Polling, RecoverUnpollable, PollOperation, RecordPoll, FailExecution,
           CollectResult, RecordUnsafe, CompleteProcessing, Reread, Working, Labels,
           TypeInv, ThreadOK, JobOK
  <1>2. CASE RecoverUnpollable(t) \/ FailExecution(t) \/ RecordUnsafe(t)
    BY <1>1, <1>2, FailAnswers DEF RecoverUnpollable, FailExecution, RecordUnsafe
  <1>3. CASE PollOperation(t)
    <2>1. CASE Goto(t, "unsafe")
      BY <1>1, <2>1, GotoAnswers
    <2>2. CASE ~Goto(t, "unsafe")
      BY <1>1, <1>3, <2>2 DEF PollOperation, TypeInv, ThreadOK, Jobs, Answers
    <2> QED BY <2>1, <2>2
  <1>4. CASE RecordPoll(t)
    BY <1>1, <1>4, GotoAnswers, RaiseAnswers DEF RecordPoll, Told
  <1>5. CASE CollectResult(t)
    BY <1>1, <1>5, GotoAnswers DEF CollectResult
  <1>6. CASE CompleteProcessing(t)
    <2> DEFINE id    == job[t].id
               hit   == attempt[id].state = "submitted"
               agree == processing[id].state = "submitted"
               row   == [processing[id] EXCEPT !.state = "completed", !.error = "none",
                                               !.result = job[t].ext]
               att   == [attempt[id] EXCEPT !.state = "completed"]
    <2>1. PICK r \in Outcomes : /\ Transact(id, r, hit, agree, row, att)
                                /\ Conclude(t, Verdict(r, hit, agree), row, "internal")
      BY <1>6 DEF CompleteProcessing, StoreCompletion
    <2>2. hit \in BOOLEAN /\ agree \in BOOLEAN
      OBVIOUS
    <2> HIDE DEF hit, agree, row, att
    <2> QED BY <1>1, <2>1, <2>2, WonWrites, ConcludeAnswers DEF Told
  <1>7. CASE Reread(t)
    <2>1. CASE Raise(t, "internal")
      BY <2>1, RaiseAnswers DEF Told
    <2>2. CASE Finish(t, RecordReply(t, processing[job[t].id], FALSE))
      <3>1. processing' = processing
        BY <1>7 DEF Reread, db
      <3>2. t \in Requests =>
                Fits(RecordReply(t, processing[job[t].id], FALSE), processing')
        BY <1>1, <3>1, DurableFits
      <3> QED BY <2>2, <3>2, FinishAnswers
    <2> QED BY <1>7, <2>1, <2>2 DEF Reread
  <1> QED BY <1>2, <1>3, <1>4, <1>5, <1>6, <1>7 DEF Polling

\* A pass answers nobody.
LEMMA ReconcilingAnswers ==
    ASSUME TypeInv, ReplyInv, [Next]_vars, NEW t \in Threads, Reconciling(t)
    PROVE  Answers(t)
  <1>1. CASE RecoverStale(t)
    BY <1>1, FailAnswers DEF RecoverStale, Working, Labels
  <1>2. CASE ~RecoverStale(t)
    <2>1. t \notin Requests
      BY <1>2, ThreadsAssumption DEF Reconciling, StartPass, EndPass, ExpireRow, TakeRow
    <2>2. \A u \in Threads \ {t} :
              pc'[u] = pc[u] /\ job'[u] = job[u] /\ reply'[u] = reply[u]
      BY <1>2, <2>1 DEF Reconciling, StartPass, EndPass, ExpireRow, TakeRow, Finish,
                        TypeInv, ThreadOK
    <2> QED BY <2>1, <2>2 DEF Answers
  <1> QED BY <1>1, <1>2

\* Answers already given outlive a restart; the threads it ends work on nothing.
LEMMA EnvironmentReplies ==
    ASSUME TypeInv, ReplyInv, [Next]_vars, Environment
    PROVE  ReplyInv'
  <1>1. UNCHANGED <<processing, reply>>
    BY DEF Environment, ServeSubmission, EndOperation, GrowStale, Restart, db, thread
  <1>2. \A t \in Threads : pc'[t] \in Working => pc'[t] = pc[t] /\ job'[t] = job[t]
    BY DEF Environment, ServeSubmission, EndOperation, GrowStale, Restart, thread, Working
  <1> QED BY <1>1, <1>2 DEF ReplyInv, OwnRow, Threads

\* Every step keeps answers true.
LEMMA NextReply == TypeInv /\ ReplyInv /\ [Next]_vars => ReplyInv'
  <1> SUFFICES ASSUME TypeInv, ReplyInv, [Next]_vars
               PROVE  ReplyInv'
    OBVIOUS
  <1>1. CASE UNCHANGED vars
    BY <1>1 DEF vars, ReplyInv, OwnRow
  <1>2. ASSUME NEW t \in Threads,
               Accepting(t) \/ Planning(t) \/ Submitting(t) \/ Polling(t) \/ Reconciling(t)
        PROVE  ReplyInv'
    BY <1>2, AcceptingAnswers, PlanningAnswers, SubmittingAnswers, PollingAnswers,
       ReconcilingAnswers, AnswersKeep
  <1> QED BY <1>1, <1>2, EnvironmentReplies DEF Next

\* A client that was told of a row, by process() or by the errors that carry its
\* state, was told what is durable: the answer is about its own alert, a final
\* state is still the row's, and an intermediate one was not ahead of it.
THEOREM RepliesAlwaysDurable == Spec => []RepliesDurable
  <1>1. ReplyInv => RepliesDurable
    BY DEF ReplyInv, Fits, Told, RepliesDurable
  <1> QED BY <1>1, InitType, NextType, InitReply, NextReply, PTL DEF Spec

-----------------------------------------------------------------------------
(* At most one backend operation per processing, and what its presence and  *)
(* its end say about the row: the argument about who holds the right to     *)
(* submit.                                                                  *)

\* Labels a thread may go to without any condition that matters here.
Plain == {"reread", "claim", "awaiting", "unknown", "poll", "unsafe"}

Unmoved(u) == pc'[u] = pc[u] /\ job'[u] = job[u]

\* A thread between two jobs, or at the start of one.
Fresh == {"idle", "accept", "next", "plan", "claim", "stale", "poll"}

\* What one step may do to one thread's control state and locals.
ThreadStep(u) ==
    \/ Unmoved(u)
    \/ pc'[u] \in Fresh /\ job'[u].ext = None
    \/ /\ pc[u] \in {"idle", "accept", "next"} /\ pc'[u] \in {"idle", "next", "plan"}
       /\ job'[u].ext = job[u].ext
    \/ /\ pc'[u] = "poll"
       /\ \E i \in Ids : job'[u].id = i /\ job'[u].ext = attempt[i].ext
    \/ /\ pc[u] = "awaiting" /\ pc'[u] = "record" /\ job'[u].id = job[u].id
       /\ \E m \in wire : m.op # None /\ m.op = job'[u].ext /\ m.id = job'[u].id
    \/ /\ pc[u] = "poll" /\ job[u].ext # None /\ pc'[u] = "observed"
       /\ job'[u].ext = job[u].ext /\ job'[u].id = job[u].id
       /\ job'[u].seen \in {operation[job[u].ext].state, "timeout"}
    \/ /\ job'[u] = job[u]
       /\ \/ pc'[u] \in Plain
          \/ /\ pc[u] = "claim" /\ pc'[u] = "claimed" /\ job[u].id \in Ids
             /\ processing[job[u].id].state = "planned"
             /\ attempt[job[u].id].state = "planned"
             /\ processing'[job[u].id].state = "submitting"
             /\ UNCHANGED remote
             /\ \A v \in Threads : v # u => Unmoved(v)
          \/ pc[u] = "claimed" /\ pc'[u] = "reject"
          \/ pc[u] = "record" /\ pc'[u] = "unrecorded"
          \/ pc[u] = "observed" /\ job[u].seen = "failed" /\ pc'[u] = "fail"
          \/ pc[u] = "observed" /\ job[u].seen = "finished" /\ pc'[u] = "collect"
          \/ pc[u] = "collect" /\ pc'[u] = "complete"

\* Goto to an unconditional label is a thread step.
LEMMA GotoStep ==
    ASSUME TypeInv, NEW t \in Threads, NEW label \in Plain, Goto(t, label)
    PROVE  \A u \in Threads : ThreadStep(u)
  BY DEF TypeInv, ThreadOK, Goto, ThreadStep, Unmoved

\* Finishing a job is a thread step.
LEMMA FinishStep ==
    ASSUME TypeInv, NEW t \in Threads, NEW answer, Finish(t, answer)
    PROVE  \A u \in Threads : ThreadStep(u)
  BY DEF TypeInv, ThreadOK, Finish, ThreadStep, Unmoved, Fresh, NoJob

\* Raising an exception is a thread step.
LEMMA RaiseStep ==
    ASSUME TypeInv, NEW t \in Threads, NEW kind, Raise(t, kind)
    PROVE  \A u \in Threads : ThreadStep(u)
  BY FinishStep DEF Raise

\* Answering, re-reading or raising is a thread step.
LEMMA ConcludeStep ==
    ASSUME TypeInv, NEW t \in Threads, NEW verdict, NEW row, NEW kind,
           Conclude(t, verdict, row, kind)
    PROVE  \A u \in Threads : ThreadStep(u)
  BY GotoStep, FinishStep, RaiseStep DEF Conclude, Plain

\* fail_processing moves the thread by a thread step.
LEMMA FailProcessingThread ==
    ASSUME TypeInv, NEW t \in Threads, NEW expected, NEW category,
           FailProcessing(t, expected, category)
    PROVE  \A u \in Threads : ThreadStep(u)
  BY ConcludeStep DEF FailProcessing

\* mark_recovery_required moves the thread by a thread step.
LEMMA MarkRecoveryRequiredThread ==
    ASSUME TypeInv, NEW t \in Threads, NEW expected, NEW category,
           MarkRecoveryRequired(t, expected, category)
    PROVE  \A u \in Threads : ThreadStep(u)
  BY ConcludeStep DEF MarkRecoveryRequired

\* Accepting moves threads by thread steps.
LEMMA AcceptingThread ==
    ASSUME TypeInv, NEW t \in Threads, Accepting(t)
    PROVE  \A u \in Threads : ThreadStep(u)
  <1>1. ASSUME NEW k \in Keys, NEW a \in Alerts, ReceiveRequest(t, k, a)
        PROVE  \A u \in Threads : ThreadStep(u)
    BY <1>1 DEF ReceiveRequest, TypeInv, ThreadOK, ThreadStep, Unmoved, Fresh, NoJob
  <1>2. ASSUME NEW id \in Ids, AcceptNew(t, id)
        PROVE  \A u \in Threads : ThreadStep(u)
    <2>1. CASE Raise(t, "unavailable")
      BY <2>1, RaiseStep
    <2>2. CASE /\ pc' = [pc EXCEPT ![t] = "plan"]
               /\ job' = [job EXCEPT ![t].id = id]
      BY <1>2, <2>2 DEF AcceptNew, TypeInv, ThreadOK, ThreadStep, Unmoved, Jobs
    <2> QED BY <1>2, <2>1, <2>2 DEF AcceptNew
  <1>3. ASSUME NEW id \in Ids, AcceptExisting(t, id)
        PROVE  \A u \in Threads : ThreadStep(u)
    BY <1>3, FinishStep, RaiseStep DEF AcceptExisting
  <1> QED BY <1>1, <1>2, <1>3 DEF Accepting

\* Planning moves threads by thread steps.
LEMMA PlanningThread ==
    ASSUME TypeInv, NEW t \in Threads, Planning(t)
    PROVE  \A u \in Threads : ThreadStep(u)
  <1>1. CASE FailPlanning(t)
    BY <1>1, RaiseStep, GotoStep, FinishStep DEF FailPlanning, Plain
  <1>2. CASE StoreNoAction(t)
    BY <1>2, ConcludeStep DEF StoreNoAction
  <1>3. CASE StorePlan(t)
    BY <1>3, GotoStep, RaiseStep DEF StorePlan, Continue, Plain
  <1> QED BY <1>1, <1>2, <1>3 DEF Planning

\* Submitting moves threads by thread steps; only a won claim makes a holder.
LEMMA SubmittingThread ==
    ASSUME TypeInv, NEW t \in Threads, Submitting(t)
    PROVE  \A u \in Threads : ThreadStep(u)
  <1> DEFINE id == job[t].id
  <1>1. CASE FailUnconfigured(t) \/ FailRejected(t)
    BY <1>1, FailProcessingThread DEF FailUnconfigured, FailRejected
  <1>2. CASE ExpireAfterClaim(t) \/ RecordUnknown(t)
    BY <1>2, MarkRecoveryRequiredThread DEF ExpireAfterClaim, RecordUnknown
  <1>3. CASE ClaimAttempt(t)
    <2>1. id \in Ids
      BY <1>3 DEF ClaimAttempt, TypeInv, ThreadOK, JobOK, Working, Labels
    <2>2. PICK r \in Outcomes :
            LET hit   == attempt[id].state = "planned"
                agree == processing[id].state = "planned"
            IN /\ Transact(id, r, hit, agree,
                           [processing[id] EXCEPT !.state = "submitting"],
                           [attempt[id] EXCEPT !.state = "submitting"])
               /\ Continue(t, Verdict(r, hit, agree), "claimed", "unavailable")
      BY <1>3 DEF ClaimAttempt, ClaimAttemptForSubmission
    <2>3. CASE Goto(t, "reread") \/ \E kind : Raise(t, kind)
      BY <2>3, GotoStep, RaiseStep DEF Plain
    <2>4. CASE /\ Goto(t, "claimed")
               /\ r = "ok" /\ attempt[id].state = "planned"
               /\ processing[id].state = "planned"
      <3>1. processing[id] \in Rows
        BY <2>1 DEF TypeInv, DbOK
      <3>2. processing'[id].state = "submitting"
        BY <2>1, <2>2, <2>4, <3>1 DEF Transact, TypeInv, DbOK, Rows
      <3>3. /\ pc[t] = "claim" /\ pc'[t] = "claimed" /\ job' = job
            /\ UNCHANGED remote
            /\ \A v \in Threads : v # t => Unmoved(v)
        BY <1>3, <2>4 DEF ClaimAttempt, Goto, TypeInv, ThreadOK, Unmoved
      <3>4. ThreadStep(t)
        BY <2>1, <2>4, <3>2, <3>3 DEF ThreadStep
      <3>5. \A u \in Threads : u # t => ThreadStep(u)
        BY <3>3 DEF ThreadStep
      <3> QED BY <3>4, <3>5
    <2>5. Verdict(r, attempt[id].state = "planned", processing[id].state = "planned") = "won"
            => r = "ok" /\ attempt[id].state = "planned" /\ processing[id].state = "planned"
      BY DEF Verdict
    <2> QED BY <2>2, <2>3, <2>4, <2>5 DEF Continue
  <1>4. CASE SendSubmission(t) \/ SubmissionUnknown(t)
    BY <1>4, GotoStep DEF SendSubmission, SubmissionUnknown, Plain
  <1>5. CASE RejectSubmission(t)
    BY <1>5 DEF RejectSubmission, Goto, TypeInv, ThreadOK, ThreadStep, Unmoved
  <1>6. ASSUME NEW m \in wire, SubmissionAnswered(t, m)
        PROVE  \A u \in Threads : ThreadStep(u)
    <2>1. job'[t].ext = m.op /\ job'[t].id = job[t].id
      BY <1>6 DEF SubmissionAnswered, TypeInv, ThreadOK, Jobs
    <2> QED BY <1>6, <2>1 DEF SubmissionAnswered, TypeInv, ThreadOK, ThreadStep, Unmoved
  <1>7. CASE RecordSubmitted(t)
    <2>1. \/ \E label \in {"poll", "reread"} : Goto(t, label)
          \/ Goto(t, "unrecorded")
          \/ Raise(t, "internal")
      BY <1>7 DEF RecordSubmitted
    <2>2. CASE Goto(t, "unrecorded")
      BY <1>7, <2>2 DEF RecordSubmitted, Goto, TypeInv, ThreadOK, ThreadStep, Unmoved
    <2> QED BY <2>1, <2>2, GotoStep, RaiseStep DEF Plain
  <1>8. CASE RecordUnrecorded(t)
    BY <1>8, RaiseStep DEF RecordUnrecorded
  <1> QED BY <1>1, <1>2, <1>3, <1>4, <1>5, <1>6, <1>7, <1>8 DEF Submitting

\* Polling moves threads by thread steps.
LEMMA PollingThread ==
    ASSUME TypeInv, NEW t \in Threads, Polling(t)
    PROVE  \A u \in Threads : ThreadStep(u)
  <1>1. CASE RecoverUnpollable(t) \/ RecordUnsafe(t)
    BY <1>1, MarkRecoveryRequiredThread DEF RecoverUnpollable, RecordUnsafe
  <1>2. CASE PollOperation(t)
    <2>1. CASE Goto(t, "unsafe")
      BY <2>1, GotoStep DEF Plain
    <2>2. ASSUME NEW s \in {operation[job[t].ext].state, "timeout"},
                 pc' = [pc EXCEPT ![t] = "observed"],
                 job' = [job EXCEPT ![t].seen = s]
          PROVE  \A u \in Threads : ThreadStep(u)
      <3>1. job'[t].seen = s /\ job'[t].ext = job[t].ext /\ job'[t].id = job[t].id
        BY <2>2 DEF TypeInv, ThreadOK, Jobs
      <3> QED BY <1>2, <2>2, <3>1
              DEF PollOperation, TypeInv, ThreadOK, ThreadStep, Unmoved
    <2> QED BY <1>2, <2>1, <2>2 DEF PollOperation
  <1>3. CASE RecordPoll(t)
    <2>1. \/ Goto(t, "reread")
          \/ Goto(t, "fail") /\ job[t].seen = "failed"
          \/ Goto(t, "collect") /\ job[t].seen = "finished"
          \/ \E kind : Raise(t, kind)
      BY <1>3 DEF RecordPoll
    <2>2. CASE \/ Goto(t, "fail") /\ job[t].seen = "failed"
               \/ Goto(t, "collect") /\ job[t].seen = "finished"
      BY <1>3, <2>2 DEF RecordPoll, Goto, TypeInv, ThreadOK, ThreadStep, Unmoved
    <2> QED BY <2>1, <2>2, GotoStep, RaiseStep DEF Plain
  <1>4. CASE FailExecution(t)
    BY <1>4, FailProcessingThread DEF FailExecution
  <1>5. CASE CollectResult(t)
    <2>1. CASE Goto(t, "complete")
      BY <1>5, <2>1 DEF CollectResult, Goto, TypeInv, ThreadOK, ThreadStep, Unmoved
    <2> QED BY <1>5, <2>1, GotoStep DEF CollectResult, Plain
  <1>6. CASE CompleteProcessing(t)
    BY <1>6, ConcludeStep DEF CompleteProcessing
  <1>7. CASE Reread(t)
    BY <1>7, FinishStep, RaiseStep DEF Reread
  <1> QED BY <1>1, <1>2, <1>3, <1>4, <1>5, <1>6, <1>7 DEF Polling

\* Reconciling moves threads by thread steps.
LEMMA ReconcilingThread ==
    ASSUME TypeInv, NEW t \in Threads, Reconciling(t)
    PROVE  \A u \in Threads : ThreadStep(u)
  <1>1. CASE StartPass(t)
    <2>1. job' = job /\ (pc' = pc \/ (pc[t] = "idle" /\ pc' = [pc EXCEPT ![t] = "next"]))
      BY <1>1 DEF StartPass
    <2> QED BY <2>1 DEF TypeInv, ThreadOK, ThreadStep, Unmoved
  <1>2. CASE EndPass(t)
    BY <1>2 DEF EndPass, TypeInv, ThreadOK, ThreadStep, Unmoved
  <1>3. CASE ExpireRow(t)
    BY <1>3, FinishStep DEF ExpireRow
  <1>4. CASE RecoverStale(t)
    BY <1>4, MarkRecoveryRequiredThread DEF RecoverStale
  <1>5. ASSUME NEW id \in Ids, TakeRow(t, id)
        PROVE  \A u \in Threads : ThreadStep(u)
    <2>1. pc[t] = "next"
      BY <1>5 DEF TakeRow
    <2>2. \A u \in Threads : u # t => Unmoved(u)
      BY <1>5 DEF TakeRow, TypeInv, ThreadOK, Unmoved
    <2>3. \A x : /\ [NoJob EXCEPT !.id = id, !.ext = x].ext = x
                 /\ [NoJob EXCEPT !.id = id, !.ext = x].id = id
      BY DEF NoJob
    <2>4. \/ /\ pc' = [pc EXCEPT ![t] = "poll"]
             /\ job' = [job EXCEPT ![t] = [NoJob EXCEPT !.id = id, !.ext = attempt[id].ext]]
          \/ \E label \in {"plan", "claim", "stale"} :
               /\ pc' = [pc EXCEPT ![t] = label]
               /\ job' = [job EXCEPT ![t] = [NoJob EXCEPT !.id = id, !.ext = None]]
          \/ UNCHANGED <<pc, job>>
          \/ pc' = [pc EXCEPT ![t] = "idle"] /\ UNCHANGED job
      BY <1>5 DEF TakeRow
    <2>5. ThreadStep(t)
      <3>1. CASE /\ pc' = [pc EXCEPT ![t] = "poll"]
                 /\ job' = [job EXCEPT ![t] = [NoJob EXCEPT !.id = id,
                                                          !.ext = attempt[id].ext]]
        <4>1. pc'[t] = "poll" /\ job'[t].id = id /\ job'[t].ext = attempt[id].ext
          BY <2>3, <3>1 DEF TypeInv, ThreadOK
        <4> QED BY <4>1 DEF ThreadStep
      <3>2. ASSUME NEW label \in {"plan", "claim", "stale"},
                   pc' = [pc EXCEPT ![t] = label],
                   job' = [job EXCEPT ![t] = [NoJob EXCEPT !.id = id, !.ext = None]]
            PROVE  ThreadStep(t)
        <4>1. pc'[t] \in Fresh /\ job'[t].ext = None
          BY <2>3, <3>2 DEF TypeInv, ThreadOK, Fresh
        <4> QED BY <4>1 DEF ThreadStep
      <3>3. CASE UNCHANGED <<pc, job>>
        BY <3>3 DEF ThreadStep, Unmoved
      <3>4. CASE pc' = [pc EXCEPT ![t] = "idle"] /\ UNCHANGED job
        BY <2>1, <3>4 DEF TypeInv, ThreadOK, ThreadStep
      <3> QED BY <2>4, <3>1, <3>2, <3>3, <3>4
    <2> QED BY <2>2, <2>5 DEF ThreadStep
  <1> QED BY <1>1, <1>2, <1>3, <1>4, <1>5 DEF Reconciling

\* Every step of the processor moves every thread by at most one of the
\* control steps above.
LEMMA NextThreadStep ==
    ASSUME TypeInv, [Next]_vars
    PROVE  \A u \in Threads : ThreadStep(u)
  <1>1. CASE UNCHANGED vars
    BY <1>1 DEF vars, ThreadStep, Unmoved
  <1>2. CASE Environment
    <2>1. CASE \E p \in Processes : Restart(p)
      BY <2>1 DEF Restart, TypeInv, ThreadOK, ThreadStep, Unmoved, Fresh, NoJob
    <2> QED BY <1>2, <2>1 DEF Environment, ServeSubmission, EndOperation, GrowStale,
                             thread, ThreadStep, Unmoved
  <1> QED BY <1>1, <1>2, AcceptingThread, PlanningThread, SubmittingThread,
             PollingThread, ReconcilingThread DEF Next

-----------------------------------------------------------------------------
(* What one step may do to the messages and the backend. *)

RemoteStep ==
    \/ /\ \A m \in wire' : m \in wire
       /\ \A o \in Operations :
            /\ operation'[o].owner = operation[o].owner
            /\ operation[o].state # "running" => operation'[o].state = operation[o].state
    \/ \E t \in Threads :
         /\ pc[t] = "claimed" /\ job[t].id \in Ids
         /\ pc'[t] = "awaiting" /\ (\A v \in Threads : v # t => Unmoved(v))
         /\ wire' = wire \cup {[thread |-> t, id |-> job[t].id, op |-> None]}
         /\ UNCHANGED <<db, operation>>
    \/ \E m \in wire, o \in Operations :
         /\ m.op = None /\ operation[o].owner = None
         /\ operation' = [operation EXCEPT ![o] = [owner |-> m.id, state |-> "running"]]
         /\ wire' \subseteq (wire \ {m}) \cup {[m EXCEPT !.op = o]}
         /\ UNCHANGED <<db, pc, job>>

\* Every step removes messages, sends one for a holder, or serves one.
LEMMA NextRemoteStep ==
    ASSUME TypeInv, [Next]_vars
    PROVE  RemoteStep
  <1>1. CASE UNCHANGED remote
    BY <1>1 DEF remote, RemoteStep
  <1>2. ASSUME NEW t \in Threads, SendSubmission(t)
        PROVE  RemoteStep
    BY <1>2 DEF SendSubmission, Goto, RemoteStep, TypeInv, ThreadOK, JobOK, Working, Labels,
                Unmoved, db
  <1>3. ASSUME NEW t \in Threads, NEW m \in wire, SubmissionAnswered(t, m)
        PROVE  RemoteStep
    BY <1>3 DEF SubmissionAnswered, RemoteStep
  <1>4. ASSUME NEW t \in Threads, SubmissionUnknown(t)
        PROVE  RemoteStep
    BY <1>4 DEF SubmissionUnknown, RemoteStep
  <1>5. CASE Environment
    <2>1. ASSUME NEW m \in wire, NEW o \in Operations, ServeSubmission(m, o)
          PROVE  RemoteStep
      BY <2>1 DEF ServeSubmission, RemoteStep, db, thread
    <2>2. ASSUME NEW o \in Operations, NEW s \in {"finished", "failed"}, EndOperation(o, s)
          PROVE  RemoteStep
      BY <2>2 DEF EndOperation, RemoteStep, TypeInv, RemoteOK, RemoteOperations
    <2>3. ASSUME NEW id \in Ids, GrowStale(id)
          PROVE  RemoteStep
      BY <1>1, <2>3 DEF GrowStale
    <2>4. ASSUME NEW p \in Processes, Restart(p)
          PROVE  RemoteStep
      BY <2>4 DEF Restart, RemoteStep
    <2> QED BY <1>5, <2>1, <2>2, <2>3, <2>4 DEF Environment
  <1>6. ASSUME NEW t \in Threads, Accepting(t) \/ Planning(t) \/ Polling(t) \/ Reconciling(t)
        PROVE  UNCHANGED remote
    BY <1>6 DEF Accepting, ReceiveRequest, AcceptNew, AcceptExisting,
                Planning, FailPlanning, StoreNoAction, StorePlan,
                Polling, RecoverUnpollable, PollOperation, RecordPoll, FailExecution,
                CollectResult, RecordUnsafe, CompleteProcessing, Reread,
                Reconciling, StartPass, EndPass, ExpireRow, RecoverStale, TakeRow
  <1>7. ASSUME NEW t \in Threads, Submitting(t)
        PROVE  RemoteStep
    BY <1>1, <1>2, <1>3, <1>4, <1>7
       DEF Submitting, FailUnconfigured, ClaimAttempt, ExpireAfterClaim, RejectSubmission,
           FailRejected, RecordUnknown, RecordSubmitted, RecordUnrecorded
  <1>8. CASE UNCHANGED vars
    BY <1>1, <1>8 DEF vars, remote
  <1> QED BY <1>1, <1>5, <1>6, <1>7, <1>8 DEF Next

-----------------------------------------------------------------------------
(* Where operation ids come from. *)

\* Labels at which a thread has an operation id in hand.
WithOperation == {"record", "unrecorded", "observed", "fail", "collect", "complete"}

\* Every operation id a row, a thread or an answer carries belongs to the
\* processing it is carried for.
RefInv ==
    /\ \A i \in Ids : attempt[i].ext # None => operation[attempt[i].ext].owner = i
    /\ \A t \in Threads : job[t].ext # None =>
         job[t].id \in Ids /\ operation[job[t].ext].owner = job[t].id
    /\ \A m \in wire : m.op # None => operation[m.op].owner = m.id
    /\ \A t \in Threads : pc[t] \in WithOperation => job[t].ext # None
    /\ \A t \in Threads : pc[t] \in {"idle", "accept", "next"} => job[t].ext = None

\* Operations keep their owner.
LEMMA OwnerKept ==
    ASSUME TypeInv, RemoteStep, NEW o \in Operations, operation[o].owner # None
    PROVE  operation'[o].owner = operation[o].owner
  BY DEF TypeInv, RemoteOK, RemoteStep, RemoteOperations

\* No thread has an id in hand at the start.
LEMMA InitRef == Init => RefInv
  BY DEF Init, RefInv, NoAttempt, NoJob, WithOperation

\* Ids are passed on from the answer to the thread, to the row, to pollers.
LEMMA NextRef == TypeInv /\ RefInv /\ [Next]_vars => RefInv'
  <1> SUFFICES ASSUME TypeInv, RefInv, [Next]_vars PROVE RefInv'
    OBVIOUS
  <1>1. RemoteStep
    BY NextRemoteStep
  <1>2. /\ \A i \in Ids : attempt[i].ext \in Operations \cup {None}
        /\ \A t \in Threads : job[t].ext \in Operations \cup {None}
        /\ \A m \in wire : m \in Messages
        /\ \A m \in wire : m.op \in Operations \cup {None} /\ m.id \in Ids
        /\ \A i \in Ids : i # None
    BY ValuesAssumption DEF TypeInv, DbOK, ThreadOK, RemoteOK, Attempts, Jobs, Messages
  <1>3. /\ \A i \in Ids : attempt[i].ext # None =>
             operation'[attempt[i].ext].owner = i
        /\ \A t \in Threads : job[t].ext # None =>
             job[t].id \in Ids /\ operation'[job[t].ext].owner = job[t].id
        /\ \A m \in wire : m.op # None => operation'[m.op].owner = m.id
    BY <1>1, <1>2, OwnerKept DEF RefInv
  <1>4. ASSUME NEW i \in Ids, attempt'[i].ext # None
        PROVE  operation'[attempt'[i].ext].owner = i
    <2>1. RowStep(i)
      BY NextRowStep
    <2>2. attempt[i] \in Attempts
      BY DEF TypeInv, DbOK
    <2>3. \/ attempt'[i].ext = attempt[i].ext
          \/ \E t \in Threads : job[t].id = i /\ attempt'[i].ext = job[t].ext
      BY <2>1, <2>2 DEF RowStep, Kept, Wrote, Attempts
    <2> QED BY <1>3, <1>4, <2>3
  <1>5. ASSUME NEW t \in Threads
        PROVE  /\ job'[t].ext # None =>
                    job'[t].id \in Ids /\ operation'[job'[t].ext].owner = job'[t].id
               /\ pc'[t] \in WithOperation => job'[t].ext # None
               /\ pc'[t] \in {"idle", "accept", "next"} => job'[t].ext = None
    <2>1. ThreadStep(t)
      BY NextThreadStep
    <2>2. job'[t].ext # None =>
             job'[t].id \in Ids /\ operation'[job'[t].ext].owner = job'[t].id
      BY <1>2, <1>3, <2>1 DEF RefInv, ThreadStep, Unmoved
    <2>3. pc'[t] \in WithOperation => job'[t].ext # None
      BY <2>1 DEF RefInv, ThreadStep, Unmoved, WithOperation, Fresh, Plain
    <2>4. pc'[t] \in {"idle", "accept", "next"} => job'[t].ext = None
      BY <2>1 DEF RefInv, ThreadStep, Unmoved, Plain
    <2> QED BY <2>2, <2>3, <2>4
  <1>6. ASSUME NEW m \in wire', m.op # None
        PROVE  operation'[m.op].owner = m.id
    <2>1. CASE m \in wire
      BY <1>3, <1>6, <2>1
    <2>2. CASE m \notin wire
      <3>1. PICK n \in wire, o \in Operations :
              /\ operation' = [operation EXCEPT ![o] = [owner |-> n.id, state |-> "running"]]
              /\ m = [n EXCEPT !.op = o]
        BY <1>1, <1>6, <2>2 DEF RemoteStep
      <3>2. m.op = o /\ m.id = n.id
        BY <1>2, <3>1 DEF Messages
      <3> QED BY <3>1, <3>2 DEF TypeInv, RemoteOK
    <2> QED BY <2>1, <2>2
  <1> QED BY <1>4, <1>5, <1>6 DEF RefInv

-----------------------------------------------------------------------------
(* The right to submit. *)

\* Threads that won a claim and have not sent the submission.
Holder(t) == pc[t] \in {"claimed", "reject"}

Open == {"submitting", "recovery_required"}

\* A claimed row has one licence, which is a holding thread, then a request
\* in transit, then an operation; never two of them, and never before the
\* claim. Until the operation exists the row stays open.
Licence ==
    /\ \A t, u \in Threads :
         Holder(t) /\ Holder(u) /\ job[t].id = job[u].id => t = u
    /\ \A t \in Threads, m \in wire :
         Holder(t) /\ m.op = None => m.id # job[t].id
    /\ \A t \in Threads, o \in Operations :
         Holder(t) => operation[o].owner # job[t].id
    /\ \A m, n \in wire : m.op = None /\ n.op = None /\ m.id = n.id => m = n
    /\ \A m \in wire, o \in Operations : m.op = None => operation[o].owner # m.id

Claimed ==
    /\ \A t \in Threads : Holder(t) => processing[job[t].id].state \in Open
    /\ \A m \in wire : m.op = None => processing[m.id].state \in Open
    /\ \A o \in Operations : operation[o].owner # None =>
         processing[operation[o].owner].state \notin {"none", "accepted", "planned"}

SubmitInv == Licence /\ Claimed /\ AtMostOneOperation

\* Nothing is claimed at the start.
LEMMA InitSubmit == Init => SubmitInv
  BY DEF Init, SubmitInv, Licence, Claimed, AtMostOneOperation, Holder

\* A row leaves the open states only by its operation or its only holder.
LEMMA OpenLeft ==
    ASSUME TypeInv, RefInv, [Next]_vars, NEW i \in Ids,
           processing[i].state \in Open, processing'[i].state \notin Open
    PROVE  \/ \E o \in Operations : operation[o].owner = i
           \/ \E t \in Threads : /\ pc[t] = "reject" /\ job[t].id = i
                                 /\ pc'[t] \in {"idle", "next"}
  <1>1. RowStep(i)
    BY NextRowStep
  <1>2. processing[i] \in Rows /\ attempt[i] \in Attempts
    BY DEF TypeInv, DbOK
  <1>3. \A t \in Threads : job[t].ext \in Operations \cup {None}
    BY DEF TypeInv, ThreadOK, Jobs
  <1>4. \/ \E t \in Threads : pc[t] = "record" /\ job[t].id = i
        \/ \E t \in Threads : /\ pc[t] = "reject" /\ job[t].id = i
                              /\ pc'[t] \in {"idle", "next"}
    BY <1>1, <1>2 DEF RowStep, FailCase, Kept, Wrote, Rows, Open
  <1> QED BY <1>3, <1>4 DEF RefInv, WithOperation

\* A row once claimed is never again unclaimed.
LEMMA ClaimKept ==
    ASSUME TypeInv, [Next]_vars, NEW i \in Ids,
           processing[i].state \notin {"none", "accepted", "planned"}
    PROVE  processing'[i].state \notin {"none", "accepted", "planned"}
  <1>1. RowStep(i)
    BY NextRowStep
  <1>2. processing[i] \in Rows
    BY DEF TypeInv, DbOK
  <1> QED BY <1>1, <1>2 DEF RowStep, FailCase, Kept, Wrote, Rows

\* A new holder has just claimed a planned row.
LEMMA NewHolder ==
    ASSUME TypeInv, [Next]_vars, NEW t \in Threads, Holder(t)'
    PROVE  \/ Holder(t) /\ job'[t] = job[t]
           \/ /\ job'[t] = job[t] /\ job[t].id \in Ids
              /\ processing[job[t].id].state = "planned"
              /\ processing'[job[t].id].state = "submitting"
              /\ UNCHANGED remote
              /\ \A v \in Threads : v # t => Unmoved(v)
  <1>1. ThreadStep(t)
    BY NextThreadStep
  <1> QED BY <1>1 DEF ThreadStep, Unmoved, Holder, Fresh, Plain

\* A licence changes hands and is never duplicated.
LEMMA NextSubmit == TypeInv /\ RefInv /\ SubmitInv /\ [Next]_vars => SubmitInv'
  <1> SUFFICES ASSUME TypeInv, RefInv, SubmitInv, [Next]_vars PROVE SubmitInv'
    OBVIOUS
  <1> USE DEF SubmitInv
  <1>1. /\ \A m \in wire : m \in Messages
        /\ \A m \in wire : m.id \in Ids /\ m.op \in Operations \cup {None}
        /\ \A o \in Operations : operation[o].owner \in Ids \cup {None}
        /\ \A t \in Threads : Holder(t) => job[t].id \in Ids
        /\ \A i \in Ids : i # None
    BY ValuesAssumption
       DEF TypeInv, RemoteOK, ThreadOK, JobOK, Working, Labels, Messages, RemoteOperations, Holder
  <1>2. \A i \in Ids : processing[i].state \notin {"none", "accepted", "planned"} =>
          processing'[i].state \notin {"none", "accepted", "planned"}
    BY ClaimKept
  <1>3. \A i \in Ids :
          processing[i].state \in Open /\ processing'[i].state \notin Open =>
             \/ \E o \in Operations : operation[o].owner = i
             \/ \E t \in Threads : /\ Holder(t) /\ job[t].id = i /\ ~Holder(t)'
    BY OpenLeft DEF Holder
  <1>4. CASE \E u \in Threads :
               /\ Holder(u)' /\ job'[u] = job[u] /\ job[u].id \in Ids
               /\ processing[job[u].id].state = "planned"
               /\ processing'[job[u].id].state = "submitting"
               /\ UNCHANGED remote
               /\ \A v \in Threads : v # u => Unmoved(v)
    <2>1. PICK u \in Threads :
               /\ Holder(u)' /\ job'[u] = job[u] /\ job[u].id \in Ids
               /\ processing[job[u].id].state = "planned"
               /\ processing'[job[u].id].state = "submitting"
               /\ UNCHANGED remote
               /\ \A v \in Threads : v # u => Unmoved(v)
      BY <1>4
    <2>2. \A v \in Threads : v # u => (Holder(v)' <=> Holder(v)) /\ job'[v] = job[v]
      BY <2>1 DEF Unmoved, Holder
    <2>3. ~Holder(u)
      BY <2>1 DEF Claimed, Open
    <2>4. Licence'
      BY <1>1, <2>1, <2>2 DEF Licence, Claimed, Open, remote
    <2>5. Claimed'
      BY <1>1, <1>2, <1>3, <2>1, <2>2, <2>3 DEF Licence, Claimed, Open, remote
    <2> QED BY <2>1, <2>4, <2>5 DEF AtMostOneOperation, remote
  <1>5. CASE \A t \in Threads : Holder(t)' => Holder(t) /\ job'[t] = job[t]
    <2>1. CASE /\ \A m \in wire' : m \in wire
               /\ \A o \in Operations : operation'[o].owner = operation[o].owner
      <3>1. Licence'
        BY <1>5, <2>1 DEF Licence
      <3>2. Claimed'
        BY <1>1, <1>2, <1>3, <1>5, <2>1 DEF Licence, Claimed
      <3> QED BY <2>1, <3>1, <3>2 DEF AtMostOneOperation
    <2>2. CASE \E t \in Threads :
                 /\ pc[t] = "claimed" /\ job[t].id \in Ids
                 /\ pc'[t] = "awaiting" /\ (\A v \in Threads : v # t => Unmoved(v))
                 /\ wire' = wire \cup {[thread |-> t, id |-> job[t].id, op |-> None]}
                 /\ UNCHANGED <<db, operation>>
      <3>1. PICK t \in Threads :
                 /\ pc[t] = "claimed" /\ job[t].id \in Ids
                 /\ pc'[t] = "awaiting" /\ (\A v \in Threads : v # t => Unmoved(v))
                 /\ wire' = wire \cup {[thread |-> t, id |-> job[t].id, op |-> None]}
                 /\ UNCHANGED <<db, operation>>
        BY <2>2
      <3>2. /\ Holder(t) /\ ~Holder(t)'
            /\ \A m \in wire' : m.op = None => m \in wire \/ m.id = job[t].id
            /\ \A m \in wire' : m \in wire \/ m = [thread |-> t, id |-> job[t].id, op |-> None]
        BY <3>1 DEF Holder
      <3>3. Licence'
        BY <1>1, <1>5, <3>1, <3>2 DEF Licence
      <3>4. Claimed'
        BY <1>1, <1>2, <1>5, <3>1, <3>2 DEF Licence, Claimed, db
      <3> QED BY <3>1, <3>3, <3>4 DEF AtMostOneOperation
    <2>3. CASE \E m \in wire, o \in Operations :
                 /\ m.op = None /\ operation[o].owner = None
                 /\ operation' = [operation EXCEPT ![o] =
                                     [owner |-> m.id, state |-> "running"]]
                 /\ wire' \subseteq (wire \ {m}) \cup {[m EXCEPT !.op = o]}
                 /\ UNCHANGED <<db, pc, job>>
      <3>1. PICK m \in wire, o \in Operations :
                 /\ m.op = None /\ operation[o].owner = None
                 /\ operation' = [operation EXCEPT ![o] =
                                     [owner |-> m.id, state |-> "running"]]
                 /\ wire' \subseteq (wire \ {m}) \cup {[m EXCEPT !.op = o]}
                 /\ UNCHANGED <<db, pc, job>>
        BY <2>3
      <3>2. [m EXCEPT !.op = o].op # None
        BY <1>1, ValuesAssumption DEF Messages
      <3>3. \A n \in wire' : n.op = None => n \in wire /\ n # m
        BY <3>1, <3>2
      <3>4. /\ operation'[o].owner = m.id
            /\ \A q \in Operations : q # o => operation'[q].owner = operation[q].owner
        BY <3>1 DEF TypeInv, RemoteOK
      <3>5. Licence'
        BY <1>1, <1>5, <3>1, <3>3, <3>4 DEF Licence
      <3>6. Claimed'
        BY <1>1, <1>2, <1>5, <3>1, <3>3, <3>4 DEF Licence, Claimed, Open, db
      <3>7. AtMostOneOperation'
        BY <1>1, <3>1, <3>4 DEF Licence, AtMostOneOperation
      <3> QED BY <3>5, <3>6, <3>7
    <2> QED BY <2>1, <2>2, <2>3, NextRemoteStep DEF RemoteStep
  <1> QED BY <1>4, <1>5, NewHolder

\* At most one backend operation ever exists for a processing.
THEOREM AtMostOneOperationAlways == Spec => []AtMostOneOperation
  <1>1. SubmitInv => AtMostOneOperation
    BY DEF SubmitInv
  <1> QED BY <1>1, InitType, NextType, InitRef, NextRef, InitSubmit, NextSubmit, PTL DEF Spec

-----------------------------------------------------------------------------
(* What the presence and the end of an operation say about its row. *)

\* An operation id, once durable, stays.
LEMMA ExternalIdKept ==
    ASSUME TypeInv, RowsInv, [Next]_vars, NEW i \in Ids, attempt[i].ext # None
    PROVE  attempt'[i].ext = attempt[i].ext
  <1>1. RowStep(i) /\ RowShape(i)
    BY NextRowStep DEF RowsInv
  <1>2. attempt[i] \in Attempts
    BY DEF TypeInv, DbOK
  <1> QED BY <1>1, <1>2 DEF RowStep, RowShape, Kept, Wrote, Attempts

\* An operation that exists after a step was there before, or was served for
\* a row that is open.
LEMMA OperationOrigin ==
    ASSUME TypeInv, SubmitInv, [Next]_vars, NEW o \in Operations, NEW i \in Ids,
           operation'[o].owner = i
    PROVE  \/ operation[o].owner = i
           \/ processing[i].state \in Open /\ Kept(i)
  <1>1. RemoteStep
    BY NextRemoteStep
  <1>2. \A m \in wire : m.op = None => processing[m.id].state \in Open
    BY DEF SubmitInv, Claimed
  <1> QED BY <1>1, <1>2 DEF RemoteStep, Kept, TypeInv, RemoteOK, db

-----------------------------------------------------------------------------
(* Operations whose id is not durable. *)

\* A holder's row has no operation, so it is the holder's to fail.
LEMMA NextOrphans ==
    TypeInv /\ RowsInv /\ RefInv /\ SubmitInv /\ OrphansAwaitRecovery /\ [Next]_vars
      => OrphansAwaitRecovery'
  <1> SUFFICES ASSUME TypeInv, RowsInv, RefInv, SubmitInv, OrphansAwaitRecovery, [Next]_vars,
                      NEW o \in Operations, NEW i \in Ids,
                      operation'[o].owner = i, attempt'[i].ext = None
               PROVE  processing'[i].state \in Open
    BY DEF OrphansAwaitRecovery, Open
  <1>1. attempt[i].ext = None
    BY ExternalIdKept
  <1>2. processing[i].state \in Open
    BY <1>1, OperationOrigin DEF OrphansAwaitRecovery, Open
  <1>3. CASE Kept(i)
    BY <1>2, <1>3 DEF Kept
  <1>4. CASE operation[o].owner = i
    <2>1. RowStep(i)
      BY NextRowStep
    <2>2. processing[i] \in Rows /\ attempt[i] \in Attempts
      BY DEF TypeInv, DbOK
    <2>3. \A t \in Threads : pc[t] = "record" => job[t].ext # None
      BY DEF RefInv, WithOperation
    <2>4. \A t \in Threads : pc[t] = "reject" => job[t].id # i
      BY <1>4 DEF SubmitInv, Licence, Holder
    <2> QED BY <1>2, <2>1, <2>2, <2>3, <2>4
            DEF RowStep, FailCase, Kept, Wrote, Rows, Attempts, Open
  <1> QED BY <1>3, <1>4, OperationOrigin

\* There is no operation at the start.
LEMMA InitOrphans == Init => OrphansAwaitRecovery
  BY ValuesAssumption DEF Init, OrphansAwaitRecovery

\* An operation whose id was lost is always still reported by its row.
THEOREM OrphansAlwaysAwaitRecovery == Spec => []OrphansAwaitRecovery
  BY InitType, NextType, InitRows, NextRows, InitRef, NextRef, InitSubmit, NextSubmit,
     InitOrphans, NextOrphans, PTL DEF Spec

-----------------------------------------------------------------------------
(* Errors and operations. *)

NeverSubmitted == {"unsupported_capability", "backend_selection_error",
                   "backend_submission_failed"}

\* The error column of a row that is not failed.
ErrorShape(i) ==
    LET e == processing[i].error IN
    /\ processing[i].state = "submitting" => e = "none"
    /\ processing[i].state = "planned" => e = "none"
    /\ processing[i].state \in {"none", "accepted"} => e = "none"
    /\ processing[i].state = "recovery_required" => e \in RecoveryCategory

EffectInv ==
    /\ \A i \in Ids : ErrorShape(i)
    /\ \A o \in Operations, i \in Ids : operation[o].owner = i =>
         /\ attempt[i].state # "none"
         /\ processing[i].error \notin NeverSubmitted

\* No row and no operation exists at the start.
LEMMA InitEffect == Init => EffectInv
  BY ValuesAssumption DEF Init, EffectInv, ErrorShape, NoRow

\* A row with an operation is not failed for a reason that denies it.
LEMMA NextEffect ==
    TypeInv /\ RowsInv /\ SubmitInv /\ EffectInv /\ [Next]_vars => EffectInv'
  <1> SUFFICES ASSUME TypeInv, RowsInv, SubmitInv, EffectInv, [Next]_vars,
                      NEW i \in Ids
               PROVE  /\ ErrorShape(i)'
                      /\ \A o \in Operations : operation'[o].owner = i =>
                           /\ attempt'[i].state # "none"
                           /\ processing'[i].error \notin NeverSubmitted
    BY DEF EffectInv
  <1>1. RowStep(i)
    BY NextRowStep
  <1>2. processing[i] \in Rows /\ attempt[i] \in Attempts
    BY DEF TypeInv, DbOK
  <1>3. ErrorShape(i)
    BY DEF EffectInv
  <1>4. ErrorShape(i)'
    <2>1. CASE Kept(i)
      BY <1>3, <2>1 DEF ErrorShape, Kept
    <2> QED BY <1>1, <1>2, <1>3, <2>1
            DEF ErrorShape, RowStep, FailCase, Wrote, AcceptedRow, NoRow, Rows
  <1>5. ASSUME NEW o \in Operations, operation'[o].owner = i
        PROVE  attempt'[i].state # "none" /\ processing'[i].error \notin NeverSubmitted
    <2>1. CASE processing[i].state \in Open /\ Kept(i)
      BY <1>3, <2>1 DEF RowsInv, RowsAgree, ErrorShape, Kept, Open, RecoveryCategory,
                       NeverSubmitted
    <2>2. CASE operation[o].owner = i
      <3>1. /\ processing[i].state \notin {"none", "accepted", "planned"}
            /\ \A t \in Threads : pc[t] = "reject" => job[t].id # i
        BY <2>2, ValuesAssumption DEF SubmitInv, Licence, Claimed, Holder
      <3>2. attempt[i].state # "none" /\ processing[i].error \notin NeverSubmitted
        BY <2>2 DEF EffectInv
      <3> QED BY <1>1, <1>2, <3>1, <3>2
              DEF RowStep, FailCase, Kept, Wrote, Rows, Attempts, NeverSubmitted,
                  RecoveryCategory
    <2> QED BY <1>5, <2>1, <2>2, OperationOrigin
  <1> QED BY <1>4, <1>5

\* No backend operation exists for a row that was not claimed, that needs no
\* action, or that is closed as never submitted.
THEOREM NoEffectWithoutClaimAlways == Spec => []NoEffectWithoutClaim
  <1>1. RowsInv /\ SubmitInv /\ EffectInv => NoEffectWithoutClaim
    BY ValuesAssumption
       DEF RowsInv, RowShape, SubmitInv, Claimed, EffectInv, NoEffectWithoutClaim,
           NeverSubmitted
  <1> QED BY <1>1, InitType, NextType, InitRows, NextRows, InitRef, NextRef, InitSubmit,
             NextSubmit, InitEffect, NextEffect, PTL DEF Spec

-----------------------------------------------------------------------------
(* Outcomes. *)

\* A thread that acts on the end of an operation has seen the operation end
\* that way, and ended operations stay so.
SeenInv ==
    /\ \A t \in Threads : LET s == operation[job[t].ext].state IN
         /\ pc[t] = "observed" /\ job[t].seen \in {"finished", "failed"} => s = job[t].seen
         /\ pc[t] \in {"collect", "complete"} => s = "finished"
         /\ pc[t] = "fail" => s = "failed"
    /\ \A i \in Ids : attempt[i].state = "submitted" => attempt[i].ext # None

OutcomeInv == SeenInv /\ OutcomeIsRemote

\* Nothing is terminal at the start.
LEMMA InitOutcome == Init => OutcomeInv
  BY DEF Init, OutcomeInv, SeenInv, OutcomeIsRemote, NoRow, NoAttempt, NoJob

\* An ended operation keeps its owner and its end.
LEMMA EndKept ==
    ASSUME TypeInv, [Next]_vars, NEW o \in Operations,
           operation[o].owner # None, operation[o].state \in {"finished", "failed"}
    PROVE  operation'[o] = operation[o]
  <1>1. RemoteStep
    BY NextRemoteStep
  <1>2. operation'[o].owner = operation[o].owner
    BY <1>1, OwnerKept
  <1>3. operation'[o].state = operation[o].state
    BY <1>1 DEF RemoteStep, TypeInv, RemoteOK
  <1>4. operation[o] \in RemoteOperations /\ operation'[o] \in RemoteOperations
    BY NextType DEF TypeInv, RemoteOK
  <1> QED BY <1>2, <1>3, <1>4 DEF RemoteOperations

\* Terminal rows record what was seen, about the row's only operation.
LEMMA NextOutcome ==
    TypeInv /\ RowsInv /\ RefInv /\ SubmitInv /\ OutcomeInv /\ [Next]_vars => OutcomeInv'
  <1> SUFFICES ASSUME TypeInv, RowsInv, RefInv, SubmitInv, OutcomeInv, [Next]_vars
               PROVE  OutcomeInv'
    OBVIOUS
  <1>1. /\ \A t \in Threads : job[t].ext \in Operations \cup {None}
        /\ \A i \in Ids : attempt[i].ext \in Operations \cup {None}
        /\ \A i \in Ids : i # None
    BY ValuesAssumption DEF TypeInv, ThreadOK, DbOK, Jobs, Attempts
  <1>2. ASSUME NEW t \in Threads
        PROVE  LET s == operation'[job'[t].ext].state IN
               /\ pc'[t] = "observed" /\ job'[t].seen \in {"finished", "failed"}
                    => s = job'[t].seen
               /\ pc'[t] \in {"collect", "complete"} => s = "finished"
               /\ pc'[t] = "fail" => s = "failed"
    <2>1. ThreadStep(t)
      BY NextThreadStep
    <2>2. job[t].ext # None => job[t].ext \in Operations /\ operation[job[t].ext].owner # None
      BY <1>1 DEF RefInv
    <2>3. job[t].ext # None /\ operation[job[t].ext].state \in {"finished", "failed"}
            => operation'[job[t].ext] = operation[job[t].ext]
      BY <2>2, EndKept
    <2>4. /\ pc[t] \in WithOperation => job[t].ext # None
          /\ pc[t] = "observed" /\ job[t].seen \in {"finished", "failed"}
               => operation[job[t].ext].state = job[t].seen
          /\ pc[t] \in {"collect", "complete"} => operation[job[t].ext].state = "finished"
          /\ pc[t] = "fail" => operation[job[t].ext].state = "failed"
      BY DEF RefInv, OutcomeInv, SeenInv
    <2>5. CASE Unmoved(t)
      BY <2>3, <2>4, <2>5 DEF Unmoved, WithOperation
    <2>6. CASE /\ job[t].ext # None /\ pc'[t] = "observed"
               /\ job'[t].ext = job[t].ext
               /\ job'[t].seen \in {operation[job[t].ext].state, "timeout"}
      BY <2>3, <2>6
    <2>7. CASE /\ pc[t] = "observed" /\ job'[t] = job[t]
               /\ \/ job[t].seen = "failed" /\ pc'[t] = "fail"
                  \/ job[t].seen = "finished" /\ pc'[t] = "collect"
      BY <2>3, <2>4, <2>7 DEF WithOperation
    <2>8. CASE pc[t] = "collect" /\ pc'[t] = "complete" /\ job'[t] = job[t]
      BY <2>3, <2>4, <2>8 DEF WithOperation
    <2>9. CASE pc'[t] \notin {"observed", "collect", "complete", "fail"}
      BY <2>9
    <2> QED BY <2>1, <2>5, <2>6, <2>7, <2>8, <2>9 DEF ThreadStep, Fresh, Plain
  <1>3. ASSUME NEW i \in Ids
        PROVE  /\ attempt'[i].state = "submitted" => attempt'[i].ext # None
               /\ processing'[i].state = "completed" /\ processing'[i].alert \in Severe =>
                    /\ processing'[i].result # None
                    /\ attempt'[i].ext = processing'[i].result
                    /\ operation'[processing'[i].result] = [owner |-> i, state |-> "finished"]
               /\ processing'[i].error = "backend_execution_failed" =>
                    /\ attempt'[i].ext # None
                    /\ operation'[attempt'[i].ext] = [owner |-> i, state |-> "failed"]
    <2>1. RowStep(i)
      BY NextRowStep
    <2>2. processing[i] \in Rows /\ attempt[i] \in Attempts
      BY DEF TypeInv, DbOK
    <2>3. attempt[i].ext # None =>
            /\ attempt'[i].ext = attempt[i].ext /\ attempt[i].ext \in Operations
            /\ operation[attempt[i].ext].owner = i
      BY <1>1, ExternalIdKept DEF RefInv
    <2>4. attempt[i].ext # None /\ operation[attempt[i].ext].state \in {"finished", "failed"}
            => operation'[attempt[i].ext] = operation[attempt[i].ext]
      BY <1>1, <2>3, EndKept
    <2>5. attempt[i].state = "submitted" => attempt[i].ext # None
      BY DEF OutcomeInv, SeenInv
    <2>6. attempt'[i].state = "submitted" => attempt'[i].ext # None
      <3>1. \A t \in Threads : pc[t] = "record" => job[t].ext # None
        BY DEF RefInv, WithOperation
      <3> QED BY <2>1, <2>2, <2>3, <2>5, <3>1 DEF RowStep, FailCase, Kept, Wrote, Attempts
    <2>7. ASSUME NEW t \in Threads, job[t].id = i, pc[t] \in {"complete", "fail"},
                 attempt[i].ext # None
          PROVE  /\ job[t].ext = attempt[i].ext
                 /\ operation'[job[t].ext] =
                      [owner |-> i, state |-> IF pc[t] = "fail" THEN "failed" ELSE "finished"]
      <3>1. /\ job[t].ext \in Operations /\ operation[job[t].ext].owner = i
            /\ operation[job[t].ext].state = IF pc[t] = "fail" THEN "failed" ELSE "finished"
        BY <1>1, <2>7 DEF RefInv, WithOperation, OutcomeInv, SeenInv
      <3>2. job[t].ext = attempt[i].ext
        BY <1>1, <2>3, <2>7, <3>1 DEF SubmitInv, AtMostOneOperation
      <3>3. operation[job[t].ext] \in RemoteOperations
        BY <3>1 DEF TypeInv, RemoteOK
      <3> QED BY <2>4, <2>7, <3>1, <3>2, <3>3 DEF RemoteOperations
    <2>8. /\ processing[i].state = "completed" /\ processing[i].alert \in Severe =>
                /\ processing[i].result # None
                /\ attempt[i].ext = processing[i].result
                /\ operation[processing[i].result] = [owner |-> i, state |-> "finished"]
          /\ processing[i].error = "backend_execution_failed" =>
                /\ attempt[i].ext # None
                /\ operation[attempt[i].ext] = [owner |-> i, state |-> "failed"]
      BY DEF OutcomeInv, OutcomeIsRemote
    <2>9. CASE Kept(i)
      BY <2>4, <2>6, <2>8, <2>9 DEF Kept
    <2>10. CASE \E t \in Threads :
                  /\ pc[t] = "complete" /\ job[t].id = i /\ attempt[i].state = "submitted"
                  /\ Wrote(i, [processing[i] EXCEPT !.state = "completed", !.error = "none",
                                                   !.result = job[t].ext],
                              [attempt[i] EXCEPT !.state = "completed"])
      BY <2>2, <2>3, <2>5, <2>6, <2>7, <2>10 DEF Wrote, Rows, Attempts
    <2>11. CASE \E t \in Threads :
                  /\ pc[t] = "fail" /\ job[t].id = i /\ processing[i].state = "submitted"
                  /\ Wrote(i, [processing[i] EXCEPT !.state = "failed",
                                                    !.error = "backend_execution_failed"],
                              [attempt[i] EXCEPT !.state = "failed"])
      <3>1. attempt[i].ext # None
        BY <2>5, <2>11 DEF RowsInv, RowsAgree
      <3> QED BY <2>2, <2>3, <2>6, <2>7, <2>11, <3>1 DEF Wrote, Rows, Attempts
    <2>12. CASE /\ processing'[i].error \in {processing[i].error} \cup
                      (Category \ {"backend_execution_failed"})
                /\ processing'[i].state = "completed" => processing'[i].alert \notin Severe
      BY <2>3, <2>4, <2>6, <2>8, <2>12
    <2>13. \A c \in Category :
              Wrote(i, [processing[i] EXCEPT !.state = "failed", !.error = c],
                       [attempt[i] EXCEPT !.state = "failed"])
                => processing'[i].error = c /\ processing'[i].state = "failed"
      BY <2>2 DEF Wrote, Rows
    <2>14. ASSUME NEW t \in Threads, NEW c \in Category, job[t].id = i,
                  FailCase(pc[t], processing[i].state, c),
                  Wrote(i, [processing[i] EXCEPT !.state = "failed", !.error = c],
                           [attempt[i] EXCEPT !.state = "failed"]),
                  c # "backend_execution_failed"
           PROVE  /\ processing'[i].error \in Category \ {"backend_execution_failed"}
                  /\ processing'[i].state # "completed"
      BY <2>13, <2>14
    <2>15. ASSUME NEW t \in Threads, NEW c \in Category, job[t].id = i,
                  FailCase(pc[t], processing[i].state, c),
                  c = "backend_execution_failed"
           PROVE  pc[t] = "fail" /\ processing[i].state = "submitted"
      BY <2>15 DEF FailCase
    <2>16. CASE \E t \in Threads, c \in Category :
                  /\ job[t].id = i
                  /\ FailCase(pc[t], processing[i].state, c)
                  /\ Wrote(i, [processing[i] EXCEPT !.state = "failed", !.error = c],
                              [attempt[i] EXCEPT !.state = "failed"])
      BY <2>11, <2>12, <2>14, <2>15, <2>16
    <2>17. CASE \/ /\ processing[i].state = "none"
                   /\ \E t \in Threads :
                        Wrote(i, AcceptedRow(job[t].key, job[t].alert), attempt[i])
                \/ /\ processing[i].state = "accepted" /\ processing[i].alert \notin Severe
                   /\ Wrote(i, [processing[i] EXCEPT !.state = "completed"], attempt[i])
      BY <2>2, <2>12, <2>17 DEF Wrote, AcceptedRow, NoRow, Rows, Category
    <2>18. CASE \/ /\ processing[i].state = "accepted"
                   /\ \E c \in {"unsupported_capability", "backend_selection_error"} :
                        processing'[i] = [processing[i] EXCEPT !.state = "failed", !.error = c]
                \/ \E b \in Backends :
                     processing'[i] = [processing[i] EXCEPT !.state = "planned", !.backend = b]
                \/ processing'[i] = [processing[i] EXCEPT !.state = "submitting"]
                \/ processing'[i] = [processing[i] EXCEPT !.state = "submitted"]
      BY <2>2, <2>12, <2>18 DEF Rows, Category
    <2>19. CASE \/ /\ processing[i].state = "submitted"
                   /\ \E c \in {"none", "backend_timeout"} :
                        processing'[i] = [processing[i] EXCEPT !.error = c]
                \/ \E c \in RecoveryCategory :
                     processing'[i] = [processing[i] EXCEPT !.state = "recovery_required",
                                                            !.error = c]
      BY <2>2, <2>12, <2>19 DEF Rows, Category, RecoveryCategory
    <2> QED BY <2>1, <2>9, <2>10, <2>16, <2>17, <2>18, <2>19 DEF RowStep, Wrote
  <1> QED BY <1>2, <1>3 DEF OutcomeInv, SeenInv, OutcomeIsRemote

\* A terminal row states what its own operation did.
THEOREM OutcomeAlwaysRemote == Spec => []OutcomeIsRemote
  <1>1. OutcomeInv => OutcomeIsRemote
    BY DEF OutcomeInv
  <1> QED BY <1>1, InitType, NextType, InitRows, NextRows, InitRef, NextRef, InitSubmit,
             NextSubmit, InitOutcome, NextOutcome, PTL DEF Spec

-----------------------------------------------------------------------------
(* The contract: every step is one step of ProcessingContract, or none. *)

\* The three views the contract has of the tables and the backend.
phases == [i \in Ids |-> Phase(processing[i].state)]
runs   == [i \in Ids |-> {o \in Operations : operation[o].owner = i}]
ends   == [o \in Operations |-> operation[o].state]

\* The backend changes an operation only by starting or by ending it, and
\* neither touches a row.
LEMMA OperationStep ==
    ASSUME TypeInv, [Next]_vars
    PROVE  \/ UNCHANGED operation
           \/ \E m \in wire, o \in Operations : ServeSubmission(m, o)
           \/ \E o \in Operations, s \in {"finished", "failed"} : EndOperation(o, s)
  <1>1. CASE UNCHANGED vars
    BY <1>1 DEF vars
  <1>2. CASE Environment
    BY <1>2 DEF Environment, GrowStale, Restart, remote
  <1>3. ASSUME NEW t \in Threads,
               Accepting(t) \/ Planning(t) \/ Submitting(t) \/ Polling(t) \/ Reconciling(t)
        PROVE  UNCHANGED operation
    BY <1>3 DEF Accepting, ReceiveRequest, AcceptNew, AcceptExisting,
                Planning, FailPlanning, StoreNoAction, StorePlan,
                Submitting, FailUnconfigured, ClaimAttempt, ExpireAfterClaim,
                SendSubmission, RejectSubmission, FailRejected, SubmissionAnswered,
                SubmissionUnknown, RecordUnknown, RecordSubmitted, RecordUnrecorded,
                Polling, RecoverUnpollable, PollOperation, RecordPoll, FailExecution,
                CollectResult, RecordUnsafe, CompleteProcessing, Reread,
                Reconciling, StartPass, EndPass, ExpireRow, RecoverStale, TakeRow, remote
  <1> QED BY <1>1, <1>2, <1>3 DEF Next

\* An operation nobody owns has not been started.
FreeInv == \A o \in Operations : operation[o].owner = None => operation[o].state = "none"

\* No operation has an owner at the start.
LEMMA InitFree == Init => FreeInv
  BY DEF Init, FreeInv

\* Operations get an owner when they are started.
LEMMA NextFree == TypeInv /\ FreeInv /\ [Next]_vars => FreeInv'
  <1> SUFFICES ASSUME TypeInv, FreeInv, [Next]_vars,
                      NEW o \in Operations, operation'[o].owner = None
               PROVE  operation'[o].state = "none"
    BY DEF FreeInv
  <1>1. operation \in [Operations -> RemoteOperations]
    BY DEF TypeInv, RemoteOK
  <1>2. ASSUME NEW m \in wire, NEW p \in Operations, ServeSubmission(m, p)
        PROVE  operation'[o].state = "none"
    <2>1. m.id # None
      BY ValuesAssumption DEF TypeInv, RemoteOK, Messages
    <2> QED BY <1>1, <1>2, <2>1 DEF ServeSubmission, FreeInv
  <1>3. ASSUME NEW p \in Operations, NEW s \in {"finished", "failed"}, EndOperation(p, s)
        PROVE  operation'[o].state = "none"
    BY <1>1, <1>3 DEF EndOperation, FreeInv, RemoteOperations
  <1> QED BY <1>2, <1>3, OperationStep DEF FreeInv

\* A request that is served starts the only operation of its open row.
LEMMA ServeStarts ==
    ASSUME TypeInv, SubmitInv, FreeInv, NEW m \in wire, NEW o \in Operations,
           ServeSubmission(m, o)
    PROVE  Contract!Next
  <1> DEFINE i == m.id
  <1>1. operation \in [Operations -> RemoteOperations] /\ i \in Ids
    BY DEF TypeInv, RemoteOK, Messages
  <1>2. m.op = None /\ operation[o].owner = None /\ UNCHANGED processing
    BY DEF ServeSubmission, db
  <1>3. phases[i] \in {"claimed", "held"}
    BY <1>1, <1>2 DEF SubmitInv, Claimed, Open, phases, Phase
  <1>4. runs[i] = {} /\ ends[o] = "none"
    BY <1>1, <1>2 DEF SubmitInv, Licence, FreeInv, runs, ends
  <1>5. operation' = [operation EXCEPT ![o] = [owner |-> i, state |-> "running"]]
    BY DEF ServeSubmission
  <1>6. runs' = [runs EXCEPT ![i] = {o}]
    <2>1. \A j \in Ids : j # None
      BY ValuesAssumption
    <2>2. \A p \in Operations : operation'[p].owner = IF p = o THEN i ELSE operation[p].owner
      BY <1>1, <1>5
    <2>3. \A j \in Ids : {p \in Operations : operation'[p].owner = j} =
                            IF j = i THEN {o} ELSE {p \in Operations : operation[p].owner = j}
      BY <1>1, <1>2, <1>4, <2>1, <2>2 DEF runs
    <2> QED BY <1>1, <2>3 DEF runs
  <1>7. ends' = [ends EXCEPT ![o] = "running"]
    BY <1>1, <1>5 DEF ends
  <1>8. phases' = phases
    BY <1>2 DEF phases
  <1>9. Contract!Start(i, o)
    BY <1>3, <1>4, <1>6, <1>7, <1>8 DEF Contract!Start, phases, runs, ends
  <1> QED BY <1>1, <1>9 DEF Contract!Next

\* The end of an operation is the contract's.
LEMMA EndEnds ==
    ASSUME TypeInv, NEW o \in Operations, NEW s \in {"finished", "failed"},
           EndOperation(o, s)
    PROVE  Contract!Next
  <1>1. operation \in [Operations -> RemoteOperations] /\ UNCHANGED processing
    BY DEF TypeInv, RemoteOK, EndOperation, db
  <1>2. \A p \in Operations : /\ operation'[p].owner = operation[p].owner
                              /\ operation'[p].state = IF p = o THEN s ELSE operation[p].state
    BY <1>1 DEF EndOperation, RemoteOperations
  <1>3. ends[o] = "running" /\ ends' = [ends EXCEPT ![o] = s]
    BY <1>2 DEF EndOperation, ends
  <1>4. runs' = runs /\ phases' = phases
    BY <1>1, <1>2 DEF runs, phases
  <1>5. Contract!End(o)
    BY <1>3, <1>4 DEF Contract!End, phases, runs, ends
  <1> QED BY <1>5 DEF Contract!Next

\* A row that becomes tracked, completed or failed says what its operation did:
\* the facts about one write that the contract asks for.
LEMMA WriteBacked ==
    ASSUME TypeInv, RowsInv, RefInv, SubmitInv, OutcomeInv, [Next]_vars,
           UNCHANGED operation, NEW i \in Ids
    PROVE  LET p == processing[i].state
               q == processing'[i].state
           IN \/ Phase(q) = Phase(p)
              \/ p = "none" /\ q = "accepted"
              \/ p \in {"accepted", "planned"} /\ q \in {"submitting", "completed", "failed"}
              \/ p = "submitting" /\ q = "failed" /\ runs[i] = {}
              \/ p = "submitting" /\ q = "submitted" /\ runs[i] # {}
              \/ p \in {"submitting", "submitted"} /\ q = "recovery_required"
              \/ p = "submitted" /\ q = "completed" /\ \A o \in runs[i] : ends[o] = "finished"
              \/ p = "submitted" /\ q = "failed" /\ \A o \in runs[i] : ends[o] = "failed"
  <1> DEFINE p == processing[i].state
             q == processing'[i].state
  <1>1. RowStep(i)
    BY NextRowStep
  <1>2. processing[i] \in Rows /\ attempt[i] \in Attempts
    BY DEF TypeInv, DbOK
  <1>3. /\ \A t \in Threads : pc[t] \in WithOperation =>
             job[t].ext \in Operations /\ operation[job[t].ext].owner = job[t].id
        /\ i # None
    BY ValuesAssumption DEF TypeInv, ThreadOK, Jobs, RefInv
  <1>4. \A o, u \in Operations : o \in runs[i] /\ u \in runs[i] => o = u
    BY <1>3 DEF runs, SubmitInv, AtMostOneOperation
  <1>5. ASSUME NEW t \in Threads, pc[t] \in WithOperation, job[t].id = i
        PROVE  job[t].ext \in runs[i] /\ \A o \in runs[i] : o = job[t].ext
    BY <1>3, <1>4, <1>5 DEF runs
  <1>6. ASSUME NEW t \in Threads, pc[t] = "record", job[t].id = i,
               p = "submitting", q = "submitted"
        PROVE  runs[i] # {}
    BY <1>5, <1>6 DEF WithOperation
  <1>7. ASSUME NEW t \in Threads, pc[t] = "complete", job[t].id = i
        PROVE  \A o \in runs[i] : ends[o] = "finished"
    <2>1. operation[job[t].ext].state = "finished"
      BY <1>7 DEF OutcomeInv, SeenInv
    <2> QED BY <1>5, <1>7, <2>1 DEF WithOperation, runs, ends
  <1>8. ASSUME NEW t \in Threads, pc[t] = "fail", job[t].id = i
        PROVE  \A o \in runs[i] : ends[o] = "failed"
    <2>1. operation[job[t].ext].state = "failed"
      BY <1>8 DEF OutcomeInv, SeenInv
    <2> QED BY <1>5, <1>8, <2>1 DEF WithOperation, runs, ends
  <1>9. ASSUME NEW t \in Threads, pc[t] = "reject", job[t].id = i
        PROVE  runs[i] = {}
    BY <1>9 DEF SubmitInv, Licence, Holder, runs
  <1>10. CASE \/ Kept(i)
              \/ p = "accepted"
              \/ p = "none" /\ \E t \in Threads :
                   Wrote(i, AcceptedRow(job[t].key, job[t].alert), attempt[i])
    <2>1. p = "accepted" => q \in {"accepted", "planned", "completed", "failed"}
      BY <1>1, <1>2 DEF RowStep, FailCase, Kept, Wrote, Rows
    <2>2. p = "none" => q \in {"none", "accepted"}
      BY <1>1, <1>2 DEF RowStep, FailCase, Kept, Wrote, AcceptedRow, NoRow, Rows
    <2>3. Kept(i) => q = p
      BY DEF Kept
    <2> QED BY <1>10, <2>1, <2>2, <2>3 DEF Phase
  <1>11. CASE p = "planned"
    BY <1>1, <1>2, <1>11 DEF RowStep, FailCase, Kept, Wrote, Rows
  <1>12. CASE p = "submitting"
    <2>1. \/ q = "submitting" \/ q = "recovery_required"
          \/ q = "submitted" /\ \E t \in Threads : pc[t] = "record" /\ job[t].id = i
          \/ q = "failed" /\ \E t \in Threads : pc[t] = "reject" /\ job[t].id = i
      BY <1>1, <1>2, <1>12 DEF RowStep, FailCase, Kept, Wrote, Rows
    <2> QED BY <1>6, <1>9, <1>12, <2>1
  <1>13. CASE p = "submitted"
    <2>1. \/ q = "submitted" \/ q = "recovery_required"
          \/ q = "completed" /\ \E t \in Threads : pc[t] = "complete" /\ job[t].id = i
          \/ q = "failed" /\ \E t \in Threads : pc[t] = "fail" /\ job[t].id = i
      BY <1>1, <1>2, <1>13 DEF RowStep, FailCase, Kept, Wrote, Rows
    <2> QED BY <1>7, <1>8, <1>13, <2>1
  <1> QED BY <1>1, <1>10, <1>11, <1>12, <1>13 DEF RowStep, FailCase

\* A write of one row is a step of the contract or none.
LEMMA WriteMoves ==
    ASSUME TypeInv, RowsInv, RefInv, SubmitInv, OutcomeInv, [Next]_vars,
           UNCHANGED operation
    PROVE  Contract!Next \/ UNCHANGED <<phases, runs, ends>>
  <1>1. runs' = runs /\ ends' = ends
    BY DEF runs, ends
  <1> SUFFICES ASSUME phases' # phases PROVE Contract!Next
    BY <1>1
  <1>2. PICK i \in Ids : \E r : processing' = [processing EXCEPT ![i] = r]
    BY NextOneWrite DEF OneWrite, phases
  <1> DEFINE p == processing[i].state
             q == processing'[i].state
  <1>3. \A j \in Ids : j # i => processing'[j] = processing[j]
    BY <1>2 DEF TypeInv, DbOK
  <1>4. phases' = [phases EXCEPT ![i] = Phase(q)]
    BY <1>3 DEF phases
  <1>5. Phase(q) # Phase(p)
    BY <1>4 DEF phases
  <1>6. ASSUME NEW from, phases[i] \in from
        PROVE  Contract!Move(i, from, Phase(q))
    BY <1>1, <1>4, <1>6 DEF Contract!Move, phases, runs, ends
  <1>7. phases[i] = Phase(p)
    BY DEF phases
  <1>8. CASE p = "none" /\ q = "accepted"
    <2>1. phases[i] \in {"absent"} /\ Phase(q) = "open"
      BY <1>7, <1>8 DEF Phase
    <2>2. Contract!Move(i, {"absent"}, "open")
      BY <1>6, <2>1
    <2>3. Contract!Accept(i)
      BY <2>2 DEF Contract!Accept
    <2> QED BY <2>3 DEF Contract!Next
  <1>9. CASE p \in {"accepted", "planned"} /\ q \in {"submitting", "completed", "failed"}
    <2>1. phases[i] \in {"open"} /\ Phase(q) \in {"claimed", "completed", "failed"}
      BY <1>7, <1>9 DEF Phase
    <2>2. Contract!Move(i, {"open"}, Phase(q))
      BY <1>6, <2>1
    <2>3. Contract!Decline(i) \/ Contract!Claim(i)
      BY <2>1, <2>2 DEF Contract!Decline, Contract!Claim
    <2> QED BY <2>3 DEF Contract!Next
  <1>10. CASE p = "submitting" /\ q = "failed" /\ runs[i] = {}
    <2>1. phases[i] \in {"claimed"} /\ Phase(q) = "failed"
      BY <1>7, <1>10 DEF Phase
    <2>2. Contract!Move(i, {"claimed"}, "failed")
      BY <1>6, <2>1
    <2>3. Contract!Reject(i)
      BY <1>10, <2>2 DEF Contract!Reject, runs
    <2> QED BY <2>3 DEF Contract!Next
  <1>11. CASE p = "submitting" /\ q = "submitted" /\ runs[i] # {}
    <2>1. phases[i] \in {"claimed"} /\ Phase(q) = "tracked"
      BY <1>7, <1>11 DEF Phase
    <2>2. Contract!Move(i, {"claimed"}, "tracked")
      BY <1>6, <2>1
    <2>3. Contract!Track(i)
      BY <1>11, <2>2 DEF Contract!Track, runs
    <2> QED BY <2>3 DEF Contract!Next
  <1>12. CASE p \in {"submitting", "submitted"} /\ q = "recovery_required"
    <2>1. phases[i] \in {"claimed", "tracked"} /\ Phase(q) = "held"
      BY <1>7, <1>12 DEF Phase
    <2>2. Contract!Move(i, {"claimed", "tracked"}, "held")
      BY <1>6, <2>1
    <2>3. Contract!Hold(i)
      BY <2>2 DEF Contract!Hold
    <2> QED BY <2>3 DEF Contract!Next
  <1>13. CASE p = "submitted" /\ q = "completed" /\ \A o \in runs[i] : ends[o] = "finished"
    <2>1. phases[i] \in {"tracked"} /\ Phase(q) = "completed"
      BY <1>7, <1>13 DEF Phase
    <2>2. Contract!Move(i, {"tracked"}, "completed")
      BY <1>6, <2>1
    <2>3. Contract!Complete(i)
      BY <1>13, <2>2 DEF Contract!Complete, runs, ends
    <2> QED BY <2>3 DEF Contract!Next
  <1>14. CASE p = "submitted" /\ q = "failed" /\ \A o \in runs[i] : ends[o] = "failed"
    <2>1. phases[i] \in {"tracked"} /\ Phase(q) = "failed"
      BY <1>7, <1>14 DEF Phase
    <2>2. Contract!Move(i, {"tracked"}, "failed")
      BY <1>6, <2>1
    <2>3. Contract!Fail(i)
      BY <1>14, <2>2 DEF Contract!Fail, runs, ends
    <2> QED BY <2>3 DEF Contract!Next
  <1> QED BY <1>5, <1>8, <1>9, <1>10, <1>11, <1>12, <1>13, <1>14, WriteBacked

\* Seen from the tables and the backend alone the processor implements the
\* contract: one claim, at most one operation, and a final state that says how
\* that operation ended.
THEOREM ContractImplemented == Spec => ImplementsContract
  <1>1. Init => Contract!Init
    <2>1. \A i \in Ids : i # None
      BY ValuesAssumption
    <2> QED BY <2>1 DEF Init, Contract!Init, NoRow, Phase
  <1>2. TypeInv /\ RowsInv /\ RefInv /\ SubmitInv /\ OutcomeInv /\ FreeInv /\ [Next]_vars =>
          [Contract!Next]_<<[i \in Ids |-> Phase(processing[i].state)],
                            [i \in Ids |-> {o \in Operations : operation[o].owner = i}],
                            [o \in Operations |-> operation[o].state]>>
    <2>1. TypeInv /\ RowsInv /\ RefInv /\ SubmitInv /\ OutcomeInv /\ FreeInv /\ [Next]_vars =>
            Contract!Next \/ UNCHANGED <<phases, runs, ends>>
      BY OperationStep, ServeStarts, EndEnds, WriteMoves
    <2> QED BY <2>1 DEF phases, runs, ends
  <1> QED BY <1>1, <1>2, InitType, NextType, InitRows, NextRows, InitRef, NextRef,
             InitSubmit, NextSubmit, InitOutcome, NextOutcome, InitFree, NextFree, PTL
          DEF Spec, ImplementsContract, Contract!Spec
=============================================================================
