---------------------------- MODULE ReconcilePass ----------------------------
(***************************************************************************)
(* PersistentAlertProcessor.reconcile_once: which rows a pass takes, in    *)
(* which order, under a row limit and a time limit, and what one row's     *)
(* failure does to the others.  Passes are started by the API process and  *)
(* by an operator, again and again; several may run at once, and request   *)
(* threads work on the rows they accepted meanwhile.  What happens to one  *)
(* row is a single step here (DurableProcessing has its interleavings).    *)
(***************************************************************************)
EXTENDS Naturals, Sequences, FiniteSets, UpdateOrder

CONSTANTS
    Rows,     \* processings
    Passes,   \* processes that run passes
    Limit,    \* rows a pass takes
    Budget,   \* time units a pass has
    Faults    \* bound: database failures and crashes

ASSUME BoundsAssumption == Limit \in Nat \ {0} /\ Budget \in Nat \ {0} /\ Faults \in Nat

VARIABLES
    row,      \* state of each processing
    order,    \* processings by updated_at, oldest first
    pass,     \* the run of each pass
    faults    \* failures so far

vars == <<row, order, pass, faults>>

\* "stale" is a submitting row whose attempt started before the threshold;
\* "closed" is completed, failed or recovery_required.
RowStates == {"absent", "accepted", "planned", "submitting", "stale",
              "submitted", "closed"}

\* find_reconcilable's WHERE clause.
Offered == {"accepted", "planned", "stale", "submitted"}

Read == [id: Rows, state: Offered]

\* at: outside a run, at the loop's head, reading the row's attempt for the
\* log context, handling the row, returned, or ended by an exception.
PassStates == {"idle", "loop", "context", "row", "returned", "raised"}

\* counted: the report's advanced and failed rows, which exclude each other.
NoPass == [at |-> "idle", batch |-> <<>>, left |-> 0, found |-> 0,
           examined |-> 0, counted |-> 0, timedOut |-> FALSE]

Fault == faults < Faults /\ faults' = faults + 1

-----------------------------------------------------------------------------
(* Rows, outside the passes. *)

\* A request is accepted.
Arrive(r) ==
    /\ row[r] = "absent"
    /\ row' = [row EXCEPT ![r] = "accepted"]
    /\ order' = Touch(order, r)
    /\ UNCHANGED <<pass, faults>>

\* What one committed step of a request thread does to its row.
RequestSteps ==
    ({"accepted"} \X {"planned", "closed"})
    \cup ({"planned"} \X {"submitting", "closed"})
    \cup ({"submitting", "stale"} \X {"submitted", "closed"})
    \cup ({"submitted"} \X {"closed"})

\* The request thread that accepted a row works on it.
AdvanceRequest(r) ==
    \E s \in RowStates :
        /\ <<row[r], s>> \in RequestSteps
        /\ row' = [row EXCEPT ![r] = s]
        /\ order' = Touch(order, r)
        /\ UNCHANGED <<pass, faults>>

\* A submission gets old enough to be given up.
Age(r) ==
    /\ row[r] = "submitting"
    /\ row' = [row EXCEPT ![r] = "stale"]
    /\ UNCHANGED <<order, pass, faults>>

-----------------------------------------------------------------------------
(* One pass. *)

\* Mutant: the age of a submitting row's attempt is not compared.
FoundUnaged ==
    LET ids == Oldest(order, {r \in Rows : row[r] \in Offered \cup {"submitting"}}, Limit)
    IN [n \in DOMAIN ids |-> [id |-> ids[n], state |-> row[ids[n]]]]

\* find_reconcilable: the Limit oldest rows that are offered, as they are now.
Found ==
    LET ids == Oldest(order, {r \in Rows : row[r] \in Offered}, Limit)
    IN [n \in DOMAIN ids |-> [id |-> ids[n], state |-> row[ids[n]]]]

StartPass(p) ==
    /\ pass[p].at \in {"idle", "returned", "raised"}
    /\ \E batch \in {Found} :
         pass' = [pass EXCEPT ![p] = [NoPass EXCEPT !.at = "loop", !.batch = batch,
                                          !.found = Len(batch), !.left = Budget]]
    /\ UNCHANGED <<row, order, faults>>

\* The query for the rows fails.
FailFind(p) ==
    /\ pass[p].at \in {"idle", "returned", "raised"}
    /\ Fault
    /\ pass' = [pass EXCEPT ![p] = [NoPass EXCEPT !.at = "raised"]]
    /\ UNCHANGED <<row, order>>

\* The head of the loop: no rows or no time left ends the pass.
NextRow(p) ==
    /\ pass[p].at = "loop"
    /\ IF pass[p].left = 0
       THEN pass' = [pass EXCEPT ![p].at = "returned", ![p].batch = <<>>,
                                 ![p].timedOut = TRUE]
       ELSE IF pass[p].batch = <<>>
       THEN pass' = [pass EXCEPT ![p].at = "returned"]
       ELSE pass' = [pass EXCEPT ![p].at = "context", ![p].examined = @ + 1]
    /\ UNCHANGED <<row, order, faults>>

\* get_attempt_for_processing, read for the context of the row's events.
ReadContext(p) ==
    /\ pass[p].at = "context"
    /\ pass' = [pass EXCEPT ![p].at = "row"]
    /\ UNCHANGED <<row, order, faults>>

\* That read is outside the try of the row: its failure ends the pass.
FailContext(p) ==
    /\ pass[p].at = "context"
    /\ Fault
    /\ pass' = [pass EXCEPT ![p].at = "raised", ![p].batch = <<>>]
    /\ UNCHANGED <<row, order>>

Current(p) == Head(pass[p].batch)

\* The row has been handled, and counts (1) as advanced or failed, or not (0):
\* the rest of the batch, with the time left.
Handled(p, count, left) ==
    pass' = [pass EXCEPT ![p].at = "loop", ![p].batch = Tail(@), ![p].left = left,
                         ![p].counted = @ + count]

\* The writes on the way from the state a row is read in, in their order, ...
Written == [accepted  |-> {"planned", "submitting", "submitted", "closed"},
            planned   |-> {"submitting", "submitted", "closed"},
            stale     |-> {"closed"},
            submitted |-> {"submitted", "closed"}]

\* ... and the states handling it ends in, if nothing fails and time is left.
HandledStates(s) == Written[s] \cap {"submitted", "closed"}

\* Mutant: a poll that finds the operation running writes nothing.
HandleRowQuietly(p) ==
    /\ pass[p].at = "row"
    /\ row[Current(p).id] = Current(p).state
    /\ \E s \in HandledStates(Current(p).state), left \in 0 .. pass[p].left :
         /\ row' = [row EXCEPT ![Current(p).id] = s]
         /\ order' = IF s = Current(p).state THEN order ELSE Touch(order, Current(p).id)
         /\ Handled(p, IF s = Current(p).state THEN 0 ELSE 1, left)
    /\ UNCHANGED faults

\* The row is as it was read: it is carried on as far as it goes, and every
\* of these writes updated_at.  A backend call may take all the time left; an
\* operation still running, or a poll that timed out, leaves it submitted.
HandleRow(p) ==
    /\ pass[p].at = "row"
    /\ row[Current(p).id] = Current(p).state
    /\ \E s \in HandledStates(Current(p).state), left \in 0 .. pass[p].left :
         /\ row' = [row EXCEPT ![Current(p).id] = s]
         /\ order' = Touch(order, Current(p).id)
         /\ Handled(p, IF s = Current(p).state THEN 0 ELSE 1, left)
    /\ UNCHANGED faults

\* No backend is capable, or several are: the row is failed, and the error
\* raised again, which counts as a failure of the row.
FailPlanning(p) ==
    /\ pass[p].at = "row"
    /\ Current(p).state = "accepted" /\ row[Current(p).id] = "accepted"
    /\ row' = [row EXCEPT ![Current(p).id] = "closed"]
    /\ order' = Touch(order, Current(p).id)
    /\ \E left \in 0 .. pass[p].left : Handled(p, 1, left)
    /\ UNCHANGED faults

\* Reading the row and its attempt has taken all the time left (the bound
\* counts it as a fault): it is not claimed and not polled.
ExpireRow(p) ==
    LET r == Current(p).id
    IN /\ pass[p].at = "row"
       /\ row[r] = Current(p).state
       /\ Fault
       /\ \/ /\ row[r] = "accepted"
             /\ row' = [row EXCEPT ![r] = "planned"]
             /\ order' = Touch(order, r)
             /\ Handled(p, 1, 0)
          \/ /\ row[r] \in {"planned", "submitted"}
             /\ Handled(p, 0, 0)
             /\ UNCHANGED <<row, order>>

\* Someone else has moved the row on: the update misses and it is re-read, or
\* the loser's error is raised, or the time is up before it is noticed. As
\* everywhere, any part of the time left may have passed.
LoseRow(p) ==
    /\ pass[p].at = "row"
    /\ row[Current(p).id] # Current(p).state
    /\ \E count \in {0, 1}, left \in 0 .. pass[p].left : Handled(p, count, left)
    /\ UNCHANGED <<row, order, faults>>

\* Mutant: an exception ends the pass as if its rows were done.
FailRowAndStop(p) ==
    /\ pass[p].at = "row"
    /\ Fault
    /\ pass' = [pass EXCEPT ![p].at = "returned", ![p].batch = <<>>, ![p].counted = @ + 1]
    /\ UNCHANGED <<row, order>>

\* Handling the row raises, after any of its writes; the pass goes on.
FailRow(p) ==
    LET r == Current(p).id
    IN /\ pass[p].at = "row"
       /\ Fault
       /\ \/ UNCHANGED <<row, order>>
          \/ /\ row[r] = Current(p).state
             /\ row' \in {[row EXCEPT ![r] = s] : s \in Written[Current(p).state]}
             /\ order' = Touch(order, r)
       /\ \E left \in 0 .. pass[p].left : Handled(p, 1, left)

\* The process dies; what it committed stays.
Crash(p) ==
    /\ pass[p].at \in {"loop", "context", "row"}
    /\ Fault
    /\ pass' = [pass EXCEPT ![p] = NoPass]
    /\ UNCHANGED <<row, order>>

Work(p) ==
    \/ StartPass(p) \/ NextRow(p) \/ ReadContext(p)
    \/ HandleRow(p) \/ FailPlanning(p) \/ LoseRow(p)

Init ==
    /\ row = [r \in Rows |-> "absent"]
    /\ order = <<>>
    /\ pass = [p \in Passes |-> NoPass]
    /\ faults = 0

Next ==
    \/ \E r \in Rows : Arrive(r) \/ AdvanceRequest(r) \/ Age(r)
    \/ \E p \in Passes : Work(p) \/ FailFind(p) \/ FailContext(p)
                         \/ ExpireRow(p) \/ FailRow(p) \/ Crash(p)

Spec == Init /\ [][Next]_vars

\* Passes are started again and again (API starts, the operator), and a
\* started one runs: its database and backend calls all have time limits.
FairSpec == Spec /\ \A p \in Passes : WF_vars(Work(p))

-----------------------------------------------------------------------------
(* Properties. *)

\* Each present row has one place in the order, and a pass holds rows as
\* find_reconcilable reads them and no more time than it was given.
TypeOK ==
    /\ row \in [Rows -> RowStates]
    /\ {order[n] : n \in DOMAIN order} = {r \in Rows : row[r] # "absent"}
    /\ Len(order) = Cardinality({r \in Rows : row[r] # "absent"})
    /\ \A p \in Passes :
         /\ pass[p].at \in PassStates
         /\ \A n \in DOMAIN pass[p].batch : pass[p].batch[n] \in Read
         /\ pass[p].left \in 0 .. Budget
    /\ faults \in 0 .. Faults

\* reconcile_once's report accounts for the rows it found: a pass that
\* returns before its time limit has examined all of them, whatever happened
\* to each, and never more than the limit.
ReportAccounts ==
    \A p \in Passes :
        /\ pass[p].examined <= pass[p].found /\ pass[p].found <= Limit
        /\ pass[p].counted <= pass[p].examined
        /\ pass[p].at = "returned" /\ ~pass[p].timedOut => pass[p].examined = pass[p].found

\* Every row that reconciliation is offered is examined by some pass sooner
\* or later, or leaves: rows that stay submitted, even ones that use up the
\* whole time limit of each pass, do not keep it out of the oldest Limit.
EveryRowReached ==
    \A r \in Rows :
        row[r] \in Offered ~>
            \/ \E p \in Passes : pass[p].at = "row" /\ Current(p).id = r
            \/ row[r] \notin Offered

\* "Run one bounded, failure-isolated pass over incomplete durable work": a
\* failure in the handling of one row does not keep the others from theirs.
FailureIsolated ==
    \A p \in Passes : pass[p].at = "raised" => pass[p].found = 0
=============================================================================
