-------------------------- MODULE ProcessingContract --------------------------
(***************************************************************************)
(* What durable processing promises about each processing, without threads,*)
(* tables, messages or crashes: at most one backend operation, started only*)
(* under a claim, and a final state that says what became of it.           *)
(***************************************************************************)
CONSTANTS Ids, Operations

VARIABLES
    phase,   \* what the durable record says of each processing
    runs,    \* the backend operations of each processing
    ended    \* how each operation ended

Phases == {"absent", "open", "claimed", "tracked", "held", "completed", "failed"}
Ends   == {"none", "running", "finished", "failed"}

Init ==
    /\ phase = [i \in Ids |-> "absent"]
    /\ runs = [i \in Ids |-> {}]
    /\ ended = [o \in Operations |-> "none"]

Move(i, from, to) ==
    /\ phase[i] \in from
    /\ phase' = [phase EXCEPT ![i] = to]
    /\ UNCHANGED <<runs, ended>>

Accept(i) == Move(i, {"absent"}, "open")

\* No action is needed, or no backend can be used: closed before any claim.
Decline(i) == Move(i, {"open"}, "completed") \/ Move(i, {"open"}, "failed")

Claim(i) == Move(i, {"open"}, "claimed")

\* The backend definitively refused: there is and will be no operation.
Reject(i) == runs[i] = {} /\ Move(i, {"claimed"}, "failed")

\* The operation may start late, after its row was given to an operator.
Start(i, o) ==
    /\ phase[i] \in {"claimed", "held"}
    /\ runs[i] = {}
    /\ ended[o] = "none"
    /\ runs' = [runs EXCEPT ![i] = {o}]
    /\ ended' = [ended EXCEPT ![o] = "running"]
    /\ UNCHANGED phase

End(o) ==
    /\ ended[o] = "running"
    /\ \E s \in {"finished", "failed"} : ended' = [ended EXCEPT ![o] = s]
    /\ UNCHANGED <<phase, runs>>

Track(i) == runs[i] # {} /\ Move(i, {"claimed"}, "tracked")

\* What is not known is left to an operator.
Hold(i) == Move(i, {"claimed", "tracked"}, "held")

Complete(i) == /\ \A o \in runs[i] : ended[o] = "finished"
               /\ Move(i, {"tracked"}, "completed")

Fail(i) == /\ \A o \in runs[i] : ended[o] = "failed"
           /\ Move(i, {"tracked"}, "failed")

Next ==
    \/ \E i \in Ids : \/ Accept(i) \/ Decline(i) \/ Claim(i) \/ Reject(i) \/ Track(i)
                      \/ Hold(i) \/ Complete(i) \/ Fail(i)
                      \/ \E o \in Operations : Start(i, o)
    \/ \E o \in Operations : End(o)

Spec == Init /\ [][Next]_<<phase, runs, ended>>
=============================================================================
