---------------------------- MODULE DurableRows ----------------------------
(***************************************************************************)
(* What the core promises a client about its processing rows: a row is     *)
(* created once per scoped identity, keeps its identity and its alert, and *)
(* leaves "active" at most once, for good.  This is the part of the core   *)
(* the Splunk gateway and the alert action rely on.                        *)
(***************************************************************************)

CONSTANTS Ids, Identities, Alerts, None

VARIABLE row

Closed == {"completed", "failed", "unsupported"}

PublicRows == [state: {"absent", "active"} \cup Closed,
               identity: Identities \cup {None}, alert: Alerts \cup {None}]

Absent == [state |-> "absent", identity |-> None, alert |-> None]

Init == row = [i \in Ids |-> Absent]

Holder(i, k) == row[i].state # "absent" /\ row[i].identity = k

\* A new row for an identity nobody holds.
Accept(i, k, a) ==
    /\ row[i] = Absent
    /\ ~\E j \in Ids : Holder(j, k)
    /\ row' = [row EXCEPT ![i] = [state |-> "active", identity |-> k, alert |-> a]]

\* An active row ends.
Close(i, s) ==
    /\ row[i].state = "active"
    /\ s \in Closed
    /\ row' = [row EXCEPT ![i].state = s]

Next ==
    \E i \in Ids :
        \/ \E k \in Identities, a \in Alerts : Accept(i, k, a)
        \/ \E s \in Closed : Close(i, s)

Spec == Init /\ [][Next]_row
=============================================================================
