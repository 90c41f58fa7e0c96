------------------------- MODULE MCDurableProcessing -------------------------
(* Instances of DurableProcessing for TLC. *)
EXTENDS DurableProcessing, TLC

CONSTANTS a1, a3, b1, b2

OneSource  == [a \in Alerts |-> "splunk"]
OneBackend == {{b1}}
AnyRouting == {{}, {b1}, {b1, b2}}

\* Ids, operations and request threads are interchangeable. (A singleton has
\* only the identity, which TLC wants left out.)
Symmetry == UNION {Permutations(S) : S \in {Ids, Operations, Requests}}

\* No step depends on what clients were told.
ExceptReplies == <<processing, attempt, operation, wire, stale, config, startupDue,
                   pc, job, todo>>
=============================================================================
