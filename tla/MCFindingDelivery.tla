------------------------- MODULE MCFindingDelivery -------------------------
(* Instances of FindingDelivery for TLC. *)
EXTENDS FindingDelivery, TLC

CONSTANTS s1, s2, event, spelling, k1, alert1, alert2

\* Two invocations; the second freezes another body of the same event.
TwoFindings == [s \in Senders |-> IF s = s1 THEN event ELSE spelling]

\* The identity leaves out what the two bodies differ in (the rule's title,
\* the level), the canonical alert does not.
SharedKey   == [f \in {event, spelling} |-> k1]
TwoAlerts   == [f \in {event, spelling} |-> IF f = event THEN alert1 ELSE alert2]

\* The first invocation goes through its attempts, and its first request may
\* arrive twice; the second makes one attempt.
MCPosts     == [s \in Senders |-> IF s = s1 THEN MaximumAttempts ELSE 1]
MCCopied    == {<<s1, 1>>}

\* Gateway calls and ids are interchangeable.
Alike == Permutations(Calls) \cup Permutations(Ids)
=============================================================================
