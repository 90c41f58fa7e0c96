------------------------- MODULE MCVelociraptorFlows -------------------------
(* Small instances of VelociraptorFlows. *)
EXTENDS VelociraptorFlows

CONSTANTS o1, o2, o3, h1, c1, c2

\* o1 and o2 on the mapped host, o3 with a target that is not a host.
MCTarget == [o \in Operations |-> IF o = o3 THEN None ELSE h1]

\* The host is served by one client, by another, or not mapped.
MCMappings == [Hosts -> Clients \cup {None}]
=============================================================================
