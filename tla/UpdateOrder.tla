----------------------------- MODULE UpdateOrder -----------------------------
(***************************************************************************)
(* The order of the processings by updated_at, oldest first, as a          *)
(* sequence of their ids: what a write does to it, and what a query that   *)
(* is ordered by it and has a limit returns.                               *)
(***************************************************************************)
EXTENDS Naturals, Sequences, FiniteSets

Without(order, id) ==
    IF \E n \in DOMAIN order : order[n] = id
    THEN LET n == CHOOSE n \in DOMAIN order : order[n] = id
         IN SubSeq(order, 1, n - 1) \o SubSeq(order, n + 1, Len(order))
    ELSE order

\* updated_at = now moves the row behind all others.
Touch(order, id) == Append(Without(order, id), id)

\* Row i is row j, or was written before it.
Earlier(order, i, j) ==
    \E n \in DOMAIN order : order[n] = j /\ \E m \in 1 .. n : order[m] = i

\* ORDER BY updated_at LIMIT limit, over the rows of a WHERE clause: the n-th
\* is the one before which, itself included, n of them were written.
Oldest(order, rows, limit) ==
    LET size     == Cardinality(rows)
        Place(i) == Cardinality({j \in rows : Earlier(order, j, i)})
    IN [n \in 1 .. (IF size < limit THEN size ELSE limit) |->
            CHOOSE i \in rows : Place(i) = n]
=============================================================================
