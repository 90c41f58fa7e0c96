-------------------------- MODULE MCRepositoryRows --------------------------
(* Small instance of RepositoryRows. *)
EXTENDS RepositoryRows
=============================================================================
