----------------------------- MODULE MCEndpoints -----------------------------
(* Endpoints for TLC: its endpoints, processes and names are interchangeable. *)
EXTENDS Endpoints, TLC

Symmetry == Permutations(Ids) \cup Permutations(Procs) \cup Permutations(Names)
=============================================================================
