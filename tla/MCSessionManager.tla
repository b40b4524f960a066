-------------------------- MODULE MCSessionManager --------------------------
(* Instances of SessionManager for TLC. *)
EXTENDS SessionManager, TLC

Symmetry == Permutations(Sessions) \cup Permutations(Ids) \cup Permutations(Paths)
              \cup Permutations(Tasks)

Anywhere == PCs
Nowhere  == {}
=============================================================================
