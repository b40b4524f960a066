----------------------------- MODULE MCIdaLoop -----------------------------
(* Small instances of IdaLoop for TLC.                                     *)
EXTENDS IdaLoop, TLC

CONSTANTS c1, c2, a, b

TwoClients == {c1, c2}
OneClient == {c1}
TwoPaths == {a, b}
OnePath == {a}

Symmetry == Permutations(TwoClients) \cup Permutations(TwoPaths)

=============================================================================
