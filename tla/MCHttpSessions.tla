---------------------------- MODULE MCHttpSessions ----------------------------
(* Small instances of HttpSessions for TLC. *)
EXTENDS HttpSessions, TLC

CONSTANTS s1, s2, x1, x2, x3, x4

OneSession == {s1}
TwoSessions == {s1, s2}
ThreeStreams == {x1, x2, x3}
FourStreams == {x1, x2, x3, x4}
StreamSymmetry == Permutations(FourStreams)
=============================================================================
