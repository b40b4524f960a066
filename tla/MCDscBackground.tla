--------------------------- MODULE MCDscBackground ---------------------------
(* Small instances of DscBackground for TLC. *)
EXTENDS DscBackground

CONSTANTS t1, t2, c1

TwoCalls == {t1, t2}
OneCache == {c1}
=============================================================================
