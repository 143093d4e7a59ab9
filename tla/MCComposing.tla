---------------------------- MODULE MCComposing ----------------------------
(* Composing, for TLC: one batch on one target, two templates to pick from. *)
EXTENDS Composing

CONSTANTS b1, u1, m1, m2
=============================================================================
