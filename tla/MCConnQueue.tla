----------------------------- MODULE MCConnQueue -----------------------------
(* A small pool for TLC. *)
EXTENDS ConnQueue, TLC

CONSTANTS w1, w2, w3, f1, f2, f3, f4
=============================================================================
