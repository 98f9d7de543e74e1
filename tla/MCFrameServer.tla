---------------------------- MODULE MCFrameServer ----------------------------
(* Small instances of FrameServer for TLC. *)
EXTENDS FrameServer, TLC

CONSTANTS c1, c2, c3, w1, w2

\* The first client speaks or pings, once; the others come and go.
OneAsks == [c \in Conns |-> IF c = c1 THEN {"TEXT", "PING"} ELSE {}]

Symmetry == Permutations(Workers) \cup Permutations({c2, c3})
=============================================================================
