-------------------------- MODULE MCReconnectClient --------------------------
(* A small instance of ReconnectClient for TLC. *)
EXTENDS ReconnectClient

CONSTANT none  \* no descriptor, connection or frame

\* Two descriptors, so that one left open would not go unnoticed.
TwoFds == {1, 2}
=============================================================================
