---------------------------- MODULE MCSocketWriter ----------------------------
(* Small instances of SocketWriter for TLC. *)
EXTENDS SocketWriter
=============================================================================
