---------------------------- MODULE MCDispatcher ----------------------------
(* Dispatcher for TLC. *)
EXTENDS Dispatcher
=============================================================================
