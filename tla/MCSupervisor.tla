--------------------------- MODULE MCSupervisor ---------------------------
(* The supervisor of one transport, for TLC. *)
EXTENDS Supervisor

=============================================================================
