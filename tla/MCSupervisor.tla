---------------------------- MODULE MCSupervisor ----------------------------
(***************************************************************************)
(* Three agents whose recalls run in worker threads, and the one           *)
(* synchronous call of the event loop, over the whole life of the process. *)
(***************************************************************************)
EXTENDS Supervisor

=============================================================================
