----------------------------- MODULE MCSupervisor -----------------------------
(* Instances of Supervisor.                                                *)
EXTENDS Supervisor
=============================================================================
