-------------------------- MODULE MCHealthMonitor --------------------------
(***************************************************************************)
(* Instances of HealthMonitor for TLC.  One tick stands for 500 ms, the    *)
(* gateway's heartbeat interval: SUSPECTED after 2 ticks (1 s), FAILED     *)
(* after 4 (2 s).                                                          *)
(***************************************************************************)
EXTENDS HealthMonitor

=============================================================================
