------------------------- MODULE MCMonitoringSystem -------------------------
(* The instances of MonitoringSystem that TLC checks.                      *)
EXTENDS MonitoringSystem, TLC

(* The lease of a scheduler_state row that already holds a past lease.     *)
ExpiredLease == -1

=============================================================================
