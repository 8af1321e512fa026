-------------------------- MODULE MCLeaderElection --------------------------
(* The instances of LeaderElection that TLC checks.                        *)
EXTENDS LeaderElection

(* The lease of a scheduler_state row that already holds a past lease.     *)
ExpiredLease == -1

=============================================================================
