------------------------- MODULE ElectionParameters -------------------------
(***************************************************************************)
(* The parameters of LeaderElection and what is assumed of them, apart so  *)
(* that MonitoringSystem, which has the election as a part, shares them.   *)
(***************************************************************************)
EXTENDS Integers, Deployment

CONSTANTS
  Conn,           \* connections in one pod's pool
  LeaderLease,    \* LEADER_LEASE_SECONDS, in ticks
  BootLease,      \* lease_expires_at (time left) of the bootstrap row
  MaxFaults,      \* bound: crashes, stops, lost connections, database errors
  MaxHold         \* bound: advisory holds one connection accumulates

ASSUME LeaderElectionAssumption ==
  /\ None \notin Pod /\ None \notin Int
  /\ LeaderLease \in Nat \ {0}
  /\ BootLease \in {None} \union (-1 .. LeaderLease)
  /\ MaxFaults \in Nat
  /\ MaxHold \in Nat \ {0}

=============================================================================
