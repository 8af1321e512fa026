--------------------------- MODULE LeaderElection ---------------------------
(***************************************************************************)
(* Leader election among the backend pods: the scheduler_state row, the    *)
(* PostgreSQL session-level advisory lock, and the election half of        *)
(* MonitoringEngine's loop (backend/services/scheduler_service.py and      *)
(* monitoring_engine.py, PostgreSQL dialect).                              *)
(*                                                                         *)
(* Each statement that commits, or that another pod can observe, is one    *)
(* step.  A transaction reads one NOW(), so database time (Tick) does not  *)
(* advance inside the transaction that takes the lock and updates the row. *)
(* A lease is kept as the time it has left: lease_expires_at < NOW() is    *)
(* left < 0, lease_expires_at > NOW() is left > 0.                         *)
(*                                                                         *)
(* The advisory lock belongs to a CONNECTION, and the SQLAlchemy Session   *)
(* gives its connection back to the pool at every commit, so the unlock    *)
(* that follows a commit may be sent on another connection of the pool.    *)
(***************************************************************************)
EXTENDS ElectionParameters

VARIABLES
  epoch,          \* scheduler_state.current_epoch
  leader,         \* scheduler_state.leader_pod_id
  left,           \* scheduler_state.lease_expires_at - NOW(), None for NULL
  hold,           \* hold[p][c]: times the session of c holds the advisory lock
  pc,             \* where the pod's engine is in its cycle
  via,            \* the connection the pod's open election transaction uses
  isLeader,       \* MonitoringEngine._is_leader
  myEpoch,        \* MonitoringEngine._current_epoch
  faults          \* faults so far

dbVars     == <<epoch, leader, left>>
engineVars == <<pc, via, isLeader, myEpoch>>
evars      == <<dbVars, hold, engineVars, faults>>

Lease == -1 .. LeaderLease

PC == {"idle",      \* asleep between two cycles
       "locked",    \* the advisory lock is held, the epoch not yet updated
       "unlock",    \* about to send pg_advisory_unlock and become follower
       "claim",     \* leader, about to claim targets
       "stopped",   \* engine stopped, the process not yet gone
       "down"}      \* no process

ETypeOK ==
  /\ epoch \in Nat
  /\ leader \in Pod \union {None}
  /\ left \in Lease \union {None}
  /\ hold \in [Pod -> [Conn -> Nat]]
  /\ pc \in [Pod -> PC]
  /\ via \in [Pod -> Conn \union {None}]
  /\ isLeader \in [Pod -> BOOLEAN]
  /\ myEpoch \in [Pod -> Nat]
  /\ faults \in 0 .. MaxFaults

EInit ==
  /\ epoch = 0
  /\ leader = None
  /\ left = BootLease
  /\ hold = [p \in Pod |-> [c \in Conn |-> 0]]
  /\ pc = [p \in Pod |-> "idle"]
  /\ via = [p \in Pod |-> None]
  /\ isLeader = [p \in Pod |-> FALSE]
  /\ myEpoch = [p \in Pod |-> 0]
  /\ faults = 0

-----------------------------------------------------------------------------
(* The advisory lock.                                                      *)

LockFreeFor(p, c) ==
  \A q \in Pod, d \in Conn : <<q, d>> # <<p, c>> => hold[q][d] = 0

(* pg_advisory_unlock on c: gives back one hold, only a warning when the   *)
(* session of c does not hold the lock.                                    *)
Unlocked(p, c) ==
  [hold EXCEPT ![p][c] = IF hold[p][c] = 0 THEN 0 ELSE hold[p][c] - 1]

(* The connection the Session checks out for the unlock: any of the pool.  *)
(* MaxHold keeps a connection from accumulating holds for ever.            *)
UnlockConn(p) == {c \in Conn : \A d \in Conn \ {c} : hold[p][d] < MaxHold}

SpendFault == /\ faults < MaxFaults
              /\ faults' = faults + 1

Follow(p) == /\ isLeader' = [isLeader EXCEPT ![p] = FALSE]
             /\ myEpoch' = [myEpoch EXCEPT ![p] = 0]

-----------------------------------------------------------------------------
(* attempt_election: the cycle of a pod that is not the leader.            *)

TryAdvisoryLock(p, c) ==
  /\ pc[p] = "idle" /\ ~isLeader[p]
  /\ LockFreeFor(p, c)
  /\ hold' = [hold EXCEPT ![p][c] = @ + 1]
  /\ pc' = [pc EXCEPT ![p] = "locked"]
  /\ via' = [via EXCEPT ![p] = c]
  /\ UNCHANGED <<dbVars, isLeader, myEpoch, faults>>

(* Mutant: only the pod the row names is ever re-elected.                  *)
OwnerOnly(p) == leader = p

(* The WHERE clause of the epoch UPDATE; a NULL lease has not expired.     *)
LeaseAllows(p) == \/ left # None /\ left < 0
                  \/ leader = p

(* Mutant: a new leader takes the row without advancing the epoch.         *)
GrantSameEpoch(p) == /\ leader' = p
                     /\ left' = LeaderLease
                     /\ UNCHANGED epoch

(* Mutant: a pod the row already names keeps its epoch ("renewing").       *)
GrantUnlessOwner(p) == /\ epoch' = IF leader = p THEN epoch ELSE epoch + 1
                       /\ leader' = p
                       /\ left' = LeaderLease

(* Mutant: the UPDATE forgets leader_pod_id.                               *)
GrantAnonymously(p) == /\ epoch' = epoch + 1
                       /\ left' = LeaderLease
                       /\ UNCHANGED leader

GrantEpoch(p) == /\ epoch' = epoch + 1
                 /\ leader' = p
                 /\ left' = LeaderLease

AcquireEpoch(p) ==
  /\ pc[p] = "locked"
  /\ LeaseAllows(p)
  /\ GrantEpoch(p)
  /\ isLeader' = [isLeader EXCEPT ![p] = TRUE]
  /\ myEpoch' = [myEpoch EXCEPT ![p] = epoch + 1]
  /\ pc' = [pc EXCEPT ![p] = "claim"]
  /\ via' = [via EXCEPT ![p] = None]
  /\ UNCHANGED <<hold, faults>>

YieldToLease(p) ==
  /\ pc[p] = "locked"
  /\ ~LeaseAllows(p)
  /\ pc' = [pc EXCEPT ![p] = "unlock"]
  /\ via' = [via EXCEPT ![p] = None]
  /\ UNCHANGED <<dbVars, hold, isLeader, myEpoch, faults>>

(* The epoch UPDATE raises: before its commit, or after it, with the row   *)
(* already naming p; attempt_election unlocks and answers "follower".      *)
EpochUpdateError(p) ==
  /\ pc[p] = "locked"
  /\ SpendFault
  /\ \/ UNCHANGED dbVars
     \/ LeaseAllows(p) /\ GrantEpoch(p)
  /\ pc' = [pc EXCEPT ![p] = "unlock"]
  /\ via' = [via EXCEPT ![p] = None]
  /\ UNCHANGED <<hold, isLeader, myEpoch>>

ReleaseAndFollow(p, c) ==
  /\ pc[p] = "unlock"
  /\ c \in UnlockConn(p)
  /\ hold' = Unlocked(p, c)
  /\ pc' = [pc EXCEPT ![p] = "idle"]
  /\ Follow(p)
  /\ UNCHANGED <<dbVars, via, faults>>

-----------------------------------------------------------------------------
(* renew_lease: the cycle of a pod that believes it leads.                 *)

RowIsMine(p) == leader = p /\ epoch = myEpoch[p]

RenewLease(p) ==
  /\ pc[p] = "idle" /\ isLeader[p]
  /\ RowIsMine(p)
  /\ left' = LeaderLease
  /\ pc' = [pc EXCEPT ![p] = "claim"]
  /\ UNCHANGED <<epoch, leader, hold, via, isLeader, myEpoch, faults>>

RenewalRefused(p) ==
  /\ pc[p] = "idle" /\ isLeader[p]
  /\ ~RowIsMine(p)
  /\ pc' = [pc EXCEPT ![p] = "unlock"]
  /\ UNCHANGED <<dbVars, hold, via, isLeader, myEpoch, faults>>

(* The renewal raises: _cycle_step logs it, keeps _is_leader as it is and  *)
(* goes on to claim targets with the epoch it has.                         *)
RenewalError(p) ==
  /\ pc[p] = "idle" /\ isLeader[p]
  /\ SpendFault
  /\ \/ UNCHANGED left
     \/ RowIsMine(p) /\ left' = LeaderLease
  /\ pc' = [pc EXCEPT ![p] = "claim"]
  /\ UNCHANGED <<epoch, leader, hold, via, isLeader, myEpoch>>

(* The end of the cycle: claim_targets runs with myEpoch[p] (the claim     *)
(* itself is MonitoringScheduler's) and the engine goes to sleep.          *)
EndCycle(p) ==
  /\ pc[p] = "claim"
  /\ pc' = [pc EXCEPT ![p] = "idle"]
  /\ UNCHANGED <<dbVars, hold, via, isLeader, myEpoch, faults>>

-----------------------------------------------------------------------------
(* Shutdown, crashes, restarts, lost connections, time.                    *)

StopEngine(p, c) ==
  /\ pc[p] = "idle"
  /\ SpendFault
  /\ IF isLeader[p] THEN c \in UnlockConn(p) /\ hold' = Unlocked(p, c)
                    ELSE UNCHANGED hold
  /\ pc' = [pc EXCEPT ![p] = "stopped"]
  /\ Follow(p)
  /\ UNCHANGED <<dbVars, via>>

(* The process is gone: the server ends its sessions and frees their locks.*)
Gone(p) ==
  /\ hold' = [hold EXCEPT ![p] = [c \in Conn |-> 0]]
  /\ pc' = [pc EXCEPT ![p] = "down"]
  /\ via' = [via EXCEPT ![p] = None]
  /\ Follow(p)
  /\ UNCHANGED dbVars

Exit(p) == pc[p] = "stopped" /\ Gone(p) /\ UNCHANGED faults

Crash(p) == pc[p] # "down" /\ Gone(p) /\ SpendFault

Restart(p) ==
  /\ pc[p] = "down"
  /\ pc' = [pc EXCEPT ![p] = "idle"]
  /\ UNCHANGED <<dbVars, hold, via, isLeader, myEpoch, faults>>

(* A connection of the pool dies and is replaced.  Its session's locks are *)
(* freed; if the election transaction was using it, the UPDATE raises.     *)
LoseConnection(p, c) ==
  /\ hold[p][c] > 0
  /\ SpendFault
  /\ hold' = [hold EXCEPT ![p][c] = 0]
  /\ IF via[p] = c THEN /\ pc' = [pc EXCEPT ![p] = "unlock"]
                        /\ via' = [via EXCEPT ![p] = None]
                   ELSE UNCHANGED <<pc, via>>
  /\ UNCHANGED <<dbVars, isLeader, myEpoch>>

Elapse == left' = IF left = None \/ left < 0 THEN left ELSE left - 1

Tick ==
  /\ \A p \in Pod : pc[p] # "locked"
  /\ Elapse
  /\ UNCHANGED <<epoch, leader, hold, engineVars, faults>>

-----------------------------------------------------------------------------

EngineStep(p) ==
  \/ AcquireEpoch(p) \/ YieldToLease(p)
  \/ RenewLease(p) \/ RenewalRefused(p) \/ EndCycle(p)
  \/ Exit(p) \/ Restart(p)

ConnStep(p, c) == TryAdvisoryLock(p, c) \/ ReleaseAndFollow(p, c)

FaultStep(p) ==
  \/ EpochUpdateError(p) \/ RenewalError(p) \/ Crash(p)
  \/ \E c \in Conn : StopEngine(p, c) \/ LoseConnection(p, c)

ENext ==
  \/ \E p \in Pod : EngineStep(p) \/ FaultStep(p)
  \/ \E p \in Pod, c \in Conn : ConnStep(p, c)
  \/ Tick

ESafe == EInit /\ [][ENext]_evars

(* Engines that run keep cycling and stopped or crashed processes are      *)
(* replaced (WF); the connection pool is a FIFO queue, so an engine that   *)
(* polls for ever gets each of its connections again and again (SF); time  *)
(* passes, whatever transactions come and go (SF).  Faults are not fair.   *)
EFairness ==
  /\ \A p \in Pod : WF_evars(EngineStep(p))
  /\ \A p \in Pod, c \in Conn : SF_evars(ConnStep(p, c))
  /\ SF_evars(Tick)

ESpec == ESafe /\ EFairness

-----------------------------------------------------------------------------
(* Properties.                                                             *)

(* What each pod believes it leads, as the abstract specification sees it. *)
Belief == [p \in Pod |-> IF isLeader[p] THEN myEpoch[p] ELSE 0]

Fenced == INSTANCE FencedLeadership WITH granted <- epoch, belief <- Belief

(* Locks, leases, lost acknowledgements, crashes and lost connections only *)
(* ever grant epochs one by one, each to one pod (attempt_election and     *)
(* renew_lease implement the abstract election).                           *)
ImplementsFencedLeadership == Fenced!FSpec

(* No two pods run _cycle_step as leader of the same epoch, whatever       *)
(* happened to the advisory lock or to the lease in between.               *)
OneLeaderPerEpoch == Fenced!OneLeaderPerEpoch

(* The pod named by the row is the only one that can believe in the row's  *)
(* epoch, and only a pod that believes it leads is about to claim targets. *)
RowNamesTheLeader ==
  \A p \in Pod : /\ isLeader[p] /\ myEpoch[p] = epoch => leader = p
                 /\ pc[p] = "claim" => isLeader[p]

(* Some pod is elected at some point (the leader election of a deployment  *)
(* that starts from the row the migration seeds: its lease is NULL).       *)
SomeLeaderEmerges == <>(\E p \in Pod : isLeader[p])

CurrentLeader(p) == isLeader[p] /\ myEpoch[p] = epoch

(* Once faults end some pod leads for good: a crashed leader is replaced   *)
(* when its lease runs out, even if a follower leaked the advisory lock.   *)
LeadershipSettles == <>[](\E p \in Pod : CurrentLeader(p))

=============================================================================
