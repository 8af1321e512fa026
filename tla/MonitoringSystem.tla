-------------------------- MODULE MonitoringSystem --------------------------
(***************************************************************************)
(* The monitoring subsystem as deployed: pods that elect a leader          *)
(* (LeaderElection), the leader's engine claiming targets with the epoch   *)
(* it believes in, the check-now endpoint of every pod claiming with the   *)
(* epoch it read, and the workers of TargetLease on the pod that claimed.  *)
(*                                                                         *)
(* The two halves share the pods and the database clock: a crash takes the *)
(* engine, its advisory lock and its workers; a tick ages the leader's     *)
(* lease and the execution leases.  The engine's own pool is cancelled by  *)
(* MonitoringEngine.stop, the API's pool only dies with its process.       *)
(***************************************************************************)
EXTENDS TargetLease, ElectionParameters

CONSTANTS
  MaxAsks,        \* bound: check-now requests
  MaxTroubles     \* bound: faults, losses and check-nows of one behaviour

ASSUME MonitoringSystemAssumption == MaxAsks \in Nat /\ MaxTroubles \in Nat

VARIABLES
  epoch, leader, left, hold, pc, via, isLeader, myEpoch, faults,
  asked,          \* the check-now under way, None if none (bound: one at a time)
  asks            \* check-nows so far

Election == INSTANCE LeaderElection

electionVars == <<epoch, leader, left, hold, pc, via, isLeader, myEpoch, faults>>
svars == <<tvars, electionVars, asked, asks>>

STypeOK ==
  /\ TTypeOK
  /\ Election!ETypeOK
  /\ asked \in [pod : Pod, epoch : Nat] \union {None}
  /\ asks \in 0 .. MaxAsks

SInit ==
  /\ TInit(Target)
  /\ Election!EInit
  /\ asked = None
  /\ asks = 0

-----------------------------------------------------------------------------
(* The engine of pod p.                                                    *)

(* Step 1 of _cycle_step, and what stops or breaks it.                     *)
ElectionStep(p) ==
  /\ \/ Election!AcquireEpoch(p) \/ Election!YieldToLease(p)
     \/ Election!EpochUpdateError(p) \/ Election!RenewalError(p)
     \/ Election!RenewLease(p) \/ Election!RenewalRefused(p)
     \/ Election!Restart(p)
     \/ \E c \in Conn : Election!ConnStep(p, c) \/ Election!LoseConnection(p, c)
  /\ UNCHANGED <<tvars, asked, asks>>

(* Step 2: claim_targets(epoch=self._current_epoch) and its dispatch; the  *)
(* claim may fail before its commit, or between the commit and the dispatch*)
ClaimBatch(p) ==
  /\ Election!EndCycle(p)
  /\ \/ Claimable = {} /\ UNCHANGED tvars
     \/ ClaimTargets(p, myEpoch[p])
     \/ ClaimLost(myEpoch[p])
  /\ UNCHANGED <<asked, asks>>

(* A check-now in the middle of its transaction goes with its process.     *)
HangUp(p) == asked' = IF asked # None /\ asked.pod = p THEN None ELSE asked

(* stop: the engine's pool is cancelled, the advisory lock released.       *)
StopEngine(p) ==
  /\ \E c \in Conn : Election!StopEngine(p, c)
  /\ run' = [k \in Token |-> IF Running(k) /\ run[k].host = p /\ run[k].by = "engine"
                             THEN None ELSE run[k]]
  /\ HangUp(p)
  /\ UNCHANGED <<rowVars, losses, asks>>

(* The process ends or dies.                                               *)
ProcessGone(p) ==
  /\ Election!Exit(p) \/ Election!Crash(p)
  /\ HostGone(p)
  /\ HangUp(p)
  /\ UNCHANGED <<rowVars, losses, asks>>

-----------------------------------------------------------------------------
(* trigger_check_now: the epoch is read, then the row is claimed with it.  *)

Serving(p) == pc[p] \notin {"down", "stopped"}

ReadEpoch(p) ==
  /\ Serving(p) /\ asked = None /\ asks < MaxAsks
  /\ asked' = [pod |-> p, epoch |-> epoch]
  /\ asks' = asks + 1
  /\ UNCHANGED <<tvars, electionVars>>

CheckNowClaims(t) ==
  /\ asked # None
  /\ \/ CheckNow(asked.pod, t, asked.epoch)
     \/ ~(active[t] /\ Unleased(t)) /\ UNCHANGED tvars      \* refused
  /\ asked' = None
  /\ UNCHANGED <<electionVars, asks>>

-----------------------------------------------------------------------------

Workers ==
  /\ \/ \E k \in Token : WorkerStep(k) \/ Timeout(k) \/ ExecutionError(k)
     \/ \E t \in Target : BecomeDue(t)
  /\ UNCHANGED <<electionVars, asked, asks>>

Tick ==
  /\ Election!Tick
  /\ TTick
  /\ UNCHANGED <<asked, asks>>

WithinBounds == faults' + losses' + asks' <= MaxTroubles

SNext ==
  /\ \/ \E p \in Pod : \/ ElectionStep(p) \/ ClaimBatch(p) \/ StopEngine(p)
                       \/ ProcessGone(p) \/ ReadEpoch(p)
     \/ \E t \in Target : CheckNowClaims(t)
     \/ Workers
     \/ Tick
  /\ WithinBounds

SSafe == SInit /\ [][SNext]_svars

(* Engines cycle, processes that end are replaced, workers that started    *)
(* their check go on; the rest as in LeaderElection.  Time-outs, errors,   *)
(* crashes and the users' check-nows are not fair.                         *)
EngineStep(p) ==
  \/ Election!EngineStep(p) /\ (ElectionStep(p) \/ ClaimBatch(p) \/ ProcessGone(p))

SSpec ==
  /\ SSafe
  /\ \A p \in Pod : WF_svars(EngineStep(p))
  /\ \A p \in Pod, c \in Conn : SF_svars(ElectionStep(p) /\ Election!ConnStep(p, c))
  /\ WF_svars((\E k \in Token : WorkerStep(k)) /\ Workers)
  /\ SF_svars(Tick)

-----------------------------------------------------------------------------
(* Properties.                                                             *)

(* claim_targets and attempt_election: the executions that engines started *)
(* in one epoch all belong to one pod, through crashes, restarts, expired  *)
(* leases and leaked advisory locks.                                       *)
OneDispatcherPerEpoch ==
  \A k, l \in Token :
    /\ Running(k) /\ Running(l) /\ run[k].by = "engine" /\ run[l].by = "engine"
    /\ run[k].epoch = run[l].epoch
    => run[k].host = run[l].host

(* The election keeps its promises inside the system: no two pods run      *)
(* _cycle_step as leader of the same epoch, whatever happened to the       *)
(* advisory lock or to the lease in between.                               *)
OneLeaderPerEpoch == Election!OneLeaderPerEpoch

(* The pod named by scheduler_state is the only one that can believe in the*)
(* row's epoch, and only a pod that believes it leads is about to claim.   *)
RowNamesTheLeader == Election!RowNamesTheLeader

(* Epochs are granted one by one, each to one pod: attempt_election and    *)
(* renew_lease implement the abstract election, whatever claims, workers   *)
(* and check-nows do beside them.                                          *)
ImplementsFencedLeadership == Election!ImplementsFencedLeadership

(* Once faults end some pod leads for good: a crashed leader is replaced   *)
(* when its lease runs out, even if a follower leaked the advisory lock.   *)
LeadershipSettles == Election!LeadershipSettles

(* The row of a due target does not stay leased to nobody: after a crash, a*)
(* time-out or a lost dispatch the lease runs out and a leader, the same or*)
(* the next one, claims the target again for a worker that runs.           *)
OrphansAreReclaimed ==
  \A t \in Target :
    []<>(~active[t] \/ ~due[t] \/ (token[t] # None /\ Running(token[t])))

(* write_back_result: "fencing: must match current epoch" (the epoch of    *)
(* scheduler_state at the time of the write).                              *)
WriteBackEpochCurrent ==
  [][\A k \in Token : Commits(k) => run[k].epoch = epoch]_svars

=============================================================================
