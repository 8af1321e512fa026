---------------------------- MODULE TargetLease ----------------------------
(***************************************************************************)
(* The monitoring_targets rows, the execution leases claimed on them and   *)
(* the workers that run the checks (claim_targets and write_back_result of *)
(* backend/services/scheduler_service.py, MonitoringWorker of              *)
(* monitoring_worker.py, the claim of MonitoringService.trigger_check_now).*)
(*                                                                         *)
(* An execution is identified by its token.  gen_random_uuid() / uuid4()   *)
(* is modelled by a token that no row and no running worker refers to.     *)
(* One step is one transaction, or one await of the worker.  The checked   *)
(* URL, the ML score and the event payload are abstracted to a verdict;    *)
(* next_check_at is abstracted to whether it has passed (due).             *)
(***************************************************************************)
EXTENDS Integers, FiniteSets, Deployment

CONSTANTS
  Target,
  Token,          \* execution tokens
  WorkerLease,    \* WORKER_LEASE_SECONDS, in ticks
  Batch,          \* CLAIM_BATCH_SIZE
  MaxFailures,    \* MAX_CONSECUTIVE_FAILURES (5)
  FailureCap,     \* bound: failures are counted up to here
  Seen,           \* bound: the verdicts that checks come to
  MaxLosses       \* bound: executions or claims lost to errors and crashes

ASSUME TargetLeaseAssumption ==
  /\ None \notin Pod /\ None \notin Target /\ None \notin Token
  /\ WorkerLease \in Nat \ {0}
  /\ Batch \in Nat \ {0}
  /\ MaxFailures \in Nat \ {0}
  /\ FailureCap \in Nat /\ FailureCap >= MaxFailures
  /\ MaxLosses \in Nat

Verdict == {"quiet",        \* benign, low severity or degraded inference
            "threat",       \* HIGH or CRITICAL prediction
            "unreachable",  \* the probe failed
            "ssrf"}         \* the probe was refused as SSRF

ASSUME SeenAssumption == Seen \subseteq Verdict

VARIABLES
  active,         \* is_active
  failures,       \* consecutive_failures
  due,            \* next_check_at <= NOW()
  token,          \* execution_token, None for NULL
  tokenEpoch,     \* execution_epoch, 0 for NULL
  lease,          \* execution_expires_at - NOW(), -1 once it has passed
  run,            \* run[k]: the worker executing the claim k, None if none
  losses          \* executions and claims lost so far

rowVars == <<active, failures, due, token, tokenEpoch, lease>>
tvars   == <<rowVars, run, losses>>

Stage == {"queued",     \* waiting for the pool's semaphores
          "probing",    \* lease validated, probe and inference under way
          "soc",        \* raising the alert and the incident
          "writeback",  \* about to write the result back
          "suspend",    \* result committed, about to set is_active = FALSE
          "audit"}      \* about to write the audit event

(* stale and reset are history: the target was claimed again, or an        *)
(* operator reset its failures, while this execution was under way.        *)
Run == [stage : Stage, target : Target, host : Pod, by : {"engine", "api"},
        epoch : Nat, seen : 0 .. FailureCap, verdict : Verdict,
        stale : BOOLEAN, reset : BOOLEAN]

ASSUME NoRunAssumption == None \notin Run

TTypeOK ==
  /\ active \in [Target -> BOOLEAN]
  /\ failures \in [Target -> 0 .. FailureCap]
  /\ due \in [Target -> BOOLEAN]
  /\ token \in [Target -> Token \union {None}]
  /\ tokenEpoch \in [Target -> Nat]
  /\ lease \in [Target -> -1 .. WorkerLease]
  /\ run \in [Token -> Run \union {None}]
  /\ losses \in 0 .. MaxLosses

(* The targets S as register_target inserts them: due at once, no failures.*)
TInit(S) ==
  /\ active = [t \in Target |-> t \in S]
  /\ failures = [t \in Target |-> 0]
  /\ due = [t \in Target |-> t \in S]
  /\ token = [t \in Target |-> None]
  /\ tokenEpoch = [t \in Target |-> 0]
  /\ lease = [t \in Target |-> -1]
  /\ run = [k \in Token |-> None]
  /\ losses = 0

-----------------------------------------------------------------------------
(* Claiming.                                                               *)

Running(k) == run[k] # None

Fresh == {k \in Token : ~Running(k) /\ \A t \in Target : token[t] # k}

(* Mutant: a row that was claimed once can only be freed by its worker.    *)
OnlyUnclaimed(t) == token[t] = None

Unleased(t) == token[t] = None \/ lease[t] < 0

Claimable == {t \in Target : active[t] /\ due[t] /\ Unleased(t)}

(* FOR UPDATE SKIP LOCKED: rows that other transactions hold are left out. *)
Batches == {S \in SUBSET Claimable : S # {} /\ Cardinality(S) <= Batch}

Injections(S) == {f \in [S -> Fresh] : \A t, u \in S : f[t] = f[u] => t = u}

(* The rows of S get the tokens f, the epoch e and a lease; executions of  *)
(* those targets that are still under way have become stale.               *)
LeaseRows(S, f, e) ==
  /\ token' = [t \in Target |-> IF t \in S THEN f[t] ELSE token[t]]
  /\ tokenEpoch' = [t \in Target |-> IF t \in S THEN e ELSE tokenEpoch[t]]
  /\ lease' = [t \in Target |-> IF t \in S THEN WorkerLease ELSE lease[t]]
  /\ UNCHANGED <<active, failures, due>>

MarkStale(S) ==
  [k \in Token |-> IF Running(k) /\ run[k].target \in S
                   THEN [run[k] EXCEPT !.stale = TRUE] ELSE run[k]]

NewRun(t, p, who, e) ==
  [stage |-> "queued", target |-> t, host |-> p, by |-> who, epoch |-> e,
   seen |-> 0, verdict |-> "quiet", stale |-> FALSE, reset |-> FALSE]

Submit(S, f, p, who, e) ==
  run' = [k \in Token |->
            IF \E t \in S : f[t] = k
            THEN NewRun(CHOOSE t \in S : f[t] = k, p, who, e)
            ELSE MarkStale(S)[k]]

(* claim_targets by the engine of pod p, then submit_target for each.      *)
ClaimTargets(p, e) ==
  \E S \in Batches : \E f \in Injections(S) :
    /\ LeaseRows(S, f, e)
    /\ Submit(S, f, p, "engine", e)
    /\ UNCHANGED losses

Lose == losses < MaxLosses /\ losses' = losses + 1

(* claim_targets raises before its commit, or after it (or the pod dies):  *)
(* in that case the rows are leased and nobody runs them.                  *)
ClaimLost(e) ==
  /\ Lose
  /\ \/ UNCHANGED <<rowVars, run>>
     \/ \E S \in Batches : \E f \in Injections(S) :
          LeaseRows(S, f, e) /\ run' = MarkStale(S)

(* check-now on pod p: the guarded UPDATE of trigger_check_now (the target *)
(* need not be due), then the dispatch to the API's worker pool.           *)
CheckNow(p, t, e) ==
  /\ active[t] /\ Unleased(t)
  /\ \E k \in Fresh : LET f == [u \in {t} |-> k]
                      IN LeaseRows({t}, f, e) /\ Submit({t}, f, p, "api", e)
  /\ UNCHANGED losses

-----------------------------------------------------------------------------
(* The worker (_execute_target_inner), from the claim k.                   *)

At(k, s) == Running(k) /\ run[k].stage = s

Goto(k, s) == [run EXCEPT ![k].stage = s]

Ended(k) == [run EXCEPT ![k] = None]

(* Only the audit event is left to write: what the check saw is over with. *)
Audited(k) == [run EXCEPT ![k].stage = "audit", ![k].seen = 0,
                          ![k].verdict = "quiet", ![k].reset = FALSE]

(* Mutant: write-back and validation look at the expiry, not at the token. *)
UnexpiredOnly(k) == lease[run[k].target] > 0

(* The triple predicate: token, epoch and unexpired lease.                 *)
HoldsLease(k) ==
  LET t == run[k].target
  IN token[t] = k /\ tokenEpoch[t] = run[k].epoch /\ lease[t] > 0

(* validate_lease, then the read of consecutive_failures.                  *)
StartProbe(k) ==
  /\ At(k, "queued")
  /\ run' = IF HoldsLease(k)
            THEN [run EXCEPT ![k].stage = "probing",
                             ![k].seen = failures[run[k].target]]
            ELSE Ended(k)
  /\ UNCHANGED <<rowVars, losses>>

ProbeReturns(k, v) ==
  /\ At(k, "probing")
  /\ v \in {"unreachable", "ssrf"} => run[k].seen < FailureCap
  /\ run' = [run EXCEPT ![k].verdict = v,
                        ![k].stage = IF v \in {"threat", "ssrf"} THEN "soc" ELSE "writeback"]
  /\ UNCHANGED <<rowVars, losses>>

(* The alert and incident transactions; they touch no target row, and no   *)
(* lease guards them.                                                      *)
RaiseAlert(k) ==
  /\ At(k, "soc")
  /\ run' = Goto(k, "writeback")
  /\ UNCHANGED <<rowVars, losses>>

NewFailures(k) ==
  IF run[k].verdict \in {"unreachable", "ssrf"} THEN run[k].seen + 1 ELSE 0

(* Mutant: suspension one failure late.                                    *)
SuspendsLate(k) == \/ run[k].verdict = "ssrf"
                   \/ run[k].verdict = "unreachable" /\ run[k].seen >= MaxFailures

Suspends(k) == \/ run[k].verdict = "ssrf"
               \/ run[k].verdict = "unreachable" /\ NewFailures(k) >= MaxFailures

Committed(k) ==
  LET t == run[k].target
  IN /\ failures' = [failures EXCEPT ![t] = NewFailures(k)]
     /\ due' = [due EXCEPT ![t] = FALSE]
     /\ token' = [token EXCEPT ![t] = None]
     /\ tokenEpoch' = [tokenEpoch EXCEPT ![t] = 0]
     /\ lease' = [lease EXCEPT ![t] = -1]
     /\ run' = IF Suspends(k) THEN Goto(k, "suspend") ELSE Audited(k)
     /\ UNCHANGED active

(* write_back_result: committed under the triple predicate, or discarded.  *)
WriteBack(k) ==
  /\ At(k, "writeback")
  /\ IF HoldsLease(k) THEN Committed(k)
                      ELSE run' = Ended(k) /\ UNCHANGED rowVars
  /\ UNCHANGED losses

(* The step of k that writes its result back.                              *)
Commits(k) == At(k, "writeback") /\ run'[k] # None /\ run'[k].stage # "writeback"

(* The second transaction of a suspending check (with the notification).   *)
Suspend(k) ==
  /\ At(k, "suspend")
  /\ active' = [active EXCEPT ![run[k].target] = FALSE]
  /\ run' = Audited(k)
  /\ UNCHANGED <<failures, due, token, tokenEpoch, lease, losses>>

(* The third transaction: the audit event.                                 *)
WriteAudit(k) ==
  /\ At(k, "audit")
  /\ run' = Ended(k)
  /\ UNCHANGED <<rowVars, losses>>

(* asyncio.wait_for cancels the execution at an await.                     *)
Timeout(k) ==
  /\ At(k, "probing") \/ At(k, "soc")
  /\ run' = Ended(k)
  /\ UNCHANGED <<rowVars, losses>>

(* An unhandled error ends the execution, its open transaction rolled back.*)
ExecutionError(k) ==
  /\ Running(k)
  /\ Lose
  /\ run' = Ended(k)
  /\ UNCHANGED rowVars

(* The process of p is gone, and its workers with it.                      *)
HostGone(p) ==
  run' = [k \in Token |-> IF Running(k) /\ run[k].host = p THEN None ELSE run[k]]

CrashHost(p) ==
  /\ \E k \in Token : Running(k) /\ run[k].host = p
  /\ Lose
  /\ HostGone(p)
  /\ UNCHANGED rowVars

-----------------------------------------------------------------------------
(* Time.                                                                   *)

BecomeDue(t) ==
  /\ ~due[t]
  /\ due' = [due EXCEPT ![t] = TRUE]
  /\ UNCHANGED <<active, failures, token, tokenEpoch, lease, run, losses>>

LeasesElapse ==
  lease' = [t \in Target |-> IF lease[t] < 0 THEN lease[t] ELSE lease[t] - 1]

TTick ==
  /\ LeasesElapse
  /\ UNCHANGED <<active, failures, due, token, tokenEpoch, run, losses>>

WorkerStep(k) ==
  \/ StartProbe(k) \/ RaiseAlert(k) \/ WriteBack(k) \/ Suspend(k) \/ WriteAudit(k)
  \/ \E v \in Seen : ProbeReturns(k, v)

=============================================================================
