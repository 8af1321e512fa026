------------------------- MODULE MonitoringTargets -------------------------
(***************************************************************************)
(* One user's monitoring targets under everybody who writes them: the      *)
(* engine and check-now claiming them, the workers of TargetLease, and the *)
(* requests of the user (MonitoringService of                              *)
(* backend/services/monitoring_service.py).                                *)
(*                                                                         *)
(* A request reads the row, awaits, and then commits the columns the ORM   *)
(* found changed against what it READ; other requests and the workers      *)
(* commit in between.  Registration holds the user's row lock from the     *)
(* count of active targets to the commit.                                  *)
(***************************************************************************)
EXTENDS TargetLease

CONSTANTS
  Request,        \* requests of the user that can be open at once
  Quota,          \* get_user_target_quota
  Preset,         \* targets registered at the start
  MaxOps          \* bound: requests made

ASSUME MonitoringTargetsAssumption ==
  /\ None \notin Request
  /\ Quota \in Nat /\ MaxOps \in Nat
  /\ Preset \subseteq Target

ASSUME QuotaAssumption == IsFiniteSet(Target) /\ Cardinality(Preset) <= Quota

VARIABLES
  registered,     \* targets with a row
  request,        \* what each open request read, None if not open
  quotaLock,      \* the registration holding the user's row lock
  ops,            \* requests made so far
  reopened,       \* history: active because a request re-activated them
  unsuspended     \* history: active because their suspension was lost

mvars == <<tvars, registered, request, quotaLock, ops, reopened, unsuspended>>

Op == {"pause", "resume", "reactivate", "delete", "activate", "deactivate"}

(* An open request by what it will commit: a value for is_active, or None  *)
(* if it read that value; whether it resets the failures; whether it sets  *)
(* next_check_at to now.                                                   *)
Open == [op : {"register", "update"}, target : Target,
         active : BOOLEAN \union {None}, resets : BOOLEAN, due : BOOLEAN]

MTypeOK ==
  /\ TTypeOK
  /\ registered \subseteq Target
  /\ request \in [Request -> Open \union {None}]
  /\ quotaLock \in Request \union {None}
  /\ ops \in 0 .. MaxOps
  /\ reopened \subseteq Target
  /\ unsuspended \subseteq Target

MInit ==
  /\ TInit(Preset)
  /\ registered = Preset
  /\ request = [r \in Request |-> None]
  /\ quotaLock = None
  /\ ops = 0
  /\ reopened = {}
  /\ unsuspended = {}

-----------------------------------------------------------------------------
(* Requests: what they refuse on reading the row, what they commit.        *)

Accepts(op, t) ==
  CASE op = "pause"  -> active[t] \/ failures[t] < MaxFailures
    [] op = "resume" -> failures[t] < MaxFailures
    [] OTHER         -> TRUE

Spend == ops < MaxOps /\ ops' = ops + 1

(* The changed columns, against what the request reads.                    *)
TurnsOn(op, t)  == op \in {"resume", "reactivate", "activate"} /\ ~active[t]
TurnsOff(op, t) == op \in {"pause", "delete", "deactivate"} /\ active[t]

Changes(op, t) ==
  [op     |-> "update",
   target |-> t,
   active |-> IF TurnsOn(op, t) THEN TRUE ELSE IF TurnsOff(op, t) THEN FALSE ELSE None,
   resets |-> op = "reactivate" /\ failures[t] # 0,
   due    |-> op \in {"resume", "reactivate"} \/ (op = "activate" /\ ~active[t])]

ReadTarget(r, op, t) ==
  /\ request[r] = None /\ Spend
  /\ t \in registered
  /\ Accepts(op, t)
  /\ request' = [request EXCEPT ![r] = Changes(op, t)]
  /\ UNCHANGED <<tvars, registered, quotaLock, reopened, unsuspended>>

CommitRequest(r) ==
  LET q == request[r] IN
  /\ q # None /\ q.op = "update"
  /\ active' = [active EXCEPT ![q.target] = IF q.active = None THEN @ ELSE q.active]
  /\ failures' = [failures EXCEPT ![q.target] = IF q.resets THEN 0 ELSE @]
  /\ due' = [due EXCEPT ![q.target] = @ \/ q.due]
  /\ run' = [k \in Token |->
               IF Running(k) /\ run[k].target = q.target /\ q.resets
               THEN [run[k] EXCEPT !.reset = TRUE] ELSE run[k]]
  /\ reopened' = {t \in reopened : active'[t]} \union
                 {t \in {q.target} : q.active = TRUE}
  /\ unsuspended' = {t \in unsuspended : active'[t]}
  /\ request' = [request EXCEPT ![r] = None]
  /\ UNCHANGED <<token, tokenEpoch, lease, losses, registered, quotaLock, ops>>

ActiveCount == Cardinality({t \in Target : active[t]})

(* Mutant: registration takes no lock.                                     *)
NoQuotaLock(r) == UNCHANGED quotaLock

TakeQuotaLock(r) == quotaLock = None /\ quotaLock' = r

(* register_target: the user row FOR UPDATE, then the count.               *)
BeginRegister(r, t) ==
  /\ request[r] = None /\ Spend
  /\ t \notin registered
  /\ \A s \in Request : request[s] # None => request[s].target # t
  /\ TakeQuotaLock(r)
  /\ ActiveCount < Quota
  /\ request' = [request EXCEPT ![r] =
        [op |-> "register", target |-> t, active |-> TRUE, resets |-> FALSE, due |-> TRUE]]
  /\ UNCHANGED <<tvars, registered, reopened, unsuspended>>

CommitRegister(r) ==
  LET q == request[r] IN
  /\ q # None /\ q.op = "register"
  /\ registered' = registered \union {q.target}
  /\ active' = [active EXCEPT ![q.target] = TRUE]
  /\ failures' = [failures EXCEPT ![q.target] = 0]
  /\ due' = [due EXCEPT ![q.target] = TRUE]
  /\ request' = [request EXCEPT ![r] = None]
  /\ quotaLock' = None
  /\ UNCHANGED <<token, tokenEpoch, lease, run, losses, ops,
                 reopened, unsuspended>>

(* The session of an open request rolls back.                              *)
AbandonRequest(r) ==
  /\ request[r] # None
  /\ request' = [request EXCEPT ![r] = None]
  /\ quotaLock' = IF quotaLock = r THEN None ELSE quotaLock
  /\ UNCHANGED <<tvars, registered, ops, reopened, unsuspended>>

-----------------------------------------------------------------------------
(* The claims and the workers, with what history remembers of them.        *)

TargetStep ==
  \/ \E p \in Pod : ClaimTargets(p, 1) \/ CrashHost(p)
  \/ \E p \in Pod, t \in Target : CheckNow(p, t, 1)
  \/ ClaimLost(1)
  \/ \E k \in Token : WorkerStep(k) \/ Timeout(k) \/ ExecutionError(k)
  \/ \E t \in registered : BecomeDue(t)
  \/ TTick

SuspensionLost(t) ==
  \E k \in Token : At(k, "suspend") /\ run[k].target = t /\ run'[k] = None

Targets ==
  /\ TargetStep
  /\ reopened' = {t \in reopened : active'[t]}
  /\ unsuspended' = {t \in Target : active'[t] /\ (t \in unsuspended \/ SuspensionLost(t))}
  /\ UNCHANGED <<registered, request, quotaLock, ops>>

MNext ==
  \/ Targets
  \/ \E r \in Request, op \in Op, t \in Target : ReadTarget(r, op, t)
  \/ \E r \in Request, t \in Target : BeginRegister(r, t)
  \/ \E r \in Request : CommitRequest(r) \/ CommitRegister(r) \/ AbandonRequest(r)

MSpec == MInit /\ [][MNext]_mvars

-----------------------------------------------------------------------------
(* Properties.                                                             *)

(* write_back_result: a worker whose target has been claimed again never   *)
(* writes its result, whenever it wakes up.                                *)
StaleWorkerNeverCommits ==
  [][\A k \in Token : Commits(k) => ~run[k].stale]_mvars

(* The failure count a check writes was computed from the count it         *)
(* replaces, unless the user reset the count during the check: no failure  *)
(* is lost or counted twice by overlapping checks.                         *)
NoLostFailureCount ==
  [][\A k \in Token :
        Commits(k) => run[k].reset \/ run[k].seen = failures[run[k].target]]_mvars

(* Automatic suspension: a target at the failure threshold is inactive,    *)
(* or a worker is about to make it so, unless a request re-activated it or *)
(* the worker died between its two commits.                                *)
SuspensionHolds ==
  \A t \in Target :
    active[t] /\ failures[t] >= MaxFailures =>
      \/ \E k \in Token : At(k, "suspend") /\ run[k].target = t
      \/ t \in reopened \union unsuspended

(* register_target: leaving aside targets that other requests switched     *)
(* back on (they check no quota), the user never exceeds the quota.        *)
RegistrationRespectsQuota ==
  Cardinality({t \in Target : active[t]} \ reopened) <= Quota

=============================================================================
