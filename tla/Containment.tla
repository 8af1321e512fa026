---------------------------- MODULE Containment ----------------------------
(***************************************************************************)
(* Automated and manual containment of one tenant                          *)
(* (backend/services/containment_service.py) on PostgreSQL: background     *)
(* tasks evaluate an alert and run a playbook, analysts execute and revert *)
(* single actions (backend/api/routers/containment.py), the owner suspends *)
(* and resumes the monitored target.                                       *)
(*                                                                         *)
(* A key is an alert with one of the two destructive actions; the playbook *)
(* of that action has the same key.  All alerts concern one indicator and  *)
(* one target.  A transaction decides on what it has read without a lock,  *)
(* and what it writes becomes visible when it commits; a playbook commits  *)
(* a first time when it binds its incident.  The actions of a playbook that*)
(* cannot be undone (cache, event, notification) are part of that step.    *)
(***************************************************************************)
EXTENDS Integers, FiniteSets

CONSTANTS
  Alert, Task, None,
  MaxPlaybooks,   \* MAX_CONCURRENT_PLAYBOOKS_PER_TENANT
  MaxStarts,      \* bound: tasks begun
  MaxTroubles     \* bound: crashes, failed commits, Redis errors, and changes
                  \* of policy and target by the owner

ASSUME ContainmentAssumption ==
  /\ MaxPlaybooks \in Nat \ {0} /\ None \notin Task
  /\ MaxStarts \in Nat /\ MaxTroubles \in Nat

Kind == {"blacklist", "quarantine"}
Key  == [alert : Alert, kind : Kind]

VARIABLES
  enabled,        \* auto_containment_enabled, with both playbooks
  trusted,        \* the allowlist covers the indicator
  run,            \* soc_playbook_runs by idempotency key
  action,         \* soc_containment_actions by idempotency key
  entry,          \* soc_dynamic_blacklist by containment_action_id
  active,         \* monitoring_targets.is_active
  named,          \* the action that last_error_message names
  bound,          \* the alerts that have an incident
  policyLock,     \* the task that holds the tenant's policy row
  task,           \* what a task is doing
  redis,          \* whether the service has a Redis client
  leaked,         \* tokens that no task will remove
  performed,      \* history: how often an action has been performed
  orphaned,       \* history: runs whose task ended without settling them
  starts, troubles

policy == <<enabled, trusted>>
rows   == <<run, action, entry, active, named, bound, performed>>
bounds == <<starts, troubles>>
cvars  == <<policy, rows, policyLock, task, redis, leaked, orphaned, bounds>>

(* What a transaction will commit about its action.                        *)
Write == {"nothing", "blocks", "enters", "extends", "quarantines", "skips", "fails",
          "deactivates", "reactivates", "clears", "reverts"}

Stage == {"evaluated", "counted", "leased", "inserted", "contained", "bound"}

TaskState == [kind : {"playbook", "manual", "revert"}, key : Key, stage : Stage,
              isBound : BOOLEAN, lease : {"none", "redis", "expired", "db"}, write : Write]

ASSUME NoneIsNoRecord == None \notin Key \union TaskState

ASSUME FinitelyManyKeys == IsFiniteSet(Key)

Live(t) == task[t] # None
Runs(t, kind) == Live(t) /\ task[t].kind = kind
At(t, stage) == Live(t) /\ task[t].stage = stage

(* Keys that an open transaction has inserted.                             *)
RunKey(t)    == Runs(t, "playbook") /\ task[t].stage \in {"inserted", "contained"}
ActionKey(t) == At(t, "contained") /\ ~Runs(t, "revert")
                  /\ task[t].write # "nothing"

(* Past the limit on concurrent playbooks.                                 *)
Leased(t) == Runs(t, "playbook") /\ task[t].stage \in {"leased", "inserted", "contained", "bound"}

ConTypeOK ==
  /\ enabled \in BOOLEAN /\ trusted \in BOOLEAN
  /\ run \in [Key -> {"none", "RUNNING", "COMPLETED", "FAILED"}]
  /\ action \in [Key -> {"none", "EXECUTED", "SKIPPED", "BLOCKED", "FAILED", "REVERTED"}]
  /\ entry \in [Key -> {"none", "active", "inactive"}]
  /\ active \in BOOLEAN /\ named \in Key \union {None}
  /\ bound \subseteq Alert
  /\ policyLock \in Task \union {None}
  /\ task \in [Task -> TaskState \union {None}]
  /\ policyLock # None => Leased(policyLock) /\ task[policyLock].stage # "bound"
  /\ redis \in BOOLEAN /\ leaked \in Nat
  /\ performed \in [Key -> Nat]
  /\ orphaned \subseteq Key
  /\ starts \in 0 .. MaxStarts /\ troubles \in 0 .. MaxTroubles

(* The tenant has enabled automatic containment.                           *)
ConInit ==
  /\ enabled = TRUE /\ trusted \in BOOLEAN
  /\ run = [k \in Key |-> "none"] /\ action = [k \in Key |-> "none"]
  /\ entry = [k \in Key |-> "none"]
  /\ active = TRUE /\ named = None /\ bound = {}
  /\ policyLock = None /\ task = [t \in Task |-> None]
  /\ redis \in BOOLEAN /\ leaked = 0
  /\ performed = [k \in Key |-> 0]
  /\ orphaned = {}
  /\ starts = 0 /\ troubles = 0

Starts  == starts < MaxStarts /\ starts' = starts + 1 /\ UNCHANGED troubles
Trouble == troubles < MaxTroubles /\ troubles' = troubles + 1 /\ UNCHANGED starts

Begun(kind, k, stage, write) ==
  [kind |-> kind, key |-> k, stage |-> stage, isBound |-> k.alert \in bound,
   lease |-> "none", write |-> write]

Becomes(t, stage) == task' = [task EXCEPT ![t].stage = stage]

(* Mutant: the lock on the policy row outlives its transaction.            *)
EndsLocked(t) == task' = [task EXCEPT ![t] = None] /\ UNCHANGED policyLock

Ends(t) ==
  /\ task' = [task EXCEPT ![t] = None]
  /\ policyLock' = IF policyLock = t THEN None ELSE policyLock

-----------------------------------------------------------------------------
(* evaluate_alert_containment and the concurrency lease.                   *)

(* The policy is read and the playbook chosen; the target qualifies for    *)
(* quarantine or not.  A key that has a run is not run again.              *)
Evaluate(t, k) ==
  /\ ~Live(t) /\ Starts
  /\ enabled
  /\ k.kind = "quarantine" => active
  /\ run[k] = "none"
  /\ task' = [task EXCEPT ![t] = Begun("playbook", k, "evaluated", "nothing")]
  /\ UNCHANGED <<policy, rows, policyLock, redis, leaked, orphaned>>

Tokens == leaked + Cardinality({t \in Task : Live(t) /\ task[t].lease = "redis"})

(* zremrangebyscore and zcard.                                             *)
CountTokens(t) ==
  /\ At(t, "evaluated") /\ redis
  /\ IF Tokens < MaxPlaybooks THEN Becomes(t, "counted") /\ UNCHANGED policyLock ELSE Ends(t)
  /\ UNCHANGED <<policy, rows, redis, leaked, orphaned, bounds>>

(* zadd.                                                                   *)
AddToken(t) ==
  /\ At(t, "counted")
  /\ task' = [task EXCEPT ![t].stage = "leased", ![t].lease = "redis"]
  /\ UNCHANGED <<policy, rows, policyLock, redis, leaked, orphaned, bounds>>

(* Mutant: the policy row is read without FOR UPDATE.                      *)
NotLocked(t) == policyLock' = policyLock

LockPolicy(t) == policyLock = None /\ policyLock' = t

(* The fallback: runs are counted under the lock of the policy row, which  *)
(* lasts until the transaction commits.                                    *)
CountRuns(t) ==
  IF Cardinality({k \in Key : run[k] = "RUNNING"}) < MaxPlaybooks
  THEN /\ LockPolicy(t)
       /\ task' = [task EXCEPT ![t].stage = "leased", ![t].lease = "db"]
  ELSE policyLock = None /\ Ends(t)

LeaseFromDatabase(t) ==
  /\ At(t, "evaluated") /\ ~redis
  /\ CountRuns(t)
  /\ UNCHANGED <<policy, rows, redis, leaked, orphaned, bounds>>

RedisError(t) ==
  /\ (At(t, "evaluated") /\ redis) \/ At(t, "counted")
  /\ Trouble
  /\ CountRuns(t)
  /\ leaked' \in IF task[t].stage = "counted" THEN {leaked, leaked + 1} ELSE {leaked}
  /\ UNCHANGED <<policy, rows, redis, orphaned>>

(* Sixty seconds are over.                                                 *)
TokenExpires(t) ==
  /\ Live(t) /\ task[t].lease = "redis"
  /\ task' = [task EXCEPT ![t].lease = "expired"]
  /\ UNCHANGED <<policy, rows, policyLock, redis, leaked, orphaned, bounds>>

LeakedTokenExpires ==
  /\ leaked > 0 /\ leaked' = leaked - 1
  /\ UNCHANGED <<policy, rows, policyLock, task, redis, orphaned, bounds>>

-----------------------------------------------------------------------------
(* _do_execute_playbook and _do_execute_action.                            *)

(* Mutant: the idempotency keys are not unique.                            *)
NoConstraint(t, inserted) == TRUE

(* An INSERT waits for the open transaction that inserted the same key.    *)
KeyIsFree(t, inserted) ==
  \A u \in inserted \ {t} : task[u].key # task[t].key

(* A run that has been inserted meanwhile ends the playbook.               *)
InsertRun(t) ==
  /\ At(t, "leased")
  /\ KeyIsFree(t, {u \in Task : RunKey(u)})
  /\ IF run[task[t].key] = "none" THEN Becomes(t, "inserted") /\ UNCHANGED policyLock
     ELSE Ends(t)
  /\ UNCHANGED <<policy, rows, redis, leaked, orphaned, bounds>>

(* POST /soc/actions                                                       *)
Manual(t, k) ==
  /\ ~Live(t) /\ Starts
  /\ task' = [task EXCEPT ![t] = Begun("manual", k, "inserted", "nothing")]
  /\ UNCHANGED <<policy, rows, policyLock, redis, leaked, orphaned>>

ActiveEntries == Cardinality({k \in Key : entry[k] = "active"})

(* An existing action is returned whatever its status.  The allowlist names*)
(* domains, and a quarantine its target's uuid.                            *)
Decision(k) ==
  IF action[k] # "none" THEN "nothing"
  ELSE IF k.kind = "quarantine" THEN IF active THEN "quarantines" ELSE "skips"
  ELSE IF trusted THEN "blocks"
  ELSE CASE ActiveEntries = 0 -> "enters"
         [] ActiveEntries = 1 -> "extends"
         [] OTHER             -> "fails"

Contain(t) ==
  /\ At(t, "inserted")
  /\ KeyIsFree(t, {u \in Task : ActionKey(u)})
  /\ task' = [task EXCEPT ![t].stage = "contained", ![t].write = Decision(task[t].key)]
  /\ UNCHANGED <<policy, rows, policyLock, redis, leaked, orphaned, bounds>>

(* Mutant: the status becomes final with the end of the playbook only.     *)
LateStatus(w) == "PENDING"

StatusOf(w) ==
  CASE w \in {"enters", "extends", "quarantines"} -> "EXECUTED"
    [] w = "blocks" -> "BLOCKED"
    [] w = "skips" -> "SKIPPED"
    [] w = "fails" -> "FAILED"

(* The transaction becomes visible.                                        *)
Commits(t) ==
  LET k == task[t].key
      w == task[t].write
  IN IF w = "nothing" THEN UNCHANGED <<action, entry, active, named, performed>>
     ELSE /\ action' = [action EXCEPT ![k] = StatusOf(w)]
          /\ entry' = [entry EXCEPT ![k] = IF w = "enters" THEN "active" ELSE @]
          /\ active' = (active /\ w # "quarantines")
          /\ named' = IF w = "quarantines" THEN k ELSE named
          /\ performed' = [performed EXCEPT ![k] = @ + 1]

Failing(t) ==
  \/ task[t].write = "fails"
  \/ task[t].stage = "contained" /\ task[t].write = "nothing"
       /\ action[task[t].key] = "FAILED"

(* CREATE_INCIDENT for an alert that had no incident when the task read it:*)
(* get_or_create_threat_incident commits the playbook so far.              *)
Bind(t) ==
  /\ At(t, "contained") /\ Runs(t, "playbook")
  /\ ~Failing(t) /\ ~task[t].isBound
  /\ Commits(t)
  /\ run' = [run EXCEPT ![task[t].key] = "RUNNING"]
  /\ bound' = bound \union {task[t].key.alert}
  /\ task' = [task EXCEPT ![t].stage = "bound", ![t].write = "nothing"]
  /\ policyLock' = IF policyLock = t THEN None ELSE policyLock
  /\ UNCHANGED <<policy, redis, leaked, orphaned, bounds>>

(* Mutant: the run is not settled by the last commit.                      *)
StillRunning(t) == "RUNNING"

Outcome(t) == IF Failing(t) THEN "FAILED" ELSE "COMPLETED"

(* The last commit of a playbook, and its lease given back.                *)
Finish(t) ==
  /\ Runs(t, "playbook")
  /\ At(t, "bound") \/ (At(t, "contained") /\ (Failing(t) \/ task[t].isBound))
  /\ Commits(t)
  /\ run' = [run EXCEPT ![task[t].key] = Outcome(t)]
  /\ Ends(t)
  /\ UNCHANGED <<policy, bound, redis, leaked, orphaned, bounds>>

FinishManual(t) ==
  /\ At(t, "contained") /\ Runs(t, "manual")
  /\ Commits(t)
  /\ Ends(t)
  /\ UNCHANGED <<policy, run, bound, redis, leaked, orphaned, bounds>>

-----------------------------------------------------------------------------
(* revert_action: the action, its entries and its target are read without a*)
(* lock; an action that is not EXECUTED is refused.                        *)

Undo(k) ==
  CASE k.kind = "blacklist" /\ entry[k] = "active" -> "deactivates"
    [] k.kind = "quarantine" /\ named = k /\ ~active -> "reactivates"
    [] k.kind = "quarantine" /\ named = k /\ active -> "clears"
    [] OTHER -> "reverts"

Revert(t, k) ==
  /\ ~Live(t) /\ Starts
  /\ action[k] = "EXECUTED"
  /\ task' = [task EXCEPT ![t] = Begun("revert", k, "contained", Undo(k))]
  /\ UNCHANGED <<policy, rows, policyLock, redis, leaked, orphaned>>

FinishRevert(t) ==
  LET k == task[t].key
      w == task[t].write
  IN /\ Runs(t, "revert")
     /\ action' = [action EXCEPT ![k] = "REVERTED"]
     /\ entry' = [entry EXCEPT ![k] = IF w = "deactivates" THEN "inactive" ELSE @]
     /\ active' = (active \/ w = "reactivates")
     /\ named' = IF w \in {"reactivates", "clears"} THEN None ELSE named
     /\ Ends(t)
     /\ UNCHANGED <<policy, run, bound, performed, redis, leaked, orphaned, bounds>>

-----------------------------------------------------------------------------
(* A crash, a failed commit or any other error: the transaction rolls back.*)
(* A token stays in Redis until it expires, a run that has been committed  *)
(* stays RUNNING.                                                          *)
Fail(t) ==
  /\ Live(t) /\ Trouble
  /\ Ends(t)
  /\ leaked' = IF task[t].lease = "redis" THEN leaked + 1 ELSE leaked
  /\ orphaned' = IF At(t, "bound") THEN orphaned \union {task[t].key} ELSE orphaned
  /\ UNCHANGED <<policy, rows, redis>>

(* update_policy: one statement that compares policy_version, on the row   *)
(* that the fallback lease locks.                                          *)
UpdatePolicy ==
  /\ Trouble /\ policyLock = None
  /\ enabled' = ~enabled
  /\ UNCHANGED <<trusted, rows, policyLock, task, redis, leaked, orphaned>>

(* suspend and resume leave last_error_message as it is.                   *)
ToggleTarget ==
  /\ Trouble
  /\ active' = ~active
  /\ UNCHANGED <<policy, run, action, entry, named, bound, performed,
                 policyLock, task, redis, leaked, orphaned>>

-----------------------------------------------------------------------------
Progress(t) ==
  CountTokens(t) \/ AddToken(t) \/ LeaseFromDatabase(t) \/ InsertRun(t) \/ Contain(t)
    \/ Bind(t) \/ Finish(t) \/ FinishManual(t) \/ FinishRevert(t)

Expires == LeakedTokenExpires \/ \E t \in Task : TokenExpires(t)

ConNext ==
  \/ \E t \in Task, k \in Key : Evaluate(t, k) \/ Manual(t, k) \/ Revert(t, k)
  \/ \E t \in Task : Progress(t) \/ RedisError(t) \/ Fail(t)
  \/ Expires
  \/ UpdatePolicy \/ ToggleTarget

ConSafe == ConInit /\ [][ConNext]_cvars

(* Tasks keep running, PostgreSQL grants a lock that keeps becoming free,  *)
(* and time passes.                                                        *)
ConSpec ==
  /\ ConSafe
  /\ \A t \in Task : SF_cvars(Progress(t))
  /\ WF_cvars(Expires)

-----------------------------------------------------------------------------
(* Safety: a blacklist entry in force belongs to an action that is EXECUTED*)
(* and can therefore be reverted, also when a playbook dies between its two*)
(* commits; a reverted action leaves none of its entries in force          *)
(* (containment_service.py:980-983, 1006-1013).                            *)
InForceIsRevertible ==
  \A k \in Key : entry[k] = "active" => action[k] = "EXECUTED"

(* Safety: however many tasks and requests contain the same alert at once, *)
(* its action is performed once; it is never performed again after a       *)
(* revert.                                                                 *)
PerformedOnce == \A k \in Key : performed[k] <= 1

(* Safety: without Redis, the lock on the policy row keeps the number of   *)
(* playbooks that are past the lease at the limit, because a playbook gives*)
(* up the lock only with a commit that makes its run count.                *)
FallbackCap ==
  ~redis => Cardinality({t \in Task : Leased(t)}) <= MaxPlaybooks

(* Liveness: the capacity for playbooks comes back, with Redis even after a*)
(* crash; without Redis a run that its task left RUNNING may use it up for *)
(* good.                                                                   *)
Room ==
  IF redis THEN Tokens < MaxPlaybooks
  ELSE \/ orphaned # {}
       \/ Cardinality({k \in Key : run[k] = "RUNNING"}) < MaxPlaybooks

CapacityReturns == []<>Room

=============================================================================
