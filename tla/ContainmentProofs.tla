------------------------- MODULE ContainmentProofs -------------------------
(***************************************************************************)
(* What TLAPS proves of Containment, for every number of alerts and tasks  *)
(* and every limit: types, that an entry in force can be reverted, that an *)
(* action is performed once, and the limit of the fallback lease.          *)
(***************************************************************************)
EXTENDS Containment, FiniteSetTheorems, TLAPS

(* An action has been performed if and only if its row exists.             *)
History ==
  \A k \in Key : performed[k] = IF action[k] = "none" THEN 0 ELSE 1

(* Only an action that blacklists has entries.                             *)
InForce ==
  \A k \in Key : entry[k] = "active" => action[k] = "EXECUTED" /\ k.kind = "blacklist"

(* An open transaction that has inserted an action is the first of its key,*)
(* and what it will write fits the key.                                    *)
Fresh(t) ==
  ActionKey(t) =>
    /\ action[task[t].key] = "none"
    /\ task[t].write \in IF task[t].key.kind = "blacklist"
                         THEN {"blocks", "enters", "extends", "fails"}
                         ELSE {"quarantines", "skips"}

(* One uncommitted insert for each key.                                    *)
Alone(t, u) ==
  ActionKey(t) /\ ActionKey(u) /\ task[t].key = task[u].key => t = u

(* A revert is about an action that was EXECUTED, and deactivates its entry*)
(* if it has one in force.                                                 *)
Reverting(t) ==
  Runs(t, "revert") =>
    /\ task[t].stage = "contained"
    /\ action[task[t].key] \in {"EXECUTED", "REVERTED"}
    /\ task[t].write # "deactivates" => entry[task[t].key] # "active"

(* Nothing is to be written before the decision and after the first commit,*)
(* and the other stages are those of playbooks.                            *)
Idle(t) ==
  Live(t) /\ task[t].stage # "contained" =>
    /\ task[t].write = "nothing"
    /\ task[t].stage # "inserted" => task[t].kind = "playbook"

TaskOK(t) == Fresh(t) /\ Reverting(t) /\ Idle(t)

(* Facts about committed rows and open transactions.                       *)
RowsInd ==
  /\ History /\ InForce
  /\ \A t \in Task : TaskOK(t)
  /\ \A t, u \in Task : Alone(t, u)

ConInd == ConTypeOK /\ RowsInd

-----------------------------------------------------------------------------
(* Types.                                                                  *)

(* A task that moves to a stage keeps its other fields.                    *)
LEMMA MovesTyped ==
  ASSUME NEW x \in TaskState, NEW stage \in Stage
  PROVE  [x EXCEPT !.stage = stage] \in TaskState
BY Zenon DEF TaskState

(* A task record whose stage and write are set stays one.                  *)
LEMMA WritesTyped ==
  ASSUME NEW x \in TaskState, NEW stage \in Stage, NEW w \in Write
  PROVE  [x EXCEPT !.stage = stage, !.write = w] \in TaskState
BY DEF TaskState

(* A task record whose stage and lease are set stays one.                  *)
LEMMA LeasesTyped ==
  ASSUME NEW x \in TaskState, NEW stage \in Stage,
         NEW lease \in {"none", "redis", "expired", "db"}
  PROVE  [x EXCEPT !.stage = stage, !.lease = lease] \in TaskState
BY DEF TaskState

(* A token that expires changes nothing but the lease.                     *)
LEMMA ExpiryTyped ==
  ASSUME NEW x \in TaskState
  PROVE  /\ [x EXCEPT !.lease = "expired"] \in TaskState
         /\ [x EXCEPT !.lease = "expired"].kind = x.kind
         /\ [x EXCEPT !.lease = "expired"].stage = x.stage
BY DEF TaskState

(* A task begins with a record of the right type.                          *)
LEMMA BegunTyped ==
  ASSUME NEW kind \in {"playbook", "manual", "revert"}, NEW k \in Key, NEW stage \in Stage,
         NEW w \in Write
  PROVE  Begun(kind, k, stage, w) \in TaskState
<1>1. (k.alert \in bound) \in BOOLEAN
  OBVIOUS
<1>2. QED
  BY <1>1, Zenon DEF Begun, TaskState

(* The tasks with their lock, and the tables.                              *)
TasksTyped ==
  /\ policyLock \in Task \union {None}
  /\ task \in [Task -> TaskState \union {None}]
  /\ policyLock # None => Leased(policyLock) /\ task[policyLock].stage # "bound"

(* Types of what the database holds.                                       *)
TablesTyped ==
  /\ run \in [Key -> {"none", "RUNNING", "COMPLETED", "FAILED"}]
  /\ action \in [Key -> {"none", "EXECUTED", "SKIPPED", "BLOCKED", "FAILED", "REVERTED"}]
  /\ entry \in [Key -> {"none", "active", "inactive"}]
  /\ active \in BOOLEAN /\ named \in Key \union {None}
  /\ bound \subseteq Alert
  /\ performed \in [Key -> Nat]

(* Types of the settings, of Redis and of the bounds.                      *)
OthersTyped ==
  /\ enabled \in BOOLEAN /\ trusted \in BOOLEAN
  /\ redis \in BOOLEAN /\ leaked \in Nat
  /\ orphaned \subseteq Key
  /\ starts \in 0 .. MaxStarts /\ troubles \in 0 .. MaxTroubles

(* The type invariant by parts: tasks, database rows, the rest.            *)
LEMMA TypeParts == ConTypeOK <=> TasksTyped /\ TablesTyped /\ OthersTyped
BY DEF ConTypeOK, TasksTyped, TablesTyped, OthersTyped

(* The same in the next state.                                             *)
LEMMA TypePartsNext == TasksTyped' /\ TablesTyped' /\ OthersTyped' => ConTypeOK'
BY DEF ConTypeOK, TasksTyped, TablesTyped, OthersTyped

(* The record of a task that is running.                                   *)
LEMMA LiveTyped ==
  ASSUME TasksTyped, NEW t \in Task, Live(t)
  PROVE  /\ task[t] \in TaskState
         /\ task[t].key \in Key /\ task[t].key.alert \in Alert
         /\ task[t].key.kind \in Kind
         /\ task[t].kind \in {"playbook", "manual", "revert"}
         /\ task[t].stage \in Stage /\ task[t].write \in Write
<1>1. task[t] \in TaskState
  BY DEF TasksTyped, Live
<1>2. QED
  BY <1>1 DEF TaskState, Key

(* The end of a task gives up its lock.                                    *)
LEMMA EndsTyped ==
  ASSUME TasksTyped, NEW t \in Task, Ends(t)
  PROVE  TasksTyped'
BY ContainmentAssumption DEF TasksTyped, Ends, Leased, Runs, Live

(* A task without the lock may get any state, one with it has to stay among*)
(* the leased.                                                             *)
LEMMA StepTyped ==
  ASSUME TasksTyped, NEW t \in Task, NEW x \in TaskState,
         task' = [task EXCEPT ![t] = x],
         policyLock' \in {policyLock, None, t},
         policyLock' = t => x.kind = "playbook" /\ x.stage \in {"leased", "inserted", "contained"}
  PROVE  TasksTyped'
<1>1. x # None
  BY NoneIsNoRecord
<1>2. task' \in [Task -> TaskState \union {None}]
  BY DEF TasksTyped
<1>3. policyLock' # None => Leased(policyLock)' /\ task'[policyLock'].stage # "bound"
  <2>1. CASE policyLock' = t
    BY <1>1, <2>1 DEF TasksTyped, Leased, Runs, Live
  <2>2. CASE policyLock' # t
    BY <1>1, <2>2 DEF TasksTyped, Leased, Runs, Live
  <2>3. QED
    BY <2>1, <2>2
<1>4. QED
  BY <1>2, <1>3 DEF TasksTyped

(* A transaction decides on what it may write, and commits what has a      *)
(* status.                                                                 *)
LEMMA DecisionTyped ==
  ASSUME NEW k \in Key
  PROVE  /\ Decision(k) \in Write \ {"deactivates", "reactivates", "clears", "reverts"}
         /\ Undo(k) \in {"deactivates", "reactivates", "clears", "reverts"}
BY DEF Decision, Undo, Write

(* A commit performs the action of its key for the first time, or changes  *)
(* none.                                                                   *)
LEMMA CommitsFirst ==
  ASSUME ConInd, NEW t \in Task, Live(t), ~Runs(t, "revert")
  PROVE  task[t].write # "nothing" =>
           /\ ActionKey(t)
           /\ action[task[t].key] = "none"
           /\ StatusOf(task[t].write) \in {"EXECUTED", "BLOCKED", "SKIPPED", "FAILED"}
           /\ task[t].write = "enters" => task[t].key.kind = "blacklist"
                                            /\ StatusOf(task[t].write) = "EXECUTED"
<1>1. SUFFICES ASSUME task[t].write # "nothing"
               PROVE  /\ ActionKey(t)
                      /\ action[task[t].key] = "none"
                      /\ task[t].write \in IF task[t].key.kind = "blacklist"
                                           THEN {"blocks", "enters", "extends", "fails"}
                                           ELSE {"quarantines", "skips"}
  BY DEF StatusOf
<1>2. ActionKey(t)
  BY <1>1 DEF ConInd, RowsInd, TaskOK, Idle, ActionKey, At
<1>3. QED
  BY <1>2 DEF ConInd, RowsInd, TaskOK, Fresh

(* The rows keep their types when a playbook or a manual action commits.   *)
LEMMA CommitsTyped ==
  ASSUME ConInd, NEW t \in Task, Live(t), ~Runs(t, "revert"), Commits(t)
  PROVE  /\ action' \in [Key -> {"none", "EXECUTED", "SKIPPED", "BLOCKED", "FAILED", "REVERTED"}]
         /\ entry' \in [Key -> {"none", "active", "inactive"}]
         /\ active' \in BOOLEAN /\ named' \in Key \union {None}
         /\ performed' \in [Key -> Nat]
<1>1. TablesTyped /\ TasksTyped
  BY TypeParts DEF ConInd
<1>2. task[t].key \in Key
  BY <1>1, LiveTyped
<1>3. CASE task[t].write = "nothing"
  BY <1>1, <1>3 DEF Commits, TablesTyped
<1>4. CASE task[t].write # "nothing"
  <2>1. StatusOf(task[t].write) \in {"EXECUTED", "BLOCKED", "SKIPPED", "FAILED"}
    BY <1>4, CommitsFirst
  <2>2. action' \in [Key -> {"none", "EXECUTED", "SKIPPED", "BLOCKED", "FAILED", "REVERTED"}]
    BY <1>1, <1>4, <2>1 DEF Commits, TablesTyped
  <2>3. /\ entry' \in [Key -> {"none", "active", "inactive"}]
        /\ active' \in BOOLEAN
    BY <1>1, <1>4 DEF Commits, TablesTyped
  <2>4. named' \in Key \union {None} /\ performed' \in [Key -> Nat]
    BY <1>1, <1>2, <1>4 DEF Commits, TablesTyped
  <2>5. QED
    BY <2>2, <2>3, <2>4
<1>5. QED
  BY <1>3, <1>4

(* The steps of the lease.                                                 *)
Leasing(t) == CountTokens(t) \/ AddToken(t) \/ LeaseFromDatabase(t) \/ RedisError(t)
                \/ TokenExpires(t)

(* The fallback count moves a task on or sets it back.                     *)
LEMMA CountRunsTyped ==
  ASSUME TasksTyped, NEW t \in Task, At(t, "evaluated") \/ At(t, "counted"),
         Runs(t, "playbook"), CountRuns(t)
  PROVE  TasksTyped'
<1>1. Live(t) /\ task[t] \in TaskState
  BY LiveTyped DEF At
<1>2. CASE /\ LockPolicy(t)
           /\ task' = [task EXCEPT ![t].stage = "leased", ![t].lease = "db"]
  <2> DEFINE x == [task[t] EXCEPT !.stage = "leased", !.lease = "db"]
  <2>1. x \in TaskState
    BY <1>1, LeasesTyped DEF Stage
  <2>2. task' = [task EXCEPT ![t] = x]
    BY <1>2
  <2>3. x.kind = "playbook" /\ x.stage = "leased"
    BY <1>1 DEF Runs, TaskState
  <2>4. QED
    BY <1>2, <2>1, <2>2, <2>3, StepTyped DEF LockPolicy
<1>3. CASE Ends(t)
  BY <1>3, EndsTyped
<1>4. QED
  BY <1>2, <1>3 DEF CountRuns

(* Every step preserves the types.                                         *)
LEMMA TypeNext ==
  ASSUME ConInd, [ConNext]_cvars
  PROVE  ConTypeOK'
<1> USE DEF policy, rows, bounds
<1>1. TablesTyped /\ TasksTyped /\ OthersTyped
  BY TypeParts DEF ConInd
<1>2. ASSUME NEW t \in Task, NEW k \in Key, NEW kind \in {"playbook", "manual", "revert"},
             NEW stage \in Stage, NEW w \in Write, ~Live(t), Starts,
             task' = [task EXCEPT ![t] = Begun(kind, k, stage, w)],
             UNCHANGED <<policy, rows, policyLock, redis, leaked, orphaned>>
      PROVE  ConTypeOK'
  <2>1. Begun(kind, k, stage, w) \in TaskState
    BY BegunTyped
  <2>2. policyLock' # t
    BY <1>1, <1>2, ContainmentAssumption DEF TasksTyped, Leased, Runs
  <2>3. TasksTyped'
    BY <1>1, <1>2, <2>1, <2>2, StepTyped
  <2>4. TablesTyped' /\ OthersTyped'
    BY <1>1, <1>2, ContainmentAssumption DEF TablesTyped, OthersTyped, Starts
  <2>5. QED
    BY <2>3, <2>4, TypePartsNext
<1>3. ASSUME NEW t \in Task, NEW k \in Key, Evaluate(t, k) \/ Manual(t, k) \/ Revert(t, k)
      PROVE  ConTypeOK'
  <2>1. CASE Evaluate(t, k)
    BY <1>2, <2>1 DEF Evaluate, Stage, Write
  <2>2. CASE Manual(t, k)
    BY <1>2, <2>2 DEF Manual, Stage, Write
  <2>3. CASE Revert(t, k)
    <3>1. Undo(k) \in Write /\ "contained" \in Stage /\ "revert" \in {"playbook", "manual", "revert"}
      BY DecisionTyped DEF Write, Stage
    <3>2. QED
      BY <1>2, <2>3, <3>1 DEF Revert
  <2>4. QED
    BY <1>3, <2>1, <2>2, <2>3
<1>4. ASSUME NEW t \in Task, Live(t), NEW stage \in Stage, Becomes(t, stage),
             policyLock' = policyLock,
             policyLock = t => stage \in {"leased", "inserted", "contained"}
      PROVE  TasksTyped'
  <2> DEFINE x == [task[t] EXCEPT !.stage = stage]
  <2>1. x \in TaskState /\ task[t] \in TaskState
    BY <1>1, <1>4, LiveTyped, MovesTyped
  <2>2. task' = [task EXCEPT ![t] = x]
    BY <1>4 DEF Becomes
  <2>3. x.kind = task[t].kind /\ x.stage = stage
    BY <2>1 DEF TaskState
  <2>4. policyLock' = t => x.kind = "playbook" /\ x.stage \in {"leased", "inserted", "contained"}
    BY <1>1, <1>4, <2>3, ContainmentAssumption DEF TasksTyped, Leased, Runs
  <2>5. QED
    BY <1>1, <1>4, <2>1, <2>2, <2>4, StepTyped
<1>5. ASSUME NEW t \in Task, Leasing(t)
      PROVE  ConTypeOK'
  <2>0. Live(t)
    BY <1>5 DEF Leasing, CountTokens, AddToken, LeaseFromDatabase, RedisError, TokenExpires, At
  <2>a. /\ task[t] \in TaskState
        /\ task[t].stage \in {"evaluated", "counted"} => Runs(t, "playbook") /\ policyLock # t
    BY <1>1, <2>0, LiveTyped, ContainmentAssumption
       DEF ConInd, RowsInd, TaskOK, Idle, Runs, TasksTyped, Leased
  <2>1. TasksTyped'
    <3>1. CASE CountTokens(t)
      <4>1. CASE Becomes(t, "counted") /\ UNCHANGED policyLock
        BY <1>4, <2>0, <2>a, <3>1, <4>1 DEF CountTokens, At, Stage
      <4>2. CASE Ends(t)
        BY <1>1, <4>2, EndsTyped
      <4>3. QED
        BY <3>1, <4>1, <4>2 DEF CountTokens
    <3>2. CASE AddToken(t)
      <4> DEFINE x == [task[t] EXCEPT !.stage = "leased", !.lease = "redis"]
      <4>1. x \in TaskState
        BY <2>a, LeasesTyped DEF Stage
      <4>2. task' = [task EXCEPT ![t] = x] /\ policyLock' = policyLock /\ policyLock # t
        BY <2>a, <3>2 DEF AddToken, At
      <4>3. QED
        BY <1>1, <4>1, <4>2, StepTyped
    <3>3. CASE LeaseFromDatabase(t) \/ RedisError(t)
      BY <1>1, <2>a, <3>3, CountRunsTyped DEF LeaseFromDatabase, RedisError, At
    <3>4. CASE TokenExpires(t)
      <4> DEFINE x == [task[t] EXCEPT !.lease = "expired"]
      <4>1. x \in TaskState /\ x.kind = task[t].kind /\ x.stage = task[t].stage
        BY <2>a, ExpiryTyped
      <4>2. task' = [task EXCEPT ![t] = x] /\ policyLock' = policyLock
        BY <3>4 DEF TokenExpires
      <4>3. policyLock = t => x.kind = "playbook" /\ x.stage \in {"leased", "inserted", "contained"}
        BY <1>1, <4>1, ContainmentAssumption DEF TasksTyped, Leased, Runs
      <4>4. QED
        BY <1>1, <4>1, <4>2, <4>3, StepTyped
    <3>5. QED
      BY <1>5, <3>1, <3>2, <3>3, <3>4 DEF Leasing
  <2>2. TablesTyped'
    BY <1>1, <1>5 DEF Leasing, CountTokens, AddToken, LeaseFromDatabase, RedisError, TokenExpires,
       TablesTyped
  <2>3. leaked' \in Nat /\ starts' = starts /\ troubles' \in 0 .. MaxTroubles
    BY <1>1, <1>5, ContainmentAssumption
       DEF Leasing, CountTokens, AddToken, LeaseFromDatabase, RedisError, TokenExpires,
           OthersTyped, Trouble
  <2>4. UNCHANGED <<policy, redis, orphaned>>
    BY <1>5 DEF Leasing, CountTokens, AddToken, LeaseFromDatabase, RedisError, TokenExpires
  <2>5. OthersTyped'
    BY <1>1, <2>3, <2>4 DEF OthersTyped
  <2>6. QED
    BY <2>1, <2>2, <2>5, TypePartsNext
<1>6. ASSUME NEW t \in Task, InsertRun(t) \/ Contain(t)
      PROVE  ConTypeOK'
  <2>0. Live(t) /\ task[t].key \in Key /\ task[t] \in TaskState
    BY <1>1, <1>6, LiveTyped DEF InsertRun, Contain, At
  <2>1. TasksTyped'
    <3>1. CASE InsertRun(t)
      BY <1>1, <1>4, <2>0, <3>1, EndsTyped DEF InsertRun, Stage
    <3>2. CASE Contain(t)
      <4> DEFINE x == [task[t] EXCEPT !.stage = "contained", !.write = Decision(task[t].key)]
      <4>1. Decision(task[t].key) \in Write
        BY <2>0, DecisionTyped
      <4>2. x \in TaskState /\ x.kind = task[t].kind /\ x.stage = "contained"
        <5>1. "contained" \in Stage
          BY DEF Stage
        <5>2. x \in TaskState
          BY <2>0, <4>1, <5>1, WritesTyped, Zenon
        <5>3. x.kind = task[t].kind /\ x.stage = "contained"
          BY <2>0 DEF TaskState
        <5>4. QED
          BY <5>2, <5>3
      <4>3. task' = [task EXCEPT ![t] = x] /\ policyLock' = policyLock
        BY <3>2 DEF Contain
      <4>4. policyLock = t => x.kind = "playbook"
        BY <1>1, <4>2, ContainmentAssumption DEF TasksTyped, Leased, Runs
      <4>5. QED
        BY <1>1, <4>2, <4>3, <4>4, StepTyped
    <3>3. QED
      BY <1>6, <3>1, <3>2
  <2>2. TablesTyped' /\ OthersTyped'
    BY <1>1, <1>6 DEF InsertRun, Contain, TablesTyped, OthersTyped
  <2>3. QED
    BY <2>1, <2>2, TypePartsNext
<1>7. ASSUME NEW t \in Task, Bind(t)
      PROVE  ConTypeOK'
  <2>0. /\ Live(t) /\ ~Runs(t, "revert") /\ Commits(t)
        /\ task[t] \in TaskState /\ task[t].key \in Key /\ task[t].key.alert \in Alert
    BY <1>1, <1>7, LiveTyped DEF Bind, At, Runs
  <2> DEFINE x == [task[t] EXCEPT !.stage = "bound", !.write = "nothing"]
  <2>1. x \in TaskState
    BY <2>0, WritesTyped DEF Stage, Write
  <2>2. task' = [task EXCEPT ![t] = x] /\ policyLock' \in {policyLock, None} /\ policyLock' # t
    BY <1>7, ContainmentAssumption DEF Bind
  <2>3. TasksTyped'
    BY <1>1, <2>1, <2>2, StepTyped
  <2>4. run' \in [Key -> {"none", "RUNNING", "COMPLETED", "FAILED"}] /\ bound' \subseteq Alert
    BY <1>1, <1>7, <2>0 DEF Bind, TablesTyped
  <2>5. TablesTyped'
    BY <2>0, <2>4, CommitsTyped DEF TablesTyped
  <2>6. OthersTyped'
    BY <1>1, <1>7 DEF Bind, OthersTyped
  <2>7. QED
    BY <2>3, <2>5, <2>6, TypePartsNext
<1>8. ASSUME NEW t \in Task, Finish(t) \/ FinishManual(t)
      PROVE  ConTypeOK'
  <2>0. Live(t) /\ ~Runs(t, "revert") /\ Commits(t) /\ Ends(t)
    BY <1>8 DEF Finish, FinishManual, Runs
  <2>1. TasksTyped'
    BY <1>1, <2>0, EndsTyped
  <2>2. run' \in [Key -> {"none", "RUNNING", "COMPLETED", "FAILED"}] /\ bound' \subseteq Alert
    BY <1>1, <1>8 DEF Finish, FinishManual, TablesTyped, Outcome
  <2>3. TablesTyped'
    BY <2>0, <2>2, CommitsTyped DEF TablesTyped
  <2>4. OthersTyped'
    BY <1>1, <1>8 DEF Finish, FinishManual, OthersTyped
  <2>5. QED
    BY <2>1, <2>3, <2>4, TypePartsNext
<1>9. ASSUME NEW t \in Task, FinishRevert(t)
      PROVE  ConTypeOK'
  <2>1. TasksTyped'
    BY <1>1, <1>9, EndsTyped DEF FinishRevert
  <2>2. TablesTyped' /\ OthersTyped'
    BY <1>1, <1>9 DEF FinishRevert, TablesTyped, OthersTyped
  <2>3. QED
    BY <2>1, <2>2, TypePartsNext
<1>10. ASSUME NEW t \in Task, Fail(t)
       PROVE  ConTypeOK'
  <2>1. TasksTyped' /\ task[t].key \in Key
    BY <1>1, <1>10, EndsTyped, LiveTyped DEF Fail
  <2>2. TablesTyped' /\ OthersTyped'
    BY <1>1, <1>10, <2>1, ContainmentAssumption DEF Fail, TablesTyped, OthersTyped, Trouble
  <2>3. QED
    BY <2>1, <2>2, TypePartsNext
<1>11. CASE LeakedTokenExpires \/ UpdatePolicy \/ ToggleTarget
  <2>1. TasksTyped'
    BY <1>1, <1>11 DEF LeakedTokenExpires, UpdatePolicy, ToggleTarget, TasksTyped, Leased, Runs, Live
  <2>2. TablesTyped'
    BY <1>1, <1>11 DEF LeakedTokenExpires, UpdatePolicy, ToggleTarget, TablesTyped
  <2>3. OthersTyped'
    <3>1. CASE LeakedTokenExpires
      BY <1>1, <3>1 DEF LeakedTokenExpires, OthersTyped
    <3>2. CASE UpdatePolicy
      BY <1>1, <3>2, ContainmentAssumption DEF UpdatePolicy, OthersTyped, Trouble
    <3>3. CASE ToggleTarget
      BY <1>1, <3>3, ContainmentAssumption DEF ToggleTarget, OthersTyped, Trouble
    <3>4. QED
      BY <1>11, <3>1, <3>2, <3>3
  <2>4. QED
    BY <2>1, <2>2, <2>3, TypePartsNext
<1>12. CASE UNCHANGED cvars
  <2>1. TasksTyped' /\ TablesTyped' /\ OthersTyped'
    BY <1>1, <1>12 DEF cvars, TasksTyped, TablesTyped, OthersTyped, Leased, Runs, Live
  <2>2. QED
    BY <2>1, TypePartsNext
<1>13. QED
  BY <1>3, <1>5, <1>6, <1>7, <1>8, <1>9, <1>10, <1>11, <1>12
     DEF ConNext, Progress, Expires, Leasing

-----------------------------------------------------------------------------
(* The rows of the actions.                                                *)

(* What is said of a task depends on its own state and on three tables.    *)
LEMMA OtherTasks ==
  ASSUME RowsInd, TasksTyped, NEW t \in Task, NEW x,
         task' = [task EXCEPT ![t] = x],
         UNCHANGED <<action, entry>>
  PROVE  /\ \A u \in Task \ {t} : TaskOK(u)'
         /\ \A u, v \in Task \ {t} : Alone(u, v)'
         /\ \A u \in Task \ {t} : task'[u] = task[u]
         /\ task'[t] = x
BY DEF RowsInd, TasksTyped, TaskOK, Fresh, Reverting, Idle, Alone, ActionKey, Runs, At, Live

(* A task that has written nothing disturbs no fact about the rows.        *)
LEMMA QuietStep ==
  ASSUME RowsInd, TasksTyped, NEW t \in Task, NEW x,
         task' = [task EXCEPT ![t] = x],
         x = None \/ (/\ x.stage # "contained" /\ x.write = "nothing"
                      /\ x.kind # "revert"
                      /\ x.stage # "inserted" => x.kind = "playbook"),
         UNCHANGED <<action, entry, performed>>
  PROVE  RowsInd'
<1>1. /\ \A u \in Task \ {t} : TaskOK(u)'
      /\ \A u, v \in Task \ {t} : Alone(u, v)'
      /\ task'[t] = x
  BY OtherTasks
<1>2. TaskOK(t)' /\ ~ActionKey(t)'
  BY <1>1 DEF TaskOK, Fresh, Reverting, Idle, ActionKey, Runs, At, Live
<1>3. History' /\ InForce'
  BY DEF RowsInd, History, InForce
<1>4. \A u, v \in Task : Alone(u, v)'
  BY <1>1, <1>2 DEF Alone
<1>5. QED
  BY <1>1, <1>2, <1>3, <1>4 DEF RowsInd

(* Nor does one that keeps its stage, its write and its key.               *)
LEMMA SameTask ==
  ASSUME RowsInd, TasksTyped, NEW t \in Task, NEW x,
         task' = [task EXCEPT ![t] = x],
         x # None, Live(t),
         x.stage = task[t].stage, x.write = task[t].write,
         x.kind = task[t].kind, x.key = task[t].key,
         UNCHANGED <<action, entry, performed>>
  PROVE  RowsInd'
<1>1. /\ \A u \in Task \ {t} : TaskOK(u)'
      /\ \A u, v \in Task \ {t} : Alone(u, v)'
      /\ \A u \in Task \ {t} : task'[u] = task[u]
      /\ task'[t] = x
  BY OtherTasks
<1>2. TaskOK(t)'
  BY <1>1 DEF RowsInd, TaskOK, Fresh, Reverting, Idle, ActionKey, Runs, At, Live
<1>3. History' /\ InForce'
  BY DEF RowsInd, History, InForce
<1>4. \A u \in Task : /\ ActionKey(u)' <=> ActionKey(u)
                      /\ ActionKey(u) => task'[u].key = task[u].key
  BY <1>1 DEF ActionKey, Runs, At, Live
<1>5. \A u, v \in Task : Alone(u, v)'
  BY <1>4 DEF RowsInd, Alone
<1>6. QED
  BY <1>1, <1>2, <1>3, <1>5 DEF RowsInd

(* What is decided for an action fits its kind, and has no row yet.        *)
LEMMA DecisionFits ==
  ASSUME NEW k \in Key, k.kind \in Kind, Decision(k) # "nothing"
  PROVE  /\ action[k] = "none"
         /\ Decision(k) \in IF k.kind = "blacklist" THEN {"blocks", "enters", "extends", "fails"}
                           ELSE {"quarantines", "skips"}
<1>1. action[k] = "none"
  BY DEF Decision
<1>2. CASE k.kind = "blacklist"
  <2>1. Decision(k) \in {"blocks", "enters", "extends", "fails"}
    BY <1>1, <1>2 DEF Decision
  <2>2. QED
    BY <1>1, <1>2, <2>1
<1>3. CASE k.kind = "quarantine"
  <2>1. Decision(k) \in {"quarantines", "skips"}
    BY <1>1, <1>3 DEF Decision
  <2>2. QED
    BY <1>1, <1>3, <2>1
<1>4. QED
  BY <1>2, <1>3 DEF Kind

(* The decision is about a key that no other transaction has inserted.     *)
LEMMA ContainRows ==
  ASSUME ConInd, NEW t \in Task, Contain(t)
  PROVE  RowsInd'
<1> DEFINE k == task[t].key
           x == [task[t] EXCEPT !.stage = "contained", !.write = Decision(k)]
<1>1. TasksTyped /\ RowsInd /\ Live(t) /\ task[t].stage = "inserted" /\ k \in Key
      /\ k.kind \in Kind /\ task[t] \in TaskState
  BY TypeParts, LiveTyped DEF ConInd, Contain, At
<1>2. ~Runs(t, "revert")
  BY <1>1 DEF RowsInd, TaskOK, Reverting
<1>3. /\ x.stage = "contained" /\ x.write = Decision(k) /\ x.key = k /\ x.kind # "revert"
      /\ task[t].kind = x.kind
  BY <1>1, <1>2 DEF TaskState, Runs
<1>4. x # None
  <2>1. x \in TaskState
    BY <1>1, DecisionTyped, WritesTyped DEF Stage
  <2>2. QED
    BY <2>1, NoneIsNoRecord
<1>5. /\ task' = [task EXCEPT ![t] = x]
      /\ UNCHANGED <<action, entry, performed>>
  BY DEF Contain, rows
<1> HIDE DEF x
<1>6. /\ \A u \in Task \ {t} : TaskOK(u)'
      /\ \A u, v \in Task \ {t} : Alone(u, v)'
      /\ \A u \in Task \ {t} : task'[u] = task[u]
      /\ task'[t] = x
  BY <1>1, <1>5, OtherTasks
<1>7. Decision(k) # "nothing" =>
        /\ action[k] = "none"
        /\ Decision(k) \in IF k.kind = "blacklist" THEN {"blocks", "enters", "extends", "fails"}
                           ELSE {"quarantines", "skips"}
  BY <1>1, DecisionFits
<1>8. TaskOK(t)'
  BY <1>3, <1>4, <1>5, <1>6, <1>7 DEF TaskOK, Fresh, Reverting, Idle, ActionKey, Runs, At, Live
<1>9. \A u \in Task \ {t} : ActionKey(u)' => task'[u].key # k /\ task'[t].key = k
  <2> SUFFICES ASSUME NEW u \in Task \ {t}, ActionKey(u)'
               PROVE  task'[u].key # k /\ task'[t].key = k
    OBVIOUS
  <2>1. task'[u] = task[u] /\ task'[t].key = k
    BY <1>3, <1>6
  <2>2. ActionKey(u)
    BY <2>1 DEF ActionKey, Runs, At, Live
  <2>3. task[u].key # k
    BY <2>2 DEF Contain, KeyIsFree
  <2>4. QED
    BY <2>1, <2>3
<1>10. \A u, v \in Task : Alone(u, v)'
  BY <1>6, <1>9 DEF Alone
<1>11. History' /\ InForce'
  BY <1>1, <1>5 DEF RowsInd, History, InForce
<1>12. QED
  BY <1>6, <1>8, <1>10, <1>11 DEF RowsInd

(* A commit, after which its task has ended or writes nothing more.        *)
LEMMA CommitRows ==
  ASSUME ConInd, NEW t \in Task, Live(t), ~Runs(t, "revert"), Commits(t), NEW x,
         task' = [task EXCEPT ![t] = x],
         x = None \/ (/\ x.stage # "contained" /\ x.write = "nothing"
                      /\ x.kind = "playbook")
  PROVE  RowsInd'
<1> DEFINE k == task[t].key
           w == task[t].write
<1>1. RowsInd /\ TasksTyped /\ TablesTyped /\ k \in Key
  BY TypeParts, LiveTyped DEF ConInd
<1>2. CASE w = "nothing"
  BY <1>1, <1>2, QuietStep DEF Commits
<1>3. CASE w # "nothing"
  <2>1. /\ ActionKey(t) /\ action[k] = "none"
        /\ StatusOf(w) \in {"EXECUTED", "BLOCKED", "SKIPPED", "FAILED"}
        /\ w = "enters" => k.kind = "blacklist" /\ StatusOf(w) = "EXECUTED"
    BY <1>3, CommitsFirst
  <2>2. /\ action' = [action EXCEPT ![k] = StatusOf(w)]
        /\ entry' = [entry EXCEPT ![k] = IF w = "enters" THEN "active" ELSE @]
        /\ performed' = [performed EXCEPT ![k] = @ + 1]
    BY <1>3 DEF Commits
  <2>3. /\ action'[k] = StatusOf(w) /\ entry'[k] = (IF w = "enters" THEN "active" ELSE entry[k])
        /\ performed'[k] = 1
        /\ \A j \in Key \ {k} : /\ action'[j] = action[j] /\ entry'[j] = entry[j]
                                /\ performed'[j] = performed[j]
    <3>1. performed[k] = 0
      BY <1>1, <2>1 DEF RowsInd, History
    <3>2. QED
      BY <1>1, <2>2, <3>1 DEF TablesTyped
  <2>4. History'
    BY <1>1, <2>1, <2>3 DEF RowsInd, History
  <2>5. InForce'
    BY <1>1, <2>1, <2>3 DEF RowsInd, InForce
  <2>6. /\ \A u \in Task \ {t} : task'[u] = task[u]
        /\ task'[t] = x
    BY <1>1 DEF TasksTyped
  <2>7. \A u \in Task : Live(u) => task[u].key \in Key
    BY <1>1, LiveTyped
  <2>8. ASSUME NEW u \in Task \ {t}
        PROVE  TaskOK(u)'
    <3>1. TaskOK(u) /\ Alone(t, u)
      BY <1>1 DEF RowsInd
    <3>2. /\ ActionKey(u) => task[u].key \in Key \ {k}
          /\ Runs(u, "revert") => task[u].key \in Key \ {k}
      BY <2>1, <2>7, <3>1 DEF TaskOK, Alone, Reverting, ActionKey, Runs, At
    <3>3. QED
      BY <2>3, <2>6, <3>1, <3>2 DEF TaskOK, Fresh, Reverting, Idle, ActionKey, Runs, At, Live
  <2>9. TaskOK(t)' /\ ~ActionKey(t)'
    BY <2>6 DEF TaskOK, Fresh, Reverting, Idle, ActionKey, Runs, At, Live
  <2>10. \A u, v \in Task : Alone(u, v)'
    <3>1. \A u \in Task \ {t} : ActionKey(u)' <=> ActionKey(u)
      BY <2>6 DEF ActionKey, Runs, At, Live
    <3>2. QED
      BY <1>1, <2>6, <2>9, <3>1 DEF RowsInd, Alone
  <2>11. QED
    BY <2>4, <2>5, <2>8, <2>9, <2>10 DEF RowsInd
<1>4. QED
  BY <1>2, <1>3

(* A revert ends with no entry of its action in force.                     *)
LEMMA RevertRows ==
  ASSUME ConInd, NEW t \in Task, FinishRevert(t)
  PROVE  RowsInd'
<1> DEFINE k == task[t].key
           w == task[t].write
<1>1. RowsInd /\ TasksTyped /\ TablesTyped /\ Live(t) /\ k \in Key
  BY TypeParts, LiveTyped DEF ConInd, FinishRevert, Runs
<1>2. /\ action[k] \in {"EXECUTED", "REVERTED"}
      /\ w # "deactivates" => entry[k] # "active"
  BY <1>1 DEF RowsInd, TaskOK, Reverting, FinishRevert
<1>3. /\ action'[k] = "REVERTED" /\ entry'[k] # "active"
      /\ \A j \in Key \ {k} : action'[j] = action[j] /\ entry'[j] = entry[j]
      /\ performed' = performed
  BY <1>1, <1>2 DEF FinishRevert, TablesTyped
<1>4. History' /\ InForce'
  BY <1>1, <1>2, <1>3 DEF RowsInd, History, InForce
<1>5. /\ \A u \in Task \ {t} : task'[u] = task[u]
      /\ task'[t] = None
  BY <1>1 DEF FinishRevert, Ends, TasksTyped
<1>6. \A u \in Task : Live(u) => task[u].key \in Key
  BY <1>1, LiveTyped
<1>7. ASSUME NEW u \in Task \ {t}
      PROVE  TaskOK(u)'
  <2>1. TaskOK(u)
    BY <1>1 DEF RowsInd
  <2>2. ActionKey(u) => task[u].key \in Key \ {k}
    BY <1>2, <1>6, <2>1 DEF TaskOK, Fresh, ActionKey, At
  <2>3. Fresh(u)' /\ Idle(u)'
    BY <1>3, <1>5, <2>1, <2>2 DEF TaskOK, Fresh, Idle, ActionKey, Runs, At, Live
  <2>4. Reverting(u)'
    <3>1. CASE task[u].key = k
      BY <1>3, <1>5, <2>1, <3>1 DEF TaskOK, Reverting, Runs, Live
    <3>2. CASE task[u].key # k
      BY <1>3, <1>5, <1>6, <2>1, <3>2 DEF TaskOK, Reverting, Runs, Live
    <3>3. QED
      BY <3>1, <3>2
  <2>5. QED
    BY <2>3, <2>4 DEF TaskOK
<1>8. TaskOK(t)' /\ ~ActionKey(t)'
  BY <1>5 DEF TaskOK, Fresh, Reverting, Idle, ActionKey, Runs, At, Live
<1>9. \A u, v \in Task : Alone(u, v)'
  <2>1. \A u \in Task \ {t} : ActionKey(u)' <=> ActionKey(u)
    BY <1>5 DEF ActionKey, Runs, At, Live
  <2>2. QED
    BY <1>1, <1>5, <1>8, <2>1 DEF RowsInd, Alone
<1>10. QED
  BY <1>4, <1>7, <1>8, <1>9 DEF RowsInd

(* A revert starts from an action that is EXECUTED.                        *)
LEMMA RevertBegins ==
  ASSUME ConInd, NEW t \in Task, NEW k \in Key, Revert(t, k)
  PROVE  RowsInd'
<1> DEFINE x == Begun("revert", k, "contained", Undo(k))
<1>1. RowsInd /\ TasksTyped
  BY TypeParts DEF ConInd
<1>2. /\ task' = [task EXCEPT ![t] = x]
      /\ UNCHANGED <<action, entry, performed>>
  BY DEF Revert, rows
<1>3. /\ \A u \in Task \ {t} : TaskOK(u)'
      /\ \A u, v \in Task \ {t} : Alone(u, v)'
      /\ task'[t] = x
  BY <1>1, <1>2, OtherTasks
<1>4. /\ x.kind = "revert" /\ x.stage = "contained" /\ x.key = k /\ x.write = Undo(k)
  BY DEF Begun
<1>5. Undo(k) # "deactivates" => entry[k] # "active"
  <2>1. CASE entry[k] = "active"
    <3>1. k.kind = "blacklist"
      BY <1>1, <2>1 DEF RowsInd, InForce
    <3>2. QED
      BY <2>1, <3>1 DEF Undo
  <2>2. QED
    BY <2>1
<1>6. TaskOK(t)' /\ ~ActionKey(t)'
  BY <1>2, <1>3, <1>4, <1>5 DEF Revert, TaskOK, Fresh, Reverting, Idle, ActionKey, Runs, At, Live
<1>7. \A u, v \in Task : Alone(u, v)'
  BY <1>3, <1>6 DEF Alone
<1>8. History' /\ InForce'
  BY <1>1, <1>2 DEF RowsInd, History, InForce
<1>9. QED
  BY <1>3, <1>6, <1>7, <1>8 DEF RowsInd

(* Every step preserves the facts about rows and transactions.             *)
LEMMA RowsNext ==
  ASSUME ConInd, [ConNext]_cvars
  PROVE  RowsInd'
<1> USE DEF rows
<1>1. RowsInd /\ TasksTyped
  BY TypeParts DEF ConInd
<1>2. ASSUME NEW t \in Task, NEW k \in Key, Evaluate(t, k) \/ Manual(t, k)
      PROVE  RowsInd'
  <2>1. CASE Evaluate(t, k)
    <3> DEFINE x == Begun("playbook", k, "evaluated", "nothing")
    <3>1. x.stage = "evaluated" /\ x.write = "nothing" /\ x.kind = "playbook"
      BY DEF Begun
    <3>2. task' = [task EXCEPT ![t] = x] /\ UNCHANGED <<action, entry, performed>>
      BY <2>1 DEF Evaluate
    <3>3. QED
      BY <1>1, <3>1, <3>2, QuietStep
  <2>2. CASE Manual(t, k)
    <3> DEFINE x == Begun("manual", k, "inserted", "nothing")
    <3>1. x.stage = "inserted" /\ x.write = "nothing" /\ x.kind = "manual"
      BY DEF Begun
    <3>2. task' = [task EXCEPT ![t] = x] /\ UNCHANGED <<action, entry, performed>>
      BY <2>2 DEF Manual
    <3>3. QED
      BY <1>1, <3>1, <3>2, QuietStep
  <2>3. QED
    BY <1>2, <2>1, <2>2
<1>3. ASSUME NEW t \in Task, Ends(t), UNCHANGED <<action, entry, performed>>
      PROVE  RowsInd'
  BY <1>1, <1>3, QuietStep DEF Ends
<1>4. ASSUME NEW t \in Task, Live(t), task[t].stage # "contained",
             NEW stage \in {"counted", "leased", "inserted"},
             NEW lease, lease \in {"none", "redis", "expired", "db"},
             task' = [task EXCEPT ![t].stage = stage, ![t].lease = lease]
               \/ task' = [task EXCEPT ![t].stage = stage],
             task[t].stage # "inserted",
             UNCHANGED <<action, entry, performed>>
      PROVE  RowsInd'
  <2>1. /\ task[t] \in TaskState /\ task[t].write = "nothing" /\ task[t].kind = "playbook"
        /\ stage \in Stage
    BY <1>1, <1>4, LiveTyped DEF RowsInd, TaskOK, Idle, Stage
  <2>2. CASE task' = [task EXCEPT ![t].stage = stage, ![t].lease = lease]
    <3> DEFINE x == [task[t] EXCEPT !.stage = stage, !.lease = lease]
    <3>1. x.stage = stage /\ x.write = "nothing" /\ x.kind = "playbook"
      BY <2>1 DEF TaskState
    <3>2. task' = [task EXCEPT ![t] = x]
      BY <2>2
    <3>3. QED
      BY <1>1, <1>4, <3>1, <3>2, QuietStep
  <2>3. CASE task' = [task EXCEPT ![t].stage = stage]
    <3> DEFINE x == [task[t] EXCEPT !.stage = stage]
    <3>1. x.stage = stage /\ x.write = "nothing" /\ x.kind = "playbook"
      BY <2>1 DEF TaskState
    <3>2. task' = [task EXCEPT ![t] = x]
      BY <2>3
    <3>3. QED
      BY <1>1, <1>4, <3>1, <3>2, QuietStep
  <2>4. QED
    BY <1>4, <2>2, <2>3
<1>5. ASSUME NEW t \in Task, Leasing(t) \/ InsertRun(t)
      PROVE  RowsInd'
  <2>1. UNCHANGED <<action, entry, performed>>
    BY <1>5 DEF Leasing, CountTokens, AddToken, LeaseFromDatabase, RedisError, TokenExpires, InsertRun
  <2>2. CASE CountTokens(t)
    BY <1>3, <1>4, <2>1, <2>2 DEF CountTokens, At, Becomes
  <2>3. CASE AddToken(t)
    BY <1>4, <2>1, <2>3 DEF AddToken, At
  <2>4. CASE LeaseFromDatabase(t) \/ RedisError(t)
    BY <1>3, <1>4, <2>1, <2>4 DEF LeaseFromDatabase, RedisError, CountRuns, At
  <2>5. CASE TokenExpires(t)
    <3> DEFINE x == [task[t] EXCEPT !.lease = "expired"]
    <3>1. task[t] \in TaskState /\ Live(t)
      BY <1>1, <2>5, LiveTyped DEF TokenExpires
    <3>2. x \in TaskState /\ x.stage = task[t].stage /\ x.write = task[t].write
          /\ x.kind = task[t].kind /\ x.key = task[t].key
      BY <3>1, ExpiryTyped DEF TaskState
    <3>3. task' = [task EXCEPT ![t] = x] /\ x # None
      BY <2>5, <3>2, NoneIsNoRecord DEF TokenExpires
    <3>4. QED
      BY <1>1, <2>1, <3>1, <3>2, <3>3, SameTask
  <2>6. CASE InsertRun(t)
    BY <1>3, <1>4, <2>1, <2>6 DEF InsertRun, At, Becomes
  <2>7. QED
    BY <1>5, <2>2, <2>3, <2>4, <2>5, <2>6 DEF Leasing
<1>6. ASSUME NEW t \in Task, Bind(t)
      PROVE  RowsInd'
  <2> DEFINE x == [task[t] EXCEPT !.stage = "bound", !.write = "nothing"]
  <2>1. task[t] \in TaskState /\ Live(t) /\ task[t].kind = "playbook" /\ Commits(t)
    BY <1>1, <1>6, LiveTyped DEF Bind, Runs
  <2>2. x.stage = "bound" /\ x.write = "nothing" /\ x.kind = "playbook"
    BY <2>1 DEF TaskState
  <2>3. task' = [task EXCEPT ![t] = x] /\ ~Runs(t, "revert")
    BY <1>6, <2>1 DEF Bind, Runs
  <2>4. QED
    BY <2>1, <2>2, <2>3, CommitRows
<1>7. ASSUME NEW t \in Task, Finish(t) \/ FinishManual(t)
      PROVE  RowsInd'
  <2>1. Live(t) /\ ~Runs(t, "revert") /\ Commits(t) /\ task' = [task EXCEPT ![t] = None]
    BY <1>7 DEF Finish, FinishManual, Runs, Ends
  <2>2. QED
    BY <2>1, CommitRows
<1>8. ASSUME NEW t \in Task, Fail(t)
      PROVE  RowsInd'
  BY <1>3, <1>8 DEF Fail
<1>9. CASE LeakedTokenExpires \/ UpdatePolicy \/ ToggleTarget \/ UNCHANGED cvars
  <2>1. UNCHANGED <<task, action, entry, performed>>
    BY <1>9 DEF LeakedTokenExpires, UpdatePolicy, ToggleTarget, cvars
  <2>2. QED
    BY <1>1, <2>1 DEF RowsInd, History, InForce, TaskOK, Fresh, Reverting, Idle, Alone,
       ActionKey, Runs, At, Live
<1>10. QED
  BY <1>2, <1>5, <1>6, <1>7, <1>8, <1>9, RevertBegins, ContainRows, RevertRows
     DEF ConNext, Progress, Expires, Leasing

-----------------------------------------------------------------------------
(* The theorems.                                                           *)

(* The initial states satisfy the invariant.                               *)
LEMMA ConInitInd == ConInit => ConInd
<1> SUFFICES ASSUME ConInit
             PROVE  ConInd
  OBVIOUS
<1> USE ContainmentAssumption DEF ConInit
<1>1. ConTypeOK
  BY DEF ConTypeOK
<1>2. History /\ InForce
  BY DEF History, InForce
<1>3. \A t \in Task : TaskOK(t) /\ ~ActionKey(t)
  BY DEF TaskOK, Fresh, Reverting, Idle, ActionKey, Runs, At, Live
<1>4. QED
  BY <1>1, <1>2, <1>3 DEF ConInd, RowsInd, Alone

(* The invariant is inductive.                                             *)
LEMMA ConNextInd == ConInd /\ [ConNext]_cvars => ConInd'
BY TypeNext, RowsNext DEF ConInd

(* It holds in every reachable state.                                      *)
LEMMA ConInvariant == ConSpec => []ConInd
BY ConInitInd, ConNextInd, PTL DEF ConSpec, ConSafe

(* Type correctness of the containment model.                              *)
THEOREM ContainmentTypeCorrect == ConSpec => []ConTypeOK
<1>1. ConInd => ConTypeOK
  BY DEF ConInd
<1>2. QED
  BY <1>1, ConInvariant, PTL

(* Safety: whatever tasks, reverts, crashes and failed commits interleave  *)
(* in execute_playbook and revert_action, an entry in force belongs to an  *)
(* action that revert_action accepts.                                      *)
THEOREM RevertibleTheorem == ConSpec => []InForceIsRevertible
<1>1. ConInd => InForceIsRevertible
  BY DEF ConInd, RowsInd, InForce, InForceIsRevertible
<1>2. QED
  BY <1>1, ConInvariant, PTL

(* Safety: the unique idempotency key lets one of all the tasks of an alert*)
(* perform an action, and none after it has been reverted.                 *)
THEOREM PerformedOnceTheorem == ConSpec => []PerformedOnce
<1>1. ConInd => PerformedOnce
  BY DEF ConInd, RowsInd, History, PerformedOnce
<1>2. QED
  BY <1>1, ConInvariant, PTL

-----------------------------------------------------------------------------
(* The limit of the fallback lease.                                        *)

(* The playbook rows the fallback counts.                                  *)
Running == {k \in Key : run[k] = "RUNNING"}

(* Without Redis, a playbook past the lease holds the lock until its first *)
(* commit, which makes its run count.                                      *)
SlotOK(t) ==
  /\ ~At(t, "counted")
  /\ Leased(t) /\ task[t].stage # "bound" => policyLock = t
  /\ RunKey(t) => run[task[t].key] = "none"
  /\ At(t, "bound") => run[task[t].key] = "RUNNING"

(* No two playbooks under way have the same row.                           *)
OwnRun(t, u) ==
  At(t, "bound") /\ At(u, "bound") /\ task[t].key = task[u].key => t = u

SlotsOK == (\A t \in Task : SlotOK(t)) /\ (\A t, u \in Task : OwnRun(t, u))

(* Whoever holds the policy row has found room for one more.               *)
WithinLimit ==
  /\ Cardinality(Running) <= MaxPlaybooks
  /\ policyLock # None => Cardinality(Running) < MaxPlaybooks

CapInd == ~redis => SlotsOK /\ WithinLimit

(* There are finitely many RUNNING playbook rows.                          *)
LEMMA RunningIsFinite == IsFiniteSet(Running) /\ Cardinality(Running) \in Nat
BY FinitelyManyKeys, FS_Subset, FS_CardinalityType DEF Running

(* A step of one task leaves the others their slots.                       *)
LEMMA SlotStep ==
  ASSUME SlotsOK, TasksTyped, NEW t \in Task, NEW x,
         task' = [task EXCEPT ![t] = x],
         policyLock' = policyLock \/ (policyLock \in {t, None} /\ policyLock' \in {t, None}),
         \A u \in Task \ {t} : RunKey(u) \/ At(u, "bound")
                                 => run'[task[u].key] = run[task[u].key],
         SlotOK(t)',
         x # None /\ x.stage = "bound"
           => \A u \in Task \ {t} : At(u, "bound") => task[u].key # x.key
  PROVE  SlotsOK'
<1>1. /\ \A u \in Task \ {t} : task'[u] = task[u]
      /\ task'[t] = x
  BY DEF TasksTyped
<1>2. ASSUME NEW u \in Task \ {t}
      PROVE  SlotOK(u)'
  <2>1. SlotOK(u)
    BY DEF SlotsOK
  <2>2. Leased(u) /\ task[u].stage # "bound" => policyLock' = u
    BY <2>1, ContainmentAssumption DEF SlotOK
  <2>3. QED
    BY <1>1, <2>1, <2>2 DEF SlotOK, RunKey, Leased, Runs, At, Live
<1>3. \A u, v \in Task : OwnRun(u, v)'
  BY <1>1 DEF SlotsOK, OwnRun, At, Live
<1>4. QED
  BY <1>2, <1>3 DEF SlotsOK

(* Every step preserves what keeps the fallback below its limit.           *)
LEMMA CapNext ==
  ASSUME ConInd, CapInd, [ConNext]_cvars
  PROVE  CapInd'
<1> USE DEF policy, rows
<1>1. redis' = redis
  BY DEF ConNext, Evaluate, Manual, Revert, Progress, CountTokens, AddToken, LeaseFromDatabase,
     InsertRun, Contain, Bind, Finish, FinishManual, FinishRevert, RedisError, Fail, Expires,
     TokenExpires, LeakedTokenExpires, UpdatePolicy, ToggleTarget, cvars
<1>2. SUFFICES ASSUME ~redis
               PROVE  SlotsOK' /\ WithinLimit'
  BY <1>1 DEF CapInd
<1>3. SlotsOK /\ WithinLimit /\ TasksTyped /\ TablesTyped /\ RowsInd
  BY <1>2, TypeParts DEF CapInd, ConInd
<1>4. ASSUME run' = run, policyLock' # None => policyLock # None
      PROVE  WithinLimit'
  BY <1>3, <1>4 DEF WithinLimit, Running
<1>5. ASSUME NEW t \in Task, NEW x, task' = [task EXCEPT ![t] = x],
             x = None \/ (x.stage \notin {"counted", "leased", "bound"}
                            /\ (x.kind = "playbook" => x.stage = "evaluated")),
             run' = run, policyLock' \in {policyLock, None},
             policyLock' = policyLock \/ policyLock = t
      PROVE  SlotsOK' /\ WithinLimit'
  <2>1. task'[t] = x
    BY <1>3, <1>5 DEF TasksTyped
  <2>2. SlotOK(t)'
    BY <1>5, <2>1 DEF SlotOK, Leased, RunKey, Runs, At, Live
  <2>3. QED
    BY <1>3, <1>4, <1>5, <2>2, SlotStep
<1>6. ASSUME NEW t \in Task, Ends(t), run' = run
      PROVE  SlotsOK' /\ WithinLimit'
  BY <1>5, <1>6 DEF Ends
<1>7. ASSUME NEW t \in Task, NEW k \in Key, Evaluate(t, k) \/ Manual(t, k) \/ Revert(t, k)
      PROVE  SlotsOK' /\ WithinLimit'
  <2>1. PICK x \in {Begun("playbook", k, "evaluated", "nothing"),
                    Begun("manual", k, "inserted", "nothing"),
                    Begun("revert", k, "contained", Undo(k))} : task' = [task EXCEPT ![t] = x]
    BY <1>7 DEF Evaluate, Manual, Revert
  <2>2. x.stage \notin {"counted", "leased", "bound"} /\ (x.kind = "playbook" => x.stage = "evaluated")
    BY DEF Begun
  <2>3. run' = run /\ policyLock' = policyLock
    BY <1>7 DEF Evaluate, Manual, Revert
  <2>4. QED
    BY <1>5, <2>1, <2>2, <2>3
<1>8. ASSUME NEW t \in Task, Leasing(t)
      PROVE  SlotsOK' /\ WithinLimit'
  <2>1. ~At(t, "counted") /\ run' = run
    BY <1>3, <1>8 DEF SlotsOK, SlotOK, Leasing, CountTokens, AddToken, LeaseFromDatabase,
       RedisError, TokenExpires
  <2>2. CASE LeaseFromDatabase(t)
    <3>1. CASE Ends(t)
      BY <1>6, <2>1, <3>1
    <3>2. CASE /\ Cardinality(Running) < MaxPlaybooks
               /\ LockPolicy(t)
               /\ task' = [task EXCEPT ![t].stage = "leased", ![t].lease = "db"]
      <4> DEFINE x == [task[t] EXCEPT !.stage = "leased", !.lease = "db"]
      <4>1. task[t] \in TaskState
        BY <1>3, <2>2, LiveTyped DEF LeaseFromDatabase, At
      <4>2. x.stage = "leased"
        BY <4>1 DEF TaskState
      <4>3. task' = [task EXCEPT ![t] = x] /\ policyLock = None /\ policyLock' = t
        BY <3>2 DEF LockPolicy
      <4>4. task'[t] = x
        BY <1>3, <4>3 DEF TasksTyped
      <4>5. SlotOK(t)'
        BY <4>2, <4>3, <4>4 DEF SlotOK, RunKey, At, Runs, Live
      <4>6. SlotsOK'
        BY <1>3, <2>1, <4>2, <4>3, <4>5, SlotStep
      <4>7. WithinLimit'
        BY <2>1, <3>2, <1>3 DEF WithinLimit, Running
      <4>8. QED
        BY <4>6, <4>7
    <3>3. QED
      BY <2>2, <3>1, <3>2 DEF LeaseFromDatabase, CountRuns, Running
  <2>3. CASE TokenExpires(t)
    <3> DEFINE x == [task[t] EXCEPT !.lease = "expired"]
    <3>1. task[t] \in TaskState /\ Live(t)
      BY <1>3, <2>3, LiveTyped DEF TokenExpires
    <3>2. x \in TaskState /\ x.stage = task[t].stage /\ x.kind = task[t].kind /\ x.key = task[t].key
      BY <3>1, ExpiryTyped DEF TaskState
    <3>3. task' = [task EXCEPT ![t] = x] /\ x # None /\ policyLock' = policyLock
      BY <2>3, <3>2, NoneIsNoRecord DEF TokenExpires
    <3>4. task'[t] = x
      BY <1>3, <3>3 DEF TasksTyped
    <3>5. SlotOK(t) /\ \A u \in Task : OwnRun(t, u)
      BY <1>3 DEF SlotsOK
    <3>6. SlotOK(t)'
      BY <2>1, <3>1, <3>2, <3>3, <3>4, <3>5 DEF SlotOK, RunKey, Leased, At, Runs, Live
    <3>7. SlotsOK'
      BY <1>3, <2>1, <3>1, <3>2, <3>3, <3>5, <3>6, SlotStep DEF OwnRun, At
    <3>8. QED
      BY <1>4, <2>1, <3>3, <3>7
  <2>4. QED
    BY <1>2, <1>8, <2>1, <2>2, <2>3 DEF Leasing, CountTokens, AddToken, RedisError
<1>9. ASSUME NEW t \in Task, InsertRun(t)
      PROVE  SlotsOK' /\ WithinLimit'
  <2>1. run' = run /\ Live(t) /\ task[t].stage = "leased"
    BY <1>9 DEF InsertRun, At
  <2>2. CASE Ends(t)
    BY <1>6, <2>1, <2>2
  <2>3. CASE run[task[t].key] = "none" /\ Becomes(t, "inserted") /\ UNCHANGED policyLock
    <3> DEFINE x == [task[t] EXCEPT !.stage = "inserted"]
    <3>1. task[t] \in TaskState /\ task[t].kind = "playbook"
      BY <1>3, <2>1, LiveTyped DEF RowsInd, TaskOK, Idle
    <3>2. x.stage = "inserted" /\ x.kind = "playbook" /\ x.key = task[t].key
      BY <3>1 DEF TaskState
    <3>3. task' = [task EXCEPT ![t] = x] /\ task'[t] = x
      BY <1>3, <2>3 DEF Becomes, TasksTyped
    <3>4. policyLock' = t /\ policyLock' = policyLock
      BY <1>3, <2>1, <2>3, <3>1 DEF SlotsOK, SlotOK, Leased, Runs
    <3>5. SlotOK(t)'
      BY <2>1, <2>3, <3>2, <3>3, <3>4 DEF SlotOK, RunKey, At, Runs, Live
    <3>6. QED
      BY <1>3, <1>4, <2>1, <3>2, <3>3, <3>4, <3>5, SlotStep
  <2>4. QED
    BY <1>9, <2>2, <2>3 DEF InsertRun
<1>10. ASSUME NEW t \in Task, Contain(t)
       PROVE  SlotsOK' /\ WithinLimit'
  <2> DEFINE x == [task[t] EXCEPT !.stage = "contained", !.write = Decision(task[t].key)]
  <2>1. run' = run /\ Live(t) /\ task[t].stage = "inserted" /\ policyLock' = policyLock
    BY <1>10 DEF Contain, At
  <2>2. task[t] \in TaskState
    BY <1>3, <2>1, LiveTyped
  <2>3. x.stage = "contained" /\ x.kind = task[t].kind /\ x.key = task[t].key
    BY <2>2 DEF TaskState
  <2>4. task' = [task EXCEPT ![t] = x] /\ task'[t] = x
    BY <1>3, <1>10 DEF Contain, TasksTyped
  <2> HIDE DEF x
  <2>5. SlotOK(t)
    BY <1>3 DEF SlotsOK
  <2>6. SlotOK(t)'
    BY <2>1, <2>3, <2>4, <2>5 DEF SlotOK, RunKey, Leased, At, Runs, Live
  <2>7. QED
    BY <1>3, <1>4, <2>1, <2>3, <2>4, <2>6, SlotStep
<1>11. ASSUME NEW t \in Task, Bind(t)
       PROVE  SlotsOK' /\ WithinLimit'
  <2> DEFINE x == [task[t] EXCEPT !.stage = "bound", !.write = "nothing"]
             k == task[t].key
  <2>1. Live(t) /\ task[t].stage = "contained" /\ task[t].kind = "playbook"
        /\ run' = [run EXCEPT ![k] = "RUNNING"]
        /\ policyLock' = (IF policyLock = t THEN None ELSE policyLock)
    BY <1>11 DEF Bind, At, Runs
  <2>2. task[t] \in TaskState /\ k \in Key
    BY <1>3, <2>1, LiveTyped
  <2>3. x.stage = "bound" /\ x.key = k
    BY <2>2 DEF TaskState
  <2>4. task' = [task EXCEPT ![t] = x] /\ task'[t] = x
    BY <1>3, <1>11 DEF Bind, TasksTyped
  <2>5. run[k] = "none" /\ policyLock = t /\ policyLock' = None /\ run'[k] = "RUNNING"
    BY <1>3, <2>1, <2>2 DEF SlotsOK, SlotOK, RunKey, Leased, Runs, TablesTyped
  <2>6. ASSUME NEW u \in Task \ {t}, RunKey(u) \/ At(u, "bound")
        PROVE  At(u, "bound") /\ task[u].key # k /\ run'[task[u].key] = run[task[u].key]
    <3>1. SlotOK(u)
      BY <1>3 DEF SlotsOK
    <3>2. At(u, "bound")
      BY <2>5, <2>6, <3>1 DEF SlotOK, RunKey, Leased, Runs
    <3>3. task[u].key # k
      BY <2>5, <3>1, <3>2 DEF SlotOK
    <3>4. QED
      BY <2>1, <3>2, <3>3, <1>3 DEF TablesTyped
  <2>7. SlotOK(t)'
    BY <2>3, <2>4, <2>5 DEF SlotOK, RunKey, Leased, At, Runs, Live
  <2>8. SlotsOK'
    <3>1. \A u \in Task \ {t} : RunKey(u) \/ At(u, "bound")
                                  => run'[task[u].key] = run[task[u].key]
      BY <2>6
    <3>2. \A u \in Task \ {t} : At(u, "bound") => task[u].key # x.key
      BY <2>3, <2>6
    <3>3. QED
      BY <1>3, <2>4, <2>5, <2>7, <3>1, <3>2, SlotStep
  <2>9. Running' = Running \union {k}
    BY <1>3, <2>1, <2>2 DEF Running, TablesTyped
  <2>10. WithinLimit'
    <3>1. Cardinality(Running) < MaxPlaybooks
      BY <1>3, <2>2, <2>5, ContainmentAssumption DEF WithinLimit
    <3>2. Cardinality(Running \union {k}) <= Cardinality(Running) + 1
      BY RunningIsFinite, FS_AddElement
    <3>3. Cardinality(Running \union {k}) <= MaxPlaybooks
      <4>1. IsFiniteSet(Running \union {k})
        BY RunningIsFinite, FS_AddElement
      <4>2. Cardinality(Running \union {k}) \in Nat
        BY <4>1, FS_CardinalityType
      <4>3. QED
        BY <3>1, <3>2, <4>2, RunningIsFinite, ContainmentAssumption
    <3>4. QED
      BY <2>5, <2>9, <3>3 DEF WithinLimit
  <2>11. QED
    BY <2>8, <2>10
<1>12. ASSUME NEW t \in Task, Finish(t)
       PROVE  SlotsOK' /\ WithinLimit'
  <2> DEFINE k == task[t].key
  <2>1. /\ Live(t) /\ task[t].stage \in {"bound", "contained"} /\ task[t].kind = "playbook"
        /\ run' = [run EXCEPT ![k] = Outcome(t)] /\ Outcome(t) \in {"FAILED", "COMPLETED"}
        /\ task' = [task EXCEPT ![t] = None]
        /\ policyLock' = (IF policyLock = t THEN None ELSE policyLock)
    BY <1>12 DEF Finish, Ends, At, Runs, Outcome
  <2>2. task'[t] = None
    BY <1>3, <2>1 DEF TasksTyped
  <2>3. SlotOK(t) /\ \A u \in Task : SlotOK(u) /\ OwnRun(t, u)
    BY <1>3 DEF SlotsOK
  <2>4. ASSUME NEW u \in Task \ {t}, RunKey(u) \/ At(u, "bound")
        PROVE  run'[task[u].key] = run[task[u].key]
    <3>1. task[u].key # k
      BY <2>1, <2>3, <2>4 DEF SlotOK, OwnRun, RunKey, Leased, At, Runs, Live
    <3>2. QED
      BY <1>3, <2>1, <3>1 DEF TablesTyped
  <2>5. SlotOK(t)'
    BY <2>2 DEF SlotOK, RunKey, Leased, At, Runs, Live
  <2>6. SlotsOK'
    <3>1. \A u \in Task \ {t} : RunKey(u) \/ At(u, "bound")
                                  => run'[task[u].key] = run[task[u].key]
      BY <2>4
    <3>2. QED
      BY <1>3, <2>1, <2>5, <3>1, SlotStep
  <2>7. Running' \subseteq Running
    BY <1>3, <2>1 DEF Running, TablesTyped
  <2>8. Cardinality(Running') <= Cardinality(Running) /\ Cardinality(Running') \in Nat
    BY <2>7, RunningIsFinite, FS_Subset, FS_CardinalityType
  <2>9. WithinLimit'
    BY <1>3, <2>1, <2>8, RunningIsFinite, ContainmentAssumption DEF WithinLimit
  <2>10. QED
    BY <2>6, <2>9
<1>13. ASSUME NEW t \in Task, FinishManual(t) \/ FinishRevert(t) \/ Fail(t)
       PROVE  SlotsOK' /\ WithinLimit'
  BY <1>6, <1>13 DEF FinishManual, FinishRevert, Fail
<1>14. CASE LeakedTokenExpires \/ UpdatePolicy \/ ToggleTarget \/ UNCHANGED cvars
  <2>1. UNCHANGED <<task, run, policyLock>>
    BY <1>14 DEF LeakedTokenExpires, UpdatePolicy, ToggleTarget, cvars
  <2>2. SlotsOK'
    BY <1>3, <2>1 DEF SlotsOK, SlotOK, OwnRun, RunKey, Leased, At, Runs, Live
  <2>3. QED
    BY <1>4, <2>1, <2>2
<1>15. QED
  BY <1>7, <1>8, <1>9, <1>10, <1>11, <1>12, <1>13, <1>14 DEF ConNext, Progress, Expires, Leasing

(* Tasks that are past the lease have rows of their own that are counted.  *)
LEMMA CapHolds ==
  ASSUME ConInd, CapInd
  PROVE  FallbackCap
<1> DEFINE Bound == {t \in Task : At(t, "bound")}
           All   == {t \in Task : Leased(t)}
           f     == [t \in Bound |-> task[t].key]
<1>1. SUFFICES ASSUME ~redis
               PROVE  Cardinality(All) <= MaxPlaybooks
  BY DEF FallbackCap
<1>2. SlotsOK /\ WithinLimit /\ TasksTyped
  BY <1>1, TypeParts DEF CapInd, ConInd
<1>3. f \in [Bound -> Running]
  BY <1>2, LiveTyped DEF SlotsOK, SlotOK, Running, At
<1>4. \A t, u \in Bound : f[t] = f[u] => t = u
  BY <1>2 DEF SlotsOK, OwnRun
<1>5. f \in Injection(Bound, Running)
  BY <1>3, <1>4 DEF Injection, IsInjective
<1>6. IsFiniteSet(Bound) /\ Cardinality(Bound) <= Cardinality(Running) /\ Cardinality(Bound) \in Nat
  BY <1>5, RunningIsFinite, FS_Injection, FS_CardinalityType
<1>7. \A t \in All : t \in Bound \/ t = policyLock
  BY <1>2 DEF SlotsOK, SlotOK, Leased, Runs, At
<1>8. CASE policyLock = None
  <2>1. All \subseteq Bound
    BY <1>7, <1>8, ContainmentAssumption
  <2>2. Cardinality(All) <= Cardinality(Bound) /\ Cardinality(All) \in Nat
    BY <1>6, <2>1, FS_Subset, FS_CardinalityType
  <2>3. QED
    BY <1>2, <1>6, <2>2, RunningIsFinite, ContainmentAssumption DEF WithinLimit
<1>9. CASE policyLock # None
  <2>1. All \subseteq Bound \union {policyLock}
    BY <1>7
  <2>2. /\ IsFiniteSet(Bound \union {policyLock})
        /\ Cardinality(Bound \union {policyLock}) <= Cardinality(Bound) + 1
        /\ Cardinality(Bound \union {policyLock}) \in Nat
    BY <1>6, FS_AddElement, FS_CardinalityType
  <2>3. Cardinality(All) <= Cardinality(Bound \union {policyLock}) /\ Cardinality(All) \in Nat
    BY <2>1, <2>2, FS_Subset, FS_CardinalityType
  <2>4. QED
    BY <1>2, <1>6, <1>9, <2>2, <2>3, RunningIsFinite, ContainmentAssumption DEF WithinLimit
<1>10. QED
  BY <1>8, <1>9

(* Nothing runs at first.                                                  *)
LEMMA CapInit == ConInit => CapInd
<1> SUFFICES ASSUME ConInit
             PROVE  SlotsOK /\ WithinLimit
  BY DEF CapInd
<1>1. SlotsOK
  BY DEF ConInit, SlotsOK, SlotOK, OwnRun, RunKey, Leased, At, Runs, Live
<1>2. Running = {}
  BY DEF ConInit, Running
<1>3. Cardinality(Running) = 0
  BY <1>2, FS_EmptySet
<1>4. QED
  BY <1>1, <1>3, ContainmentAssumption DEF ConInit, WithinLimit

(* Safety: _acquire_db_fallback_lease keeps the limit on concurrent        *)
(* playbooks, although it counts only runs that have been committed.       *)
THEOREM FallbackCapTheorem == ConSpec => []FallbackCap
<1>1. ConInit => ConInd /\ CapInd
  BY ConInitInd, CapInit
<1>2. (ConInd /\ CapInd) /\ [ConNext]_cvars => (ConInd /\ CapInd)'
  BY ConNextInd, CapNext
<1>3. ConInd /\ CapInd => FallbackCap
  BY CapHolds
<1>4. QED
  BY <1>1, <1>2, <1>3, PTL DEF ConSpec, ConSafe

=============================================================================
