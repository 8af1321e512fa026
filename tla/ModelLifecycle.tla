--------------------------- MODULE ModelLifecycle ---------------------------
(***************************************************************************)
(* The model lifecycle: the lock of backend/services/model_lifecycle.py,   *)
(* the model registry it protects, the two services each worker process    *)
(* reloads, and the active-learning samples that retraining consumes       *)
(* (backend/services/learning.py, ml/pipelines/retrain.py and the admin    *)
(* requests of backend/api/routers/mlops.py).                              *)
(*                                                                         *)
(* Several worker processes share the registry file, the lock file and the *)
(* database.  A task is an admin's retraining or rollback request or the   *)
(* background check after a scan.  Model 0 is the baseline; each candidate *)
(* gets the next number.  Training is a choice of outcome.                 *)
(***************************************************************************)
EXTENDS Integers, Sequences, SequencesExt, FiniteSets

CONSTANTS
  Process, Task, Sample, None,
  Threshold,      \* RETRAIN_ZERO_DAY_SAMPLE_THRESHOLD
  MaxAttempts,    \* MAX_RETRAIN_ATTEMPTS
  MaxModels,      \* bound: candidates trained
  MaxStarts,      \* bound: tasks begun
  MaxFaults       \* bound: crashes and failing steps

ASSUME LifecycleAssumption ==
  /\ Threshold \in Nat \ {0} /\ MaxAttempts \in Nat \ {0}
  /\ MaxModels \in Nat \ {0, 1} /\ MaxStarts \in Nat /\ MaxFaults \in Nat
  /\ None \notin Process

Model == 0 .. MaxModels

(* The lock file: who created it, and what it says: nothing yet, a pid, or *)
(* the pid of a process that died (or nothing from one), for more than 900 *)
(* seconds when "aged".                                                    *)
File == [by : Process, says : {"nothing", "pid", "dead", "aged"}]

Registry == [production : Model, previous : Model \union {None}, history : Seq(Model),
             demoted : SUBSET Model, artifacts : SUBSET Model]

Kind  == {"auto", "retrain", "rollback", "status"}
Stage == {"dismissing", "counting", "counted", "selected", "aborting", "entering", "clearing",
          "trying", "looking", "unlinking", "created", "inside", "training", "writing",
          "resetting", "marking", "predictor", "explainer", "restoring", "leaving"}
TaskState == [kind : Kind, on : Process, stage : Stage,
              rows : UNION {[S -> 0 .. MaxAttempts] : S \in SUBSET Sample},  \* sample -> attempts read
              backup : Registry \union {None}, next : Registry \union {None},
              promoted : BOOLEAN]

ASSUME NoneIsNoRecord == None \notin Model \union File \union Registry \union TaskState

VARIABLES
  file,           \* the lock file
  registry,       \* the model registry
  pred, expl,     \* the model each process has in PredictionService and ExplainerService
  sample,         \* scan_results: retrain_status, retrain_attempt_count, is_retrained
  task,           \* what a task is doing
  up,             \* the processes that serve requests
  booting,        \* the starting ones that have loaded the predictor
  trained,        \* history: the samples each candidate was trained on
  raced,          \* history: a lock file was removed while its creator lived
  stranded,       \* history: samples whose task ended without settling them
  forfeited,      \* history: samples of a promotion that was taken back
  skewed,         \* history: processes in which a load has failed, or that were starting
                  \* while the registry was written
  starts, faults

learning == <<sample, trained, stranded, forfeited>>
serving  == <<pred, expl, booting, skewed>>
bounds   == <<starts, faults>>
lvars    == <<file, registry, serving, learning, task, up, raced, bounds>>

NoRows == [s \in {} |-> 0]

Live(t) == task[t] # None

(* The stages in which is_locked has found an aged file and is about to    *)
(* unlink it: in the first check of a task, and in __aenter__.  It does    *)
(* not give the event loop back, so nothing else moves in the process.     *)
Removing == {"dismissing", "clearing"}
Occupied(p, tasks) == \E t \in tasks : Live(t) /\ task[t].on = p /\ task[t].stage \in Removing

(* The task is at that stage and its process lets it move.                 *)
At(t, stage) ==
  Live(t) /\ task[t].stage = stage /\ ~Occupied(task[t].on, Task \ {t})

Holds(t) == IF Live(t) THEN DOMAIN task[t].rows ELSE {}

(* The stages under the in-process lock, and under the file lock.          *)
InFile    == {"inside", "training", "writing", "resetting", "marking", "predictor",
              "explainer", "restoring", "leaving"}
InProcess == InFile \union {"trying", "looking", "unlinking", "created"}

Inside(t) ==
  /\ Live(t)
  /\ \/ task[t].stage \in InFile
     \/ task[t].kind = "retrain" /\ task[t].stage = "selected"
Locked(p) == \E t \in Task : Live(t) /\ task[t].on = p
               /\ (task[t].stage \in InProcess \/ Inside(t))

LTypeOK ==
  /\ file \in File \union {None}
  /\ registry \in Registry
  /\ pred \in [Process -> Model] /\ expl \in [Process -> Model]
  /\ sample \in [Sample -> [status : {"NEW", "UNUSABLE", "VERIFIED", "EVALUATED", "PROMOTED",
                                      "REJECTED", "QUARANTINED"},
                            attempts : 0 .. MaxAttempts, retrained : BOOLEAN]]
  /\ task \in [Task -> TaskState \union {None}]
  /\ \A t \in Task : Live(t) =>
       /\ task[t].on \in up
       /\ task[t].stage = "writing" => task[t].next # None
  /\ up \subseteq Process /\ booting \subseteq Process \ up
  /\ trained \in UNION {[1 .. n -> SUBSET Sample] : n \in Model}
  /\ raced \in BOOLEAN
  /\ stranded \subseteq Sample /\ forfeited \subseteq Sample /\ skewed \subseteq Process
  /\ starts \in 0 .. MaxStarts /\ faults \in 0 .. MaxFaults

(* The registry of get_registry without a file, beside one candidate that  *)
(* was refused, and one that two promotions and a rollback have left.      *)
Baseline ==
  [production |-> 0, previous |-> None, history |-> <<0>>, demoted |-> {}, artifacts |-> {}]
RolledBack ==
  [production |-> 1, previous |-> None, history |-> <<0, 1>>, demoted |-> {2},
   artifacts |-> {1, 2}]

LInit ==
  /\ file = None
  /\ \/ registry = Baseline /\ trained = <<{}>>
     \/ registry = RolledBack /\ trained = <<{}, {}>>
  /\ pred = [p \in Process |-> registry.production]
  /\ expl = [p \in Process |-> registry.production]
  /\ sample = [s \in Sample |-> [status |-> "NEW", attempts |-> 0, retrained |-> FALSE]]
  /\ task = [t \in Task |-> None]
  /\ up = Process /\ booting = {}
  /\ raced = FALSE /\ stranded = {} /\ forfeited = {} /\ skewed = {}
  /\ starts = 0 /\ faults = 0

----------------------------------------------------------------------------
(* Steps of a task.                                                        *)

GoTo(t, stage) == task' = [task EXCEPT ![t].stage = stage]
Ends(t)        == task' = [task EXCEPT ![t] = None]

Starts(t, kind, p, stage) ==
  /\ ~Live(t) /\ p \in up /\ starts < MaxStarts
  /\ starts' = starts + 1
  /\ task' = [task EXCEPT ![t] = [kind |-> kind, on |-> p, stage |-> stage, rows |-> NoRows,
                                  backup |-> None, next |-> None, promoted |-> FALSE]]

Fault == faults < MaxFaults /\ faults' = faults + 1

(* is_locked answers TRUE at once: an ownerless file counts as a lock until*)
(* it is 900 s old.  What it reads one after the other (a file, no living  *)
(* owner, its age) comes to what it finds when it reads the age.           *)
IsLocked(p) == Locked(p) \/ (file # None /\ file.says # "aged")

(* unlink(missing_ok=True), of whatever file has that name by now.         *)
Unlink ==
  /\ file' = None
  /\ raced' = (raced \/ (file # None /\ file.says \in {"nothing", "pid"}))

----------------------------------------------------------------------------
(* Samples.                                                                *)

(* process_and_verify_zero_day_sample                                      *)
Verify(s) ==
  /\ sample[s].status = "NEW"
  /\ \E status \in {"VERIFIED", "UNUSABLE"} : sample' = [sample EXCEPT ![s].status = status]
  /\ UNCHANGED <<file, registry, serving, trained, stranded, forfeited, task, up, raced, bounds>>

Eligible == {s \in Sample : sample[s].status = "VERIFIED" /\ ~sample[s].retrained
                              /\ sample[s].attempts < MaxAttempts}

(* check_and_trigger_autonomous_retraining: the lock, then the count.      *)
AutoCheck(t, p) ==
  /\ ~IsLocked(p) /\ ~Occupied(p, Task)
  /\ Starts(t, "auto", p, IF file = None THEN "counting" ELSE "dismissing")
  /\ UNCHANGED <<file, registry, serving, learning, up, raced, faults>>

Count(t) ==
  /\ At(t, "counting")
  /\ IF Cardinality(Eligible) >= Threshold THEN GoTo(t, "counted") ELSE Ends(t)
  /\ UNCHANGED <<file, registry, serving, learning, up, raced, bounds>>

(* fetch_verified_zero_day_samples reads, build_zero_day_dataset writes    *)
(* the rows back as they were read.                                        *)
Select(t) ==
  /\ \/ At(t, "counted")
     \/ At(t, "inside") /\ task[t].kind = "retrain"
  /\ task' = [task EXCEPT ![t].rows = [s \in Eligible |-> sample[s].attempts],
                          ![t].stage = "selected",
                          ![t].backup = IF task[t].kind = "retrain" THEN registry ELSE @]
  /\ UNCHANGED <<file, registry, serving, learning, up, raced, bounds>>

Evaluated(t) ==
  [s \in Sample |-> IF s \in Holds(t)
                    THEN [sample[s] EXCEPT !.status = "EVALUATED",
                                           !.attempts = task[t].rows[s] + 1]
                    ELSE sample[s]]

Evaluate(t) ==
  /\ At(t, "selected")
  /\ sample' = Evaluated(t)
  /\ GoTo(t, CASE task[t].kind = "retrain" -> "training"
               [] task[t].kind = "auto" /\ Cardinality(Holds(t)) < Threshold -> "aborting"
               [] OTHER -> "entering")
  /\ UNCHANGED <<file, registry, serving, trained, stranded, forfeited, up, raced, bounds>>

(* reset_samples_from_evaluation                                           *)
Restored(S) ==
  [s \in Sample |-> IF s \in S /\ sample[s].status = "EVALUATED"
                    THEN [sample[s] EXCEPT !.status = "VERIFIED",
                            !.attempts = IF @ > 0 THEN @ - 1 ELSE 0]
                    ELSE sample[s]]

Abort(t) ==
  /\ At(t, "aborting")
  /\ sample' = Restored(Holds(t))
  /\ Ends(t)
  /\ UNCHANGED <<file, registry, serving, trained, stranded, forfeited, up, raced, bounds>>

Reset(t) ==
  /\ At(t, "resetting")
  /\ sample' = Restored(Holds(t))
  /\ GoTo(t, "leaving")
  /\ UNCHANGED <<file, registry, serving, trained, stranded, forfeited, up, raced, bounds>>

(* Mutant: the outcome is not looked at.                                   *)
MarkedPromoted(row, promoted) == [row EXCEPT !.status = "PROMOTED", !.retrained = TRUE]

(* mark_samples_outcome                                                    *)
Marked(row, promoted) ==
  CASE promoted -> [row EXCEPT !.status = "PROMOTED", !.retrained = TRUE]
    [] ~promoted /\ row.attempts >= MaxAttempts ->
         [row EXCEPT !.status = "QUARANTINED", !.retrained = TRUE]
    [] OTHER -> [row EXCEPT !.status = "REJECTED"]

Mark(t) ==
  /\ At(t, "marking")
  /\ sample' = [s \in Sample |-> IF s \in Holds(t) THEN Marked(sample[s], task[t].promoted)
                                 ELSE sample[s]]
  /\ GoTo(t, IF task[t].promoted THEN "predictor" ELSE "leaving")
  /\ UNCHANGED <<file, registry, serving, trained, stranded, forfeited, up, raced, bounds>>

(* The database fails while the outcome is marked.                         *)
MarkError(t) ==
  /\ At(t, "marking") /\ Fault
  /\ stranded' = stranded \union Holds(t)
  /\ task' = [task EXCEPT ![t].rows = NoRows, ![t].stage = "leaving"]
  /\ UNCHANGED <<file, registry, serving, sample, trained, forfeited, up, raced, starts>>

----------------------------------------------------------------------------
(* The lock.                                                               *)

(* trigger_retraining and trigger_rollback answer 409 when it is locked;   *)
(* __aenter__ looks again at once, which is told apart only if the first   *)
(* look has removed a file.                                                *)
Request(t, kind, p) ==
  /\ ~IsLocked(p) /\ ~Occupied(p, Task)
  /\ Starts(t, kind, p, IF file = None THEN "trying" ELSE "dismissing")
  /\ UNCHANGED <<file, registry, serving, learning, up, raced, faults>>

(* get_mlops_status only asks is_locked.                                   *)
AskStatus(t, p) ==
  /\ ~IsLocked(p) /\ ~Occupied(p, Task) /\ file # None
  /\ Starts(t, "status", p, "dismissing")
  /\ UNCHANGED <<file, registry, serving, learning, up, raced, faults>>

(* is_locked unlinks the file it found aged, and answers FALSE.            *)
RemoveAged(t) ==
  /\ \/ /\ At(t, "dismissing")
        /\ CASE task[t].kind = "status" -> Ends(t)
             [] task[t].kind = "auto" -> GoTo(t, "counting")
             [] OTHER -> GoTo(t, "entering")
     \/ At(t, "clearing") /\ GoTo(t, "trying")
  /\ Unlink
  /\ UNCHANGED <<registry, serving, learning, up, bounds>>

(* __aenter__ after the samples of an automatic retraining were taken, or  *)
(* after a request's first look.                                           *)
Enter(t) ==
  /\ At(t, "entering") /\ ~IsLocked(task[t].on)
  /\ GoTo(t, IF file = None THEN "trying" ELSE "clearing")
  /\ UNCHANGED <<file, registry, serving, learning, up, raced, bounds>>

Refused(t) ==
  /\ At(t, "entering") /\ IsLocked(task[t].on)
  /\ stranded' = stranded \union Holds(t)
  /\ Ends(t)
  /\ UNCHANGED <<file, registry, serving, sample, trained, forfeited, up, raced, bounds>>

(* Mutant: os.open without O_EXCL.                                         *)
CreateAnyway(t) ==
  /\ At(t, "trying")
  /\ file' = [by |-> task[t].on, says |-> "nothing"]
  /\ GoTo(t, "created")
  /\ UNCHANGED <<registry, serving, learning, up, raced, bounds>>

(* os.open with O_CREAT | O_EXCL                                           *)
Create(t) ==
  /\ At(t, "trying") /\ file = None
  /\ file' = [by |-> task[t].on, says |-> "nothing"]
  /\ GoTo(t, "created")
  /\ UNCHANGED <<registry, serving, learning, up, raced, bounds>>

Exists(t) ==
  /\ At(t, "trying") /\ file # None
  /\ GoTo(t, "looking")
  /\ UNCHANGED <<file, registry, serving, learning, up, raced, bounds>>

(* The pid is written to the file as it was opened, which another process  *)
(* may have removed.                                                       *)
WritePid(t) ==
  /\ At(t, "created")
  /\ file' = IF file # None /\ file.by = task[t].on
             THEN [file EXCEPT !.says = "pid"] ELSE file
  /\ GoTo(t, "inside")
  /\ UNCHANGED <<registry, serving, learning, up, raced, bounds>>

(* _is_lock_process_alive: only a file with a living pid is respected.     *)
OwnerAlive == file # None /\ file.says = "pid"

Wait(t) ==
  /\ At(t, "looking") /\ OwnerAlive
  /\ GoTo(t, "trying")
  /\ UNCHANGED <<file, registry, serving, learning, up, raced, bounds>>

TimesOut(t) ==
  /\ At(t, "looking") /\ OwnerAlive
  /\ stranded' = stranded \union Holds(t)
  /\ Ends(t)
  /\ UNCHANGED <<file, registry, serving, sample, trained, forfeited, up, raced, bounds>>

FindOrphan(t) ==
  /\ At(t, "looking") /\ ~OwnerAlive
  /\ GoTo(t, "unlinking")
  /\ UNCHANGED <<file, registry, serving, learning, up, raced, bounds>>

TakeOver(t) ==
  /\ At(t, "unlinking")
  /\ Unlink /\ GoTo(t, "trying")
  /\ UNCHANGED <<registry, serving, learning, up, bounds>>

(* release_file_lock removes whatever file there is.                       *)
Leave(t) ==
  /\ At(t, "leaving")
  /\ file' = None /\ Ends(t)
  /\ UNCHANGED <<registry, serving, learning, up, raced, bounds>>

----------------------------------------------------------------------------
(* The registry.                                                           *)

(* The automatic retraining and the rollback read the backup registry.     *)
Backup(t) ==
  /\ At(t, "inside") /\ task[t].kind # "retrain"
  /\ task' = [task EXCEPT ![t].backup = registry, ![t].stage = "training"]
  /\ UNCHANGED <<file, registry, serving, learning, up, raced, bounds>>

(* promote_candidate_to_registry                                           *)
WithChampion(m) ==
  [production |-> m, previous |-> registry.production,
   history |-> IF registry.production \in ToSet(registry.history) THEN registry.history
               ELSE Append(registry.history, registry.production),
   demoted |-> registry.demoted \ {m}, artifacts |-> registry.artifacts \union {m}]

(* run_retraining_pipeline: a candidate is trained on the samples; the gates*)
(* accept it or refuse it.                                                 *)
TrainCandidate(t) ==
  /\ At(t, "training") /\ task[t].kind # "rollback" /\ Len(trained) < MaxModels
  /\ trained' = Append(trained, Holds(t))

Train(t) ==
  /\ TrainCandidate(t)
  /\ \/ task' = [task EXCEPT ![t].stage = "writing", ![t].promoted = TRUE,
                             ![t].next = WithChampion(Len(trained) + 1)]
     \/ GoTo(t, "marking")
  /\ UNCHANGED <<file, registry, serving, sample, stranded, forfeited, up, raced, bounds>>

(* Mutant: the handler of a failing pipeline does not reset the samples.   *)
TrainErrorOnly(t) ==
  /\ At(t, "training") /\ task[t].kind # "rollback"
  /\ \/ Fault
     \/ Len(trained) = MaxModels /\ UNCHANGED faults
  /\ GoTo(t, "leaving")
  /\ UNCHANGED <<file, registry, serving, learning, up, raced, starts>>

(* A step of the pipeline raises, or the models are used up.               *)
TrainError(t) ==
  /\ At(t, "training") /\ task[t].kind # "rollback"
  /\ \/ Fault
     \/ Len(trained) = MaxModels /\ UNCHANGED faults
  /\ GoTo(t, "resetting")
  /\ UNCHANGED <<file, registry, serving, learning, up, raced, starts>>

(* Mutant: demoted champions are not excluded.                             *)
NotInUse(m) == m \notin {registry.production, None}

(* execute_model_rollback: the latest champion that is neither in use nor  *)
(* demoted, or else the previous one.                                      *)
Fit(m) == m \notin registry.demoted \union {registry.production, None}
LatestFit ==
  {registry.history[i] : i \in
     {i \in DOMAIN registry.history :
        /\ Fit(registry.history[i])
        /\ \A j \in DOMAIN registry.history : j > i => ~Fit(registry.history[j])}}
Fallback == IF LatestFit # {} THEN LatestFit ELSE {m \in {registry.previous} : Fit(m)}

WithFallback(m) ==
  [registry EXCEPT !.production = m, !.previous = None,
                   !.demoted = @ \union {registry.production}]

Rollback(t) ==
  /\ At(t, "training") /\ task[t].kind = "rollback"
  /\ \/ Fallback = {} /\ GoTo(t, "leaving")
     \/ \E m \in Fallback :
          task' = [task EXCEPT ![t].stage = "writing", ![t].next = WithFallback(m)]
  /\ UNCHANGED <<file, registry, serving, learning, up, raced, bounds>>

(* write_registry_atomically                                               *)
WriteRegistry(t) ==
  /\ At(t, "writing")
  /\ registry' = task[t].next
  /\ skewed' = skewed \union booting
  /\ GoTo(t, IF task[t].kind = "rollback" THEN "predictor" ELSE "marking")
  /\ UNCHANGED <<file, pred, expl, booting, learning, up, raced, bounds>>

----------------------------------------------------------------------------
(* coordinate_model_reload                                                 *)

(* PredictionService.reload_model keeps its model when the load fails, and *)
(* returns as if it had not.                                               *)
LoadPredictor(t, p) ==
  \/ pred' = [pred EXCEPT ![p] = registry.production] /\ UNCHANGED <<skewed, faults>>
  \/ Fault /\ skewed' = skewed \union {p} /\ UNCHANGED pred

Predictor(t) ==
  /\ At(t, "predictor")
  /\ LoadPredictor(t, task[t].on)
  /\ GoTo(t, "explainer")
  /\ UNCHANGED <<file, registry, expl, booting, learning, up, raced, starts>>

Explainer(t) ==
  /\ At(t, "explainer")
  /\ expl' = [expl EXCEPT ![task[t].on] = registry.production]
  /\ skewed' = IF pred[task[t].on] = registry.production THEN skewed \ {task[t].on} ELSE skewed
  /\ GoTo(t, "leaving")
  /\ UNCHANGED <<file, registry, pred, booting, learning, up, raced, bounds>>

(* Mutant: the registry stays with the new champion.                       *)
ExplainerErrorOnly(t) ==
  /\ At(t, "explainer") /\ Fault
  /\ skewed' = IF expl[task[t].on] = task[t].backup.production THEN skewed
               ELSE skewed \union {task[t].on}
  /\ GoTo(t, "restoring")
  /\ UNCHANGED <<file, registry, pred, expl, booting, learning, up, raced, starts>>

(* The explainer keeps its model and raises; the registry goes back.  The  *)
(* samples stay PROMOTED.                                                  *)
ExplainerError(t) ==
  /\ At(t, "explainer") /\ Fault
  /\ registry' = task[t].backup
  /\ forfeited' = forfeited \union {s \in Sample : \E m \in registry.artifacts \ task[t].backup.artifacts :
                                                     s \in trained[m]}
  /\ skewed' = skewed \union booting
                 \union (IF expl[task[t].on] = task[t].backup.production THEN {} ELSE {task[t].on})
  /\ GoTo(t, "restoring")
  /\ UNCHANGED <<file, pred, expl, booting, sample, trained, stranded, up, raced, starts>>

Restore(t) ==
  /\ At(t, "restoring")
  /\ LoadPredictor(t, task[t].on)
  /\ GoTo(t, "leaving")
  /\ UNCHANGED <<file, registry, expl, booting, learning, up, raced, starts>>

----------------------------------------------------------------------------
(* Processes.                                                              *)

Crash(p) ==
  /\ p \in up /\ Fault
  /\ up' = up \ {p}
  /\ LET dying == {t \in Task : Live(t) /\ task[t].on = p} IN
       /\ stranded' = stranded \union UNION {Holds(t) : t \in dying}
       /\ task' = [t \in Task |-> IF t \in dying THEN None ELSE task[t]]
  /\ file' = IF file # None /\ file.by = p THEN [file EXCEPT !.says = "dead"] ELSE file
  /\ UNCHANGED <<registry, serving, sample, trained, forfeited, raced, starts>>

(* lifespan: get_prediction_service(), then get_explainer_service(); each  *)
(* reads the registry, without the lock.  A process that fails or dies here*)
(* has not started.                                                        *)
Boot(p) ==
  /\ p \notin up \union booting
  /\ booting' = booting \union {p}
  /\ pred' = [pred EXCEPT ![p] = registry.production]
  /\ skewed' = skewed \ {p}
  /\ UNCHANGED <<file, registry, expl, learning, task, up, raced, bounds>>

(* A first load of the explainer that fails falls back to the baseline.    *)
Ready(p) ==
  /\ p \in booting
  /\ booting' = booting \ {p} /\ up' = up \union {p}
  /\ \/ expl' = [expl EXCEPT ![p] = registry.production] /\ UNCHANGED <<skewed, faults>>
     \/ expl' = [expl EXCEPT ![p] = 0] /\ skewed' = skewed \union {p} /\ Fault
  /\ UNCHANGED <<file, registry, pred, learning, task, raced, starts>>

(* An ownerless file gets 900 seconds old.                                 *)
Age ==
  /\ file # None /\ file.says = "dead"
  /\ file' = [file EXCEPT !.says = "aged"]
  /\ UNCHANGED <<registry, serving, learning, task, up, raced, bounds>>

----------------------------------------------------------------------------
LNext ==
  \/ \E s \in Sample : Verify(s)
  \/ \E t \in Task, p \in Process : AutoCheck(t, p) \/ AskStatus(t, p)
       \/ \E kind \in {"retrain", "rollback"} : Request(t, kind, p)
  \/ \E t \in Task :
       \/ Count(t) \/ Select(t) \/ Evaluate(t) \/ Abort(t) \/ Reset(t) \/ Mark(t) \/ MarkError(t)
       \/ RemoveAged(t) \/ Enter(t) \/ Refused(t) \/ Create(t) \/ Exists(t) \/ WritePid(t) \/ Wait(t)
       \/ TimesOut(t) \/ FindOrphan(t) \/ TakeOver(t) \/ Leave(t) \/ Backup(t) \/ Train(t)
       \/ TrainError(t) \/ Rollback(t) \/ WriteRegistry(t) \/ Predictor(t) \/ Explainer(t)
       \/ ExplainerError(t) \/ Restore(t)
  \/ \E p \in Process : Crash(p) \/ Boot(p) \/ Ready(p)
  \/ Age

LSpec == LInit /\ [][LNext]_lvars

----------------------------------------------------------------------------
(* Mutual exclusion is lost only after the lock file of a process that    *)
(* lives was unlinked: by a take-over that read it empty, or by one, or an *)
(* is_locked, that comes too late and hits the file of a successor.  The   *)
(* "Cross-process and cross-coroutine synchronization mutex"               *)
(* (model_lifecycle.py:36) has these windows, and no task gets inside      *)
(* beside another while the files of the living stay in place.             *)
OnlyUnlinkingBreaksTheLock ==
  raced \/ \A t, u \in Task : Inside(t) /\ Inside(u) => t = u

(* Whatever promotions, rollbacks and restored registries interleave, each *)
(* written whole, the production model is not demoted and its checksum is  *)
(* recorded.                                                               *)
ChampionIsFit ==
  /\ registry.production \notin registry.demoted
  /\ registry.production # 0 => registry.production \in registry.artifacts

(* A sample under evaluation belongs to a running task, or to one that was *)
(* refused the lock, failed on the database or crashed.                    *)
SamplesAreHeld ==
  \A s \in Sample : sample[s].status = "EVALUATED" =>
    s \in stranded \/ \E t \in Task : s \in Holds(t)

(* A PROMOTED sample was trained into a model that the registry knows,     *)
(* unless the promotion was taken back or the lock was broken.             *)
PromotedIsKept ==
  \A s \in Sample : sample[s].status = "PROMOTED" =>
    raced \/ s \in forfeited \/ \E m \in registry.artifacts : s \in trained[m]

(* A process whose reloads are over explains the model it predicts with,   *)
(* unless a load has failed in it, the registry was written while it       *)
(* started (which takes no lock), or the lock was broken.                  *)
InStep ==
  \A p \in up :
    \/ raced \/ p \in skewed \/ pred[p] = expl[p]
    \/ \E t \in Task : Live(t) /\ task[t].on = p /\ task[t].stage \in {"explainer", "restoring"}

=============================================================================
