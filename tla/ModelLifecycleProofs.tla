------------------------ MODULE ModelLifecycleProofs ------------------------
(***************************************************************************)
(* What TLAPS proves of ModelLifecycle, for every number of processes,     *)
(* tasks, samples and candidates: types, the limits of the lock, that the  *)
(* champion is fit, that samples under evaluation are held and promoted    *)
(* ones are in a model, and that the loaded models agree.                  *)
(***************************************************************************)
EXTENDS ModelLifecycle, SequenceTheorems, TLAPS

(* On the way to the file lock and until the work begins.                  *)
LockStage == {"dismissing", "entering", "clearing", "trying", "looking", "unlinking", "created",
              "inside"}

(* The samples of a task: attempts are left when they are selected, a      *)
(* rollback holds none, a retraining under the lock none until it selects, *)
(* a status request never any.                                             *)
HoldingOK(x) ==
  /\ x.stage = "selected" => \A s \in DOMAIN x.rows : x.rows[s] < MaxAttempts
  /\ x.kind = "rollback"
       => DOMAIN x.rows = {} /\ x.stage \notin {"selected", "resetting", "marking"}
  /\ x.kind = "retrain" /\ x.stage \in LockStage => DOMAIN x.rows = {}
  /\ x.stage \in {"counting", "counted", "aborting"} => x.kind = "auto"
  /\ x.kind = "status" => DOMAIN x.rows = {} /\ x.stage = "dismissing"

(* A task that may restore the registry has a backup, and one that writes  *)
(* it has what to write.                                                   *)
BackupOK(x) ==
  /\ \/ x.stage \in {"training", "writing", "marking", "predictor", "explainer"}
     \/ x.stage = "selected" /\ x.kind = "retrain"
     => x.backup # None
  /\ x.stage = "writing" => x.next # None

TaskOK(x) == HoldingOK(x) /\ BackupOK(x)

(* The tables, the registry and the lists that grow with the models.       *)
SampleTyped(f) ==
  f \in [Sample -> [status : {"NEW", "UNUSABLE", "VERIFIED", "EVALUATED", "PROMOTED",
                              "REJECTED", "QUARANTINED"},
                    attempts : 0 .. MaxAttempts, retrained : BOOLEAN]]

TrainedTyped(f) == f \in UNION {[1 .. n -> SUBSET Sample] : n \in Model}

TasksTyped ==
  /\ task \in [Task -> TaskState \union {None}]
  /\ \A t \in Task : Live(t) =>
       /\ task[t].on \in up
       /\ task[t].stage = "writing" => task[t].next # None
  /\ up \subseteq Process

OthersTyped ==
  /\ file \in File \union {None}
  /\ registry \in Registry
  /\ pred \in [Process -> Model] /\ expl \in [Process -> Model]
  /\ SampleTyped(sample)
  /\ TrainedTyped(trained)
  /\ raced \in BOOLEAN
  /\ stranded \subseteq Sample /\ forfeited \subseteq Sample /\ skewed \subseteq Process
  /\ starts \in 0 .. MaxStarts /\ faults \in 0 .. MaxFaults

BootTyped == booting \subseteq Process \ up

TypeInd ==
  /\ LTypeOK
  /\ \A t \in Task : Live(t) => TaskOK(task[t])

-----------------------------------------------------------------------------
(* Types.                                                                  *)

(* The type invariant by parts: tasks, starting processes, and the rest.   *)
LEMMA TypeParts == LTypeOK <=> TasksTyped /\ OthersTyped /\ BootTyped
BY DEF LTypeOK, TasksTyped, OthersTyped, BootTyped, SampleTyped, TrainedTyped

(* The same in the next state.                                             *)
LEMMA TypePartsNext == TasksTyped' /\ OthersTyped' /\ BootTyped' => LTypeOK'
BY DEF LTypeOK, TasksTyped, OthersTyped, BootTyped, SampleTyped, TrainedTyped

Rows == UNION {[S -> 0 .. MaxAttempts] : S \in SUBSET Sample}

(* A task without samples.                                                 *)
LEMMA NoRowsTyped == NoRows \in Rows /\ DOMAIN NoRows = {}
<1>1. NoRows \in [{} -> 0 .. MaxAttempts] /\ DOMAIN NoRows = {}
  BY DEF NoRows
<1>2. {} \in SUBSET Sample
  OBVIOUS
<1>3. QED
  BY <1>1, <1>2 DEF Rows

(* The record of a task that is running.                                   *)
LEMMA LiveTyped ==
  ASSUME TasksTyped, NEW t \in Task, Live(t)
  PROVE  /\ task[t] \in TaskState
         /\ task[t].on \in up /\ task[t].on \in Process
         /\ task[t].kind \in Kind /\ task[t].stage \in Stage
         /\ task[t].rows \in Rows /\ Holds(t) \subseteq Sample
         /\ Holds(t) = DOMAIN task[t].rows
         /\ task[t].backup \in Registry \union {None}
         /\ task[t].next \in Registry \union {None}
         /\ task[t].promoted \in BOOLEAN
<1>1. task[t] \in TaskState /\ task[t].on \in up
  BY DEF TasksTyped, Live
<1>2. task[t].rows \in Rows
  BY <1>1 DEF TaskState, Rows
<1>3. Holds(t) = DOMAIN task[t].rows /\ Holds(t) \subseteq Sample
  BY <1>2 DEF Holds, Rows
<1>4. QED
  BY <1>1, <1>2, <1>3 DEF TaskState, TasksTyped

(* The fields of a task state can be changed one at a time.                *)
LEMMA FieldsTyped ==
  ASSUME NEW x \in TaskState
  PROVE  /\ \A stage \in Stage : [x EXCEPT !.stage = stage] \in TaskState
         /\ \A rows \in Rows : [x EXCEPT !.rows = rows] \in TaskState
         /\ \A b \in Registry \union {None} : [x EXCEPT !.backup = b] \in TaskState
         /\ \A n \in Registry \union {None} : [x EXCEPT !.next = n] \in TaskState
         /\ [x EXCEPT !.promoted = TRUE] \in TaskState
BY Zenon DEF TaskState, Rows

(* A task that changes nothing but its stage keeps the rest.               *)
LEMMA Moved ==
  ASSUME NEW x \in TaskState, NEW stage \in Stage
  PROVE  LET y == [x EXCEPT !.stage = stage]
         IN /\ y \in TaskState /\ y.stage = stage
            /\ y.kind = x.kind /\ y.on = x.on /\ y.rows = x.rows
            /\ y.backup = x.backup /\ y.next = x.next /\ y.promoted = x.promoted
<1>1. [x EXCEPT !.stage = stage] \in TaskState
  BY FieldsTyped
<1>2. QED
  BY <1>1 DEF TaskState

(* A step of one task, in which it ends or gets another state.             *)
StepTo(t, x) ==
  /\ task' = [task EXCEPT ![t] = x]
  /\ up' = up
  /\ x = None \/ (x \in TaskState /\ x.on \in up /\ TaskOK(x))

(* A task that goes on as StepTo says keeps the types.                     *)
LEMMA StepTyped ==
  ASSUME TypeInd, NEW t \in Task, NEW x, StepTo(t, x)
  PROVE  /\ TasksTyped'
         /\ \A u \in Task : Live(u)' => TaskOK(task'[u])
<1>1. TasksTyped
  BY TypeParts DEF TypeInd
<1>2. /\ \A u \in Task \ {t} : task'[u] = task[u]
      /\ task'[t] = x
  BY <1>1 DEF StepTo, TasksTyped
<1>3. \A u \in Task : Live(u)' => TaskOK(task'[u])
  BY <1>2 DEF StepTo, TypeInd, Live
<1>4. \A u \in Task : Live(u)' => task'[u].on \in up'
  BY <1>1, <1>2 DEF StepTo, TasksTyped, Live
<1>5. task' \in [Task -> TaskState \union {None}] /\ up' \subseteq Process
  BY <1>1 DEF StepTo, TasksTyped
<1>6. QED
  BY <1>3, <1>4, <1>5 DEF TasksTyped, TaskOK, BackupOK

(* A task that only moves.                                                 *)
LEMMA GoesTo ==
  ASSUME TypeInd, NEW t \in Task, Live(t), NEW stage \in Stage, GoTo(t, stage), up' = up,
         NEW y, y = [task[t] EXCEPT !.stage = stage],
         TaskOK(y)
  PROVE  StepTo(t, y)
<1>1. TasksTyped
  BY TypeParts DEF TypeInd
<1>2. task[t] \in TaskState /\ task[t].on \in up
  BY <1>1, LiveTyped
<1>3. y \in TaskState /\ y.on \in up
  BY <1>2, Moved
<1>4. QED
  BY <1>3 DEF GoTo, StepTo

(* StepTo, for the moves of the stage alone.                               *)
LEMMA SimpleMove ==
  ASSUME TypeInd, NEW t \in Task, Live(t), NEW stage \in Stage \ {"selected", "writing"},
         GoTo(t, stage), up' = up,
         stage \in {"training", "marking", "predictor", "explainer"}
           => \/ task[t].stage \in {"training", "writing", "marking", "predictor", "explainer"}
              \/ task[t].stage = "selected" /\ task[t].kind = "retrain",
         stage \in {"resetting", "marking"} => task[t].kind # "rollback",
         stage \in LockStage => task[t].stage \in LockStage \/ task[t].kind # "retrain",
         stage \in {"counting", "counted", "aborting"} => task[t].kind = "auto",
         task[t].kind # "status",
         NEW y, y = [task[t] EXCEPT !.stage = stage]
  PROVE  StepTo(t, y) /\ y.stage = stage /\ y.kind = task[t].kind /\ y.on = task[t].on
           /\ y.rows = task[t].rows /\ y.promoted = task[t].promoted /\ y.next = task[t].next
           /\ y.backup = task[t].backup
<1>1. TasksTyped
  BY TypeParts DEF TypeInd
<1>2. task[t] \in TaskState /\ TaskOK(task[t])
  BY <1>1, LiveTyped DEF TypeInd
<1>3. /\ y.stage = stage /\ y.kind = task[t].kind /\ y.on = task[t].on
      /\ y.rows = task[t].rows /\ y.promoted = task[t].promoted /\ y.next = task[t].next
      /\ y.backup = task[t].backup
  BY <1>2, Moved
<1>4. HoldingOK(y)
  BY <1>2, <1>3 DEF TaskOK, HoldingOK, LockStage
<1>5. BackupOK(y)
  BY <1>2, <1>3 DEF TaskOK, BackupOK
<1>6. QED
  BY <1>3, <1>4, <1>5, GoesTo DEF TaskOK

Evaluating(t) ==
  CASE task[t].kind = "retrain" -> "training"
    [] task[t].kind = "auto" /\ Cardinality(Holds(t)) < Threshold -> "aborting"
    [] OTHER -> "entering"

AfterRemoval(t) ==
  CASE task[t].stage = "clearing" -> "trying"
    [] task[t].stage # "clearing" /\ task[t].kind = "auto" -> "counting"
    [] OTHER -> "entering"

AfterEnter    == IF file = None THEN "trying" ELSE "clearing"
AfterMark(t)  == IF task[t].promoted THEN "predictor" ELSE "leaving"
AfterWrite(t) == IF task[t].kind = "rollback" THEN "predictor" ELSE "marking"

(* The steps that only move their task, and where it goes.                 *)
Moves(t, stage) ==
  \/ Count(t) /\ Cardinality(Eligible) >= Threshold /\ stage = "counted"
  \/ RemoveAged(t) /\ task[t].kind # "status" /\ stage = AfterRemoval(t)
  \/ Evaluate(t) /\ stage = Evaluating(t)
  \/ Reset(t) /\ stage = "leaving"
  \/ Mark(t) /\ stage = AfterMark(t)
  \/ Enter(t) /\ stage = AfterEnter
  \/ Create(t) /\ stage = "created"
  \/ Exists(t) /\ stage = "looking"
  \/ WritePid(t) /\ stage = "inside"
  \/ Wait(t) /\ stage = "trying"
  \/ FindOrphan(t) /\ stage = "unlinking"
  \/ TakeOver(t) /\ stage = "trying"
  \/ TrainError(t) /\ stage = "resetting"
  \/ WriteRegistry(t) /\ stage = AfterWrite(t)
  \/ Predictor(t) /\ stage = "explainer"
  \/ Explainer(t) /\ stage = "leaving"
  \/ ExplainerError(t) /\ stage = "restoring"
  \/ Restore(t) /\ stage = "leaving"

(* From a stage to a stage.                                                *)
Edge(x, stage) ==
  \/ x.stage = "counting" /\ x.kind = "auto" /\ stage = "counted"
  \/ x.stage = "dismissing" /\ x.kind = "auto" /\ stage = "counting"
  \/ x.stage = "dismissing" /\ x.kind \in {"retrain", "rollback"} /\ stage = "entering"
  \/ x.stage = "selected" /\ x.kind = "retrain" /\ stage = "training"
  \/ x.stage = "selected" /\ x.kind = "auto" /\ stage \in {"aborting", "entering"}
  \/ x.stage = "entering" /\ stage \in {"trying", "clearing"}
  \/ x.stage = "clearing" /\ stage = "trying"
  \/ x.stage = "trying" /\ stage \in {"created", "looking"}
  \/ x.stage = "created" /\ stage = "inside"
  \/ x.stage = "looking" /\ stage \in {"trying", "unlinking"}
  \/ x.stage = "unlinking" /\ stage = "trying"
  \/ x.stage = "training" /\ x.kind # "rollback" /\ stage \in {"resetting", "marking"}
  \/ x.stage = "training" /\ x.kind = "rollback" /\ stage = "leaving"
  \/ x.stage = "writing" /\ stage = (IF x.kind = "rollback" THEN "predictor" ELSE "marking")
  \/ x.stage = "marking" /\ stage \in {"predictor", "leaving"}
  \/ x.stage = "predictor" /\ stage = "explainer"
  \/ x.stage = "explainer" /\ stage \in {"restoring", "leaving"}
  \/ x.stage \in {"resetting", "restoring"} /\ stage = "leaving"

(* The same for every edge of the flow of control.                         *)
LEMMA EdgeStep ==
  ASSUME TypeInd, NEW t \in Task, Live(t), NEW stage, Edge(task[t], stage), GoTo(t, stage), up' = up,
         NEW y, y = [task[t] EXCEPT !.stage = stage]
  PROVE  StepTo(t, y) /\ y.stage = stage /\ y.kind = task[t].kind /\ y.on = task[t].on
           /\ y.rows = task[t].rows /\ y.promoted = task[t].promoted /\ y.next = task[t].next
           /\ y.backup = task[t].backup
<1>1. stage \in Stage \ {"selected", "writing"}
  BY DEF Edge, Stage
<1>2. TasksTyped /\ TaskOK(task[t])
  BY TypeParts DEF TypeInd
<1>3. /\ stage \in {"training", "marking", "predictor", "explainer"}
           => \/ task[t].stage \in {"training", "writing", "marking", "predictor", "explainer"}
              \/ task[t].stage = "selected" /\ task[t].kind = "retrain"
      /\ stage \in {"resetting", "marking"} => task[t].kind # "rollback"
      /\ stage \in LockStage => task[t].stage \in LockStage \/ task[t].kind # "retrain"
      /\ stage \in {"counting", "counted", "aborting"} => task[t].kind = "auto"
      /\ task[t].kind # "status"
  BY <1>2 DEF Edge, TaskOK, HoldingOK, LockStage
<1>4. QED
  BY <1>1, <1>3, SimpleMove

(* Actions that only move a task along such an edge.                       *)
LEMMA MovesEdge ==
  ASSUME TypeInd, NEW t \in Task, NEW stage, Moves(t, stage)
  PROVE  Live(t) /\ Edge(task[t], stage) /\ GoTo(t, stage) /\ up' = up
<1>1. TasksTyped /\ (Live(t) => TaskOK(task[t]))
  BY TypeParts DEF TypeInd
<1>2. CASE Evaluate(t) /\ stage = Evaluating(t)
  <2>1. task[t].kind \in {"retrain", "auto"}
    BY <1>1, <1>2, LiveTyped DEF Evaluate, At, Kind, TaskOK, HoldingOK
  <2>2. stage = "training" \/ (task[t].kind = "auto" /\ stage \in {"aborting", "entering"})
    BY <1>2, <2>1 DEF Evaluating
  <2>3. stage = "training" => task[t].kind = "retrain"
    BY <1>2, <2>1 DEF Evaluating
  <2>4. QED
    BY <1>2, <2>2, <2>3 DEF Evaluate, At, Edge, Evaluating
<1>3. CASE Mark(t) /\ stage = AfterMark(t)
  BY <1>3 DEF Mark, At, Edge, AfterMark
<1>4. CASE \/ Enter(t) /\ stage = AfterEnter
           \/ Count(t) /\ Cardinality(Eligible) >= Threshold /\ stage = "counted"
  BY <1>1, <1>4 DEF Enter, AfterEnter, Count, At, Edge, TaskOK, HoldingOK, LockStage, learning
<1>5. CASE \/ Reset(t) /\ stage = "leaving"
           \/ Create(t) /\ stage = "created"
           \/ Exists(t) /\ stage = "looking"
           \/ WritePid(t) /\ stage = "inside"
           \/ Wait(t) /\ stage = "trying"
           \/ FindOrphan(t) /\ stage = "unlinking"
           \/ TakeOver(t) /\ stage = "trying"
           \/ TrainError(t) /\ stage = "resetting"
  BY <1>5 DEF Reset, Create, Exists, WritePid, Wait, FindOrphan, TakeOver, TrainError, At, Edge
<1>6. CASE \/ WriteRegistry(t) /\ stage = AfterWrite(t)
           \/ Predictor(t) /\ stage = "explainer"
           \/ Explainer(t) /\ stage = "leaving"
           \/ ExplainerError(t) /\ stage = "restoring"
           \/ Restore(t) /\ stage = "leaving"
  BY <1>6 DEF WriteRegistry, Predictor, Explainer, ExplainerError, Restore, At, Edge, AfterWrite
<1>7. CASE RemoveAged(t) /\ task[t].kind # "status" /\ stage = AfterRemoval(t)
  <2>1. Live(t) /\ task[t].stage \in {"dismissing", "clearing"} /\ up' = up
    BY <1>7 DEF RemoveAged, At
  <2>2. task[t].kind \in {"auto", "retrain", "rollback"}
    BY <1>1, <1>7, <2>1, LiveTyped DEF Kind
  <2>3. CASE task[t].stage = "clearing"
    BY <1>7, <2>1, <2>3 DEF RemoveAged, AfterRemoval, At, Edge
  <2>4. CASE task[t].stage = "dismissing" /\ task[t].kind = "auto"
    BY <1>7, <2>1, <2>4 DEF RemoveAged, AfterRemoval, At, Edge
  <2>5. CASE task[t].stage = "dismissing" /\ task[t].kind \in {"retrain", "rollback"}
    BY <1>7, <2>1, <2>5 DEF RemoveAged, AfterRemoval, At, Edge
  <2>6. QED
    BY <2>1, <2>2, <2>3, <2>4, <2>5
<1>8. QED
  BY <1>2, <1>3, <1>4, <1>5, <1>6, <1>7 DEF Moves

(* The steps in which it ends.                                             *)
Finishes(t) ==
  \/ Abort(t) \/ Refused(t) \/ TimesOut(t) \/ Leave(t)
  \/ Count(t) /\ ~(Cardinality(Eligible) >= Threshold)
  \/ RemoveAged(t) /\ task[t].kind = "status"

(* The other steps of a task, with the state they lead to.                 *)
LEMMA EndStep ==
  ASSUME TypeInd, NEW t \in Task,
         Finishes(t)
  PROVE  Live(t) /\ StepTo(t, None)
<1>1. CASE Abort(t) \/ Refused(t) \/ TimesOut(t) \/ Leave(t)
  BY <1>1 DEF Abort, Refused, TimesOut, Leave, At, Ends, StepTo
<1>2. CASE Count(t) /\ ~(Cardinality(Eligible) >= Threshold)
  BY <1>2 DEF Count, At, Ends, StepTo
<1>3. CASE RemoveAged(t) /\ task[t].kind = "status"
  <2>1. Live(t) /\ up' = up
    BY <1>3 DEF RemoveAged, At
  <2>2. task[t].stage = "dismissing"
    BY <1>3, <2>1 DEF TypeInd, TaskOK, HoldingOK
  <2>3. Ends(t)
    BY <1>3, <2>2 DEF RemoveAged, At
  <2>4. QED
    BY <2>1, <2>3 DEF Ends, StepTo
<1>4. QED
  BY <1>1, <1>2, <1>3 DEF Finishes

Selected(t) ==
  [task[t] EXCEPT !.rows = [s \in Eligible |-> sample[s].attempts],
                  !.stage = "selected",
                  !.backup = IF task[t].kind = "retrain" THEN registry ELSE @]

(* The other ways a task goes on: it selects its samples.                  *)
LEMMA SelectStep ==
  ASSUME TypeInd, NEW t \in Task, Select(t),
         NEW x, x = Selected(t)
  PROVE  /\ Live(t) /\ StepTo(t, x)
         /\ x.stage = "selected" /\ x.kind = task[t].kind /\ x.on = task[t].on
         /\ x.promoted = task[t].promoted /\ x.next = task[t].next
         /\ x.backup \in {registry, task[t].backup}
         /\ task[t].kind \in {"auto", "retrain"}
         /\ task[t].kind = "auto" => task[t].stage = "counted"
         /\ task[t].kind = "retrain" => task[t].stage = "inside" /\ Holds(t) = {}
<1> DEFINE r == [s \in Eligible |-> sample[s].attempts]
           b == IF task[t].kind = "retrain" THEN registry ELSE task[t].backup
<1>1. Live(t) /\ TasksTyped /\ OthersTyped
  BY TypeParts DEF TypeInd, Select, At
<1>2. task[t] \in TaskState /\ TaskOK(task[t]) /\ Holds(t) = DOMAIN task[t].rows /\ task[t].on \in up
      /\ task[t].backup \in Registry \union {None}
  BY <1>1, LiveTyped DEF TypeInd
<1>3. r \in Rows /\ \A s \in DOMAIN r : r[s] < MaxAttempts
  <2>1. /\ Eligible \in SUBSET Sample
        /\ \A s \in Eligible : sample[s].attempts \in 0 .. MaxAttempts
                              /\ sample[s].attempts < MaxAttempts
    BY <1>1 DEF OthersTyped, SampleTyped, Eligible
  <2>2. r \in [Eligible -> 0 .. MaxAttempts]
    BY <2>1
  <2>3. r \in Rows
    BY <2>1, <2>2 DEF Rows
  <2>4. QED
    BY <2>1, <2>3
<1>4. b \in Registry \union {None}
  BY <1>1, <1>2 DEF OthersTyped
<1>5. x \in TaskState
  <2>1. [task[t] EXCEPT !.rows = r] \in TaskState
    BY <1>2, <1>3, FieldsTyped
  <2>2. [[task[t] EXCEPT !.rows = r] EXCEPT !.stage = "selected"] \in TaskState
    BY <2>1, FieldsTyped DEF Stage
  <2>3. [[[task[t] EXCEPT !.rows = r] EXCEPT !.stage = "selected"] EXCEPT !.backup = b] \in TaskState
    BY <1>4, <2>2, FieldsTyped
  <2>4. x = [[[task[t] EXCEPT !.rows = r] EXCEPT !.stage = "selected"] EXCEPT !.backup = b]
    BY <1>2 DEF TaskState, Selected
  <2>5. QED
    BY <2>3, <2>4
<1>6. /\ x.stage = "selected" /\ x.kind = task[t].kind /\ x.on = task[t].on
      /\ x.promoted = task[t].promoted /\ x.next = task[t].next
      /\ x.rows = r /\ x.backup = b
  BY <1>2 DEF TaskState, Selected
<1>7. /\ task[t].kind \in {"auto", "retrain"}
      /\ task[t].kind = "auto" => task[t].stage = "counted"
      /\ task[t].kind = "retrain" => task[t].stage = "inside" /\ Holds(t) = {}
  BY <1>2 DEF Select, At, TaskOK, HoldingOK, LockStage
<1>8. b = registry => b # None
  BY <1>1, NoneIsNoRecord DEF OthersTyped
<1>9. TaskOK(x)
  BY <1>3, <1>6, <1>7, <1>8 DEF TaskOK, HoldingOK, BackupOK, LockStage
<1>10. task' = [task EXCEPT ![t] = x] /\ up' = up
  BY DEF Select, Selected
<1>11. QED
  BY <1>1, <1>2, <1>4, <1>5, <1>6, <1>7, <1>9, <1>10 DEF StepTo

(* Marking the samples fails.                                              *)
LEMMA MarkErrorStep ==
  ASSUME TypeInd, NEW t \in Task, MarkError(t),
         NEW x, x = [task[t] EXCEPT !.rows = NoRows, !.stage = "leaving"]
  PROVE  /\ Live(t) /\ StepTo(t, x) /\ task[t].stage = "marking"
         /\ x.stage = "leaving" /\ x.kind = task[t].kind /\ x.on = task[t].on
         /\ x.promoted = task[t].promoted
<1>1. Live(t) /\ TasksTyped /\ task[t].stage = "marking"
  BY TypeParts DEF TypeInd, MarkError, At
<1>2. task[t] \in TaskState /\ task[t].on \in up /\ TaskOK(task[t])
  BY <1>1, LiveTyped DEF TypeInd
<1>3. NoRows \in Rows
  BY NoRowsTyped
<1>4. x \in TaskState
  <2>1. [task[t] EXCEPT !.rows = NoRows] \in TaskState
    BY <1>2, <1>3, FieldsTyped
  <2>2. [[task[t] EXCEPT !.rows = NoRows] EXCEPT !.stage = "leaving"] \in TaskState
    BY <2>1, FieldsTyped DEF Stage
  <2>3. x = [[task[t] EXCEPT !.rows = NoRows] EXCEPT !.stage = "leaving"]
    BY <1>2 DEF TaskState
  <2>4. QED
    BY <2>2, <2>3
<1>5. /\ x.stage = "leaving" /\ x.kind = task[t].kind /\ x.on = task[t].on
      /\ x.rows = NoRows /\ x.promoted = task[t].promoted
  BY <1>2 DEF TaskState
<1>6. TaskOK(x)
  BY <1>1, <1>2, <1>5 DEF TaskOK, HoldingOK, BackupOK, LockStage, NoRows
<1>7. QED
  BY <1>1, <1>2, <1>4, <1>5, <1>6 DEF StepTo, MarkError

(* The task with its copy of the registry.                                 *)
BackedUp(t) == [task[t] EXCEPT !.backup = registry, !.stage = "training"]

(* It takes its copy of the registry.                                      *)
LEMMA BackupStep ==
  ASSUME TypeInd, NEW t \in Task, Backup(t)
  PROVE  LET x == BackedUp(t)
         IN /\ Live(t) /\ StepTo(t, x) /\ task[t].stage = "inside" /\ task[t].kind # "retrain"
            /\ x.stage = "training" /\ x.kind = task[t].kind /\ x.on = task[t].on
            /\ x.rows = task[t].rows /\ x.promoted = task[t].promoted /\ x.backup = registry
            /\ x.next = task[t].next /\ x # None
<1> DEFINE x == BackedUp(t)
<1>1. Live(t) /\ TasksTyped /\ OthersTyped /\ task[t].stage = "inside" /\ task[t].kind # "retrain"
  BY TypeParts DEF TypeInd, Backup, At
<1>2. task[t] \in TaskState /\ task[t].on \in up /\ TaskOK(task[t])
  BY <1>1, LiveTyped DEF TypeInd
<1>3. registry \in Registry /\ registry # None
  BY <1>1, NoneIsNoRecord DEF OthersTyped
<1>4. x \in TaskState
  <2>1. [task[t] EXCEPT !.backup = registry] \in TaskState
    BY <1>2, <1>3, FieldsTyped
  <2>2. [[task[t] EXCEPT !.backup = registry] EXCEPT !.stage = "training"] \in TaskState
    BY <2>1, FieldsTyped DEF Stage
  <2>3. x = [[task[t] EXCEPT !.backup = registry] EXCEPT !.stage = "training"]
    BY <1>2 DEF TaskState, BackedUp
  <2>4. QED
    BY <2>2, <2>3
<1>5. /\ x.stage = "training" /\ x.kind = task[t].kind /\ x.on = task[t].on
      /\ x.rows = task[t].rows /\ x.promoted = task[t].promoted /\ x.backup = registry
      /\ x.next = task[t].next
  BY <1>2 DEF TaskState, BackedUp
<1>6. TaskOK(x)
  BY <1>1, <1>2, <1>3, <1>5 DEF TaskOK, HoldingOK, BackupOK, LockStage
<1>7. task' = [task EXCEPT ![t] = x] /\ up' = up
  BY DEF Backup, BackedUp
<1> HIDE DEF x
<1>8. x # None
  BY <1>4, NoneIsNoRecord
<1>9. QED
  BY <1>1, <1>2, <1>4, <1>5, <1>6, <1>7, <1>8 DEF StepTo, x

-----------------------------------------------------------------------------
(* The registry.                                                           *)

(* What the registry names has a recorded checksum.                        *)
RegistryOK(r) ==
  /\ r.production \notin r.demoted
  /\ r.production # 0 => r.production \in r.artifacts
  /\ \A i \in DOMAIN r.history : r.history[i] \in r.artifacts \union {0}
  /\ r.previous \in r.artifacts \union {0, None}

(* The registry and every copy a task can write back are fit.              *)
RegistriesOK ==
  /\ RegistryOK(registry)
  /\ \A t \in Task : Live(t) =>
       /\ task[t].backup # None => RegistryOK(task[t].backup)
       /\ task[t].next # None => RegistryOK(task[t].next)

(* Promotion of a model leaves a registry fit.                             *)
LEMMA ChampionOK ==
  ASSUME registry \in Registry, RegistryOK(registry), NEW m \in Model
  PROVE  WithChampion(m) \in Registry /\ RegistryOK(WithChampion(m))
<1>1. /\ registry.production \in Model /\ registry.previous \in Model \union {None}
      /\ registry.history \in Seq(Model) /\ registry.demoted \in SUBSET Model
      /\ registry.artifacts \in SUBSET Model
  BY DEF Registry
<1> DEFINE r == WithChampion(m)
           h == IF registry.production \in ToSet(registry.history) THEN registry.history
                ELSE Append(registry.history, registry.production)
<1>2. h \in Seq(Model) /\ \A i \in DOMAIN h : h[i] \in registry.artifacts \union {0}
  <2>1. CASE registry.production \in ToSet(registry.history)
    BY <1>1, <2>1 DEF RegistryOK
  <2>2. CASE registry.production \notin ToSet(registry.history)
    <3>1. h = Append(registry.history, registry.production)
      BY <2>2
    <3>2. h \in Seq(Model) /\ DOMAIN h = 1 .. Len(registry.history) + 1
      BY <1>1, <3>1
    <3>3. ASSUME NEW i \in 1 .. Len(registry.history) + 1
          PROVE  h[i] \in registry.artifacts \union {0}
      <4>1. CASE i = Len(registry.history) + 1
        BY <1>1, <3>1, <4>1 DEF RegistryOK
      <4>2. CASE i # Len(registry.history) + 1
        <5>1. i \in DOMAIN registry.history /\ h[i] = registry.history[i]
          BY <1>1, <3>1, <3>3, <4>2
        <5>2. QED
          BY <5>1 DEF RegistryOK
      <4>3. QED
        BY <4>1, <4>2
    <3>4. QED
      BY <3>2, <3>3
  <2>3. QED
    BY <2>1, <2>2
<1>3. /\ r.production = m /\ r.previous = registry.production /\ r.history = h
      /\ r.demoted = registry.demoted \ {m} /\ r.artifacts = registry.artifacts \union {m}
      /\ r \in Registry
  <2> HIDE DEF h
  <2>1. r = [production |-> m, previous |-> registry.production, history |-> h,
             demoted |-> registry.demoted \ {m}, artifacts |-> registry.artifacts \union {m}]
    BY DEF WithChampion, h
  <2>2. QED
    BY <1>1, <1>2, <2>1 DEF Registry
<1> HIDE DEF r, h
<1>4. RegistryOK(r)
  BY <1>2, <1>3 DEF RegistryOK
<1>5. QED
  BY <1>3, <1>4 DEF r

(* So does a rollback.                                                     *)
LEMMA FallbackOK ==
  ASSUME registry \in Registry, RegistryOK(registry), NEW m \in Fallback
  PROVE  /\ WithFallback(m) \in Registry /\ RegistryOK(WithFallback(m))
         /\ WithFallback(m).artifacts = registry.artifacts
<1>1. /\ registry.production \in Model /\ registry.previous \in Model \union {None}
      /\ registry.history \in Seq(Model) /\ registry.demoted \in SUBSET Model
      /\ registry.artifacts \in SUBSET Model
  BY DEF Registry
<1>2. Fit(m) /\ m \in Model /\ m \in registry.artifacts \union {0}
  <2>1. CASE m \in LatestFit
    <3>1. PICK i \in DOMAIN registry.history : m = registry.history[i] /\ Fit(m)
      BY <2>1 DEF LatestFit
    <3>2. QED
      BY <1>1, <3>1 DEF RegistryOK
  <2>2. CASE m = registry.previous /\ Fit(m)
    BY <1>1, <2>2 DEF RegistryOK, Fit
  <2>3. QED
    BY <2>1, <2>2 DEF Fallback
<1> DEFINE r == WithFallback(m)
<1>3. /\ r.production = m /\ r.previous = None /\ r.history = registry.history
      /\ r.demoted = registry.demoted \union {registry.production}
      /\ r.artifacts = registry.artifacts
  BY DEF Registry, WithFallback
<1>4. r \in Registry
  <2>1. /\ m \in Model /\ None \in Model \union {None}
        /\ registry.demoted \union {registry.production} \in SUBSET Model
    BY <1>1, <1>2
  <2>2. QED
    BY <1>1, <2>1 DEF Registry, WithFallback
<1> HIDE DEF r
<1>5. RegistryOK(r)
  BY <1>2, <1>3 DEF RegistryOK, Fit
<1>6. QED
  BY <1>3, <1>4, <1>5 DEF r

(* A candidate is a new model.                                             *)
LEMMA TrainedGrows ==
  ASSUME TrainedTyped(trained), NEW S \in SUBSET Sample, Len(trained) < MaxModels,
         trained' = Append(trained, S)
  PROVE  /\ TrainedTyped(trained')
         /\ Len(trained) + 1 \in Model /\ Len(trained) \in Nat
         /\ trained'[Len(trained) + 1] = S
         /\ \A m \in 1 .. Len(trained) : trained'[m] = trained[m]
         /\ Len(trained') = Len(trained) + 1
<1>1. PICK n \in Model : trained \in [1 .. n -> SUBSET Sample]
  BY DEF TrainedTyped
<1>2. trained \in Seq(SUBSET Sample) /\ Len(trained) = n /\ n + 1 \in Model /\ n \in Nat
  BY <1>1, LifecycleAssumption DEF Model
<1>3. trained' \in Seq(SUBSET Sample) /\ Len(trained') = n + 1
  BY <1>2
<1>4. trained' \in [1 .. n + 1 -> SUBSET Sample]
  BY <1>3, LenProperties
<1>5. /\ trained'[n + 1] = S
      /\ \A m \in 1 .. n : trained'[m] = trained[m]
  BY <1>2
<1>6. QED
  BY <1>2, <1>3, <1>4, <1>5 DEF TrainedTyped

(* The task with the registry its candidate is promoted in.                *)
Promoting(t) ==
  [task[t] EXCEPT !.stage = "writing", !.promoted = TRUE,
                  !.next = WithChampion(Len(trained) + 1)]

(* A candidate wins.                                                       *)
Promotes(t) ==
  TrainCandidate(t) /\ task' = [task EXCEPT ![t] = Promoting(t)] /\ up' = up

(* A candidate that wins is going to be written.                           *)
LEMMA TrainStep ==
  ASSUME TypeInd, RegistriesOK, NEW t \in Task, Promotes(t)
  PROVE  LET x == Promoting(t)
         IN /\ Live(t) /\ StepTo(t, x) /\ task[t].stage = "training" /\ task[t].kind # "rollback"
            /\ x.stage = "writing" /\ x.kind = task[t].kind /\ x.on = task[t].on
            /\ x.rows = task[t].rows /\ x.promoted /\ x.backup = task[t].backup
            /\ x.next = WithChampion(Len(trained) + 1) /\ RegistryOK(x.next) /\ x # None
<1> DEFINE x == Promoting(t)
<1>1. /\ Live(t) /\ TasksTyped /\ OthersTyped
      /\ task[t].stage = "training" /\ task[t].kind # "rollback"
  BY TypeParts DEF TypeInd, Promotes, TrainCandidate, At
<1>2. task[t] \in TaskState /\ task[t].on \in up /\ TaskOK(task[t]) /\ Holds(t) \subseteq Sample
  BY <1>1, LiveTyped DEF TypeInd
<1> DEFINE n == WithChampion(Len(trained) + 1)
<1>3. n \in Registry /\ RegistryOK(n) /\ n # None
  <2>1. Len(trained) + 1 \in Model
    BY <1>1, <1>2, TrainedGrows DEF OthersTyped, Promotes, TrainCandidate
  <2>2. QED
    BY <1>1, <2>1, ChampionOK, NoneIsNoRecord DEF OthersTyped, RegistriesOK
<1> HIDE DEF n
<1>4. x \in TaskState
  <2>1. [task[t] EXCEPT !.stage = "writing"] \in TaskState
    BY <1>2, FieldsTyped DEF Stage
  <2>2. [[task[t] EXCEPT !.stage = "writing"] EXCEPT !.promoted = TRUE] \in TaskState
    BY <2>1, FieldsTyped
  <2>3. [[[task[t] EXCEPT !.stage = "writing"] EXCEPT !.promoted = TRUE] EXCEPT !.next = n] \in TaskState
    BY <1>3, <2>2, FieldsTyped
  <2>4. x = [[[task[t] EXCEPT !.stage = "writing"] EXCEPT !.promoted = TRUE] EXCEPT !.next = n]
    BY <1>2 DEF TaskState, Promoting, n
  <2>5. QED
    BY <2>3, <2>4
<1>5. /\ x.stage = "writing" /\ x.kind = task[t].kind /\ x.on = task[t].on
      /\ x.rows = task[t].rows /\ x.promoted /\ x.backup = task[t].backup /\ x.next = n
  BY <1>2 DEF TaskState, Promoting, n
<1>6. TaskOK(x)
  BY <1>1, <1>2, <1>3, <1>5 DEF TaskOK, HoldingOK, BackupOK, LockStage
<1>7. task' = [task EXCEPT ![t] = x] /\ up' = up
  BY DEF Promotes
<1> HIDE DEF x
<1>8. x # None
  BY <1>4, NoneIsNoRecord
<1>9. QED
  BY <1>1, <1>2, <1>3, <1>4, <1>5, <1>6, <1>7, <1>8 DEF StepTo, n, x

(* The task with the registry rolled back to m.                            *)
RolledTo(t, m) == [task[t] EXCEPT !.stage = "writing", !.next = WithFallback(m)]

(* A rollback finds its fallback.                                          *)
RollsTo(t, m) ==
  /\ At(t, "training") /\ task[t].kind = "rollback" /\ m \in Fallback
  /\ task' = [task EXCEPT ![t] = RolledTo(t, m)] /\ up' = up

(* A fallback is going to be written.                                      *)
LEMMA RollbackStep ==
  ASSUME TypeInd, RegistriesOK, NEW t \in Task, NEW m, RollsTo(t, m)
  PROVE  LET x == RolledTo(t, m)
         IN /\ Live(t) /\ StepTo(t, x) /\ task[t].stage = "training"
            /\ x.stage = "writing" /\ x.kind = task[t].kind /\ x.on = task[t].on
            /\ x.rows = task[t].rows /\ x.promoted = task[t].promoted /\ x.backup = task[t].backup
            /\ x.next = WithFallback(m) /\ RegistryOK(x.next)
<1> DEFINE x == RolledTo(t, m)
<1>1. Live(t) /\ TasksTyped /\ OthersTyped /\ task[t].stage = "training"
  BY TypeParts DEF TypeInd, At, RollsTo
<1>2. task[t] \in TaskState /\ task[t].on \in up /\ TaskOK(task[t])
  BY <1>1, LiveTyped DEF TypeInd
<1> DEFINE n == WithFallback(m)
<1>3. n \in Registry /\ RegistryOK(n) /\ n # None
  <2>1. m \in Fallback /\ registry \in Registry /\ RegistryOK(registry)
    BY <1>1 DEF RollsTo, OthersTyped, RegistriesOK
  <2>2. n \in Registry /\ RegistryOK(n)
    BY <2>1, FallbackOK
  <2>3. QED
    BY <2>2, NoneIsNoRecord
<1> HIDE DEF n
<1>4. x \in TaskState
  <2>1. [task[t] EXCEPT !.stage = "writing"] \in TaskState
    BY <1>2, FieldsTyped DEF Stage
  <2>2. [[task[t] EXCEPT !.stage = "writing"] EXCEPT !.next = n] \in TaskState
    BY <1>3, <2>1, FieldsTyped
  <2>3. x = [[task[t] EXCEPT !.stage = "writing"] EXCEPT !.next = n]
    BY <1>2 DEF TaskState, n, RolledTo
  <2>4. QED
    BY <2>2, <2>3
<1>5. /\ x.stage = "writing" /\ x.kind = task[t].kind /\ x.on = task[t].on
      /\ x.rows = task[t].rows /\ x.promoted = task[t].promoted /\ x.backup = task[t].backup
      /\ x.next = n
  BY <1>2 DEF TaskState, n, RolledTo
<1>6. TaskOK(x)
  BY <1>1, <1>2, <1>3, <1>5 DEF TaskOK, HoldingOK, BackupOK, LockStage
<1>7. task' = [task EXCEPT ![t] = x] /\ up' = up
  BY DEF RollsTo
<1> HIDE DEF x
<1>8. QED
  BY <1>1, <1>2, <1>3, <1>4, <1>5, <1>6, <1>7 DEF StepTo, n, x

-----------------------------------------------------------------------------
(* The steps of a task together.                                           *)

UnderFile(x)    == x.stage \in InFile \/ (x.kind = "retrain" /\ x.stage = "selected")
(* The task holds the asyncio lock of its process.                         *)
UnderProcess(x) == x.stage \in InProcess \/ UnderFile(x)

(* Where a task is tells the locks it holds.                               *)
LEMMA UnderLocks ==
  ASSUME NEW t \in Task
  PROVE  /\ Inside(t) <=> Live(t) /\ UnderFile(task[t])
         /\ \A p : Locked(p) <=> \E u \in Task : /\ Live(u) /\ task[u].on = p
                                                 /\ UnderProcess(task[u])
BY DEF Inside, Locked, UnderFile, UnderProcess

(* What a task can change from a state y to a state x.                     *)
Change(y, x) ==
  /\ x.on = y.on /\ x.kind = y.kind
  /\ x.next = y.next \/ (x.stage = "writing" /\ RegistryOK(x.next))
  /\ x.backup \in {y.backup, registry}
  /\ UnderProcess(x) => UnderProcess(y) \/ y.stage \in {"entering", "clearing"}
  /\ UnderFile(x) => UnderFile(y) \/ (y.stage = "created" /\ x.stage = "inside")
  /\ x.stage = "created" => y.stage = "trying"
  /\ x.stage \in Removing => y.stage = "entering"
  /\ x.stage \in {"explainer", "restoring"} => y.stage \in {"predictor", "explainer"}

(* The steps a task takes by itself.                                       *)
TaskStep(t) ==
  \/ Count(t) \/ RemoveAged(t)
  \/ Select(t) \/ Evaluate(t) \/ Abort(t) \/ Reset(t) \/ Mark(t) \/ MarkError(t)
  \/ Enter(t) \/ Refused(t) \/ Create(t) \/ Exists(t) \/ WritePid(t) \/ Wait(t)
  \/ TimesOut(t) \/ FindOrphan(t) \/ TakeOver(t) \/ Leave(t) \/ Backup(t) \/ Train(t)
  \/ TrainError(t) \/ Rollback(t) \/ WriteRegistry(t) \/ Predictor(t) \/ Explainer(t)
  \/ ExplainerError(t) \/ Restore(t)

(* Every step moves its task, ends it or is one of five.                   *)
LEMMA StepKinds ==
  ASSUME NEW t \in Task, TaskStep(t)
  PROVE  \/ \E stage : Moves(t, stage)
         \/ Select(t) \/ MarkError(t) \/ Backup(t) \/ Train(t) \/ Rollback(t)
         \/ Finishes(t)
<1>1. Enter(t) => Moves(t, AfterEnter)
  BY DEF Moves
<1>2. Evaluate(t) => Moves(t, Evaluating(t))
  BY DEF Moves
<1>3. Mark(t) => Moves(t, AfterMark(t))
  BY DEF Moves
<1>4. WriteRegistry(t) => Moves(t, AfterWrite(t))
  BY DEF Moves
<1>5. RemoveAged(t) => Moves(t, AfterRemoval(t)) \/ Finishes(t)
  BY DEF Moves, Finishes
<1>6. Count(t) => Moves(t, "counted") \/ Finishes(t)
  BY DEF Moves, Finishes
<1>7. Abort(t) \/ Refused(t) \/ TimesOut(t) \/ Leave(t) => Finishes(t)
  BY DEF Finishes
<1>8. \/ Reset(t) \/ Create(t) \/ Exists(t) \/ WritePid(t) \/ Wait(t) \/ FindOrphan(t)
      \/ TakeOver(t) \/ TrainError(t) \/ Predictor(t) \/ Explainer(t) \/ ExplainerError(t)
      \/ Restore(t)
      => \E stage : Moves(t, stage)
  BY DEF Moves
<1>9. QED
  BY <1>1, <1>2, <1>3, <1>4, <1>5, <1>6, <1>7, <1>8 DEF TaskStep

(* A move along an edge acquires no lock unless it says so.                *)
LEMMA EdgeChange ==
  ASSUME TypeInd, NEW t \in Task, Live(t), NEW stage, Edge(task[t], stage), GoTo(t, stage), up' = up
  PROVE  \E x : StepTo(t, x) /\ x # None /\ Change(task[t], x) /\ x.stage = stage
<1> DEFINE x == [task[t] EXCEPT !.stage = stage]
<1>1. StepTo(t, x) /\ x.stage = stage /\ x.kind = task[t].kind /\ x.on = task[t].on
        /\ x.rows = task[t].rows /\ x.next = task[t].next /\ x.backup = task[t].backup
  BY EdgeStep
<1>2. TasksTyped
  BY TypeParts DEF TypeInd
<1>3. task[t] \in TaskState /\ stage \in Stage
  BY <1>2, LiveTyped DEF Edge, Stage
<1>4. x # None
  BY <1>3, Moved, NoneIsNoRecord
<1> HIDE DEF x
<1>5. /\ UnderProcess(x) => UnderProcess(task[t]) \/ task[t].stage \in {"entering", "clearing"}
      /\ UnderFile(x) => UnderFile(task[t]) \/ (task[t].stage = "created" /\ x.stage = "inside")
      /\ x.stage = "created" => task[t].stage = "trying"
      /\ x.stage \in Removing => task[t].stage = "entering"
      /\ x.stage \in {"explainer", "restoring"} => task[t].stage \in {"predictor", "explainer"}
  BY <1>1 DEF Edge, UnderProcess, UnderFile, InProcess, InFile, Removing
<1>6. QED
  BY <1>1, <1>4, <1>5 DEF Change

(* Every step of a task ends it, or changes it in a listed way.            *)
LEMMA Shape ==
  ASSUME TypeInd, RegistriesOK, NEW t \in Task, TaskStep(t)
  PROVE  /\ Live(t)
         /\ \E x : StepTo(t, x) /\ (x = None \/ Change(task[t], x))
<1> USE DEF UnderProcess, UnderFile, InProcess, InFile, Removing
<1>1. ASSUME NEW stage, Moves(t, stage)
      PROVE  Live(t) /\ \E x : StepTo(t, x) /\ Change(task[t], x)
  BY <1>1, MovesEdge, EdgeChange
<1>2. CASE Select(t)
  <2> DEFINE x == Selected(t)
  <2>1. /\ Live(t) /\ StepTo(t, x)
        /\ x.stage = "selected" /\ x.kind = task[t].kind /\ x.on = task[t].on
        /\ x.next = task[t].next /\ x.backup \in {registry, task[t].backup}
        /\ task[t].kind = "retrain" => task[t].stage = "inside"
    BY <1>2, SelectStep
  <2> HIDE DEF x
  <2>2. Change(task[t], x)
    BY <2>1 DEF Change
  <2>3. QED
    BY <2>1, <2>2
<1>3. CASE MarkError(t)
  <2> DEFINE x == [task[t] EXCEPT !.rows = NoRows, !.stage = "leaving"]
  <2>1. /\ Live(t) /\ StepTo(t, x) /\ task[t].stage = "marking"
        /\ x.stage = "leaving" /\ x.kind = task[t].kind /\ x.on = task[t].on
    BY <1>3, MarkErrorStep
  <2>2. task[t] \in TaskState
    BY <2>1, LiveTyped, TypeParts DEF TypeInd
  <2>3. x.next = task[t].next /\ x.backup = task[t].backup
    BY <2>2 DEF TaskState
  <2> HIDE DEF x
  <2>4. Change(task[t], x)
    BY <2>1, <2>3 DEF Change
  <2>5. QED
    BY <2>1, <2>4
<1>4. CASE Backup(t)
  <2> DEFINE x == BackedUp(t)
  <2>1. /\ Live(t) /\ StepTo(t, x) /\ task[t].stage = "inside"
        /\ x.stage = "training" /\ x.kind = task[t].kind /\ x.on = task[t].on
        /\ x.backup = registry /\ x.next = task[t].next
    BY <1>4, BackupStep
  <2> HIDE DEF x
  <2>2. Change(task[t], x)
    BY <2>1 DEF Change
  <2>3. QED
    BY <2>1, <2>2
<1>5. CASE Train(t)
  <2>1. CASE GoTo(t, "marking")
    <3>1. Live(t) /\ Edge(task[t], "marking") /\ up' = up
      BY <1>5 DEF Train, TrainCandidate, At, Edge
    <3>2. QED
      BY <2>1, <3>1, EdgeChange
  <2>2. CASE ~GoTo(t, "marking")
    <3> DEFINE x == Promoting(t)
    <3>1. Promotes(t)
      BY <1>5, <2>2 DEF Train, Promotes, Promoting
    <3>2. /\ Live(t) /\ StepTo(t, x) /\ task[t].stage = "training"
          /\ x.stage = "writing" /\ x.kind = task[t].kind /\ x.on = task[t].on
          /\ x.backup = task[t].backup /\ RegistryOK(x.next)
      BY <3>1, TrainStep
    <3> HIDE DEF x
    <3>3. Change(task[t], x)
      BY <3>2 DEF Change
    <3>4. QED
      BY <3>2, <3>3
  <2>3. QED
    BY <2>1, <2>2
<1>6. CASE Rollback(t)
  <2>1. CASE GoTo(t, "leaving")
    <3>1. Live(t) /\ Edge(task[t], "leaving") /\ up' = up
      BY <1>6 DEF Rollback, At, Edge
    <3>2. QED
      BY <2>1, <3>1, EdgeChange
  <2>2. CASE ~GoTo(t, "leaving")
    <3>1. PICK m \in Fallback :
            task' = [task EXCEPT ![t].stage = "writing", ![t].next = WithFallback(m)]
      BY <1>6, <2>2 DEF Rollback
    <3> DEFINE x == RolledTo(t, m)
    <3>2. RollsTo(t, m)
      BY <1>6, <3>1 DEF Rollback, RollsTo, RolledTo
    <3>3. /\ Live(t) /\ StepTo(t, x) /\ task[t].stage = "training"
          /\ x.stage = "writing" /\ x.kind = task[t].kind /\ x.on = task[t].on
          /\ x.backup = task[t].backup /\ RegistryOK(x.next)
      BY <3>2, RollbackStep
    <3> HIDE DEF x
    <3>4. Change(task[t], x)
      BY <3>3 DEF Change
    <3>5. QED
      BY <3>3, <3>4
  <2>3. QED
    BY <2>1, <2>2
<1>7. CASE Finishes(t)
  BY <1>7, EndStep
<1>8. QED
  BY <1>1, <1>2, <1>3, <1>4, <1>5, <1>6, <1>7, StepKinds

-----------------------------------------------------------------------------
(* The samples keep their types.                                           *)

(* The statuses and the rows of samples.                                   *)
Status == {"NEW", "UNUSABLE", "VERIFIED", "EVALUATED", "PROMOTED", "REJECTED", "QUARANTINED"}

SampleRow == [status : Status, attempts : 0 .. MaxAttempts, retrained : BOOLEAN]

(* A sample keeps its type when status and attempts are set.               *)
LEMMA RowTyped ==
  ASSUME NEW r \in SampleRow, NEW status \in Status
  PROVE  /\ [r EXCEPT !.status = status] \in SampleRow
         /\ \A n \in 0 .. MaxAttempts :
              [r EXCEPT !.status = status, !.attempts = n] \in SampleRow
         /\ [r EXCEPT !.status = status, !.retrained = TRUE] \in SampleRow
BY Zenon DEF SampleRow

(* What is set is what is read.                                            *)
LEMMA RowFields ==
  ASSUME NEW r \in SampleRow, NEW status \in Status
  PROVE  /\ [r EXCEPT !.status = status].status = status
         /\ \A n : [r EXCEPT !.status = status, !.attempts = n].status = status
         /\ [r EXCEPT !.status = status, !.retrained = TRUE].status = status
         /\ r.attempts \in 0 .. MaxAttempts
BY DEF SampleRow

(* Samples, row by row.                                                    *)
LEMMA SamplesTyped ==
  ASSUME SampleTyped(sample)
  PROVE  /\ \A s \in Sample : sample[s] \in SampleRow
         /\ \A f : f \in [Sample -> SampleRow] => SampleTyped(f)
BY DEF SampleTyped, SampleRow, Status

(* The writes to the samples keep their types: the evaluation.             *)
LEMMA EvaluatedTyped ==
  ASSUME TypeInd, NEW t \in Task, At(t, "selected")
  PROVE  SampleTyped(Evaluated(t))
<1>1. SampleTyped(sample) /\ TasksTyped /\ Live(t) /\ task[t].stage = "selected" /\ TaskOK(task[t])
  BY TypeParts DEF TypeInd, OthersTyped, At
<1>2. ASSUME NEW s \in Holds(t)
      PROVE  [sample[s] EXCEPT !.status = "EVALUATED", !.attempts = task[t].rows[s] + 1] \in SampleRow
  <2>1. s \in Sample /\ task[t].rows \in Rows /\ Holds(t) = DOMAIN task[t].rows
    BY <1>1, LiveTyped
  <2>2. task[t].rows[s] \in 0 .. MaxAttempts
    BY <2>1 DEF Rows
  <2>3. task[t].rows[s] < MaxAttempts
    BY <1>1, <2>1 DEF TaskOK, HoldingOK
  <2>4. task[t].rows[s] + 1 \in 0 .. MaxAttempts
    BY <2>2, <2>3, LifecycleAssumption
  <2>5. sample[s] \in SampleRow
    BY <1>1, <2>1, SamplesTyped
  <2>6. QED
    BY <2>4, <2>5, RowTyped DEF Status
<1>3. Evaluated(t) \in [Sample -> SampleRow]
  BY <1>1, <1>2, SamplesTyped DEF Evaluated
<1>4. QED
  BY <1>1, <1>3, SamplesTyped

(* The rows an abandoned retraining gives back.                            *)
LEMMA RestoredTyped ==
  ASSUME SampleTyped(sample), NEW S
  PROVE  SampleTyped(Restored(S))
<1>1. ASSUME NEW s \in Sample
      PROVE  [sample[s] EXCEPT !.status = "VERIFIED",
                               !.attempts = IF @ > 0 THEN @ - 1 ELSE 0] \in SampleRow
  <2>1. sample[s] \in SampleRow
    BY SamplesTyped
  <2>2. (IF sample[s].attempts > 0 THEN sample[s].attempts - 1 ELSE 0) \in 0 .. MaxAttempts
    BY <2>1, LifecycleAssumption DEF SampleRow
  <2>3. QED
    BY <2>1, <2>2, RowTyped DEF Status
<1>2. Restored(S) \in [Sample -> SampleRow]
  BY <1>1, SamplesTyped DEF Restored
<1>3. QED
  BY <1>2, SamplesTyped

(* One sample after a retraining.                                          *)
LEMMA MarkedTyped ==
  ASSUME NEW r \in SampleRow, NEW promoted \in BOOLEAN
  PROVE  /\ Marked(r, promoted) \in SampleRow
         /\ Marked(r, promoted).status \in {"PROMOTED", "REJECTED", "QUARANTINED"}
         /\ Marked(r, promoted).status = "PROMOTED" => promoted
<1>1. "PROMOTED" \in Status /\ "REJECTED" \in Status /\ "QUARANTINED" \in Status
  BY DEF Status
<1>2. CASE promoted
  <2>1. Marked(r, promoted) = [r EXCEPT !.status = "PROMOTED", !.retrained = TRUE]
    BY <1>2 DEF Marked
  <2>2. Marked(r, promoted).status = "PROMOTED"
    BY <1>1, <2>1, RowFields
  <2>3. Marked(r, promoted) \in SampleRow
    BY <1>1, <2>1, RowTyped
  <2>4. QED
    BY <1>2, <2>2, <2>3
<1>3. CASE ~promoted /\ r.attempts >= MaxAttempts
  <2>1. Marked(r, promoted) = [r EXCEPT !.status = "QUARANTINED", !.retrained = TRUE]
    BY <1>3 DEF Marked
  <2>2. Marked(r, promoted).status = "QUARANTINED"
    BY <1>1, <2>1, RowFields
  <2>3. Marked(r, promoted) \in SampleRow
    BY <1>1, <2>1, RowTyped
  <2>4. QED
    BY <1>3, <2>2, <2>3
<1>4. CASE ~promoted /\ ~(r.attempts >= MaxAttempts)
  <2>1. Marked(r, promoted) = [r EXCEPT !.status = "REJECTED"]
    BY <1>4 DEF Marked
  <2>2. Marked(r, promoted).status = "REJECTED"
    BY <1>1, <2>1, RowFields
  <2>3. Marked(r, promoted) \in SampleRow
    BY <1>1, <2>1, RowTyped
  <2>4. QED
    BY <1>4, <2>2, <2>3
<1>5. QED
  BY <1>2, <1>3, <1>4

(* All samples of a retraining.                                            *)
LEMMA MarkTyped ==
  ASSUME SampleTyped(sample), NEW t \in Task, task[t].promoted \in BOOLEAN, Mark(t)
  PROVE  SampleTyped(sample')
<1>1. sample' = [s \in Sample |-> IF s \in Holds(t) THEN Marked(sample[s], task[t].promoted)
                                  ELSE sample[s]]
  BY DEF Mark
<1>2. sample' \in [Sample -> SampleRow]
  BY <1>1, SamplesTyped, MarkedTyped
<1>3. QED
  BY <1>2, SamplesTyped

-----------------------------------------------------------------------------
(* Types and registries are preserved.                                     *)

(* What the lock file says changes, not who made it.                       *)
LEMMA FileTyped ==
  ASSUME NEW f \in File, NEW says \in {"nothing", "pid", "dead", "aged"}
  PROVE  /\ [f EXCEPT !.says = says] \in File /\ f.by \in Process
         /\ [f EXCEPT !.says = says].by = f.by /\ [f EXCEPT !.says = says].says = says
BY DEF File

(* A step of a task preserves the types of everything else.                *)
LEMMA TaskStepTyped ==
  ASSUME TypeInd, RegistriesOK, NEW t \in Task, TaskStep(t)
  PROVE  OthersTyped'
<1> USE DEF learning, serving, bounds
<1>1. OthersTyped /\ TasksTyped /\ Live(t)
  BY TypeParts, Shape DEF TypeInd
<1>2. BootTyped
  BY TypeParts DEF TypeInd
<1>3. /\ task[t] \in TaskState /\ TaskOK(task[t]) /\ task[t].on \in Process
      /\ Holds(t) \subseteq Sample /\ task[t].promoted \in BOOLEAN
      /\ task[t].backup \in Registry \union {None} /\ task[t].next \in Registry \union {None}
  BY <1>1, LiveTyped DEF TypeInd
<1>4. CASE Evaluate(t) \/ Abort(t) \/ Reset(t) \/ Mark(t)
  <2>1. SampleTyped(sample')
    BY <1>1, <1>3, <1>4, EvaluatedTyped, RestoredTyped, MarkTyped
       DEF OthersTyped, Evaluate, Abort, Reset, Mark
  <2>2. UNCHANGED <<file, registry, serving, trained, stranded, forfeited, raced, bounds>>
    BY <1>4 DEF Evaluate, Abort, Reset, Mark
  <2>3. QED
    BY <1>1, <2>1, <2>2 DEF OthersTyped
<1>5. CASE MarkError(t) \/ Refused(t) \/ TimesOut(t)
  <2>1. stranded' \subseteq Sample /\ faults' \in 0 .. MaxFaults
    BY <1>1, <1>3, <1>5, LifecycleAssumption DEF OthersTyped, MarkError, Refused, TimesOut, Fault
  <2>2. UNCHANGED <<file, registry, serving, sample, trained, forfeited, raced, starts>>
    BY <1>5 DEF MarkError, Refused, TimesOut
  <2>3. QED
    BY <1>1, <2>1, <2>2 DEF OthersTyped
<1>6. CASE RemoveAged(t) \/ Create(t) \/ WritePid(t) \/ TakeOver(t) \/ Leave(t)
  <2>1. file' \in File \union {None}
    <3>1. CASE RemoveAged(t) \/ TakeOver(t) \/ Leave(t)
      BY <3>1 DEF RemoveAged, TakeOver, Leave, Unlink
    <3>2. CASE Create(t)
      BY <1>3, <3>2 DEF Create, File
    <3>3. CASE WritePid(t)
      BY <1>1, <3>3, FileTyped DEF WritePid, OthersTyped
    <3>4. QED
      BY <1>6, <3>1, <3>2, <3>3
  <2>2. raced' \in BOOLEAN /\ UNCHANGED <<registry, serving, learning, bounds>>
    BY <1>1, <1>6 DEF OthersTyped, RemoveAged, Create, WritePid, TakeOver, Leave, Unlink
  <2>3. QED
    BY <1>1, <2>1, <2>2 DEF OthersTyped
<1>7. CASE Train(t)
  <2>1. TrainedTyped(trained')
    BY <1>1, <1>3, <1>7, TrainedGrows DEF Train, TrainCandidate, OthersTyped
  <2>2. UNCHANGED <<file, registry, serving, sample, stranded, forfeited, raced, bounds>>
    BY <1>7 DEF Train
  <2>3. QED
    BY <1>1, <2>1, <2>2 DEF OthersTyped
<1>8. CASE WriteRegistry(t)
  <2>1. registry' \in Registry
    BY <1>3, <1>8 DEF WriteRegistry, At, TaskOK, BackupOK
  <2>2. UNCHANGED <<file, pred, expl, learning, raced, bounds>>
    BY <1>8 DEF WriteRegistry
  <2>3. skewed' \subseteq Process
    BY <1>1, <1>8, <1>2 DEF WriteRegistry, OthersTyped, BootTyped
  <2>4. QED
    BY <1>1, <2>1, <2>2, <2>3 DEF OthersTyped
<1>9. CASE ExplainerError(t)
  <2>1. registry' \in Registry
    BY <1>3, <1>9 DEF ExplainerError, At, TaskOK, BackupOK
  <2>2. forfeited' \subseteq Sample /\ skewed' \subseteq Process /\ faults' \in 0 .. MaxFaults
    BY <1>1, <1>3, <1>9, <1>2, LifecycleAssumption DEF OthersTyped, ExplainerError, Fault, BootTyped
  <2>3. UNCHANGED <<file, pred, expl, sample, trained, stranded, raced, starts>>
    BY <1>9 DEF ExplainerError
  <2>4. QED
    BY <1>1, <2>1, <2>2, <2>3 DEF OthersTyped
<1>10. CASE Predictor(t) \/ Explainer(t) \/ Restore(t)
  <2>1. /\ pred' \in [Process -> Model] /\ expl' \in [Process -> Model]
        /\ skewed' \subseteq Process /\ faults' \in 0 .. MaxFaults
    <3>1. registry.production \in Model
      BY <1>1 DEF OthersTyped, Registry
    <3>2. CASE Explainer(t)
      BY <1>1, <1>3, <3>1, <3>2 DEF OthersTyped, Explainer
    <3>3. CASE LoadPredictor(t, task[t].on) /\ expl' = expl
      <4>1. CASE pred' = [pred EXCEPT ![task[t].on] = registry.production] /\ UNCHANGED <<skewed, faults>>
        BY <1>1, <3>1, <3>3, <4>1 DEF OthersTyped
      <4>2. CASE Fault /\ skewed' = skewed \union {task[t].on} /\ UNCHANGED pred
        BY <1>1, <1>3, <3>3, <4>2, LifecycleAssumption DEF OthersTyped, Fault
      <4>3. QED
        BY <3>3, <4>1, <4>2 DEF LoadPredictor
    <3>4. QED
      BY <1>10, <3>2, <3>3 DEF Predictor, Restore
  <2>2. UNCHANGED <<file, registry, learning, raced, starts>>
    BY <1>10 DEF Predictor, Explainer, Restore
  <2>3. QED
    BY <1>1, <2>1, <2>2 DEF OthersTyped
<1>11. CASE \/ Count(t) \/ Enter(t) \/ Select(t) \/ Exists(t) \/ Wait(t) \/ FindOrphan(t) \/ Backup(t) \/ TrainError(t)
            \/ Rollback(t)
  <2>1. UNCHANGED <<file, registry, serving, learning, raced, starts>>
    BY <1>11 DEF Count, Enter, Select, Exists, Wait, FindOrphan, Backup, TrainError, Rollback
  <2>2. faults' \in 0 .. MaxFaults
    <3>1. faults' = faults \/ Fault
      BY <1>11 DEF Count, Enter, Select, Exists, Wait, FindOrphan, Backup, TrainError, Rollback
    <3>2. QED
      BY <1>1, <3>1, LifecycleAssumption DEF Fault, OthersTyped
  <2>3. QED
    BY <1>1, <2>1, <2>2 DEF OthersTyped
<1>12. QED
  BY <1>4, <1>5, <1>6, <1>7, <1>8, <1>9, <1>10, <1>11 DEF TaskStep

(* The beginning of a task.                                                *)
Begun(kind, p, stage) ==
  [kind |-> kind, on |-> p, stage |-> stage, rows |-> NoRows,
   backup |-> None, next |-> None, promoted |-> FALSE]

(* A free task takes up work in a process that is up.                      *)
Begins(t, p, x) ==
  /\ StepTo(t, x) /\ x # None /\ x.on = p
  /\ \/ x.stage = "trying" /\ x.kind \in {"retrain", "rollback"}
     \/ x.stage = "counting" /\ x.kind = "auto"
     \/ x.stage = "dismissing" /\ x.kind \in Kind
  /\ x.rows = NoRows /\ x.backup = None /\ x.next = None /\ ~x.promoted

(* What begins a task.                                                     *)
Beginning(t, p) ==
  \/ AutoCheck(t, p) \/ AskStatus(t, p)
  \/ \E kind \in {"retrain", "rollback"} : Request(t, kind, p)

(* A task begins with a record of the right type.                          *)
LEMMA BegunTyped ==
  ASSUME NEW kind \in Kind, NEW p \in Process, NEW stage \in Stage, NoRows \in Rows
  PROVE  Begun(kind, p, stage) \in TaskState
BY Zenon DEF TaskState, Rows, Begun

(* Every way to begin a task is Begins.                                    *)
LEMMA StartsTyped ==
  ASSUME NEW t \in Task, NEW p \in Process,
         Beginning(t, p)
  PROVE  \E x : Begins(t, p, x)
<1>1. PICK kind, stage :
        /\ Starts(t, kind, p, stage) /\ up' = up
        /\ \/ stage = "trying" /\ kind \in {"retrain", "rollback"}
           \/ stage = "counting" /\ kind = "auto"
           \/ stage = "dismissing" /\ kind \in Kind
  <2>1. CASE AutoCheck(t, p) \/ AskStatus(t, p)
    BY <2>1 DEF AutoCheck, AskStatus, Kind
  <2>2. CASE \E kind \in {"retrain", "rollback"} : Request(t, kind, p)
    BY <2>2 DEF Request, Kind
  <2>3. QED
    BY <2>1, <2>2 DEF Beginning
<1> DEFINE x == Begun(kind, p, stage)
<1>2. NoRows \in Rows /\ DOMAIN NoRows = {}
  BY NoRowsTyped
<1>3. kind \in Kind /\ stage \in Stage
  BY <1>1 DEF Kind, Stage
<1>4. x \in TaskState
  BY <1>2, <1>3, BegunTyped
<1>5. x # None
  BY <1>4, NoneIsNoRecord
<1>6. /\ x.on = p /\ x.stage = stage /\ x.kind = kind
      /\ x.rows = NoRows /\ x.backup = None /\ x.next = None /\ ~x.promoted
  BY DEF Begun
<1>7. task' = [task EXCEPT ![t] = x] /\ p \in up
  BY <1>1 DEF Starts, Begun
<1> HIDE DEF x
<1>8. TaskOK(x)
  BY <1>1, <1>2, <1>6 DEF TaskOK, HoldingOK, BackupOK, LockStage
<1>9. StepTo(t, x)
  BY <1>1, <1>4, <1>6, <1>7, <1>8 DEF StepTo
<1>10. QED
  BY <1>1, <1>5, <1>6, <1>9 DEF Begins

(* Types and registries.                                                   *)
CoreInd == TypeInd /\ RegistriesOK

(* A task may only take up fit registries.                                 *)
LEMMA RegistriesStep ==
  ASSUME RegistriesOK, TasksTyped, NEW t \in Task, NEW x, task' = [task EXCEPT ![t] = x],
         x # None => /\ x.backup # None => RegistryOK(x.backup)
                     /\ x.next # None => RegistryOK(x.next),
         RegistryOK(registry')
  PROVE  RegistriesOK'
<1>1. /\ \A u \in Task \ {t} : task'[u] = task[u]
      /\ task'[t] = x
  BY DEF TasksTyped
<1>2. QED
  BY <1>1 DEF RegistriesOK, RegistryOK, Live

(* No step of a task makes an unfit one.                                   *)
LEMMA TaskStepRegistries ==
  ASSUME CoreInd, NEW t \in Task, TaskStep(t)
  PROVE  RegistriesOK'
<1>1. TasksTyped /\ RegistriesOK /\ TypeInd
  BY TypeParts DEF CoreInd, TypeInd
<1>2. Live(t) /\ TaskOK(task[t])
  BY <1>1, Shape DEF TypeInd
<1>3. PICK x : StepTo(t, x) /\ (x = None \/ Change(task[t], x))
  BY <1>1, Shape
<1>4. RegistryOK(registry')
  <2>1. CASE WriteRegistry(t)
    BY <1>1, <1>2, <2>1 DEF WriteRegistry, At, TaskOK, BackupOK, RegistriesOK
  <2>2. CASE ExplainerError(t)
    BY <1>1, <1>2, <2>2 DEF ExplainerError, At, TaskOK, BackupOK, RegistriesOK
  <2>3. CASE ~WriteRegistry(t) /\ ~ExplainerError(t)
    <3>1. registry' = registry
      BY <2>3 DEF TaskStep, Count, RemoveAged, Select, Evaluate, Abort, Reset, Mark, MarkError, Enter, Refused, Create,
         Exists, WritePid, Wait, TimesOut, FindOrphan, TakeOver, Leave, Backup, Train, TrainError,
         Rollback, Predictor, Explainer, Restore
    <3>2. QED
      BY <1>1, <3>1 DEF RegistriesOK
  <2>4. QED
    BY <2>1, <2>2, <2>3
<1>5. x # None => /\ x.backup # None => RegistryOK(x.backup)
                  /\ x.next # None => RegistryOK(x.next)
  BY <1>1, <1>2, <1>3 DEF Change, RegistriesOK
<1>6. QED
  BY <1>1, <1>3, <1>4, <1>5, RegistriesStep DEF StepTo

(* A task does not start or stop a process.                                *)
LEMMA BootStays ==
  ASSUME TypeInd, RegistriesOK, NEW t \in Task, TaskStep(t)
  PROVE  booting' = booting /\ up' = up /\ BootTyped'
<1>1. up' = up
  BY Shape DEF StepTo
<1>2. booting' = booting
  BY DEF TaskStep, Count, RemoveAged, Select, Evaluate, Abort, Reset, Mark, MarkError, Enter,
     Refused, Create, Exists, WritePid, Wait, TimesOut, FindOrphan, TakeOver, Leave, Backup, Train,
     TrainError, Rollback, WriteRegistry, Predictor, Explainer, ExplainerError, Restore, serving
<1>3. QED
  BY <1>1, <1>2, TypeParts DEF TypeInd, BootTyped

(* Every step preserves types and registries.                              *)
LEMMA CoreNext ==
  ASSUME CoreInd, [LNext]_lvars
  PROVE  CoreInd'
<1> USE DEF learning, serving, bounds
<1>1. TypeInd /\ RegistriesOK /\ TasksTyped /\ OthersTyped /\ BootTyped
  BY TypeParts DEF CoreInd, TypeInd
<1>2. ASSUME NEW t \in Task, TaskStep(t)
      PROVE  CoreInd'
  <2>1. PICK x : StepTo(t, x)
    BY <1>1, <1>2, Shape
  <2>2. TasksTyped' /\ \A u \in Task : Live(u)' => TaskOK(task'[u])
    BY <1>1, <2>1, StepTyped
  <2>3. OthersTyped' /\ RegistriesOK' /\ BootTyped'
    BY <1>1, <1>2, TaskStepTyped, TaskStepRegistries, BootStays DEF CoreInd
  <2>4. QED
    BY <2>2, <2>3, TypePartsNext DEF CoreInd, TypeInd
<1>3. ASSUME NEW t \in Task, NEW p \in Process,
             Beginning(t, p)
      PROVE  CoreInd'
  <2>1. PICK x : StepTo(t, x) /\ x # None /\ x.backup = None /\ x.next = None
    BY <1>3, StartsTyped DEF Begins
  <2>2. TasksTyped' /\ \A u \in Task : Live(u)' => TaskOK(task'[u])
    BY <1>1, <2>1, StepTyped
  <2>3. /\ UNCHANGED <<file, registry, serving, learning, raced, faults, up>>
        /\ starts < MaxStarts /\ starts' = starts + 1
    BY <1>3 DEF Beginning, AutoCheck, AskStatus, Request, Starts
  <2>4. OthersTyped' /\ BootTyped'
    BY <1>1, <2>3, LifecycleAssumption DEF OthersTyped, BootTyped
  <2>5. RegistriesOK'
    BY <1>1, <2>1, <2>3, RegistriesStep DEF StepTo, RegistriesOK
  <2>6. QED
    BY <2>2, <2>4, <2>5, TypePartsNext DEF CoreInd, TypeInd
<1>4. ASSUME NEW p \in Process, Crash(p)
      PROVE  CoreInd'
  <2> DEFINE dying == {t \in Task : Live(t) /\ task[t].on = p}
  <2>1. /\ up' = up \ {p} /\ task' = [t \in Task |-> IF t \in dying THEN None ELSE task[t]]
        /\ stranded' = stranded \union UNION {Holds(t) : t \in dying}
        /\ file' = IF file # None /\ file.by = p THEN [file EXCEPT !.says = "dead"] ELSE file
        /\ faults < MaxFaults /\ faults' = faults + 1
        /\ UNCHANGED <<registry, serving, sample, trained, forfeited, raced, starts>>
    BY <1>4 DEF Crash, Fault
  <2>2. \A t \in Task : Live(t)' => Live(t) /\ task'[t] = task[t] /\ task[t].on # p
    BY <2>1 DEF Live
  <2>3. TasksTyped' /\ \A t \in Task : Live(t)' => TaskOK(task'[t])
    <3>1. task' \in [Task -> TaskState \union {None}]
      BY <1>1, <2>1 DEF TasksTyped
    <3>2. \A t \in Task : Live(t)' => task'[t].on \in up'
      BY <1>1, <2>1, <2>2 DEF TasksTyped
    <3>3. \A t \in Task : Live(t)' => TaskOK(task'[t])
      BY <1>1, <2>2 DEF TypeInd
    <3>4. QED
      BY <1>1, <2>1, <3>1, <3>2, <3>3 DEF TasksTyped, TaskOK, BackupOK
  <2>4. stranded' \subseteq Sample /\ file' \in File \union {None} /\ faults' \in 0 .. MaxFaults
    <3>1. \A t \in dying : Holds(t) \subseteq Sample
      BY <1>1, LiveTyped
    <3>2. file' \in File \union {None}
      BY <1>1, <2>1, FileTyped DEF OthersTyped
    <3>3. QED
      BY <1>1, <2>1, <3>1, <3>2, LifecycleAssumption DEF OthersTyped
  <2>5. OthersTyped' /\ BootTyped'
    BY <1>1, <2>1, <2>4 DEF OthersTyped, BootTyped
  <2>6. RegistriesOK'
    BY <1>1, <2>1, <2>2 DEF RegistriesOK
  <2>7. QED
    BY <2>3, <2>5, <2>6, TypePartsNext DEF CoreInd, TypeInd
<1>5. ASSUME UNCHANGED <<task, up, booting, registry>>, OthersTyped'
      PROVE  CoreInd'
  <2>1. TasksTyped' /\ \A t \in Task : Live(t)' => TaskOK(task'[t])
    BY <1>1, <1>5 DEF TasksTyped, TypeInd, Live
  <2>2. RegistriesOK'
    BY <1>1, <1>5 DEF RegistriesOK, Live
  <2>3. BootTyped'
    BY <1>1, <1>5 DEF BootTyped
  <2>4. QED
    BY <1>5, <2>1, <2>2, <2>3, TypePartsNext DEF CoreInd, TypeInd
<1>6. ASSUME NEW s \in Sample, Verify(s)
      PROVE  CoreInd'
  <2>1. PICK status \in {"VERIFIED", "UNUSABLE"} : sample' = [sample EXCEPT ![s].status = status]
    BY <1>6 DEF Verify
  <2>2. [sample[s] EXCEPT !.status = status] \in SampleRow
    BY <1>1, SamplesTyped, RowTyped DEF OthersTyped, Status
  <2>3. sample' \in [Sample -> SampleRow]
    BY <1>1, <2>1, <2>2, SamplesTyped DEF OthersTyped, SampleTyped
  <2>4. SampleTyped(sample')
    BY <2>3 DEF SampleTyped, SampleRow, Status
  <2>5. OthersTyped'
    BY <1>1, <1>6, <2>4 DEF OthersTyped, Verify
  <2>6. QED
    BY <1>5, <1>6, <2>5 DEF Verify
<1>7. ASSUME NEW p \in Process, Boot(p) \/ Ready(p)
      PROVE  CoreInd'
  <2>1. UNCHANGED <<task, registry, file, learning, raced, starts>> /\ up' \in {up, up \union {p}}
    BY <1>7 DEF Boot, Ready
  <2>2. TasksTyped' /\ \A t \in Task : Live(t)' => TaskOK(task'[t])
    BY <1>1, <2>1 DEF TasksTyped, TypeInd, Live
  <2>3. RegistriesOK'
    BY <1>1, <2>1 DEF RegistriesOK, Live
  <2>4. registry.production \in Model /\ 0 \in Model
    BY <1>1, LifecycleAssumption DEF OthersTyped, Registry, Model
  <2>5. /\ pred' \in [Process -> Model] /\ expl' \in [Process -> Model]
        /\ skewed' \subseteq Process /\ faults' \in 0 .. MaxFaults /\ BootTyped'
    <3>1. CASE Boot(p)
      BY <1>1, <3>1, <2>4 DEF OthersTyped, BootTyped, Boot
    <3>2. CASE Ready(p)
      <4>1. /\ pred' \in [Process -> Model] /\ expl' \in [Process -> Model]
            /\ skewed' \subseteq Process /\ BootTyped'
        BY <1>1, <3>2, <2>4 DEF OthersTyped, BootTyped, Ready
      <4>2. faults' \in 0 .. MaxFaults
        BY <1>1, <3>2, LifecycleAssumption DEF OthersTyped, Ready, Fault
      <4>3. QED
        BY <4>1, <4>2
    <3>3. QED
      BY <1>7, <3>1, <3>2
  <2>6. OthersTyped'
    BY <1>1, <2>1, <2>5 DEF OthersTyped
  <2>7. QED
    BY <2>2, <2>3, <2>5, <2>6, TypePartsNext DEF CoreInd, TypeInd
<1>8. CASE Age
  <2>1. file' \in File
    BY <1>1, <1>8, FileTyped DEF Age, OthersTyped
  <2>2. OthersTyped'
    BY <1>1, <1>8, <2>1 DEF Age, OthersTyped
  <2>3. QED
    BY <1>5, <1>8, <2>2 DEF Age
<1>9. CASE UNCHANGED lvars
  <2>1. OthersTyped'
    BY <1>1, <1>9 DEF lvars, OthersTyped
  <2>2. QED
    BY <1>5, <1>9, <2>1 DEF lvars
<1>10. QED
  BY <1>2, <1>3, <1>4, <1>6, <1>7, <1>8, <1>9 DEF LNext, TaskStep, Beginning

-----------------------------------------------------------------------------
(* The lock.                                                               *)

(* One task of a process at a time is under its asyncio lock.              *)
Exclusive(t, u) ==
  /\ Live(t) /\ UnderProcess(task[t])
  /\ Live(u) /\ UnderProcess(task[u])
  /\ task[t].on = task[u].on
  => t = u

(* As long as no living process lost its file, whoever is inside has       *)
(* created the file that is there.                                         *)
HasFile(t) == Live(t) /\ (UnderFile(task[t]) \/ task[t].stage = "created")

(* The lock file on disk is the one this task made.                        *)
FileHeld(t) ==
  HasFile(t) => /\ file # None /\ file.by = task[t].on
                /\ file.says = IF task[t].stage = "created" THEN "nothing" ELSE "pid"

(* A process in which is_locked is about to unlink has no lock.            *)
Quiet(t) == Live(t) /\ task[t].stage \in Removing => ~Locked(task[t].on)

LockInd ==
  /\ \A t, u \in Task : Exclusive(t, u)
  /\ \A t \in Task : Quiet(t)
  /\ ~raced => \A t \in Task : FileHeld(t)

(* The lock file is taken under the asyncio lock.                          *)
LEMMA FileIsUnderProcess ==
  ASSUME NEW t \in Task, HasFile(t)
  PROVE  UnderProcess(task[t])
BY DEF HasFile, UnderProcess, InProcess

(* As long as the lock has not been raced one task has it.                 *)
LEMMA OneHasTheFile ==
  ASSUME LockInd, ~raced, NEW t \in Task, NEW u \in Task, HasFile(t), HasFile(u)
  PROVE  t = u
<1>1. task[t].on = task[u].on /\ UnderProcess(task[t]) /\ UnderProcess(task[u])
  BY FileIsUnderProcess DEF LockInd, FileHeld
<1>2. QED
  BY <1>1 DEF LockInd, Exclusive, HasFile

(* A step of one task that is under the lock already or finds it free.     *)
LEMMA ExclusiveStep ==
  ASSUME LockInd, TasksTyped, NEW t \in Task, NEW x, task' = [task EXCEPT ![t] = x],
         x # None /\ UnderProcess(x)
           => \/ Live(t) /\ UnderProcess(task[t]) /\ x.on = task[t].on
              \/ ~Locked(x.on)
  PROVE  \A u, v \in Task : Exclusive(u, v)'
<1>1. /\ \A u \in Task \ {t} : task'[u] = task[u]
      /\ task'[t] = x
  BY DEF TasksTyped
<1>2. ASSUME NEW u \in Task \ {t}, Live(u), UnderProcess(task[u]), x # None, UnderProcess(x)
      PROVE  x.on # task[u].on
  <2>1. CASE Live(t) /\ UnderProcess(task[t]) /\ x.on = task[t].on
    BY <1>2, <2>1 DEF LockInd, Exclusive
  <2>2. CASE ~Locked(x.on)
    BY <1>2, <2>2, UnderLocks
  <2>3. QED
    BY <1>2, <2>1, <2>2
<1>3. \A u \in Task \ {t} : Live(u)' /\ UnderProcess(task'[u]) <=> Live(u) /\ UnderProcess(task[u])
  BY <1>1 DEF Live
<1>4. SUFFICES ASSUME NEW u \in Task, NEW v \in Task,
                      Live(u)', UnderProcess(task'[u]), Live(v)', UnderProcess(task'[v]),
                      task'[u].on = task'[v].on
               PROVE  u = v
  BY DEF Exclusive, UnderProcess, UnderFile
<1>5. CASE u = t /\ v # t
  BY <1>1, <1>2, <1>3, <1>4, <1>5 DEF Live
<1>6. CASE v = t /\ u # t
  BY <1>1, <1>2, <1>3, <1>4, <1>6 DEF Live
<1>7. CASE u # t /\ v # t
  BY <1>1, <1>3, <1>4, <1>7 DEF LockInd, Exclusive
<1>8. QED
  BY <1>5, <1>6, <1>7

(* Nobody has a file that is not there or has been left.                   *)
LEMMA NobodyHas ==
  ASSUME LockInd, ~raced, file = None \/ file.says \in {"dead", "aged"}
  PROVE  \A t \in Task : ~HasFile(t)
BY DEF LockInd, FileHeld

(* A step of one task is made in a process that nobody occupies; it comes  *)
(* to the unlinking of is_locked without a lock in its process.            *)
LEMMA QuietStep ==
  ASSUME LockInd, TasksTyped, NEW t \in Task, NEW p, NEW x, task' = [task EXCEPT ![t] = x],
         ~Occupied(p, Task \ {t}),
         Live(t) => task[t].on = p,
         x # None => x.on = p,
         x # None /\ x.stage \in Removing => ~Locked(p) /\ ~UnderProcess(x)
  PROVE  \A u \in Task : Quiet(u)'
<1>1. /\ \A u \in Task \ {t} : task'[u] = task[u]
      /\ task'[t] = x
  BY DEF TasksTyped
<1>2. SUFFICES ASSUME NEW u \in Task, Live(u)', task'[u].stage \in Removing,
                      NEW v \in Task, Live(v)', task'[v].on = task'[u].on,
                      UnderProcess(task'[v])
               PROVE  FALSE
  <2>1. \A q : Locked(q)' <=> \E v \in Task : /\ Live(v)' /\ task'[v].on = q
                                               /\ UnderProcess(task'[v])
    BY DEF Inside, Locked, UnderFile, UnderProcess
  <2>2. QED
    BY <1>2, <2>1 DEF Quiet
<1>3. CASE u = t
  <2>1. x # None /\ x.stage \in Removing /\ x.on = p
    BY <1>1, <1>2, <1>3 DEF Live
  <2>2. v # t
    BY <1>1, <1>2, <2>1
  <2>3. Live(v) /\ task[v].on = p /\ UnderProcess(task[v])
    BY <1>1, <1>2, <1>3, <2>1, <2>2 DEF Live
  <2>4. QED
    BY <2>1, <2>3, UnderLocks
<1>4. CASE u # t
  <2>1. Live(u) /\ task[u].stage \in Removing /\ task'[u] = task[u]
    BY <1>1, <1>2, <1>4 DEF Live
  <2>2. task[u].on # p
    BY <1>4, <2>1 DEF Occupied
  <2>3. v # t
    BY <1>1, <1>2, <2>1, <2>2 DEF Live
  <2>4. Live(v) /\ task[v].on = task[u].on /\ UnderProcess(task[v])
    BY <1>1, <1>2, <2>1, <2>3 DEF Live
  <2>5. QED
    BY <2>1, <2>4, UnderLocks DEF LockInd, Quiet
<1>5. QED
  BY <1>3, <1>4

(* Every step of a task is made where nobody occupies its process.         *)
LEMMA StepIsFree ==
  ASSUME NEW t \in Task, TaskStep(t)
  PROVE  ~Occupied(task[t].on, Task \ {t})
BY DEF TaskStep, Count, RemoveAged, Select, Evaluate, Abort, Reset, Mark, MarkError, Enter, Refused,
   Create, Exists, WritePid, Wait, TimesOut, FindOrphan, TakeOver, Leave, Backup, Train,
   TrainCandidate, TrainError, Rollback, WriteRegistry, Predictor, Explainer, ExplainerError,
   Restore, At

(* A race is never undone.                                                 *)
LEMMA RacedStays ==
  ASSUME CoreInd, NEW t \in Task, TaskStep(t), ~raced'
  PROVE  ~raced
<1>1. raced \in BOOLEAN
  BY TypeParts DEF CoreInd, TypeInd, OthersTyped
<1>2. CASE TakeOver(t) \/ RemoveAged(t)
  BY <1>1, <1>2 DEF TakeOver, RemoveAged, Unlink
<1>3. CASE ~(TakeOver(t) \/ RemoveAged(t))
  BY <1>3 DEF TaskStep, Count, RemoveAged, Select, Evaluate, Abort, Reset, Mark, MarkError, Enter, Refused,
     Create, Exists, WritePid, Wait, TimesOut, FindOrphan, Leave, Backup, Train,
     TrainError, Rollback, WriteRegistry, Predictor, Explainer, ExplainerError, Restore
<1>4. QED
  BY <1>2, <1>3

(* A step of a task preserves the lock discipline.                         *)
LEMMA TaskStepLock ==
  ASSUME CoreInd, LockInd, NEW t \in Task, TaskStep(t)
  PROVE  LockInd'
<1>1. TypeInd /\ RegistriesOK /\ TasksTyped /\ OthersTyped
  BY TypeParts DEF CoreInd, TypeInd
<1>2. Live(t)
  BY <1>1, Shape
<1>3. PICK x : StepTo(t, x) /\ (x = None \/ Change(task[t], x))
  BY <1>1, Shape
<1>4. /\ \A u \in Task \ {t} : task'[u] = task[u]
      /\ task'[t] = x /\ task' = [task EXCEPT ![t] = x]
  BY <1>1, <1>3 DEF StepTo, TasksTyped
<1>5. x # None => x.on = task[t].on
  BY <1>3 DEF Change
<1>6. ASSUME x # None, task[t].stage = "entering"
       PROVE  Enter(t)
  <2>1. ~Refused(t)
    BY <1>1, <1>4, <1>6 DEF Refused, Ends, TasksTyped
  <2>2. QED
    BY <1>6, <2>1 DEF TaskStep, Count, RemoveAged, Select, Evaluate, Abort, Reset, Mark, MarkError,
       Create, Exists, WritePid, Wait, TimesOut, FindOrphan, TakeOver, Leave, Backup, Train,
       TrainCandidate, TrainError, Rollback, WriteRegistry, Predictor, Explainer, ExplainerError,
       Restore, At
<1>7. ASSUME x # None, UnderProcess(x), ~UnderProcess(task[t])
      PROVE  ~Locked(x.on)
  <2>1. task[t].stage = "entering" \/ task[t].stage = "clearing"
    BY <1>3, <1>7 DEF Change
  <2>2. CASE task[t].stage = "clearing"
    BY <1>2, <1>5, <1>7, <2>2 DEF LockInd, Quiet, Removing
  <2>3. CASE task[t].stage = "entering"
    BY <1>5, <1>7, <1>6, <2>3 DEF Enter, IsLocked
  <2>4. QED
    BY <2>1, <2>2, <2>3
<1>8. \A u, v \in Task : Exclusive(u, v)'
  BY <1>1, <1>2, <1>4, <1>5, <1>7, ExclusiveStep
<1>9. ASSUME ~raced'
      PROVE  \A u \in Task : FileHeld(u)'
  <2>1. ~raced /\ \A u \in Task : FileHeld(u)
    BY <1>9, RacedStays DEF LockInd
  <2>2. \A u \in Task \ {t} : HasFile(u)' <=> HasFile(u)
    BY <1>4 DEF HasFile, Live, UnderFile
  <2>3. CASE RemoveAged(t) \/ TakeOver(t) \/ Leave(t)
    <3>1. \A u \in Task \ {t} : ~HasFile(u)
      <4>1. CASE RemoveAged(t) \/ TakeOver(t)
        <5>1. file = None \/ file.says \in {"dead", "aged"}
          BY <1>1, <1>9, <4>1 DEF RemoveAged, TakeOver, Unlink, OthersTyped, File
        <5>2. QED
          BY <2>1, <5>1, NobodyHas
      <4>2. CASE Leave(t)
        <5>1. HasFile(t)
          BY <4>2 DEF Leave, At, HasFile, UnderFile, InFile
        <5>2. QED
          BY <2>1, <5>1, OneHasTheFile
      <4>3. QED
        BY <2>3, <4>1, <4>2
    <3>2. ~HasFile(t)'
      <4>1. x = None \/ x.stage \in {"trying", "counting", "entering"}
        <5>1. CASE Leave(t)
          BY <1>1, <1>4, <5>1 DEF Leave, Ends, TasksTyped
        <5>2. CASE RemoveAged(t) \/ TakeOver(t)
          <6>1. Ends(t) \/ \E stage \in {"trying", "counting", "entering"} : GoTo(t, stage)
            BY <5>2 DEF RemoveAged, TakeOver
          <6>2. CASE Ends(t)
            BY <1>1, <1>4, <6>2 DEF Ends, TasksTyped
          <6>3. ASSUME NEW stage \in {"trying", "counting", "entering"}, GoTo(t, stage)
                PROVE  x.stage = stage
            <7>1. task[t] \in TaskState /\ x = [task[t] EXCEPT !.stage = stage]
              BY <1>1, <1>2, <1>4, <6>3, LiveTyped DEF GoTo, TasksTyped
            <7>2. QED
              BY <7>1 DEF TaskState
          <6>4. QED
            BY <6>1, <6>2, <6>3
        <5>3. QED
          BY <2>3, <5>1, <5>2
      <4>2. QED
        BY <1>4, <4>1 DEF HasFile, Live, UnderFile, InFile
    <3>3. QED
      BY <2>2, <3>1, <3>2 DEF FileHeld
  <2>4. CASE Create(t)
    <3>1. \A u \in Task : ~HasFile(u)
      BY <2>1, <2>4, NobodyHas DEF Create
    <3>2. x = [task[t] EXCEPT !.stage = "created"] /\ task[t] \in TaskState
      BY <1>1, <1>2, <1>4, <2>4, LiveTyped DEF Create, GoTo, TasksTyped
    <3>3. x.stage = "created"
      BY <3>2 DEF TaskState
    <3>4. file' = [by |-> task[t].on, says |-> "nothing"]
      BY <2>4 DEF Create
    <3>5. file' # None /\ file'.by = task[t].on /\ file'.says = "nothing"
      <4>1. file' \in File
        BY <1>1, <1>2, <3>4, LiveTyped DEF File
      <4>2. QED
        BY <3>4, <4>1, NoneIsNoRecord
    <3>6. FileHeld(t)'
      BY <1>4, <1>5, <3>3, <3>5 DEF FileHeld, HasFile, Live, UnderFile
    <3>7. QED
      BY <2>2, <3>1, <3>6 DEF FileHeld
  <2>5. CASE WritePid(t)
    <3>1. HasFile(t) /\ task[t].stage = "created"
      BY <2>5 DEF WritePid, At, HasFile
    <3>2. \A u \in Task \ {t} : ~HasFile(u)
      BY <2>1, <3>1, OneHasTheFile
    <3>3. file # None /\ file.by = task[t].on
      BY <2>1, <3>1 DEF FileHeld
    <3>4. file \in File /\ file' = [file EXCEPT !.says = "pid"]
      BY <1>1, <2>5, <3>3 DEF WritePid, OthersTyped
    <3>5. file' \in File /\ file'.by = task[t].on /\ file'.says = "pid"
      BY <3>3, <3>4, FileTyped
    <3>6. file' # None
      BY <3>5, NoneIsNoRecord
    <3>7. x = [task[t] EXCEPT !.stage = "inside"] /\ task[t] \in TaskState
      BY <1>1, <1>2, <1>4, <2>5, LiveTyped DEF WritePid, GoTo, TasksTyped
    <3>8. x.stage = "inside"
      BY <3>7 DEF TaskState
    <3>9. FileHeld(t)'
      BY <1>4, <1>5, <3>5, <3>6, <3>8 DEF FileHeld, HasFile, Live
    <3>10. QED
      BY <2>2, <3>2, <3>9 DEF FileHeld
  <2>6. CASE ~(RemoveAged(t) \/ TakeOver(t) \/ Leave(t) \/ Create(t) \/ WritePid(t))
    <3>1. file' = file /\ task[t].stage # "created"
      BY <2>6 DEF TaskStep, Count, Enter, Select, Evaluate, Abort, Reset, Mark, MarkError, Refused,
         Exists, Wait, TimesOut, FindOrphan, Backup, Train, TrainCandidate, TrainError, Rollback,
         WriteRegistry, Predictor, Explainer, ExplainerError, Restore, At
    <3>2. ASSUME x # None, x.stage = "created"
          PROVE  FALSE
      <4>1. task[t].stage = "trying"
        BY <1>3, <3>2 DEF Change
      <4>2. Exists(t)
        BY <2>6, <4>1 DEF TaskStep, Count, Enter, Select, Evaluate, Abort, Reset, Mark, MarkError, Refused,
           Wait, TimesOut, FindOrphan, Backup, Train, TrainCandidate, TrainError, Rollback,
           WriteRegistry, Predictor, Explainer, ExplainerError, Restore, At
      <4>3. x = [task[t] EXCEPT !.stage = "looking"] /\ task[t] \in TaskState
        BY <1>1, <1>2, <1>4, <4>2, LiveTyped DEF Exists, GoTo, TasksTyped
      <4>4. x.stage = "looking"
        BY <4>3 DEF TaskState
      <4>5. QED
        BY <3>2, <4>4
    <3>3. HasFile(t)' => HasFile(t) /\ x.on = task[t].on /\ x # None /\ x.stage # "created"
      BY <1>2, <1>3, <1>4, <3>1, <3>2 DEF Change, HasFile, Live
    <3>4. FileHeld(t)'
      BY <1>4, <2>1, <3>1, <3>3 DEF FileHeld
    <3>5. QED
      BY <1>4, <2>1, <2>2, <3>1, <3>4 DEF FileHeld
  <2>7. QED
    BY <2>3, <2>4, <2>5, <2>6
<1>10. \A u \in Task : Quiet(u)'
  <2>1. ASSUME x # None, x.stage \in Removing
        PROVE  ~Locked(task[t].on) /\ ~UnderProcess(x)
    <3>1. Enter(t)
      BY <1>3, <1>6, <2>1 DEF Change
    <3>2. ~UnderProcess(x)
      BY <2>1 DEF Removing, UnderProcess, UnderFile, InProcess, InFile
    <3>3. QED
      BY <3>1, <3>2 DEF Enter, IsLocked
  <2>2. ~Occupied(task[t].on, Task \ {t})
    BY StepIsFree
  <2>3. QED
    BY <1>1, <1>4, <1>5, <2>1, <2>2, QuietStep
<1>11. QED
  BY <1>8, <1>9, <1>10 DEF LockInd

(* So does every step.                                                     *)
LEMMA LockNext ==
  ASSUME CoreInd, LockInd, [LNext]_lvars
  PROVE  LockInd'
<1>1. TypeInd /\ TasksTyped /\ OthersTyped
  BY TypeParts DEF CoreInd, TypeInd
<1>2. ASSUME NEW t \in Task, TaskStep(t)
      PROVE  LockInd'
  BY <1>2, TaskStepLock
<1>3. ASSUME NEW t \in Task, NEW p \in Process,
             Beginning(t, p)
      PROVE  LockInd'
  <2>1. PICK x : Begins(t, p, x)
    BY <1>3, StartsTyped
  <2>2. /\ ~Locked(p) /\ ~Occupied(p, Task) /\ ~Live(t)
        /\ raced' = raced /\ file' = file
    BY <1>3 DEF Beginning, AutoCheck, AskStatus, Request, IsLocked, Starts
  <2>3. /\ task' = [task EXCEPT ![t] = x] /\ x.on = p
        /\ x.stage \in {"trying", "counting", "dismissing"}
    BY <2>1 DEF Begins, StepTo
  <2>4. \A u, v \in Task : Exclusive(u, v)'
    BY <1>1, <2>2, <2>3, ExclusiveStep
  <2>5. ASSUME ~raced', NEW u \in Task
        PROVE  FileHeld(u)'
    <3>1. FileHeld(u)
      BY <2>2, <2>5 DEF LockInd
    <3>2. task'[u] = IF u = t THEN x ELSE task[u]
      BY <1>1, <2>3 DEF TasksTyped
    <3>3. CASE u = t
      BY <2>3, <3>2, <3>3 DEF FileHeld, HasFile, Live, UnderFile, InFile
    <3>4. CASE u # t
      BY <2>2, <3>1, <3>2, <3>4 DEF FileHeld, HasFile, Live, UnderFile
    <3>5. QED
      BY <3>3, <3>4
  <2>6. \A u \in Task : Quiet(u)'
    <3>1. x.stage \in Removing => ~UnderProcess(x)
      BY DEF Removing, UnderProcess, UnderFile, InProcess, InFile
    <3>2. ~Occupied(p, Task \ {t})
      BY <2>2 DEF Occupied
    <3>3. QED
      BY <1>1, <2>2, <2>3, <3>1, <3>2, QuietStep
  <2>7. QED
    BY <2>4, <2>5, <2>6 DEF LockInd
<1>4. ASSUME NEW p \in Process, Crash(p)
      PROVE  LockInd'
  <2> DEFINE dying == {t \in Task : Live(t) /\ task[t].on = p}
  <2>1. /\ task' = [t \in Task |-> IF t \in dying THEN None ELSE task[t]]
        /\ file' = IF file # None /\ file.by = p THEN [file EXCEPT !.says = "dead"] ELSE file
        /\ raced' = raced
    BY <1>4 DEF Crash
  <2>2. \A t \in Task : Live(t)' => Live(t) /\ task'[t] = task[t] /\ task[t].on # p
    BY <2>1 DEF Live
  <2>3. \A u, v \in Task : Exclusive(u, v)'
    BY <2>2 DEF LockInd, Exclusive
  <2>4. ASSUME ~raced', NEW u \in Task, HasFile(u)'
        PROVE  FileHeld(u)'
    <3>1. HasFile(u) /\ task'[u] = task[u] /\ task[u].on # p
      BY <2>2, <2>4 DEF HasFile
    <3>2. file # None /\ file.by = task[u].on
          /\ file.says = IF task[u].stage = "created" THEN "nothing" ELSE "pid"
      BY <2>1, <2>4, <3>1 DEF LockInd, FileHeld
    <3>3. file' = file
      BY <2>1, <3>1, <3>2
    <3>4. QED
      BY <3>1, <3>2, <3>3 DEF FileHeld
  <2>5. ASSUME NEW u \in Task
        PROVE  Quiet(u)'
    <3>1. \A q : Locked(q)' => Locked(q)
      BY <2>2 DEF Locked, Inside
    <3>2. QED
      BY <2>2, <3>1 DEF LockInd, Quiet
  <2>6. QED
    BY <2>3, <2>4, <2>5 DEF LockInd, FileHeld
<1>5. CASE Age
  <2>1. UNCHANGED <<task, raced>> /\ (~raced => \A u \in Task : ~HasFile(u))
    BY <1>5, NobodyHas DEF Age
  <2>2. QED
    BY <2>1 DEF LockInd, Exclusive, FileHeld, HasFile, Live, Quiet, Locked, Inside
<1>6. ASSUME UNCHANGED <<task, file, raced>>
      PROVE  LockInd'
  BY <1>6 DEF LockInd, Exclusive, FileHeld, HasFile, Live, Quiet, Locked, Inside
<1>7. ASSUME NEW s \in Sample, Verify(s)
      PROVE  LockInd'
  BY <1>6, <1>7 DEF Verify
<1>8. ASSUME NEW p \in Process, Boot(p) \/ Ready(p)
      PROVE  LockInd'
  BY <1>6, <1>8 DEF Boot, Ready
<1>9. CASE UNCHANGED lvars
  BY <1>6, <1>9 DEF lvars
<1>10. QED
  BY <1>2, <1>3, <1>4, <1>5, <1>7, <1>8, <1>9 DEF LNext, TaskStep, Beginning

-----------------------------------------------------------------------------
(* The initial states.                                                     *)

(* The two registries a run begins with are fit.                           *)
LEMMA InitialRegistries ==
  /\ RegistryOK(Baseline) /\ RegistryOK(RolledBack)
  /\ Baseline \in Registry /\ RolledBack \in Registry
  /\ TrainedTyped(<<{}>>) /\ TrainedTyped(<<{}, {}>>)
<1>1. 0 \in Model /\ 1 \in Model /\ 2 \in Model
  BY LifecycleAssumption DEF Model
<1>2. <<0>> \in Seq(Model) /\ <<0, 1>> \in Seq(Model)
  BY <1>1
<1>3. RegistryOK(Baseline)
  BY <1>1, <1>2 DEF Baseline, RegistryOK
<1>4. RegistryOK(RolledBack)
  BY <1>1, <1>2 DEF RolledBack, RegistryOK
<1>5. <<{}>> \in [1 .. 1 -> SUBSET Sample] /\ <<{}, {}>> \in [1 .. 2 -> SUBSET Sample]
  OBVIOUS
<1>6. Baseline \in Registry /\ RolledBack \in Registry
  BY <1>1, <1>2 DEF Baseline, RolledBack, Registry
<1>7. QED
  BY <1>1, <1>3, <1>4, <1>5, <1>6 DEF TrainedTyped

(* The initial states satisfy types, registries and locks.                 *)
LEMMA InitialCore ==
  ASSUME LInit
  PROVE  CoreInd /\ LockInd
<1>1. RegistryOK(registry) /\ registry \in Registry /\ TrainedTyped(trained)
  BY InitialRegistries DEF LInit
<1>2. \A t \in Task : ~Live(t)
  BY DEF LInit, Live
<1>3. TasksTyped
  BY <1>2 DEF LInit, TasksTyped
<1>4. SampleTyped(sample)
  BY LifecycleAssumption DEF LInit, SampleTyped
<1>5. OthersTyped
  <2>1. registry.production \in Model
    BY <1>1 DEF Registry
  <2>2. pred \in [Process -> Model] /\ expl \in [Process -> Model]
    BY <2>1 DEF LInit
  <2>3. starts \in 0 .. MaxStarts /\ faults \in 0 .. MaxFaults
    BY LifecycleAssumption DEF LInit
  <2>4. /\ file \in File \union {None} /\ raced \in BOOLEAN
        /\ stranded \subseteq Sample /\ forfeited \subseteq Sample /\ skewed \subseteq Process
    BY DEF LInit
  <2>5. QED
    BY <1>1, <1>4, <2>2, <2>3, <2>4 DEF OthersTyped
<1>6. BootTyped
  BY DEF LInit, BootTyped
<1>7. CoreInd
  BY <1>1, <1>2, <1>3, <1>5, <1>6, TypeParts DEF CoreInd, TypeInd, RegistriesOK
<1>8. LockInd
  BY <1>2 DEF LockInd, Exclusive, FileHeld, HasFile, Quiet
<1>9. QED
  BY <1>7, <1>8

(* Types, registries and locks hold in every reachable state.              *)
LEMMA CoreAndLock == LSpec => [](CoreInd /\ LockInd)
<1>1. LInit => CoreInd /\ LockInd
  BY InitialCore
<1>2. CoreInd /\ LockInd /\ [LNext]_lvars => (CoreInd /\ LockInd)'
  BY CoreNext, LockNext
<1>3. QED
  BY <1>1, <1>2, PTL DEF LSpec

(* Every variable of the lifecycle keeps its type, for any number of       *)
(* processes, tasks and samples (model_lifecycle.py, learning.py).         *)
THEOREM LifecycleTypeCorrect == LSpec => []LTypeOK
<1>1. CoreInd /\ LockInd => LTypeOK
  BY DEF CoreInd, TypeInd
<1>2. QED
  BY <1>1, CoreAndLock, PTL

(* Two tasks are under the lifecycle lock at once only if the lock file of *)
(* a living process has been unlinked, by a take-over or by is_locked,     *)
(* which finds a file aged and unlinks whatever has its name by then       *)
(* (model_lifecycle.py:72-73, 89-99).                                      *)
THEOREM MutualExclusionTheorem == LSpec => []OnlyUnlinkingBreaksTheLock
<1>1. CoreInd /\ LockInd => OnlyUnlinkingBreaksTheLock
  <2>1. SUFFICES ASSUME LockInd, ~raced, NEW t \in Task, NEW u \in Task, Inside(t), Inside(u)
                 PROVE  t = u
    BY DEF OnlyUnlinkingBreaksTheLock
  <2>2. HasFile(t) /\ HasFile(u)
    BY <2>1, UnderLocks DEF HasFile
  <2>3. QED
    BY <2>1, <2>2, OneHasTheFile
<1>2. QED
  BY <1>1, CoreAndLock, PTL

(* The production model is never demoted or without a recorded checksum,   *)
(* with or without mutual exclusion, as long as each registry is written   *)
(* whole (execute_model_rollback, promote_candidate_to_registry).          *)
THEOREM ChampionTheorem == LSpec => []ChampionIsFit
<1>1. CoreInd /\ LockInd => ChampionIsFit
  BY DEF CoreInd, RegistriesOK, RegistryOK, ChampionIsFit
<1>2. QED
  BY <1>1, CoreAndLock, PTL

-----------------------------------------------------------------------------
(* The samples.                                                            *)

(* From its evaluation to its outcome a sample is with its task.           *)
KeepStage == {"aborting", "entering", "clearing", "trying", "looking", "unlinking", "created", "inside",
              "training", "writing", "resetting", "marking"}

(* A task that will mark the sample or give it back.                       *)
Keeps(t, s) == Live(t) /\ s \in Holds(t) /\ task[t].stage \in KeepStage

SampleInd ==
  \A s \in Sample : sample[s].status = "EVALUATED" => s \in stranded \/ \E t \in Task : Keeps(t, s)

(* A restored sample that is still EVALUATED was not given back.           *)
LEMMA RestoredStatus ==
  ASSUME SampleTyped(sample), NEW S, NEW s \in Sample, Restored(S)[s].status = "EVALUATED"
  PROVE  sample[s].status = "EVALUATED" /\ s \notin S
<1>1. sample[s] \in SampleRow
  BY SamplesTyped
<1>2. [sample[s] EXCEPT !.status = "VERIFIED",
                        !.attempts = IF @ > 0 THEN @ - 1 ELSE 0].status = "VERIFIED"
  BY <1>1, RowFields DEF Status
<1>3. QED
  BY <1>2 DEF Restored

(* Where a status EVALUATED comes from.                                    *)
LEMMA EvaluatedFrom ==
  ASSUME CoreInd, NEW t \in Task, TaskStep(t), NEW s \in Sample,
         sample'[s].status = "EVALUATED"
  PROVE  /\ \/ sample[s].status = "EVALUATED"
            \/ Evaluate(t) /\ s \in Holds(t)
         /\ Abort(t) \/ Reset(t) \/ Mark(t) => s \notin Holds(t)
<1>1. TasksTyped /\ OthersTyped /\ Live(t)
  BY TypeParts, Shape DEF CoreInd, TypeInd
<1>2. CASE Abort(t) \/ Reset(t)
  <2>1. sample' = Restored(Holds(t)) /\ ~Evaluate(t) /\ ~Mark(t)
    BY <1>2 DEF Abort, Reset, Evaluate, Mark, At
  <2>2. QED
    BY <1>1, <2>1, RestoredStatus DEF OthersTyped
<1>3. CASE Mark(t)
  <2>1. task[t].promoted \in BOOLEAN /\ sample[s] \in SampleRow
    BY <1>1, LiveTyped, SamplesTyped DEF OthersTyped
  <2>2. Marked(sample[s], task[t].promoted).status # "EVALUATED"
    BY <2>1, MarkedTyped
  <2>3. s \notin Holds(t) /\ sample'[s] = sample[s]
    BY <1>3, <2>2 DEF Mark
  <2>4. QED
    BY <2>3
<1>4. CASE Evaluate(t)
  <2>1. sample' = Evaluated(t) /\ ~Abort(t) /\ ~Reset(t) /\ ~Mark(t)
    BY <1>4 DEF Evaluate, Abort, Reset, Mark, At
  <2>2. QED
    BY <1>4, <2>1 DEF Evaluated
<1>5. CASE ~Abort(t) /\ ~Reset(t) /\ ~Mark(t) /\ ~Evaluate(t)
  <2>1. sample' = sample
    BY <1>5 DEF TaskStep, Count, RemoveAged, Select, MarkError, Enter, Refused, Create, Exists, WritePid, Wait,
       TimesOut, FindOrphan, TakeOver, Leave, Backup, Train, TrainError, Rollback,
       WriteRegistry, Predictor, Explainer, ExplainerError, Restore, learning
  <2>2. QED
    BY <1>5, <2>1
<1>6. QED
  BY <1>2, <1>3, <1>4, <1>5

(* A task that holds a sample keeps it until the sample is settled.        *)
LEMMA KeepsStep ==
  ASSUME CoreInd, NEW t \in Task, TaskStep(t), NEW s \in Sample,
         sample'[s].status = "EVALUATED",
         Keeps(t, s) \/ (Evaluate(t) /\ s \in Holds(t))
  PROVE  s \in stranded' \/ Keeps(t, s)'
<1>1. TypeInd /\ RegistriesOK /\ TasksTyped /\ Live(t)
  BY TypeParts, Shape DEF CoreInd, TypeInd
<1>2. task[t] \in TaskState /\ TaskOK(task[t]) /\ Holds(t) = DOMAIN task[t].rows /\ s \in Holds(t)
  BY <1>1, LiveTyped DEF TypeInd, Keeps
<1>3. ~Abort(t) /\ ~Reset(t) /\ ~Mark(t) /\ task[t].kind # "rollback"
  BY <1>2, EvaluatedFrom DEF TaskOK, HoldingOK
<1>4. ASSUME NEW x, StepTo(t, x), x # None, x.rows = task[t].rows, x.stage \in KeepStage
      PROVE  Keeps(t, s)'
  <2>1. task'[t] = x
    BY <1>1, <1>4 DEF StepTo, TasksTyped
  <2>2. QED
    BY <1>2, <1>4, <2>1 DEF Keeps, Live, Holds
<1>5. ASSUME NEW stage, Moves(t, stage)
      PROVE  Keeps(t, s)'
  <2> DEFINE y == [task[t] EXCEPT !.stage = stage]
  <2>1. Edge(task[t], stage) /\ GoTo(t, stage) /\ up' = up
    BY <1>1, <1>5, MovesEdge
  <2>2. StepTo(t, y) /\ y.stage = stage /\ y.rows = task[t].rows
    BY <1>1, <2>1, EdgeStep
  <2>3. stage \in Stage
    BY <2>1 DEF Edge, Stage
  <2>4. y # None
    BY <1>2, <2>3, Moved, NoneIsNoRecord
  <2>5. Evaluate(t) \/ task[t].stage \in KeepStage \ {"resetting", "marking"}
    <3>1. CASE Evaluate(t)
      BY <3>1
    <3>2. CASE ~Evaluate(t)
      <4>1. task[t].stage \in KeepStage
        BY <3>2 DEF Keeps
      <4>2. task[t].stage \notin {"resetting", "marking"}
        BY <1>3, <1>5, <3>2 DEF Moves, Count, RemoveAged, Enter, Create, Exists, WritePid, Wait, FindOrphan,
           TakeOver, TrainError, WriteRegistry, Predictor, Explainer, ExplainerError, Restore, At
      <4>3. QED
        BY <4>1, <4>2
    <3>3. QED
      BY <3>1, <3>2
  <2>6. stage \in KeepStage
    BY <1>3, <2>1, <2>5 DEF Edge, KeepStage, Evaluate, At
  <2> HIDE DEF y
  <2>7. QED
    BY <1>4, <2>2, <2>4, <2>6
<1>6. CASE Select(t)
  <2>1. Holds(t) = {}
    <3>1. ~Evaluate(t) /\ task[t].stage \in KeepStage
      BY <1>6 DEF Select, Evaluate, At, Keeps
    <3>2. task[t].stage = "inside" /\ task[t].kind = "retrain"
      BY <1>6, <3>1 DEF Select, At, KeepStage
    <3>3. QED
      BY <1>2, <3>2 DEF TaskOK, HoldingOK, LockStage
  <2>2. QED
    BY <1>2, <2>1
<1>7. CASE MarkError(t) \/ Refused(t) \/ TimesOut(t)
  BY <1>2, <1>7 DEF MarkError, Refused, TimesOut
<1>8. CASE Leave(t)
  BY <1>8 DEF Leave, At, Evaluate, Keeps, KeepStage
<1>9. CASE Backup(t)
  <2> DEFINE x == BackedUp(t)
  <2>1. StepTo(t, x) /\ x.rows = task[t].rows /\ x.stage = "training" /\ x # None
    BY <1>1, <1>9, BackupStep
  <2> HIDE DEF x
  <2>2. QED
    BY <1>4, <2>1 DEF KeepStage
<1>10. CASE Train(t)
  <2>1. CASE GoTo(t, "marking")
    <3> DEFINE y == [task[t] EXCEPT !.stage = "marking"]
    <3>1. Edge(task[t], "marking") /\ up' = up
      BY <1>10 DEF Train, TrainCandidate, At, Edge
    <3>2. StepTo(t, y) /\ y.stage = "marking" /\ y.rows = task[t].rows
      BY <1>1, <2>1, <3>1, EdgeStep
    <3>3. y # None
      <4>1. "marking" \in Stage
        BY DEF Stage
      <4>2. y \in TaskState
        BY <1>2, <4>1, Moved
      <4>3. QED
        BY <4>2, NoneIsNoRecord
    <3> HIDE DEF y
    <3>4. QED
      BY <1>4, <3>2, <3>3 DEF KeepStage
  <2>2. CASE ~GoTo(t, "marking")
    <3> DEFINE x == Promoting(t)
    <3>1. Promotes(t)
      BY <1>10, <2>2 DEF Train, Promotes, Promoting
    <3>2. StepTo(t, x) /\ x.stage = "writing" /\ x.rows = task[t].rows /\ x # None
      BY <1>1, <3>1, TrainStep
    <3> HIDE DEF x
    <3>3. QED
      BY <1>4, <3>2 DEF KeepStage
  <2>3. QED
    BY <2>1, <2>2
<1>11. CASE Rollback(t)
  BY <1>3, <1>11 DEF Rollback
<1>12. CASE \/ Count(t) /\ ~(Cardinality(Eligible) >= Threshold)
            \/ RemoveAged(t) /\ task[t].kind = "status"
  <2>1. task[t].stage \notin KeepStage
    <3>1. CASE Count(t)
      BY <3>1 DEF Count, At, KeepStage
    <3>2. CASE RemoveAged(t) /\ task[t].kind = "status"
      BY <1>2, <3>2 DEF TaskOK, HoldingOK, KeepStage
    <3>3. QED
      BY <1>12, <3>1, <3>2
  <2>2. ~Evaluate(t)
    BY <1>2, <1>12 DEF Count, Evaluate, At, TaskOK, HoldingOK
  <2>3. QED
    BY <2>1, <2>2 DEF Keeps
<1>13. QED
  BY <1>3, <1>5, <1>6, <1>7, <1>8, <1>9, <1>10, <1>11, <1>12, StepKinds DEF Finishes

(* A step of a task: an evaluated sample is stranded or with a task.       *)
LEMMA TaskStepSamples ==
  ASSUME CoreInd, SampleInd, NEW t \in Task, TaskStep(t)
  PROVE  SampleInd'
<1>1. TypeInd /\ RegistriesOK /\ TasksTyped
  BY TypeParts DEF CoreInd, TypeInd
<1>2. PICK x : StepTo(t, x)
  BY <1>1, Shape
<1>3. \A u \in Task \ {t} : task'[u] = task[u]
  BY <1>1, <1>2 DEF StepTo, TasksTyped
<1>4. stranded \subseteq stranded'
  BY DEF TaskStep, Count, RemoveAged, Select, Evaluate, Abort, Reset, Mark, MarkError, Enter, Refused, Create,
     Exists, WritePid, Wait, TimesOut, FindOrphan, TakeOver, Leave, Backup, Train, TrainError,
     Rollback, WriteRegistry, Predictor, Explainer, ExplainerError, Restore, learning
<1>5. SUFFICES ASSUME NEW s \in Sample, sample'[s].status = "EVALUATED"
               PROVE  s \in stranded' \/ \E u \in Task : Keeps(u, s)'
  BY DEF SampleInd
<1>6. CASE Evaluate(t) /\ s \in Holds(t)
  BY <1>5, <1>6, KeepsStep
<1>7. CASE ~(Evaluate(t) /\ s \in Holds(t))
  <2>1. s \in stranded \/ \E u \in Task : Keeps(u, s)
    BY <1>5, <1>7, EvaluatedFrom DEF SampleInd
  <2>2. ASSUME NEW u \in Task, Keeps(u, s)
        PROVE  s \in stranded' \/ Keeps(u, s)'
    <3>1. CASE u = t
      BY <1>5, <2>2, <3>1, KeepsStep
    <3>2. CASE u # t
      BY <1>3, <2>2, <3>2 DEF Keeps, Live, Holds
    <3>3. QED
      BY <3>1, <3>2
  <2>3. QED
    BY <1>4, <2>1, <2>2
<1>8. QED
  BY <1>6, <1>7

(* The same for every step.                                                *)
LEMMA SamplesNext ==
  ASSUME CoreInd, SampleInd, [LNext]_lvars
  PROVE  SampleInd'
<1>1. TypeInd /\ TasksTyped /\ OthersTyped
  BY TypeParts DEF CoreInd, TypeInd
<1>2. ASSUME NEW t \in Task, TaskStep(t)
      PROVE  SampleInd'
  BY <1>2, TaskStepSamples
<1>3. ASSUME NEW t \in Task, NEW p \in Process,
             Beginning(t, p)
      PROVE  SampleInd'
  <2>1. UNCHANGED learning /\ ~Live(t)
    BY <1>3 DEF Beginning, AutoCheck, AskStatus, Request, Starts
  <2>2. PICK x : Begins(t, p, x)
    BY <1>3, StartsTyped
  <2>3. \A u \in Task \ {t} : task'[u] = task[u]
    BY <1>1, <2>2 DEF Begins, StepTo, TasksTyped
  <2>4. \A u \in Task, s \in Sample : Keeps(u, s) => Keeps(u, s)'
    BY <2>1, <2>3 DEF Keeps, Live, Holds
  <2>5. QED
    BY <2>1, <2>4 DEF SampleInd, learning
<1>4. ASSUME NEW p \in Process, Crash(p)
      PROVE  SampleInd'
  <2> DEFINE dying == {t \in Task : Live(t) /\ task[t].on = p}
  <2>1. /\ task' = [t \in Task |-> IF t \in dying THEN None ELSE task[t]]
        /\ stranded' = stranded \union UNION {Holds(t) : t \in dying}
        /\ sample' = sample
    BY <1>4 DEF Crash
  <2>2. ASSUME NEW u \in Task, NEW s \in Sample, Keeps(u, s)
        PROVE  s \in stranded' \/ Keeps(u, s)'
    <3>1. CASE u \in dying
      BY <2>1, <2>2, <3>1 DEF Keeps
    <3>2. CASE u \notin dying
      <4>1. task'[u] = task[u]
        BY <2>1, <3>2
      <4>2. QED
        BY <2>2, <4>1 DEF Keeps, Live, Holds
    <3>3. QED
      BY <3>1, <3>2
  <2>3. QED
    BY <2>1, <2>2 DEF SampleInd
<1>5. ASSUME UNCHANGED <<task, stranded>>,
             \A s \in Sample : sample'[s].status = "EVALUATED" => sample[s].status = "EVALUATED"
      PROVE  SampleInd'
  BY <1>5 DEF SampleInd, Keeps, Live, Holds
<1>6. ASSUME NEW s \in Sample, Verify(s)
      PROVE  SampleInd'
  <2>1. PICK status \in {"VERIFIED", "UNUSABLE"} : sample' = [sample EXCEPT ![s].status = status]
    BY <1>6 DEF Verify
  <2>2. [sample[s] EXCEPT !.status = status].status = status
    BY <1>1, SamplesTyped, RowFields DEF OthersTyped, Status
  <2>3. \A r \in Sample : sample'[r].status = "EVALUATED" => sample[r].status = "EVALUATED"
    BY <1>1, <2>1, <2>2 DEF OthersTyped, SampleTyped
  <2>4. QED
    BY <1>5, <1>6, <2>3 DEF Verify
<1>7. ASSUME NEW p \in Process, Boot(p) \/ Ready(p)
      PROVE  SampleInd'
  BY <1>5, <1>7 DEF Boot, Ready, learning
<1>8. CASE Age
  BY <1>5, <1>8 DEF Age, learning
<1>9. CASE UNCHANGED lvars
  BY <1>5, <1>9 DEF lvars, learning
<1>10. QED
  BY <1>2, <1>3, <1>4, <1>6, <1>7, <1>8, <1>9 DEF LNext, TaskStep, Beginning

(* No sample under evaluation is lost by a task that has not been refused  *)
(* the lock, failed or crashed (learning.py, run_retraining_pipeline).     *)
THEOREM SamplesTheorem == LSpec => []SamplesAreHeld
<1>1. LInit => SampleInd
  BY DEF LInit, SampleInd
<1>2. CoreInd /\ SampleInd /\ [LNext]_lvars => SampleInd'
  BY SamplesNext
<1>3. SampleInd => SamplesAreHeld
  BY DEF SampleInd, SamplesAreHeld, Keeps
<1>4. QED
  BY <1>1, <1>2, <1>3, CoreAndLock, PTL DEF LSpec

-----------------------------------------------------------------------------
(* The models each process has loaded.                                     *)

Reloading(t) == Live(t) /\ task[t].stage \in {"explainer", "restoring"}

(* What the next load of a reload has to match.                            *)
LoadedOK(t) ==
  Reloading(t) =>
    \/ task[t].on \in skewed
    \/ registry.production = IF task[t].stage = "explainer" THEN pred[task[t].on]
                             ELSE expl[task[t].on]

PairOK(p) ==
  \/ p \in skewed \/ pred[p] = expl[p]
  \/ \E t \in Task : Reloading(t) /\ task[t].on = p

(* A starting process has the predictor of the registry as it is.          *)
StartOK(p) == p \in skewed \/ pred[p] = registry.production

ServingInd ==
  ~raced => /\ \A t \in Task : LoadedOK(t)
            /\ \A p \in up : PairOK(p)
            /\ \A p \in booting : StartOK(p)

(* A step that reads or writes the registry is made alone.                 *)
LEMMA ReloadAlone ==
  ASSUME LockInd, ~raced, NEW t \in Task, Live(t), task[t].stage \in InFile
  PROVE  \A u \in Task \ {t} : ~Reloading(u)
<1>1. HasFile(t)
  BY DEF HasFile, UnderFile
<1>2. \A u \in Task : Reloading(u) => HasFile(u)
  BY DEF Reloading, HasFile, UnderFile, InFile
<1>3. QED
  BY <1>1, <1>2, OneHasTheFile

(* Until a process has started it is skewed by whoever writes the registry.*)
LEMMA StartsStay ==
  ASSUME CoreInd, NEW t \in Task, TaskStep(t), NEW p \in booting, StartOK(p)
  PROVE  StartOK(p)'
<1>1. TypeInd /\ RegistriesOK /\ TasksTyped /\ OthersTyped /\ BootTyped
  BY TypeParts DEF CoreInd, TypeInd
<1>2. Live(t) /\ task[t].on \in up
  BY <1>1, Shape, LiveTyped
<1>3. p \in Process /\ p # task[t].on
  BY <1>1, <1>2 DEF BootTyped
<1>4. CASE WriteRegistry(t) \/ ExplainerError(t)
  <2>1. p \in skewed'
    BY <1>4 DEF WriteRegistry, ExplainerError
  <2>2. QED
    BY <2>1 DEF StartOK
<1>5. CASE Predictor(t) \/ Restore(t)
  <2>1. registry' = registry /\ pred'[p] = pred[p] /\ skewed \subseteq skewed'
    BY <1>1, <1>3, <1>5 DEF Predictor, Restore, LoadPredictor, OthersTyped
  <2>2. QED
    BY <2>1 DEF StartOK
<1>6. CASE Explainer(t)
  <2>1. registry' = registry /\ pred' = pred /\ (p \in skewed => p \in skewed')
    BY <1>3, <1>6 DEF Explainer
  <2>2. QED
    BY <2>1 DEF StartOK
<1>7. CASE ~(WriteRegistry(t) \/ ExplainerError(t) \/ Predictor(t) \/ Restore(t) \/ Explainer(t))
  <2>1. UNCHANGED <<registry, pred, skewed>>
    BY <1>7 DEF TaskStep, Count, RemoveAged, Select, Evaluate, Abort, Reset, Mark, MarkError, Enter,
       Refused, Create, Exists, WritePid, Wait, TimesOut, FindOrphan, TakeOver, Leave, Backup, Train,
       TrainError, Rollback, serving
  <2>2. QED
    BY <2>1 DEF StartOK
<1>8. QED
  BY <1>4, <1>5, <1>6, <1>7

(* A step of a task: predictor and explainer agree, unless skewed.         *)
LEMMA TaskStepServing ==
  ASSUME CoreInd, LockInd, ServingInd, NEW t \in Task, TaskStep(t)
  PROVE  ServingInd'
<1>1. TypeInd /\ RegistriesOK /\ TasksTyped /\ OthersTyped
  BY TypeParts DEF CoreInd, TypeInd
<1>2. Live(t) /\ task[t].on \in Process /\ task[t].stage \in Stage
  BY <1>1, Shape, LiveTyped
<1>3. PICK x : StepTo(t, x) /\ (x = None \/ Change(task[t], x))
  BY <1>1, Shape
<1>4. /\ \A u \in Task \ {t} : task'[u] = task[u]
      /\ task'[t] = x /\ up' = up
  BY <1>1, <1>3 DEF StepTo, TasksTyped
<1>5. SUFFICES ASSUME ~raced'
               PROVE  (\A u \in Task : LoadedOK(u)') /\ (\A p \in up : PairOK(p)')
  <2>1. booting' = booting /\ booting \subseteq Process \ up
    BY <1>1, BootStays, TypeParts DEF TypeInd, BootTyped
  <2>2. \A p \in booting : ~raced => StartOK(p)
    BY DEF ServingInd
  <2>3. \A p \in booting : ~raced' => ~raced
    BY RacedStays
  <2>4. \A p \in booting : ~raced' => StartOK(p)'
    BY <2>1, <2>2, <2>3, <1>1, <1>2, StartsStay
  <2>5. QED
    BY <1>4, <2>1, <2>4 DEF ServingInd
<1>6. ~raced /\ (\A u \in Task : LoadedOK(u)) /\ (\A p \in up : PairOK(p))
  BY <1>5, RacedStays DEF ServingInd
<1>7. \A u \in Task \ {t} : Reloading(u)' <=> Reloading(u)
  BY <1>4 DEF Reloading, Live
<1>8. PICK q : /\ q = task[t].on /\ q \in Process /\ up \subseteq Process
               /\ pred \in [Process -> Model] /\ expl \in [Process -> Model]
  BY <1>1, <1>2 DEF OthersTyped, TasksTyped
<1>9. CASE WriteRegistry(t)
  <2>1. /\ \A u \in Task : ~Reloading(u)
        /\ UNCHANGED <<pred, expl>> /\ skewed \subseteq skewed'
    BY <1>2, <1>6, <1>9, ReloadAlone DEF WriteRegistry, At, InFile, Reloading
  <2>2. ~Reloading(t)'
    BY <1>3, <1>4, <1>9 DEF Reloading, Live, Change, WriteRegistry, At
  <2>3. QED
    BY <1>6, <1>7, <2>1, <2>2 DEF LoadedOK, PairOK
<1>10. ASSUME task[t].stage = "predictor" \/ task[t].stage \in {"explainer", "restoring"}
       PROVE  \A u \in Task \ {t} : ~Reloading(u) /\ ~Reloading(u)'
  BY <1>2, <1>6, <1>7, <1>10, ReloadAlone DEF InFile
<1>11. ASSUME GoTo(t, "leaving")
       PROVE  ~Reloading(t)'
  <2>1. task[t] \in TaskState /\ x = [task[t] EXCEPT !.stage = "leaving"]
    BY <1>1, <1>2, <1>4, <1>11, LiveTyped DEF GoTo, TasksTyped
  <2>2. x.stage = "leaving"
    BY <2>1 DEF TaskState
  <2>3. QED
    BY <1>4, <2>2 DEF Reloading
<1>12. ASSUME NEW stage \in {"explainer", "restoring"}, GoTo(t, stage)
       PROVE  Reloading(t)' /\ task'[t].stage = stage /\ task'[t].on = q
  <2>1. task[t] \in TaskState /\ x = [task[t] EXCEPT !.stage = stage] /\ stage \in Stage
    BY <1>1, <1>2, <1>4, <1>12, LiveTyped DEF GoTo, TasksTyped, Stage
  <2>2. x \in TaskState /\ x.stage = stage /\ x.on = q
    BY <1>8, <2>1, Moved
  <2>3. QED
    BY <1>4, <2>2, NoneIsNoRecord DEF Reloading, Live
<1>13. CASE Predictor(t)
  <2>1. /\ UNCHANGED <<registry, expl>> /\ skewed \subseteq skewed'
        /\ \A p \in up \ {q} : pred'[p] = pred[p]
        /\ q \in skewed' \/ pred'[q] = registry.production
        /\ ~Reloading(t)
    BY <1>8, <1>13 DEF Predictor, LoadPredictor, At, Reloading
  <2>2. Reloading(t)' /\ task'[t].stage = "explainer" /\ task'[t].on = q
    BY <1>12, <1>13 DEF Predictor
  <2>3. \A u \in Task \ {t} : ~Reloading(u) /\ ~Reloading(u)'
    BY <1>10, <1>13 DEF Predictor, At
  <2>4. \A u \in Task : LoadedOK(u)'
    BY <2>1, <2>2, <2>3 DEF LoadedOK
  <2>5. \A p \in up : PairOK(p)'
    BY <1>6, <2>1, <2>2, <2>3 DEF PairOK
  <2>6. QED
    BY <2>4, <2>5
<1>14. CASE Explainer(t)
  <2>1. /\ UNCHANGED <<registry, pred>> /\ skewed \ {q} \subseteq skewed'
        /\ \A p \in up \ {q} : expl'[p] = expl[p]
        /\ expl'[q] = registry.production
        /\ pred[q] # registry.production => skewed' = skewed
    BY <1>8, <1>14 DEF Explainer
  <2>2. Reloading(t) /\ task[t].stage = "explainer"
    BY <1>14 DEF Explainer, At, Reloading
  <2>3. \A u \in Task : ~Reloading(u)'
    BY <1>10, <1>11, <1>14, <2>2 DEF Explainer
  <2>4. \A p \in up \ {q} : PairOK(p)'
    BY <1>6, <1>10, <2>1, <2>2, <1>8 DEF PairOK
  <2>5. PairOK(q)'
    BY <1>6, <2>1, <2>2, <1>8 DEF PairOK, LoadedOK
  <2>6. QED
    BY <2>3, <2>4, <2>5 DEF LoadedOK
<1>15. CASE ExplainerError(t)
  <2>1. /\ registry' = task[t].backup /\ UNCHANGED <<pred, expl>>
        /\ skewed \subseteq skewed'
        /\ q \in skewed' \/ expl[q] = registry'.production
    BY <1>15, <1>8 DEF ExplainerError
  <2>2. Reloading(t)' /\ task'[t].stage = "restoring" /\ task'[t].on = q
    BY <1>12, <1>15 DEF ExplainerError
  <2>3. \A u \in Task \ {t} : ~Reloading(u) /\ ~Reloading(u)'
    BY <1>10, <1>15 DEF ExplainerError, At
  <2>4. \A u \in Task : LoadedOK(u)'
    BY <2>1, <2>2, <2>3 DEF LoadedOK
  <2>5. \A p \in up : PairOK(p)'
    BY <1>6, <2>1, <2>2, <2>3, <1>8 DEF PairOK
  <2>6. QED
    BY <2>4, <2>5
<1>16. CASE Restore(t)
  <2>1. /\ UNCHANGED <<registry, expl>> /\ skewed \subseteq skewed'
        /\ \A p \in up \ {q} : pred'[p] = pred[p]
        /\ q \in skewed' \/ pred'[q] = registry.production
    BY <1>8, <1>16 DEF Restore, LoadPredictor
  <2>2. Reloading(t) /\ task[t].stage = "restoring"
    BY <1>16 DEF Restore, At, Reloading
  <2>3. \A u \in Task : ~Reloading(u)'
    BY <1>10, <1>11, <1>16, <2>2 DEF Restore
  <2>4. \A p \in up \ {q} : PairOK(p)'
    BY <1>6, <1>10, <2>1, <2>2, <1>8 DEF PairOK
  <2>5. PairOK(q)'
    BY <1>6, <2>1, <2>2, <1>8 DEF PairOK, LoadedOK
  <2>6. QED
    BY <2>3, <2>4, <2>5 DEF LoadedOK
<1>17. CASE ~(WriteRegistry(t) \/ Predictor(t) \/ Explainer(t) \/ ExplainerError(t) \/ Restore(t))
  <2>1. /\ UNCHANGED <<registry, pred, expl, skewed>>
        /\ task[t].stage \notin {"predictor", "explainer", "restoring"}
    BY <1>17 DEF TaskStep, Count, RemoveAged, Select, Evaluate, Abort, Reset, Mark, MarkError, Enter, Refused,
       Create, Exists, WritePid, Wait, TimesOut, FindOrphan, TakeOver, Leave, Backup, Train,
       TrainCandidate, TrainError, Rollback, At, serving
  <2>2. ~Reloading(t) /\ ~Reloading(t)'
    BY <1>3, <1>4, <2>1 DEF Reloading, Live, Change
  <2>3. \A u \in Task : LoadedOK(u)'
    BY <1>4, <1>6, <1>7, <2>1, <2>2 DEF LoadedOK
  <2>4. \A p \in up : PairOK(p)'
    BY <1>4, <1>6, <1>7, <2>1, <2>2 DEF PairOK
  <2>5. QED
    BY <2>3, <2>4
<1>18. QED
  BY <1>9, <1>13, <1>14, <1>15, <1>16, <1>17

(* The same for every step.                                                *)
LEMMA ServingNext ==
  ASSUME CoreInd, LockInd, ServingInd, [LNext]_lvars
  PROVE  ServingInd'
<1>1. TypeInd /\ TasksTyped /\ OthersTyped /\ BootTyped
  BY TypeParts DEF CoreInd, TypeInd
<1>2. ASSUME NEW t \in Task, TaskStep(t)
      PROVE  ServingInd'
  BY <1>2, TaskStepServing
<1>3. ASSUME NEW t \in Task, NEW p \in Process,
             Beginning(t, p)
      PROVE  ServingInd'
  <2>1. UNCHANGED <<registry, serving, up, raced>> /\ ~Live(t)
    BY <1>3 DEF Beginning, AutoCheck, AskStatus, Request, Starts
  <2>2. PICK x : StepTo(t, x) /\ x.stage \in {"trying", "counting", "dismissing"}
    BY <1>3, StartsTyped DEF Begins
  <2>3. \A u \in Task : task'[u] = IF u = t THEN x ELSE task[u]
    BY <1>1, <2>2 DEF StepTo, TasksTyped
  <2>4. \A u \in Task : Reloading(u)' <=> Reloading(u)
    BY <2>1, <2>2, <2>3 DEF Reloading, Live
  <2>5. \A u \in Task : Reloading(u) => task'[u] = task[u]
    BY <2>1, <2>3 DEF Reloading
  <2>6. (\A u \in Task : LoadedOK(u)) => \A u \in Task : LoadedOK(u)'
    BY <2>1, <2>4, <2>5 DEF LoadedOK, serving
  <2>7. \A q : (PairOK(q) => PairOK(q)') /\ (StartOK(q) => StartOK(q)')
    BY <2>1, <2>4, <2>5 DEF PairOK, StartOK, serving
  <2>8. QED
    BY <2>1, <2>6, <2>7 DEF ServingInd, serving
<1>4. ASSUME NEW p \in Process, Crash(p)
      PROVE  ServingInd'
  <2> DEFINE dying == {t \in Task : Live(t) /\ task[t].on = p}
  <2>1. /\ task' = [t \in Task |-> IF t \in dying THEN None ELSE task[t]]
        /\ up' = up \ {p} /\ UNCHANGED <<registry, serving, raced>>
    BY <1>4 DEF Crash
  <2>2. \A u \in Task : Reloading(u)' => Reloading(u) /\ task'[u] = task[u]
    BY <2>1 DEF Reloading, Live
  <2>3. \A u \in Task : Reloading(u) /\ task[u].on # p => Reloading(u)' /\ task'[u] = task[u]
    BY <2>1 DEF Reloading, Live
  <2>4. (\A u \in Task : LoadedOK(u)) => \A u \in Task : LoadedOK(u)'
    BY <2>1, <2>2 DEF LoadedOK, serving
  <2>5. \A q \in up \ {p} : PairOK(q) => PairOK(q)'
    BY <2>1, <2>3 DEF PairOK, serving
  <2>6. \A q : StartOK(q) => StartOK(q)'
    BY <2>1 DEF StartOK, serving
  <2>7. QED
    BY <2>1, <2>4, <2>5, <2>6 DEF ServingInd, serving
<1>5. ASSUME NEW p \in Process, Boot(p) \/ Ready(p)
      PROVE  ServingInd'
  <2>1. UNCHANGED <<registry, task, raced>> /\ p \notin up
    BY <1>1, <1>5 DEF Boot, Ready, BootTyped
  <2>2. \A u \in Task : Reloading(u) => task[u].on \in Process \ {p}
    BY <1>1, <2>1, LiveTyped DEF Reloading
  <2>3. \A u \in Task : Reloading(u)' <=> Reloading(u)
    BY <2>1 DEF Reloading, Live
  <2>4. \A q \in Process \ {p} : /\ pred'[q] = pred[q] /\ expl'[q] = expl[q]
                                 /\ q \in skewed <=> q \in skewed'
    BY <1>1, <1>5 DEF Boot, Ready, OthersTyped
  <2>5. \A u \in Task : LoadedOK(u) => LoadedOK(u)'
    BY <2>1, <2>2, <2>3, <2>4 DEF LoadedOK
  <2>6. \A q \in Process \ {p} : /\ PairOK(q) => PairOK(q)'
                                 /\ StartOK(q) => StartOK(q)'
    BY <2>1, <2>3, <2>4 DEF PairOK, StartOK
  <2>7. CASE Boot(p)
    <3>1. up' = up /\ booting' = booting \union {p} /\ pred'[p] = registry.production
      BY <1>1, <2>7 DEF Boot, OthersTyped
    <3>2. StartOK(p)'
      BY <2>1, <3>1 DEF StartOK
    <3>3. QED
      BY <1>1, <2>1, <2>5, <2>6, <3>1, <3>2 DEF ServingInd, TasksTyped, BootTyped
  <2>8. CASE Ready(p)
    <3>1. p \in booting /\ up' = up \union {p} /\ booting' = booting \ {p} /\ pred' = pred
      BY <2>8 DEF Ready
    <3>2. \/ p \in skewed'
          \/ expl'[p] = registry.production /\ skewed' = skewed
      BY <1>1, <2>8 DEF Ready, OthersTyped
    <3>3. StartOK(p) => PairOK(p)'
      BY <3>1, <3>2 DEF StartOK, PairOK
    <3>4. QED
      BY <1>1, <2>1, <2>5, <2>6, <3>1, <3>3 DEF ServingInd, TasksTyped, BootTyped
  <2>9. QED
    BY <1>5, <2>7, <2>8
<1>6. ASSUME UNCHANGED <<task, registry, serving, up, raced>>
      PROVE  ServingInd'
  BY <1>6 DEF ServingInd, LoadedOK, PairOK, StartOK, Reloading, Live, serving
<1>7. ASSUME NEW s \in Sample, Verify(s)
      PROVE  ServingInd'
  BY <1>6, <1>7 DEF Verify
<1>8. CASE Age
  BY <1>6, <1>8 DEF Age
<1>9. CASE UNCHANGED lvars
  BY <1>6, <1>9 DEF lvars
<1>10. QED
  BY <1>2, <1>3, <1>4, <1>5, <1>7, <1>8, <1>9 DEF LNext, TaskStep, Beginning

(* As long as no load has failed in it, the registry was not written while *)
(* it started and the lock has held, a process explains the model it       *)
(* predicts with, but for the middle of a reload (main.py:71-72,           *)
(* coordinate_model_reload, model_lifecycle.py:300).                       *)
THEOREM InStepTheorem == LSpec => []InStep
<1>1. LInit => ServingInd
  BY DEF LInit, ServingInd, LoadedOK, PairOK, Reloading, Live
<1>2. CoreInd /\ LockInd /\ ServingInd /\ [LNext]_lvars => ServingInd'
  BY ServingNext
<1>3. ServingInd => InStep
  BY DEF ServingInd, PairOK, Reloading, InStep
<1>4. QED
  BY <1>1, <1>2, <1>3, CoreAndLock, PTL DEF LSpec

-----------------------------------------------------------------------------
(* Promoted samples.                                                       *)

(* From here on a task has decided what to write.                          *)
Late == {"writing", "marking", "predictor", "explainer", "restoring", "leaving"}

(* The steps of a task that do not decide what it will write.              *)
Plain(y, x) ==
  /\ x.next = y.next /\ x.backup \in {y.backup, registry}
  /\ x.promoted = y.promoted /\ x.kind = y.kind
  /\ x.stage # "writing"
  /\ x.stage = "marking" => x.rows = y.rows /\ y.stage \in {"writing", "training"}
  /\ y.stage \in Late => x.stage \in Late

(* The two steps that decide on a registry to write.                       *)
WritesNew(t) == TrainCandidate(t) /\ task' = [task EXCEPT ![t] = Promoting(t)]

WritesOld(t) ==
  /\ At(t, "training") /\ task[t].kind = "rollback"
  /\ \E m \in Fallback : task' = [task EXCEPT ![t] = RolledTo(t, m)]

(* Only a promotion and a rollback give a task a registry to write.        *)
LEMMA PlainStep ==
  ASSUME TypeInd, RegistriesOK, NEW t \in Task, TaskStep(t), ~WritesNew(t), ~WritesOld(t)
  PROVE  \E x : StepTo(t, x) /\ (x = None \/ Plain(task[t], x))
<1>1. ASSUME NEW stage, Live(t), Edge(task[t], stage), GoTo(t, stage), up' = up
      PROVE  \E x : StepTo(t, x) /\ Plain(task[t], x)
  <2> DEFINE x == [task[t] EXCEPT !.stage = stage]
  <2>1. StepTo(t, x) /\ x.stage = stage /\ x.kind = task[t].kind /\ x.on = task[t].on
          /\ x.rows = task[t].rows /\ x.promoted = task[t].promoted
          /\ x.next = task[t].next /\ x.backup = task[t].backup
    BY <1>1, EdgeStep
  <2> HIDE DEF x
  <2>2. x.stage # "writing" /\ (x.stage = "marking" => task[t].stage \in {"writing", "training"})
        /\ (task[t].stage \in Late => x.stage \in Late)
    BY <1>1, <2>1 DEF Edge, Late
  <2>3. QED
    BY <2>1, <2>2 DEF Plain
<1>2. ASSUME NEW stage, Moves(t, stage)
      PROVE  \E x : StepTo(t, x) /\ Plain(task[t], x)
  BY <1>1, <1>2, MovesEdge
<1>3. CASE Select(t)
  <2> DEFINE x == Selected(t)
  <2>1. /\ Live(t) /\ StepTo(t, x)
        /\ x.stage = "selected" /\ x.kind = task[t].kind /\ x.on = task[t].on
        /\ x.promoted = task[t].promoted /\ x.next = task[t].next
        /\ x.backup \in {registry, task[t].backup}
    BY <1>3, SelectStep
  <2> HIDE DEF x
  <2>2. task[t].stage \notin Late
    BY <1>3 DEF Select, At, Late
  <2>3. QED
    BY <2>1, <2>2 DEF Plain
<1>4. CASE MarkError(t)
  <2> DEFINE x == [task[t] EXCEPT !.rows = NoRows, !.stage = "leaving"]
  <2>1. /\ Live(t) /\ StepTo(t, x) /\ task[t].stage = "marking"
        /\ x.stage = "leaving" /\ x.kind = task[t].kind /\ x.on = task[t].on
        /\ x.promoted = task[t].promoted
    BY <1>4, MarkErrorStep
  <2>2. task[t] \in TaskState
    BY <2>1, LiveTyped, TypeParts DEF TypeInd
  <2>3. x.next = task[t].next /\ x.backup = task[t].backup
    BY <2>2 DEF TaskState
  <2> HIDE DEF x
  <2>4. QED
    BY <2>1, <2>3 DEF Plain, Late
<1>5. CASE Backup(t)
  <2> DEFINE x == BackedUp(t)
  <2>1. /\ Live(t) /\ StepTo(t, x) /\ task[t].stage = "inside"
        /\ x.stage = "training" /\ x.kind = task[t].kind
        /\ x.promoted = task[t].promoted /\ x.backup = registry
        /\ x.next = task[t].next
    BY <1>5, BackupStep
  <2> HIDE DEF x
  <2>2. QED
    BY <2>1 DEF Plain, Late
<1>6. CASE Train(t)
  <2>1. Live(t) /\ Edge(task[t], "marking") /\ GoTo(t, "marking") /\ up' = up
    BY <1>6 DEF Train, TrainCandidate, WritesNew, Promoting, At, Edge
  <2>2. QED
    BY <1>1, <2>1
<1>7. CASE Rollback(t)
  <2>1. Live(t) /\ Edge(task[t], "leaving") /\ GoTo(t, "leaving") /\ up' = up
    BY <1>7 DEF Rollback, WritesOld, RolledTo, At, Edge
  <2>2. QED
    BY <1>1, <2>1
<1>8. CASE Finishes(t)
  BY <1>8, EndStep
<1>9. QED
  BY <1>2, <1>3, <1>4, <1>5, <1>6, <1>7, <1>8, StepKinds

(* Candidates are numbered from one.                                       *)
LEMMA TrainedDomain ==
  ASSUME NEW f, TrainedTyped(f)
  PROVE  DOMAIN f = 1 .. Len(f) /\ Len(f) \in Nat
BY DEF TrainedTyped, Model

(* What a candidate was trained on does not change.                        *)
LEMMA TrainedKeeps ==
  ASSUME CoreInd, NEW t \in Task, TaskStep(t)
  PROVE  /\ DOMAIN trained \subseteq DOMAIN trained'
         /\ \A m \in DOMAIN trained : trained'[m] = trained[m]
<1>1. TasksTyped /\ OthersTyped /\ Live(t)
  BY TypeParts, Shape DEF CoreInd, TypeInd
<1>2. CASE Train(t)
  <2>1. Holds(t) \in SUBSET Sample /\ Len(trained) < MaxModels /\ trained' = Append(trained, Holds(t))
    BY <1>1, <1>2, LiveTyped DEF Train, TrainCandidate
  <2>2. TrainedTyped(trained)
    BY <1>1 DEF OthersTyped
  <2>3. /\ TrainedTyped(trained') /\ Len(trained) \in Nat
        /\ \A m \in 1 .. Len(trained) : trained'[m] = trained[m]
        /\ Len(trained') = Len(trained) + 1
    BY <2>1, <2>2, TrainedGrows
  <2>4. DOMAIN trained = 1 .. Len(trained) /\ DOMAIN trained' = 1 .. Len(trained')
    BY <2>2, <2>3, TrainedDomain
  <2>5. QED
    BY <2>3, <2>4
<1>3. CASE ~Train(t)
  BY <1>3 DEF TaskStep, Count, RemoveAged, Select, Evaluate, Abort, Reset, Mark, MarkError, Enter, Refused, Create,
     Exists, WritePid, Wait, TimesOut, FindOrphan, TakeOver, Leave, Backup, TrainError,
     Rollback, WriteRegistry, Predictor, Explainer, ExplainerError, Restore, learning
<1>4. QED
  BY <1>2, <1>3

(* A registry's artifacts are candidates that have been trained.           *)
KnownIn(r) == r.artifacts \subseteq DOMAIN trained

KnownTask(x) ==
  /\ x.backup # None => KnownIn(x.backup)
  /\ x.next # None => KnownIn(x.next)
  /\ x.promoted => x.stage \in Late

ModelInd ==
  /\ KnownIn(registry)
  /\ \A t \in Task : Live(t) => KnownTask(task[t])

(* What a task is about to write, with the samples of its candidate.       *)
LEMMA NewModel ==
  ASSUME CoreInd, NEW t \in Task, WritesNew(t), up' = up, trained' = Append(trained, Holds(t))
  PROVE  \E x : /\ StepTo(t, x) /\ x.stage = "writing" /\ x.backup = task[t].backup
                /\ x.rows = task[t].rows /\ x.kind = task[t].kind
                /\ x.next.artifacts = registry.artifacts \union {Len(trained) + 1}
                /\ Len(trained) + 1 \in DOMAIN trained'
                /\ trained'[Len(trained) + 1] = Holds(t)
<1>1. TypeInd /\ RegistriesOK /\ TasksTyped /\ OthersTyped /\ Live(t)
  BY TypeParts DEF CoreInd, TypeInd, WritesNew, TrainCandidate, At
<1> DEFINE x == Promoting(t)
<1>2. /\ StepTo(t, x) /\ x.stage = "writing" /\ x.kind = task[t].kind
      /\ x.rows = task[t].rows /\ x.backup = task[t].backup
      /\ x.next = WithChampion(Len(trained) + 1)
  BY <1>1, TrainStep DEF WritesNew, Promotes
<1> HIDE DEF x
<1>3. x.next.artifacts = registry.artifacts \union {Len(trained) + 1}
  BY <1>2 DEF WithChampion
<1>4. Holds(t) \in SUBSET Sample /\ Len(trained) < MaxModels /\ TrainedTyped(trained)
  BY <1>1, LiveTyped DEF OthersTyped, WritesNew, TrainCandidate
<1>5. /\ TrainedTyped(trained') /\ Len(trained) \in Nat
      /\ trained'[Len(trained) + 1] = Holds(t)
      /\ Len(trained') = Len(trained) + 1
  BY <1>4, TrainedGrows
<1>6. Len(trained) + 1 \in DOMAIN trained'
  BY <1>5, TrainedDomain
<1>7. QED
  BY <1>2, <1>3, <1>5, <1>6

(* What a rollback writes: the artifacts stay as they are.                 *)
LEMMA OldModel ==
  ASSUME CoreInd, NEW t \in Task, WritesOld(t), up' = up
  PROVE  \E x : /\ StepTo(t, x) /\ x.stage = "writing" /\ x.backup = task[t].backup
                /\ x.kind = "rollback"
                /\ x.next.artifacts = registry.artifacts
<1>1. TypeInd /\ RegistriesOK /\ OthersTyped
  BY TypeParts DEF CoreInd, TypeInd
<1>2. PICK m \in Fallback : RollsTo(t, m)
  BY DEF WritesOld, RollsTo
<1> DEFINE x == RolledTo(t, m)
<1>3. /\ StepTo(t, x) /\ x.stage = "writing" /\ x.kind = task[t].kind
      /\ x.backup = task[t].backup /\ x.next = WithFallback(m)
  BY <1>1, <1>2, RollbackStep
<1> HIDE DEF x
<1>4. WithFallback(m).artifacts = registry.artifacts
  BY <1>1 DEF OthersTyped, Registry, WithFallback
<1>5. QED
  BY <1>3, <1>4 DEF WritesOld

(* A step of a task: the registries name models that were trained.         *)
LEMMA TaskStepModels ==
  ASSUME CoreInd, ModelInd, NEW t \in Task, TaskStep(t)
  PROVE  ModelInd'
<1>1. TypeInd /\ RegistriesOK /\ TasksTyped /\ OthersTyped
  BY TypeParts DEF CoreInd, TypeInd
<1>2. Live(t) /\ TaskOK(task[t])
  BY <1>1, Shape DEF TypeInd
<1>3. DOMAIN trained \subseteq DOMAIN trained'
  BY TrainedKeeps
<1>4. KnownIn(registry)'
  <2>1. CASE WriteRegistry(t)
    BY <1>2, <1>3, <2>1 DEF WriteRegistry, At, TaskOK, BackupOK, ModelInd, KnownTask, KnownIn
  <2>2. CASE ExplainerError(t)
    BY <1>2, <1>3, <2>2 DEF ExplainerError, At, TaskOK, BackupOK, ModelInd, KnownTask, KnownIn
  <2>3. CASE ~WriteRegistry(t) /\ ~ExplainerError(t)
    <3>1. registry' = registry
      BY <2>3 DEF TaskStep, Count, RemoveAged, Select, Evaluate, Abort, Reset, Mark, MarkError, Enter, Refused, Create,
         Exists, WritePid, Wait, TimesOut, FindOrphan, TakeOver, Leave, Backup, Train, TrainError,
         Rollback, Predictor, Explainer, Restore
    <3>2. QED
      BY <1>3, <3>1 DEF ModelInd, KnownIn
  <2>4. QED
    BY <2>1, <2>2, <2>3
<1>5. ASSUME NEW x, StepTo(t, x),
             x # None => /\ x.backup # None => x.backup.artifacts \subseteq DOMAIN trained'
                         /\ x.next # None => x.next.artifacts \subseteq DOMAIN trained'
                         /\ x.promoted => x.stage \in Late
      PROVE  ModelInd'
  <2>1. \A u \in Task : task'[u] = IF u = t THEN x ELSE task[u]
    BY <1>1, <1>5 DEF StepTo, TasksTyped
  <2>2. \A u \in Task : Live(u)' => KnownTask(task[u])'
    BY <1>3, <1>5, <2>1 DEF ModelInd, KnownTask, KnownIn, Live
  <2>3. QED
    BY <1>4, <2>2 DEF ModelInd
<1>6. CASE WritesNew(t)
  <2>1. up' = up /\ trained' = Append(trained, Holds(t))
    BY <1>1, <1>6, Shape DEF StepTo, WritesNew, TrainCandidate
  <2>2. PICK x : /\ StepTo(t, x) /\ x.stage = "writing" /\ x.backup = task[t].backup
                 /\ x.next.artifacts = registry.artifacts \union {Len(trained) + 1}
                 /\ Len(trained) + 1 \in DOMAIN trained'
    BY <1>6, <2>1, NewModel
  <2>3. QED
    BY <1>2, <1>3, <1>5, <2>2 DEF ModelInd, KnownTask, KnownIn, Late
<1>7. CASE WritesOld(t)
  <2>1. PICK x : /\ StepTo(t, x) /\ x.stage = "writing" /\ x.backup = task[t].backup
                 /\ x.next.artifacts = registry.artifacts
    BY <1>1, <1>7, Shape, OldModel DEF StepTo
  <2>2. QED
    BY <1>2, <1>3, <1>5, <2>1 DEF ModelInd, KnownTask, KnownIn, Late
<1>8. CASE ~WritesNew(t) /\ ~WritesOld(t)
  <2>1. PICK x : StepTo(t, x) /\ (x = None \/ Plain(task[t], x))
    BY <1>1, <1>8, PlainStep
  <2>2. QED
    BY <1>2, <1>3, <1>5, <2>1 DEF ModelInd, KnownTask, KnownIn, Plain
<1>9. QED
  BY <1>6, <1>7, <1>8

(* One of a registry's candidates was trained on all of S.                 *)
KeptIn(S, r) == \E m \in r.artifacts : S \subseteq trained[m]

(* A task is at a stage, whether or not its process lets it move.          *)
Stands(t, stage) == Live(t) /\ task[t].stage = stage

WritingOK(t) ==
  Stands(t, "writing") =>
    /\ registry.artifacts \subseteq task[t].next.artifacts
    /\ task[t].kind # "rollback" => KeptIn(Holds(t), task[t].next)

MarkingOK(t) ==
  Stands(t, "marking") /\ task[t].promoted => KeptIn(Holds(t), registry)

PromotedOK(s) ==
  sample[s].status = "PROMOTED" => s \in forfeited \/ KeptIn({s}, registry)

KeptInd ==
  ~raced => /\ \A t \in Task : WritingOK(t) /\ MarkingOK(t)
            /\ \A s \in Sample : PromotedOK(s)

(* Where a status PROMOTED comes from.                                     *)
LEMMA PromotedFrom ==
  ASSUME CoreInd, NEW t \in Task, TaskStep(t), NEW s \in Sample,
         sample'[s].status = "PROMOTED"
  PROVE  \/ sample[s].status = "PROMOTED"
         \/ Mark(t) /\ s \in Holds(t) /\ task[t].promoted
<1>1. TasksTyped /\ OthersTyped /\ Live(t)
  BY TypeParts, Shape DEF CoreInd, TypeInd
<1>2. sample[s] \in SampleRow
  BY <1>1, SamplesTyped DEF OthersTyped
<1>3. CASE Abort(t) \/ Reset(t)
  <2>1. sample' = Restored(Holds(t))
    BY <1>3 DEF Abort, Reset
  <2>2. [sample[s] EXCEPT !.status = "VERIFIED",
                          !.attempts = IF @ > 0 THEN @ - 1 ELSE 0].status = "VERIFIED"
    BY <1>2, RowFields DEF Status
  <2>3. QED
    BY <2>1, <2>2 DEF Restored
<1>4. CASE Mark(t)
  <2>1. task[t].promoted \in BOOLEAN
    BY <1>1, LiveTyped
  <2>2. Marked(sample[s], task[t].promoted).status = "PROMOTED" => task[t].promoted
    BY <1>2, <2>1, MarkedTyped
  <2>3. QED
    BY <1>4, <2>2 DEF Mark
<1>5. CASE Evaluate(t)
  <2>1. sample' = Evaluated(t)
    BY <1>5 DEF Evaluate
  <2>2. [sample[s] EXCEPT !.status = "EVALUATED", !.attempts = task[t].rows[s] + 1].status = "EVALUATED"
    BY <1>2, RowFields DEF Status
  <2>3. QED
    BY <2>1, <2>2 DEF Evaluated
<1>6. CASE ~Abort(t) /\ ~Reset(t) /\ ~Mark(t) /\ ~Evaluate(t)
  <2>1. sample' = sample
    BY <1>6 DEF TaskStep, Count, RemoveAged, Select, MarkError, Enter, Refused, Create, Exists, WritePid, Wait,
       TimesOut, FindOrphan, TakeOver, Leave, Backup, Train, TrainError, Rollback,
       WriteRegistry, Predictor, Explainer, ExplainerError, Restore, learning
  <2>2. QED
    BY <2>1
<1>7. QED
  BY <1>3, <1>4, <1>5, <1>6

(* Whoever is inside an unraced lock is the only one to write.             *)
LEMMA WritesAlone ==
  ASSUME LockInd, ~raced, NEW t \in Task, Live(t), task[t].stage \in InFile
  PROVE  \A u \in Task \ {t} : ~Stands(u, "writing") /\ ~Stands(u, "marking")
<1>1. HasFile(t)
  BY DEF HasFile, UnderFile
<1>2. \A u \in Task : Stands(u, "writing") \/ Stands(u, "marking") => HasFile(u)
  BY DEF At, Stands, HasFile, UnderFile, InFile
<1>3. QED
  BY <1>1, <1>2, OneHasTheFile

(* A step of a task: promoted samples stay in a model of the registry.     *)
LEMMA TaskStepKept ==
  ASSUME CoreInd, LockInd, ModelInd, KeptInd, NEW t \in Task, TaskStep(t)
  PROVE  KeptInd'
<1>1. TypeInd /\ RegistriesOK /\ TasksTyped /\ OthersTyped
  BY TypeParts DEF CoreInd, TypeInd
<1>2. Live(t) /\ TaskOK(task[t]) /\ Holds(t) = DOMAIN task[t].rows
  BY <1>1, Shape, LiveTyped DEF TypeInd
<1>3. PICK y : StepTo(t, y)
  BY <1>1, Shape
<1>4. \A u \in Task \ {t} : task'[u] = task[u]
  BY <1>1, <1>3 DEF StepTo, TasksTyped
<1>5. SUFFICES ASSUME ~raced'
               PROVE  /\ \A u \in Task : WritingOK(u)' /\ MarkingOK(u)'
                      /\ \A s \in Sample : PromotedOK(s)'
  BY DEF KeptInd
<1>6. /\ ~raced
      /\ \A u \in Task : WritingOK(u) /\ MarkingOK(u)
      /\ \A s \in Sample : PromotedOK(s)
  BY <1>5, RacedStays DEF KeptInd
<1>7. /\ DOMAIN trained \subseteq DOMAIN trained'
      /\ \A m \in DOMAIN trained : trained'[m] = trained[m]
  BY TrainedKeeps
<1>8. /\ KnownIn(registry)
      /\ \A u \in Task : Live(u) => KnownTask(task[u])
  BY DEF ModelInd
<1>9. ASSUME registry' = registry
      PROVE  \A u \in Task \ {t} : WritingOK(u)' /\ MarkingOK(u)'
  <2>1. SUFFICES ASSUME NEW u \in Task \ {t}
                 PROVE  WritingOK(u)' /\ MarkingOK(u)'
    OBVIOUS
  <2>2. task'[u] = task[u] /\ Holds(u)' = Holds(u)
    BY <1>4 DEF Holds, Live
  <2>3. ASSUME Stands(u, "writing")'
        PROVE  /\ registry'.artifacts \subseteq task'[u].next.artifacts
               /\ task'[u].kind # "rollback" => KeptIn(Holds(u), task[u].next)'
    <3>1. Stands(u, "writing") /\ task[u].next # None
      BY <1>1, <2>2, <2>3 DEF At, Stands, Live, TasksTyped
    <3>2. task[u].next.artifacts \subseteq DOMAIN trained
      BY <1>8, <3>1 DEF KnownTask, KnownIn, At, Stands
    <3>3. QED
      BY <1>6, <1>7, <1>9, <2>2, <3>1, <3>2 DEF WritingOK, KeptIn
  <2>4. ASSUME Stands(u, "marking")', task'[u].promoted
        PROVE  KeptIn(Holds(u), registry)'
    <3>1. Stands(u, "marking") /\ task[u].promoted
      BY <2>2, <2>4 DEF At, Stands, Live
    <3>2. QED
      BY <1>6, <1>7, <1>8, <1>9, <2>2, <3>1 DEF MarkingOK, KeptIn, KnownIn
  <2>5. QED
    BY <2>3, <2>4 DEF WritingOK, MarkingOK
<1>10. ASSUME task[t].stage \in InFile
       PROVE  \A u \in Task \ {t} : WritingOK(u)' /\ MarkingOK(u)'
  <2>1. \A u \in Task \ {t} : ~Stands(u, "writing")' /\ ~Stands(u, "marking")'
    BY <1>2, <1>4, <1>6, <1>10, WritesAlone DEF At, Stands, Live
  <2>2. QED
    BY <2>1 DEF WritingOK, MarkingOK
<1>11. ASSUME registry' = registry, forfeited' = forfeited, ~Mark(t)
       PROVE  \A s \in Sample : PromotedOK(s)'
  BY <1>6, <1>7, <1>8, <1>11, PromotedFrom DEF PromotedOK, KeptIn, KnownIn
<1>12. ASSUME ~WritesNew(t), ~WritesOld(t)
       PROVE  \E x : /\ StepTo(t, x) /\ task'[t] = x
                     /\ x = None \/ (Plain(task[t], x) /\ TaskOK(x))
  <2>1. PICK x : StepTo(t, x) /\ (x = None \/ Plain(task[t], x))
    BY <1>1, <1>12, PlainStep
  <2>2. task'[t] = x
    BY <1>1, <2>1 DEF StepTo, TasksTyped
  <2>3. QED
    BY <2>1, <2>2 DEF StepTo
<1>13. CASE WriteRegistry(t)
  <2>1. /\ task[t].stage = "writing" /\ registry' = task[t].next /\ task[t].next # None
        /\ UNCHANGED <<sample, trained, forfeited>>
    BY <1>1, <1>2, <1>13 DEF WriteRegistry, At, Stands, TasksTyped, learning
  <2>2. /\ registry.artifacts \subseteq registry'.artifacts
        /\ task[t].kind # "rollback" => KeptIn(Holds(t), registry')
    BY <1>2, <1>6, <2>1 DEF WritingOK, At, Stands
  <2>3. PICK x : /\ StepTo(t, x) /\ task'[t] = x
                 /\ x = None \/ (Plain(task[t], x) /\ TaskOK(x))
    BY <1>12, <2>1 DEF WritesNew, WritesOld, TrainCandidate, At, Stands
  <2>4. ~Stands(t, "writing")'
    BY <2>3 DEF At, Stands, Live, Plain
  <2>5. ASSUME Stands(t, "marking")'
        PROVE  KeptIn(Holds(t), registry)'
    <3>1. x # None /\ x.stage = "marking"
      BY <2>3, <2>5 DEF At, Stands, Live
    <3>2. x.rows = task[t].rows /\ task[t].kind # "rollback"
      BY <2>3, <3>1 DEF Plain, TaskOK, HoldingOK
    <3>3. Holds(t)' = Holds(t)
      BY <1>2, <2>3, <3>1, <3>2 DEF Holds, Live
    <3>4. QED
      BY <2>1, <2>2, <3>2, <3>3 DEF KeptIn
  <2>6. \A s \in Sample : PromotedOK(s)'
    BY <1>6, <2>1, <2>2 DEF PromotedOK, KeptIn
  <2>7. WritingOK(t)' /\ MarkingOK(t)'
    BY <2>4, <2>5 DEF WritingOK, MarkingOK
  <2>8. QED
    BY <1>10, <2>1, <2>6, <2>7 DEF InFile
<1>14. CASE ExplainerError(t)
  <2>1. /\ task[t].stage = "explainer" /\ registry' = task[t].backup
        /\ UNCHANGED <<sample, trained>>
        /\ forfeited' = forfeited \union
             {s \in Sample : \E m \in registry.artifacts \ task[t].backup.artifacts : s \in trained[m]}
    BY <1>14 DEF ExplainerError, At, Stands
  <2>2. PICK x : /\ StepTo(t, x) /\ task'[t] = x
                 /\ x = None \/ (Plain(task[t], x) /\ TaskOK(x))
    BY <1>12, <2>1 DEF WritesNew, WritesOld, TrainCandidate, At, Stands
  <2>3. WritingOK(t)' /\ MarkingOK(t)'
    BY <2>1, <2>2 DEF WritingOK, MarkingOK, At, Stands, Live, Plain
  <2>4. \A s \in Sample : PromotedOK(s)'
    BY <1>6, <2>1 DEF PromotedOK, KeptIn
  <2>5. QED
    BY <1>10, <2>1, <2>3, <2>4 DEF InFile
<1>15. CASE Mark(t)
  <2>1. /\ task[t].stage = "marking"
        /\ UNCHANGED <<registry, trained, forfeited>>
    BY <1>15 DEF Mark, At, Stands
  <2>2. PICK x : /\ StepTo(t, x) /\ task'[t] = x
                 /\ x = None \/ (Plain(task[t], x) /\ TaskOK(x))
    BY <1>12, <2>1 DEF WritesNew, WritesOld, TrainCandidate, At, Stands
  <2>3. WritingOK(t)' /\ MarkingOK(t)'
    BY <2>1, <2>2 DEF WritingOK, MarkingOK, At, Stands, Live, Plain
  <2>4. task[t].promoted => KeptIn(Holds(t), registry)
    BY <1>2, <1>6, <2>1 DEF MarkingOK, At, Stands
  <2>5. \A s \in Sample : PromotedOK(s)'
    BY <1>6, <2>1, <2>4, PromotedFrom DEF PromotedOK, KeptIn
  <2>6. QED
    BY <1>9, <2>1, <2>3, <2>5
<1>16. CASE WritesNew(t)
  <2>1. /\ task[t].stage = "training" /\ trained' = Append(trained, Holds(t)) /\ up' = up
        /\ UNCHANGED <<registry, forfeited>>
    BY <1>3, <1>16 DEF WritesNew, TrainCandidate, At, Stands, StepTo, TaskStep, Count, RemoveAged, Train, TrainError, Rollback,
       Select, Evaluate, Abort, Reset, Mark, MarkError, Enter, Refused, Create, Exists, WritePid,
       Wait, TimesOut, FindOrphan, TakeOver, Leave, Backup, WriteRegistry, Predictor, Explainer,
       ExplainerError, Restore, learning
  <2>2. PICK x : /\ StepTo(t, x) /\ x.stage = "writing" /\ x.rows = task[t].rows
                 /\ x.next.artifacts = registry.artifacts \union {Len(trained) + 1}
                 /\ trained'[Len(trained) + 1] = Holds(t)
    BY <1>16, <2>1, NewModel
  <2>3. task'[t] = x
    BY <1>1, <2>2 DEF StepTo, TasksTyped
  <2>4. ASSUME Live(t)'
        PROVE  Holds(t)' = Holds(t)
    BY <1>2, <2>2, <2>3, <2>4 DEF Holds, Live
  <2>5. WritingOK(t)' /\ MarkingOK(t)'
    BY <2>1, <2>2, <2>3, <2>4 DEF WritingOK, MarkingOK, At, Stands, KeptIn
  <2>6. ~Mark(t)
    BY <2>1 DEF Mark, At, Stands
  <2>7. QED
    BY <1>9, <1>11, <2>1, <2>5, <2>6
<1>17. CASE WritesOld(t)
  <2>1. task[t].stage = "training" /\ task[t].kind = "rollback" /\ up' = up
    BY <1>3, <1>17 DEF WritesOld, At, Stands, StepTo
  <2>2. UNCHANGED <<registry, forfeited>>
    BY <2>1 DEF At, Stands, TaskStep, Count, RemoveAged, Train, TrainCandidate, TrainError, Rollback,
       Select, Evaluate, Abort, Reset, Mark, MarkError, Enter, Refused, Create, Exists, WritePid,
       Wait, TimesOut, FindOrphan, TakeOver, Leave, Backup, WriteRegistry, Predictor, Explainer,
       ExplainerError, Restore, learning
  <2>3. PICK x : /\ StepTo(t, x) /\ x.stage = "writing" /\ x.kind = "rollback"
                 /\ x.next.artifacts = registry.artifacts
    BY <1>17, <2>1, OldModel
  <2>4. task'[t] = x
    BY <1>1, <2>3 DEF StepTo, TasksTyped
  <2>5. WritingOK(t)' /\ MarkingOK(t)'
    BY <2>2, <2>3, <2>4 DEF WritingOK, MarkingOK, At, Stands
  <2>6. ~Mark(t)
    BY <2>1 DEF Mark, At, Stands
  <2>7. QED
    BY <1>9, <1>11, <2>2, <2>5, <2>6
<1>18. CASE ~(WriteRegistry(t) \/ ExplainerError(t) \/ Mark(t) \/ WritesNew(t) \/ WritesOld(t))
  <2>1. UNCHANGED <<registry, forfeited>> /\ task[t].stage # "writing"
    BY <1>18 DEF At, Stands, TaskStep, Count, RemoveAged, Train, TrainCandidate, TrainError, Rollback,
       Select, Evaluate, Abort, Reset, MarkError, Enter, Refused, Create, Exists, WritePid,
       Wait, TimesOut, FindOrphan, TakeOver, Leave, Backup, Predictor, Explainer, Restore, learning
  <2>2. PICK x : /\ StepTo(t, x) /\ task'[t] = x
                 /\ x = None \/ (Plain(task[t], x) /\ TaskOK(x))
    BY <1>12, <1>18
  <2>3. ASSUME Stands(t, "marking")'
        PROVE  ~x.promoted
    <3>1. task[t].stage = "training" /\ x.promoted = task[t].promoted
      BY <2>1, <2>2, <2>3 DEF Plain, At, Stands, Live
    <3>2. QED
      BY <1>2, <1>8, <3>1 DEF KnownTask, Late
  <2>4. WritingOK(t)' /\ MarkingOK(t)'
    BY <2>2, <2>3 DEF WritingOK, MarkingOK, At, Stands, Live, Plain
  <2>5. QED
    BY <1>9, <1>11, <1>18, <2>1, <2>4
<1>19. QED
  BY <1>13, <1>14, <1>15, <1>16, <1>17, <1>18

(* The same for every step.                                                *)
LEMMA KeptNext ==
  ASSUME CoreInd, LockInd, ModelInd, KeptInd, [LNext]_lvars
  PROVE  ModelInd' /\ KeptInd'
<1>1. TypeInd /\ TasksTyped /\ OthersTyped
  BY TypeParts DEF CoreInd, TypeInd
<1>2. ASSUME NEW t \in Task, TaskStep(t)
      PROVE  ModelInd' /\ KeptInd'
  BY <1>2, TaskStepModels, TaskStepKept
<1>3. ASSUME UNCHANGED <<registry, trained, forfeited, raced>>,
             \A u \in Task : \/ task'[u] = task[u]
                             \/ task'[u] = None
                             \/ /\ ~task'[u].promoted /\ task'[u].stage \notin {"writing", "marking"}
                                /\ task'[u].backup = None /\ task'[u].next = None,
             \A s \in Sample : sample'[s].status = "PROMOTED" => sample[s].status = "PROMOTED"
      PROVE  ModelInd' /\ KeptInd'
  <2>1. ModelInd'
    BY <1>3 DEF ModelInd, KnownIn, KnownTask, Live
  <2>2. ASSUME NEW u \in Task
        PROVE  (WritingOK(u) => WritingOK(u)') /\ (MarkingOK(u) => MarkingOK(u)')
    <3>1. CASE task'[u] = task[u]
      BY <1>3, <3>1 DEF WritingOK, MarkingOK, At, Stands, Live, Holds, KeptIn
    <3>2. CASE task'[u] # task[u]
      BY <1>3, <3>2 DEF WritingOK, MarkingOK, At, Stands, Live
    <3>3. QED
      BY <3>1, <3>2
  <2>3. \A s \in Sample : PromotedOK(s) => PromotedOK(s)'
    BY <1>3 DEF PromotedOK, KeptIn
  <2>4. QED
    BY <1>3, <2>1, <2>2, <2>3 DEF KeptInd
<1>4. ASSUME NEW t \in Task, NEW p \in Process,
             Beginning(t, p)
      PROVE  ModelInd' /\ KeptInd'
  <2>1. UNCHANGED <<registry, trained, forfeited, raced, sample>>
    BY <1>4 DEF Beginning, AutoCheck, AskStatus, Request, learning
  <2>2. PICK x : Begins(t, p, x)
    BY <1>4, StartsTyped
  <2>3. \A u \in Task : task'[u] = IF u = t THEN x ELSE task[u]
    BY <1>1, <2>2 DEF Begins, StepTo, TasksTyped
  <2>4. QED
    BY <1>3, <2>1, <2>2, <2>3 DEF Begins
<1>5. ASSUME NEW p \in Process, Crash(p)
      PROVE  ModelInd' /\ KeptInd'
  BY <1>3, <1>5 DEF Crash
<1>6. ASSUME NEW p \in Process, Boot(p) \/ Ready(p)
      PROVE  ModelInd' /\ KeptInd'
  BY <1>3, <1>6 DEF Boot, Ready, learning
<1>7. ASSUME NEW s \in Sample, Verify(s)
      PROVE  ModelInd' /\ KeptInd'
  <2>1. PICK status \in {"VERIFIED", "UNUSABLE"} : sample' = [sample EXCEPT ![s].status = status]
    BY <1>7 DEF Verify
  <2>2. [sample[s] EXCEPT !.status = status].status = status
    BY <1>1, SamplesTyped, RowFields DEF OthersTyped, Status
  <2>3. \A r \in Sample : sample'[r].status = "PROMOTED" => sample[r].status = "PROMOTED"
    BY <1>1, <2>1, <2>2 DEF OthersTyped, SampleTyped
  <2>4. QED
    BY <1>3, <1>7, <2>3 DEF Verify
<1>8. CASE Age
  BY <1>3, <1>8 DEF Age, learning
<1>9. CASE UNCHANGED lvars
  BY <1>3, <1>9 DEF lvars, learning
<1>10. QED
  BY <1>2, <1>4, <1>5, <1>6, <1>7, <1>8, <1>9 DEF LNext, TaskStep, Beginning

(* As long as the lock holds, a PROMOTED sample was trained into a model   *)
(* that the registry knows, unless its promotion was taken back            *)
(* (mark_samples_outcome, coordinate_model_reload).                        *)
THEOREM PromotedTheorem == LSpec => []PromotedIsKept
<1>1. LInit => ModelInd /\ KeptInd
  <2>1. SUFFICES ASSUME LInit
                 PROVE  ModelInd /\ KeptInd
    OBVIOUS
  <2>2. KnownIn(registry)
    <3>1. Baseline.artifacts = {} /\ RolledBack.artifacts = {1, 2}
      BY DEF Baseline, RolledBack
    <3>2. DOMAIN <<{}, {}>> = {1, 2}
      OBVIOUS
    <3>3. QED
      BY <2>1, <3>1, <3>2 DEF LInit, KnownIn
  <2>3. \A t \in Task : ~Live(t)
    BY <2>1 DEF LInit, Live
  <2>4. \A s \in Sample : sample[s].status # "PROMOTED"
    BY <2>1 DEF LInit
  <2>5. QED
    BY <2>2, <2>3, <2>4 DEF ModelInd, KeptInd, At, Stands, WritingOK, MarkingOK, PromotedOK
<1>2. CoreInd /\ LockInd /\ ModelInd /\ KeptInd /\ [LNext]_lvars => (ModelInd /\ KeptInd)'
  BY KeptNext
<1>3. KeptInd => PromotedIsKept
  BY DEF KeptInd, PromotedOK, KeptIn, PromotedIsKept
<1>4. QED
  BY <1>1, <1>2, <1>3, CoreAndLock, PTL DEF LSpec

=============================================================================
