------------------------- MODULE NotificationOutbox -------------------------
(***************************************************************************)
(* The webhook outbox of one user: jobs enqueued with alerts, the pods'    *)
(* dispatchers that claim, post and write them back, the user's circuit    *)
(* breaker and the requests that change the user's preferences             *)
(* (backend/services/notification_dispatcher.py, notification_service.py). *)
(*                                                                         *)
(* One step is one transaction, or the HTTP request between two of them.   *)
(* A dispatcher works through a claimed batch one job after the other; a   *)
(* claim is a lease that starts for all of them at once.  No write-back    *)
(* looks at locked_by, so that column is left out.                         *)
(***************************************************************************)
EXTENDS Integers, FiniteSets

CONSTANTS
  Pod, Job, Request, None,
  Batch,          \* batch_size of tick
  MaxAttempts,    \* MAX_ATTEMPTS
  Threshold,      \* consecutive failures that trip the breaker (5)
  MaxLapses,      \* bound: leases that lapse while the job is being worked on
  MaxFaults,      \* bound: dispatchers that die, write-backs that fail
  MaxTroubles,    \* bound: lapses and faults of one behaviour
  MaxOps          \* bound: requests that change the preferences

ASSUME OutboxAssumption ==
  /\ Batch \in Nat \ {0} /\ MaxAttempts \in Nat \ {0} /\ Threshold \in Nat \ {0}
  /\ MaxLapses \in Nat /\ MaxFaults \in Nat /\ MaxOps \in Nat /\ MaxTroubles \in Nat

VARIABLES
  status,         \* status, "none" before the job is enqueued
  attempts,       \* attempt_count
  due,            \* next_attempt_at <= now
  stale,          \* locked_at < now - LEASE_EXPIRY_SECONDS
  task,           \* task[p][j]: how far pod p is with job j
  seen,           \* seen[p][j]: the attempt_count that came with the claim
  enabled,        \* webhook_enabled
  broken,         \* circuit_broken
  failures,       \* consecutive_failures
  noticed,        \* an audit event of the trip dates from circuit_broken_at or later
  request,        \* what an open update_preferences will write
  sent,           \* history: POSTs of each job
  doubtful,       \* history: jobs whose lease ran out in the hands of a pod, or
                  \* whose write-back failed
  trips, notices, \* history: trips of the breaker, notices of a trip
  raced,          \* history: the breaker tripped under a request to re-enable
  lapses, faults, ops   \* counted against the bounds

jobVars   == <<status, attempts, due, stale>>
prefVars  == <<enabled, broken, failures, noticed, trips, notices, raced>>
bounds    == <<lapses, faults, ops>>
nvars     == <<jobVars, task, seen, prefVars, request, sent, doubtful, bounds>>

Stage == {"none",       \* not in the pod's batch
          "claimed",    \* in its batch, waiting for its turn
          "sending",    \* preferences read, host resolved, request under way
          "refused",    \* webhook disabled or circuit broken
          "delivered",  \* 2xx
          "terminal",   \* 3xx, 4xx, SSRF, secret missing or unreadable
          "retry"}      \* 5xx, time-out, DNS or transport error

Terminal == {"DELIVERED", "FAILED"}

Update == [enables : BOOLEAN \union {None}, closes : BOOLEAN, zeroes : BOOLEAN]

NTypeOK ==
  /\ status \in [Job -> {"none", "PENDING", "PROCESSING"} \union Terminal]
  /\ attempts \in [Job -> 0 .. MaxAttempts]
  /\ due \in [Job -> BOOLEAN] /\ stale \in [Job -> BOOLEAN]
  /\ task \in [Pod -> [Job -> Stage]]
  /\ seen \in [Pod -> [Job -> 0 .. MaxAttempts]]
  /\ enabled \in BOOLEAN /\ broken \in BOOLEAN /\ noticed \in BOOLEAN /\ raced \in BOOLEAN
  /\ failures \in Nat /\ trips \in Nat /\ notices \in Nat
  /\ request \in [Request -> Update \union {None}]
  /\ sent \in [Job -> Nat]
  /\ doubtful \subseteq Job
  /\ lapses \in 0 .. MaxLapses /\ faults \in 0 .. MaxFaults /\ ops \in 0 .. MaxOps

(* A user who has enabled a webhook, and no job yet.                       *)
NInit ==
  /\ status = [j \in Job |-> "none"]
  /\ attempts = [j \in Job |-> 0]
  /\ due = [j \in Job |-> FALSE] /\ stale = [j \in Job |-> FALSE]
  /\ task = [p \in Pod |-> [j \in Job |-> "none"]]
  /\ seen = [p \in Pod |-> [j \in Job |-> 0]]
  /\ enabled = TRUE /\ broken = FALSE /\ failures = 0
  /\ noticed = FALSE /\ raced = FALSE /\ trips = 0 /\ notices = 0
  /\ request = [r \in Request |-> None]
  /\ sent = [j \in Job |-> 0] /\ doubtful = {}
  /\ lapses = 0 /\ faults = 0 /\ ops = 0

Idle(p) == \A j \in Job : task[p][j] = "none"

Held(j) == \E p \in Pod : task[p][j] # "none"

(* The job of the batch whose turn it is: no other one is under way.       *)
Turn(p, j) == \A i \in Job \ {j} : task[p][i] \in {"none", "claimed"}

WithinBounds == faults + lapses < MaxTroubles

Fault == /\ faults < MaxFaults /\ WithinBounds
         /\ faults' = faults + 1 /\ UNCHANGED <<lapses, ops>>

-----------------------------------------------------------------------------
(* Enqueueing and claiming.                                                *)

(* In the transaction of the alert, by the preferences it reads.           *)
Enqueue(j) ==
  /\ status[j] = "none"
  /\ enabled /\ ~broken
  /\ status' = [status EXCEPT ![j] = "PENDING"]
  /\ due' = [due EXCEPT ![j] = TRUE]
  /\ UNCHANGED <<attempts, stale, task, seen, prefVars, request, sent, doubtful, bounds>>

(* Mutant: a job being processed can be claimed before its lease runs out. *)
EligibleEarly == {j \in Job : due[j] /\ status[j] \in {"PENDING", "PROCESSING"}}

(* Mutant: a job whose dispatcher died is never claimed again.             *)
EligibleOnce == {j \in Job : due[j] /\ status[j] = "PENDING"}

Eligible ==
  {j \in Job : /\ due[j]
               /\ status[j] = "PENDING" \/ (status[j] = "PROCESSING" /\ stale[j])}

(* _claim_jobs_sync: any eligible jobs, since SKIP LOCKED leaves some out. *)
Claim(p) ==
  /\ Idle(p)
  /\ \E S \in SUBSET Eligible :
       /\ S # {} /\ Cardinality(S) <= Batch
       /\ status' = [j \in Job |-> IF j \in S THEN "PROCESSING" ELSE status[j]]
       /\ stale' = [j \in Job |-> j \notin S /\ stale[j]]
       /\ task' = [task EXCEPT ![p] = [j \in Job |-> IF j \in S THEN "claimed" ELSE "none"]]
       /\ seen' = [seen EXCEPT ![p] = [j \in Job |-> IF j \in S THEN attempts[j] ELSE 0]]
  /\ UNCHANGED <<attempts, due, prefVars, request, sent, doubtful, bounds>>

-----------------------------------------------------------------------------
(* _dispatch_job.                                                          *)

Goto(p, j, s) == task' = [task EXCEPT ![p][j] = s]

Done(p, j) ==
  /\ task' = [task EXCEPT ![p][j] = "none"]
  /\ seen' = [seen EXCEPT ![p][j] = 0]

CheckPreferences(p, j) ==
  /\ task[p][j] = "claimed" /\ Turn(p, j)
  /\ Goto(p, j, IF enabled /\ ~broken THEN "sending" ELSE "refused")
  /\ UNCHANGED <<jobVars, seen, prefVars, request, sent, doubtful, bounds>>

(* The receiver may have got the request whatever the dispatcher hears.    *)
Post(p, j) ==
  /\ task[p][j] = "sending"
  /\ \E s \in {"delivered", "terminal", "retry"} : Goto(p, j, s)
  /\ sent' = [sent EXCEPT ![j] = @ + 1]
  /\ UNCHANGED <<jobVars, seen, prefVars, request, doubtful, bounds>>

(* No request is made: SSRF, secret (terminal) or DNS resolution (retry).  *)
Unsent(p, j) ==
  /\ task[p][j] = "sending"
  /\ \E s \in {"terminal", "retry"} : Goto(p, j, s)
  /\ UNCHANGED <<jobVars, seen, prefVars, request, sent, doubtful, bounds>>

-----------------------------------------------------------------------------
(* The write-backs, and the breaker's counter with them.                   *)

(* Mutant: the notice is not looked up before it is sent.                  *)
NeverNoticed(trip) == FALSE

AlreadyNoticed(trip) == noticed /\ (broken \/ ~trip)

(* _increment_circuit_breaker: one UPDATE, then the notice of the trip.    *)
IncrementBreaker ==
  LET trip == failures + 1 >= Threshold
      tells == trip /\ ~AlreadyNoticed(trip)
  IN /\ failures' = failures + 1
     /\ broken' = (broken \/ trip)
     /\ enabled' = (enabled /\ ~trip)
     /\ noticed' = (tells \/ AlreadyNoticed(trip))
     /\ notices' = IF tells THEN notices + 1 ELSE notices
     /\ trips' = IF trip /\ ~broken THEN trips + 1 ELSE trips
     /\ UNCHANGED raced

(* Mutant: a success resets the counter of a tripped breaker too.          *)
AlwaysReset == 0

(* "SET consecutive_failures = 0 ... AND NOT circuit_broken".              *)
AfterSuccess == IF broken THEN failures ELSE 0

Success(j) ==
  /\ status' = [status EXCEPT ![j] = "DELIVERED"]
  /\ stale' = [stale EXCEPT ![j] = FALSE]
  /\ failures' = AfterSuccess
  /\ UNCHANGED <<attempts, due, enabled, broken, noticed, trips, notices, raced>>

TerminalFailure(j) ==
  /\ status' = [status EXCEPT ![j] = "FAILED"]
  /\ stale' = [stale EXCEPT ![j] = FALSE]
  /\ IncrementBreaker
  /\ UNCHANGED <<attempts, due>>

NewAttempt(p, j) == seen[p][j] + 1

(* Mutant: one attempt too many.                                           *)
ExhaustedLate(p, j) == NewAttempt(p, j) > MaxAttempts

Exhausted(p, j) == NewAttempt(p, j) >= MaxAttempts

RetryOrFail(p, j) ==
  /\ attempts' = [attempts EXCEPT ![j] = NewAttempt(p, j)]
  /\ stale' = [stale EXCEPT ![j] = FALSE]
  /\ IF Exhausted(p, j)
     THEN /\ status' = [status EXCEPT ![j] = "FAILED"]
          /\ IncrementBreaker
          /\ UNCHANGED due
     ELSE /\ status' = [status EXCEPT ![j] = "PENDING"]
          /\ due' = [due EXCEPT ![j] = FALSE]
          /\ UNCHANGED prefVars

WriteBack(p, j) ==
  \/ task[p][j] = "delivered" /\ Success(j)
  \/ task[p][j] \in {"refused", "terminal"} /\ TerminalFailure(j)
  \/ task[p][j] = "retry" /\ RetryOrFail(p, j)

Record(p, j) ==
  /\ WriteBack(p, j)
  /\ Done(p, j)
  /\ UNCHANGED <<request, sent, doubtful, bounds>>

(* The write-back raises, before its commit or after it.  An exception     *)
(* raised inside the try of the request is taken for a transport error.    *)
RecordFails(p, j) ==
  /\ Fault
  /\ \/ WriteBack(p, j)
     \/ /\ task[p][j] \in {"delivered", "refused", "terminal", "retry"}
        /\ UNCHANGED <<jobVars, prefVars>>
  /\ \/ task[p][j] # "refused" /\ Goto(p, j, "retry") /\ UNCHANGED seen
     \/ task[p][j] \in {"refused", "terminal", "retry"} /\ Done(p, j)
  /\ doubtful' = doubtful \union {j}
  /\ UNCHANGED <<request, sent>>

(* The pod stops or dies, and starts again with nothing claimed.  The      *)
(* receiver may have got the request that was under way.                   *)
PodGone(p) ==
  /\ ~Idle(p)
  /\ Fault
  /\ \E S \in SUBSET {j \in Job : task[p][j] = "sending"} :
       sent' = [j \in Job |-> IF j \in S THEN sent[j] + 1 ELSE sent[j]]
  /\ task' = [task EXCEPT ![p] = [j \in Job |-> "none"]]
  /\ seen' = [seen EXCEPT ![p] = [j \in Job |-> 0]]
  /\ UNCHANGED <<jobVars, prefVars, request, doubtful>>

-----------------------------------------------------------------------------
(* Time.                                                                   *)

BecomeDue(j) ==
  /\ status[j] = "PENDING" /\ ~due[j]
  /\ due' = [due EXCEPT ![j] = TRUE]
  /\ UNCHANGED <<status, attempts, stale, task, seen, prefVars, request, sent, doubtful, bounds>>

(* A batch may take longer than the lease: name resolution and a dripping  *)
(* response have no deadline, and the last job waits for all the others.   *)
Lapse(j) ==
  /\ status[j] = "PROCESSING" /\ ~stale[j]
  /\ IF Held(j)
     THEN /\ lapses < MaxLapses /\ WithinBounds /\ lapses' = lapses + 1
          /\ doubtful' = doubtful \union {j}
     ELSE UNCHANGED <<lapses, doubtful>>
  /\ stale' = [stale EXCEPT ![j] = TRUE]
  /\ UNCHANGED <<status, attempts, due, task, seen, prefVars, request, sent, faults, ops>>

-----------------------------------------------------------------------------
(* update_preferences: reads the row, validates the URL (an await), then   *)
(* commits the columns that differ from what it read.                      *)

ReadPreferences(r, on) ==
  /\ request[r] = None /\ ops < MaxOps
  /\ request' = [request EXCEPT ![r] =
       [enables |-> IF enabled # on THEN on ELSE None,
        closes  |-> on /\ broken,
        zeroes  |-> on /\ failures # 0]]
  /\ ops' = ops + 1
  /\ UNCHANGED <<jobVars, task, seen, prefVars, sent, doubtful, lapses, faults>>

CommitPreferences(r) ==
  LET u == request[r] IN
  /\ u # None
  /\ enabled' = IF u.enables = None THEN enabled ELSE u.enables
  /\ broken' = (broken /\ ~u.closes)
  /\ failures' = IF u.zeroes THEN 0 ELSE failures
  /\ noticed' = (noticed /\ ~u.closes)
  /\ raced' = (broken' /\ (raced \/ u.zeroes))
  /\ request' = [request EXCEPT ![r] = None]
  /\ UNCHANGED <<jobVars, task, seen, trips, notices, sent, doubtful, bounds>>

(* The URL is refused; nothing is written.                                 *)
AbandonPreferences(r) ==
  /\ request[r] # None
  /\ request' = [request EXCEPT ![r] = None]
  /\ UNCHANGED <<jobVars, task, seen, prefVars, sent, doubtful, bounds>>

-----------------------------------------------------------------------------

DispatchStep(p, j) == CheckPreferences(p, j) \/ Post(p, j) \/ Unsent(p, j) \/ Record(p, j)

NNext ==
  \/ \E p \in Pod : Claim(p) \/ PodGone(p)
  \/ \E p \in Pod, j \in Job : DispatchStep(p, j) \/ RecordFails(p, j)
  \/ \E j \in Job : Enqueue(j) \/ BecomeDue(j) \/ Lapse(j)
  \/ \E r \in Request : \/ \E on \in BOOLEAN : ReadPreferences(r, on)
                        \/ CommitPreferences(r) \/ AbandonPreferences(r)

NSafe == NInit /\ [][NNext]_nvars

(* The poll loops run for ever, a request to the receiver comes to an end  *)
(* (or fails), time passes.  Alerts, requests and faults are not fair.     *)
NSpec ==
  /\ NSafe
  /\ \A p \in Pod : WF_nvars(\E j \in Job : DispatchStep(p, j))
  /\ \A p \in Pod : WF_nvars(Claim(p))
  /\ \A j \in Job : WF_nvars(BecomeDue(j))
  /\ \A j \in Job : WF_nvars(~Held(j) /\ Lapse(j))

-----------------------------------------------------------------------------
(* Properties.                                                             *)

(* The status, with what the receiver answered the dispatcher at work.     *)
JobState(j) ==
  IF j \in doubtful THEN "astray"
  ELSE IF \E p \in Pod : task[p][j] = "delivered" THEN "ACCEPTED" ELSE status[j]

JobTries(j) == IF j \in doubtful THEN 0 ELSE attempts[j]

Life == INSTANCE JobLifeCycle WITH
  state <- [j \in Job |-> JobState(j)], tries <- [j \in Job |-> JobTries(j)]

(* _claim_jobs_sync, _dispatch_job: pods that claim, post, retry, die and  *)
(* race for leases make of each job what JobLifeCycle says; apart from the *)
(* jobs that go astray no two dispatchers ever have the same job.          *)
ImplementsJobLifeCycle == Life!LSpec

(* _claim_jobs_sync: a delivered or failed job stays so, unless its lease  *)
(* ran out while a dispatcher was working on it or a write-back failed.    *)
SettledJobsStay ==
  [][\A j \in Job \ doubtful : status[j] \in Terminal => status'[j] = status[j]]_nvars

(* MAX_ATTEMPTS: such a job is posted at most three times, and once more   *)
(* for each dispatcher that died.                                          *)
PostsBounded ==
  \A j \in Job \ doubtful : sent[j] <= MaxAttempts + faults

(* _record_job_success, update_preferences: a tripped breaker keeps the    *)
(* count that tripped it, racing successes included, unless the user's     *)
(* request to re-enable was under way when it tripped.                     *)
TrippedStaysTripped == broken => failures >= Threshold \/ raced

(* "EXACTLY ONCE per trip": late failures of other dispatchers do not send *)
(* the warning again, and no trip goes without one.                        *)
OneNoticePerTrip == notices = trips

(* Every job is delivered or given up in the end.                          *)
JobsSettle == \A j \in Job : <>[](status[j] \in Terminal \union {"none"})

(* "DELIVERED: Terminal success", for every job.                           *)
DeliveredIsFinal ==
  [][\A j \in Job : status[j] = "DELIVERED" => status'[j] = "DELIVERED"]_nvars

=============================================================================
