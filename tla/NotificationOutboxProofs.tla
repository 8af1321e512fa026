---------------------- MODULE NotificationOutboxProofs ----------------------
(***************************************************************************)
(* What TLAPS proves of NotificationOutbox, for every number of pods, jobs *)
(* and requests and every limit: types, the circuit breaker, and for jobs  *)
(* whose lease never ran out in the hands of a dispatcher and whose write- *)
(* backs did not fail, that they end once and after how many posts.        *)
(* Last, that each job lives the life JobLifeCycle describes.              *)
(***************************************************************************)
EXTENDS NotificationOutbox, TLAPS

(* A job that can still be claimed has attempts left, and a claim too.     *)
AttemptsLeft ==
  /\ \A j \in Job : status[j] \notin Terminal => attempts[j] < MaxAttempts
  /\ \A p \in Pod, j \in Job : task[p][j] # "none" => seen[p][j] < MaxAttempts

(* A job is in the hands of one pod at most, and then its row says so.     *)
OneHolder ==
  \A j \in Job \ doubtful, p, q \in Pod :
    task[p][j] # "none" /\ task[q][j] # "none" => p = q

HolderIsCurrent ==
  \A j \in Job \ doubtful, p \in Pod :
    task[p][j] # "none" =>
      status[j] = "PROCESSING" /\ ~stale[j] /\ seen[p][j] = attempts[j]

(* One post for each counted attempt, for the one under way, and for each  *)
(* dispatcher that died.                                                   *)
Answered == {"delivered", "terminal", "retry"}

PostsCounted ==
  \A j \in Job \ doubtful :
    /\ sent[j] <= MaxAttempts + faults
    /\ status[j] \notin Terminal /\ (\A p \in Pod : task[p][j] \notin Answered)
         => sent[j] <= attempts[j] + faults
    /\ status[j] \notin Terminal => sent[j] <= attempts[j] + faults + 1

BreakerInd == (broken => noticed) /\ OneNoticePerTrip /\ TrippedStaysTripped

NInd == NTypeOK /\ AttemptsLeft /\ OneHolder /\ HolderIsCurrent /\ PostsCounted

-----------------------------------------------------------------------------

(* No job, no claim, an unbroken breaker.                                  *)
LEMMA NInitInd == NInit => NInd /\ BreakerInd
<1> SUFFICES ASSUME NInit PROVE NInd /\ BreakerInd
  OBVIOUS
<1> USE OutboxAssumption DEF NInit
<1>1. NTypeOK
  <2>1. 0 \in 0 .. MaxAttempts /\ "none" \in Stage
    BY DEF Stage
  <2>2. /\ status \in [Job -> {"none", "PENDING", "PROCESSING"} \union Terminal]
        /\ attempts \in [Job -> 0 .. MaxAttempts]
        /\ due \in [Job -> BOOLEAN] /\ stale \in [Job -> BOOLEAN]
    BY <2>1
  <2>3. task \in [Pod -> [Job -> Stage]] /\ seen \in [Pod -> [Job -> 0 .. MaxAttempts]]
    BY <2>1
  <2>4. request \in [Request -> Update \union {None}] /\ sent \in [Job -> Nat]
    OBVIOUS
  <2>5. lapses \in 0 .. MaxLapses /\ faults \in 0 .. MaxFaults /\ ops \in 0 .. MaxOps
    OBVIOUS
  <2>6. /\ enabled \in BOOLEAN /\ broken \in BOOLEAN /\ noticed \in BOOLEAN /\ raced \in BOOLEAN
        /\ failures \in Nat /\ trips \in Nat /\ notices \in Nat /\ doubtful \subseteq Job
    OBVIOUS
  <2> HIDE DEF NInit
  <2>7. QED
    BY <2>2, <2>3, <2>4, <2>5, <2>6 DEF NTypeOK
<1>2. AttemptsLeft /\ OneHolder /\ HolderIsCurrent /\ PostsCounted
  BY DEF AttemptsLeft, OneHolder, HolderIsCurrent, PostsCounted, Terminal, Answered
<1>3. BreakerInd
  BY DEF BreakerInd, OneNoticePerTrip, TrippedStaysTripped
<1>4. QED
  BY <1>1, <1>2, <1>3 DEF NInd

(* The preferences keep their types and the breaker its history, whatever  *)
(* a write-back or a request does to them.                                 *)
PrefTypeOK ==
  /\ enabled \in BOOLEAN /\ broken \in BOOLEAN /\ noticed \in BOOLEAN /\ raced \in BOOLEAN
  /\ failures \in Nat /\ trips \in Nat /\ notices \in Nat

(* A failure counted.                                                      *)
LEMMA IncrementInd == ASSUME PrefTypeOK, BreakerInd, IncrementBreaker PROVE PrefTypeOK' /\ BreakerInd'
<1> USE OutboxAssumption DEF PrefTypeOK, BreakerInd, OneNoticePerTrip, TrippedStaysTripped
<1> DEFINE trip == failures + 1 >= Threshold
           tells == trip /\ ~AlreadyNoticed(trip)
<1>1. /\ failures' = failures + 1
      /\ broken' = (broken \/ trip)
      /\ enabled' = (enabled /\ ~trip)
      /\ noticed' = (tells \/ AlreadyNoticed(trip))
      /\ notices' = IF tells THEN notices + 1 ELSE notices
      /\ trips' = IF trip /\ ~broken THEN trips + 1 ELSE trips
      /\ UNCHANGED raced
  BY DEF IncrementBreaker
<1>2. CASE trip
  <2>1. tells = ~broken
    BY <1>2 DEF AlreadyNoticed
  <2>2. CASE broken
    <3>1. noticed' /\ broken' /\ notices' = notices /\ trips' = trips
      BY <1>1, <1>2, <2>1, <2>2 DEF AlreadyNoticed
    <3>2. QED
      BY <1>1, <1>2, <3>1
  <2>3. CASE ~broken
    <3>1. noticed' /\ broken' /\ notices' = notices + 1 /\ trips' = trips + 1
      BY <1>1, <1>2, <2>1, <2>3
    <3>2. QED
      BY <1>1, <1>2, <3>1
  <2>4. QED
    BY <2>2, <2>3
<1>3. CASE ~trip
  <2>1. noticed' = noticed /\ broken' = broken /\ notices' = notices /\ trips' = trips
    BY <1>1, <1>3 DEF AlreadyNoticed
  <2>2. QED
    BY <1>1, <2>1
<1>4. QED
  BY <1>2, <1>3

(* A write-back moves the job to a status that fits its attempts; the      *)
(* other jobs are left alone.                                              *)
LEMMA WriteBackInd ==
  ASSUME NInd, BreakerInd, NEW p \in Pod, NEW j \in Job, WriteBack(p, j)
  PROVE  /\ task[p][j] # "none"
         /\ PrefTypeOK' /\ BreakerInd'
         /\ \E s \in {"PENDING"} \union Terminal, a \in 0 .. MaxAttempts, d \in BOOLEAN :
              /\ status' = [status EXCEPT ![j] = s]
              /\ attempts' = [attempts EXCEPT ![j] = a]
              /\ due' = [due EXCEPT ![j] = d]
              /\ stale' = [stale EXCEPT ![j] = FALSE]
              /\ s = "PENDING" => a < MaxAttempts /\ a = seen[p][j] + 1
<1> USE OutboxAssumption
<1>1. PrefTypeOK
  BY DEF NInd, NTypeOK, PrefTypeOK
<1>2. /\ attempts = [attempts EXCEPT ![j] = attempts[j]] /\ attempts[j] \in 0 .. MaxAttempts
      /\ due = [due EXCEPT ![j] = due[j]] /\ due[j] \in BOOLEAN
      /\ seen[p][j] \in 0 .. MaxAttempts
  BY DEF NInd, NTypeOK
<1>3. CASE task[p][j] = "delivered" /\ Success(j)
  <2>1. PrefTypeOK' /\ BreakerInd'
    BY <1>1, <1>3 DEF Success, AfterSuccess, PrefTypeOK, BreakerInd, OneNoticePerTrip,
                      TrippedStaysTripped
  <2>2. QED
    BY <1>2, <1>3, <2>1 DEF Success, Terminal
<1>4. CASE task[p][j] \in {"refused", "terminal"} /\ TerminalFailure(j)
  <2>1. PrefTypeOK' /\ BreakerInd'
    BY <1>1, <1>4, IncrementInd DEF TerminalFailure
  <2>2. QED
    BY <1>2, <1>4, <2>1 DEF TerminalFailure, Terminal
<1>5. CASE task[p][j] = "retry" /\ RetryOrFail(p, j)
  <2>1. NewAttempt(p, j) \in 0 .. MaxAttempts /\ NewAttempt(p, j) = seen[p][j] + 1
    BY <1>2, <1>5 DEF NewAttempt, NInd, AttemptsLeft
  <2>2. CASE Exhausted(p, j)
    <3>1. PrefTypeOK' /\ BreakerInd'
      BY <1>1, <1>5, <2>2, IncrementInd DEF RetryOrFail
    <3>2. /\ status' = [status EXCEPT ![j] = "FAILED"]
          /\ attempts' = [attempts EXCEPT ![j] = NewAttempt(p, j)]
          /\ due' = [due EXCEPT ![j] = due[j]]
          /\ stale' = [stale EXCEPT ![j] = FALSE]
      BY <1>2, <1>5, <2>2 DEF RetryOrFail
    <3>3. "FAILED" \in {"PENDING"} \union Terminal /\ "FAILED" # "PENDING"
      BY DEF Terminal
    <3>4. QED
      BY <1>2, <1>5, <2>1, <3>1, <3>2, <3>3
  <2>3. CASE ~Exhausted(p, j)
    <3>1. PrefTypeOK' /\ BreakerInd'
      BY <1>1, <1>5, <2>3 DEF RetryOrFail, prefVars, PrefTypeOK, BreakerInd, OneNoticePerTrip,
                              TrippedStaysTripped
    <3>2. NewAttempt(p, j) < MaxAttempts
      BY <2>1, <2>3 DEF Exhausted
    <3>3. QED
      BY <1>5, <2>1, <2>3, <3>1, <3>2 DEF RetryOrFail
  <2>4. QED
    BY <2>2, <2>3
<1>6. QED
  BY <1>3, <1>4, <1>5 DEF WriteBack

(* Pod p goes on to the stage s of its job j, or is done with it.          *)
LEMMA TaskMoves ==
  ASSUME NTypeOK, NEW p \in Pod, NEW j \in Job, NEW s \in Stage, Goto(p, j, s)
  PROVE  /\ task' \in [Pod -> [Job -> Stage]]
         /\ \A q \in Pod, i \in Job : task'[q][i] = IF q = p /\ i = j THEN s ELSE task[q][i]
  BY DEF NTypeOK, Goto

(* A job that is done with, one or the other way.                          *)
LEMMA TaskEnds ==
  ASSUME NTypeOK, NEW p \in Pod, NEW j \in Job, Done(p, j)
  PROVE  /\ task' \in [Pod -> [Job -> Stage]]
         /\ \A q \in Pod, i \in Job : task'[q][i] = IF q = p /\ i = j THEN "none" ELSE task[q][i]
         /\ seen' \in [Pod -> [Job -> 0 .. MaxAttempts]]
         /\ \A q \in Pod, i \in Job : seen'[q][i] = IF q = p /\ i = j THEN 0 ELSE seen[q][i]
<1>1. "none" \in Stage /\ Goto(p, j, "none")
  BY DEF Done, Goto, Stage
<1>2. /\ seen' \in [Pod -> [Job -> 0 .. MaxAttempts]]
      /\ \A q \in Pod, i \in Job : seen'[q][i] = IF q = p /\ i = j THEN 0 ELSE seen[q][i]
  BY OutboxAssumption DEF NTypeOK, Done
<1> QED
  BY <1>1, <1>2, TaskMoves

-----------------------------------------------------------------------------
(* The actions.                                                            *)

(* Each action preserves the invariant; first a new job.                   *)
LEMMA EnqueueInd == ASSUME NInd, NEW j \in Job, Enqueue(j) PROVE NInd'
<1> USE OutboxAssumption DEF NInd
<1>1. /\ status' = [status EXCEPT ![j] = "PENDING"] /\ due' = [due EXCEPT ![j] = TRUE]
      /\ status[j] = "none"
      /\ UNCHANGED <<attempts, stale, task, seen, prefVars, request, sent, doubtful, bounds>>
  BY DEF Enqueue
<1>2. NTypeOK'
  BY <1>1 DEF NTypeOK, prefVars, bounds
<1>3. \A i \in Job : status'[i] = IF i = j THEN "PENDING" ELSE status[i]
  BY <1>1 DEF NTypeOK
<1>4. AttemptsLeft' /\ OneHolder' /\ HolderIsCurrent' /\ PostsCounted'
  BY <1>1, <1>3 DEF AttemptsLeft, OneHolder, HolderIsCurrent, PostsCounted, Terminal, bounds
<1>5. QED
  BY <1>2, <1>4

(* A claim: nobody else holds an eligible job outside doubt.               *)
LEMMA ClaimInd == ASSUME NInd, NEW p \in Pod, Claim(p) PROVE NInd'
<1> USE OutboxAssumption DEF NInd
<1>1. PICK S \in SUBSET Eligible :
        /\ status' = [j \in Job |-> IF j \in S THEN "PROCESSING" ELSE status[j]]
        /\ stale' = [j \in Job |-> j \notin S /\ stale[j]]
        /\ task' = [task EXCEPT ![p] = [j \in Job |-> IF j \in S THEN "claimed" ELSE "none"]]
        /\ seen' = [seen EXCEPT ![p] = [j \in Job |-> IF j \in S THEN attempts[j] ELSE 0]]
  BY DEF Claim
<1>2. UNCHANGED <<attempts, due, prefVars, request, sent, doubtful, bounds>> /\ Idle(p)
  BY DEF Claim
<1>3. \A j \in S : j \in Job /\ (status[j] = "PENDING" \/ (status[j] = "PROCESSING" /\ stale[j]))
  BY DEF Eligible
<1>4. /\ \A q \in Pod, j \in Job : task'[q][j] =
           IF q = p THEN (IF j \in S THEN "claimed" ELSE "none") ELSE task[q][j]
      /\ \A q \in Pod, j \in Job : seen'[q][j] =
           IF q = p THEN (IF j \in S THEN attempts[j] ELSE 0) ELSE seen[q][j]
  BY <1>1 DEF NTypeOK
<1>5. NTypeOK'
  <2>1. status' \in [Job -> {"none", "PENDING", "PROCESSING"} \union Terminal]
    BY <1>1 DEF NTypeOK
  <2>2. stale' \in [Job -> BOOLEAN]
    BY <1>1 DEF NTypeOK
  <2>3. [j \in Job |-> IF j \in S THEN "claimed" ELSE "none"] \in [Job -> Stage]
    BY DEF Stage
  <2>4. task' \in [Pod -> [Job -> Stage]]
    BY <1>1, <2>3 DEF NTypeOK
  <2>5. [j \in Job |-> IF j \in S THEN attempts[j] ELSE 0] \in [Job -> 0 .. MaxAttempts]
    BY DEF NTypeOK
  <2>6. seen' \in [Pod -> [Job -> 0 .. MaxAttempts]]
    BY <1>1, <2>5 DEF NTypeOK
  <2>7. QED
    BY <1>2, <2>1, <2>2, <2>4, <2>6 DEF NTypeOK, prefVars, bounds
<1>6. \A j \in S : status[j] \notin Terminal
  BY <1>3 DEF Terminal
<1>7. /\ \A j \in Job : status'[j] = IF j \in S THEN "PROCESSING" ELSE status[j]
      /\ \A j \in Job : stale'[j] = (j \notin S /\ stale[j])
  BY <1>1
<1>8. AttemptsLeft'
  BY <1>2, <1>3, <1>4, <1>6, <1>7 DEF AttemptsLeft
<1>9. \A j \in S \ doubtful, q \in Pod : task[q][j] = "none"
  BY <1>3 DEF HolderIsCurrent
<1>10. OneHolder'
  BY <1>2, <1>4, <1>9 DEF OneHolder
<1>11. HolderIsCurrent'
  <2> SUFFICES ASSUME NEW j \in Job \ doubtful, NEW q \in Pod, task'[q][j] # "none"
               PROVE  status'[j] = "PROCESSING" /\ ~stale'[j] /\ seen'[q][j] = attempts[j]
    BY <1>2 DEF HolderIsCurrent
  <2>1. CASE q = p
    BY <1>4, <1>7, <2>1
  <2>2. CASE q # p
    <3>1. task[q][j] # "none" /\ seen'[q][j] = seen[q][j] /\ j \notin S
      BY <1>4, <1>9, <2>2
    <3>2. QED
      BY <1>7, <3>1 DEF HolderIsCurrent
  <2>3. QED
    BY <2>1, <2>2
<1>12. PostsCounted'
  <2> SUFFICES ASSUME NEW j \in Job \ doubtful
               PROVE  /\ sent[j] <= MaxAttempts + faults
                      /\ status'[j] \notin Terminal /\ (\A q \in Pod : task'[q][j] \notin Answered)
                           => sent[j] <= attempts[j] + faults
                      /\ status'[j] \notin Terminal => sent[j] <= attempts[j] + faults + 1
    BY <1>2 DEF PostsCounted, bounds
  <2>1. status'[j] \notin Terminal => status[j] \notin Terminal
    BY <1>6, <1>7
  <2>2. (\A q \in Pod : task'[q][j] \notin Answered) => \A q \in Pod : task[q][j] \notin Answered
    BY <1>2, <1>4 DEF Idle, Answered
  <2>3. QED
    BY <2>1, <2>2 DEF PostsCounted
<1>13. QED
  BY <1>5, <1>8, <1>10, <1>11, <1>12

(* The steps of a delivery that do not touch the database.                 *)
LEMMA DeliverInd ==
  ASSUME NInd, NEW p \in Pod, NEW j \in Job,
         CheckPreferences(p, j) \/ Post(p, j) \/ Unsent(p, j)
  PROVE  NInd'
<1> USE OutboxAssumption DEF NInd
<1>1. UNCHANGED <<jobVars, seen, prefVars, request, doubtful, bounds>>
  BY DEF CheckPreferences, Post, Unsent
<1>2. PICK s \in Stage \ {"none"} :
        /\ Goto(p, j, s)
        /\ \/ UNCHANGED sent
           \/ sent' = [sent EXCEPT ![j] = @ + 1] /\ s \in Answered
  BY DEF CheckPreferences, Post, Unsent, Stage, Answered
<1>3. task[p][j] \in {"claimed", "sending"}
  BY DEF CheckPreferences, Post, Unsent
<1>4. /\ task' \in [Pod -> [Job -> Stage]]
      /\ \A q \in Pod, i \in Job : task'[q][i] = IF q = p /\ i = j THEN s ELSE task[q][i]
  BY <1>2, TaskMoves
<1>5. /\ sent' \in [Job -> Nat]
      /\ \A i \in Job : i # j => sent'[i] = sent[i]
      /\ sent'[j] = sent[j] \/ (sent'[j] = sent[j] + 1 /\ s \in Answered)
  <2>1. sent \in [Job -> Nat] /\ sent[j] + 1 \in Nat
    BY DEF NTypeOK
  <2>2. CASE UNCHANGED sent
    BY <2>1, <2>2
  <2>3. CASE sent' = [sent EXCEPT ![j] = @ + 1] /\ s \in Answered
    BY <2>1, <2>3
  <2>4. QED
    BY <1>2, <2>2, <2>3
<1>6. NTypeOK'
  BY <1>1, <1>4, <1>5 DEF NTypeOK, jobVars, prefVars, bounds
<1>7. AttemptsLeft' /\ OneHolder' /\ HolderIsCurrent'
  BY <1>1, <1>2, <1>3, <1>4 DEF AttemptsLeft, OneHolder, HolderIsCurrent, jobVars
<1>8. PostsCounted'
  <2> SUFFICES ASSUME NEW i \in Job \ doubtful
               PROVE  /\ sent'[i] <= MaxAttempts + faults
                      /\ status[i] \notin Terminal /\ (\A q \in Pod : task'[q][i] \notin Answered)
                           => sent'[i] <= attempts[i] + faults
                      /\ status[i] \notin Terminal => sent'[i] <= attempts[i] + faults + 1
    BY <1>1 DEF PostsCounted, jobVars, bounds
  <2>1. CASE i # j
    BY <1>4, <1>5, <2>1 DEF PostsCounted
  <2>2. CASE i = j
    <3>1. status[j] = "PROCESSING" /\ \A q \in Pod : task[q][j] \notin Answered
      BY <1>3, <2>2 DEF HolderIsCurrent, OneHolder, Answered
    <3>2. sent[j] <= attempts[j] + faults /\ attempts[j] < MaxAttempts
      BY <2>2, <3>1 DEF PostsCounted, AttemptsLeft, Terminal
    <3>3. attempts[j] \in Nat /\ sent[j] \in Nat /\ faults \in Nat
      BY DEF NTypeOK
    <3>4. (\A q \in Pod : task'[q][j] \notin Answered) => s \notin Answered
      BY <1>4
    <3>5. QED
      BY <1>5, <2>2, <3>2, <3>3, <3>4
  <2>3. QED
    BY <2>1, <2>2
<1>9. QED
  BY <1>6, <1>7, <1>8

(* A write-back that is recorded ends the delivery.                        *)
LEMMA RecordInd ==
  ASSUME NInd, BreakerInd, NEW p \in Pod, NEW j \in Job, Record(p, j)
  PROVE  NInd'
<1> USE OutboxAssumption DEF NInd
<1>1. WriteBack(p, j) /\ Done(p, j) /\ UNCHANGED <<request, sent, doubtful, bounds>>
  BY DEF Record
<1>2. PICK s \in {"PENDING"} \union Terminal, a \in 0 .. MaxAttempts, d \in BOOLEAN :
        /\ status' = [status EXCEPT ![j] = s]
        /\ attempts' = [attempts EXCEPT ![j] = a]
        /\ due' = [due EXCEPT ![j] = d]
        /\ stale' = [stale EXCEPT ![j] = FALSE]
        /\ s = "PENDING" => a < MaxAttempts /\ a = seen[p][j] + 1
  BY <1>1, WriteBackInd
<1>3. PrefTypeOK' /\ task[p][j] # "none"
  BY <1>1, WriteBackInd
<1>4. /\ task' \in [Pod -> [Job -> Stage]]
      /\ \A q \in Pod, i \in Job : task'[q][i] = IF q = p /\ i = j THEN "none" ELSE task[q][i]
  BY <1>1, TaskEnds
<1>5. /\ seen' \in [Pod -> [Job -> 0 .. MaxAttempts]]
      /\ \A q \in Pod, i \in Job : seen'[q][i] = IF q = p /\ i = j THEN 0 ELSE seen[q][i]
  BY <1>1, TaskEnds
<1>6. NTypeOK'
  BY <1>1, <1>2, <1>3, <1>4, <1>5 DEF NTypeOK, PrefTypeOK, bounds
<1>7. /\ \A i \in Job : status'[i] = IF i = j THEN s ELSE status[i]
      /\ \A i \in Job : attempts'[i] = IF i = j THEN a ELSE attempts[i]
      /\ \A i \in Job : stale'[i] = IF i = j THEN FALSE ELSE stale[i]
  BY <1>2 DEF NTypeOK
<1>8. AttemptsLeft'
  <2>1. \A i \in Job : status'[i] \notin Terminal => attempts'[i] < MaxAttempts
    BY <1>2, <1>7 DEF AttemptsLeft
  <2>2. \A q \in Pod, i \in Job : task'[q][i] # "none" => seen'[q][i] < MaxAttempts
    BY <1>4, <1>5 DEF AttemptsLeft
  <2>3. QED
    BY <2>1, <2>2 DEF AttemptsLeft
<1>9. OneHolder'
  BY <1>1, <1>4 DEF OneHolder
<1>10. j \notin doubtful => \A q \in Pod : task'[q][j] = "none"
  BY <1>3, <1>4 DEF OneHolder
<1>11. HolderIsCurrent'
  <2> SUFFICES ASSUME NEW i \in Job \ doubtful, NEW q \in Pod, task'[q][i] # "none"
               PROVE  status'[i] = "PROCESSING" /\ ~stale'[i] /\ seen'[q][i] = attempts'[i]
    BY <1>1 DEF HolderIsCurrent
  <2>1. i # j
    BY <1>10
  <2>2. task[q][i] # "none" /\ seen'[q][i] = seen[q][i]
    BY <1>4, <1>5, <2>1
  <2>3. status'[i] = status[i] /\ attempts'[i] = attempts[i] /\ stale'[i] = stale[i]
    BY <1>7, <2>1
  <2>4. QED
    BY <2>2, <2>3 DEF HolderIsCurrent
<1>12. PostsCounted'
  <2> SUFFICES ASSUME NEW i \in Job \ doubtful
               PROVE  /\ sent[i] <= MaxAttempts + faults
                      /\ status'[i] \notin Terminal /\ (\A q \in Pod : task'[q][i] \notin Answered)
                           => sent[i] <= attempts'[i] + faults
                      /\ status'[i] \notin Terminal => sent[i] <= attempts'[i] + faults + 1
    BY <1>1 DEF PostsCounted, bounds
  <2>1. CASE i # j
    BY <1>4, <1>7, <2>1 DEF PostsCounted
  <2>2. CASE i = j
    <3>1. status[j] = "PROCESSING" /\ seen[p][j] = attempts[j]
      BY <1>3, <2>2 DEF HolderIsCurrent
    <3>2. sent[j] <= attempts[j] + faults + 1
      BY <2>2, <3>1 DEF PostsCounted, Terminal
    <3>3. attempts[j] \in Nat /\ sent[j] \in Nat /\ faults \in Nat
      BY DEF NTypeOK
    <3>4. status'[j] \notin Terminal => attempts'[j] = attempts[j] + 1
      BY <1>2, <1>7, <3>1
    <3>5. QED
      BY <2>2, <3>2, <3>3, <3>4 DEF PostsCounted
  <2>3. QED
    BY <2>1, <2>2
<1>13. QED
  BY <1>6, <1>8, <1>9, <1>11, <1>12

(* One that fails leaves its job in doubt, and the other jobs alone.       *)
LEMMA RecordFailsInd ==
  ASSUME NInd, BreakerInd, NEW p \in Pod, NEW j \in Job, RecordFails(p, j)
  PROVE  NInd' /\ BreakerInd'
<1> USE OutboxAssumption DEF NInd
<1>1. /\ doubtful' = doubtful \union {j}
      /\ faults' = faults + 1 /\ faults < MaxFaults
      /\ UNCHANGED <<request, sent, lapses, ops>>
  BY DEF RecordFails, Fault
<1>2. /\ task[p][j] # "none"
      /\ PrefTypeOK' /\ BreakerInd'
      /\ \E s \in {"none", "PENDING", "PROCESSING"} \union Terminal, a \in 0 .. MaxAttempts,
            d, l \in BOOLEAN :
           /\ status' = [status EXCEPT ![j] = s]
           /\ attempts' = [attempts EXCEPT ![j] = a]
           /\ due' = [due EXCEPT ![j] = d]
           /\ stale' = [stale EXCEPT ![j] = l]
           /\ s \notin Terminal => a < MaxAttempts
  <2>1. CASE WriteBack(p, j)
    <3>1. task[p][j] # "none" /\ PrefTypeOK' /\ BreakerInd'
      BY <2>1, WriteBackInd
    <3>2. PICK s \in {"PENDING"} \union Terminal, a \in 0 .. MaxAttempts, d \in BOOLEAN :
            /\ status' = [status EXCEPT ![j] = s]
            /\ attempts' = [attempts EXCEPT ![j] = a]
            /\ due' = [due EXCEPT ![j] = d]
            /\ stale' = [stale EXCEPT ![j] = FALSE]
            /\ s = "PENDING" => a < MaxAttempts
      BY <2>1, WriteBackInd
    <3>3. FALSE \in BOOLEAN /\ s \in {"none", "PENDING", "PROCESSING"} \union Terminal
          /\ (s \notin Terminal => a < MaxAttempts)
      BY <3>2 DEF Terminal
    <3>4. QED
      BY <3>1, <3>2, <3>3
  <2>2. CASE task[p][j] \in {"delivered", "refused", "terminal", "retry"}
             /\ UNCHANGED <<jobVars, prefVars>>
    <3>1. PrefTypeOK' /\ BreakerInd'
      BY <2>2 DEF NTypeOK, PrefTypeOK, BreakerInd, OneNoticePerTrip, TrippedStaysTripped, prefVars
    <3>2. /\ status' = [status EXCEPT ![j] = status[j]]
          /\ attempts' = [attempts EXCEPT ![j] = attempts[j]]
          /\ due' = [due EXCEPT ![j] = due[j]]
          /\ stale' = [stale EXCEPT ![j] = stale[j]]
      BY <2>2 DEF NTypeOK, jobVars
    <3>3. /\ status[j] \in {"none", "PENDING", "PROCESSING"} \union Terminal
          /\ attempts[j] \in 0 .. MaxAttempts /\ due[j] \in BOOLEAN /\ stale[j] \in BOOLEAN
          /\ status[j] \notin Terminal => attempts[j] < MaxAttempts
      BY DEF NTypeOK, AttemptsLeft
    <3>4. QED
      BY <2>2, <3>1, <3>2, <3>3
  <2>3. QED
    BY <2>1, <2>2 DEF RecordFails
<1>3. PICK s \in {"none", "PENDING", "PROCESSING"} \union Terminal, a \in 0 .. MaxAttempts,
           d \in BOOLEAN, l \in BOOLEAN :
        /\ status' = [status EXCEPT ![j] = s]
        /\ attempts' = [attempts EXCEPT ![j] = a]
        /\ due' = [due EXCEPT ![j] = d]
        /\ stale' = [stale EXCEPT ![j] = l]
        /\ s \notin Terminal => a < MaxAttempts
  BY <1>2
<1>4. /\ task' \in [Pod -> [Job -> Stage]] /\ seen' \in [Pod -> [Job -> 0 .. MaxAttempts]]
      /\ \A q \in Pod, i \in Job : q # p \/ i # j =>
           task'[q][i] = task[q][i] /\ seen'[q][i] = seen[q][i]
      /\ task'[p][j] # "none" => seen'[p][j] = seen[p][j]
  <2>1. CASE Goto(p, j, "retry") /\ UNCHANGED seen
    <3>1. /\ task' \in [Pod -> [Job -> Stage]]
          /\ \A q \in Pod, i \in Job :
               task'[q][i] = IF q = p /\ i = j THEN "retry" ELSE task[q][i]
      <4>1. "retry" \in Stage
        BY DEF Stage
      <4>2. QED
        BY <2>1, <4>1, TaskMoves
    <3>2. seen' = seen /\ seen \in [Pod -> [Job -> 0 .. MaxAttempts]]
      BY <2>1 DEF NTypeOK
    <3>3. QED
      BY <3>1, <3>2
  <2>2. CASE Done(p, j)
    <3>1. /\ task' \in [Pod -> [Job -> Stage]]
          /\ \A q \in Pod, i \in Job : task'[q][i] = IF q = p /\ i = j THEN "none" ELSE task[q][i]
      BY <2>2, TaskEnds
    <3>2. /\ seen' \in [Pod -> [Job -> 0 .. MaxAttempts]]
          /\ \A q \in Pod, i \in Job : seen'[q][i] = IF q = p /\ i = j THEN 0 ELSE seen[q][i]
      BY <2>2, TaskEnds
    <3>3. QED
      BY <3>1, <3>2
  <2>3. QED
    BY <2>1, <2>2 DEF RecordFails
<1>5. NTypeOK'
  BY <1>1, <1>2, <1>3, <1>4 DEF NTypeOK, PrefTypeOK
<1>6. /\ \A i \in Job : status'[i] = IF i = j THEN s ELSE status[i]
      /\ \A i \in Job : attempts'[i] = IF i = j THEN a ELSE attempts[i]
      /\ \A i \in Job \ {j} : stale'[i] = stale[i]
  BY <1>3 DEF NTypeOK
<1>7. AttemptsLeft'
  BY <1>2, <1>3, <1>4, <1>6 DEF AttemptsLeft
<1>8. OneHolder' /\ HolderIsCurrent'
  <2>1. ASSUME NEW i \in Job \ doubtful', NEW q \in Pod, task'[q][i] # "none"
        PROVE  /\ i \in Job \ doubtful /\ task[q][i] # "none" /\ seen'[q][i] = seen[q][i]
               /\ status'[i] = status[i] /\ attempts'[i] = attempts[i] /\ stale'[i] = stale[i]
    <3>1. i # j /\ i \in Job \ doubtful
      BY <1>1
    <3>2. QED
      BY <1>4, <1>6, <2>1, <3>1
  <2>2. OneHolder'
    BY <2>1 DEF OneHolder
  <2>3. HolderIsCurrent'
    BY <2>1 DEF HolderIsCurrent
  <2>4. QED
    BY <2>2, <2>3
<1>9. PostsCounted'
  <2> SUFFICES ASSUME NEW i \in Job \ doubtful, i # j
               PROVE  /\ sent[i] <= MaxAttempts + faults + 1
                      /\ status[i] \notin Terminal /\ (\A q \in Pod : task'[q][i] \notin Answered)
                           => sent[i] <= attempts[i] + faults + 1
                      /\ status[i] \notin Terminal => sent[i] <= attempts[i] + faults + 2
    BY <1>1, <1>6 DEF PostsCounted, NTypeOK
  <2>1. \A q \in Pod : task'[q][i] = task[q][i]
    BY <1>4
  <2>2. attempts[i] \in Nat /\ sent[i] \in Nat /\ faults \in Nat
    BY DEF NTypeOK
  <2>3. QED
    BY <2>1, <2>2 DEF PostsCounted
<1>10. QED
  BY <1>2, <1>5, <1>7, <1>8, <1>9

(* A dispatcher that dies costs at most the post it was waiting for.       *)
LEMMA PodGoneInd == ASSUME NInd, NEW p \in Pod, PodGone(p) PROVE NInd'
<1> USE OutboxAssumption DEF NInd
<1>1. /\ task' = [task EXCEPT ![p] = [j \in Job |-> "none"]]
      /\ seen' = [seen EXCEPT ![p] = [j \in Job |-> 0]]
      /\ faults' = faults + 1 /\ faults < MaxFaults
      /\ UNCHANGED <<jobVars, prefVars, request, doubtful, lapses, ops>>
  BY DEF PodGone, Fault
<1>2. PICK S \in SUBSET {j \in Job : task[p][j] = "sending"} :
        sent' = [j \in Job |-> IF j \in S THEN sent[j] + 1 ELSE sent[j]]
  BY DEF PodGone
<1>3. \A q \in Pod, j \in Job :
        /\ task'[q][j] = IF q = p THEN "none" ELSE task[q][j]
        /\ seen'[q][j] = IF q = p THEN 0 ELSE seen[q][j]
  BY <1>1 DEF NTypeOK
<1>4. NTypeOK'
  <2>1. sent' \in [Job -> Nat]
    BY <1>2 DEF NTypeOK
  <2>2. task' \in [Pod -> [Job -> Stage]] /\ seen' \in [Pod -> [Job -> 0 .. MaxAttempts]]
    BY <1>1 DEF NTypeOK, Stage
  <2>3. QED
    BY <1>1, <2>1, <2>2 DEF NTypeOK, jobVars, prefVars
<1>5. AttemptsLeft' /\ OneHolder' /\ HolderIsCurrent'
  BY <1>1, <1>3 DEF AttemptsLeft, OneHolder, HolderIsCurrent, jobVars
<1>6. PostsCounted'
  <2> SUFFICES ASSUME NEW j \in Job \ doubtful
               PROVE  /\ sent'[j] <= MaxAttempts + faults + 1
                      /\ status[j] \notin Terminal => sent'[j] <= attempts[j] + faults + 1
                      /\ status[j] \notin Terminal => sent'[j] <= attempts[j] + faults + 2
    BY <1>1 DEF PostsCounted, jobVars, NTypeOK
  <2>1. attempts[j] \in Nat /\ sent[j] \in Nat /\ faults \in Nat
    BY DEF NTypeOK
  <2>2. CASE j \in S
    <3>1. status[j] = "PROCESSING" /\ \A q \in Pod : task[q][j] \notin Answered
      BY <2>2 DEF HolderIsCurrent, OneHolder, Answered
    <3>2. sent[j] <= MaxAttempts + faults /\ sent[j] <= attempts[j] + faults
      BY <3>1 DEF PostsCounted, Terminal
    <3>3. sent'[j] = sent[j] + 1
      BY <1>2, <2>2
    <3>4. QED
      BY <2>1, <3>2, <3>3
  <2>3. CASE j \notin S
    <3>1. sent'[j] = sent[j]
      BY <1>2, <2>3
    <3>2. QED
      BY <2>1, <3>1 DEF PostsCounted
  <2>4. QED
    BY <2>2, <2>3
<1>7. QED
  BY <1>4, <1>5, <1>6

(* Time; a lease that runs out under a delivery leaves its job in doubt.   *)
LEMMA TimeInd == ASSUME NInd, NEW j \in Job, BecomeDue(j) \/ Lapse(j) PROVE NInd'
<1> USE OutboxAssumption DEF NInd
<1>1. CASE BecomeDue(j)
  <2>1. /\ due' = [due EXCEPT ![j] = TRUE]
        /\ UNCHANGED <<status, attempts, stale, task, seen, prefVars, request, sent, doubtful, bounds>>
    BY <1>1 DEF BecomeDue
  <2>2. NTypeOK'
    BY <2>1 DEF NTypeOK, prefVars, bounds
  <2>3. AttemptsLeft' /\ OneHolder' /\ HolderIsCurrent' /\ PostsCounted'
    BY <2>1 DEF AttemptsLeft, OneHolder, HolderIsCurrent, PostsCounted, bounds
  <2>4. QED
    BY <2>2, <2>3
<1>2. CASE Lapse(j)
  <2>1. /\ stale' = [stale EXCEPT ![j] = TRUE]
        /\ doubtful \subseteq doubtful' /\ doubtful' \subseteq Job
        /\ lapses' \in 0 .. MaxLapses
        /\ j \notin doubtful' => ~Held(j)
        /\ UNCHANGED <<status, attempts, due, task, seen, prefVars, request, sent, faults, ops>>
    BY <1>2 DEF Lapse, NTypeOK
  <2>2. NTypeOK'
    BY <2>1 DEF NTypeOK, prefVars
  <2>3. AttemptsLeft' /\ OneHolder' /\ PostsCounted'
    BY <2>1 DEF AttemptsLeft, OneHolder, PostsCounted
  <2>4. \A i \in Job \ {j} : stale'[i] = stale[i]
    BY <2>1 DEF NTypeOK
  <2>5. HolderIsCurrent'
    BY <2>1, <2>4 DEF HolderIsCurrent, Held
  <2>6. QED
    BY <2>2, <2>3, <2>5
<1>3. QED
  BY <1>1, <1>2

(* The user's requests touch the preferences only.                         *)
LEMMA PreferencesInd ==
  ASSUME NInd, BreakerInd, NEW r \in Request,
         \/ \E on \in BOOLEAN : ReadPreferences(r, on)
         \/ CommitPreferences(r) \/ AbandonPreferences(r)
  PROVE  NInd' /\ BreakerInd'
<1> USE OutboxAssumption DEF NInd
<1>1. UNCHANGED <<jobVars, task, seen, sent, doubtful, faults, lapses>>
  BY DEF ReadPreferences, CommitPreferences, AbandonPreferences, bounds
<1>2. AttemptsLeft' /\ OneHolder' /\ HolderIsCurrent' /\ PostsCounted'
  BY <1>1 DEF AttemptsLeft, OneHolder, HolderIsCurrent, PostsCounted, jobVars
<1>3. ASSUME NEW on \in BOOLEAN, ReadPreferences(r, on) PROVE NTypeOK' /\ BreakerInd'
  <2> DEFINE u == [enables |-> IF enabled # on THEN on ELSE None,
                   closes  |-> on /\ broken, zeroes |-> on /\ failures # 0]
  <2>1. u \in Update
    BY DEF Update, NTypeOK
  <2>2. request' = [request EXCEPT ![r] = u] /\ ops' \in 0 .. MaxOps /\ UNCHANGED prefVars
    BY <1>3 DEF ReadPreferences, NTypeOK
  <2> HIDE DEF u
  <2>3. request' \in [Request -> Update \union {None}]
    BY <2>1, <2>2 DEF NTypeOK
  <2>4. NTypeOK'
    BY <1>1, <2>2, <2>3 DEF NTypeOK, jobVars, prefVars
  <2>5. BreakerInd'
    BY <2>2 DEF BreakerInd, OneNoticePerTrip, TrippedStaysTripped, prefVars
  <2>6. QED
    BY <2>4, <2>5
<1>4. CASE CommitPreferences(r)
  <2> DEFINE u == request[r]
  <2>1. u \in Update
    BY <1>4 DEF CommitPreferences, NTypeOK
  <2>2. /\ enabled' = IF u.enables = None THEN enabled ELSE u.enables
        /\ broken' = (broken /\ ~u.closes)
        /\ failures' = IF u.zeroes THEN 0 ELSE failures
        /\ noticed' = (noticed /\ ~u.closes)
        /\ raced' = (broken' /\ (raced \/ u.zeroes))
        /\ request' = [request EXCEPT ![r] = None]
        /\ UNCHANGED <<trips, notices, ops>>
    BY <1>4 DEF CommitPreferences, bounds
  <2>3. /\ enabled' \in BOOLEAN /\ broken' \in BOOLEAN /\ noticed' \in BOOLEAN
        /\ raced' \in BOOLEAN /\ failures' \in Nat
    BY <2>1, <2>2 DEF Update, NTypeOK
  <2> HIDE DEF u
  <2>4. NTypeOK'
    BY <1>1, <2>2, <2>3 DEF NTypeOK, jobVars
  <2>5. BreakerInd'
    BY <2>1, <2>2 DEF BreakerInd, OneNoticePerTrip, TrippedStaysTripped, Update, NTypeOK
  <2>6. QED
    BY <1>2, <2>4, <2>5
<1>5. CASE AbandonPreferences(r)
  <2>1. request' = [request EXCEPT ![r] = None] /\ UNCHANGED prefVars /\ UNCHANGED ops
    BY <1>5 DEF AbandonPreferences, bounds
  <2>2. NTypeOK'
    BY <1>1, <2>1 DEF NTypeOK, jobVars, prefVars
  <2>3. BreakerInd'
    BY <2>1 DEF BreakerInd, OneNoticePerTrip, TrippedStaysTripped, prefVars
  <2>4. QED
    BY <1>2, <2>2, <2>3
<1>6. QED
  BY <1>2, <1>3, <1>4, <1>5

-----------------------------------------------------------------------------

(* Every step keeps both invariants.                                       *)
LEMMA NIndStep == NInd /\ BreakerInd /\ [NNext]_nvars => NInd' /\ BreakerInd'
<1> SUFFICES ASSUME NInd, BreakerInd, [NNext]_nvars PROVE NInd' /\ BreakerInd'
  OBVIOUS
<1>1. ASSUME UNCHANGED prefVars PROVE BreakerInd'
  BY <1>1 DEF BreakerInd, OneNoticePerTrip, TrippedStaysTripped, prefVars
<1>2. ASSUME NEW p \in Pod, Claim(p) \/ PodGone(p) PROVE NInd' /\ BreakerInd'
  BY <1>1, <1>2, ClaimInd, PodGoneInd DEF Claim, PodGone
<1>3. ASSUME NEW p \in Pod, NEW j \in Job, DispatchStep(p, j) PROVE NInd' /\ BreakerInd'
  <2>1. CASE CheckPreferences(p, j) \/ Post(p, j) \/ Unsent(p, j)
    BY <1>1, <2>1, DeliverInd DEF CheckPreferences, Post, Unsent
  <2>2. CASE Record(p, j)
    BY <2>2, RecordInd, WriteBackInd DEF Record
  <2>3. QED
    BY <1>3, <2>1, <2>2 DEF DispatchStep
<1>4. ASSUME NEW j \in Job, Enqueue(j) \/ BecomeDue(j) \/ Lapse(j) PROVE NInd' /\ BreakerInd'
  BY <1>1, <1>4, EnqueueInd, TimeInd DEF Enqueue, BecomeDue, Lapse
<1>5. CASE UNCHANGED nvars
  <2>1. NTypeOK' /\ UNCHANGED prefVars
    BY <1>5 DEF NInd, NTypeOK, nvars, jobVars, prefVars, bounds
  <2>2. AttemptsLeft' /\ OneHolder' /\ HolderIsCurrent' /\ PostsCounted'
    BY <1>5 DEF NInd, AttemptsLeft, OneHolder, HolderIsCurrent, PostsCounted, nvars, jobVars, bounds
  <2>3. QED
    BY <1>1, <2>1, <2>2 DEF NInd
<1>6. QED
  BY <1>2, <1>3, <1>4, <1>5, RecordFailsInd, PreferencesInd DEF NNext

(* Both invariants hold throughout.                                        *)
THEOREM OutboxInvariant == NSafe => [](NInd /\ BreakerInd)
  BY NInitInd, NIndStep, PTL DEF NSafe

(* Jobs, claims, preferences and requests keep their types.                *)
THEOREM OutboxTypeCorrect == NSafe => []NTypeOK
<1>1. NInd => NTypeOK
  BY DEF NInd
<1>2. QED
  BY <1>1, OutboxInvariant, PTL

(* A job in nobody's doubt is posted at most MaxAttempts times, and once   *)
(* more for each dispatcher that died.                                     *)
THEOREM PostsTheorem == NSafe => []PostsBounded
<1>1. NInd => PostsBounded
  BY DEF NInd, PostsCounted, PostsBounded
<1>2. QED
  BY <1>1, OutboxInvariant, PTL

(* A tripped breaker keeps the count that tripped it.                      *)
THEOREM BreakerTheorem == NSafe => []TrippedStaysTripped
<1>1. BreakerInd => TrippedStaysTripped
  BY DEF BreakerInd
<1>2. QED
  BY <1>1, OutboxInvariant, PTL

(* Every trip sends one warning, however the dispatchers interleave.       *)
THEOREM NoticeTheorem == NSafe => []OneNoticePerTrip
<1>1. BreakerInd => OneNoticePerTrip
  BY DEF BreakerInd
<1>2. QED
  BY <1>1, OutboxInvariant, PTL

-----------------------------------------------------------------------------
(* JobLifeCycle.                                                           *)

(* A pod works on one job of its batch at a time.                          *)
OneUnderWay ==
  \A p \in Pod, i, j \in Job :
    i # j /\ task[p][i] \notin {"none", "claimed"} => task[p][j] \in {"none", "claimed"}

(* The turn is taken when the preferences are read, and kept to the end.   *)
LEMMA OneUnderWayStep ==
  ASSUME NInd, OneUnderWay, [NNext]_nvars
  PROVE  OneUnderWay'
<1>0. NTypeOK
  BY DEF NInd
<1>1. ASSUME NEW p \in Pod, NEW j \in Job, NEW s \in Stage, Goto(p, j, s),
             task[p][j] \notin {"none", "claimed"} \/ Turn(p, j)
      PROVE  OneUnderWay'
  <2>1. \A q \in Pod, i \in Job : task'[q][i] = IF q = p /\ i = j THEN s ELSE task[q][i]
    BY <1>0, <1>1, TaskMoves
  <2>2. \A i \in Job \ {j} : task[p][i] \in {"none", "claimed"}
    BY <1>1 DEF OneUnderWay, Turn
  <2>3. QED
    BY <2>1, <2>2 DEF OneUnderWay
<1>2. ASSUME NEW p \in Pod, NEW j \in Job, Done(p, j) PROVE OneUnderWay'
  BY <1>0, <1>2, TaskEnds DEF OneUnderWay
<1>3. ASSUME NEW p \in Pod, NEW f \in [Job -> {"none", "claimed"}], task' = [task EXCEPT ![p] = f]
      PROVE  OneUnderWay'
  <2>1. \A q \in Pod : task'[q] = IF q = p THEN f ELSE task[q]
    BY <1>0, <1>3 DEF NTypeOK
  <2>2. QED
    BY <2>1 DEF OneUnderWay
<1>4. ASSUME UNCHANGED task PROVE OneUnderWay'
  BY <1>4 DEF OneUnderWay
<1>5. ASSUME NEW p \in Pod, Claim(p) PROVE OneUnderWay'
  <2>1. PICK S : task' = [task EXCEPT ![p] = [j \in Job |-> IF j \in S THEN "claimed" ELSE "none"]]
    BY <1>5 DEF Claim
  <2>2. [j \in Job |-> IF j \in S THEN "claimed" ELSE "none"] \in [Job -> {"none", "claimed"}]
    OBVIOUS
  <2>3. QED
    BY <1>3, <2>1, <2>2
<1>6. ASSUME NEW p \in Pod, PodGone(p) PROVE OneUnderWay'
  <2>1. [j \in Job |-> "none"] \in [Job -> {"none", "claimed"}]
    OBVIOUS
  <2>2. QED
    BY <1>3, <1>6, <2>1 DEF PodGone
<1>7. ASSUME NEW p \in Pod, NEW j \in Job, CheckPreferences(p, j) \/ Post(p, j) \/ Unsent(p, j)
      PROVE  OneUnderWay'
  <2>1. PICK s \in Stage : Goto(p, j, s)
    BY <1>7 DEF CheckPreferences, Post, Unsent, Stage
  <2>2. task[p][j] \notin {"none", "claimed"} \/ Turn(p, j)
    BY <1>7 DEF CheckPreferences, Post, Unsent
  <2>3. QED
    BY <1>1, <2>1, <2>2
<1>8. ASSUME NEW p \in Pod, NEW j \in Job, Record(p, j) PROVE OneUnderWay'
  BY <1>2, <1>8 DEF Record
<1>9. ASSUME NEW p \in Pod, NEW j \in Job, RecordFails(p, j) PROVE OneUnderWay'
  <2>1. task[p][j] \notin {"none", "claimed"}
    BY <1>9 DEF RecordFails, WriteBack
  <2>2. Goto(p, j, "retry") \/ Done(p, j)
    BY <1>9 DEF RecordFails
  <2>3. QED
    BY <1>1, <1>2, <2>1, <2>2 DEF Stage
<1>10. ASSUME NEW j \in Job, Enqueue(j) \/ BecomeDue(j) \/ Lapse(j) PROVE UNCHANGED task
  BY <1>10 DEF Enqueue, BecomeDue, Lapse
<1>11. ASSUME NEW r \in Request,
              \/ \E on \in BOOLEAN : ReadPreferences(r, on)
              \/ CommitPreferences(r) \/ AbandonPreferences(r)
       PROVE  UNCHANGED task
  BY <1>11 DEF ReadPreferences, CommitPreferences, AbandonPreferences
<1>12. CASE UNCHANGED nvars
  BY <1>4, <1>12 DEF nvars
<1>13. QED
  BY <1>4, <1>5, <1>6, <1>7, <1>8, <1>9, <1>10, <1>11, <1>12 DEF NNext, DispatchStep

(* For JobLifeCycle, only job j moves: to the state s and n tries.         *)
JobStep(j, s, n) ==
  \A i \in Job : /\ JobState(i)' = IF i = j THEN s ELSE JobState(i)
                 /\ JobTries(i)' = IF i = j THEN n ELSE JobTries(i)

(* No job moves.                                                           *)
NoJobStep == \A i \in Job : JobState(i)' = JobState(i) /\ JobTries(i)' = JobTries(i)

(* One job changes: what that is for JobLifeCycle.                         *)
LEMMA LifeMoves ==
  ASSUME NEW j \in Job, NEW s, NEW n, JobStep(j, s, n)
  PROVE  /\ Life!Moves(j, s)
         /\ n = JobTries(j) => UNCHANGED [i \in Job |-> JobTries(i)]
         /\ n = JobTries(j) + 1 => Life!CountTry(j)
         /\ n = 0 => [i \in Job |-> JobTries(i)]' = [[i \in Job |-> JobTries(i)] EXCEPT ![j] = 0]
  BY DEF JobStep, Life!Moves, Life!CountTry

(* No job changes.                                                         *)
LEMMA LifeStutters ==
  ASSUME NoJobStep
  PROVE  UNCHANGED Life!lvars
  BY DEF NoJobStep, Life!lvars

(* What JobLifeCycle sees of a job.                                        *)
LEMMA JobSame ==
  ASSUME NEW i \in Job, status'[i] = status[i], attempts'[i] = attempts[i],
         i \in doubtful' <=> i \in doubtful,
         \A q \in Pod : task'[q][i] = "delivered" <=> task[q][i] = "delivered"
  PROVE  JobState(i)' = JobState(i) /\ JobTries(i)' = JobTries(i)
  BY DEF JobState, JobTries

(* A job in a dispatcher's hands.                                          *)
LEMMA HeldState ==
  ASSUME NInd, NEW p \in Pod, NEW j \in Job \ doubtful, task[p][j] # "none"
  PROVE  /\ JobState(j) = IF task[p][j] = "delivered" THEN "ACCEPTED" ELSE "PROCESSING"
         /\ JobTries(j) = attempts[j] /\ attempts[j] = seen[p][j]
         /\ attempts[j] < MaxAttempts /\ attempts[j] \in Nat
         /\ \A q \in Pod \ {p} : task[q][j] = "none"
<1>1. status[j] = "PROCESSING" /\ attempts[j] = seen[p][j] /\ seen[p][j] < MaxAttempts
  BY DEF NInd, HolderIsCurrent, AttemptsLeft
<1>2. \A q \in Pod \ {p} : task[q][j] = "none"
  BY DEF NInd, OneHolder
<1>3. attempts[j] \in Nat
  BY OutboxAssumption DEF NInd, NTypeOK
<1> QED
  BY <1>1, <1>2, <1>3 DEF JobState, JobTries

(* A pod goes on with a job: the others look the same.                     *)
LEMMA StageStep ==
  ASSUME NInd, NEW p \in Pod, NEW j \in Job, NEW s \in Stage, Goto(p, j, s),
         UNCHANGED <<status, attempts, doubtful>>, task[p][j] = "sending"
                                                   \/ (task[p][j] = "claimed" /\ s # "delivered")
  PROVE  NoJobStep \/ Life!LNext
<1>1. \A q \in Pod, i \in Job : task'[q][i] = IF q = p /\ i = j THEN s ELSE task[q][i]
  BY TaskMoves DEF NInd
<1>2. \A i \in Job \ {j} : JobState(i)' = JobState(i) /\ JobTries(i)' = JobTries(i)
  BY <1>1, JobSame
<1>3. CASE s # "delivered" \/ j \in doubtful
  <2>1. JobState(j)' = JobState(j) /\ JobTries(j)' = JobTries(j)
    <3>1. CASE s # "delivered"
      BY <1>1, <3>1, JobSame
    <3>2. CASE j \in doubtful
      BY <3>2 DEF JobState, JobTries
    <3> QED
      BY <1>3, <3>1, <3>2
  <2> QED
    BY <1>2, <2>1 DEF NoJobStep
<1>4. CASE s = "delivered" /\ j \notin doubtful
  <2>1. JobState(j) = "PROCESSING"
    BY <1>4, HeldState
  <2>2. JobState(j)' = "ACCEPTED" /\ JobTries(j)' = JobTries(j)
    BY <1>1, <1>4 DEF JobState, JobTries
  <2>3. JobStep(j, "ACCEPTED", JobTries(j))
    BY <1>2, <2>2 DEF JobStep
  <2>4. Life!Accept(j)
    BY <2>1, <2>3, LifeMoves DEF Life!Accept
  <2> QED
    BY <2>4 DEF Life!LNext
<1> QED
  BY <1>3, <1>4

(* An alert's transaction enqueues the job.                                *)
LEMMA EnqueueLife ==
  ASSUME NInd, NEW j \in Job, Enqueue(j)
  PROVE  NoJobStep \/ Life!LNext
<1>1. /\ status[j] = "none" /\ \A i \in Job : status'[i] = IF i = j THEN "PENDING" ELSE status[i]
      /\ UNCHANGED <<attempts, task, doubtful>>
  BY DEF Enqueue, NInd, NTypeOK
<1>2. \A i \in Job \ {j} : JobState(i)' = JobState(i) /\ JobTries(i)' = JobTries(i)
  BY <1>1, JobSame
<1>3. CASE j \in doubtful
  BY <1>1, <1>2, <1>3 DEF NoJobStep, JobState, JobTries
<1>4. CASE j \notin doubtful
  <2>1. \A q \in Pod : task[q][j] = "none"
    BY <1>1, <1>4 DEF NInd, HolderIsCurrent
  <2>2. JobState(j) = "none" /\ JobState(j)' = "PENDING" /\ JobTries(j)' = JobTries(j)
    BY <1>1, <1>4, <2>1 DEF JobState, JobTries
  <2>3. JobStep(j, "PENDING", JobTries(j))
    BY <1>2, <2>2 DEF JobStep
  <2>4. Life!Enter(j)
    BY <2>2, <2>3, LifeMoves DEF Life!Enter
  <2> QED
    BY <2>4 DEF Life!LNext
<1> QED
  BY <1>3, <1>4

(* A claim takes the pending jobs of its batch; those it takes over from a *)
(* dispatcher that died are being processed already.                       *)
LEMMA ClaimLife ==
  ASSUME NInd, NEW p \in Pod, Claim(p)
  PROVE  NoJobStep \/ Life!LNext
<1>1. PICK S \in SUBSET Eligible :
        /\ status' = [j \in Job |-> IF j \in S THEN "PROCESSING" ELSE status[j]]
        /\ task' = [task EXCEPT ![p] = [j \in Job |-> IF j \in S THEN "claimed" ELSE "none"]]
  BY DEF Claim
<1>2. UNCHANGED <<attempts, doubtful>> /\ \A j \in Job : task[p][j] = "none"
  BY DEF Claim, Idle
<1>3. \A q \in Pod, j \in Job : task'[q][j] = "delivered" <=> task[q][j] = "delivered"
  BY <1>1, <1>2 DEF NInd, NTypeOK
<1>4. \A j \in Job : status'[j] = IF j \in S THEN "PROCESSING" ELSE status[j]
  BY <1>1
<1> DEFINE T == {j \in S : j \notin doubtful /\ status[j] = "PENDING"}
<1>5. \A j \in Job : JobTries(j)' = JobTries(j)
  BY <1>2 DEF JobTries
<1>6. ASSUME NEW j \in Job, j \notin S \/ j \in doubtful PROVE JobState(j)' = JobState(j)
  BY <1>2, <1>3, <1>4, <1>6 DEF JobState
<1>7. ASSUME NEW j \in S, j \notin doubtful
      PROVE  JobState(j) = status[j] /\ JobState(j)' = "PROCESSING"
             /\ status[j] \in {"PENDING", "PROCESSING"}
  <2>1. j \in Job /\ (status[j] = "PENDING" \/ (status[j] = "PROCESSING" /\ stale[j]))
    BY DEF Eligible
  <2>2. \A q \in Pod : task[q][j] = "none"
    BY <1>7, <2>1 DEF NInd, HolderIsCurrent
  <2> QED
    BY <1>2, <1>3, <1>4, <1>7, <2>1, <2>2 DEF JobState
<1>8. \A j \in Job : JobState(j)' = IF j \in T THEN "PROCESSING" ELSE JobState(j)
  BY <1>6, <1>7
<1>9. \A j \in T : JobState(j) = "PENDING" /\ j \in Job
  BY <1>7 DEF Eligible
<1> HIDE DEF T
<1>10. Life!Take(T)
  BY <1>5, <1>8, <1>9 DEF Life!Take
<1> QED
  BY <1>9, <1>10 DEF Life!LNext

(* What a write-back does to its job and to no other.                      *)
LEMMA WritesOne ==
  ASSUME NInd, BreakerInd, NEW p \in Pod, NEW j \in Job, WriteBack(p, j)
  PROVE  /\ task[p][j] \in {"delivered", "refused", "terminal", "retry"}
         /\ \A i \in Job \ {j} : status'[i] = status[i] /\ attempts'[i] = attempts[i]
<1>1. PICK s, a : status' = [status EXCEPT ![j] = s] /\ attempts' = [attempts EXCEPT ![j] = a]
  BY WriteBackInd
<1>2. status \in [Job -> {"none", "PENDING", "PROCESSING"} \union Terminal]
      /\ attempts \in [Job -> 0 .. MaxAttempts]
  BY DEF NInd, NTypeOK
<1>3. task[p][j] \in {"delivered", "refused", "terminal", "retry"}
  BY DEF WriteBack
<1> QED
  BY <1>1, <1>2, <1>3

(* A write-back that goes through.                                         *)
LEMMA RecordLife ==
  ASSUME NInd, BreakerInd, NEW p \in Pod, NEW j \in Job, Record(p, j)
  PROVE  NoJobStep \/ Life!LNext
<1>1. WriteBack(p, j) /\ Done(p, j) /\ UNCHANGED doubtful
  BY DEF Record
<1>2. \A q \in Pod, i \in Job : task'[q][i] = IF q = p /\ i = j THEN "none" ELSE task[q][i]
  BY <1>1, TaskEnds DEF NInd
<1>3. \A i \in Job \ {j} : JobState(i)' = JobState(i) /\ JobTries(i)' = JobTries(i)
  BY <1>1, <1>2, JobSame, WritesOne
<1>4. CASE j \in doubtful
  BY <1>1, <1>3, <1>4 DEF NoJobStep, JobState, JobTries
<1>5. CASE j \notin doubtful
  <2>0. /\ task[p][j] # "none"
        /\ status \in [Job -> {"none", "PENDING", "PROCESSING"} \union Terminal]
        /\ attempts \in [Job -> 0 .. MaxAttempts]
    BY <1>1, WritesOne DEF NInd, NTypeOK
  <2>1. /\ JobState(j) = IF task[p][j] = "delivered" THEN "ACCEPTED" ELSE "PROCESSING"
        /\ JobTries(j) = attempts[j] /\ attempts[j] = seen[p][j]
        /\ attempts[j] < MaxAttempts /\ attempts[j] \in Nat
        /\ \A q \in Pod \ {p} : task[q][j] = "none"
    BY <1>5, <2>0, HeldState
  <2>2. JobState(j)' = status'[j] /\ JobTries(j)' = attempts'[j]
    BY <1>1, <1>2, <1>5, <2>1 DEF JobState, JobTries
  <2>3. JobStep(j, status'[j], attempts'[j])
    BY <1>3, <2>2 DEF JobStep
  <2>4. CASE task[p][j] = "delivered" /\ Success(j)
    <3>1. status'[j] = "DELIVERED" /\ attempts'[j] = JobTries(j)
      BY <2>0, <2>1, <2>4 DEF Success
    <3>2. Life!Deliver(j)
      BY <2>1, <2>3, <2>4, <3>1, LifeMoves DEF Life!Deliver
    <3> QED
      BY <3>2 DEF Life!LNext
  <2>5. CASE task[p][j] \in {"refused", "terminal"} /\ TerminalFailure(j)
    <3>1. status'[j] = "FAILED" /\ attempts'[j] = JobTries(j)
      BY <2>0, <2>1, <2>5 DEF TerminalFailure
    <3>2. Life!Fail(j)
      BY <2>1, <2>3, <2>5, <3>1, LifeMoves DEF Life!Fail
    <3> QED
      BY <3>2 DEF Life!LNext
  <2>6. CASE task[p][j] = "retry" /\ RetryOrFail(p, j)
    <3>1. attempts'[j] = JobTries(j) + 1
      BY <2>0, <2>1, <2>6 DEF RetryOrFail, NewAttempt
    <3>2. JobState(j) = "PROCESSING" /\ Life!CountTry(j) /\ Life!Moves(j, status'[j])
      BY <2>1, <2>3, <2>6, <3>1, LifeMoves
    <3>3. CASE Exhausted(p, j)
      <4>1. status'[j] = "FAILED" /\ JobTries(j) + 1 = MaxAttempts
        BY <2>0, <2>1, <2>6, <3>3, OutboxAssumption DEF RetryOrFail, Exhausted, NewAttempt
      <4>2. Life!Fail(j)
        BY <3>2, <4>1 DEF Life!Fail
      <4> QED
        BY <4>2 DEF Life!LNext
    <3>4. CASE ~Exhausted(p, j)
      <4>1. status'[j] = "PENDING" /\ JobTries(j) + 1 < MaxAttempts
        BY <2>0, <2>1, <2>6, <3>4, OutboxAssumption DEF RetryOrFail, Exhausted, NewAttempt
      <4>2. Life!Retry(j)
        BY <3>2, <4>1 DEF Life!Retry
      <4> QED
        BY <4>2 DEF Life!LNext
    <3> QED
      BY <3>3, <3>4
  <2> QED
    BY <1>1, <2>4, <2>5, <2>6 DEF WriteBack
<1> QED
  BY <1>4, <1>5

(* A job that a pod holds becomes doubtful, and nothing else moves.        *)
LEMMA AstrayLife ==
  ASSUME NInd, NEW p \in Pod, NEW j \in Job, task[p][j] # "none",
         doubtful' = doubtful \union {j},
         \A i \in Job \ {j} : JobState(i)' = JobState(i) /\ JobTries(i)' = JobTries(i)
  PROVE  NoJobStep \/ Life!LNext
<1>1. JobState(j)' = "astray" /\ JobTries(j)' = 0
  BY DEF JobState, JobTries
<1>2. CASE j \in doubtful
  BY <1>1, <1>2 DEF NoJobStep, JobState, JobTries
<1>3. CASE j \notin doubtful
  <2>1. JobState(j) \in {"PROCESSING", "ACCEPTED"}
    BY <1>3, HeldState
  <2>2. JobStep(j, "astray", 0)
    BY <1>1 DEF JobStep
  <2>3. Life!GoAstray(j)
    BY <2>1, <2>2, LifeMoves DEF Life!GoAstray
  <2> QED
    BY <2>3 DEF Life!LNext
<1> QED
  BY <1>2, <1>3

(* A write-back that raises.                                               *)
LEMMA RecordFailsLife ==
  ASSUME NInd, BreakerInd, NEW p \in Pod, NEW j \in Job, RecordFails(p, j)
  PROVE  NoJobStep \/ Life!LNext
<1>1. /\ WriteBack(p, j) \/ UNCHANGED <<status, attempts>>
      /\ task[p][j] \in {"delivered", "refused", "terminal", "retry"}
      /\ Goto(p, j, "retry") \/ Done(p, j)
      /\ doubtful' = doubtful \union {j}
  BY WritesOne DEF RecordFails, jobVars
<1>2. \A i \in Job \ {j} : status'[i] = status[i] /\ attempts'[i] = attempts[i]
  BY <1>1, WritesOne
<1>3. \A q \in Pod, i \in Job \ {j} : task'[q][i] = task[q][i]
  BY <1>1, TaskMoves, TaskEnds DEF NInd, Stage
<1>4. \A i \in Job \ {j} : JobState(i)' = JobState(i) /\ JobTries(i)' = JobTries(i)
  BY <1>1, <1>2, <1>3, JobSame
<1> QED
  BY <1>1, <1>4, AstrayLife

(* A dispatcher that dies forgets that the receiver accepted its job.      *)
LEMMA PodGoneLife ==
  ASSUME NInd, OneUnderWay, NEW p \in Pod, PodGone(p)
  PROVE  NoJobStep \/ Life!LNext
<1>1. UNCHANGED <<status, attempts, doubtful>>
  BY DEF PodGone, jobVars
<1>2. \A q \in Pod, i \in Job : task'[q][i] = IF q = p THEN "none" ELSE task[q][i]
  BY DEF PodGone, NInd, NTypeOK
<1>3. ASSUME NEW i \in Job, task[p][i] # "delivered" \/ i \in doubtful
      PROVE  JobState(i)' = JobState(i) /\ JobTries(i)' = JobTries(i)
  <2>1. CASE i \in doubtful
    BY <1>1, <2>1 DEF JobState, JobTries
  <2>2. CASE task[p][i] # "delivered"
    BY <1>1, <1>2, <2>2, JobSame
  <2> QED
    BY <1>3, <2>1, <2>2
<1>4. CASE \A i \in Job : task[p][i] # "delivered" \/ i \in doubtful
  BY <1>3, <1>4 DEF NoJobStep
<1>5. ASSUME NEW j \in Job, task[p][j] = "delivered", j \notin doubtful PROVE Life!LNext
  <2>1. /\ JobState(j) = "ACCEPTED" /\ \A q \in Pod \ {p} : task[q][j] = "none"
        /\ status[j] = "PROCESSING"
    BY <1>5, HeldState DEF NInd, HolderIsCurrent
  <2>2. JobState(j)' = "PROCESSING" /\ JobTries(j)' = JobTries(j)
    BY <1>1, <1>2, <1>5, <2>1 DEF JobState, JobTries
  <2>3. \A i \in Job \ {j} : task[p][i] # "delivered"
    BY <1>5 DEF OneUnderWay
  <2>4. JobStep(j, "PROCESSING", JobTries(j))
    BY <1>3, <2>2, <2>3 DEF JobStep
  <2>5. Life!Forget(j)
    BY <2>1, <2>4, LifeMoves DEF Life!Forget
  <2> QED
    BY <2>5 DEF Life!LNext
<1> QED
  BY <1>4, <1>5

(* Time: a lease that runs out in a dispatcher's hands.                    *)
LEMMA TimeLife ==
  ASSUME NInd, NEW j \in Job, BecomeDue(j) \/ Lapse(j)
  PROVE  NoJobStep \/ Life!LNext
<1>1. UNCHANGED <<status, attempts, task>>
  BY DEF BecomeDue, Lapse
<1>2. CASE UNCHANGED doubtful
  BY <1>1, <1>2, JobSame DEF NoJobStep
<1>3. CASE Held(j) /\ doubtful' = doubtful \union {j}
  <2>1. \A i \in Job \ {j} : JobState(i)' = JobState(i) /\ JobTries(i)' = JobTries(i)
    BY <1>1, <1>3, JobSame
  <2>2. PICK p \in Pod : task[p][j] # "none"
    BY <1>3 DEF Held
  <2> QED
    BY <1>3, <2>1, <2>2, AstrayLife
<1> QED
  BY <1>2, <1>3 DEF BecomeDue, Lapse

(* Every step is a step of JobLifeCycle or changes nothing it sees.        *)
LEMMA LifeStep ==
  ASSUME NInd, BreakerInd, OneUnderWay, [NNext]_nvars
  PROVE  [Life!LNext]_(Life!lvars)
<1>1. ASSUME UNCHANGED <<status, attempts, task, doubtful>> PROVE NoJobStep
  BY <1>1, JobSame DEF NoJobStep
<1>2. ASSUME NEW p \in Pod, Claim(p) \/ PodGone(p) PROVE NoJobStep \/ Life!LNext
  BY <1>2, ClaimLife, PodGoneLife
<1>3. ASSUME NEW p \in Pod, NEW j \in Job, CheckPreferences(p, j) \/ Post(p, j) \/ Unsent(p, j)
      PROVE  NoJobStep \/ Life!LNext
  <2>1. UNCHANGED <<status, attempts, doubtful>>
    BY <1>3 DEF CheckPreferences, Post, Unsent, jobVars
  <2>2. PICK s \in Stage :
          /\ Goto(p, j, s)
          /\ task[p][j] = "sending" \/ (task[p][j] = "claimed" /\ s # "delivered")
    BY <1>3 DEF CheckPreferences, Post, Unsent, Stage
  <2> QED
    BY <2>1, <2>2, StageStep
<1>4. ASSUME NEW p \in Pod, NEW j \in Job, Record(p, j) \/ RecordFails(p, j)
      PROVE  NoJobStep \/ Life!LNext
  BY <1>4, RecordLife, RecordFailsLife
<1>5. ASSUME NEW j \in Job, Enqueue(j) \/ BecomeDue(j) \/ Lapse(j) PROVE NoJobStep \/ Life!LNext
  BY <1>5, EnqueueLife, TimeLife
<1>6. ASSUME NEW r \in Request,
             \/ \E on \in BOOLEAN : ReadPreferences(r, on)
             \/ CommitPreferences(r) \/ AbandonPreferences(r)
      PROVE  NoJobStep
  BY <1>1, <1>6 DEF ReadPreferences, CommitPreferences, AbandonPreferences, jobVars
<1>7. ASSUME UNCHANGED nvars PROVE NoJobStep
  BY <1>1, <1>7 DEF nvars, jobVars
<1>8. NoJobStep \/ Life!LNext
  <2>1. ASSUME NEW p \in Pod, NEW j \in Job, DispatchStep(p, j) PROVE NoJobStep \/ Life!LNext
    BY <1>3, <1>4, <2>1 DEF DispatchStep
  <2>2. CASE NNext
    BY <1>2, <1>4, <1>5, <1>6, <2>1, <2>2, Zenon DEF NNext
  <2> QED
    BY <1>7, <2>2
<1> QED
  BY <1>8, LifeStutters

(* No two jobs of a pod's batch are ever under way together.               *)
LEMMA OneUnderWayAlways == NSafe => []OneUnderWay
<1>1. NInit => OneUnderWay
  BY DEF NInit, OneUnderWay
<1>2. NInd /\ OneUnderWay /\ [NNext]_nvars => OneUnderWay'
  BY OneUnderWayStep
<1> QED
  BY <1>1, <1>2, OutboxInvariant, PTL DEF NSafe

(* Whatever pods, leases, faults and preferences do, each job lives the    *)
(* life of JobLifeCycle: taken by one dispatcher, delivered only once the  *)
(* receiver has accepted it, tried MaxAttempts times at most, settled once.*)
THEOREM JobLifeCycleTheorem == NSafe => ImplementsJobLifeCycle
<1>1. NInit => Life!LInit
  BY DEF NInit, Life!LInit, JobState, JobTries
<1>2. NInd /\ BreakerInd /\ OneUnderWay /\ [NNext]_nvars => [Life!LNext]_(Life!lvars)
  BY LifeStep
<1> QED
  BY <1>1, <1>2, OutboxInvariant, OneUnderWayAlways, PTL
  DEF NSafe, ImplementsJobLifeCycle, Life!LSpec

(* A job in nobody's doubt is delivered or failed once and for all.        *)
THEOREM SettledTheorem == NSafe => SettledJobsStay
<1>1. ASSUME NInd, BreakerInd, [NNext]_nvars
      PROVE  \A j \in Job \ doubtful : status[j] \in Terminal => status'[j] = status[j]
  <2> SUFFICES ASSUME NEW j \in Job \ doubtful, status[j] \in Terminal
               PROVE  status'[j] = status[j]
    OBVIOUS
  <2>1. \A p \in Pod : task[p][j] = "none"
    BY <1>1 DEF NInd, HolderIsCurrent, Terminal
  <2>2. ASSUME NEW p \in Pod, Claim(p) PROVE status'[j] = status[j]
    BY <2>2 DEF Claim, Eligible, Terminal
  <2>3. ASSUME NEW p \in Pod, NEW i \in Job, Record(p, i) \/ RecordFails(p, i)
        PROVE  status'[j] = status[j]
    <3>1. CASE WriteBack(p, i)
      <4>1. i # j
        BY <1>1, <2>1, <3>1, WriteBackInd
      <4>2. \E s : status' = [status EXCEPT ![i] = s]
        BY <1>1, <3>1, WriteBackInd
      <4>3. QED
        BY <1>1, <4>1, <4>2 DEF NInd, NTypeOK
    <3>2. QED
      BY <2>3, <3>1 DEF Record, RecordFails, jobVars
  <2>4. ASSUME NEW i \in Job, Enqueue(i) PROVE status'[j] = status[j]
    BY <1>1, <2>4 DEF Enqueue, Terminal, NInd, NTypeOK
  <2>5. ASSUME UNCHANGED status PROVE status'[j] = status[j]
    BY <2>5
  <2>6. ASSUME NEW p \in Pod, NEW i \in Job,
               CheckPreferences(p, i) \/ Post(p, i) \/ Unsent(p, i) \/ PodGone(p)
               \/ BecomeDue(i) \/ Lapse(i)
        PROVE  UNCHANGED status
    BY <2>6 DEF CheckPreferences, Post, Unsent, PodGone, BecomeDue, Lapse, jobVars
  <2>7. ASSUME NEW r \in Request,
               \/ \E on \in BOOLEAN : ReadPreferences(r, on)
               \/ CommitPreferences(r) \/ AbandonPreferences(r)
        PROVE  UNCHANGED status
    BY <2>7 DEF ReadPreferences, CommitPreferences, AbandonPreferences, jobVars
  <2>8. ASSUME NEW p \in Pod, PodGone(p) PROVE UNCHANGED status
    BY <2>8 DEF PodGone, jobVars
  <2>9. ASSUME NEW i \in Job, BecomeDue(i) \/ Lapse(i) PROVE UNCHANGED status
    BY <2>9 DEF BecomeDue, Lapse
  <2>10. CASE UNCHANGED nvars
    BY <2>10 DEF nvars, jobVars
  <2>11. QED
    BY <1>1, <2>2, <2>3, <2>4, <2>5, <2>6, <2>7, <2>8, <2>9, <2>10 DEF NNext, DispatchStep
<1>2. QED
  BY <1>1, OutboxInvariant, PTL DEF NSafe, SettledJobsStay

=============================================================================
