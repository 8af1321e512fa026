-------------------------- MODULE MonitoringProofs --------------------------
(***************************************************************************)
(* What TLAPS proves of the two systems built on TargetLease, for every    *)
(* number of targets, pods, requests, connections and overlapping          *)
(* executions.                                                             *)
(*                                                                         *)
(* First the lemmas of TargetLease, which both systems use: what each of   *)
(* its steps does to TInd, that is, a token is written on one row, once, so*)
(* a worker that finds its token on its row is the last one that was given *)
(* the target.  Leases and clocks play no part in it.                      *)
(*                                                                         *)
(* MonitoringTargets: types, that a worker whose claim has been superseded *)
(* never commits, that no failure count is computed from an outdated one,  *)
(* that a target that keeps failing is suspended, and that registration    *)
(* respects the user's quota.                                              *)
(*                                                                         *)
(* MonitoringSystem: types, and that the executions engines start in one   *)
(* epoch belong to one pod; here TInd meets EInd of LeaderElectionProofs.  *)
(***************************************************************************)
EXTENDS MonitoringTargets, MonitoringSystem, FiniteSetTheorems, TLAPS

-----------------------------------------------------------------------------
(* TargetLease.                                                            *)

(* A token is on one row at most, and while its execution is under way the *)
(* row is the execution's target and has not been claimed again.           *)
TokensAreUnique ==
  \A t, u \in Target : token[t] # None /\ token[t] = token[u] => t = u

TokensAreCurrent ==
  \A k \in Token, t \in Target :
    Running(k) /\ token[t] = k => run[k].target = t /\ ~run[k].stale

(* A failed probe started from a count that can still be increased.        *)
VerdictsFit ==
  \A k \in Token :
    /\ Running(k) /\ run[k].stage \in {"soc", "writeback"}
    /\ run[k].verdict \in {"unreachable", "ssrf"}
    => run[k].seen < FailureCap

(* A worker whose token is still on the row has seen the row's failures,   *)
(* unless an operator reset them.                                          *)
CountsAreCurrent ==
  \A k \in Token :
    /\ Running(k) /\ run[k].stage \in {"probing", "soc", "writeback"}
    /\ token[run[k].target] = k
    => run[k].reset \/ run[k].seen = failures[run[k].target]

TInd == TTypeOK /\ TokensAreUnique /\ TokensAreCurrent /\ VerdictsFit /\ CountsAreCurrent

-----------------------------------------------------------------------------

(* Fresh rows and no executions.                                           *)
LEMMA TInitInd == ASSUME NEW S, TInit(S) PROVE TInd
  BY TargetLeaseAssumption
  DEF TInit, TInd, TTypeOK, TokensAreUnique, TokensAreCurrent, VerdictsFit,
      CountsAreCurrent, Running, Run

(* r and x are the same execution, one of them perhaps marked stale.       *)
SameButStale(x, r) ==
  /\ x.target = r.target /\ x.stage = r.stage /\ x.seen = r.seen
  /\ x.verdict = r.verdict /\ x.reset = r.reset

(* MarkStale touches nothing else of an execution.                         *)
LEMMA StaleIs ==
  ASSUME NEW r \in Run, NEW x, x = r \/ x = [r EXCEPT !.stale = TRUE]
  PROVE  x \in Run /\ SameButStale(x, r)
  BY DEF Run, SameButStale

(* Re-leasing the rows of S with fresh tokens, the new executions being    *)
(* started (N = S) or lost (N = {}).                                       *)
LEMMA LeaseInd ==
  ASSUME TInd, NEW S \in SUBSET Target, NEW f \in Injections(S), NEW e \in Nat,
         NEW p, NEW who,
         LeaseRows(S, f, e), losses' \in 0 .. MaxLosses,
         \/ p \in Pod /\ who \in {"engine", "api"} /\ Submit(S, f, p, who, e)
         \/ run' = MarkStale(S)
  PROVE  TInd'
<1> USE TargetLeaseAssumption DEF TInd
<1>1. f \in [S -> Fresh] /\ \A t, u \in S : f[t] = f[u] => t = u
  BY DEF Injections
<1>2. \A t \in S : f[t] \in Token /\ ~Running(f[t]) /\ \A u \in Target : token[u] # f[t]
  BY <1>1 DEF Fresh
<1>3. \A t \in Target : token'[t] = IF t \in S THEN f[t] ELSE token[t]
  BY DEF LeaseRows
<1>4. UNCHANGED <<active, failures, due>>
  BY DEF LeaseRows
<1>5. \A k \in Token : Running(k) =>
        /\ run'[k] \in Run \union {None}
        /\ run'[k] # None =>
             /\ SameButStale(run'[k], run[k])
             /\ run[k].target \notin S => run'[k].stale = run[k].stale
  <2> SUFFICES ASSUME NEW k \in Token, Running(k)
               PROVE  /\ run'[k] \in Run /\ SameButStale(run'[k], run[k])
                      /\ run[k].target \notin S => run'[k].stale = run[k].stale
    OBVIOUS
  <2>1. run'[k] = MarkStale(S)[k]
    <3>1. ~ \E t \in S : f[t] = k
      BY <1>2
    <3>2. CASE Submit(S, f, p, who, e)
      BY <3>1, <3>2 DEF Submit
    <3>3. QED
      BY <3>2
  <2>2. run'[k] = IF run[k].target \in S THEN [run[k] EXCEPT !.stale = TRUE] ELSE run[k]
    BY <2>1 DEF MarkStale
  <2>3. run[k] \in Run
    BY DEF TTypeOK, Running
  <2>4. QED
    BY <2>2, <2>3, StaleIs
<1>6. \A k \in Token : ~Running(k) =>
        \/ run'[k] = None
        \/ /\ p \in Pod /\ who \in {"engine", "api"}
           /\ \E t \in S : f[t] = k /\ run'[k] = NewRun(t, p, who, e)
  BY DEF Submit, MarkStale, Running
<1>7. p \in Pod /\ who \in {"engine", "api"} => \A t \in S :
        NewRun(t, p, who, e) \in Run /\ NewRun(t, p, who, e).stage = "queued"
  BY DEF NewRun, Run, Stage, Verdict
<1>8. TTypeOK'
  <2>1. token' \in [Target -> Token \union {None}]
    BY <1>1, <1>2 DEF LeaseRows, TTypeOK
  <2>2. tokenEpoch' \in [Target -> Nat] /\ lease' \in [Target -> -1 .. WorkerLease]
    BY DEF LeaseRows, TTypeOK
  <2>3. ASSUME NEW k \in Token PROVE run'[k] \in Run \union {None}
    <3>1. CASE Running(k)
      BY <1>5, <3>1
    <3>2. CASE ~Running(k)
      BY <1>6, <1>7, <3>2
    <3>3. QED
      BY <3>1, <3>2
  <2>4. run' \in [Token -> Run \union {None}]
    BY <2>3 DEF Submit, MarkStale
  <2>5. QED
    BY <1>4, <2>1, <2>2, <2>4 DEF TTypeOK
<1>9. TokensAreUnique'
  BY <1>1, <1>2, <1>3 DEF TokensAreUnique
<1>10. TokensAreCurrent'
  <2> SUFFICES ASSUME NEW k \in Token, NEW t \in Target, run'[k] # None, token'[t] = k
               PROVE  run'[k].target = t /\ ~run'[k].stale
    BY DEF TokensAreCurrent, Running
  <2>1. CASE Running(k)
    <3>1. t \notin S /\ token[t] = k
      BY <1>2, <1>3, <2>1
    <3>2. run[k].target = t /\ ~run[k].stale /\ run[k] \in Run
      BY <2>1, <3>1 DEF TokensAreCurrent, TTypeOK, Running
    <3>3. QED
      BY <1>5, <2>1, <3>1, <3>2 DEF SameButStale
  <2>2. CASE ~Running(k)
    <3>1. PICK u \in S : f[u] = k /\ run'[k] = NewRun(u, p, who, e)
      BY <1>6, <2>2
    <3>2. u = t
      BY <1>1, <1>2, <1>3, <3>1
    <3>3. QED
      BY <3>1, <3>2 DEF NewRun
  <2>3. QED
    BY <2>1, <2>2
<1>11. VerdictsFit'
  <2> SUFFICES ASSUME NEW k \in Token, run'[k] # None,
                      run'[k].stage \in {"soc", "writeback"},
                      run'[k].verdict \in {"unreachable", "ssrf"}
               PROVE  run'[k].seen < FailureCap
    BY DEF VerdictsFit, Running
  <2>1. Running(k)
    BY <1>6, <1>7
  <2>2. QED
    BY <1>5, <2>1 DEF VerdictsFit, SameButStale
<1>12. CountsAreCurrent'
  <2> SUFFICES ASSUME NEW k \in Token, run'[k] # None,
                      run'[k].stage \in {"probing", "soc", "writeback"},
                      token'[run'[k].target] = k
               PROVE  run'[k].reset \/ run'[k].seen = failures[run'[k].target]
    BY <1>4 DEF CountsAreCurrent, Running
  <2>1. Running(k)
    BY <1>6, <1>7
  <2>2. run[k] \in Run
    BY <2>1 DEF TTypeOK, Running
  <2>3. /\ run'[k].target = run[k].target /\ run'[k].stage = run[k].stage
        /\ run'[k].seen = run[k].seen /\ run'[k].reset = run[k].reset
    BY <1>5, <2>1 DEF SameButStale
  <2>4. run[k].target \in Target /\ token[run[k].target] = k
    BY <1>2, <1>3, <2>1, <2>2, <2>3 DEF Run
  <2>5. QED
    BY <2>1, <2>3, <2>4 DEF CountsAreCurrent
<1>13. QED
  BY <1>8, <1>9, <1>10, <1>11, <1>12

(* Executions that end, for whatever reason, with the rows left alone.     *)
LEMMA RunsEndInd ==
  ASSUME TInd, NEW K \in SUBSET Token,
         run' = [k \in Token |-> IF k \in K THEN None ELSE run[k]],
         UNCHANGED rowVars, losses' \in 0 .. MaxLosses
  PROVE  TInd'
<1> USE DEF TInd, rowVars, Running
<1>1. TTypeOK'
  BY DEF TTypeOK
<1>2. TokensAreUnique' /\ TokensAreCurrent' /\ VerdictsFit' /\ CountsAreCurrent'
  BY DEF TokensAreUnique, TokensAreCurrent, VerdictsFit, CountsAreCurrent
<1>3. QED
  BY <1>1, <1>2

(* One execution moves on to the record r, with the rows left alone.       *)
LEMMA AdvanceInd ==
  ASSUME TInd, NEW k \in Token, Running(k), NEW r \in Run,
         run' = [run EXCEPT ![k] = r],
         r.target = run[k].target, r.stale = run[k].stale,
         r.stage \in {"soc", "writeback"} /\ r.verdict \in {"unreachable", "ssrf"}
           => r.seen < FailureCap,
         r.stage \in {"probing", "soc", "writeback"} /\ token[r.target] = k
           => r.reset \/ r.seen = failures[r.target],
         UNCHANGED rowVars, UNCHANGED losses
  PROVE  TInd'
<1> USE DEF TInd, rowVars, Running
<1>1. TTypeOK'
  BY DEF TTypeOK
<1>2. run'[k] = r /\ \A j \in Token \ {k} : run'[j] = run[j]
  BY DEF TTypeOK
<1>3. TokensAreUnique' /\ TokensAreCurrent' /\ VerdictsFit' /\ CountsAreCurrent'
  BY <1>2 DEF TokensAreUnique, TokensAreCurrent, VerdictsFit, CountsAreCurrent
<1>4. QED
  BY <1>1, <1>3

(* The record of an execution that only has its audit event to write.      *)
LEMMA AuditRecord ==
  ASSUME NEW x \in Run
  PROVE  LET r == [x EXCEPT !.stage = "audit", !.seen = 0, !.verdict = "quiet", !.reset = FALSE]
         IN /\ r \in Run /\ r.stage = "audit" /\ r.target = x.target /\ r.stale = x.stale
<1>1. 0 \in 0 .. FailureCap
  BY TargetLeaseAssumption
<1>2. [x EXCEPT !.stage = "audit"] \in Run
  BY DEF Run, Stage
<1>3. [x EXCEPT !.stage = "audit", !.seen = 0] \in Run
  BY <1>1, <1>2 DEF Run
<1>4. [x EXCEPT !.stage = "audit", !.seen = 0, !.verdict = "quiet"] \in Run
  BY <1>3 DEF Run, Verdict
<1>5. QED
  BY <1>4 DEF Run

(* The write-back that commits, and the two commits that may follow it.    *)
LEMMA CommitInd ==
  ASSUME TInd, NEW k \in Token, At(k, "writeback"), HoldsLease(k), Committed(k),
         UNCHANGED losses
  PROVE  TInd'
<1> DEFINE t == run[k].target
<1> USE TargetLeaseAssumption DEF TInd
<1>1. run[k] \in Run /\ Running(k) /\ t \in Target /\ token[t] = k /\ k # None
  BY DEF At, Running, TTypeOK, HoldsLease, Run
<1>2. NewFailures(k) \in 0 .. FailureCap
  BY <1>1 DEF NewFailures, VerdictsFit, At, Run
<1>3. /\ failures' = [failures EXCEPT ![t] = NewFailures(k)]
      /\ due' = [due EXCEPT ![t] = FALSE]
      /\ token' = [token EXCEPT ![t] = None]
      /\ tokenEpoch' = [tokenEpoch EXCEPT ![t] = 0]
      /\ lease' = [lease EXCEPT ![t] = -1]
      /\ UNCHANGED <<active, losses>>
  BY DEF Committed
<1>4. PICK r \in Run : /\ run' = [run EXCEPT ![k] = r]
                       /\ r.stage \in {"suspend", "audit"}
  <2>1. CASE Suspends(k)
    <3> DEFINE r == [run[k] EXCEPT !.stage = "suspend"]
    <3>1. r \in Run /\ r.stage = "suspend"
      BY <1>1 DEF Run, Stage
    <3>2. run' = [run EXCEPT ![k] = r]
      BY <2>1 DEF Committed, Goto
    <3>3. QED
      BY <3>1, <3>2
  <2>2. CASE ~Suspends(k)
    <3> DEFINE r == [run[k] EXCEPT !.stage = "audit", !.seen = 0,
                                   !.verdict = "quiet", !.reset = FALSE]
    <3>1. r \in Run /\ r.stage = "audit"
      BY <1>1, AuditRecord
    <3>2. run' = [run EXCEPT ![k] = r]
      BY <2>2 DEF Committed, Audited
    <3>3. QED
      BY <3>1, <3>2
  <2>3. QED
    BY <2>1, <2>2
<1>5. TTypeOK'
  BY <1>1, <1>2, <1>3, <1>4 DEF TTypeOK
<1>6. \A u \in Target : token'[u] = IF u = t THEN None ELSE token[u]
  BY <1>1, <1>3 DEF TTypeOK
<1>7. \A u \in Target \ {t} : token[u] # k
  BY <1>1 DEF TokensAreUnique
<1>8. run'[k] = r /\ \A j \in Token \ {k} : run'[j] = run[j]
  BY <1>4 DEF TTypeOK
<1>9. TokensAreUnique'
  BY <1>6 DEF TokensAreUnique
<1>10. TokensAreCurrent'
  BY <1>6, <1>7, <1>8, TargetLeaseAssumption DEF TokensAreCurrent, Running
<1>11. VerdictsFit'
  BY <1>4, <1>8 DEF VerdictsFit, Running
<1>12. CountsAreCurrent'
  <2> SUFFICES ASSUME NEW j \in Token, run'[j] # None,
                      run'[j].stage \in {"probing", "soc", "writeback"},
                      token'[run'[j].target] = j
               PROVE  run'[j].reset \/ run'[j].seen = failures'[run'[j].target]
    BY DEF CountsAreCurrent, Running
  <2>1. j # k /\ run'[j] = run[j]
    BY <1>4, <1>8
  <2>2. run[j] \in Run /\ Running(j) /\ run[j].target \in Target
    BY <2>1 DEF TTypeOK, Running, Run
  <2>3. run[j].target # t /\ token[run[j].target] = j
    BY <1>6, <2>1, <2>2
  <2>4. failures'[run[j].target] = failures[run[j].target]
    BY <1>3, <2>2, <2>3 DEF TTypeOK
  <2>5. QED
    BY <2>1, <2>2, <2>3, <2>4 DEF CountsAreCurrent
<1>13. QED
  BY <1>5, <1>9, <1>10, <1>11, <1>12

(* Every step of the worker that executes the claim k.                     *)
LEMMA WorkerInd ==
  ASSUME TInd, NEW k \in Token, WorkerStep(k) \/ Timeout(k) \/ ExecutionError(k)
  PROVE  TInd'
<1> USE TargetLeaseAssumption
<1>1. TTypeOK /\ \A j \in Token : Running(j) => run[j] \in Run
  BY DEF TInd, TTypeOK, Running
<1>2. losses \in 0 .. MaxLosses
  BY <1>1 DEF TTypeOK
<1>3. ASSUME run' = Ended(k), UNCHANGED rowVars, losses' \in 0 .. MaxLosses PROVE TInd'
  <2>1. run' = [j \in Token |-> IF j \in {k} THEN None ELSE run[j]]
    BY <1>1, <1>3 DEF Ended, TTypeOK
  <2>2. QED
    BY <1>3, <2>1, RunsEndInd
<1>4. CASE StartProbe(k)
  <2>1. CASE HoldsLease(k)
    <3> DEFINE r == [run[k] EXCEPT !.stage = "probing", !.seen = failures[run[k].target]]
    <3>1. Running(k) /\ run[k] \in Run /\ UNCHANGED rowVars /\ UNCHANGED losses
      BY <1>1, <1>4 DEF StartProbe, At
    <3>2. failures[run[k].target] \in 0 .. FailureCap
      BY <1>1, <3>1 DEF TTypeOK, Run
    <3>3. /\ r \in Run /\ r.target = run[k].target /\ r.stale = run[k].stale
          /\ r.stage = "probing" /\ r.seen = failures[r.target]
      BY <3>1, <3>2 DEF Run, Stage
    <3>4. run' = [run EXCEPT ![k] = r]
      BY <1>4, <2>1 DEF StartProbe
    <3>5. QED
      BY <3>1, <3>3, <3>4, AdvanceInd
  <2>2. CASE ~HoldsLease(k)
    BY <1>2, <1>3, <1>4, <2>2 DEF StartProbe
  <2>3. QED
    BY <2>1, <2>2
<1>5. ASSUME NEW v \in Seen, ProbeReturns(k, v) PROVE TInd'
  <2> DEFINE s == IF v \in {"threat", "ssrf"} THEN "soc" ELSE "writeback"
             r == [run[k] EXCEPT !.verdict = v, !.stage = s]
  <2>1. /\ Running(k) /\ run[k] \in Run /\ run[k].stage = "probing"
        /\ UNCHANGED rowVars /\ UNCHANGED losses
    BY <1>1, <1>5 DEF ProbeReturns, At
  <2>2. v \in {"unreachable", "ssrf"} => run[k].seen < FailureCap
    BY <1>5 DEF ProbeReturns
  <2>3. /\ r \in Run /\ r.target = run[k].target /\ r.stale = run[k].stale
        /\ r.verdict = v /\ r.seen = run[k].seen /\ r.reset = run[k].reset
    BY <2>1, SeenAssumption DEF Run, Stage
  <2>4. run' = [run EXCEPT ![k] = r]
    BY <1>5 DEF ProbeReturns
  <2>5. token[r.target] = k => r.reset \/ r.seen = failures[r.target]
    BY <2>1, <2>3 DEF TInd, CountsAreCurrent
  <2>6. QED
    BY <2>1, <2>2, <2>3, <2>4, <2>5, AdvanceInd
<1>6. CASE RaiseAlert(k)
  <2> DEFINE r == [run[k] EXCEPT !.stage = "writeback"]
  <2>1. /\ Running(k) /\ run[k] \in Run /\ run[k].stage = "soc"
        /\ UNCHANGED rowVars /\ UNCHANGED losses
    BY <1>1, <1>6 DEF RaiseAlert, At
  <2>2. /\ r \in Run /\ r.target = run[k].target /\ r.stale = run[k].stale
        /\ r.verdict = run[k].verdict /\ r.seen = run[k].seen /\ r.reset = run[k].reset
    BY <2>1 DEF Run, Stage
  <2>3. run' = [run EXCEPT ![k] = r]
    BY <1>6 DEF RaiseAlert, Goto
  <2>4. /\ r.verdict \in {"unreachable", "ssrf"} => r.seen < FailureCap
        /\ token[r.target] = k => r.reset \/ r.seen = failures[r.target]
    BY <2>1, <2>2 DEF TInd, CountsAreCurrent, VerdictsFit
  <2>5. QED
    BY <2>1, <2>2, <2>3, <2>4, AdvanceInd
<1>7. CASE WriteBack(k)
  <2>1. CASE HoldsLease(k)
    BY <1>7, <2>1, CommitInd DEF WriteBack
  <2>2. CASE ~HoldsLease(k)
    BY <1>2, <1>3, <1>7, <2>2 DEF WriteBack
  <2>3. QED
    BY <2>1, <2>2
<1>8. CASE Suspend(k)
  <2> DEFINE r == [run[k] EXCEPT !.stage = "audit", !.seen = 0,
                                 !.verdict = "quiet", !.reset = FALSE]
             j == run[k].target
  <2>1. /\ Running(k) /\ run[k] \in Run /\ j \in Target
        /\ active' = [active EXCEPT ![j] = FALSE]
        /\ run' = [run EXCEPT ![k] = r]
        /\ UNCHANGED <<failures, due, token, tokenEpoch, lease, losses>>
    BY <1>1, <1>8 DEF Suspend, At, Audited, Run
  <2>2. /\ r \in Run /\ r.stage = "audit" /\ r.target = j /\ r.stale = run[k].stale
    BY <2>1, AuditRecord
  <2>3. TTypeOK'
    BY <1>1, <2>1, <2>2 DEF TTypeOK
  <2>4. run'[k] = r /\ \A i \in Token \ {k} : run'[i] = run[i]
    BY <1>1, <2>1 DEF TTypeOK
  <2>5. TokensAreUnique' /\ TokensAreCurrent'
    BY <2>1, <2>2, <2>4 DEF TInd, TokensAreUnique, TokensAreCurrent, Running
  <2>6. VerdictsFit' /\ CountsAreCurrent'
    BY <2>1, <2>2, <2>4 DEF TInd, VerdictsFit, CountsAreCurrent, Running
  <2>7. QED
    BY <2>3, <2>5, <2>6 DEF TInd
<1>9. CASE WriteAudit(k)
  BY <1>2, <1>3, <1>9 DEF WriteAudit
<1>10. CASE Timeout(k)
  BY <1>2, <1>3, <1>10 DEF Timeout
<1>11. CASE ExecutionError(k)
  <2>1. losses' \in 0 .. MaxLosses
    BY <1>2, <1>11 DEF ExecutionError, Lose
  <2>2. QED
    BY <1>3, <1>11, <2>1 DEF ExecutionError
<1>12. QED
  BY <1>4, <1>5, <1>6, <1>7, <1>8, <1>9, <1>10, <1>11 DEF WorkerStep

(* Claims by an engine or by check-now, dispatched or lost.                *)
LEMMA ClaimInd ==
  ASSUME TInd, NEW p, NEW e \in Nat,
         \/ p \in Pod /\ ClaimTargets(p, e)
         \/ ClaimLost(e)
         \/ p \in Pod /\ \E t \in Target : CheckNow(p, t, e)
  PROVE  TInd'
<1>1. Claimable \subseteq Target /\ losses \in 0 .. MaxLosses
  BY DEF Claimable, TInd, TTypeOK
<1>2. CASE p \in Pod /\ ClaimTargets(p, e)
  <2>a. PICK S \in Batches : \E f \in Injections(S) :
          LeaseRows(S, f, e) /\ Submit(S, f, p, "engine", e) /\ UNCHANGED losses
    BY <1>2 DEF ClaimTargets
  <2>1. PICK f \in Injections(S) :
          LeaseRows(S, f, e) /\ Submit(S, f, p, "engine", e) /\ UNCHANGED losses
    BY <2>a
  <2>2. S \in SUBSET Target
    BY <1>1 DEF Batches
  <2>3. QED
    BY <1>1, <1>2, <2>1, <2>2, LeaseInd
<1>3. CASE ClaimLost(e)
  <2>1. losses' \in 0 .. MaxLosses
    BY <1>1, <1>3, TargetLeaseAssumption DEF ClaimLost, Lose
  <2>2. CASE UNCHANGED <<rowVars, run>>
    BY <2>1, <2>2 DEF TInd, TTypeOK, TokensAreUnique, TokensAreCurrent, VerdictsFit,
                      CountsAreCurrent, Running, rowVars
  <2>3. CASE \E S \in Batches : \E f \in Injections(S) :
               LeaseRows(S, f, e) /\ run' = MarkStale(S)
    <3>a. PICK S \in Batches : \E f \in Injections(S) :
            LeaseRows(S, f, e) /\ run' = MarkStale(S)
      BY <2>3
    <3>1. PICK f \in Injections(S) : LeaseRows(S, f, e) /\ run' = MarkStale(S)
      BY <3>a
    <3>2. S \in SUBSET Target
      BY <1>1 DEF Batches
    <3>3. QED
      BY <2>1, <3>1, <3>2, LeaseInd
  <2>4. QED
    BY <1>3, <2>2, <2>3 DEF ClaimLost
<1>4. ASSUME p \in Pod, NEW t \in Target, CheckNow(p, t, e) PROVE TInd'
  <2>1. PICK k \in Fresh :
          /\ LeaseRows({t}, [u \in {t} |-> k], e)
          /\ Submit({t}, [u \in {t} |-> k], p, "api", e)
    BY <1>4 DEF CheckNow
  <2> DEFINE f == [u \in {t} |-> k]
  <2>2. f \in Injections({t})
    BY DEF Injections
  <2>3. losses' \in 0 .. MaxLosses
    BY <1>1, <1>4 DEF CheckNow
  <2> HIDE DEF f
  <2>4. LeaseRows({t}, f, e) /\ Submit({t}, f, p, "api", e)
    BY <2>1 DEF f
  <2>5. QED
    BY <1>4, <2>2, <2>3, <2>4, LeaseInd
<1>5. QED
  BY <1>2, <1>3, <1>4

(* Checks that become due, and time.                                       *)
LEMMA TimeInd ==
  ASSUME TInd, TTick \/ \E t \in Target : BecomeDue(t)
  PROVE  TInd'
<1>1. /\ due' \in [Target -> BOOLEAN] /\ lease' \in [Target -> -1 .. WorkerLease]
      /\ UNCHANGED <<active, failures, token, tokenEpoch, run, losses>>
  <2>1. CASE TTick
    <3>1. \A t \in Target : lease[t] \in -1 .. WorkerLease
      BY DEF TInd, TTypeOK
    <3>2. lease' \in [Target -> -1 .. WorkerLease]
      BY <2>1, <3>1, TargetLeaseAssumption DEF TTick, LeasesElapse
    <3>3. QED
      BY <2>1, <3>2 DEF TInd, TTypeOK, TTick
  <2>2. CASE \E t \in Target : BecomeDue(t)
    BY <2>2 DEF TInd, TTypeOK, BecomeDue
  <2>3. QED
    BY <2>1, <2>2
<1>2. QED
  BY <1>1 DEF TInd, TTypeOK, TokensAreUnique, TokensAreCurrent, VerdictsFit,
              CountsAreCurrent, Running

-----------------------------------------------------------------------------
(* MonitoringTargets.                                                      *)

(* A target without a row is neither active nor claimed, and an open       *)
(* registration is the only one of its target.                             *)
RowsExist ==
  /\ \A t \in Target \ registered : ~active[t] /\ token[t] = None
  /\ \A r \in Request : request[r] # None =>
        (request[r].op = "update" <=> request[r].target \in registered)
  /\ \A r, s \in Request :
        /\ request[r] # None /\ request[s] # None
        /\ request[r].op = "register" /\ request[s].op = "register"
        /\ request[r].target = request[s].target
        => r = s

MInd == TInd /\ MTypeOK /\ RowsExist

-----------------------------------------------------------------------------

(* Before any request, with the preset targets registered.                 *)
LEMMA MInitInd == MInit => MInd
<1> SUFFICES ASSUME MInit PROVE MInd
  OBVIOUS
<1>1. TInd
  BY TInitInd DEF MInit
<1>2. MTypeOK
  BY <1>1, MonitoringTargetsAssumption DEF MInit, MTypeOK, TInd
<1>3. RowsExist
  <2>1. /\ registered = Preset
        /\ active = [t \in Target |-> t \in Preset]
        /\ token = [t \in Target |-> None]
        /\ request = [r \in Request |-> None]
    BY DEF MInit, TInit
  <2>2. \A t \in Target \ registered : ~active[t] /\ token[t] = None
    BY <2>1
  <2>3. \A r \in Request : request[r] = None
    BY <2>1
  <2>4. QED
    BY <2>2, <2>3 DEF RowsExist
<1>4. QED
  BY <1>1, <1>2, <1>3 DEF MInd

(* A request that commits touches no lease; if it resets the failures the  *)
(* executions of the target are marked.                                    *)
LEMMA CommitRequestInd ==
  ASSUME MInd, NEW r \in Request, CommitRequest(r)
  PROVE  MInd'
<1> DEFINE q == request[r]
           t == q.target
<1> USE DEF MInd, TInd
<1>1. q \in Open /\ t \in Target
  BY DEF CommitRequest, MTypeOK, Open
<1>2. /\ active' = [active EXCEPT ![t] = IF q.active = None THEN @ ELSE q.active]
      /\ failures' = [failures EXCEPT ![t] = IF q.resets THEN 0 ELSE @]
      /\ due' = [due EXCEPT ![t] = @ \/ q.due]
      /\ run' = [k \in Token |->
                   IF Running(k) /\ run[k].target = t /\ q.resets
                   THEN [run[k] EXCEPT !.reset = TRUE] ELSE run[k]]
      /\ request' = [request EXCEPT ![r] = None]
      /\ UNCHANGED <<token, tokenEpoch, lease, losses, registered, quotaLock, ops>>
  BY DEF CommitRequest
<1>3. active' \in [Target -> BOOLEAN]
  BY <1>1, <1>2 DEF TTypeOK, Open
<1>4. due' \in [Target -> BOOLEAN]
  BY <1>1, <1>2 DEF TTypeOK, Open
<1>5. failures' \in [Target -> 0 .. FailureCap]
  BY <1>1, <1>2, TargetLeaseAssumption DEF TTypeOK
<1>6. \A k \in Token : Running(k) =>
        /\ run[k] \in Run /\ run'[k] \in Run
        /\ run'[k].target = run[k].target /\ run'[k].stale = run[k].stale
        /\ run'[k].stage = run[k].stage /\ run'[k].seen = run[k].seen
        /\ run'[k].verdict = run[k].verdict
        /\ run[k].reset => run'[k].reset
        /\ run[k].target = t /\ q.resets => run'[k].reset
  <2> SUFFICES ASSUME NEW k \in Token, Running(k)
               PROVE  /\ run[k] \in Run /\ run'[k] \in Run
                      /\ run'[k].target = run[k].target /\ run'[k].stale = run[k].stale
                      /\ run'[k].stage = run[k].stage /\ run'[k].seen = run[k].seen
                      /\ run'[k].verdict = run[k].verdict
                      /\ run[k].reset => run'[k].reset
                      /\ run[k].target = t /\ q.resets => run'[k].reset
    OBVIOUS
  <2> HIDE DEF q, t
  <2>1. run[k] \in Run
    BY DEF TTypeOK, Running
  <2>2. CASE run[k].target = t /\ q.resets
    <3>1. run'[k] = [run[k] EXCEPT !.reset = TRUE]
      BY <1>2, <2>2
    <3>2. QED
      BY <2>1, <3>1 DEF Run
  <2>3. CASE ~(run[k].target = t /\ q.resets)
    <3>1. run'[k] = run[k]
      BY <1>2, <2>3
    <3>2. QED
      BY <2>1, <2>3, <3>1
  <2>4. QED
    BY <2>2, <2>3
<1>7. \A k \in Token : ~Running(k) => run'[k] = None
  BY <1>2 DEF Running
<1>8. run' \in [Token -> Run \union {None}]
  <2>1. \A k \in Token : run'[k] \in Run \union {None}
    BY <1>6, <1>7
  <2>2. QED
    BY <1>2, <2>1
<1>9. TTypeOK'
  BY <1>2, <1>3, <1>4, <1>5, <1>8 DEF TTypeOK
<1>10. MTypeOK'
  <2>1. reopened' \subseteq Target /\ unsuspended' \subseteq Target
    BY <1>1 DEF CommitRequest, MTypeOK
  <2>2. request' \in [Request -> Open \union {None}]
    BY <1>2 DEF MTypeOK
  <2>3. QED
    BY <1>2, <1>9, <2>1, <2>2 DEF MTypeOK
<1>11. TokensAreUnique' /\ TokensAreCurrent' /\ VerdictsFit'
  BY <1>2, <1>6, <1>7 DEF TokensAreUnique, TokensAreCurrent, VerdictsFit, Running
<1>12. CountsAreCurrent'
  <2> SUFFICES ASSUME NEW k \in Token, run'[k] # None,
                      run'[k].stage \in {"probing", "soc", "writeback"},
                      token'[run'[k].target] = k
               PROVE  run'[k].reset \/ run'[k].seen = failures'[run'[k].target]
    BY DEF CountsAreCurrent, Running
  <2>1. Running(k)
    BY <1>7
  <2>2. run[k].target \in Target
    BY <1>6, <2>1 DEF Run
  <2>3. run[k].reset \/ run[k].seen = failures[run[k].target]
    BY <1>2, <1>6, <2>1 DEF CountsAreCurrent
  <2>4. CASE run[k].target = t /\ q.resets
    BY <1>6, <2>1, <2>4
  <2>5. CASE ~(run[k].target = t /\ q.resets)
    <3>1. failures'[run[k].target] = failures[run[k].target]
      BY <1>1, <1>2, <2>2, <2>5 DEF TTypeOK
    <3>2. QED
      BY <1>6, <2>1, <2>3, <3>1
  <2>6. QED
    BY <2>4, <2>5
<1>13. RowsExist'
  <2>1. t \in registered
    BY DEF CommitRequest, RowsExist
  <2>2. \A u \in Target \ {t} : active'[u] = active[u]
    BY <1>2 DEF TTypeOK
  <2>3. \A s \in Request : request'[s] = IF s = r THEN None ELSE request[s]
    BY <1>2 DEF MTypeOK
  <2>5. registered' = registered
    BY <1>2
  <2> HIDE DEF t, q
  <2>4. \A u \in Target \ registered' : ~active'[u] /\ token'[u] = None
    BY <1>2, <2>1, <2>2 DEF RowsExist
  <2>6. \A s \in Request : request'[s] # None => request'[s] = request[s]
    BY <2>3
  <2>7. QED
    BY <2>4, <2>5, <2>6 DEF RowsExist
<1>14. QED
  BY <1>9, <1>10, <1>11, <1>12, <1>13

(* Claims, workers and time leave an inactive, unclaimed row as it is.     *)
LEMMA InactiveRowsStay ==
  ASSUME TInd, TargetStep, NEW t \in Target, ~active[t], token[t] = None
  PROVE  ~active'[t] /\ token'[t] = None
<1> USE DEF TInd, TTypeOK
<1>1. ASSUME NEW S \in SUBSET Target, NEW f, NEW e, LeaseRows(S, f, e), t \notin S
      PROVE  ~active'[t] /\ token'[t] = None
  BY <1>1 DEF LeaseRows
<1>2. \A S \in Batches : S \in SUBSET Target /\ t \notin S
  BY DEF Batches, Claimable
<1>3. ASSUME NEW p \in Pod, ClaimTargets(p, 1) PROVE ~active'[t] /\ token'[t] = None
  BY <1>1, <1>2, <1>3 DEF ClaimTargets
<1>4. CASE ClaimLost(1)
  BY <1>1, <1>2, <1>4 DEF ClaimLost, rowVars
<1>5. ASSUME NEW p \in Pod, NEW u \in Target, CheckNow(p, u, 1)
      PROVE  ~active'[t] /\ token'[t] = None
  <2>1. u # t
    BY <1>5 DEF CheckNow
  <2>2. PICK f : LeaseRows({u}, f, 1)
    BY <1>5 DEF CheckNow
  <2>3. QED
    BY <1>1, <2>1, <2>2
<1>6. ASSUME NEW k \in Token, WorkerStep(k) PROVE ~active'[t] /\ token'[t] = None
  <2>1. CASE WriteBack(k)
    BY <2>1 DEF WriteBack, Committed, rowVars
  <2>2. CASE Suspend(k)
    BY <2>2 DEF Suspend
  <2>3. CASE StartProbe(k) \/ RaiseAlert(k) \/ WriteAudit(k)
             \/ \E v \in Seen : ProbeReturns(k, v)
    BY <2>3 DEF StartProbe, RaiseAlert, WriteAudit, ProbeReturns, rowVars
  <2>4. QED
    BY <1>6, <2>1, <2>2, <2>3 DEF WorkerStep
<1>7. CASE \/ \E p \in Pod : CrashHost(p)
           \/ \E k \in Token : Timeout(k) \/ ExecutionError(k)
           \/ \E u \in registered : BecomeDue(u)
           \/ TTick
  BY <1>7 DEF CrashHost, Timeout, ExecutionError, BecomeDue, TTick, rowVars
<1>8. QED
  BY <1>3, <1>4, <1>5, <1>6, <1>7 DEF TargetStep

(* A step of the engines, the workers or the clock.                        *)
LEMMA TargetsInd == ASSUME MInd, Targets PROVE MInd'
<1>1. TInd'
  <2>1. ASSUME NEW p \in Pod, CrashHost(p) PROVE TInd'
    <3>1. losses' \in 0 .. MaxLosses
      BY <2>1, TargetLeaseAssumption DEF MInd, TInd, TTypeOK, CrashHost, Lose
    <3>2. UNCHANGED rowVars
      BY <2>1 DEF CrashHost
    <3> DEFINE K == {k \in Token : Running(k) /\ run[k].host = p}
    <3>3. run' = [k \in Token |-> IF k \in K THEN None ELSE run[k]]
      BY <2>1 DEF CrashHost, HostGone
    <3>4. K \in SUBSET Token
      OBVIOUS
    <3> HIDE DEF K
    <3>5. QED
      BY <3>1, <3>2, <3>3, <3>4, RunsEndInd DEF MInd
  <2>2. \A t \in registered : t \in Target
    BY DEF MInd, MTypeOK
  <2>3. ASSUME NEW p \in Pod, ClaimTargets(p, 1) \/ \E t \in Target : CheckNow(p, t, 1)
        PROVE  TInd'
    BY <2>3, ClaimInd DEF MInd
  <2>4. CASE ClaimLost(1)
    BY <2>4, ClaimInd DEF MInd
  <2>5. ASSUME NEW k \in Token, WorkerStep(k) \/ Timeout(k) \/ ExecutionError(k)
        PROVE  TInd'
    BY <2>5, WorkerInd DEF MInd
  <2>6. CASE TTick \/ \E t \in registered : BecomeDue(t)
    BY <2>2, <2>6, TimeInd DEF MInd
  <2>7. QED
    BY <2>1, <2>3, <2>4, <2>5, <2>6 DEF Targets, TargetStep
<1>2. MTypeOK'
  BY <1>1 DEF Targets, MInd, MTypeOK, TInd
<1>3. RowsExist'
  <2>1. \A t \in Target \ registered : ~active'[t] /\ token'[t] = None
    BY InactiveRowsStay DEF Targets, MInd, RowsExist
  <2>2. QED
    BY <2>1 DEF Targets, MInd, RowsExist
<1>4. QED
  BY <1>1, <1>2, <1>3 DEF MInd

(* The rows, and with them the leases, are as they were.                   *)
LEMMA UnchangedRowsInd == ASSUME TInd, UNCHANGED tvars PROVE TInd'
  BY DEF TInd, TTypeOK, TokensAreUnique, TokensAreCurrent, VerdictsFit,
         CountsAreCurrent, Running, tvars, rowVars

(* A registration inserts a row nobody has claimed.                        *)
LEMMA CommitRegisterInd == ASSUME MInd, NEW r \in Request, CommitRegister(r) PROVE MInd'
<1> DEFINE t == request[r].target
<1>1. /\ request[r] \in Open /\ request[r].op = "register"
      /\ t \in Target /\ t \notin registered /\ token[t] = None
  BY DEF CommitRegister, MInd, MTypeOK, Open, RowsExist
<1>2. /\ registered' = registered \union {t}
      /\ active' = [active EXCEPT ![t] = TRUE]
      /\ failures' = [failures EXCEPT ![t] = 0]
      /\ due' = [due EXCEPT ![t] = TRUE]
      /\ request' = [request EXCEPT ![r] = None]
      /\ quotaLock' = None
      /\ UNCHANGED <<token, tokenEpoch, lease, run, losses, ops, reopened, unsuspended>>
  BY DEF CommitRegister
<1>3. TTypeOK'
  BY <1>1, <1>2, TargetLeaseAssumption DEF MInd, TInd, TTypeOK
<1>4. TokensAreUnique' /\ TokensAreCurrent' /\ VerdictsFit'
  BY <1>2 DEF MInd, TInd, TokensAreUnique, TokensAreCurrent, VerdictsFit, Running
<1>5. CountsAreCurrent'
  <2> SUFFICES ASSUME NEW k \in Token, Running(k),
                      run[k].stage \in {"probing", "soc", "writeback"},
                      token[run[k].target] = k
               PROVE  run[k].reset \/ run[k].seen = failures'[run[k].target]
    BY <1>2 DEF CountsAreCurrent, Running
  <2>1. run[k].target \in Target /\ run[k].target # t
    BY <1>1, TargetLeaseAssumption DEF MInd, TInd, TTypeOK, Running, Run
  <2>2. failures'[run[k].target] = failures[run[k].target]
    BY <1>2, <2>1 DEF MInd, TInd, TTypeOK
  <2>3. QED
    BY <2>2 DEF MInd, TInd, CountsAreCurrent
<1>6. MTypeOK'
  BY <1>1, <1>2, <1>3 DEF MInd, MTypeOK
<1>7. \A s \in Request : request'[s] # None => s # r /\ request'[s] = request[s]
  BY <1>2 DEF MInd, MTypeOK
<1>8. \A u \in Target \ registered' : ~active'[u] /\ token'[u] = None
  BY <1>2 DEF MInd, TInd, TTypeOK, RowsExist
<1>9. \A s \in Request : request'[s] # None =>
        (request'[s].op = "update" <=> request'[s].target \in registered')
  <2> SUFFICES ASSUME NEW s \in Request, request'[s] # None
               PROVE  request'[s].op = "update" <=> request'[s].target \in registered'
    OBVIOUS
  <2>1. s # r /\ request'[s] = request[s] /\ request[s] # None /\ request[s] \in Open
    BY <1>7 DEF MInd, MTypeOK
  <2>2. request[s].op = "update" <=> request[s].target \in registered
    BY <2>1 DEF MInd, RowsExist
  <2>3. request[s].target = t => request[s].op # "register"
    BY <1>1, <2>1, MonitoringTargetsAssumption DEF MInd, RowsExist, CommitRegister
  <2>4. request[s].op \in {"register", "update"}
    BY <2>1 DEF Open
  <2>5. QED
    BY <1>1, <1>2, <2>1, <2>2, <2>3, <2>4
<1>10. RowsExist'
  BY <1>7, <1>8, <1>9 DEF MInd, RowsExist
<1>11. QED
  BY <1>3, <1>4, <1>5, <1>6, <1>10 DEF MInd, TInd

(* A request that reads, or that is abandoned, writes nothing.             *)
LEMMA RequestInd ==
  ASSUME MInd, NEW r \in Request,
         \/ \E op \in Op, t \in Target : ReadTarget(r, op, t)
         \/ \E t \in Target : BeginRegister(r, t)
         \/ AbandonRequest(r)
  PROVE  MInd'
<1>1. UNCHANGED <<tvars, registered, reopened, unsuspended>>
  BY DEF ReadTarget, BeginRegister, AbandonRequest
<1>2. TInd'
  BY <1>1, UnchangedRowsInd DEF MInd
<1>3. \A t \in Target \ registered' : ~active'[t] /\ token'[t] = None
  BY <1>1 DEF MInd, RowsExist, tvars, rowVars
<1>4. ASSUME NEW op \in Op, NEW t \in Target, ReadTarget(r, op, t) PROVE MInd'
  <2>1. Changes(op, t) \in Open
    BY DEF Changes, Open
  <2>2. Changes(op, t).op = "update" /\ Changes(op, t).target = t
    BY DEF Changes
  <2>3. t \in registered
    BY <1>4 DEF ReadTarget
  <2> DEFINE q == Changes(op, t)
  <2> HIDE DEF q
  <2>4. /\ request' = [request EXCEPT ![r] = q]
        /\ UNCHANGED quotaLock
        /\ ops' \in 0 .. MaxOps
    BY <1>4, MonitoringTargetsAssumption DEF ReadTarget, Spend, MInd, MTypeOK, q
  <2>5. request' \in [Request -> Open \union {None}]
    BY <2>1, <2>4 DEF MInd, MTypeOK, q
  <2>6. MTypeOK'
    BY <1>1, <1>2, <2>4, <2>5 DEF MInd, MTypeOK, TInd
  <2>7. \A s \in Request : request'[s] = IF s = r THEN q ELSE request[s]
    BY <2>4 DEF MInd, MTypeOK
  <2>8. \A s \in Request : request'[s] # None =>
          (request'[s].op = "update" <=> request'[s].target \in registered')
    BY <1>1, <2>2, <2>3, <2>7 DEF MInd, RowsExist, q
  <2>9. \A s \in Request : request'[s].op = "register" => request'[s] = request[s]
    BY <2>2, <2>7 DEF q
  <2>10. RowsExist'
    BY <1>3, <2>8, <2>9 DEF MInd, RowsExist
  <2>11. QED
    BY <1>2, <2>6, <2>10 DEF MInd
<1>5. ASSUME NEW t \in Target, BeginRegister(r, t) PROVE MInd'
  <2> DEFINE q == [op |-> "register", target |-> t, active |-> TRUE,
                   resets |-> FALSE, due |-> TRUE]
  <2>1. q \in Open /\ q.op = "register" /\ q.target = t
    BY DEF Open
  <2>2. /\ t \notin registered
        /\ \A s \in Request : request[s] # None => request[s].target # t
        /\ request' = [request EXCEPT ![r] = q]
        /\ quotaLock' \in Request \union {None}
        /\ ops' \in 0 .. MaxOps
    BY <1>5, MonitoringTargetsAssumption
    DEF BeginRegister, TakeQuotaLock, Spend, MInd, MTypeOK
  <2> HIDE DEF q
  <2>3. request' \in [Request -> Open \union {None}]
    BY <2>1, <2>2 DEF MInd, MTypeOK
  <2>4. MTypeOK'
    BY <1>1, <1>2, <2>2, <2>3 DEF MInd, MTypeOK, TInd
  <2>5. \A s \in Request : request'[s] = IF s = r THEN q ELSE request[s]
    BY <2>2 DEF MInd, MTypeOK
  <2>6. \A s \in Request : request'[s] # None =>
          (request'[s].op = "update" <=> request'[s].target \in registered')
    BY <1>1, <2>1, <2>2, <2>5 DEF MInd, RowsExist
  <2>7. RowsExist'
    BY <1>3, <2>1, <2>2, <2>5, <2>6 DEF MInd, RowsExist
  <2>8. QED
    BY <1>2, <2>4, <2>7 DEF MInd
<1>6. CASE AbandonRequest(r)
  <2>1. /\ request' = [request EXCEPT ![r] = None]
        /\ quotaLock' \in Request \union {None}
        /\ UNCHANGED ops
    BY <1>6 DEF AbandonRequest, MInd, MTypeOK
  <2>2. \A s \in Request : request'[s] = IF s = r THEN None ELSE request[s]
    BY <2>1 DEF MInd, MTypeOK
  <2>3. RowsExist'
    BY <1>1, <1>3, <2>2 DEF MInd, RowsExist
  <2>4. QED
    BY <1>1, <1>2, <2>1, <2>3 DEF MInd, MTypeOK, TInd
<1>7. QED
  BY <1>4, <1>5, <1>6

(* Every step of the system, stuttering included, keeps the invariant.     *)
LEMMA MIndStep == MInd /\ [MNext]_mvars => MInd'
<1> SUFFICES ASSUME MInd, [MNext]_mvars PROVE MInd'
  OBVIOUS
<1>1. CASE UNCHANGED mvars
  <2>1. TInd'
    BY <1>1, UnchangedRowsInd DEF MInd, mvars
  <2>2. QED
    BY <1>1, <2>1 DEF MInd, TInd, MTypeOK, RowsExist, mvars, tvars, rowVars
<1>2. CASE MNext
  BY <1>2, TargetsInd, CommitRequestInd, CommitRegisterInd, RequestInd DEF MNext
<1>3. QED
  BY <1>1, <1>2

(* The inductive invariant holds throughout.                               *)
THEOREM MonitoringInvariant == MSpec => []MInd
  BY MInitInd, MIndStep, PTL DEF MSpec

(* The rows, the executions and the requests keep their types.             *)
THEOREM MonitoringTypeCorrect == MSpec => []MTypeOK
<1>1. MInd => MTypeOK
  BY DEF MInd
<1>2. QED
  BY <1>1, MonitoringInvariant, PTL

(* What can happen to the executions: rows are claimed, executions end, a  *)
(* worker goes on.                                                         *)
ExecutionStep ==
  \/ \E S \in SUBSET Target :
       \/ run' = MarkStale(S)
       \/ \E f \in Injections(S) : \E p, who, e : Submit(S, f, p, who, e)
  \/ \E K \in SUBSET Token : run' = [k \in Token |-> IF k \in K THEN None ELSE run[k]]
  \/ \E k \in Token : WorkerStep(k) \/ Timeout(k) \/ ExecutionError(k)
  \/ UNCHANGED run

(* A worker that commits holds its lease.                                  *)
LEMMA CommitsHoldTheLease ==
  ASSUME TInd, ExecutionStep, NEW k \in Token, Commits(k)
  PROVE  HoldsLease(k)
<1>1. run[k] \in Run /\ run[k].stage = "writeback" /\ Running(k) /\ run \in [Token -> Run \union {None}]
  BY DEF Commits, At, Running, TInd, TTypeOK
<1>2. run'[k] # None /\ run'[k].stage # "writeback"
  BY DEF Commits
<1>3. run'[k] # run[k]
  BY <1>1, <1>2
<1>4. ASSUME NEW S \in SUBSET Target,
             run' = MarkStale(S) \/ \E f \in Injections(S) : \E p, who, e : Submit(S, f, p, who, e)
      PROVE  FALSE
  <2>1. run'[k] = MarkStale(S)[k]
    <3>1. CASE run' = MarkStale(S)
      BY <3>1
    <3>2. ASSUME NEW f \in Injections(S), NEW p, NEW who, NEW e, Submit(S, f, p, who, e)
          PROVE  run'[k] = MarkStale(S)[k]
      <4>1. \A t \in S : f[t] # k
        BY <1>1 DEF Injections, Fresh
      <4>2. QED
        BY <3>2, <4>1 DEF Submit
    <3>3. QED
      BY <1>4, <3>1, <3>2
  <2>2. run'[k] = run[k] \/ run'[k] = [run[k] EXCEPT !.stale = TRUE]
    BY <2>1 DEF MarkStale
  <2>3. QED
    BY <1>1, <1>2, <2>2, StaleIs DEF SameButStale
<1>5. ASSUME NEW K, run' = [j \in Token |-> IF j \in K THEN None ELSE run[j]] PROVE FALSE
  BY <1>2, <1>3, <1>5
<1>6. ASSUME NEW j \in Token, NEW r, run' = [run EXCEPT ![j] = r] PROVE j = k /\ run'[k] = r
  BY <1>1, <1>3, <1>6
<1>7. ASSUME NEW j \in Token, Timeout(j) \/ ExecutionError(j) \/ WriteAudit(j) PROVE FALSE
  <2>1. run' = [run EXCEPT ![j] = None]
    BY <1>7 DEF Timeout, ExecutionError, WriteAudit, Ended
  <2>2. QED
    BY <1>2, <1>6, <2>1
<1>8. ASSUME NEW j \in Token, StartProbe(j) \/ RaiseAlert(j) \/ Suspend(j)
                              \/ \E v \in Seen : ProbeReturns(j, v)
      PROVE  FALSE
  <2>1. run[j].stage # "writeback"
    BY <1>8 DEF StartProbe, RaiseAlert, Suspend, ProbeReturns, At
  <2>2. \E r : run' = [run EXCEPT ![j] = r]
    BY <1>8 DEF StartProbe, RaiseAlert, Suspend, ProbeReturns, Ended, Goto, Audited
  <2>3. QED
    BY <1>1, <1>6, <2>1, <2>2
<1>9. ASSUME NEW j \in Token, WriteBack(j) PROVE HoldsLease(k)
  <2>1. CASE HoldsLease(j)
    <3>1. \E r : run' = [run EXCEPT ![j] = r]
      BY <1>9, <2>1 DEF WriteBack, Committed, Goto, Audited
    <3>2. QED
      BY <1>6, <2>1, <3>1
  <2>2. CASE ~HoldsLease(j)
    <3>1. run' = [run EXCEPT ![j] = None]
      BY <1>9, <2>2 DEF WriteBack, Ended
    <3>2. QED
      BY <1>2, <1>6, <3>1
  <2>3. QED
    BY <2>1, <2>2
<1>10. QED
  BY <1>3, <1>4, <1>5, <1>7, <1>8, <1>9 DEF ExecutionStep, WorkerStep

(* Its target has not been claimed again.                                  *)
LEMMA CommitsAreFresh ==
  ASSUME TInd, ExecutionStep, NEW k \in Token, Commits(k)
  PROVE  ~run[k].stale
<1>1. HoldsLease(k) /\ Running(k)
  BY CommitsHoldTheLease DEF Commits, At
<1>2. run[k].target \in Target /\ token[run[k].target] = k
  BY <1>1 DEF HoldsLease, Running, TInd, TTypeOK, Run
<1>3. QED
  BY <1>1, <1>2 DEF TInd, TokensAreCurrent

(* It has seen the row's failure count, or its user has reset it.          *)
LEMMA CommitsAreCounted ==
  ASSUME TInd, ExecutionStep, NEW k \in Token, Commits(k)
  PROVE  run[k].reset \/ run[k].seen = failures[run[k].target]
<1>1. HoldsLease(k)
  BY CommitsHoldTheLease
<1>2. QED
  BY <1>1 DEF HoldsLease, Commits, At, TInd, CountsAreCurrent

(* trigger_check_now starts one execution.                                 *)
LEMMA CheckNowExecutes ==
  ASSUME NEW p, NEW t \in Target, NEW e, CheckNow(p, t, e)
  PROVE  ExecutionStep
<1>1. PICK l \in Fresh : Submit({t}, [u \in {t} |-> l], p, "api", e)
  BY DEF CheckNow
<1>2. [u \in {t} |-> l] \in Injections({t})
  BY DEF Injections
<1>3. QED
  BY <1>1, <1>2 DEF ExecutionStep

(* A process takes its executions with it.                                 *)
LEMMA HostGoneExecutes ==
  ASSUME NEW p, HostGone(p)
  PROVE  ExecutionStep
<1> DEFINE K == {k \in Token : Running(k) /\ run[k].host = p}
<1>1. run' = [k \in Token |-> IF k \in K THEN None ELSE run[k]]
  BY DEF HostGone
<1>2. QED
  BY <1>1 DEF ExecutionStep

(* An owner's request leaves the executions to themselves, or resets what  *)
(* they have seen.                                                         *)
LEMMA TargetsExecute ==
  ASSUME MInd, [MNext]_mvars, NEW k \in Token, Commits(k)
  PROVE  ExecutionStep
<1>1. ASSUME NEW p \in Pod, ClaimTargets(p, 1) PROVE ExecutionStep
  BY <1>1 DEF ClaimTargets, ExecutionStep, Batches, Claimable
<1>2. CASE ClaimLost(1)
  BY <1>2 DEF ClaimLost, ExecutionStep, Batches, Claimable
<1>3. ASSUME NEW p \in Pod, NEW t \in Target, CheckNow(p, t, 1) PROVE ExecutionStep
  BY <1>3, CheckNowExecutes
<1>4. ASSUME NEW p \in Pod, CrashHost(p) PROVE ExecutionStep
  BY <1>4, HostGoneExecutes DEF CrashHost
<1>5. ASSUME UNCHANGED run PROVE ExecutionStep
  BY <1>5 DEF ExecutionStep
<1>6. ASSUME NEW r \in Request, CommitRequest(r) PROVE FALSE
  <2>1. run[k] \in Run /\ run[k].stage = "writeback" /\ run'[k].stage # "writeback"
    BY DEF Commits, At, Running, MInd, TInd, TTypeOK
  <2>2. QED
    BY <1>6, <2>1 DEF CommitRequest, Run
<1>7. CASE Targets
  BY <1>1, <1>2, <1>3, <1>4, <1>5, <1>7
  DEF Targets, TargetStep, BecomeDue, TTick, ExecutionStep
<1>8. ASSUME NEW r \in Request,
             \/ \E op \in Op, t \in Target : ReadTarget(r, op, t)
             \/ \E t \in Target : BeginRegister(r, t)
             \/ CommitRegister(r) \/ AbandonRequest(r)
      PROVE  ExecutionStep
  BY <1>5, <1>8 DEF ReadTarget, BeginRegister, CommitRegister, AbandonRequest, tvars
<1>9. CASE UNCHANGED mvars
  BY <1>5, <1>9 DEF mvars, tvars
<1>10. QED
  BY <1>6, <1>7, <1>8, <1>9 DEF MNext

(* No result of a superseded execution is ever committed, whatever the     *)
(* clocks, crashes and requests do.                                        *)
THEOREM StaleWorkerTheorem == MSpec => StaleWorkerNeverCommits
<1>1. ASSUME MInd, [MNext]_mvars PROVE \A k \in Token : Commits(k) => ~run[k].stale
  BY <1>1, TargetsExecute, CommitsAreFresh DEF MInd
<1>2. QED
  BY <1>1, MonitoringInvariant, PTL DEF MSpec, StaleWorkerNeverCommits

(* The count a check writes replaces the count it was computed from.       *)
THEOREM FailureCountTheorem == MSpec => NoLostFailureCount
<1>1. ASSUME MInd, [MNext]_mvars
      PROVE  \A k \in Token :
               Commits(k) => run[k].reset \/ run[k].seen = failures[run[k].target]
  BY <1>1, TargetsExecute, CommitsAreCounted DEF MInd
<1>2. QED
  BY <1>1, MonitoringInvariant, PTL DEF MSpec, NoLostFailureCount

-----------------------------------------------------------------------------
(* The two policies: a target that keeps failing is suspended, and         *)
(* registration respects the user's quota.                                 *)

(* Claims, workers and time never activate a target.                       *)
LEMMA ActivityFalls ==
  ASSUME TInd, TargetStep, NEW t \in Target, active'[t]
  PROVE  active[t]
<1> USE DEF TInd, TTypeOK
<1>1. ASSUME NEW p \in Pod, ClaimTargets(p, 1) PROVE active[t]
  BY <1>1 DEF ClaimTargets, LeaseRows
<1>2. CASE ClaimLost(1)
  BY <1>2 DEF ClaimLost, LeaseRows, rowVars
<1>3. ASSUME NEW p \in Pod, NEW u \in Target, CheckNow(p, u, 1) PROVE active[t]
  BY <1>3 DEF CheckNow, LeaseRows
<1>4. ASSUME NEW k \in Token, WorkerStep(k) PROVE active[t]
  <2>1. CASE WriteBack(k)
    BY <2>1 DEF WriteBack, Committed, rowVars
  <2>2. CASE Suspend(k)
    BY <2>2 DEF Suspend
  <2>3. CASE StartProbe(k) \/ RaiseAlert(k) \/ WriteAudit(k)
             \/ \E v \in Seen : ProbeReturns(k, v)
    BY <2>3 DEF StartProbe, RaiseAlert, WriteAudit, ProbeReturns, rowVars
  <2>4. QED
    BY <1>4, <2>1, <2>2, <2>3 DEF WorkerStep
<1>5. CASE \/ \E p \in Pod : CrashHost(p)
           \/ \E k \in Token : Timeout(k) \/ ExecutionError(k)
           \/ \E u \in registered : BecomeDue(u)
           \/ TTick
  BY <1>5 DEF CrashHost, Timeout, ExecutionError, BecomeDue, TTick, rowVars
<1>6. QED
  BY <1>1, <1>2, <1>3, <1>4, <1>5 DEF TargetStep

(* Claims, workers and time change a failure count to one that suspends    *)
(* only when a worker commits it and goes on to suspend.                   *)
LEMMA ThresholdIsNoticed ==
  ASSUME TInd, TargetStep, NEW t \in Target,
         failures'[t] >= MaxFailures, failures'[t] # failures[t]
  PROVE  \E k \in Token : At(k, "suspend")' /\ run'[k].target = t
<1> USE TargetLeaseAssumption DEF TInd
<1>1. ASSUME NEW p \in Pod, ClaimTargets(p, 1) PROVE FALSE
  BY <1>1 DEF ClaimTargets, LeaseRows
<1>2. CASE ClaimLost(1)
  BY <1>2 DEF ClaimLost, LeaseRows, rowVars
<1>3. ASSUME NEW p \in Pod, NEW u \in Target, CheckNow(p, u, 1) PROVE FALSE
  BY <1>3 DEF CheckNow, LeaseRows
<1>4. ASSUME NEW k \in Token, WriteBack(k)
      PROVE  At(k, "suspend")' /\ run'[k].target = t
  <2>1. HoldsLease(k) /\ Committed(k) /\ Running(k) /\ run[k] \in Run
    BY <1>4 DEF WriteBack, rowVars, At, Running, TTypeOK
  <2>2. failures' = [failures EXCEPT ![run[k].target] = NewFailures(k)]
    BY <2>1 DEF Committed
  <2>3. t = run[k].target /\ failures'[t] = NewFailures(k)
    BY <2>2 DEF TTypeOK
  <2>4. run[k].verdict \in {"unreachable", "ssrf"}
    BY <2>3 DEF NewFailures
  <2>5. Suspends(k)
    BY <2>3, <2>4 DEF Suspends
  <2>6. run' = [run EXCEPT ![k] = [run[k] EXCEPT !.stage = "suspend"]]
    BY <2>1, <2>5 DEF Committed, Goto
  <2>7. run'[k] = [run[k] EXCEPT !.stage = "suspend"]
    BY <2>6 DEF TTypeOK
  <2>8. run'[k].stage = "suspend" /\ run'[k].target = t /\ run'[k] \in Run
    BY <2>1, <2>3, <2>7 DEF Run, Stage
  <2>9. run'[k] # None
    BY <2>8, NoRunAssumption
  <2>10. QED
    BY <2>8, <2>9 DEF At, Running
<1>5. ASSUME NEW k \in Token, StartProbe(k) \/ RaiseAlert(k) \/ Suspend(k) \/ WriteAudit(k)
                              \/ (\E v \in Seen : ProbeReturns(k, v))
                              \/ Timeout(k) \/ ExecutionError(k)
      PROVE  FALSE
  BY <1>5 DEF StartProbe, RaiseAlert, Suspend, WriteAudit, ProbeReturns, Timeout,
              ExecutionError, rowVars
<1>6. CASE \/ \E p \in Pod : CrashHost(p)
           \/ \E u \in registered : BecomeDue(u)
           \/ TTick
  BY <1>6 DEF CrashHost, BecomeDue, TTick, rowVars
<1>7. QED
  BY <1>1, <1>2, <1>3, <1>4, <1>5, <1>6 DEF TargetStep, WorkerStep

GoesOn(k) == \/ run'[k] = None
             \/ At(k, "suspend")' /\ run'[k].target = run[k].target
             \/ ~active'[run[k].target]

(* A worker about to suspend its target goes on to do so or is lost.       *)
LEMMA SuspensionGoesOn ==
  ASSUME TInd, TargetStep, NEW k \in Token, At(k, "suspend")
  PROVE  GoesOn(k)
<1>1. Running(k) /\ run[k] \in Run /\ run[k].stage = "suspend" /\ run[k].target \in Target
  BY DEF At, Running, TInd, TTypeOK, Run
<1>2. ASSUME UNCHANGED run PROVE GoesOn(k)
  BY <1>1, <1>2 DEF At, Running, GoesOn
<1>3. ASSUME NEW S, run'[k] = MarkStale(S)[k] PROVE GoesOn(k)
  <2>1. run'[k].stage = run[k].stage /\ run'[k].target = run[k].target
    BY <1>1, <1>3 DEF MarkStale, Run
  <2>2. QED
    BY <1>1, <2>1 DEF At, Running, GoesOn
<1>4. ASSUME NEW S, NEW f \in Injections(S), NEW p, NEW who, Submit(S, f, p, who, 1)
      PROVE  GoesOn(k)
  <2>1. \A t \in S : f[t] # k
    BY <1>1, <1>4 DEF Injections, Fresh
  <2>2. run'[k] = MarkStale(S)[k]
    BY <1>4, <2>1 DEF Submit
  <2>3. QED
    BY <1>3, <2>2
<1>5. ASSUME NEW j \in Token \ {k}, NEW r, run' = [run EXCEPT ![j] = r] PROVE GoesOn(k)
  <2>1. run'[k] = run[k]
    BY <1>5 DEF TInd, TTypeOK
  <2>2. QED
    BY <1>1, <2>1 DEF At, Running, GoesOn
<1>6. ASSUME NEW p \in Pod, ClaimTargets(p, 1) PROVE GoesOn(k)
  <2>1. PICK S \in Batches : \E f \in Injections(S) : Submit(S, f, p, "engine", 1)
    BY <1>6 DEF ClaimTargets
  <2>2. QED
    BY <1>4, <2>1
<1>7. CASE ClaimLost(1)
  <2>1. UNCHANGED run \/ \E S : run' = MarkStale(S)
    BY <1>7 DEF ClaimLost
  <2>2. QED
    BY <1>2, <1>3, <2>1
<1>8. ASSUME NEW p \in Pod, NEW u \in Target, CheckNow(p, u, 1) PROVE GoesOn(k)
  <2>1. PICK l \in Fresh : Submit({u}, [v \in {u} |-> l], p, "api", 1)
    BY <1>8 DEF CheckNow
  <2>2. [v \in {u} |-> l] \in Injections({u})
    BY DEF Injections
  <2>3. QED
    BY <1>4, <2>1, <2>2
<1>9. ASSUME NEW j \in Token,
             WorkerStep(j) \/ Timeout(j) \/ ExecutionError(j)
      PROVE  GoesOn(k)
  <2>1. CASE j # k
    <3>1. \E r : run' = [run EXCEPT ![j] = r]
      BY <1>9 DEF WorkerStep, StartProbe, RaiseAlert, WriteBack, Committed, Suspend,
                  WriteAudit, ProbeReturns, Timeout, ExecutionError, Goto, Ended, Audited
    <3>2. QED
      BY <1>5, <2>1, <3>1
  <2>2. CASE j = k
    <3>1. CASE Suspend(k)
      BY <1>1, <3>1 DEF GoesOn, Suspend, TInd, TTypeOK
    <3>2. CASE ExecutionError(k)
      BY <3>2 DEF GoesOn, ExecutionError, Ended, TInd, TTypeOK
    <3>3. QED
      BY <1>1, <1>9, <2>2, <3>1, <3>2 DEF WorkerStep, StartProbe, RaiseAlert, WriteBack,
                  WriteAudit, ProbeReturns, Timeout, At
  <2>3. QED
    BY <2>1, <2>2
<1>10. ASSUME NEW p \in Pod, CrashHost(p) PROVE GoesOn(k)
  <2>1. run'[k] = None \/ run'[k] = run[k]
    BY <1>10 DEF CrashHost, HostGone
  <2>2. QED
    BY <1>1, <2>1 DEF At, Running, GoesOn
<1>11. CASE TTick \/ \E u \in registered : BecomeDue(u)
  BY <1>2, <1>11 DEF TTick, BecomeDue
<1>12. QED
  BY <1>6, <1>7, <1>8, <1>9, <1>10, <1>11 DEF TargetStep

-----------------------------------------------------------------------------
(* Suspension.                                                             *)

(* A step of the engines, the workers or the clock.                        *)
LEMMA TargetsKeepSuspension ==
  ASSUME MInd, SuspensionHolds, Targets
  PROVE  SuspensionHolds'
<1> SUFFICES ASSUME NEW t \in Target, active'[t], failures'[t] >= MaxFailures,
                    t \notin reopened' \union unsuspended'
             PROVE  \E k \in Token : At(k, "suspend")' /\ run'[k].target = t
  BY DEF SuspensionHolds, At, Running
<1>1. TInd /\ TargetStep /\ active[t]
  BY ActivityFalls DEF MInd, Targets
<1>2. CASE failures'[t] # failures[t]
  BY <1>1, <1>2, ThresholdIsNoticed
<1>3. CASE failures'[t] = failures[t]
  <2>1. t \notin reopened \union unsuspended /\ ~SuspensionLost(t)
    BY DEF Targets
  <2>2. PICK k \in Token : At(k, "suspend") /\ run[k].target = t
    BY <1>1, <1>3, <2>1 DEF SuspensionHolds
  <2>3. run'[k] # None
    BY <2>1, <2>2 DEF SuspensionLost
  <2>4. QED
    BY <1>1, <2>2, <2>3, SuspensionGoesOn DEF GoesOn
<1>4. QED
  BY <1>2, <1>3

(* A request that commits: what it activates counts as re-activated.       *)
LEMMA RequestsKeepSuspension ==
  ASSUME MInd, SuspensionHolds, NEW r \in Request, CommitRequest(r)
  PROVE  SuspensionHolds'
<1> DEFINE q == request[r]
<1> SUFFICES ASSUME NEW t \in Target, active'[t], failures'[t] >= MaxFailures,
                    t \notin reopened' \union unsuspended'
             PROVE  \E k \in Token : At(k, "suspend")' /\ run'[k].target = t
  BY DEF SuspensionHolds, At, Running
<1>1. q \in Open /\ q.target \in Target
  BY DEF CommitRequest, MInd, MTypeOK, Open
<1>2. /\ active' = [active EXCEPT ![q.target] = IF q.active = None THEN @ ELSE q.active]
      /\ failures' = [failures EXCEPT ![q.target] = IF q.resets THEN 0 ELSE @]
      /\ reopened' = {u \in reopened : active'[u]} \union {u \in {q.target} : q.active = TRUE}
      /\ unsuspended' = {u \in unsuspended : active'[u]}
  BY DEF CommitRequest
<1>3. t \notin reopened \union unsuspended
  BY <1>2
<1>4. active[t]
  <2>1. t = q.target => q.active # TRUE
    BY <1>2
  <2>2. QED
    BY <1>1, <1>2, <2>1 DEF MInd, TInd, TTypeOK, Open
<1>5. failures[t] >= MaxFailures
  BY <1>1, <1>2, TargetLeaseAssumption DEF MInd, TInd, TTypeOK
<1>6. PICK k \in Token : At(k, "suspend") /\ run[k].target = t
  BY <1>3, <1>4, <1>5 DEF SuspensionHolds
<1>7. run[k] \in Run /\ run[k] # None /\ run[k].stage = "suspend"
  BY <1>6 DEF At, Running, MInd, TInd, TTypeOK
<1>8. run'[k] = IF Running(k) /\ run[k].target = q.target /\ q.resets
                THEN [run[k] EXCEPT !.reset = TRUE] ELSE run[k]
  BY DEF CommitRequest
<1>9. run'[k].stage = "suspend" /\ run'[k].target = t /\ run'[k] \in Run
  <2>1. CASE run'[k] = run[k]
    BY <1>6, <1>7, <2>1
  <2>2. CASE run'[k] = [run[k] EXCEPT !.reset = TRUE]
    BY <1>6, <1>7, <2>2 DEF Run
  <2>3. QED
    BY <1>8, <2>1, <2>2
<1>10. run'[k] # None
  BY <1>9, NoRunAssumption
<1>11. QED
  BY <1>9, <1>10 DEF At, Running

(* A target that keeps failing, or whose address is refused, does not stay *)
(* active unless a request re-activates it or its last worker is lost.     *)
THEOREM SuspensionTheorem == MSpec => []SuspensionHolds
<1>1. MInit => SuspensionHolds
  BY TargetLeaseAssumption DEF MInit, TInit, SuspensionHolds
<1>2. ASSUME MInd, SuspensionHolds, [MNext]_mvars PROVE SuspensionHolds'
  <2>1. CASE Targets
    BY <1>2, <2>1, TargetsKeepSuspension
  <2>2. ASSUME NEW r \in Request, CommitRequest(r) PROVE SuspensionHolds'
    BY <1>2, <2>2, RequestsKeepSuspension
  <2>3. ASSUME NEW r \in Request, CommitRegister(r) PROVE SuspensionHolds'
    <3>1. /\ active' = [active EXCEPT ![request[r].target] = TRUE]
          /\ failures' = [failures EXCEPT ![request[r].target] = 0]
          /\ UNCHANGED <<run, reopened, unsuspended>>
      BY <2>3 DEF CommitRegister
    <3>a. request[r].target \in Target /\ ~(0 >= MaxFailures)
      BY <1>2, <2>3, TargetLeaseAssumption DEF CommitRegister, MInd, MTypeOK, Open
    <3>2. \A t \in Target : failures'[t] >= MaxFailures =>
            failures'[t] = failures[t] /\ active'[t] = active[t]
      BY <1>2, <3>1, <3>a DEF MInd, TInd, TTypeOK
    <3>3. QED
      BY <1>2, <3>1, <3>2 DEF SuspensionHolds, At, Running
  <2>4. CASE UNCHANGED <<tvars, reopened, unsuspended>>
    BY <1>2, <2>4 DEF SuspensionHolds, At, Running, tvars, rowVars
  <2>5. ASSUME NEW r \in Request,
               \/ \E op \in Op, t \in Target : ReadTarget(r, op, t)
               \/ \E t \in Target : BeginRegister(r, t)
               \/ AbandonRequest(r)
        PROVE  UNCHANGED <<tvars, reopened, unsuspended>>
    BY <2>5 DEF ReadTarget, BeginRegister, AbandonRequest
  <2>6. CASE UNCHANGED mvars
    BY <2>4, <2>6 DEF mvars
  <2>7. QED
    BY <1>2, <2>1, <2>2, <2>3, <2>4, <2>5, <2>6 DEF MNext
<1>3. QED
  BY <1>1, <1>2, MonitoringInvariant, PTL DEF MSpec

-----------------------------------------------------------------------------
(* Quota.                                                                  *)

Counted == {t \in Target : active[t]} \ reopened

(* An open registration holds the user's row, and there is room for it.    *)
QInd ==
  /\ Cardinality(Counted) <= Quota
  /\ quotaLock # None => Cardinality(Counted) < Quota
  /\ \A r \in Request :
        request[r] # None /\ request[r].op = "register" => quotaLock = r

(* Fewer targets are counted, not more.                                    *)
LEMMA CountedShrinks ==
  ASSUME NEW S, S \subseteq Counted
  PROVE  /\ Cardinality(S) \in Nat /\ Cardinality(Counted) \in Nat
         /\ Cardinality(S) <= Cardinality(Counted)
<1>1. IsFiniteSet(Counted)
  BY QuotaAssumption, FS_Subset DEF Counted
<1>2. QED
  BY <1>1, FS_Subset, FS_CardinalityType

(* No step but an insert adds a target that counts.                        *)
LEMMA OnlyInsertsCount ==
  ASSUME MInd, [MNext]_mvars, \A r \in Request : ~CommitRegister(r)
  PROVE  Counted' \subseteq Counted
<1> SUFFICES ASSUME NEW t \in Target, active'[t], t \notin reopened'
             PROVE  active[t] /\ t \notin reopened
  BY DEF Counted
<1>1. CASE Targets
  <2>1. active[t]
    BY <1>1, ActivityFalls DEF Targets, MInd
  <2>2. QED
    BY <1>1, <2>1 DEF Targets
<1>2. ASSUME NEW r \in Request, CommitRequest(r) PROVE active[t] /\ t \notin reopened
  <2>1. request[r] \in Open /\ request[r].target \in Target
    BY <1>2 DEF CommitRequest, MInd, MTypeOK, Open
  <2>2. t = request[r].target => request[r].active # TRUE
    BY <1>2 DEF CommitRequest
  <2>3. active[t]
    BY <1>2, <2>1, <2>2 DEF CommitRequest, MInd, TInd, TTypeOK, Open
  <2>4. t \notin reopened
    BY <1>2 DEF CommitRequest
  <2>5. QED
    BY <2>3, <2>4
<1>3. ASSUME UNCHANGED <<tvars, reopened>> PROVE active[t] /\ t \notin reopened
  BY <1>3 DEF tvars, rowVars
<1>4. ASSUME NEW r \in Request,
             \/ \E op \in Op, u \in Target : ReadTarget(r, op, u)
             \/ \E u \in Target : BeginRegister(r, u)
             \/ AbandonRequest(r)
      PROVE  UNCHANGED <<tvars, reopened>>
  BY <1>4 DEF ReadTarget, BeginRegister, AbandonRequest
<1>5. CASE UNCHANGED mvars
  BY <1>3, <1>5 DEF mvars
<1>6. QED
  BY <1>1, <1>2, <1>3, <1>4, <1>5 DEF MNext

(* The steps of registrations and of everybody else.                       *)
LEMMA QIndStep == ASSUME MInd, QInd, [MNext]_mvars PROVE QInd'
<1>1. CASE \A r \in Request : ~CommitRegister(r)
  <2>1. Counted' \subseteq Counted
    BY <1>1, OnlyInsertsCount
  <2>2. /\ Cardinality(Counted') \in Nat /\ Cardinality(Counted) \in Nat
        /\ Cardinality(Counted') <= Cardinality(Counted)
    BY <2>1, CountedShrinks
  <2>3. CASE UNCHANGED <<quotaLock, request>>
    BY <2>2, <2>3, MonitoringTargetsAssumption DEF QInd
  <2>4. ASSUME NEW r \in Request, NEW t \in Target, BeginRegister(r, t) PROVE QInd'
    <3>1. /\ request' = [request EXCEPT ![r] =
               [op |-> "register", target |-> t, active |-> TRUE, resets |-> FALSE, due |-> TRUE]]
          /\ quotaLock = None /\ quotaLock' = r
          /\ ActiveCount < Quota
          /\ UNCHANGED <<active, reopened>>
      BY <2>4 DEF BeginRegister, TakeQuotaLock, tvars, rowVars
    <3>2. IsFiniteSet({u \in Target : active[u]})
      BY QuotaAssumption, FS_Subset
    <3>3. Cardinality(Counted) <= ActiveCount /\ ActiveCount \in Nat
      BY <3>2, FS_Subset, FS_CardinalityType DEF Counted, ActiveCount
    <3>4. \A s \in Request : request'[s] # None /\ request'[s].op = "register" => s = r
      BY <2>4, <3>1, MonitoringTargetsAssumption DEF QInd, MInd, MTypeOK
    <3>5. QED
      BY <2>2, <3>1, <3>3, <3>4, MonitoringTargetsAssumption DEF QInd
  <2>5. ASSUME NEW r \in Request, NEW op \in Op, NEW t \in Target, ReadTarget(r, op, t)
        PROVE  QInd'
    <3>1. request' = [request EXCEPT ![r] = Changes(op, t)] /\ UNCHANGED quotaLock
      BY <2>5 DEF ReadTarget
    <3>2. Changes(op, t).op = "update"
      BY DEF Changes
    <3>3. \A s \in Request : request'[s] # None /\ request'[s].op = "register" =>
            request'[s] = request[s]
      BY <3>1, <3>2 DEF MInd, MTypeOK
    <3>4. QED
      BY <2>2, <3>1, <3>3, MonitoringTargetsAssumption DEF QInd
  <2>6. ASSUME NEW r \in Request, AbandonRequest(r) \/ CommitRequest(r) PROVE QInd'
    <3>1. request' = [request EXCEPT ![r] = None]
      BY <2>6 DEF AbandonRequest, CommitRequest
    <3>2. quotaLock' = quotaLock \/ (quotaLock = r /\ quotaLock' = None)
      BY <2>6 DEF AbandonRequest, CommitRequest
    <3>3. \A s \in Request : request'[s] # None => s # r /\ request'[s] = request[s]
      BY <3>1 DEF MInd, MTypeOK
    <3>4. \A s \in Request : request'[s] # None /\ request'[s].op = "register" => quotaLock' = s
      BY <3>2, <3>3 DEF QInd
    <3>5. QED
      BY <2>2, <3>2, <3>4, MonitoringTargetsAssumption DEF QInd
  <2>7. QED
    BY <1>1, <2>3, <2>4, <2>5, <2>6 DEF MNext, Targets, mvars
<1>2. ASSUME NEW r \in Request, CommitRegister(r) PROVE QInd'
  <2> DEFINE t == request[r].target
  <2>1. /\ request[r] # None /\ request[r].op = "register"
        /\ active' = [active EXCEPT ![t] = TRUE]
        /\ request' = [request EXCEPT ![r] = None]
        /\ quotaLock' = None
        /\ UNCHANGED reopened
    BY <1>2 DEF CommitRegister
  <2>2. quotaLock = r /\ r # None /\ Cardinality(Counted) < Quota
    BY <2>1, MonitoringTargetsAssumption DEF QInd
  <2>3. Counted' \subseteq Counted \union {t}
    <3>1. active \in [Target -> BOOLEAN]
      BY DEF MInd, TInd, TTypeOK
    <3>2. \A u \in Target : u = t \/ active'[u] = active[u]
      BY <2>1, <3>1
    <3>3. QED
      BY <2>1, <3>2 DEF Counted
  <2>4. IsFiniteSet(Counted) /\ Cardinality(Counted) \in Nat
    BY QuotaAssumption, FS_Subset, FS_CardinalityType DEF Counted
  <2>5. /\ IsFiniteSet(Counted \union {t})
        /\ Cardinality(Counted \union {t}) <= Cardinality(Counted) + 1
    <3> HIDE DEF t
    <3>1. QED
      BY <2>4, FS_AddElement
  <2>6. Cardinality(Counted') <= Cardinality(Counted) + 1 /\ Cardinality(Counted') \in Nat
    BY <2>3, <2>4, <2>5, FS_Subset, FS_CardinalityType
  <2>7. \A s \in Request : request'[s] # None => s # r /\ request'[s] = request[s]
    BY <2>1 DEF MInd, MTypeOK
  <2>8. \A s \in Request : request'[s] # None => request'[s].op # "register"
    BY <2>2, <2>7 DEF QInd
  <2>9. QED
    BY <2>1, <2>2, <2>4, <2>6, <2>8, MonitoringTargetsAssumption DEF QInd
<1>3. QED
  BY <1>1, <1>2

(* However many registrations race, the user's quota holds, leaving aside  *)
(* the targets that other requests re-activate without looking at it.      *)
THEOREM QuotaTheorem == MSpec => []RegistrationRespectsQuota
<1>1. MInit => QInd
  <2> SUFFICES ASSUME MInit PROVE QInd
    OBVIOUS
  <2>1. Counted = Preset
    BY MonitoringTargetsAssumption DEF MInit, TInit, Counted
  <2>2. QED
    BY <2>1, QuotaAssumption DEF MInit, QInd
<1>2. QInd => RegistrationRespectsQuota
  BY DEF QInd, RegistrationRespectsQuota, Counted
<1>3. MInd /\ QInd /\ [MNext]_mvars => QInd'
  BY QIndStep
<1>4. QED
  BY <1>1, <1>2, <1>3, MonitoringInvariant, PTL DEF MSpec

-----------------------------------------------------------------------------
(* The composed system of MonitoringSystem.                                *)

(* The election of the composed system, and what was proved of it.         *)
Elected == INSTANCE LeaderElectionProofs

(* An epoch in which an engine has started executions was granted, and the *)
(* pod that dispatched them is the only one that can believe in it.        *)
RunsGranted ==
  \A k \in Token : Running(k) /\ run[k].by = "engine" =>
    /\ run[k].epoch \in 1 .. epoch
    /\ \A p \in Pod : isLeader[p] /\ myEpoch[p] = run[k].epoch => p = run[k].host

SInd == TInd /\ Elected!EInd /\ STypeOK /\ RunsGranted /\ OneDispatcherPerEpoch

(* Nothing is granted and nothing runs.                                    *)
LEMMA SInitInd == SInit => SInd
<1> SUFFICES ASSUME SInit PROVE SInd
  OBVIOUS
<1>1. TInd
  BY TInitInd DEF SInit
<1>2. Elected!EInd
  BY Elected!EInitInd, LeaderElectionAssumption
  DEF SInit, Election!EInit, Elected!EInit
<1>3. STypeOK
  BY <1>1, <1>2, MonitoringSystemAssumption
  DEF SInit, STypeOK, TInd, Elected!EInd, Elected!ETypeOK, Election!ETypeOK,
      Elected!Lease, Election!Lease, Elected!PC, Election!PC
<1>4. \A k \in Token : ~Running(k)
  BY DEF SInit, TInit, Running
<1>5. QED
  BY <1>1, <1>2, <1>3, <1>4 DEF SInd, RunsGranted, OneDispatcherPerEpoch

-----------------------------------------------------------------------------
(* The election half of a step.                                            *)

(* It is a step of LeaderElection, or leaves the election alone.           *)
ElectionHalf == [Elected!ENext]_(Elected!evars)

(* Whatever a pod believes was granted before the step, it believed then.  *)
BeliefsAreOld ==
  /\ epoch' >= epoch
  /\ \A p \in Pod : isLeader'[p] /\ myEpoch'[p] <= epoch
                      => isLeader[p] /\ myEpoch[p] = myEpoch'[p]

(* The steps of the two instances of LeaderElection are the same.          *)
LEMMA SameElection ==
  ASSUME NEW p \in Pod
  PROVE  /\ Election!AcquireEpoch(p) => Elected!AcquireEpoch(p)
         /\ Election!YieldToLease(p) => Elected!YieldToLease(p)
         /\ Election!EpochUpdateError(p) => Elected!EpochUpdateError(p)
         /\ Election!RenewalError(p) => Elected!RenewalError(p)
         /\ Election!RenewLease(p) => Elected!RenewLease(p)
         /\ Election!RenewalRefused(p) => Elected!RenewalRefused(p)
         /\ Election!EndCycle(p) => Elected!EndCycle(p)
         /\ Election!Restart(p) => Elected!Restart(p)
         /\ Election!Exit(p) => Elected!Exit(p)
         /\ Election!Crash(p) => Elected!Crash(p)
         /\ Election!Tick => Elected!Tick
         /\ \A c \in Conn :
              /\ Election!ConnStep(p, c) => Elected!ConnStep(p, c)
              /\ Election!LoseConnection(p, c) => Elected!LoseConnection(p, c)
              /\ Election!StopEngine(p, c) => Elected!StopEngine(p, c)
<1> USE DEF Election!dbVars, Elected!dbVars, Election!engineVars, Elected!engineVars
<1>1. /\ Election!AcquireEpoch(p) => Elected!AcquireEpoch(p)
      /\ Election!YieldToLease(p) => Elected!YieldToLease(p)
      /\ Election!EpochUpdateError(p) => Elected!EpochUpdateError(p)
  BY DEF Election!AcquireEpoch, Elected!AcquireEpoch, Election!YieldToLease,
         Elected!YieldToLease, Election!EpochUpdateError, Elected!EpochUpdateError,
         Election!GrantEpoch, Elected!GrantEpoch, Election!LeaseAllows,
         Elected!LeaseAllows, Election!SpendFault, Elected!SpendFault
<1>2. /\ Election!RenewalError(p) => Elected!RenewalError(p)
      /\ Election!RenewLease(p) => Elected!RenewLease(p)
      /\ Election!RenewalRefused(p) => Elected!RenewalRefused(p)
      /\ Election!EndCycle(p) => Elected!EndCycle(p)
  BY DEF Election!RenewalError, Elected!RenewalError, Election!RenewLease,
         Elected!RenewLease, Election!RenewalRefused, Elected!RenewalRefused,
         Election!EndCycle, Elected!EndCycle, Election!RowIsMine, Elected!RowIsMine,
         Election!SpendFault, Elected!SpendFault
<1>3. /\ Election!Restart(p) => Elected!Restart(p)
      /\ Election!Exit(p) => Elected!Exit(p)
      /\ Election!Crash(p) => Elected!Crash(p)
      /\ Election!Tick => Elected!Tick
  BY DEF Election!Restart, Elected!Restart, Election!Exit, Elected!Exit,
         Election!Crash, Elected!Crash, Election!Gone, Elected!Gone,
         Election!Follow, Elected!Follow, Election!Tick, Elected!Tick,
         Election!Elapse, Elected!Elapse, Election!SpendFault, Elected!SpendFault
<1>4. ASSUME NEW c \in Conn
      PROVE  /\ Election!ConnStep(p, c) => Elected!ConnStep(p, c)
             /\ Election!LoseConnection(p, c) => Elected!LoseConnection(p, c)
             /\ Election!StopEngine(p, c) => Elected!StopEngine(p, c)
  BY DEF Election!ConnStep, Elected!ConnStep, Election!TryAdvisoryLock,
         Elected!TryAdvisoryLock, Election!ReleaseAndFollow, Elected!ReleaseAndFollow,
         Election!LoseConnection, Elected!LoseConnection, Election!StopEngine,
         Elected!StopEngine, Election!LockFreeFor, Elected!LockFreeFor,
         Election!UnlockConn, Elected!UnlockConn, Election!Unlocked, Elected!Unlocked,
         Election!Follow, Elected!Follow, Election!SpendFault, Elected!SpendFault
<1>5. QED
  BY <1>1, <1>2, <1>3, <1>4

(* Every step of the system is a step of LeaderElection or leaves it       *)
(* alone.                                                                  *)
LEMMA SystemElection == ASSUME [SNext]_svars PROVE ElectionHalf
<1> USE DEF ElectionHalf, Elected!ENext, Elected!EngineStep, Elected!FaultStep
<1>1. ASSUME NEW p \in Pod, ElectionStep(p) PROVE ElectionHalf
  BY <1>1, SameElection DEF ElectionStep
<1>2. ASSUME NEW p \in Pod, ClaimBatch(p) PROVE ElectionHalf
  BY <1>2, SameElection DEF ClaimBatch
<1>3. ASSUME NEW p \in Pod, StopEngine(p) PROVE ElectionHalf
  BY <1>3, SameElection DEF StopEngine
<1>4. ASSUME NEW p \in Pod, ProcessGone(p) PROVE ElectionHalf
  BY <1>4, SameElection DEF ProcessGone
<1>5. ASSUME UNCHANGED electionVars PROVE ElectionHalf
  BY <1>5 DEF electionVars, Elected!evars, Elected!dbVars, Elected!engineVars
<1>6. CASE Tick
  <2>1. Election!Tick => Elected!Tick
    BY DEF Election!Tick, Elected!Tick, Election!Elapse, Elected!Elapse,
           Election!engineVars, Elected!engineVars
  <2>2. QED
    BY <1>6, <2>1 DEF Tick
<1>7. QED
  BY <1>1, <1>2, <1>3, <1>4, <1>5, <1>6 DEF SNext, ReadEpoch, CheckNowClaims, Workers, svars

(* The election never lets a pod believe in an epoch granted to another.   *)
LEMMA ElectionKeeps ==
  ASSUME Elected!EInd, ElectionHalf
  PROVE  Elected!EInd' /\ BeliefsAreOld
<1>1. Elected!EInd'
  BY Elected!EIndStep, LeaderElectionAssumption DEF ElectionHalf
<1> USE DEF Elected!EInd, Elected!ETypeOK
<1>2. ASSUME UNCHANGED <<epoch, isLeader, myEpoch>> PROVE BeliefsAreOld
  BY <1>2 DEF BeliefsAreOld
<1>3. ASSUME NEW p \in Pod, Elected!Follow(p), epoch' = epoch \/ epoch' = epoch + 1 PROVE BeliefsAreOld
  BY <1>3 DEF BeliefsAreOld, Elected!Follow
<1>4. ASSUME NEW p \in Pod, Elected!AcquireEpoch(p) PROVE BeliefsAreOld
  BY <1>4 DEF BeliefsAreOld, Elected!AcquireEpoch, Elected!GrantEpoch
<1>5. ASSUME NEW p \in Pod, Elected!EpochUpdateError(p) PROVE BeliefsAreOld
  BY <1>5 DEF BeliefsAreOld, Elected!EpochUpdateError, Elected!GrantEpoch, Elected!dbVars
<1>6. ASSUME NEW p \in Pod, Elected!EngineStep(p) \/ Elected!FaultStep(p) PROVE BeliefsAreOld
  BY <1>2, <1>3, <1>4, <1>5, <1>6
  DEF Elected!EngineStep, Elected!FaultStep, Elected!YieldToLease, Elected!RenewLease,
      Elected!RenewalRefused, Elected!EndCycle, Elected!Exit, Elected!Gone,
      Elected!Restart, Elected!RenewalError, Elected!Crash, Elected!StopEngine,
      Elected!LoseConnection, Elected!dbVars
<1>7. ASSUME NEW p \in Pod, NEW c \in Conn, Elected!ConnStep(p, c) PROVE BeliefsAreOld
  BY <1>2, <1>3, <1>7
  DEF Elected!ConnStep, Elected!TryAdvisoryLock, Elected!ReleaseAndFollow, Elected!dbVars
<1>8. ASSUME Elected!Tick \/ UNCHANGED Elected!evars PROVE BeliefsAreOld
  BY <1>2, <1>8 DEF Elected!Tick, Elected!evars, Elected!dbVars, Elected!engineVars
<1>9. QED
  BY <1>1, <1>6, <1>7, <1>8 DEF ElectionHalf, Elected!ENext

-----------------------------------------------------------------------------
(* The executions' half of a step.                                         *)

(* Executions that go on or end, whoever wrote their rows.                 *)
RunsAreOld ==
  \A k \in Token : run'[k] # None =>
    /\ Running(k)
    /\ run'[k].host = run[k].host /\ run'[k].by = run[k].by
    /\ run'[k].epoch = run[k].epoch

(* A step that starts no execution keeps dispatchers apart.                *)
LEMMA OldRunsKeep ==
  ASSUME SInd, RunsAreOld, BeliefsAreOld, epoch' \in Nat
  PROVE  RunsGranted' /\ OneDispatcherPerEpoch'
<1>1. epoch \in Nat /\ \A k \in Token : Running(k) => run[k] \in Run
  BY DEF SInd, STypeOK, TTypeOK, Election!ETypeOK, Running
<1>2. RunsGranted'
  <2> SUFFICES ASSUME NEW k \in Token, run'[k] # None, run'[k].by = "engine"
               PROVE  /\ run'[k].epoch \in 1 .. epoch'
                      /\ \A p \in Pod : isLeader'[p] /\ myEpoch'[p] = run'[k].epoch
                                          => p = run'[k].host
    BY DEF RunsGranted, Running
  <2>1. /\ Running(k) /\ run[k].by = "engine"
        /\ run'[k].host = run[k].host /\ run'[k].epoch = run[k].epoch
    BY DEF RunsAreOld
  <2>2. /\ run[k].epoch \in 1 .. epoch
        /\ \A p \in Pod : isLeader[p] /\ myEpoch[p] = run[k].epoch => p = run[k].host
    BY <2>1 DEF SInd, RunsGranted
  <2>3. QED
    BY <1>1, <2>1, <2>2 DEF BeliefsAreOld
<1>3. OneDispatcherPerEpoch'
  <2> SUFFICES ASSUME NEW k \in Token, NEW l \in Token, run'[k] # None, run'[l] # None,
                      run'[k].by = "engine", run'[l].by = "engine",
                      run'[k].epoch = run'[l].epoch
               PROVE  run'[k].host = run'[l].host
    BY DEF OneDispatcherPerEpoch, Running
  <2>1. QED
    BY DEF SInd, OneDispatcherPerEpoch, RunsAreOld
<1>4. QED
  BY <1>2, <1>3

(* A claim: the new executions are of pod p and epoch e.                   *)
LEMMA ClaimedRuns ==
  ASSUME TTypeOK, NEW p, NEW who, NEW e, NEW S \in SUBSET Target, NEW f \in Injections(S),
         Submit(S, f, p, who, e) \/ run' = MarkStale(S)
  PROVE  \A k \in Token : run'[k] # None =>
           \/ /\ Running(k) /\ run'[k].host = run[k].host /\ run'[k].by = run[k].by
              /\ run'[k].epoch = run[k].epoch
           \/ /\ ~(run' = MarkStale(S))
              /\ run'[k].host = p /\ run'[k].by = who /\ run'[k].epoch = e
<1> SUFFICES ASSUME NEW k \in Token, run'[k] # None
             PROVE  \/ /\ Running(k) /\ run'[k].host = run[k].host /\ run'[k].by = run[k].by
                       /\ run'[k].epoch = run[k].epoch
                    \/ /\ ~(run' = MarkStale(S))
                       /\ run'[k].host = p /\ run'[k].by = who /\ run'[k].epoch = e
  OBVIOUS
<1>1. ASSUME run'[k] = MarkStale(S)[k]
      PROVE  /\ Running(k) /\ run'[k].host = run[k].host /\ run'[k].by = run[k].by
             /\ run'[k].epoch = run[k].epoch
  <2>1. run'[k] = IF Running(k) /\ run[k].target \in S
                  THEN [run[k] EXCEPT !.stale = TRUE] ELSE run[k]
    BY <1>1 DEF MarkStale
  <2>2. Running(k) => run[k] \in Run
    BY DEF TTypeOK, Running
  <2>3. QED
    BY <2>1, <2>2 DEF Running, Run
<1>2. CASE run' = MarkStale(S)
  BY <1>1, <1>2
<1>3. CASE run' # MarkStale(S)
  <2>1. Submit(S, f, p, who, e)
    BY <1>3
  <2>2. CASE \E t \in S : f[t] = k
    <3>1. PICK t : run'[k] = NewRun(t, p, who, e)
      BY <2>1, <2>2 DEF Submit
    <3>2. QED
      BY <1>3, <3>1 DEF NewRun
  <2>3. CASE ~ \E t \in S : f[t] = k
    <3>1. run'[k] = MarkStale(S)[k]
      BY <2>1, <2>3 DEF Submit
    <3>2. QED
      BY <1>1, <3>1
  <2>4. QED
    BY <2>2, <2>3
<1>4. QED
  BY <1>2, <1>3

(* What a worker does to the executions.                                   *)
LEMMA WorkerRuns ==
  ASSUME TTypeOK, NEW k \in Token, WorkerStep(k) \/ Timeout(k) \/ ExecutionError(k)
  PROVE  RunsAreOld
<1>1. Running(k) => run[k] \in Run
  BY DEF TTypeOK, Running
<1>2. ASSUME run' = Ended(k) PROVE RunsAreOld
  BY <1>2 DEF Ended, RunsAreOld, Running, TTypeOK
<1>3. ASSUME Running(k), NEW r, run' = [run EXCEPT ![k] = r],
             r.host = run[k].host, r.by = run[k].by, r.epoch = run[k].epoch
      PROVE  RunsAreOld
  BY <1>3 DEF RunsAreOld, Running, TTypeOK
<1>4. ASSUME Running(k), run' = Audited(k) PROVE RunsAreOld
  <2> DEFINE r == [run[k] EXCEPT !.stage = "audit", !.seen = 0, !.verdict = "quiet",
                                 !.reset = FALSE]
  <2>1. run' = [run EXCEPT ![k] = r]
    BY <1>4 DEF Audited
  <2>2. r.host = run[k].host /\ r.by = run[k].by /\ r.epoch = run[k].epoch
    BY <1>1, <1>4 DEF Run
  <2>3. QED
    BY <1>3, <1>4, <2>1, <2>2
<1>5. ASSUME Running(k), NEW s, run' = Goto(k, s) PROVE RunsAreOld
  <2> DEFINE r == [run[k] EXCEPT !.stage = s]
  <2>1. run' = [run EXCEPT ![k] = r]
    BY <1>5 DEF Goto
  <2>2. r.host = run[k].host /\ r.by = run[k].by /\ r.epoch = run[k].epoch
    BY <1>1, <1>5 DEF Run
  <2>3. QED
    BY <1>3, <1>5, <2>1, <2>2
<1>6. CASE StartProbe(k)
  <2>1. CASE HoldsLease(k)
    <3> DEFINE r == [run[k] EXCEPT !.stage = "probing", !.seen = failures[run[k].target]]
    <3>1. Running(k) /\ run' = [run EXCEPT ![k] = r]
      BY <1>6, <2>1 DEF StartProbe, At
    <3>2. r.host = run[k].host /\ r.by = run[k].by /\ r.epoch = run[k].epoch
      BY <1>1, <3>1 DEF Run
    <3>3. QED
      BY <1>3, <3>1, <3>2
  <2>2. QED
    BY <1>2, <1>6, <2>1 DEF StartProbe
<1>7. ASSUME NEW v \in Seen, ProbeReturns(k, v) PROVE RunsAreOld
  <2> DEFINE r == [run[k] EXCEPT !.verdict = v,
                     !.stage = IF v \in {"threat", "ssrf"} THEN "soc" ELSE "writeback"]
  <2>1. Running(k) /\ run' = [run EXCEPT ![k] = r]
    BY <1>7 DEF ProbeReturns, At
  <2>2. r.host = run[k].host /\ r.by = run[k].by /\ r.epoch = run[k].epoch
    BY <1>1, <2>1 DEF Run
  <2>3. QED
    BY <1>3, <2>1, <2>2
<1>8. CASE RaiseAlert(k) \/ WriteBack(k) \/ Suspend(k) \/ WriteAudit(k)
  BY <1>2, <1>4, <1>5, <1>8 DEF RaiseAlert, WriteBack, Committed, Suspend, WriteAudit, At
<1>9. CASE Timeout(k) \/ ExecutionError(k)
  BY <1>2, <1>9 DEF Timeout, ExecutionError
<1>10. QED
  BY <1>6, <1>7, <1>8, <1>9 DEF WorkerStep

(* An engine claims as the leader of the epoch it believes in.             *)
LEMMA EngineClaims ==
  ASSUME SInd, NEW p \in Pod, ClaimTargets(p, myEpoch[p]), Election!EndCycle(p)
  PROVE  RunsGranted' /\ OneDispatcherPerEpoch'
<1> DEFINE e == myEpoch[p]
<1>1. /\ isLeader[p] /\ e \in 1 .. epoch
      /\ \A q \in Pod : isLeader[q] /\ myEpoch[q] = e => q = p
  BY DEF SInd, Election!EndCycle, Elected!EInd, Elected!BeliefsGranted,
         Elected!BeliefsDistinct, Elected!RowNamesTheLeader
<1>2. UNCHANGED <<epoch, isLeader, myEpoch>>
  BY DEF Election!EndCycle, Election!dbVars
<1>3. \A k \in Token : run'[k] # None =>
        \/ /\ Running(k) /\ run'[k].host = run[k].host /\ run'[k].by = run[k].by
           /\ run'[k].epoch = run[k].epoch
        \/ run'[k].host = p /\ run'[k].epoch = e
  <2>1. PICK S \in Batches : \E f \in Injections(S) : Submit(S, f, p, "engine", e)
    BY DEF ClaimTargets
  <2>2. PICK f \in Injections(S) : Submit(S, f, p, "engine", e)
    BY <2>1
  <2>3. S \in SUBSET Target /\ TTypeOK
    BY DEF Batches, Claimable, SInd, TInd
  <2> HIDE DEF e
  <2>4. QED
    BY <2>2, <2>3, ClaimedRuns
<1>4. \A k \in Token : Running(k) /\ run[k].by = "engine" =>
        /\ run[k].epoch \in 1 .. epoch
        /\ run[k].epoch = e => run[k].host = p
        /\ \A q \in Pod : isLeader[q] /\ myEpoch[q] = run[k].epoch => q = run[k].host
  BY <1>1 DEF SInd, RunsGranted
<1> HIDE DEF e
<1>5. RunsGranted'
  <2> SUFFICES ASSUME NEW k \in Token, run'[k] # None, run'[k].by = "engine"
               PROVE  /\ run'[k].epoch \in 1 .. epoch
                      /\ \A q \in Pod : isLeader[q] /\ myEpoch[q] = run'[k].epoch
                                          => q = run'[k].host
    BY <1>2 DEF RunsGranted, Running
  <2>1. QED
    BY <1>1, <1>3, <1>4
<1>6. OneDispatcherPerEpoch'
  <2> SUFFICES ASSUME NEW k \in Token, NEW l \in Token, run'[k] # None, run'[l] # None,
                      run'[k].by = "engine", run'[l].by = "engine",
                      run'[k].epoch = run'[l].epoch
               PROVE  run'[k].host = run'[l].host
    BY DEF OneDispatcherPerEpoch, Running
  <2>1. QED
    BY <1>3, <1>4 DEF SInd, OneDispatcherPerEpoch
<1>7. QED
  BY <1>5, <1>6

(* Claims of check-now are not an engine's.                                *)
LEMMA CheckNowKeeps ==
  ASSUME SInd, NEW p, NEW e, NEW t \in Target, CheckNow(p, t, e),
         UNCHANGED <<epoch, isLeader, myEpoch>>
  PROVE  RunsGranted' /\ OneDispatcherPerEpoch'
<1>1. PICK k \in Fresh : Submit({t}, [u \in {t} |-> k], p, "api", e)
  BY DEF CheckNow
<1> DEFINE f == [u \in {t} |-> k]
<1>2. f \in Injections({t}) /\ {t} \in SUBSET Target /\ TTypeOK
  BY DEF Injections, SInd, TInd
<1> HIDE DEF f
<1>3. Submit({t}, f, p, "api", e)
  BY <1>1 DEF f
<1>4. \A j \in Token : run'[j] # None /\ run'[j].by = "engine" =>
        /\ Running(j) /\ run'[j].host = run[j].host /\ run'[j].by = run[j].by
        /\ run'[j].epoch = run[j].epoch
  BY <1>2, <1>3, ClaimedRuns
<1>5. RunsGranted' /\ OneDispatcherPerEpoch'
  BY <1>4 DEF SInd, RunsGranted, OneDispatcherPerEpoch, Running
<1>6. QED
  BY <1>5

-----------------------------------------------------------------------------
(* The composed system.                                                    *)

(* A check-now under way keeps its type.                                   *)
LEMMA AskKeeps ==
  ASSUME STypeOK, [SNext]_svars
  PROVE  asked' \in [pod : Pod, epoch : Nat] \union {None} /\ asks' \in 0 .. MaxAsks
<1> USE DEF STypeOK
<1>1. ASSUME NEW p \in Pod, HangUp(p), UNCHANGED asks
      PROVE  asked' \in [pod : Pod, epoch : Nat] \union {None} /\ asks' \in 0 .. MaxAsks
  BY <1>1 DEF HangUp
<1>2. ASSUME UNCHANGED <<asked, asks>>
      PROVE  asked' \in [pod : Pod, epoch : Nat] \union {None} /\ asks' \in 0 .. MaxAsks
  BY <1>2
<1>3. ASSUME NEW p \in Pod, ReadEpoch(p)
      PROVE  asked' \in [pod : Pod, epoch : Nat] \union {None} /\ asks' \in 0 .. MaxAsks
  BY <1>3, MonitoringSystemAssumption DEF ReadEpoch, Election!ETypeOK
<1>4. ASSUME NEW t \in Target, CheckNowClaims(t)
      PROVE  asked' \in [pod : Pod, epoch : Nat] \union {None} /\ asks' \in 0 .. MaxAsks
  BY <1>4 DEF CheckNowClaims
<1>5. QED
  BY <1>1, <1>2, <1>3, <1>4
  DEF SNext, ElectionStep, ClaimBatch, StopEngine, ProcessGone, Workers, Tick, svars

(* An engine's pool is cancelled, or its process ends.                     *)
LEMMA PoolEnds ==
  ASSUME TInd, NEW K \in SUBSET Token,
         run' = [k \in Token |-> IF k \in K THEN None ELSE run[k]],
         UNCHANGED rowVars, UNCHANGED losses
  PROVE  TInd' /\ RunsAreOld
<1>1. losses' \in 0 .. MaxLosses
  BY DEF TInd, TTypeOK
<1>2. TInd'
  BY <1>1, RunsEndInd
<1>3. QED
  BY <1>2 DEF RunsAreOld, Running

(* Every step of the composed system preserves the invariant.              *)
LEMMA SIndStep == SInd /\ [SNext]_svars => SInd'
<1> SUFFICES ASSUME SInd, [SNext]_svars PROVE SInd'
  OBVIOUS
<1>1. Elected!EInd' /\ BeliefsAreOld
  BY SystemElection, ElectionKeeps DEF SInd
<1>2. epoch' \in Nat /\ Election!ETypeOK'
  BY <1>1 DEF Elected!EInd, Elected!ETypeOK, Election!ETypeOK, Elected!Lease,
              Election!Lease, Elected!PC, Election!PC
<1>3. TInd /\ TTypeOK
  BY DEF SInd, TInd
<1>4. ASSUME TInd', RunsGranted' /\ OneDispatcherPerEpoch' PROVE SInd'
  BY <1>1, <1>2, <1>4, AskKeeps DEF SInd, STypeOK, TInd
<1>5. ASSUME TInd', RunsAreOld PROVE SInd'
  BY <1>1, <1>2, <1>4, <1>5, OldRunsKeep
<1>6. ASSUME UNCHANGED tvars PROVE SInd'
  <2>1. TInd'
    BY <1>3, <1>6 DEF tvars, rowVars, TInd, TTypeOK, TokensAreUnique, TokensAreCurrent,
                      VerdictsFit, CountsAreCurrent, Running
  <2>2. RunsAreOld
    BY <1>6 DEF tvars, RunsAreOld, Running
  <2>3. QED
    BY <1>5, <2>1, <2>2
<1>7. ASSUME NEW p \in Pod, ElectionStep(p) PROVE SInd'
  BY <1>6, <1>7 DEF ElectionStep
<1>8. ASSUME NEW p \in Pod, ClaimBatch(p) PROVE SInd'
  <2>1. myEpoch[p] \in Nat
    BY DEF SInd, STypeOK, Election!ETypeOK
  <2>2. CASE ClaimTargets(p, myEpoch[p])
    <3>1. TInd'
      BY <1>3, <2>1, <2>2, ClaimInd
    <3>2. RunsGranted' /\ OneDispatcherPerEpoch'
      BY <1>8, <2>2, EngineClaims DEF ClaimBatch
    <3>3. QED
      BY <1>4, <3>1, <3>2
  <2>3. CASE ClaimLost(myEpoch[p])
    <3>1. TInd'
      BY <1>3, <2>1, <2>3, ClaimInd
    <3>2. RunsAreOld
      <4>1. CASE UNCHANGED <<rowVars, run>>
        BY <4>1 DEF RunsAreOld, Running
      <4>2. CASE \E S \in Batches : \E f \in Injections(S) : run' = MarkStale(S)
        <5>1. PICK S \in Batches : \E f \in Injections(S) : run' = MarkStale(S)
          BY <4>2
        <5>2. PICK f \in Injections(S) : run' = MarkStale(S)
          BY <5>1
        <5>3. S \in SUBSET Target
          BY DEF Batches, Claimable
        <5>4. QED
          BY <1>3, <5>2, <5>3, ClaimedRuns DEF RunsAreOld
      <4>3. QED
        BY <2>3, <4>1, <4>2 DEF ClaimLost
    <3>3. QED
      BY <1>5, <3>1, <3>2
  <2>4. QED
    BY <1>6, <1>8, <2>2, <2>3 DEF ClaimBatch
<1>9. ASSUME NEW p \in Pod, StopEngine(p) PROVE SInd'
  <2> DEFINE K == {k \in Token : Running(k) /\ run[k].host = p /\ run[k].by = "engine"}
  <2>1. run' = [k \in Token |-> IF k \in K THEN None ELSE run[k]]
    BY <1>9 DEF StopEngine
  <2>2. UNCHANGED rowVars /\ UNCHANGED losses
    BY <1>9 DEF StopEngine
  <2>3. K \in SUBSET Token
    OBVIOUS
  <2> HIDE DEF K
  <2>4. QED
    BY <1>3, <1>5, <2>1, <2>2, <2>3, PoolEnds
<1>10. ASSUME NEW p \in Pod, ProcessGone(p) PROVE SInd'
  <2> DEFINE K == {k \in Token : Running(k) /\ run[k].host = p}
  <2>1. run' = [k \in Token |-> IF k \in K THEN None ELSE run[k]]
    BY <1>10 DEF ProcessGone, HostGone
  <2>2. UNCHANGED rowVars /\ UNCHANGED losses
    BY <1>10 DEF ProcessGone
  <2>3. K \in SUBSET Token
    OBVIOUS
  <2> HIDE DEF K
  <2>4. QED
    BY <1>3, <1>5, <2>1, <2>2, <2>3, PoolEnds
<1>11. ASSUME NEW t \in Target, CheckNowClaims(t) PROVE SInd'
  <2>1. CASE CheckNow(asked.pod, t, asked.epoch)
    <3>1. asked.pod \in Pod /\ asked.epoch \in Nat
      BY <1>11 DEF CheckNowClaims, SInd, STypeOK
    <3>2. TInd'
      BY <1>3, <2>1, <3>1, ClaimInd
    <3>3. UNCHANGED <<epoch, isLeader, myEpoch>>
      BY <1>11 DEF CheckNowClaims, electionVars
    <3>4. QED
      BY <1>4, <2>1, <3>2, <3>3, CheckNowKeeps
  <2>2. QED
    BY <1>6, <1>11, <2>1 DEF CheckNowClaims
<1>12. CASE Workers
  <2>1. ASSUME NEW k \in Token, WorkerStep(k) \/ Timeout(k) \/ ExecutionError(k) PROVE SInd'
    BY <1>3, <1>5, <2>1, WorkerInd, WorkerRuns
  <2>2. ASSUME NEW t \in Target, BecomeDue(t) PROVE SInd'
    <3>1. RunsAreOld
      BY <2>2 DEF BecomeDue, RunsAreOld, Running
    <3>2. QED
      BY <1>3, <1>5, <2>2, <3>1, TimeInd
  <2>3. QED
    BY <1>12, <2>1, <2>2 DEF Workers
<1>13. CASE Tick
  <2>1. RunsAreOld
    BY <1>13 DEF Tick, TTick, RunsAreOld, Running
  <2>2. QED
    BY <1>3, <1>5, <1>13, <2>1, TimeInd DEF Tick
<1>14. QED
  BY <1>6, <1>7, <1>8, <1>9, <1>10, <1>11, <1>12, <1>13 DEF SNext, ReadEpoch, svars

(* The invariant holds throughout.                                         *)
THEOREM SystemInvariant == SSafe => []SInd
  BY SInitInd, SIndStep, PTL DEF SSafe

(* Rows, executions, election and check-nows keep their types.             *)
THEOREM SystemTypeCorrect == SSafe => []STypeOK
<1>1. SInd => STypeOK
  BY DEF SInd
<1>2. QED
  BY <1>1, SystemInvariant, PTL

(* Executions that engines started in one epoch belong to one pod, for any *)
(* number of pods, connections, targets and faults.                        *)
THEOREM DispatcherTheorem == SSafe => []OneDispatcherPerEpoch
<1>1. SInd => OneDispatcherPerEpoch
  BY DEF SInd
<1>2. QED
  BY <1>1, SystemInvariant, PTL

(* The election inside the system behaves as LeaderElection says: nothing  *)
(* that engines, workers, requests or crashes do together leads it where   *)
(* it could not go alone, so that all that is proved of it holds here.     *)
THEOREM SystemRefinesElection == SSafe => Elected!ESafe
<1>1. SInit => Elected!EInit
  BY DEF SInit, Election!EInit, Elected!EInit
<1>2. [SNext]_svars => [Elected!ENext]_(Elected!evars)
  BY SystemElection DEF ElectionHalf
<1>3. QED
  BY <1>1, <1>2, PTL DEF SSafe, Elected!ESafe

(* With every other component around it, the election still lets no two    *)
(* pods lead one epoch, however many pods, faults, claims and crashes.     *)
THEOREM SystemLeaderUniqueness == SSafe => []OneLeaderPerEpoch
<1>1. SInd => OneLeaderPerEpoch
  BY DEF SInd, Elected!EInd, Elected!ETypeOK, Elected!BeliefsGranted,
         Elected!BeliefsDistinct, OneLeaderPerEpoch, Election!OneLeaderPerEpoch,
         Election!Fenced!OneLeaderPerEpoch, Election!Belief
<1>2. QED
  BY <1>1, SystemInvariant, PTL

(* The row names the only pod that can act in its epoch.                   *)
THEOREM SystemRowAuthority == SSafe => []RowNamesTheLeader
<1>1. SInd => RowNamesTheLeader
  BY DEF SInd, Elected!EInd, Elected!RowNamesTheLeader, RowNamesTheLeader,
         Election!RowNamesTheLeader
<1>2. QED
  BY <1>1, SystemInvariant, PTL

(* With every other component around it, the election still implements the *)
(* abstract fenced leadership.                                             *)
THEOREM SystemRefinesFencedLeadership == SSafe => ImplementsFencedLeadership
<1>1. SInit => Election!Fenced!FInit
  BY DEF SInit, Election!EInit, Election!Belief, Election!Fenced!FInit
<1>2. SInd /\ [SNext]_svars
        => [Election!Fenced!FNext]_(Election!Fenced!fvars)
  <2> SUFFICES ASSUME SInd, [SNext]_svars
               PROVE  [Election!Fenced!FNext]_(Election!Fenced!fvars)
    OBVIOUS
  <2>1. [Elected!ENext]_(Elected!evars)
    BY SystemElection DEF ElectionHalf
  <2>2. [Elected!Fenced!FNext]_(Elected!Fenced!fvars)
    BY <2>1, Elected!StepRefines, LeaderElectionAssumption DEF SInd
  <2>3. QED
    BY <2>2 DEF Elected!Fenced!FNext, Elected!Fenced!fvars, Elected!Fenced!Grant,
           Elected!Fenced!StepDown, Elected!Belief, Election!Fenced!FNext,
           Election!Fenced!fvars, Election!Fenced!Grant, Election!Fenced!StepDown,
           Election!Belief
<1>3. QED
  BY <1>1, <1>2, SystemInvariant, PTL
  DEF SSafe, ImplementsFencedLeadership, Election!ImplementsFencedLeadership,
      Election!Fenced!FSpec

(* A step of the system is a step of the executions or none.               *)
LEMMA SystemExecutes ==
  ASSUME SInd, [SNext]_svars
  PROVE  ExecutionStep
<1>1. ASSUME UNCHANGED run PROVE ExecutionStep
  BY <1>1 DEF ExecutionStep
<1>2. ASSUME NEW p \in Pod, ClaimBatch(p) PROVE ExecutionStep
  <2>1. CASE ClaimTargets(p, myEpoch[p])
    BY <2>1 DEF ClaimTargets, ExecutionStep, Batches, Claimable
  <2>2. CASE ClaimLost(myEpoch[p])
    BY <1>1, <2>2 DEF ClaimLost, ExecutionStep, Batches, Claimable
  <2>3. QED
    BY <1>1, <1>2, <2>1, <2>2 DEF ClaimBatch, tvars
<1>3. ASSUME NEW p \in Pod, StopEngine(p) PROVE ExecutionStep
  <2> DEFINE K == {k \in Token : Running(k) /\ run[k].host = p /\ run[k].by = "engine"}
  <2>1. run' = [k \in Token |-> IF k \in K THEN None ELSE run[k]]
    BY <1>3 DEF StopEngine
  <2>2. QED
    BY <2>1 DEF ExecutionStep
<1>4. ASSUME NEW p \in Pod, ProcessGone(p) PROVE ExecutionStep
  BY <1>4, HostGoneExecutes DEF ProcessGone
<1>5. ASSUME NEW t \in Target, CheckNowClaims(t) PROVE ExecutionStep
  BY <1>1, <1>5, CheckNowExecutes DEF CheckNowClaims, tvars
<1>6. CASE Workers
  BY <1>1, <1>6 DEF Workers, ExecutionStep, BecomeDue
<1>7. CASE Tick
  BY <1>1, <1>7 DEF Tick, TTick
<1>8. ASSUME NEW p \in Pod, ElectionStep(p) \/ ReadEpoch(p) PROVE ExecutionStep
  BY <1>1, <1>8 DEF ElectionStep, ReadEpoch, tvars
<1>9. CASE UNCHANGED svars
  BY <1>1, <1>9 DEF svars, tvars
<1>10. QED
  BY <1>2, <1>3, <1>4, <1>5, <1>6, <1>7, <1>8, <1>9 DEF SNext

(* write_back_result in the deployed system: through changes of leader,    *)
(* leaders that do not know they were superseded, check-nows of any pod and*)
(* processes that end, an execution whose target has been claimed again    *)
(* commits nothing, and one that commits has seen the failure count that   *)
(* it replaces.  WriteBackEpochCurrent does not hold; this is what takes   *)
(* its place.                                                              *)
THEOREM SystemFencingTheorem ==
  SSafe => [][\A k \in Token : Commits(k) =>
                ~run[k].stale
                /\ (run[k].reset \/ run[k].seen = failures[run[k].target])]_svars
<1> DEFINE Act == \A k \in Token : Commits(k) =>
                    ~run[k].stale
                    /\ (run[k].reset \/ run[k].seen = failures[run[k].target])
<1>1. SInd /\ [SNext]_svars => [Act]_svars
  BY SystemExecutes, CommitsAreFresh, CommitsAreCounted DEF SInd
<1>2. QED
  BY <1>1, SystemInvariant, PTL DEF SSafe

=============================================================================
