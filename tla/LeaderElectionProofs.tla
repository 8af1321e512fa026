------------------------ MODULE LeaderElectionProofs ------------------------
(***************************************************************************)
(* What TLAPS proves of LeaderElection, for every set of pods, every pool  *)
(* of connections, every lease and any number of faults: types, one leader *)
(* per epoch, and that the election implements FencedLeadership.           *)
(*                                                                         *)
(* The argument never uses the advisory lock or the lease: the fencing is  *)
(* done by the conditional UPDATE alone, which advances the epoch past     *)
(* every epoch a pod may still believe in.                                 *)
(***************************************************************************)
EXTENDS LeaderElection, TLAPS

(* The inductive invariant: a belief is an epoch already granted, beliefs  *)
(* are distinct, the row names whoever believes in its epoch, and an       *)
(* engine that is electing, stopped or gone is a follower.                 *)
BeliefsGranted ==
  \A p \in Pod : /\ isLeader[p] => myEpoch[p] \in 1 .. epoch
                 /\ ~isLeader[p] => myEpoch[p] = 0

(* One believer for each epoch.                                            *)
BeliefsDistinct ==
  \A p, q \in Pod : isLeader[p] /\ isLeader[q] /\ myEpoch[p] = myEpoch[q] => p = q

(* A pod that is electing, or does not run, believes in nothing.           *)
FollowersElect ==
  \A p \in Pod : pc[p] \in {"locked", "stopped", "down"} => ~isLeader[p]

(* The inductive invariant.                                                *)
EInd == /\ ETypeOK
        /\ BeliefsGranted
        /\ BeliefsDistinct
        /\ RowNamesTheLeader
        /\ FollowersElect

-----------------------------------------------------------------------------

(* The election starts with every pod a follower of epoch 0.               *)
LEMMA EInitInd == EInit => EInd
  BY LeaderElectionAssumption
  DEF EInit, EInd, ETypeOK, Lease, PC, BeliefsGranted, BeliefsDistinct,
      RowNamesTheLeader, FollowersElect

(* Granting the next epoch to p, heard or not, keeps beliefs apart.        *)
LEMMA EIndStep == EInd /\ [ENext]_evars => EInd'
<1> SUFFICES ASSUME EInd, [ENext]_evars PROVE EInd'
  OBVIOUS
<1> USE LeaderElectionAssumption DEF EInd, ETypeOK, Lease, PC, BeliefsGranted,
        BeliefsDistinct, RowNamesTheLeader, FollowersElect, dbVars, engineVars
<1>1. ASSUME NEW p \in Pod, AcquireEpoch(p) PROVE EInd'
  BY <1>1 DEF AcquireEpoch, GrantEpoch
<1>2. ASSUME NEW p \in Pod, YieldToLease(p) PROVE EInd'
  BY <1>2 DEF YieldToLease
<1>3. ASSUME NEW p \in Pod, RenewLease(p) PROVE EInd'
  BY <1>3 DEF RenewLease
<1>4. ASSUME NEW p \in Pod, RenewalRefused(p) PROVE EInd'
  BY <1>4 DEF RenewalRefused
<1>5. ASSUME NEW p \in Pod, EndCycle(p) PROVE EInd'
  BY <1>5 DEF EndCycle
<1>6. ASSUME NEW p \in Pod, Exit(p) \/ Crash(p) PROVE EInd'
  <2>1. Gone(p) /\ faults' \in 0 .. MaxFaults
    BY <1>6 DEF Exit, Crash, SpendFault
  <2>2. [c \in Conn |-> 0] \in [Conn -> Nat]
    OBVIOUS
  <2>3. hold' \in [Pod -> [Conn -> Nat]]
    BY <2>1, <2>2 DEF Gone
  <2>4. QED
    BY <2>1, <2>3 DEF Gone, Follow
<1>7. ASSUME NEW p \in Pod, Restart(p) PROVE EInd'
  BY <1>7 DEF Restart
<1>8. ASSUME NEW p \in Pod, EpochUpdateError(p) PROVE EInd'
  BY <1>8 DEF EpochUpdateError, GrantEpoch, SpendFault
<1>9. ASSUME NEW p \in Pod, RenewalError(p) PROVE EInd'
  BY <1>9 DEF RenewalError, SpendFault
<1>10. ASSUME NEW p \in Pod, NEW c \in Conn, TryAdvisoryLock(p, c) PROVE EInd'
  BY <1>10 DEF TryAdvisoryLock
<1>11. ASSUME NEW p \in Pod, NEW c \in Conn, ReleaseAndFollow(p, c) PROVE EInd'
  BY <1>11 DEF ReleaseAndFollow, Unlocked, Follow
<1>12. ASSUME NEW p \in Pod, NEW c \in Conn, StopEngine(p, c) PROVE EInd'
  <2>1. hold' \in [Pod -> [Conn -> Nat]]
    BY <1>12 DEF StopEngine, Unlocked
  <2>2. /\ isLeader' = [isLeader EXCEPT ![p] = FALSE]
        /\ myEpoch' = [myEpoch EXCEPT ![p] = 0]
        /\ pc' = [pc EXCEPT ![p] = "stopped"]
        /\ faults' \in 0 .. MaxFaults
        /\ UNCHANGED <<epoch, leader, left, via>>
    BY <1>12 DEF StopEngine, Follow, SpendFault
  <2>3. QED
    BY <2>1, <2>2
<1>13. ASSUME NEW p \in Pod, NEW c \in Conn, LoseConnection(p, c) PROVE EInd'
  <2>1. hold' \in [Pod -> [Conn -> Nat]]
    BY <1>13 DEF LoseConnection
  <2>2. /\ faults' \in 0 .. MaxFaults
        /\ UNCHANGED <<epoch, leader, left, isLeader, myEpoch>>
    BY <1>13 DEF LoseConnection, SpendFault
  <2>3. CASE via[p] = c
    <3>1. /\ pc' = [pc EXCEPT ![p] = "unlock"]
          /\ via' = [via EXCEPT ![p] = None]
      BY <1>13, <2>3 DEF LoseConnection
    <3>2. QED
      BY <2>1, <2>2, <3>1
  <2>4. CASE via[p] # c
    <3>1. UNCHANGED <<pc, via>>
      BY <1>13, <2>4 DEF LoseConnection
    <3>2. QED
      BY <2>1, <2>2, <3>1
  <2>5. QED
    BY <2>3, <2>4
<1>14. CASE Tick
  BY <1>14 DEF Tick, Elapse
<1>15. CASE UNCHANGED evars
  BY <1>15 DEF evars
<1>16. QED
  BY <1>1, <1>2, <1>3, <1>4, <1>5, <1>6, <1>7, <1>8, <1>9, <1>10, <1>11, <1>12,
     <1>13, <1>14, <1>15 DEF ENext, EngineStep, FaultStep, ConnStep

(* The inductive invariant holds throughout.                               *)
THEOREM ElectionInvariant == ESafe => []EInd
  BY EInitInd, EIndStep, PTL DEF ESafe

(* The row, the lock counts and the engines' flags keep their types.       *)
THEOREM ElectionTypeCorrect == ESafe => []ETypeOK
<1>1. EInd => ETypeOK
  BY DEF EInd
<1>2. QED
  BY <1>1, ElectionInvariant, PTL

(* attempt_election / renew_lease: one leader per epoch, for any number of *)
(* pods and faults.                                                        *)
THEOREM LeaderUniqueness == ESafe => []OneLeaderPerEpoch
<1>1. EInd => OneLeaderPerEpoch
  BY DEF EInd, BeliefsGranted, BeliefsDistinct, OneLeaderPerEpoch, Belief,
         Fenced!OneLeaderPerEpoch
<1>2. QED
  BY <1>1, ElectionInvariant, PTL

(* The pod scheduler_state names is the only one acting in its epoch.      *)
THEOREM RowAuthority == ESafe => []RowNamesTheLeader
<1>1. EInd => RowNamesTheLeader
  BY DEF EInd
<1>2. QED
  BY <1>1, ElectionInvariant, PTL

-----------------------------------------------------------------------------

(* Every step of the engines is a Grant, a StepDown or a stutter of the    *)
(* abstract election.                                                      *)
LEMMA StepRefines == EInd /\ [ENext]_evars => [Fenced!FNext]_(Fenced!fvars)
<1> SUFFICES ASSUME EInd, [ENext]_evars PROVE [Fenced!FNext]_(Fenced!fvars)
  OBVIOUS
<1> DEFINE Same == epoch' = epoch /\ Belief' = Belief
           Step == Same \/ \E p \in Pod : Fenced!Grant(p) \/ Fenced!StepDown(p)
<1> USE DEF EInd, ETypeOK, BeliefsGranted, FollowersElect, dbVars, engineVars
<1>1. ASSUME NEW p \in Pod, AcquireEpoch(p) PROVE Fenced!Grant(p)
  <2>1. epoch' = epoch + 1
    BY <1>1 DEF AcquireEpoch, GrantEpoch
  <2>2. Belief' = [Belief EXCEPT ![p] = epoch + 1]
    BY <1>1 DEF AcquireEpoch, Belief
  <2>3. QED
    BY <2>1, <2>2 DEF Fenced!Grant
<1>2. ASSUME NEW p \in Pod, Follow(p), epoch' = epoch PROVE Fenced!StepDown(p)
  <2>1. Belief' = [Belief EXCEPT ![p] = 0]
    BY <1>2 DEF Follow, Belief
  <2>2. QED
    BY <1>2, <2>1 DEF Fenced!StepDown
<1>3. ASSUME NEW p \in Pod, EpochUpdateError(p) PROVE Fenced!Grant(p) \/ Same
  <2>1. Belief' = Belief /\ Belief[p] = 0
    BY <1>3 DEF EpochUpdateError, Belief
  <2>2. Belief' = [Belief EXCEPT ![p] = 0]
    BY <2>1 DEF Belief
  <2>3. epoch' = epoch \/ epoch' = epoch + 1
    BY <1>3 DEF EpochUpdateError, GrantEpoch
  <2>4. QED
    BY <2>1, <2>2, <2>3 DEF Fenced!Grant
<1>4. ASSUME UNCHANGED <<epoch, isLeader, myEpoch>> PROVE Same
  BY <1>4 DEF Belief
<1>5. ASSUME NEW p \in Pod, EngineStep(p) PROVE Step
  BY <1>1, <1>2, <1>4, <1>5
  DEF EngineStep, YieldToLease, RenewLease, RenewalRefused, EndCycle, Exit, Gone, Restart
<1>6. ASSUME NEW p \in Pod, FaultStep(p) PROVE Step
  BY <1>2, <1>3, <1>4, <1>6
  DEF FaultStep, RenewalError, Crash, Gone, StopEngine, LoseConnection
<1>7. ASSUME NEW p \in Pod, NEW c \in Conn, ConnStep(p, c) PROVE Step
  BY <1>2, <1>4, <1>7 DEF ConnStep, TryAdvisoryLock, ReleaseAndFollow
<1>8. ASSUME Tick \/ UNCHANGED evars PROVE Step
  BY <1>4, <1>8 DEF Tick, evars
<1>9. Step
  BY <1>5, <1>6, <1>7, <1>8 DEF ENext
<1>10. QED
  BY <1>9 DEF Fenced!FNext, Fenced!fvars

(* The distributed election implements the abstract one.                   *)
THEOREM ElectionRefinesFencedLeadership == ESafe => ImplementsFencedLeadership
<1>1. EInit => Fenced!FInit
  BY DEF EInit, Belief, Fenced!FInit
<1>2. QED
  BY <1>1, StepRefines, ElectionInvariant, PTL
  DEF ESafe, ImplementsFencedLeadership, Fenced!FSpec

=============================================================================
