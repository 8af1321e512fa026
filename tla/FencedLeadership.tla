-------------------------- MODULE FencedLeadership --------------------------
(***************************************************************************)
(* What the scheduler's leader election promises to the rest of the        *)
(* platform, with no locks, leases or clocks: leadership is granted in     *)
(* epochs, an epoch is granted once, to one pod, and a pod only ever       *)
(* claims to lead an epoch that was granted to it.  A pod may go on        *)
(* believing in an epoch that has been superseded; what makes that         *)
(* harmless is that no two pods believe in the same one.                   *)
(***************************************************************************)
EXTENDS Integers

CONSTANT Pod      \* the backend processes that run a MonitoringEngine

VARIABLES
  granted,        \* number of epochs granted so far
  belief          \* the epoch each pod believes it leads, 0 for a follower

fvars == <<granted, belief>>

FTypeOK == /\ granted \in Nat
           /\ belief \in [Pod -> Nat]

FInit == /\ granted = 0
         /\ belief = [p \in Pod |-> 0]

(* The next epoch goes to p, which may fail to hear that it was granted.   *)
Grant(p) == /\ granted' = granted + 1
            /\ \E heard \in {0, granted + 1} : belief' = [belief EXCEPT ![p] = heard]

StepDown(p) == /\ belief' = [belief EXCEPT ![p] = 0]
               /\ UNCHANGED granted

FNext == \E p \in Pod : Grant(p) \/ StepDown(p)

FSpec == FInit /\ [][FNext]_fvars

-----------------------------------------------------------------------------

(* No two pods believe they lead the same epoch, so the epoch identifies   *)
(* one leader for ever (SchedulerState.current_epoch as a fencing token).  *)
OneLeaderPerEpoch ==
  \A p, q \in Pod : belief[p] # 0 /\ belief[p] = belief[q] => p = q

(* No pod believes in an epoch the database has not granted.               *)
BeliefGranted == \A p \in Pod : belief[p] <= granted

=============================================================================
