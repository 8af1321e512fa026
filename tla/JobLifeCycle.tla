---------------------------- MODULE JobLifeCycle ----------------------------
(***************************************************************************)
(* What the outbox promises of a webhook job, with no pods, leases or      *)
(* clocks: the job is taken, the receiver accepts it or it is tried again, *)
(* and it ends delivered or failed, once.  It is delivered only after the  *)
(* receiver has accepted it, and what the receiver has accepted is neither *)
(* retried nor failed unless its dispatcher dies.  A job that goes astray  *)
(* (its lease runs out in a dispatcher's hands, or its write-back fails) is*)
(* promised nothing any more.                                              *)
(***************************************************************************)
EXTENDS Integers

CONSTANTS
  Job,
  MaxAttempts     \* MAX_ATTEMPTS

VARIABLES
  state,          \* the status of the job, and whether the receiver took it
  tries           \* attempts that are counted and failed

lvars == <<state, tries>>

LInit ==
  /\ state = [j \in Job |-> "none"]
  /\ tries = [j \in Job |-> 0]

Moves(j, s) == state' = [state EXCEPT ![j] = s]

Enter(j) == state[j] = "none" /\ Moves(j, "PENDING") /\ UNCHANGED tries

Take(S) ==
  /\ \A j \in S : state[j] = "PENDING"
  /\ state' = [j \in Job |-> IF j \in S THEN "PROCESSING" ELSE state[j]]
  /\ UNCHANGED tries

(* The receiver answers 2xx.                                               *)
Accept(j) == state[j] = "PROCESSING" /\ Moves(j, "ACCEPTED") /\ UNCHANGED tries

(* The dispatcher that heard so dies before it has written it down.        *)
Forget(j) == state[j] = "ACCEPTED" /\ Moves(j, "PROCESSING") /\ UNCHANGED tries

Deliver(j) == state[j] = "ACCEPTED" /\ Moves(j, "DELIVERED") /\ UNCHANGED tries

CountTry(j) == tries' = [tries EXCEPT ![j] = @ + 1]

Retry(j) ==
  /\ state[j] = "PROCESSING" /\ tries[j] + 1 < MaxAttempts
  /\ Moves(j, "PENDING")
  /\ CountTry(j)

(* The last attempt has failed, or one that no other can mend.             *)
Fail(j) ==
  /\ state[j] = "PROCESSING" /\ Moves(j, "FAILED")
  /\ \/ tries[j] + 1 = MaxAttempts /\ CountTry(j)
     \/ UNCHANGED tries

GoAstray(j) ==
  /\ state[j] \in {"PROCESSING", "ACCEPTED"}
  /\ Moves(j, "astray")
  /\ tries' = [tries EXCEPT ![j] = 0]

LNext ==
  \/ \E S \in SUBSET Job : Take(S)
  \/ \E j \in Job : \/ Enter(j) \/ Accept(j) \/ Forget(j) \/ Deliver(j)
                    \/ Retry(j) \/ Fail(j) \/ GoAstray(j)

LSpec == LInit /\ [][LNext]_lvars

=============================================================================
