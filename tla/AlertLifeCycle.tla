--------------------------- MODULE AlertLifeCycle ---------------------------
(***************************************************************************)
(* What a reader of the alerts of one rule and indicator may rely on: an   *)
(* alert is created open, counts one event more at a time while it is      *)
(* active, never loses severity, and changes status along the transitions  *)
(* of ALERT_STATUS_TRANSITIONS only.                                       *)
(***************************************************************************)
EXTENDS Integers

CONSTANTS Alert, Severity

VARIABLES
  status,         \* "none" before the alert exists
  severity,       \* its rank in SEVERITY_RANKS
  count           \* occurrence_count

lifeVars == <<status, severity, count>>

Active == {"OPEN", "ACKNOWLEDGED"}
Status == Active \union {"RESOLVED", "DISMISSED"}

(* ALERT_STATUS_TRANSITIONS                                                *)
Allowed ==
  [s \in Status |->
     CASE s = "OPEN"         -> {"ACKNOWLEDGED", "RESOLVED", "DISMISSED"}
       [] s = "ACKNOWLEDGED" -> {"RESOLVED", "DISMISSED", "OPEN"}
       [] OTHER              -> {"OPEN"}]

LInit ==
  /\ status = [a \in Alert |-> "none"]
  /\ severity = [a \in Alert |-> 0]
  /\ count = [a \in Alert |-> 0]

Create(a) ==
  /\ status[a] = "none"
  /\ \E s \in Severity : severity' = [severity EXCEPT ![a] = s]
  /\ status' = [status EXCEPT ![a] = "OPEN"]
  /\ count' = [count EXCEPT ![a] = 1]

Recur(a) ==
  /\ status[a] \in Active
  /\ \E s \in Severity : s >= severity[a] /\ severity' = [severity EXCEPT ![a] = s]
  /\ count' = [count EXCEPT ![a] = @ + 1]
  /\ UNCHANGED status

Triage(a) ==
  /\ status[a] \in Status
  /\ \E s \in Allowed[status[a]] : status' = [status EXCEPT ![a] = s]
  /\ UNCHANGED <<severity, count>>

LNext == \E a \in Alert : Create(a) \/ Recur(a) \/ Triage(a)

LSpec == LInit /\ [][LNext]_lifeVars

=============================================================================
