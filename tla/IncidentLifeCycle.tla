------------------------- MODULE IncidentLifeCycle -------------------------
(***************************************************************************)
(* What a reader of an incident may rely on: it is created open, changes   *)
(* status along INCIDENT_STATUS_TRANSITIONS only (backend/schemas/soc.py), *)
(* and carries a closing time exactly while it is resolved or closed.      *)
(***************************************************************************)
CONSTANT Incident

VARIABLES
  status,         \* "none" before the row is committed
  closed          \* the incidents whose closed_at is set

lifeVars == <<status, closed>>

Active == {"OPEN", "INVESTIGATING"}
Final  == {"RESOLVED", "CLOSED"}
Status == Active \union {"CONTAINED"} \union Final

(* INCIDENT_STATUS_TRANSITIONS                                             *)
Allowed ==
  [s \in Status |->
     CASE s = "OPEN"          -> {"INVESTIGATING", "CLOSED"}
       [] s = "INVESTIGATING" -> {"CONTAINED", "OPEN", "RESOLVED", "CLOSED"}
       [] s = "CONTAINED"     -> {"INVESTIGATING", "RESOLVED", "CLOSED"}
       [] s = "RESOLVED"      -> {"CLOSED", "OPEN"}
       [] OTHER               -> {"OPEN"}]

CInit == status = [i \in Incident |-> "none"] /\ closed = {}

Report(i) ==
  /\ status[i] = "none"
  /\ status' = [status EXCEPT ![i] = "OPEN"]
  /\ UNCHANGED closed

Move(i) ==
  /\ status[i] \in Status
  /\ \E s \in Allowed[status[i]] :
       /\ status' = [status EXCEPT ![i] = s]
       /\ closed' = IF s \in Final THEN closed \union {i} ELSE closed \ {i}

CNext == \E i \in Incident : Report(i) \/ Move(i)

CSpec == CInit /\ [][CNext]_lifeVars

=============================================================================
