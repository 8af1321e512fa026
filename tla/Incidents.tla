----------------------------- MODULE Incidents -----------------------------
(***************************************************************************)
(* The incidents of one tenant (backend/services/incident_service.py) on   *)
(* PostgreSQL at READ COMMITTED: requests create and update incidents and  *)
(* attach and detach alerts (backend/api/routers/incidents.py), while the  *)
(* pipelines of monitoring workers and containment playbooks look for the  *)
(* incident of one threat and create it if there is none                   *)
(* (get_or_create_threat_incident).                                        *)
(*                                                                         *)
(* A transaction locks the rows of incidents and reads them under the lock;*)
(* it reads the rows of alerts without one, and everything it wrote becomes*)
(* visible when it commits.  Waiting for a lock and the reads that follow  *)
(* it are one step.  Commit and audit entry are one step.                  *)
(***************************************************************************)
EXTENDS IncidentLifeCycle, Integers, FiniteSets

CONSTANTS
  Alert, Severity, Client, Worker, None,
  Admin,          \* the clients with role "admin"
  MaxRequests     \* bound: requests and pipelines begun

ASSUME IncidentsAssumption ==
  /\ Severity \subseteq 1 .. 5     \* SEVERITY_RANKS, INFO to CRITICAL
  /\ MaxRequests \in Nat
  /\ Admin \subseteq Client /\ Client \intersect Worker = {}
  /\ None \notin Client \union Worker \union Incident

VARIABLES
  severity,       \* rank of incidents.severity, 0 before the row exists
  threat,         \* the incidents titled "Automated Threat Incident: <domain>"
  owner,          \* alerts.incident_id
  alertSeverity,
  rowLock,        \* the transaction that holds the incident's row
  advisory,       \* the worker that holds INCIDENT:<user>:<domain>
  request,        \* what a client's request is doing
  pipe,           \* what a worker's pipeline is doing
  pristine,       \* history: inserted by a pipeline, active and titled so ever since
  requests        \* counted against the bound

tables == <<lifeVars, severity, threat, owner, alertSeverity, pristine>>
ivars  == <<tables, rowLock, advisory, request, pipe, requests>>

Row == [status : Status, closed : BOOLEAN, severity : Severity]

Request == [kind : {"update", "attach", "detach"}, incident : Incident,
            row : Row \union {None}, alerts : SUBSET Alert, level : Severity \union {0}]

Pipe == [alert : Alert, severity : Severity, stage : {"locking", "found", "absent"},
         todo : SUBSET Incident, mine : SUBSET Incident, found : Incident \union {None},
         move : BOOLEAN]

ASSUME NoneIsNoRecord == None \notin Row \union Request \union Pipe

Existing == {i \in Incident : status[i] # "none"}
Locked(c) == request[c] # None /\ request[c].row # None

IncTypeOK ==
  /\ status \in [Incident -> Status \union {"none"}] /\ closed \subseteq Existing
  /\ severity \in [Incident -> Severity \union {0}]
  /\ threat \subseteq Existing /\ pristine \subseteq threat
  /\ owner \in [Alert -> Existing \union {None}]
  /\ alertSeverity \in [Alert -> Severity]
  /\ rowLock \in [Incident -> Client \union Worker \union {None}]
  /\ advisory \in Worker \union {None}
  /\ request \in [Client -> Request \union {None}]
  /\ pipe \in [Worker -> Pipe \union {None}]
  /\ \A i \in Incident, c \in Client :
       rowLock[i] = c <=> Locked(c) /\ request[c].incident = i
  /\ \A i \in Incident, w \in Worker :
       rowLock[i] = w => pipe[w] # None
  /\ requests \in 0 .. MaxRequests

IncInit ==
  /\ CInit
  /\ severity = [i \in Incident |-> 0] /\ threat = {} /\ pristine = {}
  /\ owner = [a \in Alert |-> None]
  /\ alertSeverity \in [Alert -> Severity]
  /\ rowLock = [i \in Incident |-> None] /\ advisory = None
  /\ request = [c \in Client |-> None] /\ pipe = [w \in Worker |-> None]
  /\ requests = 0

-----------------------------------------------------------------------------
(* Transactions.                                                           *)

(* Mutant: incidents are read without FOR UPDATE.                          *)
NeverWaits(t, i) == TRUE

Lockable(t, i) == rowLock[i] = None

(* Mutant: the locks outlive the transaction.                              *)
KeepRows(t) == rowLock

WithoutLocks(t) == [i \in Incident |-> IF rowLock[i] = t THEN None ELSE rowLock[i]]

Highest(S) == CHOOSE s \in S : \A r \in S : r <= s

Assign(A, i) == [a \in Alert |-> IF a \in A THEN i ELSE owner[a]]

Fresh == CHOOSE i \in Incident : status[i] = "none"

(* INSERT and COMMIT.                                                      *)
Insert(i, s, isThreat) ==
  /\ Existing # Incident /\ i = Fresh
  /\ status' = [status EXCEPT ![i] = "OPEN"]
  /\ severity' = [severity EXCEPT ![i] = s]
  /\ threat' = IF isThreat THEN threat \union {i} ELSE threat
  /\ UNCHANGED closed

Within == requests < MaxRequests /\ requests' = requests + 1

-----------------------------------------------------------------------------
(* Requests.                                                               *)

Asked(kind, i) == [kind |-> kind, incident |-> i, row |-> None, alerts |-> {}, level |-> 0]

(* POST /incidents: the row is committed before attach_alerts begins, and  *)
(* stays if that fails.                                                    *)
CreateIncident(c) ==
  /\ request[c] = None /\ Within
  /\ \E i \in Incident, s \in Severity, t \in BOOLEAN, next \in {"attach", "none"} :
       /\ Insert(i, s, t)
       /\ request' = IF next = "none" THEN request
                     ELSE [request EXCEPT ![c] = Asked("attach", i)]
  /\ UNCHANGED <<owner, alertSeverity, pristine, rowLock, advisory, pipe>>

Ask(c, kind, i) ==
  /\ request[c] = None /\ Within
  /\ i \in Existing
  /\ request' = [request EXCEPT ![c] = Asked(kind, i)]
  /\ UNCHANGED <<tables, rowLock, advisory, pipe>>

(* get_incident under FOR UPDATE.                                          *)
LockIncident(c, A, level) ==
  LET r == request[c]
      i == r.incident
  IN /\ Lockable(c, i)
     /\ rowLock' = [rowLock EXCEPT ![i] = c]
     /\ request' = [request EXCEPT ![c] =
          [r EXCEPT !.row = [status |-> status[i], closed |-> i \in closed,
                             severity |-> severity[i]],
                    !.alerts = A, !.level = level]]
     /\ UNCHANGED <<tables, advisory, pipe, requests>>

Waits(c, kind) == request[c] # None /\ request[c].kind = kind /\ ~Locked(c)

LockForUpdate(c) == Waits(c, "update") /\ LockIncident(c, {}, 0)

Attachable(i) == {a \in Alert : owner[a] \in {None, i}}

(* attach_alerts up to its flush: no alert of the request may belong to    *)
(* another incident; the severity is raised to that of its alerts.         *)
LockForAttach(c) ==
  /\ Waits(c, "attach")
  /\ LET i == request[c].incident IN
       \E A \in (SUBSET Attachable(i)) \ {{}} :
         LockIncident(c, {a \in A : owner[a] # i},
           Highest({severity[i]} \union
                   {alertSeverity[a] : a \in A \union {b \in Alert : owner[b] = i}}))

LockForDetach(c) ==
  /\ Waits(c, "detach")
  /\ \E a \in Alert : owner[a] = request[c].incident /\ LockIncident(c, {a}, 0)

Ends(c) ==
  /\ request' = [request EXCEPT ![c] = None]
  /\ rowLock' = WithoutLocks(c)
  /\ UNCHANGED <<advisory, pipe, requests, alertSeverity>>

(* update_incident: only the owner's administrators lower a severity, and  *)
(* only the columns that change are written.                               *)
Update(c) ==
  LET r == request[c]
      i == r.incident
  IN /\ Locked(c) /\ r.kind = "update"
     /\ \E to \in {r.row.status} \union Allowed[r.row.status], s \in Severity, t \in BOOLEAN :
          LET moves == to # r.row.status IN
          /\ s >= r.row.severity \/ c \in Admin
          /\ severity' = [severity EXCEPT ![i] = IF s # r.row.severity THEN s ELSE @]
          /\ status' = [status EXCEPT ![i] = IF moves THEN to ELSE @]
          /\ closed' = CASE moves /\ to \in Final /\ ~r.row.closed -> closed \union {i}
                         [] moves /\ to \notin Final /\ r.row.status \in Final -> closed \ {i}
                         [] OTHER -> closed
          /\ threat' = IF t THEN threat \union {i} ELSE threat \ {i}
          /\ pristine' = IF t /\ to \in Active THEN pristine ELSE pristine \ {i}
     /\ UNCHANGED owner
     /\ Ends(c)

Attach(c) ==
  LET r == request[c] IN
  /\ Locked(c) /\ r.kind = "attach"
  /\ owner' = Assign(r.alerts, r.incident)
  /\ severity' = [severity EXCEPT ![r.incident] = r.level]
  /\ UNCHANGED <<lifeVars, threat, pristine>>
  /\ Ends(c)

(* detach_alert never lowers the severity.                                 *)
Detach(c) ==
  LET r == request[c] IN
  /\ Locked(c) /\ r.kind = "detach"
  /\ owner' = Assign(r.alerts, None)
  /\ UNCHANGED <<lifeVars, severity, threat, pristine>>
  /\ Ends(c)

(* 400, 403, 404 or 409, once the row has been read.                       *)
Refuse(c) ==
  /\ request[c] # None
  /\ Locked(c) \/ Lockable(c, request[c].incident)
  /\ UNCHANGED <<lifeVars, severity, threat, owner, pristine>>
  /\ Ends(c)

(* A failed commit or a lost connection.                                   *)
Fail(c) ==
  /\ request[c] # None
  /\ UNCHANGED <<lifeVars, severity, threat, owner, pristine>>
  /\ Ends(c)

-----------------------------------------------------------------------------
(* get_or_create_threat_incident, after process_event has committed the    *)
(* alert with the severity of its event or a higher one.                   *)

Matches(i) == i \in threat /\ status[i] \in Active

(* Mutant: the row is used as the query found it.                          *)
AsFound(i) == TRUE

(* READ COMMITTED: the conditions are evaluated again on the locked row.   *)
StillMatches(i) == Matches(i)

(* Mutant: pipelines of the same tenant and domain are not serialised.     *)
NotSerialised == TRUE

Serialised == advisory = None

(* pg_advisory_xact_lock and the snapshot of the lookup.                   *)
Look(w, a, s) ==
  /\ pipe[w] = None /\ Within
  /\ Serialised
  /\ advisory' = w
  /\ alertSeverity' = [alertSeverity EXCEPT ![a] = Highest({@, s})]
  /\ pipe' = [pipe EXCEPT ![w] =
       [alert |-> a, severity |-> s, stage |-> "locking",
        todo |-> {i \in Incident : Matches(i)}, mine |-> {}, found |-> None, move |-> FALSE]]
  /\ UNCHANGED <<lifeVars, severity, threat, owner, pristine, rowLock, request>>

Looking(w) == pipe[w] # None /\ pipe[w].stage = "locking"

(* FOR UPDATE, row by row; a row that no longer matches stays locked.      *)
LockThreat(w, i) ==
  LET p == pipe[w] IN
  /\ Looking(w) /\ i \in p.todo
  /\ Lockable(w, i)
  /\ rowLock' = [rowLock EXCEPT ![i] = w]
  /\ pipe' = [pipe EXCEPT ![w] =
       [p EXCEPT !.todo = @ \ {i},
                 !.mine = IF StillMatches(i) THEN @ \union {i} ELSE @]]
  /\ UNCHANGED <<tables, advisory, request, requests>>

(* The first row, and whether its alert must be moved; any of the rows may *)
(* have the lowest id.                                                     *)
Choose(w) ==
  LET p == pipe[w] IN
  /\ Looking(w) /\ p.todo = {}
  /\ IF p.mine = {}
     THEN pipe' = [pipe EXCEPT ![w] = [p EXCEPT !.stage = "absent"]]
     ELSE \E i \in p.mine :
            pipe' = [pipe EXCEPT ![w] =
              [p EXCEPT !.stage = "found", !.found = i, !.move = owner[p.alert] # i]]
  /\ UNCHANGED <<tables, rowLock, advisory, request, requests>>

PipeEnds(w) ==
  /\ pipe' = [pipe EXCEPT ![w] = None]
  /\ rowLock' = WithoutLocks(w)
  /\ advisory' = IF advisory = w THEN None ELSE advisory
  /\ UNCHANGED <<alertSeverity, request, requests>>

(* The commit of the branch that found an incident.                        *)
JoinThreat(w) ==
  LET p == pipe[w] IN
  /\ p # None /\ p.stage = "found"
  /\ severity' = [severity EXCEPT ![p.found] = Highest({@, p.severity})]
  /\ owner' = IF p.move THEN Assign({p.alert}, p.found) ELSE owner
  /\ UNCHANGED <<lifeVars, threat, pristine>>
  /\ PipeEnds(w)

(* The commit of the branch that inserts one.                              *)
ReportThreat(w) ==
  LET p == pipe[w] IN
  /\ p # None /\ p.stage = "absent"
  /\ \E i \in Incident :
       /\ Insert(i, p.severity, TRUE)
       /\ owner' = Assign({p.alert}, i)
       /\ pristine' = pristine \union {i}
  /\ PipeEnds(w)

(* An error or a lost connection.                                          *)
PipeFails(w) ==
  /\ pipe[w] # None
  /\ UNCHANGED <<lifeVars, severity, threat, owner, pristine>>
  /\ PipeEnds(w)

-----------------------------------------------------------------------------
Answers(c) ==
  LockForUpdate(c) \/ LockForAttach(c) \/ LockForDetach(c)
    \/ Update(c) \/ Attach(c) \/ Detach(c)

Pipeline(w) ==
  (\E i \in Incident : LockThreat(w, i)) \/ Choose(w) \/ JoinThreat(w) \/ ReportThreat(w)

ClientStep(c) ==
  \/ CreateIncident(c)
  \/ \E kind \in {"update", "attach", "detach"}, i \in Incident : Ask(c, kind, i)
  \/ Answers(c)
  \/ Refuse(c)
  \/ Fail(c)

WorkerStep(w) ==
  \/ \E a \in Alert, s \in Severity : Look(w, a, s)
  \/ Pipeline(w)
  \/ PipeFails(w)

IncNext == (\E c \in Client : ClientStep(c)) \/ (\E w \in Worker : WorkerStep(w))

IncSafe == IncInit /\ [][IncNext]_ivars

(* A request and a pipeline keep running, and a lock that becomes free     *)
(* again and again is granted (lock queues are first come, first served).  *)
IncSpec ==
  /\ IncSafe
  /\ \A c \in Client : SF_ivars(Answers(c) \/ Refuse(c))
  /\ \A w \in Worker : SF_ivars(Pipeline(w))

-----------------------------------------------------------------------------
(* Safety: of the incidents that pipelines inserted for the threat, at most*)
(* one is active, unless requests have reopened or retitled one: pipelines *)
(* that find none do not insert two (incident_service.py:373-377).         *)
OnePerThreat ==
  \A i, j \in pristine : i = j

(* A pipeline adds its alert to an incident that is still the active one of*)
(* the threat when the alert becomes visible, and whose severity then      *)
(* covers the event, even if requests close, retitle or lower it while the *)
(* pipeline waits for its row.                                             *)
LandsOnActive ==
  [][\A w \in Worker :
       LET p == pipe[w] IN
       p # None /\ JoinThreat(w) =>
         /\ status'[p.found] \in Active /\ p.found \in threat'
         /\ severity'[p.found] >= p.severity]_ivars

(* Refinement: concurrent requests move an incident along the transitions  *)
(* of IncidentLifeCycle, its closing time with it.                         *)
FollowsLifeCycle == CSpec

(* Liveness: every request is answered and every pipeline ends; no two     *)
(* transactions wait for each other's rows.                                *)
RequestsEnd ==
  /\ \A c \in Client : request[c] # None ~> request[c] = None
  /\ \A w \in Worker : pipe[w] # None ~> pipe[w] = None

=============================================================================
