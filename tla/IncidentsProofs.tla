-------------------------- MODULE IncidentsProofs --------------------------
(***************************************************************************)
(* What TLAPS proves of Incidents, for every number of clients, workers,   *)
(* alerts and incidents: types, that the pipelines of a threat leave one   *)
(* incident, that they land on an active one, and that incidents follow    *)
(* IncidentLifeCycle.                                                      *)
(***************************************************************************)
EXTENDS Incidents, TLAPS

(* The closing time goes with the status, and a row has a severity.        *)
RowsOK ==
  /\ \A i \in Incident : i \in closed <=> status[i] \in Final
  /\ \A i \in Existing : severity[i] \in Severity

(* A request is about a row that exists and, once it holds the lock, knows *)
(* the row.                                                                *)
RequestOK(c) ==
  request[c] # None =>
    /\ status[request[c].incident] \in Status
    /\ request[c].row # None =>
         /\ request[c].row.status = status[request[c].incident]
         /\ request[c].row.closed <=> request[c].incident \in closed
         /\ request[c].kind = "attach" => request[c].level \in Severity

(* A pipeline has the advisory lock; the rows it has found are locked and  *)
(* still match; before it inserts a row, none of the pipelines' is active. *)
PipeOK(w) ==
  pipe[w] # None =>
    /\ advisory = w
    /\ \A i \in pipe[w].mine : rowLock[i] = w /\ Matches(i)
    /\ pipe[w].stage = "locking" => pristine \subseteq pipe[w].todo \union pipe[w].mine
    /\ pipe[w].stage = "absent" => pristine = {}
    /\ pipe[w].stage = "found" => pipe[w].found \in pipe[w].mine

(* Pristine incidents match the threat, and there is one at most.          *)
PristineOK ==
  /\ \A i \in pristine : Matches(i)
  /\ OnePerThreat

(* The inductive invariant.                                                *)
IncInd ==
  /\ IncTypeOK
  /\ RowsOK
  /\ PristineOK
  /\ \A c \in Client : RequestOK(c)
  /\ \A w \in Worker : PipeOK(w)

-----------------------------------------------------------------------------
(* Of some ranks there is a highest.                                       *)
LEMMA HighestRank ==
  ASSUME NEW S, S \subseteq 0 .. 5, S # {}
  PROVE  Highest(S) \in S /\ \A r \in S : r <= Highest(S)
<1>1. \E s \in S : \A r \in S : r <= s
  <2>1. CASE 5 \in S
    BY <2>1
  <2>2. CASE 5 \notin S /\ 4 \in S
    BY <2>2
  <2>3. CASE 5 \notin S /\ 4 \notin S /\ 3 \in S
    BY <2>3
  <2>4. CASE 5 \notin S /\ 4 \notin S /\ 3 \notin S /\ 2 \in S
    BY <2>4
  <2>5. CASE 5 \notin S /\ 4 \notin S /\ 3 \notin S /\ 2 \notin S /\ 1 \in S
    BY <2>5
  <2>6. CASE 5 \notin S /\ 4 \notin S /\ 3 \notin S /\ 2 \notin S /\ 1 \notin S
    <3>1. \A r \in S : r = 0
      BY <2>6
    <3>2. PICK s \in S : TRUE
      OBVIOUS
    <3>3. \A r \in S : r <= s
      BY <3>1, <3>2
    <3>4. QED
      BY <3>2, <3>3
  <2>7. QED
    BY <2>1, <2>2, <2>3, <2>4, <2>5, <2>6
<1>2. QED
  BY <1>1 DEF Highest

(* The types of the tables and those of the transactions with their locks. *)
TablesTyped ==
  /\ status \in [Incident -> Status \union {"none"}] /\ closed \subseteq Existing
  /\ severity \in [Incident -> Severity \union {0}]
  /\ threat \subseteq Existing /\ pristine \subseteq threat
  /\ owner \in [Alert -> Existing \union {None}]
  /\ alertSeverity \in [Alert -> Severity]

(* Types of what requests and pipelines hold.                              *)
LocksTyped ==
  /\ rowLock \in [Incident -> Client \union Worker \union {None}]
  /\ advisory \in Worker \union {None}
  /\ request \in [Client -> Request \union {None}]
  /\ pipe \in [Worker -> Pipe \union {None}]
  /\ \A i \in Incident, c \in Client :
       rowLock[i] = c <=> Locked(c) /\ request[c].incident = i
  /\ \A i \in Incident, w \in Worker :
       rowLock[i] = w => pipe[w] # None
  /\ requests \in 0 .. MaxRequests

(* The type invariant by parts: rows, and what transactions hold.          *)
LEMMA TypeParts == IncTypeOK <=> TablesTyped /\ LocksTyped
BY DEF IncTypeOK, TablesTyped, LocksTyped

(* The same in the next state.                                             *)
LEMMA TypePartsNext == TablesTyped' /\ LocksTyped' => IncTypeOK'
BY DEF IncTypeOK, TablesTyped, LocksTyped

(* The end of a request or of a pipeline gives up its locks and no others. *)
LEMMA EndsTyped ==
  ASSUME LocksTyped, NEW c \in Client, Ends(c)
  PROVE  /\ LocksTyped'
         /\ \A d \in Client \ {c} : request'[d] = request[d]
         /\ request'[c] = None
         /\ \A i \in Incident, w \in Worker : rowLock[i] = w => rowLock'[i] = w
<1> USE IncidentsAssumption DEF Ends, LocksTyped, WithoutLocks
<1>1. \A i \in Incident, d \in Client :
        rowLock'[i] = d <=> Locked(d)' /\ request'[d].incident = i
  <2> SUFFICES ASSUME NEW i \in Incident, NEW d \in Client
               PROVE rowLock'[i] = d <=> Locked(d)' /\ request'[d].incident = i
    OBVIOUS
  <2>1. CASE d = c
    BY <2>1 DEF Locked
  <2>2. CASE d # c
    BY <2>2 DEF Locked
  <2>3. QED
    BY <2>1, <2>2
<1>2. rowLock' \in [Incident -> Client \union Worker \union {None}]
  OBVIOUS
<1>3. \A i \in Incident, w \in Worker : rowLock[i] = w <=> rowLock'[i] = w
  OBVIOUS
<1>4. QED
  BY <1>1, <1>2, <1>3

(* A pipeline that ends gives up its locks and no others.                  *)
LEMMA PipeEndsTyped ==
  ASSUME LocksTyped, NEW w \in Worker, PipeEnds(w)
  PROVE  /\ LocksTyped'
         /\ \A v \in Worker \ {w} : pipe'[v] = pipe[v]
         /\ pipe'[w] = None
         /\ \A i \in Incident, v \in Worker \ {w} : rowLock[i] = v => rowLock'[i] = v
         /\ \A v \in Worker \ {w} : advisory = v => advisory' = v
<1> USE IncidentsAssumption DEF PipeEnds, LocksTyped, WithoutLocks
<1>1. \A i \in Incident, d \in Client :
        rowLock'[i] = d <=> Locked(d)' /\ request'[d].incident = i
  BY DEF Locked
<1>2. rowLock' \in [Incident -> Client \union Worker \union {None}]
  OBVIOUS
<1>3. \A i \in Incident, v \in Worker : rowLock'[i] = v => v # w /\ rowLock[i] = v
  OBVIOUS
<1>4. QED
  BY <1>1, <1>2, <1>3

(* A transaction that takes no part in a step keeps its part of the        *)
(* invariant, if the step spares the rows it has locked.                   *)
LEMMA RequestFrame ==
  ASSUME NEW c \in Client, RequestOK(c), request'[c] = request[c],
         request[c] # None =>
           LET i == request[c].incident IN
           /\ status'[i] \in Status
           /\ request[c].row # None => status'[i] = status[i] /\ (i \in closed' <=> i \in closed)
  PROVE  RequestOK(c)'
BY DEF RequestOK

(* What leaves a pipeline and its locked rows alone keeps PipeOK.          *)
LEMMA PipeFrame ==
  ASSUME NEW w \in Worker, PipeOK(w), pipe'[w] = pipe[w], pristine' \subseteq pristine,
         advisory = w => advisory' = w,
         pipe[w] # None =>
           \A i \in pipe[w].mine : rowLock'[i] = rowLock[i] /\ (Matches(i) => Matches(i)')
  PROVE  PipeOK(w)'
BY DEF PipeOK

(* The highest of some severities is one of them.                          *)
LEMMA HighestSeverity ==
  ASSUME NEW S \in SUBSET Severity, S # {}
  PROVE  Highest(S) \in Severity /\ Highest(S) \in S /\ \A r \in S : r <= Highest(S)
<1>1. \A r \in S : r \in 0 .. 5
  BY IncidentsAssumption
<1>2. S \subseteq 0 .. 5
  BY <1>1
<1>3. QED
  BY <1>2, HighestRank

(* No incident, no transaction.                                            *)
LEMMA IncInitInd == IncInit => IncInd
<1> SUFFICES ASSUME IncInit PROVE IncInd
  OBVIOUS
<1> USE IncidentsAssumption, NoneIsNoRecord DEF IncInit, CInit
<1>1. IncTypeOK
  <2>1. Existing = {}
    BY DEF Existing
  <2>2. \A i \in Incident, c \in Client : rowLock[i] = c <=> Locked(c) /\ request[c].incident = i
    BY DEF Locked
  <2>3. \A i \in Incident, w \in Worker : rowLock[i] = w => pipe[w] # None
    OBVIOUS
  <2>4. QED
    BY <2>1, <2>2, <2>3 DEF IncTypeOK
<1>2. RowsOK
  BY DEF RowsOK, Existing, Final
<1>3. PristineOK
  BY DEF PristineOK, OnePerThreat
<1>4. QED
  BY <1>1, <1>2, <1>3 DEF IncInd, RequestOK, PipeOK

-----------------------------------------------------------------------------
(* The steps of a client.                                                  *)

(* INSERT of a row that was not there.                                     *)
LEMMA InsertRow ==
  ASSUME TablesTyped, RowsOK, NEW i \in Incident, NEW s \in Severity, NEW b \in BOOLEAN,
         Insert(i, s, b)
  PROVE  /\ status[i] = "none" /\ i \notin threat /\ i \notin closed /\ i \notin pristine
         /\ status' = [status EXCEPT ![i] = "OPEN"] /\ closed' = closed
         /\ \A j \in Incident : Matches(j) => j # i /\ Matches(j)'
         /\ Existing' = Existing \union {i}
         /\ threat' \in SUBSET Existing' /\ threat \subseteq threat'
         /\ severity' \in [Incident -> Severity \union {0}]
         /\ status' \in [Incident -> Status \union {"none"}]
         /\ RowsOK'
<1>1. status[i] = "none"
  BY DEF Insert, Fresh, Existing
<1>2. i \notin Existing
  BY <1>1 DEF Existing
<1>3. status' = [status EXCEPT ![i] = "OPEN"] /\ closed' = closed
  BY DEF Insert
<1>4. Existing' = Existing \union {i}
  BY <1>3 DEF Existing, TablesTyped
<1>5. \A j \in Incident : Matches(j) => j # i /\ Matches(j)'
  BY <1>1, <1>3 DEF Matches, Active, Insert, TablesTyped
<1>6. RowsOK'
  <2>1. \A j \in Incident : j \in closed' <=> status'[j] \in Final
    BY <1>1, <1>3 DEF RowsOK, Final, TablesTyped
  <2>2. \A j \in Existing' : severity'[j] \in Severity
    BY <1>4 DEF RowsOK, Insert, TablesTyped, Existing
  <2>3. QED
    BY <2>1, <2>2 DEF RowsOK
<1>7. QED
  BY <1>1, <1>2, <1>3, <1>4, <1>5, <1>6 DEF Insert, TablesTyped, Status, Active

(* Each action preserves the invariant; first a request that creates.      *)
LEMMA CreateIncidentInd ==
  ASSUME IncInd, NEW c \in Client, CreateIncident(c)
  PROVE  IncInd'
<1> USE IncidentsAssumption
<1>1. TablesTyped /\ LocksTyped
  BY TypeParts DEF IncInd
<1>2. PICK i \in Incident, s \in Severity, b \in BOOLEAN, next \in {"attach", "none"} :
        /\ Insert(i, s, b)
        /\ request' = IF next = "none" THEN request
                      ELSE [request EXCEPT ![c] = Asked("attach", i)]
  BY DEF CreateIncident
<1>3. Insert(i, s, b)
  BY <1>2
<1>4. RowsOK
  BY DEF IncInd
<1> DEFINE Inserted ==
         /\ status[i] = "none" /\ i \notin threat /\ i \notin closed /\ i \notin pristine
         /\ status' = [status EXCEPT ![i] = "OPEN"] /\ closed' = closed
         /\ \A j \in Incident : Matches(j) => j # i /\ Matches(j)'
         /\ Existing' = Existing \union {i}
         /\ threat' \in SUBSET Existing' /\ threat \subseteq threat'
         /\ severity' \in [Incident -> Severity \union {0}]
         /\ status' \in [Incident -> Status \union {"none"}]
         /\ RowsOK'
<1>5. Inserted
  BY <1>1, <1>3, <1>4, InsertRow
<1>6. request[c] = None /\ UNCHANGED <<owner, alertSeverity, pristine, rowLock, advisory, pipe>>
        /\ requests < MaxRequests /\ requests' = requests + 1
  BY DEF CreateIncident, Within
<1>7. TablesTyped'
  BY <1>1, <1>5, <1>6 DEF TablesTyped
<1>8. LocksTyped'
  <2>1. Asked("attach", i) \in Request /\ Asked("attach", i).row = None
    BY DEF Asked, Request
  <2>2. \A j \in Incident, d \in Client : rowLock'[j] = d <=> Locked(d)' /\ request'[d].incident = j
    BY <1>1, <1>2, <1>6, <2>1 DEF LocksTyped, Locked
  <2>3. request' \in [Client -> Request \union {None}]
    BY <1>1, <1>2, <2>1 DEF LocksTyped
  <2>4. requests' \in 0 .. MaxRequests
    BY <1>1, <1>6 DEF LocksTyped
  <2>5. QED
    BY <1>1, <1>6, <2>2, <2>3, <2>4 DEF LocksTyped
<1>9. PristineOK'
  BY <1>1, <1>5, <1>6 DEF IncInd, PristineOK, OnePerThreat, TablesTyped, Existing
<1>10. \A d \in Client : RequestOK(d)'
  <2> SUFFICES ASSUME NEW d \in Client PROVE RequestOK(d)'
    OBVIOUS
  <2>1. RequestOK(d)
    BY DEF IncInd
  <2>2. CASE request'[d] = request[d]
    <3>1. request[d] # None => request[d] \in Request /\ request[d].incident # i
      BY <1>1, <1>5, <2>1 DEF LocksTyped, RequestOK, Status, Active, Final
    <3>2. QED
      BY <1>1, <1>5, <2>1, <2>2, <3>1, RequestFrame DEF Request, RequestOK, TablesTyped
  <2>3. CASE request'[d] # request[d]
    <3>1. d = c /\ request'[c] = Asked("attach", i)
      BY <1>1, <1>2, <2>3 DEF LocksTyped
    <3>2. QED
      BY <1>1, <1>5, <3>1 DEF RequestOK, Asked, Status, Active, TablesTyped
  <2>4. QED
    BY <2>2, <2>3
<1>11. \A w \in Worker : PipeOK(w)'
  <2> SUFFICES ASSUME NEW w \in Worker PROVE PipeOK(w)'
    OBVIOUS
  <2>1. PipeOK(w) /\ (pipe[w] # None => pipe[w] \in Pipe)
    BY <1>1 DEF IncInd, LocksTyped
  <2>2. QED
    BY <1>5, <1>6, <2>1, PipeFrame DEF Pipe
<1>12. QED
  BY <1>5, <1>7, <1>8, <1>9, <1>10, <1>11, TypePartsNext DEF IncInd

(* A step that changes no table and no pipeline.                           *)
LEMMA RequestStepInd ==
  ASSUME IncInd, NEW c \in Client, UNCHANGED <<tables, advisory, pipe>>,
         LocksTyped', RequestOK(c)',
         \A d \in Client \ {c} : request'[d] = request[d],
         \A i \in Incident, w \in Worker : rowLock[i] = w => rowLock'[i] = w
  PROVE  IncInd'
<1>1. TablesTyped /\ LocksTyped
  BY TypeParts DEF IncInd
<1>2. TablesTyped' /\ RowsOK' /\ PristineOK'
  BY <1>1 DEF IncInd, TablesTyped, RowsOK, PristineOK, OnePerThreat, Existing, Matches,
     tables, lifeVars
<1>3. \A d \in Client : RequestOK(d)'
  <2> SUFFICES ASSUME NEW d \in Client, d # c PROVE RequestOK(d)'
    OBVIOUS
  <2>1. RequestOK(d) /\ request'[d] = request[d]
    BY DEF IncInd
  <2>2. QED
    BY <2>1, RequestFrame DEF RequestOK, tables, lifeVars
<1>4. \A w \in Worker : PipeOK(w)'
  <2> SUFFICES ASSUME NEW w \in Worker PROVE PipeOK(w)'
    OBVIOUS
  <2>1. PipeOK(w) /\ (pipe[w] # None => pipe[w] \in Pipe)
    BY <1>1 DEF IncInd, LocksTyped
  <2>2. \A i \in Incident : Matches(i) => Matches(i)'
    BY DEF Matches, tables, lifeVars
  <2>3. pipe[w] # None => \A i \in pipe[w].mine : rowLock'[i] = rowLock[i] /\ (Matches(i) => Matches(i)')
    BY <2>1, <2>2 DEF PipeOK, Pipe
  <2>4. QED
    BY <2>1, <2>3, PipeFrame DEF tables
<1>5. QED
  BY <1>2, <1>3, <1>4, TypePartsNext DEF IncInd

(* A request begins, with nothing read or locked.                          *)
LEMMA AskInd ==
  ASSUME IncInd, NEW c \in Client, NEW kind \in {"update", "attach", "detach"},
         NEW i \in Incident, Ask(c, kind, i)
  PROVE  IncInd'
<1> USE IncidentsAssumption
<1>1. TablesTyped /\ LocksTyped
  BY TypeParts DEF IncInd
<1>2. Asked(kind, i) \in Request /\ Asked(kind, i).row = None /\ Asked(kind, i).incident = i
  BY DEF Asked, Request
<1>3. LocksTyped'
  <2>1. \A j \in Incident, d \in Client : rowLock'[j] = d <=> Locked(d)' /\ request'[d].incident = j
    BY <1>1, <1>2 DEF Ask, LocksTyped, Locked
  <2>2. QED
    BY <1>1, <1>2, <2>1 DEF Ask, Within, LocksTyped
<1>4. RequestOK(c)'
  <2>1. request'[c] = Asked(kind, i) /\ status' = status
    BY <1>1 DEF Ask, LocksTyped, tables, lifeVars
  <2>2. status[i] \in Status
    BY <1>1 DEF Ask, Existing, TablesTyped
  <2>3. QED
    BY <1>2, <2>1, <2>2 DEF RequestOK
<1>5. QED
  BY <1>1, <1>3, <1>4, RequestStepInd DEF Ask, LocksTyped

(* FOR UPDATE: the request knows the row from now on.                      *)
LEMMA LockIncidentInd ==
  ASSUME IncInd, NEW c \in Client, NEW A \in SUBSET Alert, NEW level \in Severity \union {0},
         request[c].kind = "attach" => level \in Severity,
         request[c] # None, ~Locked(c), LockIncident(c, A, level)
  PROVE  IncInd'
<1> USE IncidentsAssumption
<1> DEFINE r == request[c]
           i == r.incident
           row == [status |-> status[i], closed |-> i \in closed, severity |-> severity[i]]
           next == [r EXCEPT !.row = row, !.alerts = A, !.level = level]
<1>1. TablesTyped /\ LocksTyped /\ RequestOK(c) /\ RowsOK
  BY TypeParts DEF IncInd
<1>2. r \in Request /\ i \in Incident /\ status[i] \in Status /\ r.row = None
  BY <1>1 DEF LocksTyped, Request, RequestOK, Locked
<1>3. i \in Existing
  BY <1>2 DEF Existing, Status, Active, Final
<1>4. row \in Row /\ row # None
  <2>1. status[i] \in Status /\ severity[i] \in Severity /\ (i \in closed) \in BOOLEAN
    BY <1>1, <1>2, <1>3 DEF RowsOK
  <2>2. row \in Row
    BY <2>1, Zenon DEF Row
  <2>3. QED
    BY <2>2, NoneIsNoRecord
<1>5. next \in Request /\ next # None /\ next.row = row /\ next.incident = i
        /\ next.kind = r.kind /\ next.level = level
  <2>1. next \in Request /\ next.row = row /\ next.incident = i
        /\ next.kind = r.kind /\ next.level = level
    BY <1>2, <1>4 DEF Request
  <2>2. QED
    BY <2>1, NoneIsNoRecord
<1>6. /\ request' = [request EXCEPT ![c] = next]
      /\ rowLock[i] = None /\ rowLock' = [rowLock EXCEPT ![i] = c]
      /\ UNCHANGED <<tables, advisory, pipe, requests>>
  BY DEF LockIncident, Lockable
<1> HIDE DEF next, row
<1>7. LocksTyped'
  <2>1. \A j \in Incident, d \in Client : rowLock'[j] = d <=> Locked(d)' /\ request'[d].incident = j
    <3> SUFFICES ASSUME NEW j \in Incident, NEW d \in Client
                 PROVE rowLock'[j] = d <=> Locked(d)' /\ request'[d].incident = j
      OBVIOUS
    <3>1. CASE d = c
      BY <1>1, <1>2, <1>4, <1>5, <1>6, <3>1 DEF LocksTyped, Locked
    <3>2. CASE d # c
      BY <1>1, <1>2, <1>6, <3>2 DEF LocksTyped, Locked
    <3>3. QED
      BY <3>1, <3>2
  <2>2. \A j \in Incident, w \in Worker : rowLock'[j] = w => pipe'[w] # None
    BY <1>1, <1>2, <1>6 DEF LocksTyped
  <2>3. QED
    BY <1>1, <1>2, <1>5, <1>6, <2>1, <2>2 DEF LocksTyped
<1>8. RequestOK(c)'
  <2>1. request'[c] = next /\ status' = status /\ closed' = closed
    BY <1>1, <1>6 DEF LocksTyped, tables, lifeVars
  <2>2. row.status = status[i] /\ (row.closed <=> i \in closed)
    BY DEF row
  <2>3. QED
    BY <1>2, <1>5, <2>1, <2>2 DEF RequestOK
<1>9. QED
  BY <1>1, <1>2, <1>6, <1>7, <1>8, RequestStepInd DEF LocksTyped

(* The end of a request that changes no status but that of the row it has  *)
(* locked.                                                                 *)
Spares(i) ==
  /\ status'[i] = status[i]
  /\ i \in closed' <=> i \in closed
  /\ i \in threat' <=> i \in threat

(* What a request may do to rows when it ends, and keep the invariant.     *)
LEMMA EndsInd ==
  ASSUME IncInd, NEW c \in Client, request[c] # None, Ends(c),
         TablesTyped', RowsOK', PristineOK', pristine' \subseteq pristine,
         \A i \in Incident : status[i] \in Status => status'[i] \in Status,
         \A i \in Incident : Spares(i) \/ (Locked(c) /\ i = request[c].incident)
  PROVE  IncInd'
<1> USE IncidentsAssumption
<1>1. TablesTyped /\ LocksTyped
  BY TypeParts DEF IncInd
<1>2. /\ LocksTyped'
      /\ \A d \in Client \ {c} : request'[d] = request[d]
      /\ request'[c] = None
      /\ \A i \in Incident, w \in Worker : rowLock[i] = w => rowLock'[i] = w
  BY <1>1, EndsTyped
<1>3. \A d \in Client : RequestOK(d)'
  <2> SUFFICES ASSUME NEW d \in Client PROVE RequestOK(d)'
    OBVIOUS
  <2>1. CASE d = c
    BY <1>2, <2>1 DEF RequestOK
  <2>2. CASE d # c
    <3>1. RequestOK(d) /\ request'[d] = request[d]
      BY <1>2, <2>2 DEF IncInd
    <3>2. request[d] # None => request[d].incident \in Incident
      BY <1>1 DEF LocksTyped, Request
    <3>3. request[d] # None /\ request[d].row # None => Spares(request[d].incident)
      BY <1>1, <2>2, <3>2 DEF LocksTyped, Locked
    <3>4. QED
      BY <3>1, <3>2, <3>3, RequestFrame DEF Spares, RequestOK
  <2>3. QED
    BY <2>1, <2>2
<1>4. \A w \in Worker : PipeOK(w)'
  <2> SUFFICES ASSUME NEW w \in Worker PROVE PipeOK(w)'
    OBVIOUS
  <2>1. PipeOK(w) /\ (pipe[w] # None => pipe[w] \in Pipe)
    BY <1>1 DEF IncInd, LocksTyped
  <2>2. ASSUME pipe[w] # None, NEW i \in pipe[w].mine
        PROVE  rowLock'[i] = rowLock[i] /\ (Matches(i) => Matches(i)')
    <3>1. i \in Incident /\ rowLock[i] = w
      BY <2>1, <2>2 DEF Pipe, PipeOK
    <3>2. Spares(i)
      BY <1>1, <3>1 DEF LocksTyped
    <3>3. QED
      BY <1>2, <3>1, <3>2 DEF Spares, Matches
  <2>3. QED
    BY <2>1, <2>2, PipeFrame DEF Ends
<1>5. QED
  BY <1>2, <1>3, <1>4, TypePartsNext DEF IncInd

(* A request that renames, moves or closes its incident.                   *)
LEMMA UpdateInd ==
  ASSUME IncInd, NEW c \in Client, Update(c)
  PROVE  IncInd'
<1> DEFINE r == request[c]
           i == r.incident
<1>1. TablesTyped /\ LocksTyped /\ RequestOK(c) /\ RowsOK /\ PristineOK
  BY TypeParts DEF IncInd
<1>2. r \in Request /\ i \in Incident /\ r.row # None /\ Locked(c) /\ r # None
  BY <1>1 DEF Update, Locked, LocksTyped, Request
<1>3. r.row.status = status[i] /\ (r.row.closed <=> i \in closed) /\ status[i] \in Status
  BY <1>1, <1>2 DEF RequestOK
<1> DEFINE from == r.row.status
<1>4. PICK to \in {from} \union Allowed[from], s \in Severity, t \in BOOLEAN :
        /\ severity' = [severity EXCEPT ![i] = IF s # r.row.severity THEN s ELSE @]
        /\ status' = [status EXCEPT ![i] = IF to # from THEN to ELSE @]
        /\ closed' = CASE to # from /\ to \in Final /\ ~r.row.closed -> closed \union {i}
                       [] to # from /\ to \notin Final /\ from \in Final -> closed \ {i}
                       [] OTHER -> closed
        /\ threat' = IF t THEN threat \union {i} ELSE threat \ {i}
        /\ pristine' = IF t /\ to \in Active THEN pristine ELSE pristine \ {i}
  BY Zenon DEF Update
<1> HIDE DEF from
<1>0. from = status[i]
  BY <1>3 DEF from
<1>5. to \in Status
  BY <1>0, <1>3 DEF Allowed, Status, Active, Final
<1>6. status' = [status EXCEPT ![i] = to]
  BY <1>0, <1>4
<1>7. \A j \in Incident : j \in closed' <=> status'[j] \in Final
  <2>1. \A j \in Incident : j \in closed <=> status[j] \in Final
    BY <1>1 DEF RowsOK
  <2>2. \A j \in Incident \ {i} : j \in closed' <=> j \in closed
    BY <1>4
  <2>3. i \in closed' <=> to \in Final
    BY <1>0, <1>2, <1>3, <1>4, <2>1
  <2>4. QED
    BY <1>1, <1>2, <1>6, <2>1, <2>2, <2>3 DEF TablesTyped
<1>8. Existing' = Existing /\ i \in Existing
  BY <1>1, <1>2, <1>3, <1>5, <1>6 DEF Existing, TablesTyped, Status, Active, Final
<1>9. closed' \subseteq Existing /\ threat' \subseteq Existing /\ pristine' \subseteq threat'
  <2>1. closed \subseteq Existing /\ threat \subseteq Existing /\ pristine \subseteq threat
    BY <1>1 DEF TablesTyped
  <2>2. closed' \subseteq closed \union {i}
    BY <1>4
  <2>3. QED
    BY <1>4, <1>8, <2>1, <2>2
<1>10. TablesTyped'
  BY <1>1, <1>2, <1>4, <1>5, <1>6, <1>8, <1>9 DEF TablesTyped, Update, Ends
<1>11. RowsOK'
  BY <1>1, <1>2, <1>4, <1>7, <1>8 DEF RowsOK, TablesTyped, Existing
<1>12. PristineOK'
  BY <1>1, <1>2, <1>4, <1>6, <1>9 DEF PristineOK, OnePerThreat, Matches, TablesTyped, Existing
<1>13. \A j \in Incident : Spares(j) \/ j = i
  BY <1>1, <1>4, <1>6 DEF Spares, TablesTyped
<1>14. Ends(c) /\ status'[i] \in Status
  BY <1>1, <1>2, <1>5, <1>6 DEF Update, TablesTyped
<1>15. QED
  BY <1>1, <1>2, <1>4, <1>5, <1>6, <1>10, <1>11, <1>12, <1>13, <1>14, EndsInd DEF TablesTyped

(* Attaching, detaching, refusing and failing change no status.            *)
LEMMA QuietEndInd ==
  ASSUME IncInd, NEW c \in Client, request[c] # None, Ends(c),
         UNCHANGED <<lifeVars, threat, pristine>>,
         severity' \in [Incident -> Severity \union {0}],
         \A i \in Existing : severity'[i] \in Severity,
         owner' \in [Alert -> Existing \union {None}]
  PROVE  IncInd'
<1>1. TablesTyped /\ RowsOK /\ PristineOK
  BY TypeParts DEF IncInd
<1>2. TablesTyped' /\ RowsOK' /\ PristineOK'
  BY <1>1 DEF TablesTyped, RowsOK, PristineOK, OnePerThreat, Matches, Existing, Ends, lifeVars
<1>3. \A i \in Incident : Spares(i) /\ status'[i] = status[i]
  BY DEF Spares, lifeVars
<1>4. QED
  BY <1>2, <1>3, EndsInd

(* A request that attaches alerts raises the severity at most.             *)
LEMMA AttachInd ==
  ASSUME IncInd, NEW c \in Client, Attach(c)
  PROVE  IncInd'
<1> DEFINE r == request[c]
           i == r.incident
<1>1. TablesTyped /\ LocksTyped /\ RequestOK(c) /\ RowsOK
  BY TypeParts DEF IncInd
<1>2. r \in Request /\ i \in Incident /\ r # None /\ status[i] \in Status
  BY <1>1 DEF Attach, Locked, LocksTyped, Request, RequestOK
<1>3. i \in Existing
  BY <1>2 DEF Existing, Status, Active, Final
<1>4. owner' \in [Alert -> Existing \union {None}]
  BY <1>1, <1>3 DEF Attach, Assign, TablesTyped
<1>5. r.level \in Severity
  BY <1>1 DEF Attach, Locked, RequestOK
<1>6. QED
  BY <1>1, <1>2, <1>3, <1>4, <1>5, QuietEndInd DEF Attach, TablesTyped, RowsOK

(* A request that detaches an alert.                                       *)
LEMMA DetachInd ==
  ASSUME IncInd, NEW c \in Client, Detach(c)
  PROVE  IncInd'
<1>1. TablesTyped /\ RowsOK
  BY TypeParts DEF IncInd
<1>2. owner' \in [Alert -> Existing \union {None}]
  BY <1>1 DEF Detach, Assign, TablesTyped
<1>3. QED
  BY <1>1, <1>2, QuietEndInd DEF Detach, Locked, TablesTyped, RowsOK

(* A request that is refused or fails changes no row.                      *)
LEMMA RefuseInd ==
  ASSUME IncInd, NEW c \in Client, Refuse(c) \/ Fail(c)
  PROVE  IncInd'
<1>1. TablesTyped /\ RowsOK
  BY TypeParts DEF IncInd
<1>2. QED
  BY <1>1, QuietEndInd DEF Refuse, Fail, TablesTyped, RowsOK

(* All answers to a request.                                               *)
LEMMA AnswersInd ==
  ASSUME IncInd, NEW c \in Client, Answers(c)
  PROVE  IncInd'
<1> USE IncidentsAssumption
<1>1. TablesTyped /\ LocksTyped /\ RequestOK(c) /\ RowsOK
  BY TypeParts DEF IncInd
<1>2. CASE LockForUpdate(c)
  BY <1>2, LockIncidentInd DEF LockForUpdate, Waits
<1>3. CASE LockForAttach(c)
  <2> DEFINE i == request[c].incident
             ranks(A) == {severity[i]} \union
                         {alertSeverity[a] : a \in A \union {b \in Alert : owner[b] = i}}
  <2>1. PICK A \in SUBSET Alert : LockIncident(c, {a \in A : owner[a] # i}, Highest(ranks(A)))
    BY <1>3 DEF LockForAttach, Attachable
  <2>2. i \in Incident /\ i \in Existing
    BY <1>1, <1>3 DEF LockForAttach, Waits, LocksTyped, Request, RequestOK, Existing,
       Status, Active, Final
  <2>3. ranks(A) \subseteq Severity /\ ranks(A) # {}
    BY <1>1, <2>2 DEF RowsOK, TablesTyped
  <2> HIDE DEF ranks
  <2>5. Highest(ranks(A)) \in Severity
    BY <2>3, HighestSeverity
  <2>6. QED
    BY <1>3, <2>1, <2>5, LockIncidentInd DEF LockForAttach, Waits
<1>4. CASE LockForDetach(c)
  <2>1. PICK a \in Alert : LockIncident(c, {a}, 0)
    BY <1>4 DEF LockForDetach
  <2>2. QED
    BY <1>4, <2>1, LockIncidentInd DEF LockForDetach, Waits
<1>5. QED
  BY <1>2, <1>3, <1>4, UpdateInd, AttachInd, DetachInd DEF Answers

-----------------------------------------------------------------------------
(* The steps of a pipeline.                                                *)

(* A step of one pipeline that changes no row.                             *)
LEMMA PipeStepInd ==
  ASSUME IncInd, NEW w \in Worker,
         UNCHANGED <<lifeVars, severity, threat, owner, pristine, request>>,
         alertSeverity' \in [Alert -> Severity],
         LocksTyped', PipeOK(w)',
         \A v \in Worker \ {w} : pipe'[v] = pipe[v] /\ (advisory = v => advisory' = v),
         \A i \in Incident, v \in Worker \ {w} : rowLock[i] = v => rowLock'[i] = v
  PROVE  IncInd'
<1>1. TablesTyped /\ LocksTyped
  BY TypeParts DEF IncInd
<1>2. TablesTyped' /\ RowsOK' /\ PristineOK'
  BY <1>1 DEF IncInd, TablesTyped, RowsOK, PristineOK, OnePerThreat, Existing, Matches, lifeVars
<1>3. \A c \in Client : RequestOK(c)'
  BY RequestFrame DEF IncInd, RequestOK, lifeVars
<1>4. \A v \in Worker \ {w} : PipeOK(v)'
  <2> SUFFICES ASSUME NEW v \in Worker \ {w} PROVE PipeOK(v)'
    OBVIOUS
  <2>1. PipeOK(v) /\ (pipe[v] # None => pipe[v] \in Pipe)
    BY <1>1 DEF IncInd, LocksTyped
  <2>2. pipe[v] # None => \A i \in pipe[v].mine : rowLock'[i] = rowLock[i] /\ (Matches(i) => Matches(i)')
    BY <2>1 DEF PipeOK, Pipe, Matches, lifeVars
  <2>3. QED
    BY <2>1, <2>2, PipeFrame
<1>5. QED
  BY <1>2, <1>3, <1>4, TypePartsNext DEF IncInd

(* A pipeline takes the advisory lock and lists the matching incidents.    *)
LEMMA LookInd ==
  ASSUME IncInd, NEW w \in Worker, NEW a \in Alert, NEW s \in Severity, Look(w, a, s)
  PROVE  IncInd'
<1> USE IncidentsAssumption
<1> DEFINE p == [alert |-> a, severity |-> s, stage |-> "locking",
                 todo |-> {i \in Incident : Matches(i)}, mine |-> {}, found |-> None,
                 move |-> FALSE]
<1>1. TablesTyped /\ LocksTyped /\ PristineOK
  BY TypeParts DEF IncInd
<1>2. p \in Pipe /\ p # None
  <2>1. p \in Pipe
    BY DEF Pipe
  <2>2. QED
    BY <2>1, NoneIsNoRecord
<1>3. pipe' = [pipe EXCEPT ![w] = p] /\ pipe[w] = None /\ advisory = None /\ advisory' = w
  BY DEF Look, Serialised
<1>4. alertSeverity' \in [Alert -> Severity]
  <2>1. {alertSeverity[a], s} \subseteq Severity
    BY <1>1 DEF TablesTyped
  <2>3. Highest({alertSeverity[a], s}) \in Severity
    BY <2>1, HighestSeverity
  <2>4. QED
    BY <1>1, <2>3 DEF Look, TablesTyped
<1> HIDE DEF p
<1>5. LocksTyped'
  <2>1. pipe' \in [Worker -> Pipe \union {None}]
    BY <1>1, <1>2, <1>3 DEF LocksTyped
  <2>2. \A i \in Incident, v \in Worker : rowLock'[i] = v => pipe'[v] # None
    BY <1>1, <1>2, <1>3 DEF LocksTyped, Look
  <2>3. \A j \in Incident, d \in Client : rowLock'[j] = d <=> Locked(d)' /\ request'[d].incident = j
    BY <1>1 DEF Look, LocksTyped, Locked
  <2>4. QED
    BY <1>1, <1>3, <2>1, <2>2, <2>3 DEF LocksTyped, Look, Within
<1>6. PipeOK(w)'
  <2>1. pipe'[w] = p
    BY <1>1, <1>3 DEF LocksTyped
  <2>2. \A i \in pristine : i \in Incident /\ Matches(i)
    BY <1>1 DEF PristineOK, TablesTyped, Existing
  <2>3. pristine' = pristine
    BY DEF Look
  <2>4. QED
    BY <1>3, <2>1, <2>2, <2>3 DEF PipeOK, p
<1>7. \A v \in Worker \ {w} : pipe'[v] = pipe[v] /\ (advisory = v => advisory' = v)
  BY <1>1, <1>3 DEF LocksTyped
<1>8. UNCHANGED <<lifeVars, severity, threat, owner, pristine, rowLock, request>>
  BY DEF Look
<1>9. QED
  BY <1>4, <1>5, <1>6, <1>7, <1>8, PipeStepInd

(* It locks one of them and looks at it again.                             *)
LEMMA LockThreatInd ==
  ASSUME IncInd, NEW w \in Worker, NEW i \in Incident, LockThreat(w, i)
  PROVE  IncInd'
<1> USE IncidentsAssumption
<1> DEFINE p == pipe[w]
           next == [p EXCEPT !.todo = @ \ {i},
                             !.mine = IF StillMatches(i) THEN @ \union {i} ELSE @]
<1>1. TablesTyped /\ LocksTyped /\ PristineOK /\ PipeOK(w)
  BY TypeParts DEF IncInd
<1>2. p \in Pipe /\ p # None /\ p.stage = "locking" /\ rowLock[i] = None
  BY <1>1 DEF LockThreat, Looking, LocksTyped, Lockable
<1>3. /\ next \in Pipe /\ next # None /\ next.stage = "locking"
      /\ next.todo = p.todo \ {i}
      /\ next.mine = IF Matches(i) THEN p.mine \union {i} ELSE p.mine
  <2>1. next \in Pipe
    BY <1>2 DEF Pipe
  <2>2. next.stage = "locking" /\ next.todo = p.todo \ {i}
          /\ next.mine = IF Matches(i) THEN p.mine \union {i} ELSE p.mine
    BY <1>2 DEF Pipe, StillMatches
  <2>3. QED
    BY <2>1, <2>2, NoneIsNoRecord
<1>4. /\ pipe' = [pipe EXCEPT ![w] = next] /\ rowLock' = [rowLock EXCEPT ![i] = w]
      /\ UNCHANGED <<tables, advisory, request, requests>>
  BY DEF LockThreat
<1> HIDE DEF next
<1>5. LocksTyped'
  <2>1. \A j \in Incident, d \in Client : rowLock'[j] = d <=> Locked(d)' /\ request'[d].incident = j
    BY <1>1, <1>2, <1>4 DEF LocksTyped, Locked
  <2>2. \A j \in Incident, v \in Worker : rowLock'[j] = v => pipe'[v] # None
    BY <1>1, <1>3, <1>4 DEF LocksTyped
  <2>3. QED
    BY <1>1, <1>3, <1>4, <2>1, <2>2 DEF LocksTyped
<1>6. PipeOK(w)'
  <2>1. pipe'[w] = next
    BY <1>1, <1>4 DEF LocksTyped
  <2>2. \A j \in next.mine : rowLock'[j] = w /\ Matches(j)
    BY <1>1, <1>2, <1>3, <1>4 DEF PipeOK, LocksTyped, Pipe
  <2>3. pristine \subseteq next.todo \union next.mine
    BY <1>1, <1>2, <1>3 DEF PipeOK, PristineOK
  <2>4. QED
    BY <1>1, <1>2, <1>3, <1>4, <2>1, <2>2, <2>3 DEF PipeOK, Matches, tables, lifeVars
<1>7. QED
  BY <1>1, <1>2, <1>4, <1>5, <1>6, PipeStepInd DEF LocksTyped, TablesTyped, tables

(* It goes on with one it has locked, or with none.                        *)
LEMMA ChooseInd ==
  ASSUME IncInd, NEW w \in Worker, Choose(w)
  PROVE  IncInd'
<1> USE IncidentsAssumption
<1>1. TablesTyped /\ LocksTyped /\ PipeOK(w)
  BY TypeParts DEF IncInd
<1>2. pipe[w] \in Pipe /\ pipe[w] # None /\ pipe[w].stage = "locking" /\ pipe[w].todo = {}
  <2>1. Looking(w) /\ pipe[w].todo = {}
    BY DEF Choose
  <2>2. QED
    BY <1>1, <2>1 DEF Looking, LocksTyped
<1>3. UNCHANGED <<tables, rowLock, advisory, request, requests>>
  BY DEF Choose
<1>4. PICK next \in Pipe :
        /\ pipe' = [pipe EXCEPT ![w] = next]
        /\ next # None /\ next.mine = pipe[w].mine
        /\ \/ next.stage = "absent" /\ next.mine = {}
           \/ next.stage = "found" /\ next.found \in next.mine
  <2>1. CASE pipe[w].mine = {}
    <3>1. [pipe[w] EXCEPT !.stage = "absent"] \in Pipe
      BY <1>2 DEF Pipe
    <3>2. QED
      BY <1>2, <2>1, <3>1, NoneIsNoRecord DEF Choose, Pipe
  <2>2. CASE pipe[w].mine # {}
    <3>1. PICK i \in pipe[w].mine :
            pipe' = [pipe EXCEPT ![w] = [pipe[w] EXCEPT !.stage = "found", !.found = i,
                                                        !.move = owner[pipe[w].alert] # i]]
      BY <2>2 DEF Choose
    <3>2. (owner[pipe[w].alert] # i) \in BOOLEAN
      OBVIOUS
    <3>3. [pipe[w] EXCEPT !.stage = "found", !.found = i,
                          !.move = owner[pipe[w].alert] # i] \in Pipe
      BY <1>2, <3>2 DEF Pipe
    <3>4. QED
      BY <1>2, <3>1, <3>3, NoneIsNoRecord DEF Pipe
  <2>3. QED
    BY <2>1, <2>2
<1>5. LocksTyped'
  <2>1. \A j \in Incident, d \in Client : rowLock'[j] = d <=> Locked(d)' /\ request'[d].incident = j
    BY <1>1, <1>3 DEF LocksTyped, Locked
  <2>2. QED
    BY <1>1, <1>3, <1>4, <2>1 DEF LocksTyped
<1>6. PipeOK(w)'
  <2>1. pipe'[w].mine = pipe[w].mine /\ pipe'[w].stage # "locking"
    BY <1>1, <1>4 DEF LocksTyped
  <2>2. pipe'[w].stage = "found" => pipe'[w].found \in pipe'[w].mine
    BY <1>1, <1>4 DEF LocksTyped
  <2>3. pipe'[w].stage = "absent" => pristine = {}
    BY <1>1, <1>2, <1>4 DEF LocksTyped, PipeOK
  <2>4. QED
    BY <1>1, <1>2, <1>3, <2>1, <2>2, <2>3 DEF PipeOK, Matches, tables, lifeVars
<1>7. QED
  BY <1>1, <1>3, <1>4, <1>5, <1>6, PipeStepInd DEF LocksTyped, TablesTyped, tables

(* The end of a pipeline, with a row inserted or without.                  *)
LEMMA PipeEndsInd ==
  ASSUME IncInd, NEW w \in Worker, pipe[w] # None, PipeEnds(w),
         TablesTyped', RowsOK', PristineOK',
         \A i \in Incident : status[i] \in Status => Spares(i),
         pristine' \subseteq pristine \/ advisory = w
  PROVE  IncInd'
<1> USE IncidentsAssumption
<1>1. TablesTyped /\ LocksTyped
  BY TypeParts DEF IncInd
<1>2. /\ LocksTyped'
      /\ \A v \in Worker \ {w} : pipe'[v] = pipe[v]
      /\ pipe'[w] = None
      /\ \A i \in Incident, v \in Worker \ {w} : rowLock[i] = v => rowLock'[i] = v
      /\ \A v \in Worker \ {w} : advisory = v => advisory' = v
  BY <1>1, PipeEndsTyped
<1>3. \A c \in Client : RequestOK(c)'
  <2> SUFFICES ASSUME NEW c \in Client PROVE RequestOK(c)'
    OBVIOUS
  <2>1. RequestOK(c) /\ request'[c] = request[c]
    BY DEF IncInd, PipeEnds
  <2>2. request[c] # None => request[c].incident \in Incident /\ Spares(request[c].incident)
    BY <1>1, <2>1 DEF LocksTyped, Request, RequestOK
  <2>3. QED
    BY <2>1, <2>2, RequestFrame DEF Spares, RequestOK
<1>4. \A v \in Worker : PipeOK(v)'
  <2> SUFFICES ASSUME NEW v \in Worker, v # w PROVE PipeOK(v)'
    BY <1>2 DEF PipeOK
  <2>1. PipeOK(v) /\ (pipe[v] # None => pipe[v] \in Pipe) /\ PipeOK(w)
    BY <1>1 DEF IncInd, LocksTyped
  <2>2. pipe[v] = None
    BY <2>1 DEF PipeOK
  <2>3. QED
    BY <1>2, <2>2 DEF PipeOK
<1>5. QED
  BY <1>2, <1>3, <1>4, TypePartsNext DEF IncInd

(* The incident it joins is active and at least as severe.                 *)
LEMMA JoinThreatInd ==
  ASSUME IncInd, NEW w \in Worker, JoinThreat(w)
  PROVE  /\ IncInd'
         /\ status'[pipe[w].found] \in Active /\ pipe[w].found \in threat'
         /\ severity'[pipe[w].found] >= pipe[w].severity
<1> USE IncidentsAssumption
<1> DEFINE p == pipe[w]
           i == p.found
<1>1. TablesTyped /\ LocksTyped /\ PipeOK(w) /\ RowsOK /\ PristineOK
  BY TypeParts DEF IncInd
<1>2. p # None /\ p.stage = "found" /\ PipeEnds(w) /\ UNCHANGED <<lifeVars, threat, pristine>>
  BY DEF JoinThreat
<1>3. p \in Pipe /\ i \in Incident /\ Matches(i)
  BY <1>1, <1>2 DEF LocksTyped, Pipe, PipeOK
<1>4. i \in Existing /\ severity[i] \in Severity
  BY <1>1, <1>3 DEF RowsOK, TablesTyped, Matches
<1>5. {severity[i], p.severity} \subseteq Severity
  BY <1>3, <1>4 DEF Pipe
<1>6. /\ severity' = [severity EXCEPT ![i] = Highest({severity[i], p.severity})]
      /\ owner' = IF p.move THEN Assign({p.alert}, i) ELSE owner
  BY DEF JoinThreat
<1>7. Highest({severity[i], p.severity}) \in Severity
        /\ p.severity <= Highest({severity[i], p.severity})
  BY <1>5, HighestSeverity
<1>8. TablesTyped'
  <2>1. owner' \in [Alert -> Existing \union {None}]
    BY <1>1, <1>4, <1>6 DEF Assign, TablesTyped
  <2>2. QED
    BY <1>1, <1>2, <1>3, <1>6, <1>7, <2>1 DEF TablesTyped, Existing, lifeVars, PipeEnds
<1>9. RowsOK' /\ PristineOK'
  BY <1>1, <1>2, <1>3, <1>6, <1>7 DEF RowsOK, PristineOK, OnePerThreat, Matches, Existing,
     TablesTyped, lifeVars
<1>10. \A j \in Incident : Spares(j)
  BY <1>2 DEF Spares, lifeVars
<1>11. IncInd'
  BY <1>2, <1>8, <1>9, <1>10, PipeEndsInd
<1>12. severity'[i] >= p.severity
  <2>1. severity'[i] = Highest({severity[i], p.severity})
    BY <1>1, <1>3, <1>6 DEF TablesTyped
  <2>2. severity'[i] \in 1 .. 5 /\ p.severity \in 1 .. 5
    BY <1>3, <1>7, <2>1 DEF Pipe
  <2>3. QED
    BY <1>7, <2>1, <2>2
<1>13. QED
  BY <1>2, <1>3, <1>11, <1>12 DEF Matches, lifeVars

(* It inserts only when no pristine incident is left.                      *)
LEMMA ReportThreatInd ==
  ASSUME IncInd, NEW w \in Worker, ReportThreat(w)
  PROVE  IncInd'
<1> USE IncidentsAssumption
<1> DEFINE p == pipe[w]
<1>1. TablesTyped /\ LocksTyped /\ PipeOK(w) /\ RowsOK /\ PristineOK
  BY TypeParts DEF IncInd
<1>2. p # None /\ p.stage = "absent" /\ PipeEnds(w)
  BY DEF ReportThreat
<1>3. p \in Pipe /\ p.severity \in Severity /\ p.alert \in Alert /\ advisory = w /\ pristine = {}
  BY <1>1, <1>2 DEF LocksTyped, Pipe, PipeOK
<1>4. PICK i \in Incident :
        /\ Insert(i, p.severity, TRUE)
        /\ owner' = Assign({p.alert}, i)
        /\ pristine' = {i}
  BY <1>3 DEF ReportThreat
<1> DEFINE Inserted ==
         /\ status[i] = "none" /\ i \notin threat /\ i \notin closed /\ i \notin pristine
         /\ status' = [status EXCEPT ![i] = "OPEN"] /\ closed' = closed
         /\ \A j \in Incident : Matches(j) => j # i /\ Matches(j)'
         /\ Existing' = Existing \union {i}
         /\ threat' \in SUBSET Existing' /\ threat \subseteq threat'
         /\ severity' \in [Incident -> Severity \union {0}]
         /\ status' \in [Incident -> Status \union {"none"}]
         /\ RowsOK'
<1>5. Inserted
  BY <1>1, <1>3, <1>4, InsertRow
<1>6. threat' = threat \union {i}
  BY <1>4 DEF Insert
<1>7. owner' \in [Alert -> Existing' \union {None}]
  BY <1>1, <1>4, <1>5 DEF Assign, TablesTyped
<1>8. TablesTyped'
  BY <1>1, <1>2, <1>4, <1>5, <1>6, <1>7 DEF TablesTyped, PipeEnds
<1>9. PristineOK'
  BY <1>1, <1>4, <1>5, <1>6 DEF PristineOK, OnePerThreat, Matches, Active, TablesTyped
<1>10. \A j \in Incident : status[j] \in Status => Spares(j)
  <2> SUFFICES ASSUME NEW j \in Incident, status[j] \in Status PROVE Spares(j)
    OBVIOUS
  <2>1. j # i
    BY <1>5 DEF Status, Active, Final
  <2>2. QED
    BY <1>1, <1>5, <1>6, <2>1 DEF Spares, TablesTyped
<1>11. QED
  BY <1>2, <1>3, <1>5, <1>8, <1>9, <1>10, PipeEndsInd

(* A pipeline that fails changes no row.                                   *)
LEMMA PipeFailsInd ==
  ASSUME IncInd, NEW w \in Worker, PipeFails(w)
  PROVE  IncInd'
<1>1. TablesTyped /\ RowsOK /\ PristineOK
  BY TypeParts DEF IncInd
<1>2. TablesTyped' /\ RowsOK' /\ PristineOK'
  BY <1>1 DEF PipeFails, PipeEnds, TablesTyped, RowsOK, PristineOK, OnePerThreat, Matches,
     Existing, lifeVars
<1>3. \A i \in Incident : Spares(i)
  BY DEF PipeFails, Spares, lifeVars
<1>4. QED
  BY <1>2, <1>3, PipeEndsInd DEF PipeFails

(* The invariant is inductive.                                             *)
LEMMA IncNextInd == IncInd /\ [IncNext]_ivars => IncInd'
<1> SUFFICES ASSUME IncInd, [IncNext]_ivars PROVE IncInd'
  OBVIOUS
<1>1. CASE UNCHANGED ivars
  BY <1>1 DEF ivars, tables, lifeVars, IncInd, IncTypeOK, RowsOK, PristineOK, OnePerThreat,
     RequestOK, PipeOK, Existing, Locked, Matches
<1>2. CASE \E c \in Client : ClientStep(c)
  <2>1. PICK c \in Client : ClientStep(c)
    BY <1>2
  <2>2. QED
    BY <2>1, CreateIncidentInd, AskInd, AnswersInd, RefuseInd DEF ClientStep
<1>3. CASE \E w \in Worker : WorkerStep(w)
  <2>1. PICK w \in Worker : WorkerStep(w)
    BY <1>3
  <2>2. QED
    BY <2>1, LookInd, LockThreatInd, ChooseInd, JoinThreatInd, ReportThreatInd, PipeFailsInd
    DEF WorkerStep, Pipeline
<1>4. QED
  BY <1>1, <1>2, <1>3 DEF IncNext

-----------------------------------------------------------------------------
(* Theorems.                                                               *)

(* Incidents, requests and pipelines keep their types, and a row lock      *)
(* belongs to the transaction that works on the row.                       *)
THEOREM IncidentTypeCorrect == IncSpec => []IncTypeOK
<1>1. IncInd => IncTypeOK
  BY DEF IncInd
<1>2. QED
  BY IncInitInd, IncNextInd, <1>1, PTL DEF IncSpec, IncSafe

(* However many pipelines of the threat race, and whatever requests do     *)
(* meanwhile, at most one of the incidents they inserted is active and     *)
(* untouched (get_or_create_threat_incident).                              *)
THEOREM OnePerThreatTheorem == IncSpec => []OnePerThreat
<1>1. IncInd => OnePerThreat
  BY DEF IncInd, PristineOK
<1>2. QED
  BY IncInitInd, IncNextInd, <1>1, PTL DEF IncSpec, IncSafe

(* The commit of a pipeline that found an incident lands on an active      *)
(* incident of the threat, with a severity that covers the event.          *)
THEOREM LandsOnActiveTheorem == IncSpec => LandsOnActive
<1>1. IncInd /\ [IncNext]_ivars =>
        [\A w \in Worker :
           LET p == pipe[w] IN
           p # None /\ JoinThreat(w) =>
             /\ status'[p.found] \in Active /\ p.found \in threat'
             /\ severity'[p.found] >= p.severity]_ivars
  BY JoinThreatInd
<1>2. QED
  BY IncInitInd, IncNextInd, <1>1, PTL DEF IncSpec, IncSafe, LandsOnActive

(* Requests and pipelines, interleaved in any way, move incidents as       *)
(* IncidentLifeCycle allows (INCIDENT_STATUS_TRANSITIONS and closed_at).   *)
THEOREM IncidentLifeCycleTheorem == IncSpec => FollowsLifeCycle
<1>1. IncInit => CInit
  BY DEF IncInit
<1>2. ASSUME IncInd, NEW c \in Client, ClientStep(c)
      PROVE  CNext \/ UNCHANGED lifeVars
  <2>1. TablesTyped /\ LocksTyped /\ RowsOK /\ RequestOK(c)
    BY <1>2, TypeParts DEF IncInd
  <2>2. CASE CreateIncident(c)
    <3>1. PICK i \in Incident, s \in Severity, b \in BOOLEAN : Insert(i, s, b)
      BY <2>2 DEF CreateIncident
    <3>2. Report(i)
      BY <2>1, <3>1, InsertRow DEF Report
    <3>3. QED
      BY <3>2 DEF CNext
  <2>3. CASE Update(c)
    <3> DEFINE i == request[c].incident
    <3>1. i \in Incident /\ request[c].row # None /\ request[c] # None
      BY <2>1, <2>3 DEF Update, Locked, LocksTyped, Request
    <3>2. /\ request[c].row.status = status[i] /\ (request[c].row.closed <=> i \in closed)
          /\ status[i] \in Status
      BY <2>1, <3>1 DEF RequestOK
    <3>3. PICK to \in {status[i]} \union Allowed[status[i]] :
            /\ status' = [status EXCEPT ![i] = IF to # status[i] THEN to ELSE @]
            /\ closed' = CASE to # status[i] /\ to \in Final /\ ~request[c].row.closed -> closed \union {i}
                           [] to # status[i] /\ to \notin Final /\ status[i] \in Final -> closed \ {i}
                           [] OTHER -> closed
      BY <2>3, <3>2 DEF Update
    <3>4. CASE to = status[i]
      BY <2>1, <3>1, <3>3, <3>4 DEF lifeVars, TablesTyped
    <3>5. CASE to # status[i]
      <4>1. i \in closed <=> status[i] \in Final
        BY <2>1, <3>1 DEF RowsOK
      <4>2. closed' = IF to \in Final THEN closed \union {i} ELSE closed \ {i}
        BY <3>2, <3>3, <3>5, <4>1
      <4>3. to \in Allowed[status[i]] /\ status' = [status EXCEPT ![i] = to]
        BY <2>1, <3>1, <3>3, <3>5 DEF TablesTyped
      <4>4. Move(i)
        BY <3>2, <4>2, <4>3 DEF Move
      <4>5. QED
        BY <3>1, <4>4 DEF CNext
    <3>6. QED
      BY <3>4, <3>5
  <2>4. CASE \/ \E kind \in {"update", "attach", "detach"}, i \in Incident : Ask(c, kind, i)
             \/ LockForUpdate(c) \/ LockForAttach(c) \/ LockForDetach(c)
             \/ Attach(c) \/ Detach(c) \/ Refuse(c) \/ Fail(c)
    BY <2>4 DEF Ask, LockForUpdate, LockForAttach, LockForDetach, LockIncident, Attach, Detach,
       Refuse, Fail, tables
  <2>5. QED
    BY <1>2, <2>2, <2>3, <2>4 DEF ClientStep, Answers
<1>3. ASSUME IncInd, NEW w \in Worker, WorkerStep(w)
      PROVE  CNext \/ UNCHANGED lifeVars
  <2>1. TablesTyped /\ LocksTyped /\ RowsOK
    BY <1>3, TypeParts DEF IncInd
  <2>2. CASE ReportThreat(w)
    <3>1. PICK i \in Incident : Insert(i, pipe[w].severity, TRUE)
      BY <2>2 DEF ReportThreat
    <3>2. pipe[w].severity \in Severity
      BY <2>1, <2>2 DEF ReportThreat, LocksTyped, Pipe
    <3>3. Report(i)
      BY <2>1, <3>1, <3>2, InsertRow DEF Report
    <3>4. QED
      BY <3>3 DEF CNext
  <2>3. CASE \/ \E a \in Alert, s \in Severity : Look(w, a, s)
             \/ \E i \in Incident : LockThreat(w, i)
             \/ Choose(w) \/ JoinThreat(w) \/ PipeFails(w)
    BY <2>3 DEF Look, LockThreat, Choose, JoinThreat, PipeFails, tables
  <2>4. QED
    BY <1>3, <2>2, <2>3 DEF WorkerStep, Pipeline
<1>4. IncInd /\ [IncNext]_ivars => [CNext]_lifeVars
  BY <1>2, <1>3 DEF IncNext, ivars, tables
<1>5. QED
  BY IncInitInd, IncNextInd, <1>1, <1>4, PTL DEF IncSpec, IncSafe, FollowsLifeCycle, CSpec

=============================================================================
