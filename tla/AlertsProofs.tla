---------------------------- MODULE AlertsProofs ----------------------------
(***************************************************************************)
(* What TLAPS proves of Alerts, for every number of workers, analysts and  *)
(* alerts, every window and every limit: types, deduplication, that no     *)
(* event is lost from a count, that the stream ends with the row, and that *)
(* the alerts follow AlertLifeCycle.                                       *)
(***************************************************************************)
EXTENDS Alerts, TLAPS

(* What an event has locked still matches, what it has flushed is still    *)
(* due, and it holds the advisory lock until it has to retry.              *)
WriteOK(e) ==
  LET wr == e.write IN
  /\ wr \in Write
  /\ wr.cursor > shown[wr.alert].cursor /\ wr.cursor <= cursor
  /\ e.todo = {}
  /\ IF wr.isNew
     THEN /\ wr.status = "OPEN" /\ status[wr.alert] = "none" /\ wr.count = 1
          /\ ~e.retry /\ e.mine = {}
     ELSE /\ wr.alert \in e.mine
          /\ wr.status = status[wr.alert]
          /\ wr.severity >= severity[wr.alert]
          /\ wr.count = count[wr.alert] + 1

(* What an event under way holds and has flushed.                          *)
EventOK(w) ==
  event[w] # None =>
    /\ event[w].now <= clock
    /\ event[w].stage = "begun" => event[w].mine = {} /\ event[w].todo = {}
    /\ ~event[w].retry <=> advisory = w
    /\ \A a \in event[w].mine : rowLock[a] = w /\ Matches(a, event[w].now)
    /\ event[w].stage = "flushed" => WriteOK(event[w])

(* The same for a request.                                                 *)
TriageOK(u) ==
  LET r == triage[u] IN
  r # None =>
    /\ status[r.alert] \in Status
    /\ r.stage # "begun" => rowLock[r.alert] = u /\ r.to \in Allowed[status[r.alert]]
    /\ r.stage = "flushed" =>
         /\ r.write \in Write
         /\ r.write.alert = r.alert /\ r.write.status = r.to
         /\ r.write.severity = severity[r.alert]
         /\ r.write.cursor > shown[r.alert].cursor /\ r.write.cursor <= cursor

(* Active alerts within the discipline are more than a window apart, and   *)
(* an event that holds the advisory lock knows of all that are not past.   *)
Apart ==
  \A a, b \in Alert \ outside :
    a # b /\ status[a] \in Active /\ status[b] \in Active =>
      lastSeen[a] + Window < lastSeen[b] \/ lastSeen[b] + Window < lastSeen[a]

(* What the owner of the advisory lock knows after its query.              *)
DedupOK(w) ==
  event[w] # None /\ ~event[w].retry =>
    /\ \A a \in Alert \ outside : lastSeen[a] <= event[w].now
    /\ event[w].stage # "begun" =>
         \A a \in Alert \ outside :
           status[a] \in Active =>
             \/ a \in event[w].todo \union event[w].mine
             \/ lastSeen[a] + Window < event[w].now

(* What holds of the committed rows.                                       *)
RowsOK ==
  /\ \A a \in Alert : status[a] = "none" => count[a] = 0
  /\ \A a \in Alert : status[a] # "none" => severity[a] \in Severity
  /\ \A a \in Alert : shown[a].cursor <= cursor
  /\ CountsEveryEvent
  /\ StreamAgrees

(* The inductive invariant.                                                *)
AInd ==
  /\ ATypeOK
  /\ RowsOK
  /\ Apart
  /\ \A w \in Worker : EventOK(w) /\ DedupOK(w)
  /\ \A u \in Analyst : TriageOK(u)

-----------------------------------------------------------------------------

(* No alert, no transaction.                                               *)
LEMMA AInitInd == AInit => AInd
<1> SUFFICES ASSUME AInit PROVE AInd
  OBVIOUS
<1> USE AlertsAssumption, NoneAssumption DEF AInit, LInit
<1>1. ATypeOK
  <2>1. 0 \in Severity \union {0} /\ "none" \in Status \union {"none"} /\ 0 \in 0 .. 0
    OBVIOUS
  <2>2. shown \in [Alert -> Entry]
    BY DEF Entry
  <2>3. lastSeen \in [Alert -> 0 .. clock]
    BY <2>1
  <2>4. event \in [Worker -> Event \union {None}] /\ triage \in [Analyst -> Request \union {None}]
    OBVIOUS
  <2>5. rowLock \in [Alert -> OpenTx \union {None}]
    OBVIOUS
  <2>6. QED
    BY <2>1, <2>2, <2>3, <2>4, <2>5 DEF ATypeOK
<1>2. RowsOK /\ Apart
  BY DEF RowsOK, CountsEveryEvent, StreamAgrees, Apart, Active
<1>3. \A w \in Worker : EventOK(w) /\ DedupOK(w)
  BY DEF EventOK, DedupOK
<1>4. \A u \in Analyst : TriageOK(u)
  BY DEF TriageOK
<1>5. QED
  BY <1>1, <1>2, <1>3, <1>4 DEF AInd

(* Another transaction's locked or fresh rows are left alone.              *)
Same(a) == UNCHANGED <<status[a], severity[a], count[a], lastSeen[a], shown[a]>>

(* A transaction that takes no part in a step keeps its part of the        *)
(* invariant, if the step spares its rows and its locks.                   *)
LEMMA EventFrame ==
  ASSUME NEW v \in Worker, ATypeOK, ATypeOK', EventOK(v),
         event'[v] = event[v], cursor <= cursor', clock <= clock',
         advisory' = v <=> advisory = v,
         event[v] # None => \A a \in event[v].mine : rowLock'[a] = rowLock[a] /\ Same(a),
         event[v] # None /\ event[v].stage = "flushed" => Same(event[v].write.alert)
  PROVE  EventOK(v)'
<1> SUFFICES ASSUME event[v] # None PROVE EventOK(v)'
  BY DEF EventOK
<1>1. event[v] \in Event
  BY DEF ATypeOK
<1>2. event[v].now <= clock'
  BY <1>1 DEF EventOK, ATypeOK, Event
<1>3. \A a \in event[v].mine : rowLock'[a] = v /\ Matches(a, event[v].now)'
  BY <1>1 DEF EventOK, Matches, Same
<1>4. event[v].stage = "flushed" => WriteOK(event[v])'
  <2> SUFFICES ASSUME event[v].stage = "flushed" PROVE WriteOK(event[v])'
    OBVIOUS
  <2>1. WriteOK(event[v]) /\ Same(event[v].write.alert)
    BY DEF EventOK
  <2>2. event[v].write.cursor <= cursor'
    BY <2>1 DEF WriteOK, Write, ATypeOK
  <2>3. QED
    BY <2>1, <2>2 DEF WriteOK, Same
<1>5. QED
  BY <1>2, <1>3, <1>4 DEF EventOK

(* The same for a request of an analyst.                                   *)
LEMMA TriageFrame ==
  ASSUME NEW u \in Analyst, ATypeOK, ATypeOK', TriageOK(u),
         triage'[u] = triage[u], cursor <= cursor',
         triage[u] # None =>
           IF triage[u].stage = "begun"
           THEN status[triage[u].alert] \in Status => status'[triage[u].alert] \in Status
           ELSE Same(triage[u].alert) /\ rowLock'[triage[u].alert] = rowLock[triage[u].alert]
  PROVE  TriageOK(u)'
<1> SUFFICES ASSUME triage[u] # None PROVE TriageOK(u)'
  BY DEF TriageOK
<1> DEFINE r == triage[u]
<1>1. r \in Request
  BY DEF ATypeOK
<1>2. CASE r.stage = "begun"
  BY <1>2 DEF TriageOK
<1>3. CASE r.stage # "begun"
  <2>1. Same(r.alert) /\ rowLock'[r.alert] = rowLock[r.alert]
    BY <1>3
  <2>2. r.stage = "flushed" => r.write.cursor <= cursor'
    BY <1>1 DEF TriageOK, Write, ATypeOK
  <2>3. QED
    BY <1>3, <2>1, <2>2 DEF TriageOK, Same
<1>4. QED
  BY <1>2, <1>3

(* The same for what an event knows of the active alerts.                  *)
LEMMA DedupFrame ==
  ASSUME NEW v \in Worker, ATypeOK, ATypeOK', DedupOK(v), event'[v] = event[v],
         outside \subseteq outside',
         event[v] # None /\ ~event[v].retry =>
           \A a \in Alert \ outside' :
             /\ lastSeen'[a] = lastSeen[a]
             /\ status'[a] \in Active => status[a] \in Active
  PROVE  DedupOK(v)'
  BY DEF DedupOK

(* A worker goes on with its event, or is done with it.                    *)
LEMMA EventMoves ==
  ASSUME ATypeOK, NEW w \in Worker, NEW x \in Event \union {None},
         event' = [event EXCEPT ![w] = x]
  PROVE  /\ event' \in [Worker -> Event \union {None}]
         /\ event'[w] = x
         /\ \A v \in Worker \ {w} : event'[v] = event[v]
  BY DEF ATypeOK

(* Steps of an event that leave the tables alone keep the invariant if its *)
(* own part is in order afterwards, and the locks belong to open           *)
(* transactions.                                                           *)
LEMMA QuietEvent ==
  ASSUME AInd, NEW w \in Worker, NEW x \in Event \union {None},
         event' = [event EXCEPT ![w] = x],
         UNCHANGED <<tables, triage, clock, requests>>,
         cursor' \in Nat, cursor <= cursor', events' \in 0 .. MaxEvents,
         advisory' \in Worker \union {None},
         \A v \in Worker \ {w} : event[v] # None => (advisory' = v <=> advisory = v),
         rowLock' \in [Alert -> OpenTx \union {w, None}],
         \A a \in Alert : rowLock'[a] = rowLock[a]
                           \/ (rowLock[a] = w /\ rowLock'[a] = None)
                           \/ (rowLock[a] = None /\ rowLock'[a] = w),
         x # None \/ \A a \in Alert : rowLock'[a] # w,
         EventOK(w)' /\ DedupOK(w)'
  PROVE  AInd'
<1> USE AlertsAssumption, NoneAssumption
<1>1. /\ event' \in [Worker -> Event \union {None}]
      /\ event'[w] = x
      /\ \A v \in Worker \ {w} : event'[v] = event[v]
  BY EventMoves DEF AInd
<1>2. ATypeOK'
  <2>1. \A a \in Alert : rowLock'[a] \in OpenTx' \union {None}
    <3> SUFFICES ASSUME NEW a \in Alert, rowLock'[a] # None PROVE rowLock'[a] \in OpenTx'
      OBVIOUS
    <3>1. CASE rowLock'[a] = w
      BY <1>1, <3>1 DEF OpenTx
    <3>2. CASE rowLock'[a] # w
      BY <1>1, <3>2 DEF OpenTx
    <3>3. QED
      BY <3>1, <3>2
  <2>2. QED
    BY <1>1, <2>1 DEF AInd, ATypeOK, tables, lifeVars
<1>3. \A a \in Alert : Same(a)
  BY DEF Same, tables, lifeVars
<1>4. RowsOK' /\ Apart'
  <2>1. \A a \in Alert : shown[a].cursor \in Nat
    BY DEF AInd, ATypeOK, Entry
  <2>2. QED
    BY <2>1 DEF AInd, ATypeOK, RowsOK, CountsEveryEvent, StreamAgrees, Apart, tables, lifeVars
<1>5. ASSUME NEW v \in Worker, v # w PROVE EventOK(v)' /\ DedupOK(v)'
  <2>1. event'[v] = event[v]
    BY <1>1, <1>5
  <2>2. CASE event[v] = None
    BY <2>1, <2>2 DEF EventOK, DedupOK
  <2>3. CASE event[v] # None
    <3>1. event[v] \in Event /\ (advisory' = v <=> advisory = v)
      BY <1>5, <2>3 DEF AInd, ATypeOK
    <3>2. \A a \in event[v].mine : rowLock'[a] = rowLock[a] /\ Same(a)
      <4> SUFFICES ASSUME NEW a \in event[v].mine PROVE rowLock'[a] = rowLock[a] /\ Same(a)
        OBVIOUS
      <4>1. a \in Alert /\ rowLock[a] = v /\ v # None
        BY <2>3, <3>1 DEF AInd, EventOK, Event
      <4>2. QED
        BY <1>3, <1>5, <4>1
    <3>3. event[v].stage = "flushed" => Same(event[v].write.alert)
      BY <1>3, <2>3, <3>1 DEF AInd, EventOK, WriteOK, Write
    <3>4. EventOK(v)'
      BY <1>2, <2>1, <3>1, <3>2, <3>3, EventFrame DEF AInd, ATypeOK
    <3>5. DedupOK(v)'
      BY <1>2, <2>1, DedupFrame DEF AInd, tables, lifeVars
    <3>6. QED
      BY <3>4, <3>5
  <2>4. QED
    BY <2>2, <2>3
<1>6. ASSUME NEW u \in Analyst PROVE TriageOK(u)'
  <2>1. triage'[u] = triage[u] /\ (triage[u] # None => triage[u] \in Request)
    BY DEF AInd, ATypeOK
  <2>2. triage[u] # None /\ triage[u].stage # "begun" => rowLock'[triage[u].alert] = rowLock[triage[u].alert]
    BY <2>1 DEF AInd, TriageOK, Request
  <2>3. triage[u] # None => Same(triage[u].alert)
    BY <1>3, <2>1 DEF Request
  <2>4. QED
    BY <1>2, <2>1, <2>2, <2>3, TriageFrame DEF AInd, ATypeOK, Same
<1>7. QED
  BY <1>2, <1>4, <1>5, <1>6 DEF AInd

-----------------------------------------------------------------------------
(* process_event up to its commit, and an event that is given up.          *)

(* Nobody else holds the advisory lock, so every row in the discipline was *)
(* last seen by now.                                                       *)
LEMMA BeginEventInd ==
  ASSUME AInd, NEW w \in Worker, NEW s \in Severity, BeginEvent(w, s) PROVE AInd'
<1> USE AlertsAssumption, NoneAssumption
<1> DEFINE x == [stage |-> "begun", severity |-> s, now |-> clock, retry |-> FALSE,
                 todo |-> {}, mine |-> {}, write |-> None]
<1>1. /\ event[w] = None /\ events < MaxEvents /\ advisory = None /\ advisory' = w
      /\ event' = [event EXCEPT ![w] = x] /\ events' = events + 1
      /\ UNCHANGED <<tables, cursor, rowLock, triage, clock, requests>>
  BY DEF BeginEvent, Serialised
<1>2. x \in Event
  BY DEF Event, AInd, ATypeOK
<1> HIDE DEF x
<1>3. event'[w] = x
  BY <1>1, <1>2, EventMoves DEF AInd
<1>4. EventOK(w)' /\ DedupOK(w)'
  <2>1. \A a \in Alert : lastSeen[a] <= clock
    BY DEF AInd, ATypeOK
  <2>2. QED
    BY <1>1, <1>3, <2>1 DEF x, EventOK, DedupOK, AInd, ATypeOK, tables
<1>5. \A v \in Worker \ {w} : event[v] # None => (advisory' = v <=> advisory = v)
  BY <1>1
<1>6. events' \in 0 .. MaxEvents /\ cursor' \in Nat /\ cursor <= cursor'
  BY <1>1 DEF AInd, ATypeOK
<1>7. /\ rowLock' \in [Alert -> OpenTx \union {w, None}]
      /\ \A a \in Alert : rowLock'[a] = rowLock[a]
      /\ advisory' \in Worker \union {None}
  BY <1>1 DEF AInd, ATypeOK
<1>8. x # None /\ x \in Event \union {None}
  BY <1>2
<1>9. UNCHANGED <<tables, triage, clock, requests>> /\ event' = [event EXCEPT ![w] = x]
  BY <1>1
<1>10. QED
  BY <1>4, <1>5, <1>6, <1>7, <1>8, <1>9, QuietEvent


(* Its query finds every active alert seen within the window.              *)
LEMMA FindCandidatesInd == ASSUME AInd, NEW w \in Worker, FindCandidates(w) PROVE AInd'
<1> USE AlertsAssumption, NoneAssumption
<1> DEFINE e == event[w]
           C == {a \in Alert : Matches(a, e.now)}
           x == [e EXCEPT !.stage = "locking", !.todo = C]
<1>1. /\ e # None /\ e.stage = "begun"
      /\ event' = [event EXCEPT ![w] = x]
      /\ UNCHANGED <<tables, cursor, rowLock, advisory, triage, clock, bounds>>
  BY DEF FindCandidates
<1>2. e \in Event /\ EventOK(w) /\ DedupOK(w)
  BY <1>1 DEF AInd, ATypeOK
<1> HIDE DEF C
<1>3. C \subseteq Alert
  BY DEF C
<1>4. /\ x \in Event /\ x.now = e.now /\ x.retry = e.retry /\ x.mine = e.mine
      /\ x.todo = C /\ x.stage = "locking"
  BY <1>2, <1>3 DEF Event
<1> HIDE DEF x
<1>5. event'[w] = x /\ x # None
  BY <1>1, <1>4, EventMoves DEF AInd
<1>6. EventOK(w)'
  BY <1>1, <1>2, <1>4, <1>5 DEF EventOK
<1>7. DedupOK(w)'
  <2>1. \A a \in Alert : status[a] \in Active => a \in C \/ lastSeen[a] + Window < e.now
    BY <1>2 DEF C, Matches, AInd, ATypeOK, Event
  <2>2. QED
    BY <1>1, <1>2, <1>4, <1>5, <2>1 DEF DedupOK, tables, lifeVars
<1>8. /\ rowLock' \in [Alert -> OpenTx \union {w, None}]
      /\ advisory' \in Worker \union {None}
      /\ cursor' \in Nat /\ cursor <= cursor' /\ events' \in 0 .. MaxEvents
  BY <1>1 DEF AInd, ATypeOK, bounds
<1>9. /\ UNCHANGED <<tables, triage, clock, requests>>
      /\ \A a \in Alert : rowLock'[a] = rowLock[a]
  BY <1>1 DEF bounds
<1>10. QED
  BY <1>1, <1>4, <1>5, <1>6, <1>7, <1>8, <1>9, QuietEvent

(* A row that is locked matches; one that does not is past or closed.      *)
LEMMA LockCandidateInd ==
  ASSUME AInd, NEW w \in Worker, NEW b \in Alert, LockCandidate(w, b) PROVE AInd'
<1> USE AlertsAssumption, NoneAssumption
<1> DEFINE e == event[w]
           M == IF Matches(b, e.now) THEN e.mine \union {b} ELSE e.mine
           x == [e EXCEPT !.todo = @ \ {b}, !.mine = M]
<1>1. /\ e # None /\ e.stage = "locking" /\ rowLock[b] \in {None, w} /\ b \in e.todo
      /\ rowLock' = [rowLock EXCEPT ![b] = w]
      /\ event' = [event EXCEPT ![w] = x]
      /\ UNCHANGED <<tables, cursor, advisory, triage, clock, bounds>>
  BY DEF LockCandidate, Lockable, StillMatches
<1>2. e \in Event /\ EventOK(w) /\ DedupOK(w)
  BY <1>1 DEF AInd, ATypeOK
<1> HIDE DEF M
<1>3. M \subseteq Alert /\ e.mine \subseteq M /\ M \subseteq e.mine \union {b}
  BY <1>2 DEF M, Event
<1>4. /\ x \in Event /\ x.now = e.now /\ x.retry = e.retry /\ x.mine = M
      /\ x.todo = e.todo \ {b} /\ x.stage = "locking"
  BY <1>1, <1>2, <1>3 DEF Event
<1> HIDE DEF x
<1>5. event'[w] = x /\ x # None
  BY <1>1, <1>4, EventMoves DEF AInd
<1>6. /\ rowLock' \in [Alert -> OpenTx \union {w, None}]
      /\ \A a \in Alert : rowLock'[a] = IF a = b THEN w ELSE rowLock[a]
  BY <1>1 DEF AInd, ATypeOK
<1>7. \A a \in M : rowLock'[a] = w /\ Matches(a, e.now)
  BY <1>2, <1>1, <1>3, <1>6 DEF EventOK, M
<1>8. EventOK(w)'
  BY <1>1, <1>2, <1>4, <1>5, <1>7 DEF EventOK, Matches, tables, lifeVars
<1>9. DedupOK(w)'
  <2>1. b \notin M => ~Matches(b, e.now)
    BY DEF M
  <2>2. \A a \in Alert \ outside : ~e.retry /\ status[a] \in Active =>
          a \in x.todo \union x.mine \/ lastSeen[a] + Window < e.now
    BY <1>1, <1>2, <1>3, <1>4, <2>1 DEF DedupOK, Matches, AInd, ATypeOK, Event
  <2>3. QED
    BY <1>1, <1>2, <1>4, <1>5, <2>2 DEF DedupOK, tables, lifeVars
<1>10. /\ advisory' \in Worker \union {None}
       /\ cursor' \in Nat /\ cursor <= cursor' /\ events' \in 0 .. MaxEvents
       /\ UNCHANGED <<tables, triage, clock, requests>>
  BY <1>1 DEF AInd, ATypeOK, bounds
<1>11. /\ \A a \in Alert : rowLock'[a] = rowLock[a] \/ (rowLock[a] = None /\ rowLock'[a] = w)
       /\ \A v \in Worker \ {w} : event[v] # None => (advisory' = v <=> advisory = v)
  BY <1>1, <1>6
<1>12. QED
  BY <1>1, <1>4, <1>5, <1>6, <1>8, <1>9, <1>10, <1>11, QuietEvent

(* What is flushed fits the row, which is locked, or new.                  *)
LEMMA FlushInd ==
  ASSUME AInd, NEW w \in Worker, NEW b \in Alert, AddToAlert(w, b) \/ NewAlert(w, b) PROVE AInd'
<1> USE AlertsAssumption, NoneAssumption
<1>0. PICK e : e = event[w]
  OBVIOUS
<1>1. PICK wr :
        /\ Flush(w, wr)
        /\ \/ /\ b \in e.mine
              /\ wr = [alert |-> b, isNew |-> FALSE, status |-> status[b],
                       severity |-> Higher(severity[b], e.severity),
                       count |-> count[b] + 1, cursor |-> cursor + 1]
           \/ /\ e.mine = {} /\ ~e.retry /\ status[b] = "none"
              /\ wr = [alert |-> b, isNew |-> TRUE, status |-> "OPEN",
                       severity |-> e.severity, count |-> 1, cursor |-> cursor + 1]
  BY <1>0 DEF AddToAlert, NewAlert, Fresh
<1>x. PICK x : x = [e EXCEPT !.stage = "flushed", !.write = wr]
  OBVIOUS
<1>2. /\ e # None /\ e.stage = "locking" /\ e.todo = {}
      /\ event' = [event EXCEPT ![w] = x]
      /\ cursor' = cursor + 1
      /\ UNCHANGED <<tables, rowLock, advisory, triage, clock, bounds>>
  BY <1>0, <1>x, <1>1 DEF Flush, AddToAlert, NewAlert
<1>3. e \in Event /\ EventOK(w) /\ DedupOK(w) /\ cursor \in Nat
  BY <1>0, <1>2 DEF AInd, ATypeOK
<1>4. wr \in Write
  <2>1. CASE b \in e.mine
    <3>1. status[b] \in Active
      BY <1>0, <1>2, <1>3, <2>1 DEF EventOK, Matches
    <3>2. severity[b] \in Severity /\ count[b] \in Nat
      BY <3>1 DEF AInd, ATypeOK, RowsOK, Active
    <3>3. Higher(severity[b], e.severity) \in Severity
      BY <1>3, <3>2 DEF Higher, Event
    <3>4. wr = [alert |-> b, isNew |-> FALSE, status |-> status[b],
                severity |-> Higher(severity[b], e.severity),
                count |-> count[b] + 1, cursor |-> cursor + 1]
      BY <1>1, <2>1
    <3>5. status[b] \in Status /\ count[b] + 1 \in Nat /\ cursor + 1 \in Nat
      BY <1>3, <3>1, <3>2 DEF Status
    <3>6. QED
      BY <3>3, <3>4, <3>5 DEF Write
  <2>2. CASE b \notin e.mine
    <3>1. "OPEN" \in Status /\ e.severity \in Severity /\ cursor + 1 \in Nat
      BY <1>3 DEF Status, Active, Event
    <3>2. wr = [alert |-> b, isNew |-> TRUE, status |-> "OPEN",
                severity |-> e.severity, count |-> 1, cursor |-> cursor + 1]
      BY <1>1, <2>2
    <3>3. QED
      BY <3>1, <3>2 DEF Write
  <2>3. QED
    BY <2>1, <2>2
<1>5. /\ x \in Event /\ x.now = e.now /\ x.retry = e.retry /\ x.mine = e.mine
      /\ x.todo = e.todo /\ x.stage = "flushed" /\ x.write = wr
  BY <1>x, <1>3, <1>4 DEF Event
<1>6. event'[w] = x /\ x # None
  BY <1>2, <1>5, EventMoves DEF AInd
<1>7. WriteOK(x)'
  <2>1. shown[b].cursor < cursor + 1 /\ cursor + 1 <= cursor' /\ shown[b].cursor \in Nat
    BY <1>2, <1>3 DEF AInd, ATypeOK, RowsOK, Entry
  <2>2. b \in e.mine => Higher(severity[b], e.severity) >= severity[b]
    <3>1. b \in e.mine => severity[b] \in Nat
      BY <1>0, <1>2, <1>3 DEF EventOK, Matches, AInd, RowsOK, Active
    <3>2. QED
      BY <1>3, <3>1 DEF Higher, Event
  <2>3. /\ wr.alert = b /\ wr.cursor = cursor + 1
        /\ wr.isNew => /\ wr.status = "OPEN" /\ wr.count = 1 /\ status[b] = "none"
                       /\ e.mine = {} /\ ~e.retry
        /\ ~wr.isNew => /\ b \in e.mine /\ wr.status = status[b]
                        /\ wr.severity = Higher(severity[b], e.severity)
                        /\ wr.count = count[b] + 1
    BY <1>1
  <2>4. UNCHANGED <<status, severity, count, shown>>
    BY <1>2 DEF tables, lifeVars
  <2>5. QED
    BY <1>2, <1>3, <1>4, <1>5, <2>1, <2>2, <2>3, <2>4 DEF WriteOK
<1>8. EventOK(w)'
  <2>1. \A a \in e.mine : rowLock[a] = w /\ Matches(a, e.now)'
    BY <1>0, <1>2, <1>3 DEF EventOK, Matches, tables, lifeVars
  <2>2. UNCHANGED <<rowLock, clock, advisory>> /\ e.now <= clock /\ (~e.retry <=> advisory = w)
    BY <1>0, <1>2, <1>3 DEF EventOK
  <2>3. QED
    BY <1>5, <1>6, <1>7, <2>1, <2>2 DEF EventOK
<1>9. DedupOK(w)'
  BY <1>0, <1>2, <1>3, <1>5, <1>6 DEF DedupOK, tables, lifeVars
<1>10. /\ rowLock' \in [Alert -> OpenTx \union {w, None}]
       /\ \A a \in Alert : rowLock'[a] = rowLock[a]
       /\ advisory' \in Worker \union {None}
       /\ cursor' \in Nat /\ cursor <= cursor' /\ events' \in 0 .. MaxEvents
       /\ UNCHANGED <<tables, triage, clock, requests>>
  BY <1>2, <1>3 DEF AInd, ATypeOK, bounds
<1>11. QED
  BY <1>2, <1>5, <1>6, <1>8, <1>9, <1>10, QuietEvent

(* A transaction that ends gives its row locks back, and only those.       *)
LEMMA RowsReleased ==
  ASSUME AInd, NEW t \in Worker \union Analyst, rowLock' = WithoutLocks(t)
  PROVE  /\ rowLock' \in [Alert -> OpenTx \union {None}]
         /\ \A a \in Alert : rowLock'[a] = IF rowLock[a] = t THEN None ELSE rowLock[a]
         /\ \A a \in Alert : rowLock'[a] # t
  BY NoneAssumption DEF WithoutLocks, AInd, ATypeOK

(* An event that is given up changes no row.                               *)
LEMMA EventFailsInd == ASSUME AInd, NEW w \in Worker, EventFails(w) PROVE AInd'
<1> USE AlertsAssumption, NoneAssumption
<1>1. /\ event' = [event EXCEPT ![w] = None] /\ rowLock' = WithoutLocks(w)
      /\ advisory' = (IF advisory = w THEN None ELSE advisory)
      /\ UNCHANGED <<tables, cursor, triage, clock, bounds>>
  BY DEF EventFails, Release
<1>2. event'[w] = None
  BY <1>1, EventMoves DEF AInd
<1>3. EventOK(w)' /\ DedupOK(w)'
  BY <1>2 DEF EventOK, DedupOK
<1>4. /\ rowLock' \in [Alert -> OpenTx \union {w, None}]
      /\ \A a \in Alert : rowLock'[a] = rowLock[a] \/ (rowLock[a] = w /\ rowLock'[a] = None)
      /\ \A a \in Alert : rowLock'[a] # w
  BY <1>1, RowsReleased
<1>5. /\ advisory' \in Worker \union {None}
      /\ \A v \in Worker \ {w} : advisory' = v <=> advisory = v
      /\ cursor' \in Nat /\ cursor <= cursor' /\ events' \in 0 .. MaxEvents
      /\ UNCHANGED <<tables, triage, clock, requests>>
  BY <1>1 DEF AInd, ATypeOK, bounds
<1>6. QED
  BY <1>1, <1>3, <1>4, <1>5, QuietEvent


-----------------------------------------------------------------------------
(* The commit of an event.                                                 *)

(* It changes the row of one alert, to what was flushed.                   *)
LEMMA PersistRow ==
  ASSUME AInd, NEW w \in Worker, event[w] # None, event[w].stage = "flushed", Persist(w),
         NEW wr, wr = event[w].write
  PROVE  /\ wr \in Write /\ event[w] \in Event /\ WriteOK(event[w])
         /\ \A a \in Alert \ {wr.alert} : Same(a) /\ commits'[a] = commits[a]
         /\ status'[wr.alert] = wr.status /\ severity'[wr.alert] = wr.severity
         /\ count'[wr.alert] = wr.count /\ lastSeen'[wr.alert] = event[w].now
         /\ commits'[wr.alert] = commits[wr.alert] + 1
         /\ shown'[wr.alert] = [cursor |-> wr.cursor, status |-> wr.status, severity |-> wr.severity]
         /\ status' \in [Alert -> Status \union {"none"}]
         /\ severity' \in [Alert -> Severity \union {0}]
         /\ count' \in [Alert -> Nat] /\ commits' \in [Alert -> Nat]
         /\ lastSeen' \in [Alert -> 0 .. clock]
         /\ shown' \in [Alert -> Entry]
<1> USE AlertsAssumption, NoneAssumption
<1>1. event[w] \in Event /\ WriteOK(event[w]) /\ event[w].now <= clock
  BY DEF AInd, ATypeOK, EventOK
<1>2. wr \in Write /\ wr.cursor > shown[wr.alert].cursor
  BY <1>1 DEF WriteOK
<1>3. /\ wr.alert \in Alert /\ wr.status \in Status /\ wr.severity \in Severity
      /\ wr.count \in Nat /\ wr.cursor \in Nat /\ event[w].now \in 0 .. clock
  BY <1>1, <1>2 DEF Write, Event, AInd, ATypeOK
<1> DEFINE n == [cursor |-> wr.cursor, status |-> wr.status, severity |-> wr.severity]
<1>4. n \in Entry
  BY <1>3 DEF Entry
<1>5. /\ status' = IF wr.isNew THEN [status EXCEPT ![wr.alert] = wr.status] ELSE status
      /\ severity' = [severity EXCEPT ![wr.alert] = wr.severity]
      /\ count' = [count EXCEPT ![wr.alert] = wr.count]
      /\ lastSeen' = [lastSeen EXCEPT ![wr.alert] = event[w].now]
      /\ commits' = [commits EXCEPT ![wr.alert] = @ + 1]
      /\ shown' = [shown EXCEPT ![wr.alert] = n]
  BY <1>2 DEF Persist, Publish
<1>6. ~wr.isNew => status[wr.alert] = wr.status
  BY <1>1 DEF WriteOK
<1> HIDE DEF n
<1>7. /\ status \in [Alert -> Status \union {"none"}]
      /\ severity \in [Alert -> Severity \union {0}]
      /\ count \in [Alert -> Nat] /\ commits \in [Alert -> Nat]
      /\ lastSeen \in [Alert -> 0 .. clock]
      /\ shown \in [Alert -> Entry]
  BY DEF AInd, ATypeOK
<1>8. /\ status' \in [Alert -> Status \union {"none"}]
      /\ severity' \in [Alert -> Severity \union {0}]
      /\ count' \in [Alert -> Nat] /\ commits' \in [Alert -> Nat]
      /\ lastSeen' \in [Alert -> 0 .. clock]
      /\ shown' \in [Alert -> Entry]
  BY <1>3, <1>4, <1>5, <1>7
<1>9. \A a \in Alert \ {wr.alert} : Same(a) /\ commits'[a] = commits[a]
  BY <1>5, <1>7 DEF Same
<1>10. /\ status'[wr.alert] = wr.status /\ severity'[wr.alert] = wr.severity
       /\ count'[wr.alert] = wr.count /\ lastSeen'[wr.alert] = event[w].now
       /\ commits'[wr.alert] = commits[wr.alert] + 1
       /\ shown'[wr.alert] = n
  BY <1>3, <1>5, <1>6, <1>7
<1>11. QED
  BY <1>1, <1>2, <1>8, <1>9, <1>10 DEF n


(* After it the event is over, or starts again without the advisory lock.  *)
LEMMA PersistInd ==
  ASSUME AInd, NEW w \in Worker, event[w] # None, event[w].stage = "flushed", Persist(w),
         Release(w),
         NEW y \in Event \union {None}, event' = [event EXCEPT ![w] = y],
         y = None \/ (y.retry /\ y.stage = "begun" /\ y.mine = {} /\ y.todo = {}
                      /\ y.now = event[w].now)
  PROVE  AInd'
<1> USE AlertsAssumption, NoneAssumption
<1>1. PICK wr, e : wr = event[w].write /\ e = event[w]
  OBVIOUS
<1>2. PICK x : x = wr.alert
  OBVIOUS
<1>3. /\ wr \in Write /\ e \in Event /\ x \in Alert /\ WriteOK(e)
      /\ \A a \in Alert \ {x} : Same(a) /\ commits'[a] = commits[a]
      /\ status'[x] = wr.status /\ severity'[x] = wr.severity
      /\ count'[x] = wr.count /\ lastSeen'[x] = e.now
      /\ commits'[x] = commits[x] + 1
      /\ shown'[x] = [cursor |-> wr.cursor, status |-> wr.status, severity |-> wr.severity]
  BY <1>1, <1>2, PersistRow DEF Write
<1>4. /\ EventOK(w) /\ DedupOK(w)
      /\ e.todo = {} /\ e.now <= clock
      /\ \A a \in e.mine : rowLock[a] = w /\ Matches(a, e.now)
      /\ ~e.retry <=> advisory = w
      /\ wr.cursor <= cursor
  <2>1. EventOK(w) /\ DedupOK(w)
    BY DEF AInd
  <2>2. e.todo = {} /\ wr.cursor <= cursor
    BY <1>1, <1>3 DEF WriteOK
  <2>3. QED
    BY <1>1, <2>1, <2>2 DEF EventOK
<1>5. \/ /\ wr.isNew /\ status[x] = "none" /\ wr.count = 1 /\ ~e.retry /\ e.mine = {}
      \/ /\ ~wr.isNew /\ x \in e.mine /\ wr.count = count[x] + 1 /\ status[x] \in Active
         /\ rowLock[x] = w
  BY <1>1, <1>2, <1>3, <1>4 DEF WriteOK, Matches
<1>6. outside' = IF e.retry THEN outside \union {x} ELSE outside
  BY <1>1, <1>2 DEF Persist
<1>7. /\ event' \in [Worker -> Event \union {None}]
      /\ event'[w] = y
      /\ \A v \in Worker \ {w} : event'[v] = event[v]
  BY EventMoves DEF AInd
<1>8. /\ \A a \in Alert : rowLock'[a] = IF rowLock[a] = w THEN None ELSE rowLock[a]
      /\ advisory' = IF advisory = w THEN None ELSE advisory
      /\ UNCHANGED <<cursor, triage, clock, events, requests>>
  BY RowsReleased DEF Release, bounds
<1>9. ATypeOK'
  <2>1. rowLock' \in [Alert -> OpenTx \union {None}] /\ \A a \in Alert : rowLock'[a] # w
    BY RowsReleased DEF Release
  <2>2. \A t \in OpenTx : t # w => t \in OpenTx'
    BY <1>7, <1>8 DEF OpenTx
  <2>3. rowLock' \in [Alert -> OpenTx' \union {None}]
    BY <2>1, <2>2
  <2>4. /\ status' \in [Alert -> Status \union {"none"}]
        /\ severity' \in [Alert -> Severity \union {0}]
        /\ count' \in [Alert -> Nat] /\ commits' \in [Alert -> Nat]
        /\ lastSeen' \in [Alert -> 0 .. clock]
        /\ shown' \in [Alert -> Entry]
    BY <1>1, PersistRow
  <2>5. advisory' \in Worker \union {None} /\ outside' \subseteq Alert
    BY <1>3, <1>6, <1>8 DEF AInd, ATypeOK
  <2>6. QED
    BY <1>7, <1>8, <2>3, <2>4, <2>5 DEF AInd, ATypeOK
<1>10. RowsOK'
  <2>1. ASSUME NEW a \in Alert
        PROVE  /\ status'[a] = "none" => count'[a] = 0
               /\ status'[a] # "none" => severity'[a] \in Severity
               /\ shown'[a].cursor <= cursor
               /\ count'[a] = commits'[a]
               /\ shown'[a].status = status'[a] /\ shown'[a].severity = severity'[a]
    <3>1. CASE a = x
      <4>1. count[x] = commits[x] /\ count[x] \in Nat /\ (status[x] = "none" => count[x] = 0)
        BY <1>3 DEF AInd, ATypeOK, RowsOK, CountsEveryEvent
      <4>2. wr.status # "none" /\ wr.severity \in Severity
        BY <1>3 DEF Write, Status, Active
      <4>3. QED
        BY <1>3, <1>4, <1>5, <3>1, <4>1, <4>2
    <3>2. CASE a # x
      BY <1>3, <3>2 DEF Same, AInd, RowsOK, CountsEveryEvent, StreamAgrees
    <3>3. QED
      BY <3>1, <3>2
  <2>2. QED
    BY <1>8, <2>1 DEF RowsOK, CountsEveryEvent, StreamAgrees
<1>11. Apart'
  <2>1. ASSUME NEW b \in Alert \ outside, b # x, ~e.retry, x \notin outside, status[b] \in Active
        PROVE  lastSeen[b] + Window < e.now
    <3>1. lastSeen[b] \in Nat /\ lastSeen[x] \in Nat /\ e.now \in Nat
      BY <1>3 DEF AInd, ATypeOK, Event
    <3>2. b \in e.mine \/ lastSeen[b] + Window < e.now
      BY <1>1, <1>4, <2>1 DEF DedupOK
    <3>3. b \notin e.mine
      <4> SUFFICES ASSUME b \in e.mine PROVE FALSE
        OBVIOUS
      <4>1. x \in e.mine
        BY <1>5
      <4>2. lastSeen[b] + Window >= e.now /\ lastSeen[x] + Window >= e.now /\ status[x] \in Active
        BY <1>4, <4>1 DEF Matches
      <4>3. lastSeen[b] <= e.now /\ lastSeen[x] <= e.now
        BY <1>1, <1>3, <1>4, <2>1 DEF DedupOK
      <4>4. lastSeen[x] + Window < lastSeen[b] \/ lastSeen[b] + Window < lastSeen[x]
        BY <1>3, <2>1, <4>2 DEF AInd, Apart
      <4>5. QED
        BY <3>1, <4>2, <4>3, <4>4
    <3>4. QED
      BY <3>2, <3>3
  <2>2. \A a \in Alert \ {x} : status'[a] = status[a] /\ lastSeen'[a] = lastSeen[a]
    BY <1>3 DEF Same
  <2>3. \A a \in Alert \ outside' : a \in Alert \ outside /\ (a = x => ~e.retry)
    BY <1>6
  <2>4. QED
    BY <1>3, <2>1, <2>2, <2>3 DEF AInd, Apart
<1>12. ASSUME NEW v \in Worker, v # w PROVE EventOK(v)' /\ DedupOK(v)'
  <2>1. event'[v] = event[v] /\ (advisory' = v <=> advisory = v)
    BY <1>7, <1>8, <1>12
  <2>2. CASE event[v] = None
    BY <2>1, <2>2 DEF EventOK, DedupOK
  <2>3. CASE event[v] # None
    <3>1. EventOK(v) /\ DedupOK(v) /\ event[v] \in Event
      BY <2>3 DEF AInd, ATypeOK
    <3>2. \A a \in event[v].mine : rowLock'[a] = rowLock[a] /\ Same(a)
      <4> SUFFICES ASSUME NEW a \in event[v].mine PROVE rowLock'[a] = rowLock[a] /\ Same(a)
        OBVIOUS
      <4>1. a \in Alert /\ rowLock[a] = v /\ status[a] \in Active
        BY <2>3, <3>1 DEF EventOK, Event, Matches
      <4>2. a # x
        BY <1>5, <1>12, <4>1 DEF Active
      <4>3. QED
        BY <1>3, <1>8, <1>12, <4>1, <4>2
    <3>3. event[v].stage = "flushed" => Same(event[v].write.alert)
      <4> SUFFICES ASSUME event[v].stage = "flushed" PROVE Same(event[v].write.alert)
        OBVIOUS
      <4>1. WriteOK(event[v])
        BY <2>3, <3>1 DEF EventOK
      <4>2. CASE event[v].write.isNew
        <5>1. status[event[v].write.alert] = "none" /\ advisory = v
          BY <2>3, <3>1, <4>1, <4>2 DEF WriteOK, EventOK
        <5>2. status[x] \in Active
          BY <1>4, <1>5, <1>12, <5>1
        <5>3. QED
          BY <1>3, <4>1, <5>1, <5>2 DEF WriteOK, Write, Active
      <4>3. CASE ~event[v].write.isNew
        BY <3>2, <4>1, <4>3 DEF WriteOK
      <4>4. QED
        BY <4>2, <4>3
    <3>4. EventOK(v)'
      BY <1>8, <1>9, <2>1, <3>1, <3>2, <3>3, EventFrame DEF AInd, ATypeOK
    <3>5. ~event[v].retry => e.retry
      BY <1>4, <1>12, <2>3, <3>1 DEF EventOK
    <3>6. ~event[v].retry =>
            \A a \in Alert \ outside' : lastSeen'[a] = lastSeen[a] /\ status'[a] = status[a]
      BY <1>3, <1>6, <3>5 DEF Same
    <3>7. DedupOK(v)'
      BY <1>6, <1>9, <2>1, <3>1, <3>6, DedupFrame DEF AInd
    <3>8. QED
      BY <3>4, <3>7
  <2>4. QED
    BY <2>2, <2>3
<1>13. EventOK(w)' /\ DedupOK(w)'
  <2>1. CASE y = None
    BY <1>7, <2>1 DEF EventOK, DedupOK
  <2>2. CASE y # None
    BY <1>1, <1>4, <1>7, <1>8, <2>2 DEF EventOK, DedupOK
  <2>3. QED
    BY <2>1, <2>2
<1>14. ASSUME NEW u \in Analyst PROVE TriageOK(u)'
  <2>1. triage'[u] = triage[u] /\ TriageOK(u) /\ u # w /\ u # None
    BY <1>8 DEF AInd
  <2>2. CASE triage[u] = None
    BY <2>1, <2>2 DEF TriageOK
  <2>3. CASE triage[u] # None
    <3>1. triage[u] \in Request /\ triage[u].alert \in Alert
      BY <2>3 DEF AInd, ATypeOK, Request
    <3>2. triage[u].stage # "begun" => rowLock[triage[u].alert] = u /\ triage[u].alert # x
      BY <1>5, <2>1, <2>3 DEF TriageOK, Status, Active
    <3>3. triage[u].stage # "begun" =>
            Same(triage[u].alert) /\ rowLock'[triage[u].alert] = rowLock[triage[u].alert]
      BY <1>3, <1>8, <2>1, <3>1, <3>2
    <3>4. status[triage[u].alert] \in Status => status'[triage[u].alert] \in Status
      BY <1>3, <3>1 DEF Same, Write
    <3>5. QED
      BY <1>8, <1>9, <2>1, <3>3, <3>4, TriageFrame DEF AInd, ATypeOK
  <2>4. QED
    BY <2>2, <2>3
<1>15. QED
  BY <1>9, <1>10, <1>11, <1>12, <1>13, <1>14 DEF AInd

(* The event is recorded, and is over.                                     *)
LEMMA CommitEventInd == ASSUME AInd, NEW w \in Worker, CommitEvent(w) PROVE AInd'
  BY PersistInd DEF CommitEvent

(* With the insert committed, or rolled back.                              *)
LEMMA CreateFailsInd == ASSUME AInd, NEW w \in Worker, CreateFails(w) PROVE AInd'
<1> USE AlertsAssumption, NoneAssumption
<1>1. PICK e, y : /\ e = event[w]
                  /\ y = [e EXCEPT !.stage = "begun", !.retry = TRUE, !.todo = {}, !.write = None]
  OBVIOUS
<1>2. /\ e # None /\ e.stage = "flushed" /\ e.write.isNew
      /\ event' = [event EXCEPT ![w] = y]
      /\ Release(w)
  BY <1>1 DEF CreateFails
<1>3. e \in Event /\ e.mine = {} /\ e.now <= clock
  BY <1>1, <1>2 DEF AInd, ATypeOK, EventOK, WriteOK
<1>4. /\ y \in Event /\ y.retry /\ y.stage = "begun" /\ y.mine = {} /\ y.todo = {}
      /\ y.now = e.now
  BY <1>1, <1>3 DEF Event
<1>5. CASE Persist(w)
  BY <1>1, <1>2, <1>4, <1>5, PersistInd
<1>6. CASE UNCHANGED tables
  <2>1. event'[w] = y /\ y # None
    BY <1>2, <1>4, EventMoves DEF AInd
  <2>2. /\ rowLock' \in [Alert -> OpenTx \union {w, None}]
        /\ \A a \in Alert : rowLock'[a] = rowLock[a] \/ (rowLock[a] = w /\ rowLock'[a] = None)
    BY <1>2, RowsReleased DEF Release
  <2>3. /\ advisory' = IF advisory = w THEN None ELSE advisory
        /\ UNCHANGED <<cursor, triage, clock, events, requests>>
    BY <1>2 DEF Release, bounds
  <2>4. /\ advisory' \in Worker \union {None} /\ advisory' # w
        /\ \A v \in Worker \ {w} : advisory' = v <=> advisory = v
        /\ cursor' \in Nat /\ cursor <= cursor' /\ events' \in 0 .. MaxEvents
    BY <2>3 DEF AInd, ATypeOK
  <2>5. EventOK(w)' /\ DedupOK(w)'
    BY <1>3, <1>4, <2>1, <2>3, <2>4 DEF EventOK, DedupOK
  <2>6. QED
    BY <1>2, <1>4, <1>6, <2>1, <2>2, <2>3, <2>4, <2>5, QuietEvent
<1>7. QED
  BY <1>5, <1>6 DEF CreateFails


-----------------------------------------------------------------------------
(* Triage.                                                                 *)

(* The events do not notice a request that touches rows of its own only.   *)
LEMMA TriageSpares ==
  ASSUME AInd, ATypeOK', NEW u \in Analyst, NEW x \in Alert,
         status[x] # "none",
         \A a \in Alert \ {x} : Same(a),
         ~Same(x) => rowLock[x] = u /\ \/ x \in outside'
                                       \/ (lastSeen'[x] = lastSeen[x] /\ status[x] \in Active),
         status'[x] # "none", outside \subseteq outside',
         \A a \in Alert : rowLock[a] \notin {u, None} => rowLock'[a] = rowLock[a],
         \A t \in Analyst \ {u} : triage'[t] = triage[t],
         UNCHANGED <<event, advisory, clock>>, cursor <= cursor'
  PROVE  /\ \A v \in Worker : EventOK(v)' /\ DedupOK(v)'
         /\ \A t \in Analyst \ {u} : TriageOK(t)'
<1> USE AlertsAssumption, NoneAssumption
<1>1. ASSUME NEW v \in Worker PROVE EventOK(v)' /\ DedupOK(v)'
  <2>1. v # u /\ v # None /\ event'[v] = event[v] /\ EventOK(v) /\ DedupOK(v)
    BY DEF AInd
  <2>2. CASE event[v] = None
    BY <2>1, <2>2 DEF EventOK, DedupOK
  <2>3. CASE event[v] # None
    <3>1. event[v] \in Event
      BY <2>3 DEF AInd, ATypeOK
    <3>2. \A a \in event[v].mine : rowLock'[a] = rowLock[a] /\ Same(a)
      <4> SUFFICES ASSUME NEW a \in event[v].mine PROVE rowLock'[a] = rowLock[a] /\ Same(a)
        OBVIOUS
      <4>1. a \in Alert /\ rowLock[a] = v
        BY <2>1, <2>3, <3>1 DEF EventOK, Event
      <4>2. QED
        BY <2>1, <4>1
    <3>3. event[v].stage = "flushed" => Same(event[v].write.alert)
      <4> SUFFICES ASSUME event[v].stage = "flushed" PROVE Same(event[v].write.alert)
        OBVIOUS
      <4>1. WriteOK(event[v])
        BY <2>1, <2>3 DEF EventOK
      <4>2. CASE event[v].write.isNew
        BY <4>1, <4>2 DEF WriteOK, Write
      <4>3. CASE ~event[v].write.isNew
        BY <3>2, <4>1, <4>3 DEF WriteOK
      <4>4. QED
        BY <4>2, <4>3
    <3>4. EventOK(v)'
      BY <2>1, <3>1, <3>2, <3>3, EventFrame DEF AInd, ATypeOK
    <3>5. \A a \in Alert \ outside' :
            lastSeen'[a] = lastSeen[a] /\ (status'[a] \in Active => status[a] \in Active)
      BY DEF Same
    <3>6. DedupOK(v)'
      BY <2>1, <3>5, DedupFrame DEF AInd
    <3>7. QED
      BY <3>4, <3>6
  <2>4. QED
    BY <2>2, <2>3
<1>2. ASSUME NEW t \in Analyst, t # u PROVE TriageOK(t)'
  <2>1. triage'[t] = triage[t] /\ TriageOK(t) /\ t # None
    BY <1>2 DEF AInd
  <2>2. CASE triage[t] = None
    BY <2>1, <2>2 DEF TriageOK
  <2>3. CASE triage[t] # None
    <3>1. triage[t].alert \in Alert
      BY <2>3 DEF AInd, ATypeOK, Request
    <3>2. triage[t].stage # "begun" =>
            Same(triage[t].alert) /\ rowLock'[triage[t].alert] = rowLock[triage[t].alert]
      BY <1>2, <2>1, <2>3, <3>1 DEF TriageOK
    <3>3. status[triage[t].alert] \in Status => status'[triage[t].alert] \in Status
      BY <3>1 DEF Same, ATypeOK
    <3>4. QED
      BY <2>1, <3>2, <3>3, TriageFrame DEF AInd
  <2>4. QED
    BY <2>2, <2>3
<1>3. QED
  BY <1>1, <1>2

(* An analyst goes on with a request, or is done with it.                  *)
LEMMA TriageMoves ==
  ASSUME ATypeOK, NEW u \in Analyst, NEW x \in Request \union {None},
         triage' = [triage EXCEPT ![u] = x]
  PROVE  /\ triage' \in [Analyst -> Request \union {None}]
         /\ triage'[u] = x
         /\ \A t \in Analyst \ {u} : triage'[t] = triage[t]
  BY DEF ATypeOK

(* Steps of a request that leave the tables alone.                         *)
LEMMA QuietTriage ==
  ASSUME AInd, NEW u \in Analyst, NEW x \in Request \union {None}, NEW b \in Alert,
         triage' = [triage EXCEPT ![u] = x], status[b] # "none",
         UNCHANGED <<tables, advisory, event, clock, events>>,
         cursor' \in Nat, cursor <= cursor', requests' \in 0 .. MaxRequests,
         rowLock' \in [Alert -> OpenTx \union {u, None}],
         \A a \in Alert : rowLock'[a] = rowLock[a]
                           \/ (rowLock[a] = u /\ rowLock'[a] = None)
                           \/ (rowLock[a] = None /\ rowLock'[a] = u),
         x # None \/ \A a \in Alert : rowLock'[a] # u,
         TriageOK(u)'
  PROVE  AInd'
<1> USE AlertsAssumption, NoneAssumption
<1>1. /\ triage' \in [Analyst -> Request \union {None}]
      /\ triage'[u] = x
      /\ \A t \in Analyst \ {u} : triage'[t] = triage[t]
  BY TriageMoves DEF AInd
<1>2. ATypeOK'
  <2>1. \A t \in OpenTx : t # u => t \in OpenTx'
    BY <1>1 DEF OpenTx
  <2>2. x # None => u \in OpenTx'
    BY <1>1 DEF OpenTx
  <2>3. rowLock' \in [Alert -> OpenTx' \union {None}]
    BY <2>1, <2>2
  <2>4. QED
    BY <1>1, <2>3 DEF AInd, ATypeOK, tables, lifeVars
<1>3. \A a \in Alert : Same(a)
  BY DEF Same, tables, lifeVars
<1>4. RowsOK' /\ Apart'
  <2>1. \A a \in Alert : shown[a].cursor \in Nat
    BY DEF AInd, ATypeOK, Entry
  <2>2. QED
    BY <2>1 DEF AInd, ATypeOK, RowsOK, CountsEveryEvent, StreamAgrees, Apart, tables, lifeVars
<1>5. outside' = outside /\ status' = status
  BY DEF tables, lifeVars
<1>6. /\ \A v \in Worker : EventOK(v)' /\ DedupOK(v)'
      /\ \A t \in Analyst \ {u} : TriageOK(t)'
  BY <1>1, <1>2, <1>3, <1>5, TriageSpares
<1>7. QED
  BY <1>2, <1>4, <1>6 DEF AInd


(* A request names an alert that exists; alerts are never deleted.         *)
LEMMA BeginTriageInd ==
  ASSUME AInd, NEW u \in Analyst, NEW b \in Alert, NEW s \in Status, BeginTriage(u, b, s)
  PROVE  AInd'
<1> USE AlertsAssumption, NoneAssumption
<1>1. PICK x : x = [stage |-> "begun", alert |-> b, to |-> s, write |-> None]
  OBVIOUS
<1>2. x \in Request /\ x # None
  BY <1>1 DEF Request
<1>3. /\ status[b] # "none" /\ requests < MaxRequests /\ requests' = requests + 1
      /\ triage' = [triage EXCEPT ![u] = x]
      /\ UNCHANGED <<tables, cursor, rowLock, advisory, event, clock, events>>
  BY <1>1 DEF BeginTriage
<1>4. status[b] \in Status
  BY <1>3 DEF AInd, ATypeOK
<1>5. TriageOK(u)'
  BY <1>1, <1>2, <1>3, <1>4, TriageMoves DEF AInd, TriageOK, tables, lifeVars
<1>6. /\ cursor' \in Nat /\ cursor <= cursor' /\ requests' \in 0 .. MaxRequests
      /\ rowLock' \in [Alert -> OpenTx \union {u, None}]
      /\ \A a \in Alert : rowLock'[a] = rowLock[a]
  BY <1>3 DEF AInd, ATypeOK
<1>7. QED
  BY <1>2, <1>3, <1>5, <1>6, QuietTriage

(* The transition is checked on the row it then holds.                     *)
LEMMA CheckTriageInd == ASSUME AInd, NEW u \in Analyst, CheckTriage(u) PROVE AInd'
<1> USE AlertsAssumption, NoneAssumption
<1>1. PICK r, x, b : r = triage[u] /\ x = [r EXCEPT !.stage = "checked"] /\ b = r.alert
  OBVIOUS
<1>2. /\ r # None /\ r.stage = "begun" /\ rowLock[b] \in {None, u}
      /\ r.to \in Allowed[status[b]]
      /\ rowLock' = [rowLock EXCEPT ![b] = u] /\ triage' = [triage EXCEPT ![u] = x]
      /\ UNCHANGED <<tables, cursor, advisory, event, clock, bounds>>
  BY <1>1 DEF CheckTriage, Lockable
<1>3. r \in Request /\ b \in Alert /\ status[b] \in Status
  BY <1>1, <1>2 DEF AInd, ATypeOK, Request, TriageOK
<1>4. x \in Request /\ x # None /\ x.stage = "checked" /\ x.alert = b /\ x.to = r.to
  BY <1>1, <1>3 DEF Request
<1>5. /\ rowLock' \in [Alert -> OpenTx \union {u, None}]
      /\ \A a \in Alert : rowLock'[a] = IF a = b THEN u ELSE rowLock[a]
  BY <1>2 DEF AInd, ATypeOK
<1>6. TriageOK(u)'
  <2>1. triage'[u] = x /\ rowLock'[b] = u /\ status'[b] = status[b]
    BY <1>2, <1>3, <1>4, <1>5, TriageMoves DEF AInd, tables, lifeVars
  <2>2. QED
    BY <1>2, <1>3, <1>4, <2>1 DEF TriageOK, tables, lifeVars
<1>7. /\ cursor' \in Nat /\ cursor <= cursor' /\ requests' \in 0 .. MaxRequests
      /\ status[b] # "none"
      /\ UNCHANGED <<tables, advisory, event, clock, events>>
      /\ \A a \in Alert : rowLock'[a] = rowLock[a] \/ (rowLock[a] = None /\ rowLock'[a] = u)
  BY <1>2, <1>3, <1>5 DEF AInd, ATypeOK, bounds, Status, Active
<1>8. QED
  BY <1>2, <1>3, <1>4, <1>5, <1>6, <1>7, QuietTriage

(* The row is locked, so what is flushed is what it will be.               *)
LEMMA FlushTriageInd == ASSUME AInd, NEW u \in Analyst, FlushTriage(u) PROVE AInd'
<1> USE AlertsAssumption, NoneAssumption
<1>1. PICK r, b : r = triage[u] /\ b = r.alert
  OBVIOUS
<1>2. PICK wr, x :
        /\ wr = [alert |-> b, isNew |-> FALSE, status |-> r.to, severity |-> severity[b],
                 count |-> count[b], cursor |-> cursor + 1]
        /\ x = [r EXCEPT !.stage = "flushed", !.write = wr]
  OBVIOUS
<1>3. /\ r # None /\ r.stage = "checked" /\ triage' = [triage EXCEPT ![u] = x]
      /\ cursor' = cursor + 1
      /\ UNCHANGED <<tables, rowLock, advisory, event, clock, bounds>>
  BY <1>1, <1>2 DEF FlushTriage
<1>4. /\ r \in Request /\ b \in Alert /\ status[b] \in Status /\ rowLock[b] = u
      /\ r.to \in Allowed[status[b]] /\ cursor \in Nat
  BY <1>1, <1>3 DEF AInd, ATypeOK, Request, TriageOK
<1>5. severity[b] \in Severity /\ count[b] \in Nat /\ r.to \in Status /\ cursor + 1 \in Nat
  BY <1>4 DEF AInd, ATypeOK, RowsOK, Status, Active, Request
<1>6. wr \in Write
  BY <1>2, <1>4, <1>5 DEF Write
<1>7. x \in Request /\ x # None /\ x.stage = "flushed" /\ x.alert = b /\ x.to = r.to /\ x.write = wr
  BY <1>2, <1>4, <1>6, <1>1 DEF Request
<1>8. TriageOK(u)'
  <2>1. triage'[u] = x /\ UNCHANGED <<rowLock, status, severity, shown>>
    BY <1>3, <1>7, TriageMoves DEF AInd, tables, lifeVars
  <2>2. shown[b].cursor <= cursor /\ shown[b].cursor \in Nat
    BY <1>4 DEF AInd, ATypeOK, RowsOK, Entry
  <2>3. wr.alert = b /\ wr.status = r.to /\ wr.severity = severity[b] /\ wr.cursor = cursor + 1
    BY <1>2
  <2>4. QED
    BY <1>3, <1>4, <1>6, <1>7, <2>1, <2>2, <2>3 DEF TriageOK
<1>9. /\ cursor' \in Nat /\ cursor <= cursor' /\ requests' \in 0 .. MaxRequests
      /\ status[b] # "none"
      /\ UNCHANGED <<tables, advisory, event, clock, events>>
      /\ rowLock' \in [Alert -> OpenTx \union {u, None}]
      /\ \A a \in Alert : rowLock'[a] = rowLock[a]
  <2>1. requests \in 0 .. MaxRequests /\ rowLock \in [Alert -> OpenTx \union {None}]
    BY DEF AInd, ATypeOK
  <2>2. status[b] # "none"
    BY <1>4 DEF Status, Active
  <2>3. /\ cursor' \in Nat /\ cursor <= cursor'
        /\ UNCHANGED <<tables, rowLock, advisory, event, clock, events, requests>>
    BY <1>3, <1>4 DEF bounds
  <2>4. rowLock' \in [Alert -> OpenTx \union {u, None}]
    BY <2>1, <2>3
  <2>5. QED
    BY <2>1, <2>2, <2>3, <2>4
<1>10. QED
  BY <1>3, <1>4, <1>7, <1>8, <1>9, QuietTriage

(* The request ends and nothing is written.                                *)
LEMMA NoTriageInd ==
  ASSUME AInd, NEW u \in Analyst, RefuseTriage(u) \/ TriageFails(u) PROVE AInd'
<1> USE AlertsAssumption, NoneAssumption
<1>1. PICK b : b = triage[u].alert
  OBVIOUS
<1>2. /\ triage[u] # None /\ triage' = [triage EXCEPT ![u] = None]
      /\ rowLock' = WithoutLocks(u)
      /\ UNCHANGED <<tables, cursor, advisory, event, clock, bounds>>
  BY DEF RefuseTriage, TriageFails
<1>3. b \in Alert /\ status[b] # "none"
  BY <1>1, <1>2 DEF AInd, ATypeOK, Request, TriageOK, Status, Active
<1>4. TriageOK(u)'
  BY <1>2, TriageMoves DEF AInd, TriageOK
<1>5. /\ rowLock' \in [Alert -> OpenTx \union {u, None}]
      /\ \A a \in Alert : rowLock'[a] = rowLock[a] \/ (rowLock[a] = u /\ rowLock'[a] = None)
      /\ \A a \in Alert : rowLock'[a] # u
  BY <1>2, RowsReleased
<1>6. /\ cursor' \in Nat /\ cursor <= cursor' /\ requests' \in 0 .. MaxRequests
      /\ UNCHANGED <<tables, advisory, event, clock, events>>
  BY <1>2 DEF AInd, ATypeOK, bounds
<1>7. QED
  BY <1>2, <1>3, <1>4, <1>5, <1>6, QuietTriage


(* Only a reopened alert becomes active without an event, and it leaves    *)
(* the discipline.                                                         *)
LEMMA CommitTriageInd == ASSUME AInd, NEW u \in Analyst, CommitTriage(u) PROVE AInd'
<1> USE AlertsAssumption, NoneAssumption
<1>1. PICK r, wr, b : r = triage[u] /\ wr = r.write /\ b = wr.alert
  OBVIOUS
<1>2. /\ r # None /\ r.stage = "flushed"
      /\ status' = [status EXCEPT ![b] = wr.status]
      /\ outside' = IF status[b] \in Active THEN outside ELSE outside \union {b}
      /\ Publish(wr)
      /\ triage' = [triage EXCEPT ![u] = None] /\ rowLock' = WithoutLocks(u)
      /\ UNCHANGED <<severity, count, lastSeen, commits, cursor, advisory, event, clock, bounds>>
  BY <1>1 DEF CommitTriage
<1>3. /\ r \in Request /\ b = r.alert /\ b \in Alert /\ status[b] \in Status /\ rowLock[b] = u
      /\ wr \in Write /\ wr.status \in Status /\ wr.severity = severity[b]
      /\ wr.cursor > shown[b].cursor /\ wr.cursor <= cursor
  BY <1>1, <1>2 DEF AInd, ATypeOK, Request, Write, TriageOK
<1>4. PICK n : n = [cursor |-> wr.cursor, status |-> wr.status, severity |-> wr.severity]
  OBVIOUS
<1>5. n \in Entry /\ shown' = [shown EXCEPT ![b] = n]
  BY <1>1, <1>2, <1>3, <1>4 DEF Entry, Write, Publish
<1>6. /\ shown' \in [Alert -> Entry] /\ shown'[b] = n
      /\ status' \in [Alert -> Status \union {"none"}] /\ status'[b] = wr.status
      /\ \A a \in Alert \ {b} : shown'[a] = shown[a] /\ status'[a] = status[a]
  BY <1>2, <1>3, <1>5 DEF AInd, ATypeOK
<1>7. /\ rowLock' \in [Alert -> OpenTx \union {None}]
      /\ \A a \in Alert : rowLock'[a] = IF rowLock[a] = u THEN None ELSE rowLock[a]
      /\ \A a \in Alert : rowLock'[a] # u
  BY <1>2, RowsReleased
<1>8. /\ triage' \in [Analyst -> Request \union {None}] /\ triage'[u] = None
      /\ \A t \in Analyst \ {u} : triage'[t] = triage[t]
  BY <1>2, TriageMoves DEF AInd
<1>9. ATypeOK'
  <2>1. \A t \in OpenTx : t # u => t \in OpenTx'
    BY <1>2, <1>8 DEF OpenTx
  <2>2. rowLock' \in [Alert -> OpenTx' \union {None}]
    BY <1>7, <2>1
  <2>3. outside' \subseteq Alert
    BY <1>2, <1>3 DEF AInd, ATypeOK
  <2>4. QED
    BY <1>2, <1>6, <1>8, <2>2, <2>3 DEF AInd, ATypeOK, bounds
<1>10. RowsOK'
  <2>1. ASSUME NEW a \in Alert
        PROVE  /\ status'[a] = "none" => count[a] = 0
               /\ status'[a] # "none" => severity[a] \in Severity
               /\ shown'[a].cursor <= cursor
               /\ shown'[a].status = status'[a] /\ shown'[a].severity = severity[a]
    <3>1. CASE a = b
      <4>1. wr.status # "none" /\ status[b] # "none"
        BY <1>3 DEF Status, Active
      <4>2. QED
        BY <1>3, <1>4, <1>6, <3>1, <4>1 DEF AInd, RowsOK
    <3>2. CASE a # b
      BY <1>6, <3>2 DEF AInd, RowsOK, StreamAgrees
    <3>3. QED
      BY <3>1, <3>2
  <2>2. \A a \in Alert : count[a] = commits[a]
    BY DEF AInd, RowsOK, CountsEveryEvent
  <2>3. QED
    BY <1>2, <2>1, <2>2 DEF RowsOK, CountsEveryEvent, StreamAgrees
<1>11. \A a \in Alert \ outside' : a \in Alert \ outside /\ (status'[a] \in Active => status[a] \in Active)
  BY <1>2, <1>6
<1>12. Apart'
  BY <1>2, <1>11 DEF AInd, Apart
<1>13. /\ \A v \in Worker : EventOK(v)' /\ DedupOK(v)'
       /\ \A t \in Analyst \ {u} : TriageOK(t)'
  <2>1. \A a \in Alert \ {b} : Same(a)
    BY <1>2, <1>6 DEF Same
  <2>2. status[b] # "none" /\ status'[b] # "none"
    BY <1>3, <1>6 DEF Status, Active
  <2>3. b \in outside' \/ (lastSeen'[b] = lastSeen[b] /\ status[b] \in Active)
    BY <1>2
  <2>4. outside \subseteq outside' /\ cursor <= cursor'
    BY <1>2 DEF AInd, ATypeOK
  <2>5. QED
    BY <1>2, <1>3, <1>7, <1>8, <1>9, <2>1, <2>2, <2>3, <2>4, TriageSpares
<1>14. TriageOK(u)'
  BY <1>8 DEF TriageOK
<1>15. QED
  BY <1>9, <1>10, <1>12, <1>13, <1>14 DEF AInd

-----------------------------------------------------------------------------

(* Time only moves on.                                                     *)
LEMMA TickInd == ASSUME AInd, Tick PROVE AInd'
<1> USE AlertsAssumption, NoneAssumption
<1>1. /\ clock' = clock + 1 /\ clock' \in 0 .. MaxClock /\ clock <= clock'
      /\ UNCHANGED <<tables, cursor, rowLock, advisory, event, triage, bounds>>
  BY DEF Tick, AInd, ATypeOK
<1>2. ATypeOK'
  <2>1. lastSeen' \in [Alert -> 0 .. clock']
    BY <1>1 DEF AInd, ATypeOK, tables
  <2>2. OpenTx' = OpenTx
    BY <1>1 DEF OpenTx
  <2>3. QED
    BY <1>1, <2>1, <2>2 DEF AInd, ATypeOK, tables, lifeVars, bounds
<1>3. RowsOK' /\ Apart'
  BY <1>1 DEF AInd, RowsOK, CountsEveryEvent, StreamAgrees, Apart, tables, lifeVars
<1>4. ASSUME NEW v \in Worker PROVE EventOK(v)' /\ DedupOK(v)'
  <2>1. EventOK(v)'
    <3>1. event[v] # None => event[v] \in Event
      BY DEF AInd, ATypeOK
    <3>2. event[v] # None => event[v].now <= clock'
      BY <1>1, <3>1 DEF AInd, EventOK, Event, ATypeOK
    <3>3. QED
      BY <1>1, <3>2 DEF AInd, EventOK, WriteOK, Matches, tables, lifeVars
  <2>2. DedupOK(v)'
    BY <1>1 DEF AInd, DedupOK, tables, lifeVars
  <2>3. QED
    BY <2>1, <2>2
<1>5. \A u \in Analyst : TriageOK(u)'
  BY <1>1 DEF AInd, TriageOK, tables, lifeVars
<1>6. QED
  BY <1>2, <1>3, <1>4, <1>5 DEF AInd

(* Every step keeps the invariant.                                         *)
LEMMA AIndStep == AInd /\ [ANext]_avars => AInd'
<1> SUFFICES ASSUME AInd, [ANext]_avars PROVE AInd'
  OBVIOUS
<1>1. ASSUME NEW w \in Worker, EventStep(w) PROVE AInd'
  BY <1>1, BeginEventInd, FindCandidatesInd, LockCandidateInd, FlushInd, CommitEventInd,
     CreateFailsInd, EventFailsInd DEF EventStep
<1>2. ASSUME NEW u \in Analyst, TriageStep(u) PROVE AInd'
  BY <1>2, BeginTriageInd, CheckTriageInd, FlushTriageInd, NoTriageInd, CommitTriageInd
     DEF TriageStep
<1>3. CASE UNCHANGED avars
  <2>1. ATypeOK'
    <3>1. OpenTx' = OpenTx
      BY <1>3 DEF avars, OpenTx
    <3>2. QED
      BY <1>3, <3>1 DEF AInd, ATypeOK, avars, tables, lifeVars, bounds
  <2>2. RowsOK' /\ Apart'
    BY <1>3 DEF AInd, RowsOK, CountsEveryEvent, StreamAgrees, Apart, avars, tables, lifeVars
  <2>3. \A v \in Worker : EventOK(v)' /\ DedupOK(v)'
    BY <1>3 DEF AInd, EventOK, WriteOK, Matches, DedupOK, avars, tables, lifeVars
  <2>4. \A u \in Analyst : TriageOK(u)'
    BY <1>3 DEF AInd, TriageOK, avars, tables, lifeVars
  <2>5. QED
    BY <2>1, <2>2, <2>3, <2>4 DEF AInd
<1>4. QED
  BY <1>1, <1>2, <1>3, TickInd DEF ANext

(* The invariant holds throughout.                                         *)
THEOREM AlertsInvariant == ASpec => []AInd
  BY AInitInd, AIndStep, PTL DEF ASpec

(* Alerts and transactions keep their types, and every row lock belongs to *)
(* a transaction that is open.                                             *)
THEOREM AlertsTypeCorrect == ASpec => []ATypeOK
<1>1. AInd => ATypeOK
  BY DEF AInd
<1>2. QED
  BY <1>1, AlertsInvariant, PTL

(* No event is lost from an alert's count.                                 *)
THEOREM CountTheorem == ASpec => []CountsEveryEvent
<1>1. AInd => CountsEveryEvent
  BY DEF AInd, RowsOK
<1>2. QED
  BY <1>1, AlertsInvariant, PTL

(* The last entry of the stream is the state of the alert.                 *)
THEOREM StreamTheorem == ASpec => []StreamAgrees
<1>1. AInd => StreamAgrees
  BY DEF AInd, RowsOK
<1>2. QED
  BY <1>1, AlertsInvariant, PTL

(* Two alerts within the discipline are never live at once.                *)
THEOREM DedupTheorem == ASpec => []OneLiveAlert
<1>1. AInd => OneLiveAlert
  <2> SUFFICES ASSUME AInd, NEW a \in Alert \ outside, NEW b \in Alert \ outside,
                      Matches(a, clock), Matches(b, clock), a # b
               PROVE  FALSE
    BY DEF OneLiveAlert
  <2>1. lastSeen[a] \in 0 .. clock /\ lastSeen[b] \in 0 .. clock /\ clock \in Nat
    BY AlertsAssumption DEF AInd, ATypeOK
  <2>2. lastSeen[a] + Window < lastSeen[b] \/ lastSeen[b] + Window < lastSeen[a]
    BY DEF AInd, Apart, Matches
  <2>3. lastSeen[a] + Window >= clock /\ lastSeen[b] + Window >= clock
    BY DEF Matches
  <2>4. QED
    BY <2>1, <2>2, <2>3, AlertsAssumption
<1>2. QED
  BY <1>1, AlertsInvariant, PTL

-----------------------------------------------------------------------------
(* Refinement.                                                             *)

(* What an event commits is a new alert or one more occurrence.            *)
LEMMA PersistRefines ==
  ASSUME AInd, NEW w \in Worker, event[w] # None, event[w].stage = "flushed", Persist(w)
  PROVE  LNext
<1>1. PICK wr, x : wr = event[w].write /\ x = wr.alert
  OBVIOUS
<1>2. /\ wr \in Write /\ x \in Alert /\ wr.severity \in Severity
      /\ WriteOK(event[w]) /\ EventOK(w)
  BY <1>1 DEF AInd, EventOK, WriteOK, Write
<1>3. /\ status' = IF wr.isNew THEN [status EXCEPT ![x] = wr.status] ELSE status
      /\ severity' = [severity EXCEPT ![x] = wr.severity]
      /\ count' = [count EXCEPT ![x] = wr.count]
  BY <1>1 DEF Persist
<1>4. CASE wr.isNew
  <2>1. status[x] = "none" /\ wr.status = "OPEN" /\ wr.count = 1
    BY <1>1, <1>2, <1>4 DEF WriteOK
  <2>2. Create(x)
    BY <1>2, <1>3, <1>4, <2>1 DEF Create
  <2>3. QED
    BY <1>2, <2>2 DEF LNext
<1>5. CASE ~wr.isNew
  <2>1. x \in event[w].mine /\ wr.severity >= severity[x] /\ wr.count = count[x] + 1
    BY <1>1, <1>2, <1>5 DEF WriteOK
  <2>2. status[x] \in Active
    BY <1>2, <2>1 DEF EventOK, Matches
  <2>3. Recur(x)
    BY <1>2, <1>3, <1>5, <2>1, <2>2 DEF Recur
  <2>4. QED
    BY <1>2, <2>3 DEF LNext
<1>6. QED
  BY <1>4, <1>5

(* What an analyst commits is still a transition of the table.             *)
LEMMA CommitTriageRefines ==
  ASSUME AInd, NEW u \in Analyst, CommitTriage(u) PROVE LNext
<1>1. PICK r, b : r = triage[u] /\ b = r.write.alert
  OBVIOUS
<1>2. /\ r # None /\ r.stage = "flushed"
      /\ status' = [status EXCEPT ![b] = r.write.status]
      /\ UNCHANGED <<severity, count>>
  BY <1>1 DEF CommitTriage
<1>3. /\ b \in Alert /\ status[b] \in Status
      /\ r.write.status \in Allowed[status[b]]
  BY <1>1, <1>2 DEF AInd, ATypeOK, Request, Write, TriageOK
<1>4. Triage(b)
  BY <1>2, <1>3 DEF Triage
<1>5. QED
  BY <1>3, <1>4 DEF LNext

(* Every step is one of AlertLifeCycle or leaves the alerts alone.         *)
LEMMA AStepRefines == AInd /\ [ANext]_avars => [LNext]_lifeVars
<1> SUFFICES ASSUME AInd, [ANext]_avars PROVE LNext \/ UNCHANGED lifeVars
  OBVIOUS
<1>1. ASSUME NEW w \in Worker, EventStep(w) PROVE LNext \/ UNCHANGED lifeVars
  <2>1. CASE CommitEvent(w) \/ CreateFails(w)
    BY <2>1, PersistRefines DEF CommitEvent, CreateFails, tables
  <2>2. CASE \E a \in Alert : AddToAlert(w, a) \/ NewAlert(w, a)
    BY <2>2 DEF AddToAlert, NewAlert, Flush, tables
  <2>3. CASE ~(CommitEvent(w) \/ CreateFails(w))
             /\ ~(\E a \in Alert : AddToAlert(w, a) \/ NewAlert(w, a))
    BY <1>1, <2>3 DEF EventStep, BeginEvent, FindCandidates, LockCandidate, EventFails, tables
  <2>4. QED
    BY <2>1, <2>2, <2>3
<1>2. ASSUME NEW u \in Analyst, TriageStep(u) PROVE LNext \/ UNCHANGED lifeVars
  BY <1>2, CommitTriageRefines
     DEF TriageStep, BeginTriage, CheckTriage, RefuseTriage, FlushTriage, TriageFails, tables
<1>3. CASE Tick \/ UNCHANGED avars
  BY <1>3 DEF Tick, avars, tables
<1>4. QED
  BY <1>1, <1>2, <1>3 DEF ANext

(* Terminal alerts get no event, severity never falls and the status moves *)
(* along the table, however events and requests interleave.                *)
THEOREM LifeCycleTheorem == ASpec => ImplementsLifeCycle
<1>1. AInit => LInit
  BY DEF AInit
<1>2. QED
  BY <1>1, AStepRefines, AlertsInvariant, PTL DEF ASpec, ImplementsLifeCycle, LSpec

=============================================================================
