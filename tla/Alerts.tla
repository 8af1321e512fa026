------------------------------- MODULE Alerts -------------------------------
(***************************************************************************)
(* The alerts of one rule, indicator and user: concurrent security events  *)
(* that create an alert or add to one (process_event), and analysts who    *)
(* acknowledge, resolve, dismiss and reopen them                           *)
(* (backend/services/alert_service.py), as monitoring workers and requests *)
(* run them on PostgreSQL at READ COMMITTED.                               *)
(*                                                                         *)
(* A transaction takes row locks one by one, re-reads each row under its   *)
(* lock, draws a cursor of the event stream when it flushes, and becomes   *)
(* visible when it commits.  Which of several matching alerts an event     *)
(* adds to is left open: the code takes the one last seen most recently    *)
(* when it made its query, and the retry takes any.                        *)
(***************************************************************************)
EXTENDS AlertLifeCycle

CONSTANTS
  Worker, Analyst, None,
  Window,         \* ALERT_DEDUPLICATION_WINDOW_MIN
  MaxClock,       \* bound: ticks of the clock
  MaxEvents,      \* bound: events raised
  MaxRequests     \* bound: triage requests

ASSUME AlertsAssumption ==
  /\ Severity \subseteq Nat \ {0}
  /\ Window \in Nat /\ MaxClock \in Nat /\ MaxEvents \in Nat /\ MaxRequests \in Nat
  /\ Worker \intersect Analyst = {}

VARIABLES
  lastSeen,       \* last_seen_at
  shown,          \* the alert's entry with the greatest cursor in soc_event_stream
  cursor,         \* the sequence behind soc_event_stream.cursor_id
  rowLock,        \* the transaction that holds the alert's row
  advisory,       \* the worker that holds the lock of the tenant and domain
  event,          \* the event a worker is processing
  triage,         \* the request an analyst has under way
  clock,
  commits,        \* history: events committed to each alert
  outside,        \* history: alerts whose last change went past the advisory lock:
                  \* reopened from a terminal status, or touched by a retry
  events, requests      \* counted against the bounds

tables == <<lifeVars, lastSeen, shown, commits, outside>>
bounds == <<events, requests>>
avars  == <<tables, cursor, rowLock, advisory, event, triage, clock, bounds>>

(* What a flushed transaction will commit and has put on the stream.       *)
Write == [alert : Alert, isNew : BOOLEAN, status : Status, severity : Severity,
          count : Nat, cursor : Nat]

Event == [stage : {"begun", "locking", "flushed"}, severity : Severity, now : Nat,
          retry : BOOLEAN, todo : SUBSET Alert, mine : SUBSET Alert,
          write : Write \union {None}]

Request == [stage : {"begun", "checked", "flushed"}, alert : Alert, to : Status,
            write : Write \union {None}]

Entry == [cursor : Nat, status : Status \union {"none"}, severity : Severity \union {0}]

ASSUME NoneAssumption == None \notin Worker \union Analyst \union Event \union Request

OpenTx == {w \in Worker : event[w] # None} \union {u \in Analyst : triage[u] # None}

ATypeOK ==
  /\ status \in [Alert -> Status \union {"none"}]
  /\ severity \in [Alert -> Severity \union {0}]
  /\ count \in [Alert -> Nat] /\ commits \in [Alert -> Nat]
  /\ lastSeen \in [Alert -> 0 .. clock]
  /\ shown \in [Alert -> Entry]
  /\ cursor \in Nat
  /\ rowLock \in [Alert -> OpenTx \union {None}]
  /\ advisory \in Worker \union {None}
  /\ event \in [Worker -> Event \union {None}]
  /\ triage \in [Analyst -> Request \union {None}]
  /\ clock \in 0 .. MaxClock
  /\ outside \subseteq Alert
  /\ events \in 0 .. MaxEvents /\ requests \in 0 .. MaxRequests

AInit ==
  /\ LInit
  /\ lastSeen = [a \in Alert |-> 0]
  /\ shown = [a \in Alert |-> [cursor |-> 0, status |-> "none", severity |-> 0]]
  /\ cursor = 0
  /\ rowLock = [a \in Alert |-> None] /\ advisory = None
  /\ event = [w \in Worker |-> None] /\ triage = [u \in Analyst |-> None]
  /\ clock = 0
  /\ commits = [a \in Alert |-> 0] /\ outside = {}
  /\ events = 0 /\ requests = 0

-----------------------------------------------------------------------------
(* Transactions.                                                           *)

(* Mutant: a row is read without FOR UPDATE.                               *)
NeverWaits(t, a) == TRUE

Lockable(t, a) == rowLock[a] \in {None, t}

WithoutLocks(t) == [a \in Alert |-> IF rowLock[a] = t THEN None ELSE rowLock[a]]

(* The entry enters the stream with the row; a reader orders by cursor.    *)
Publish(wr) ==
  shown' = IF wr.cursor > shown[wr.alert].cursor
           THEN [shown EXCEPT ![wr.alert] =
                  [cursor |-> wr.cursor, status |-> wr.status, severity |-> wr.severity]]
           ELSE shown

-----------------------------------------------------------------------------
(* process_event.                                                          *)

Higher(s, t) == IF s >= t THEN s ELSE t

Matches(a, now) == status[a] \in Active /\ lastSeen[a] + Window >= now

(* Mutant: the row is used as the query found it.                          *)
AsFound(a, now) == TRUE

(* READ COMMITTED: the conditions are evaluated again on the locked row.   *)
StillMatches(a, now) == Matches(a, now)

(* Mutant: events of the same tenant and domain are not serialised.        *)
NotSerialised == TRUE

Serialised == advisory = None

(* pg_advisory_xact_lock in _run_soc_pipeline, then process_event.         *)
BeginEvent(w, s) ==
  /\ event[w] = None /\ events < MaxEvents
  /\ Serialised
  /\ advisory' = w
  /\ event' = [event EXCEPT ![w] =
       [stage |-> "begun", severity |-> s, now |-> clock, retry |-> FALSE,
        todo |-> {}, mine |-> {}, write |-> None]]
  /\ events' = events + 1
  /\ UNCHANGED <<tables, cursor, rowLock, triage, clock, requests>>

(* The snapshot of the candidate query.                                    *)
FindCandidates(w) ==
  LET e == event[w] IN
  /\ e # None /\ e.stage = "begun"
  /\ event' = [event EXCEPT ![w] =
       [e EXCEPT !.stage = "locking", !.todo = {a \in Alert : Matches(a, e.now)}]]
  /\ UNCHANGED <<tables, cursor, rowLock, advisory, triage, clock, bounds>>

(* FOR UPDATE, row by row; a row that no longer matches stays locked.      *)
LockCandidate(w, a) ==
  LET e == event[w] IN
  /\ e # None /\ e.stage = "locking" /\ a \in e.todo
  /\ Lockable(w, a)
  /\ rowLock' = [rowLock EXCEPT ![a] = w]
  /\ event' = [event EXCEPT ![w] =
       [e EXCEPT !.todo = @ \ {a},
                 !.mine = IF StillMatches(a, e.now) THEN @ \union {a} ELSE @]]
  /\ UNCHANGED <<tables, cursor, advisory, triage, clock, bounds>>

Flush(w, wr) ==
  /\ event[w].stage = "locking" /\ event[w].todo = {}
  /\ event' = [event EXCEPT ![w] = [@ EXCEPT !.stage = "flushed", !.write = wr]]
  /\ cursor' = cursor + 1
  /\ UNCHANGED <<tables, rowLock, advisory, triage, clock, bounds>>

AddToAlert(w, a) ==
  /\ event[w] # None /\ a \in event[w].mine
  /\ Flush(w, [alert |-> a, isNew |-> FALSE, status |-> status[a],
               severity |-> Higher(severity[a], event[w].severity),
               count |-> count[a] + 1, cursor |-> cursor + 1])

(* A primary key is given once, whether its transaction commits or not.    *)
Fresh(a) ==
  /\ status[a] = "none"
  /\ \A w \in Worker :
       event[w] # None /\ event[w].stage = "flushed" => event[w].write.alert # a

NewAlert(w, a) ==
  /\ event[w] # None /\ event[w].mine = {} /\ ~event[w].retry
  /\ Fresh(a)
  /\ Flush(w, [alert |-> a, isNew |-> TRUE, status |-> "OPEN",
               severity |-> event[w].severity, count |-> 1, cursor |-> cursor + 1])

(* The columns an event changes; the retry writes them just the same.      *)
Persist(w) ==
  LET e == event[w]
      wr == e.write
  IN /\ status' = IF wr.isNew THEN [status EXCEPT ![wr.alert] = wr.status] ELSE status
     /\ severity' = [severity EXCEPT ![wr.alert] = wr.severity]
     /\ count' = [count EXCEPT ![wr.alert] = wr.count]
     /\ lastSeen' = [lastSeen EXCEPT ![wr.alert] = e.now]
     /\ commits' = [commits EXCEPT ![wr.alert] = @ + 1]
     /\ outside' = IF e.retry THEN outside \union {wr.alert} ELSE outside
     /\ Publish(wr)

(* The transaction is over, and every lock it holds with it.               *)
Release(w) ==
  /\ rowLock' = WithoutLocks(w)
  /\ advisory' = IF advisory = w THEN None ELSE advisory
  /\ UNCHANGED <<cursor, triage, clock, bounds>>

CommitEvent(w) ==
  /\ event[w] # None /\ event[w].stage = "flushed"
  /\ Persist(w)
  /\ event' = [event EXCEPT ![w] = None]
  /\ Release(w)

(* The insert raises, before its commit or after it: process_event rolls   *)
(* back and runs its query again, with the same now but with no advisory   *)
(* lock any more.                                                          *)
CreateFails(w) ==
  /\ event[w] # None /\ event[w].stage = "flushed" /\ event[w].write.isNew
  /\ Persist(w) \/ UNCHANGED tables
  /\ event' = [event EXCEPT ![w] =
       [@ EXCEPT !.stage = "begun", !.retry = TRUE, !.todo = {}, !.write = None]]
  /\ Release(w)

(* A statement fails, a deadlock is broken, the retry finds no alert, the  *)
(* worker dies: nothing is committed, and nobody tries this event again.   *)
EventFails(w) ==
  /\ event[w] # None
  /\ event' = [event EXCEPT ![w] = None]
  /\ Release(w)
  /\ UNCHANGED tables

-----------------------------------------------------------------------------
(* acknowledge_alert, resolve_alert, dismiss_alert, reopen_alert.          *)

BeginTriage(u, a, s) ==
  /\ triage[u] = None /\ status[a] # "none" /\ requests < MaxRequests
  /\ triage' = [triage EXCEPT ![u] =
       [stage |-> "begun", alert |-> a, to |-> s, write |-> None]]
  /\ requests' = requests + 1
  /\ UNCHANGED <<tables, cursor, rowLock, advisory, event, clock, events>>

(* _lock_and_get_alert, and the transition is one of the table.            *)
CheckTriage(u) ==
  LET r == triage[u] IN
  /\ r # None /\ r.stage = "begun"
  /\ Lockable(u, r.alert)
  /\ r.to \in Allowed[status[r.alert]]
  /\ rowLock' = [rowLock EXCEPT ![r.alert] = u]
  /\ triage' = [triage EXCEPT ![u] = [r EXCEPT !.stage = "checked"]]
  /\ UNCHANGED <<tables, cursor, advisory, event, clock, bounds>>

(* The alert has the status already, or may not get it.                    *)
RefuseTriage(u) ==
  LET r == triage[u] IN
  /\ r # None /\ r.stage = "begun"
  /\ Lockable(u, r.alert)
  /\ r.to \notin Allowed[status[r.alert]]
  /\ triage' = [triage EXCEPT ![u] = None]
  /\ rowLock' = WithoutLocks(u)
  /\ UNCHANGED <<tables, cursor, advisory, event, clock, bounds>>

FlushTriage(u) ==
  LET r == triage[u] IN
  /\ r # None /\ r.stage = "checked"
  /\ triage' = [triage EXCEPT ![u] = [r EXCEPT !.stage = "flushed", !.write =
       [alert |-> r.alert, isNew |-> FALSE, status |-> r.to, severity |-> severity[r.alert],
        count |-> count[r.alert], cursor |-> cursor + 1]]]
  /\ cursor' = cursor + 1
  /\ UNCHANGED <<tables, rowLock, advisory, event, clock, bounds>>

(* Of the columns the properties speak of, only the status is written.     *)
CommitTriage(u) ==
  LET wr == triage[u].write IN
  /\ triage[u] # None /\ triage[u].stage = "flushed"
  /\ status' = [status EXCEPT ![wr.alert] = wr.status]
  /\ outside' = IF status[wr.alert] \in Active THEN outside ELSE outside \union {wr.alert}
  /\ Publish(wr)
  /\ triage' = [triage EXCEPT ![u] = None]
  /\ rowLock' = WithoutLocks(u)
  /\ UNCHANGED <<severity, count, lastSeen, commits, cursor, advisory, event, clock, bounds>>

TriageFails(u) ==
  /\ triage[u] # None
  /\ triage' = [triage EXCEPT ![u] = None]
  /\ rowLock' = WithoutLocks(u)
  /\ UNCHANGED <<tables, cursor, advisory, event, clock, bounds>>

-----------------------------------------------------------------------------

Tick ==
  /\ clock < MaxClock
  /\ clock' = clock + 1
  /\ UNCHANGED <<tables, cursor, rowLock, advisory, event, triage, bounds>>

EventStep(w) ==
  \/ \E s \in Severity : BeginEvent(w, s)
  \/ FindCandidates(w)
  \/ \E a \in Alert : LockCandidate(w, a) \/ AddToAlert(w, a) \/ NewAlert(w, a)
  \/ CommitEvent(w) \/ CreateFails(w) \/ EventFails(w)

TriageStep(u) ==
  \/ \E a \in Alert, s \in Status : BeginTriage(u, a, s)
  \/ CheckTriage(u) \/ RefuseTriage(u) \/ FlushTriage(u) \/ CommitTriage(u) \/ TriageFails(u)

ANext == (\E w \in Worker : EventStep(w)) \/ (\E u \in Analyst : TriageStep(u)) \/ Tick

ASpec == AInit /\ [][ANext]_avars

-----------------------------------------------------------------------------
(* Properties.                                                             *)

(* Deduplication: of the alerts that would match an event raised now, at   *)
(* most one was created and changed under the lock of its tenant and       *)
(* domain alone.                                                           *)
OneLiveAlert ==
  \A a, b \in Alert \ outside : Matches(a, clock) /\ Matches(b, clock) => a = b

(* occurrence_count misses no committed event, whichever of the update,    *)
(* the insert and the retry recorded it.                                   *)
CountsEveryEvent == \A a \in Alert : count[a] = commits[a]

(* A client that replays the stream by cursor ends with the status and the *)
(* severity of the row.                                                    *)
StreamAgrees ==
  \A a \in Alert : shown[a].status = status[a] /\ shown[a].severity = severity[a]

(* Terminal alerts are never added to, severity never falls, the status    *)
(* moves along the table: AlertLifeCycle.                                  *)
ImplementsLifeCycle == LSpec

=============================================================================
