---------------------------- MODULE EventStream ----------------------------
(***************************************************************************)
(* The live event stream of one tenant, end to end: transactions write rows*)
(* of soc_event_stream, pods publish them to the bounded queues of their   *)
(* listeners and through Redis to the other pods                           *)
(* (backend/services/event_broadcaster.py), a generator replays the rows a *)
(* client missed and then forwards its queue (backend/api/routers/         *)
(* streams.py), and a browser tab keeps the cursor with which it reconnects*)
(* and the ids it has shown (frontend/src/hooks/useSSEStream.ts).          *)
(*                                                                         *)
(* An event is named by its cursor_id, which the database draws inside the *)
(* transaction.  Frames on the wire are part of the queue: both are lost   *)
(* with the connection.  A listener that the tab has left stays admitted   *)
(* until its generator ends, with a queue that nobody reads any more.      *)
(***************************************************************************)
EXTENDS Integers, FiniteSets, SequencesExt

CONSTANTS
  Pod, Conn, None,
  QueueSize,      \* MAX_QUEUE_SIZE
  ReplayLimit,    \* limit of get_replay_events
  History,        \* maxHistory of isDuplicateEvent
  MaxStreams,     \* MAX_STREAMS_PER_USER
  MaxEvents,      \* bound: rows drawn
  MaxTimers,      \* bound: heartbeats and retention passes
  MaxFaults       \* bound: broken streams, stopped pods, Redis errors

ASSUME EventStreamAssumption ==
  /\ None \notin Pod \union Conn
  /\ QueueSize \in Nat \ {0} /\ ReplayLimit \in Nat \ {0}
  /\ History \in Nat \ {0} /\ MaxStreams \in Nat \ {0}
  /\ MaxEvents \in Nat /\ MaxTimers \in Nat /\ MaxFaults \in Nat

Event == 1 .. MaxEvents

VARIABLES
  row,            \* soc_event_stream: what became of each cursor
  origin,         \* the pod whose transaction drew it
  critical,       \* alert_created that is HIGH or CRITICAL, a target SUSPENDED
  unpublished,    \* committed, publish_event_nowait not yet called
  outgoing,       \* _outgoing_queue of each pod
  up,             \* "up", "stopping" or "down"
  relay,          \* _tenant_subscription_tasks[tenant] of each pod
  stream,         \* the listener and its generator
  counted,        \* soc:connections:user:<id> in Redis
  fallback,       \* _user_connection_counts of each pod
  tab,            \* what the hook is doing
  via,            \* the listener the tab reads from
  lastId,         \* lastEventIdRef, 0 for null
  seen,           \* seenEventIdsRef, oldest first
  shown,          \* history: times onEvent was called
  reached,        \* history: events each pod has dispatched
  excused,        \* history: events the tab may miss (see InOrderIsShown)
  timers, faults, uncounted

db       == <<row, origin, critical>>
pods     == <<unpublished, outgoing, up, relay, reached>>
counters == <<counted, fallback>>
hook     == <<tab, via, lastId, seen, shown>>
bounds   == <<timers, faults, uncounted>>
vars     == <<db, pods, stream, counters, hook, excused, bounds>>

-----------------------------------------------------------------------------
(* What a queue holds.                                                     *)

Envelope(e)   == [kind |-> "event", id |-> e]
Overflow(n)   == [kind |-> "overflow", id |-> n]
Control(kind) == [kind |-> kind, id |-> 0]

Item == [kind : {"event"}, id : Event]
          \union [kind : {"overflow"}, id : 0 .. MaxEvents]
          \union {Control("heartbeat"), Control("shutdown")}

Stream == [pod : Pod, phase : {"admitted", "live", "ended"},
           queue : BoundedSeq(Item, QueueSize), replay : BoundedSeq(Event, ReplayLimit),
           dropped : SUBSET Event]

ASSUME NoneIsNoStream == None \notin Stream

Committed == {e \in Event : row[e] = "committed"}
Drawn     == {e \in Event : row[e] # "none"}
Open      == {c \in Conn : stream[c] # None}
On(p)     == {c \in Open : stream[c].pod = p}

VTypeOK ==
  /\ row \in [Event -> {"none", "open", "committed", "void", "pruned"}]
  /\ origin \in [Event -> Pod \union {None}]
  /\ critical \subseteq Event /\ unpublished \subseteq Committed
  /\ outgoing \in [Pod -> Seq(Event)]
  /\ up \in [Pod -> {"up", "stopping", "down"}]
  /\ relay \in [Pod -> {"none", "starting", "on", "failed"}]
  /\ stream \in [Conn -> Stream \union {None}]
  /\ counted \in Nat /\ fallback \in [Pod -> Nat]
  /\ tab \in {"connecting", "open", "waiting", "stuck"}
  /\ via \in Conn \union {None}
  /\ (tab = "open") <=> (via # None)
  /\ via # None => stream[via] # None
  /\ lastId \in 0 .. MaxEvents
  /\ seen \in BoundedSeq(Event, History)
  /\ shown \in [Event -> Nat]
  /\ reached \in [Pod -> SUBSET Event] /\ excused \subseteq Event
  /\ timers \in 0 .. MaxTimers /\ faults \in 0 .. MaxFaults
  /\ uncounted \in BOOLEAN

VInit ==
  /\ row = [e \in Event |-> "none"] /\ origin = [e \in Event |-> None]
  /\ critical = {} /\ unpublished = {}
  /\ outgoing = [p \in Pod |-> <<>>] /\ up = [p \in Pod |-> "up"]
  /\ relay = [p \in Pod |-> "none"]
  /\ stream = [c \in Conn |-> None]
  /\ counted = 0 /\ fallback = [p \in Pod |-> 0]
  /\ tab = "connecting" /\ via = None /\ lastId = 0 /\ seen = <<>>
  /\ shown = [e \in Event |-> 0]
  /\ reached = [p \in Pod |-> {}] /\ excused = {}
  /\ timers = 0 /\ faults = 0 /\ uncounted = FALSE

TimerFires == timers < MaxTimers /\ timers' = timers + 1

Fault == faults < MaxFaults /\ faults' = faults + 1 /\ UNCHANGED timers

-----------------------------------------------------------------------------
(* _enqueue_to_stream_queue: the oldest event that is not critical makes   *)
(* room; if there is none, a critical event replaces the newest item by a  *)
(* stream_overflow frame.                                                  *)

Evictable(q) == {i \in DOMAIN q : q[i].kind = "event" /\ q[i].id \notin critical}

(* Mutants: the sentinel is suppressed with the QueueFull it raises, is put*)
(* on top of a full queue, or names the event that did not get in.         *)
DropQuietly(q, e) == q
OnTop(q, e) == Append(q, Overflow(e - 1))
ResumeAfter(q, e) == Append(Front(q), Overflow(e))

TripOverflow(q, e) == Append(Front(q), Overflow(e - 1))

Enqueue(q, e) ==
  CASE Len(q) < QueueSize -> Append(q, Envelope(e))
    [] Len(q) = QueueSize /\ Evictable(q) # {} ->
         Append(RemoveAt(q, Min(Evictable(q))), Envelope(e))
    [] Len(q) = QueueSize /\ Evictable(q) = {} /\ e \in critical -> TripOverflow(q, e)
    [] OTHER -> q

(* What the queue gives up for a critical event: the newest item's event,  *)
(* or the one a former sentinel stood for.                                 *)
GivenUp(q, e) ==
  IF Len(q) < QueueSize \/ Evictable(q) # {} \/ e \notin critical THEN {}
  ELSE CASE Last(q).kind = "event" -> {Last(q).id}
         [] Last(q).kind = "overflow" -> {Last(q).id + 1}
         [] OTHER -> {}

(* register_listener comes before the generator and its replay.            *)
Listening(c) == stream[c].phase # "ended"

(* _dispatch_to_local_queues on the pods of where.                         *)
Hit(where) == {c \in Open : stream[c].pod \in where /\ Listening(c)}

(* What a queue gave up, and an event that comes after a later one.        *)
Skipped(e, where) ==
  {d \in Event : \/ \E c \in Hit(where) : d \in GivenUp(stream[c].queue, e)
                 \/ d = e /\ \E p \in where : \E later \in reached[p] : later > e}

Dispatch(e, where) ==
  /\ stream' = [c \in Conn |->
       IF c \in Hit(where)
       THEN [stream[c] EXCEPT !.queue = Enqueue(@, e),
                              !.dropped = @ \union GivenUp(stream[c].queue, e)]
       ELSE stream[c]]
  /\ reached' = [p \in Pod |-> IF p \in where THEN reached[p] \union {e} ELSE reached[p]]
  /\ excused' = excused \union Skipped(e, where)

-----------------------------------------------------------------------------
(* Transactions that write an event, and what follows their commit.        *)

(* INSERT ... flush: the cursor is drawn.                                  *)
Draw(p) ==
  /\ up[p] = "up"
  /\ \E e \in Event, serious \in BOOLEAN :
       /\ row[e] = "none" /\ \A d \in 1 .. e - 1 : row[d] # "none"
       /\ row' = [row EXCEPT ![e] = "open"] /\ origin' = [origin EXCEPT ![e] = p]
       /\ critical' = IF serious THEN critical \union {e} ELSE critical
  /\ UNCHANGED <<pods, stream, counters, hook, excused, bounds>>

Commit(e) ==
  /\ row[e] = "open"
  /\ row' = [row EXCEPT ![e] = "committed"]
  /\ unpublished' = unpublished \union {e}
  /\ UNCHANGED <<origin, critical, outgoing, up, relay, reached, stream, counters,
                 hook, excused, bounds>>

Rollback(e) ==
  /\ row[e] = "open"
  /\ row' = [row EXCEPT ![e] = "void"]
  /\ UNCHANGED <<origin, critical, pods, stream, counters, hook, excused, bounds>>

(* publish_event_nowait: local queues at once, Redis in the background.    *)
Publish(e) ==
  /\ e \in unpublished
  /\ unpublished' = unpublished \ {e}
  /\ Dispatch(e, {origin[e]})
  /\ outgoing' = [outgoing EXCEPT ![origin[e]] = Append(@, e)]
  /\ UNCHANGED <<db, up, relay, counters, hook, bounds>>

(* _redis_publisher_loop and the listener tasks of the other pods, which   *)
(* ignore what comes from themselves.  Redis hands its messages to all     *)
(* subscribers in one order; how long they take is the time in the queue.  *)
Relay(p) ==
  /\ up[p] = "up" /\ outgoing[p] # <<>>
  /\ Dispatch(Head(outgoing[p]), {q \in Pod \ {p} : relay[q] = "on"})
  /\ outgoing' = [outgoing EXCEPT ![p] = Tail(@)]
  /\ UNCHANGED <<db, unpublished, up, relay, counters, hook, bounds>>

(* The publication raises; the message is gone.                            *)
RelayError(p) ==
  /\ up[p] = "up" /\ outgoing[p] # <<>>
  /\ outgoing' = [outgoing EXCEPT ![p] = Tail(@)]
  /\ Fault
  /\ UNCHANGED <<db, unpublished, up, relay, reached, stream, counters, hook, excused, uncounted>>

(* _listen_to_tenant_redis: subscribed, or ended by an exception and still *)
(* in the table of tasks.                                                  *)
Subscribe(p) ==
  /\ relay[p] = "starting"
  /\ relay' = [relay EXCEPT ![p] = "on"]
  /\ UNCHANGED <<db, unpublished, outgoing, up, reached, stream, counters, hook, excused, bounds>>

SubscribeError(p) ==
  /\ relay[p] = "starting"
  /\ relay' = [relay EXCEPT ![p] = "failed"]
  /\ Fault
  /\ UNCHANGED <<db, unpublished, outgoing, up, reached, stream, counters, hook, excused, uncounted>>

(* _heartbeat_loop: a ping wherever there is room.                         *)
Heartbeat(p) ==
  /\ up[p] = "up" /\ TimerFires
  /\ stream' = [c \in Conn |->
       IF c \in On(p) /\ Listening(c) /\ Len(stream[c].queue) < QueueSize
       THEN [stream[c] EXCEPT !.queue = Append(@, Control("heartbeat"))] ELSE stream[c]]
  /\ UNCHANGED <<db, pods, counters, hook, excused, faults, uncounted>>

(* retention_worker.run_once: the oldest rows go, their events long settled*)
Prune ==
  /\ TimerFires
  /\ \E k \in Committed :
       /\ \A e \in 1 .. k : row[e] # "open" /\ e \notin unpublished
       /\ row' = [e \in Event |-> IF e <= k /\ row[e] = "committed" THEN "pruned" ELSE row[e]]
  /\ UNCHANGED <<origin, critical, pods, stream, counters, hook, excused, faults, uncounted>>

-----------------------------------------------------------------------------
(* Admission.                                                              *)

Ended(p) == [pod |-> p, phase |-> "ended", queue |-> <<>>, replay |-> <<>>, dropped |-> {}]

(* Mutant: the generator does not notice that the tab has gone.            *)
LeaveUnnoticed(state) == tab' = state /\ via' = None /\ stream' = stream

(* The tab leaves the stream it reads from; the generator is yet to end.   *)
Leave(state) ==
  /\ tab' = state /\ via' = None
  /\ stream' = [stream EXCEPT ![via] = Ended(@.pod)]

(* The fetch of connect() reaches register_listener on pod p.  Without a   *)
(* Last-Event-ID nothing is replayed, and what the pod has dispatched      *)
(* before is the page's own business.                                      *)
Admit(p, c) ==
  /\ stream' = [stream EXCEPT ![c] =
       [Ended(p) EXCEPT !.phase = IF lastId = 0 THEN "live" ELSE "admitted"]]
  /\ relay' = IF relay[p] = "none" THEN [relay EXCEPT ![p] = "starting"] ELSE relay
  /\ tab' = "open" /\ via' = c
  /\ excused' = IF lastId = 0 THEN excused \union reached[p] ELSE excused
  /\ UNCHANGED <<db, unpublished, outgoing, up, reached, lastId, seen, shown>>

(* Mutant: the new stream is not counted against the limit.                *)
OneTooMany(n) == n <= MaxStreams

WithinLimit(n) == n < MaxStreams

Register(p, c) ==
  /\ tab = "connecting" /\ up[p] = "up" /\ stream[c] = None
  /\ WithinLimit(counted)
  /\ counted' = counted + 1
  /\ Admit(p, c)
  /\ UNCHANGED <<fallback, bounds>>

(* 429: INCR and EXPIRE come before the limit check, DECR gives the count  *)
(* back, and the key has another 120 seconds to live (see CounterExpires). *)
Refused(p) ==
  /\ tab = "connecting" /\ up[p] = "up"
  /\ ~WithinLimit(counted)
  /\ tab' = "waiting"
  /\ UNCHANGED <<db, pods, stream, counters, via, lastId, seen, shown, excused, bounds>>

(* The attempt was routed to a pod that does not serve.                    *)
Unanswered ==
  /\ tab = "connecting" /\ \E p \in Pod : up[p] # "up"
  /\ tab' = "waiting"
  /\ UNCHANGED <<db, pods, stream, counters, via, lastId, seen, shown, excused, bounds>>

(* Redis raises: the pod's own count decides.                              *)
RegisterUncounted(p, c) ==
  /\ tab = "connecting" /\ up[p] = "up" /\ stream[c] = None
  /\ Fault /\ uncounted' = TRUE
  /\ WithinLimit(fallback[p])
  /\ fallback' = [fallback EXCEPT ![p] = @ + 1]
  /\ Admit(p, c)
  /\ UNCHANGED counted

(* unregister_listener, in the generator's finally.                        *)
Minus(n) == IF n > 0 THEN n - 1 ELSE 0

Unregister(c) ==
  /\ c \in Open /\ stream[c].phase = "ended"
  /\ LET p == stream[c].pod IN
     /\ counted' = IF up[p] = "up" THEN Minus(counted) ELSE counted
     /\ fallback' = [fallback EXCEPT ![p] = Minus(@)]
     /\ relay' = IF On(p) = {c} THEN [relay EXCEPT ![p] = "none"] ELSE relay
  /\ stream' = [stream EXCEPT ![c] = None]
  /\ UNCHANGED <<db, unpublished, outgoing, up, reached, hook, excused, bounds>>

(* The counter's 120 seconds run out.  The heartbeats of pods with a       *)
(* listener of the user renew them, and so does every attempt that reaches *)
(* a pod, admitted or refused.  A tab that waits tries again within 30     *)
(* seconds: for the key to expire, no pod has a listener and the tab is    *)
(* stuck, or its device sleeps or is offline.  It may never happen.        *)
CounterExpires ==
  /\ counted > 0 /\ Open = {} /\ tab \in {"waiting", "stuck"}
  /\ counted' = 0
  /\ UNCHANGED <<db, pods, stream, fallback, hook, excused, bounds>>

-----------------------------------------------------------------------------
(* The generator and the tab.                                              *)

Passes(n, p) == excused' = excused \union {e \in Drawn : e <= n /\ e \notin reached[p]}

(* isDuplicateEvent.                                                       *)
Remember(e) == IF Len(seen) < History THEN Append(seen, e) ELSE Append(Tail(seen), e)

IsNew(e) == ~Contains(seen, e)

(* The frame's id becomes the cursor, for a duplicate too.                 *)
Show(e, p) ==
  /\ lastId' = e
  /\ seen' = IF IsNew(e) THEN Remember(e) ELSE seen
  /\ shown' = IF IsNew(e) THEN [shown EXCEPT ![e] = @ + 1] ELSE shown
  /\ Passes(e, p)

(* get_replay_events: the first rows after the cursor, or stream_reset if  *)
(* the cursor is older than the oldest row; the tab then loads everything. *)
Missed(from) == {e \in Committed : e > from}

Expired(from) == Committed # {} /\ from < Min(Committed) - 1

(* ORDER BY cursor_id LIMIT n, of a set of rows.                           *)
FirstRows(some, all) ==
  /\ \A i, j \in DOMAIN some : i < j => some[i] < some[j]
  /\ \A i \in DOMAIN some, e \in all \ Range(some) : some[i] < e
  /\ Len(some) = ReplayLimit \/ Range(some) = all

ReplayQuery(c) ==
  /\ via = c /\ stream[c].phase = "admitted"
  /\ \/ /\ Expired(lastId)
        /\ stream' = [stream EXCEPT ![c].phase = "live"]
        /\ excused' = excused \union Committed
     \/ /\ ~Expired(lastId)
        /\ \E rows \in BoundedSeq(Missed(lastId), ReplayLimit) :
             /\ FirstRows(rows, Missed(lastId))
             /\ stream' = [stream EXCEPT ![c].phase = "live", ![c].replay = rows]
             /\ excused' = excused \union (Missed(lastId) \ Range(rows))
                  \union {e \in Drawn \ Committed : \E i \in DOMAIN rows : e < rows[i]}
  /\ UNCHANGED <<db, pods, counters, hook, bounds>>

TakeReplay(c) ==
  /\ via = c /\ stream[c].replay # <<>>
  /\ stream' = [stream EXCEPT ![c].replay = Tail(@)]
  /\ Show(Head(stream[c].replay), stream[c].pod)
  /\ UNCHANGED <<db, pods, counters, tab, via, bounds>>

Ready(c, kind) ==
  /\ via = c /\ stream[c].phase = "live" /\ stream[c].replay = <<>>
  /\ stream[c].queue # <<>> /\ Head(stream[c].queue).kind = kind

TakeEvent(c) ==
  /\ Ready(c, "event")
  /\ stream' = [stream EXCEPT ![c].queue = Tail(@)]
  /\ Show(Head(stream[c].queue).id, stream[c].pod)
  /\ UNCHANGED <<db, pods, counters, tab, via, bounds>>

TakeHeartbeat(c) ==
  /\ Ready(c, "heartbeat")
  /\ stream' = [stream EXCEPT ![c].queue = Tail(@)]
  /\ UNCHANGED <<db, pods, counters, hook, excused, bounds>>

(* The tab takes last_delivered_id, if it is not 0, and reconnects.        *)
TakeOverflow(c) ==
  /\ Ready(c, "overflow")
  /\ LET n == Head(stream[c].queue).id IN
     /\ lastId' = IF n # 0 THEN n ELSE lastId
     /\ Passes(n, stream[c].pod)
  /\ Leave("connecting")
  /\ UNCHANGED <<db, pods, counters, seen, shown, bounds>>

TakeShutdown(c) ==
  /\ Ready(c, "shutdown")
  /\ Leave("waiting")
  /\ UNCHANGED <<db, pods, counters, lastId, seen, shown, excused, bounds>>

(* reconnect_after or calculateBackoff is over.                            *)
Backoff ==
  /\ tab = "waiting" /\ tab' = "connecting"
  /\ UNCHANGED <<db, pods, stream, counters, via, lastId, seen, shown, excused, bounds>>

-----------------------------------------------------------------------------
(* Faults.                                                                 *)

(* The connection breaks; or it has lived an hour (stream_refresh).        *)
Break ==
  /\ via # None /\ Fault
  /\ \/ Leave("waiting")
     \/ stream[via].phase = "live" /\ Leave("connecting")
  /\ UNCHANGED <<db, pods, counters, lastId, seen, shown, excused, uncounted>>

(* The generator's query raises: the response ends like any other, the hook*)
(* leaves its loop and its active flag stays set.                          *)
GeneratorError ==
  /\ via # None /\ Fault
  /\ Leave("stuck")
  /\ UNCHANGED <<db, pods, counters, lastId, seen, shown, excused, uncounted>>

(* EventBroadcaster.stop: a shutdown frame for whoever has room, and the   *)
(* background tasks are cancelled.                                         *)
Stop(p) ==
  /\ up[p] = "up" /\ Fault
  /\ up' = [up EXCEPT ![p] = "stopping"]
  /\ stream' = [c \in Conn |->
       IF c \in On(p) /\ Listening(c) /\ Len(stream[c].queue) < QueueSize
       THEN [stream[c] EXCEPT !.queue = Append(@, Control("shutdown"))] ELSE stream[c]]
  /\ outgoing' = [outgoing EXCEPT ![p] = <<>>] /\ relay' = [relay EXCEPT ![p] = "none"]
  /\ UNCHANGED <<db, unpublished, reached, counters, hook, excused, uncounted>>

(* The process ends, or dies: with its listeners, its open transactions and*)
(* what it had committed but not published.  Redis keeps its count.        *)
Gone(p) ==
  /\ up' = [up EXCEPT ![p] = "down"]
  /\ row' = [e \in Event |-> IF row[e] = "open" /\ origin[e] = p THEN "void" ELSE row[e]]
  /\ unpublished' = {e \in unpublished : origin[e] # p}
  /\ outgoing' = [outgoing EXCEPT ![p] = <<>>] /\ relay' = [relay EXCEPT ![p] = "none"]
  /\ fallback' = [fallback EXCEPT ![p] = 0]
  /\ stream' = [c \in Conn |-> IF c \in On(p) THEN None ELSE stream[c]]
  /\ IF via \in On(p) THEN tab' = "waiting" /\ via' = None ELSE UNCHANGED <<tab, via>>
  /\ UNCHANGED <<origin, critical, reached, counted, lastId, seen, shown, excused>>

Exit(p)  == up[p] = "stopping" /\ Gone(p) /\ UNCHANGED bounds
Crash(p) == up[p] = "up" /\ Fault /\ Gone(p) /\ UNCHANGED uncounted

Restart(p) ==
  /\ up[p] = "down" /\ up' = [up EXCEPT ![p] = "up"]
  /\ UNCHANGED <<db, unpublished, outgoing, relay, reached, stream, counters, hook, excused, bounds>>

-----------------------------------------------------------------------------

GeneratorStep(c) ==
  \/ ReplayQuery(c) \/ TakeReplay(c) \/ TakeEvent(c) \/ TakeHeartbeat(c)
  \/ TakeOverflow(c) \/ TakeShutdown(c)

VNext ==
  \/ \E p \in Pod : \/ Draw(p) \/ Relay(p) \/ RelayError(p) \/ Subscribe(p) \/ SubscribeError(p)
                    \/ Heartbeat(p) \/ Stop(p) \/ Exit(p) \/ Crash(p) \/ Restart(p)
  \/ \E e \in Event : Commit(e) \/ Rollback(e) \/ Publish(e)
  \/ \E p \in Pod, c \in Conn : Register(p, c) \/ RegisterUncounted(p, c)
  \/ \E p \in Pod : Refused(p)
  \/ \E c \in Conn : GeneratorStep(c) \/ Unregister(c)
  \/ Prune \/ Unanswered \/ CounterExpires \/ Backoff \/ Break \/ GeneratorError

VSafe == VInit /\ [][VNext]_vars

(* Processes come back, generators run and end, the tab retries and is     *)
(* answered.  Faults are not fair, nor is the expiry of the counter, which *)
(* the tab's own attempts put off.                                         *)
VSpec ==
  /\ VSafe
  /\ \A p \in Pod : WF_vars(Restart(p)) /\ WF_vars(Exit(p))
  /\ WF_vars(\E p \in Pod, c \in Conn : Register(p, c))
  /\ WF_vars((\E p \in Pod : Refused(p)) \/ Unanswered) /\ WF_vars(Backoff)
  /\ \A c \in Conn : WF_vars(Unregister(c)) /\ WF_vars(GeneratorStep(c))

-----------------------------------------------------------------------------
(* Properties.                                                             *)

(* "DO NOT SILENTLY DROP": when a queue has given up a critical event, it  *)
(* holds a stream_overflow frame until the tab has read it.                *)
LossIsSignalled ==
  \A c \in Open : Listening(c) /\ stream[c].dropped # {} =>
    \E i \in DOMAIN stream[c].queue : stream[c].queue[i].kind = "overflow"

(* What the tab's pod dispatches in the order of the cursors, and what a   *)
(* replay reads, is shown before the cursor passes it, however streams     *)
(* break, frames cross replays and queues evict.  The cursor may leave     *)
(* behind, for good, a committed critical event that                       *)
(*  - a greater cursor overtook: committed, published or relayed first;    *)
(*  - Redis did not bring to the tab's pod: the publication raised, the pod*)
(*    was not subscribed, the publishing process was gone;                 *)
(*  - an overflow displaced (see DisplacedIsReplayed);                     *)
(*  - a replay left out at its limit;                                      *)
(*  - preceded the tab's first cursor, or an expired cursor (stream_reset).*)
InOrderIsShown ==
  \A e \in (critical \intersect Committed) \ excused : e <= lastId => shown[e] > 0

(* "NEVER silently discard a critical security event": from the cursor that*)
(* stream_overflow carries the tab replays what its queue has given up.    *)
DisplacedIsReplayed ==
  [][\A c \in Conn : TakeOverflow(c) =>
       \A e \in stream[c].dropped : shown[e] > 0 \/ lastId' < e]_vars

(* isDuplicateEvent: replays, live frames that cross them and reconnects   *)
(* together show an event once.  It holds as long as the event's id is     *)
(* remembered: an event that comes late by more than the 200 ids sends the *)
(* cursor back, and what is replayed from there is shown again.            *)
ShownOnce == \A e \in Event : shown[e] <= 1

(* register_listener: "Max 5 streams globally", as long as Redis counts.   *)
CapHolds == uncounted \/ Cardinality(Open) <= MaxStreams

(* Counts that no listener will give back: of pods that died, or that had  *)
(* closed their Redis client when their generators ended.                  *)
LeftBehind == counted - Cardinality(Open)

(* A tab that lost its stream gets one again, whatever broken listeners,   *)
(* restarts and refusals come between: unless dead pods have left so many  *)
(* counts that they alone reach the limit, in which case the tab's attempts*)
(* keep them alive, or its reader was ended without a control frame.       *)
ComesBack ==
  tab \in {"waiting", "connecting"} ~> tab \in {"open", "stuck"} \/ LeftBehind >= MaxStreams

=============================================================================
