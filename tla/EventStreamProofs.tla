------------------------- MODULE EventStreamProofs -------------------------
(***************************************************************************)
(* The event stream keeps its types, announces what it drops, shows what it*)
(* takes in in order before the cursor passes it and admits no more        *)
(* listeners than it may, for any number of pods, listeners and events and *)
(* any sizes of queues and replays.                                        *)
(*                                                                         *)
(* The invariant, VInd, says of the tab's listener that whatever the tab   *)
(* still awaits is ahead of the cursor and comes in order: an item of the  *)
(* queue stands for an event (its own, or the one for which an overflow    *)
(* was tripped), nothing awaited is missing in front of an item that would *)
(* move the cursor past it, and the rows of a replay come before the queue.*)
(***************************************************************************)
EXTENDS EventStream, FiniteSetTheorems, WellFoundedInduction, TLAPS

(* The event an item of a queue stands for: its own, or the one for which  *)
(* an overflow was tripped.                                                *)
Real(x) == x.kind \in {"event", "overflow"}

Stand(x) == IF x.kind = "event" THEN x.id ELSE x.id + 1

(* A queue of bounded length whose overflows stand for events.             *)
QueueOK(q) ==
  /\ q \in Seq(Item) /\ Len(q) <= QueueSize
  /\ \A i \in 1 .. Len(q) : q[i].kind = "overflow" => q[i].id < MaxEvents

(* stream_overflow is among the items.                                     *)
Tripped(q) == \E i \in 1 .. Len(q) : q[i].kind = "overflow"

(* Stream with unbounded sequences; the bounds are in ListenerOK.          *)
Listener ==
  [pod : Pod, phase : {"admitted", "live", "ended"},
   queue : Seq(Item), replay : Seq(Event), dropped : SUBSET Event]

(* What holds of every listener.                                           *)
ListenerOK(s) ==
  /\ s \in Listener /\ QueueOK(s.queue) /\ Len(s.replay) <= ReplayLimit
  /\ s.phase # "ended" /\ s.dropped # {} => Tripped(s.queue)

(* r keeps items of q in their order and may add, behind them, one that    *)
(* stands for e.                                                           *)
Follows(r, q, e) ==
  /\ \A j \in 1 .. Len(r) : Real(r[j]) =>
       Stand(r[j]) = e \/ \E k \in 1 .. Len(q) : r[j] = q[k]
  /\ \A i, j \in 1 .. Len(r) : i < j /\ Real(r[i]) /\ Real(r[j]) =>
       Stand(r[j]) = e \/ \E k, l \in 1 .. Len(q) : k < l /\ r[i] = q[k] /\ r[j] = q[l]

(* b is q without some of its items.                                       *)
IsPart(b, q) ==
  \E f : /\ \A i \in 1 .. Len(b) : f[i] \in 1 .. Len(q) /\ b[i] = q[f[i]]
         /\ \A i, j \in 1 .. Len(b) : i < j => f[i] < f[j]

(* The tab is yet to hear of e.                                            *)
Waits(q, e) == \E i \in 1 .. Len(q) : Real(q[i]) /\ Stand(q[i]) = e

(* Every listener is in order.                                             *)
StreamsOK ==
  /\ stream \in [Conn -> Listener \union {None}]
  /\ \A c \in Conn : stream[c] # None => ListenerOK(stream[c])

-----------------------------------------------------------------------------

(* A bounded sequence is a sequence that is not longer than the bound.     *)
LEMMA BoundedIs ==
  ASSUME NEW S, NEW n \in Nat
  PROVE  BoundedSeq(S, n) = {s \in Seq(S) : Len(s) <= n}
<1>1. ASSUME NEW s \in BoundedSeq(S, n) PROVE s \in Seq(S) /\ Len(s) <= n
  BY <1>1 DEF BoundedSeq, SeqOf
<1>2. ASSUME NEW s \in Seq(S), Len(s) <= n PROVE s \in BoundedSeq(S, n)
  <2>1. s \in [1 .. Len(s) -> S]
    BY <1>2
  <2>2. Len(s) \in 0 .. n
    BY <1>2
  <2> QED
    BY <2>1, <2>2 DEF BoundedSeq, SeqOf
<1> QED
  BY <1>1, <1>2

(* A listener that is in order has the type the model gives it.            *)
LEMMA ListenerType ==
  ASSUME NEW s, ListenerOK(s)
  PROVE  s \in Stream
<1> USE EventStreamAssumption
<1>1. /\ s.queue \in BoundedSeq(Item, QueueSize)
      /\ s.replay \in BoundedSeq(Event, ReplayLimit)
  BY BoundedIs DEF ListenerOK, QueueOK, Listener
<1> QED
  BY <1>1 DEF ListenerOK, Listener, Stream

(* The least member of a non-empty finite set of numbers: what is below it *)
(* is minimal among such sets.                                             *)
LEMMA MinIs ==
  ASSUME NEW n \in Nat, NEW S \in SUBSET (1 .. n), S # {}
  PROVE  Min(S) \in S /\ \A y \in S : Min(S) <= y
<1> DEFINE Below(x) == {y \in S : y < x}
           T == {Below(x) : x \in S}
<1>1. IsWellFoundedOn(StrictSubsetOrdering(1 .. n), SUBSET (1 .. n))
  <2>1. IsFiniteSet(1 .. n)
    BY FS_Interval
  <2>2. FiniteSubsetsOf(1 .. n) = SUBSET (1 .. n)
    BY <2>1, FS_FiniteSubsetsOfFinite, Zenon
  <2> QED
    BY <2>2, FS_StrictSubsetOrderingWellFounded
<1>2. PICK t \in T : \A u \in T : <<u, t>> \notin StrictSubsetOrdering(1 .. n)
  <2>1. T # {} /\ T \subseteq SUBSET (1 .. n)
    OBVIOUS
  <2> HIDE DEF T
  <2> QED
    BY <1>1, <2>1, WFMin, Zenon
<1>3. PICK x \in S : t = Below(x)
  BY <1>2
<1>4. ASSUME NEW y \in S PROVE x <= y
  <2> SUFFICES ASSUME y < x PROVE FALSE
    OBVIOUS
  <2>1. Below(y) \subseteq t /\ y \in t /\ y \notin Below(y)
    <3>1. x \in Nat /\ y \in Nat /\ \A z \in S : z \in Nat
      OBVIOUS
    <3>2. y \in Below(x) /\ y \notin Below(y)
      BY <3>1
    <3>3. \A z \in Below(y) : z \in Below(x)
      BY <3>1
    <3> QED
      BY <1>3, <3>2, <3>3
  <2>2. Below(y) \in T /\ Below(y) \in SUBSET (1 .. n) /\ t \in SUBSET (1 .. n)
    BY <1>3
  <2>3. <<Below(y), t>> \in StrictSubsetOrdering(1 .. n)
    BY <2>1, <2>2 DEF StrictSubsetOrdering
  <2> QED
    BY <1>2, <2>2, <2>3
<1> QED
  BY <1>4 DEF Min

-----------------------------------------------------------------------------
(* Sequences.                                                              *)

(* RemoveAt takes one item out and closes the gap.                         *)
LEMMA RemoveAtIs ==
  ASSUME NEW S, NEW q \in Seq(S), NEW k \in 1 .. Len(q)
  PROVE  LET r == RemoveAt(q, k) IN
         /\ r \in Seq(S) /\ Len(r) = Len(q) - 1
         /\ \A i \in 1 .. Len(r) : r[i] = IF i < k THEN q[i] ELSE q[i + 1]
<1> DEFINE a == SubSeq(q, 1, k - 1)
           b == SubSeq(q, k + 1, Len(q))
<1>1. a \in Seq(S) /\ Len(a) = k - 1 /\ \A i \in 1 .. k - 1 : a[i] = q[i]
  OBVIOUS
<1>2. b \in Seq(S) /\ Len(b) = Len(q) - k /\ \A i \in 1 .. Len(b) : b[i] = q[i + k]
  OBVIOUS
<1> HIDE DEF a, b
<1>3. /\ a \o b \in Seq(S) /\ Len(a \o b) = Len(q) - 1
      /\ \A i \in 1 .. Len(a \o b) : (a \o b)[i] = IF i < k THEN q[i] ELSE q[i + 1]
  <2>1. /\ a \o b \in Seq(S) /\ Len(a \o b) = Len(q) - 1
        /\ Len(q) \in Nat
    BY <1>1, <1>2
  <2>2. ASSUME NEW i \in 1 .. Len(a \o b), i < k PROVE (a \o b)[i] = q[i]
    BY <1>1, <1>2, <2>1, <2>2
  <2>3. ASSUME NEW i \in 1 .. Len(a \o b), ~(i < k) PROVE (a \o b)[i] = q[i + 1]
    <3>1. (a \o b)[i] = b[i - (k - 1)] /\ i - (k - 1) \in 1 .. Len(b)
      BY <1>1, <1>2, <2>1, <2>3
    <3>2. i - (k - 1) + k = i + 1
      BY <2>1
    <3> QED
      BY <1>2, <3>1, <3>2
  <2> QED
    BY <2>1, <2>2, <2>3
<1> QED
  BY <1>3 DEF RemoveAt, a, b

(* Front is all but the last item.                                         *)
LEMMA FrontIs ==
  ASSUME NEW S, NEW q \in Seq(S), q # <<>>
  PROVE  /\ Front(q) \in Seq(S) /\ Len(Front(q)) = Len(q) - 1
         /\ \A i \in 1 .. Len(q) - 1 : Front(q)[i] = q[i]
         /\ Last(q) = q[Len(q)] /\ Last(q) \in S /\ Len(q) >= 1
<1>1. PICK k \in 1 .. Len(q) : k = Len(q)
  OBVIOUS
<1>2. SubSeq(q, 1, k - 1) \in Seq(S) /\ Len(SubSeq(q, 1, k - 1)) = k - 1
  OBVIOUS
<1>3. \A i \in 1 .. k - 1 : SubSeq(q, 1, k - 1)[i] = q[i]
  OBVIOUS
<1>4. q[Len(q)] \in S /\ Len(q) >= 1
  BY <1>1
<1> QED
  BY <1>1, <1>2, <1>3, <1>4 DEF Front, Last

(* Tail is all but the first item.                                         *)
LEMMA TailIs ==
  ASSUME NEW S, NEW q \in Seq(S), q # <<>>
  PROVE  /\ Tail(q) \in Seq(S) /\ Len(Tail(q)) = Len(q) - 1
         /\ \A i \in 1 .. Len(q) - 1 : Tail(q)[i] = q[i + 1]
         /\ Head(q) = q[1] /\ Head(q) \in S /\ Len(q) >= 1
  OBVIOUS

(* What an item is.                                                        *)
LEMMA ItemIs ==
  ASSUME NEW x \in Item
  PROVE  /\ x.kind \in {"event", "overflow", "heartbeat", "shutdown"}
         /\ x.id \in Nat
         /\ x.kind = "event" => x.id \in Event /\ x = Envelope(x.id)
         /\ x.kind = "overflow" => x.id \in 0 .. MaxEvents
  BY EventStreamAssumption DEF Item, Control, Envelope, Event

(* What is enqueued for e is an item that stands for e.                    *)
LEMMA ItemsMade ==
  ASSUME NEW e \in Event
  PROVE  /\ Envelope(e) \in Item /\ Overflow(e - 1) \in Item
         /\ Real(Envelope(e)) /\ Stand(Envelope(e)) = e
         /\ Real(Overflow(e - 1)) /\ Stand(Overflow(e - 1)) = e
         /\ Envelope(e).kind = "event" /\ Overflow(e - 1).kind = "overflow"
         /\ Overflow(e - 1).id < MaxEvents
  BY EventStreamAssumption DEF Item, Control, Envelope, Overflow, Event, Real, Stand

(* Heartbeats and shutdown frames stand for no event.                      *)
LEMMA ControlsMade ==
  ASSUME NEW k \in {"heartbeat", "shutdown"}
  PROVE  Control(k) \in Item /\ Control(k).kind = k /\ ~Real(Control(k))
  BY EventStreamAssumption DEF Item, Control, Real

(* What an item of a queue in order stands for is an event.                *)
LEMMA StandIs ==
  ASSUME NEW q, QueueOK(q), NEW i \in 1 .. Len(q), Real(q[i])
  PROVE  Stand(q[i]) \in Event
<1>1. q[i] \in Item
  BY DEF QueueOK
<1> QED
  BY <1>1, ItemIs, EventStreamAssumption DEF QueueOK, Stand, Real, Event

-----------------------------------------------------------------------------
(* _enqueue_to_stream_queue.                                               *)

(* An item for e behind a part of q: the order of what was there is kept.  *)
LEMMA PutBehind ==
  ASSUME NEW q, QueueOK(q), NEW b, b \in Seq(Item), Len(b) < QueueSize,
         IsPart(b, q), NEW e \in Event, NEW x \in {Envelope(e), Overflow(e - 1)}
  PROVE  LET r == Append(b, x) IN
         /\ QueueOK(r) /\ Follows(r, q, e) /\ Waits(r, e)
         /\ \A i \in 1 .. Len(b) : r[i] = b[i]
         /\ Len(r) = Len(b) + 1 /\ r[Len(b) + 1] = x
<1> DEFINE r == Append(b, x)
<1> USE EventStreamAssumption
<1>f. PICK f : /\ \A i \in 1 .. Len(b) : f[i] \in 1 .. Len(q) /\ b[i] = q[f[i]]
               /\ \A i, j \in 1 .. Len(b) : i < j => f[i] < f[j]
  BY DEF IsPart
<1>0. x \in Item /\ Real(x) /\ Stand(x) = e /\ (x.kind = "overflow" => x.id < MaxEvents)
  BY ItemsMade
<1>1. /\ r \in Seq(Item) /\ Len(r) = Len(b) + 1 /\ Len(b) \in Nat
      /\ r[Len(b) + 1] = x
  BY <1>0
<1>2. \A i \in 1 .. Len(b) : r[i] = b[i]
  OBVIOUS
<1> HIDE DEF r
<1>3. \A i \in 1 .. Len(r) : i \in 1 .. Len(b) \/ i = Len(b) + 1
  BY <1>1
<1>4. QueueOK(r)
  <2>1. Len(r) <= QueueSize
    BY <1>1
  <2>2. \A i \in 1 .. Len(b) : b[i].kind = "overflow" => b[i].id < MaxEvents
    BY <1>f DEF QueueOK
  <2> QED
    BY <2>1, <2>2, <1>0, <1>1, <1>2, <1>3 DEF QueueOK
<1>5. Follows(r, q, e)
  <2>1. \A j \in 1 .. Len(r) : Stand(r[j]) = e \/ \E k \in 1 .. Len(q) : r[j] = q[k]
    BY <1>0, <1>1, <1>2, <1>3, <1>f
  <2>2. ASSUME NEW i \in 1 .. Len(r), NEW j \in 1 .. Len(r), i < j, Stand(r[j]) # e
        PROVE  \E k, l \in 1 .. Len(q) : k < l /\ r[i] = q[k] /\ r[j] = q[l]
    <3>1. j \in 1 .. Len(b) /\ i \in 1 .. Len(b)
      BY <2>2, <1>0, <1>1, <1>3
    <3>2. f[i] < f[j] /\ r[i] = q[f[i]] /\ r[j] = q[f[j]]
      BY <3>1, <2>2, <1>2, <1>f
    <3> QED
      BY <3>1, <3>2, <1>f
  <2> QED
    BY <2>1, <2>2 DEF Follows
<1>6. Waits(r, e)
  BY <1>0, <1>1 DEF Waits
<1> QED
  BY <1>1, <1>2, <1>4, <1>5, <1>6 DEF r

(* What a queue does with an event it is given.                            *)
LEMMA EnqueueIs ==
  ASSUME NEW q, QueueOK(q), NEW e \in Event
  PROVE  LET r == Enqueue(q, e)
             g == GivenUp(q, e)
         IN  /\ QueueOK(r) /\ Follows(r, q, e) /\ g \subseteq Event
             /\ Tripped(q) \/ g # {} => Tripped(r)
             /\ e \in critical => Waits(r, e)
             /\ \A d \in critical \ g : Waits(q, d) => Waits(r, d)
<1> DEFINE r == Enqueue(q, e)
           g == GivenUp(q, e)
<1> USE EventStreamAssumption
<1>0. /\ q \in Seq(Item) /\ Len(q) \in Nat /\ Len(q) <= QueueSize
      /\ \A i \in 1 .. Len(q) : q[i] \in Item
      /\ DOMAIN q = 1 .. Len(q)
  BY DEF QueueOK
<1>1. CASE Len(q) < QueueSize
  <2>1. r = Append(q, Envelope(e)) /\ g = {}
    BY <1>1 DEF Enqueue, GivenUp
  <2> DEFINE f == [i \in 1 .. Len(q) |-> i]
  <2>2. IsPart(q, q)
    <3>1. /\ \A i \in 1 .. Len(q) : f[i] \in 1 .. Len(q) /\ q[i] = q[f[i]]
          /\ \A i, j \in 1 .. Len(q) : i < j => f[i] < f[j]
      OBVIOUS
    <3> HIDE DEF f
    <3> QED
      BY <3>1 DEF IsPart
  <2>3. /\ QueueOK(r) /\ Follows(r, q, e) /\ Waits(r, e)
        /\ \A i \in 1 .. Len(q) : r[i] = q[i]
        /\ Len(r) = Len(q) + 1
    <3>1. Envelope(e) \in {Envelope(e), Overflow(e - 1)}
      OBVIOUS
    <3> QED
      BY <1>0, <1>1, <2>2, <3>1, <2>1, PutBehind
  <2>4. \A i \in 1 .. Len(q) : i \in 1 .. Len(r)
    BY <1>0, <2>3
  <2> QED
    BY <2>1, <2>3, <2>4 DEF Waits, Tripped
<1>2. CASE Len(q) = QueueSize /\ Evictable(q) # {}
  <2> DEFINE k == Min(Evictable(q))
             b == RemoveAt(q, k)
             f == [i \in 1 .. Len(b) |-> IF i < k THEN i ELSE i + 1]
  <2>1. r = Append(b, Envelope(e)) /\ g = {}
    BY <1>2 DEF Enqueue, GivenUp
  <2>2. k \in Evictable(q) /\ k \in 1 .. Len(q)
    BY <1>0, <1>2, MinIs DEF Evictable
  <2>3. q[k].kind = "event" /\ q[k].id \notin critical
    BY <2>2 DEF Evictable
  <2> HIDE DEF k
  <2>4. /\ b \in Seq(Item) /\ Len(b) = Len(q) - 1
        /\ \A i \in 1 .. Len(b) : b[i] = IF i < k THEN q[i] ELSE q[i + 1]
    BY <1>0, <2>2, RemoveAtIs
  <2> HIDE DEF b
  <2>5. IsPart(b, q)
    <3>1. /\ \A i \in 1 .. Len(b) : f[i] \in 1 .. Len(q) /\ b[i] = q[f[i]]
          /\ \A i, j \in 1 .. Len(b) : i < j => f[i] < f[j]
      BY <1>0, <2>2, <2>4
    <3> HIDE DEF f
    <3> QED
      BY <3>1 DEF IsPart
  <2>6. Len(b) < QueueSize
    BY <1>0, <1>2, <2>4
  <2>7. /\ QueueOK(r) /\ Follows(r, q, e) /\ Waits(r, e)
        /\ \A i \in 1 .. Len(b) : r[i] = b[i]
        /\ Len(r) = Len(b) + 1
    <3>1. Envelope(e) \in {Envelope(e), Overflow(e - 1)}
      OBVIOUS
    <3> QED
      BY <2>1, <2>4, <2>5, <2>6, <3>1, PutBehind
  <2>8. ASSUME NEW i \in 1 .. Len(q), i # k PROVE \E j \in 1 .. Len(r) : r[j] = q[i]
    <3>1. CASE i < k
      <4>1. i \in 1 .. Len(b) /\ i \in 1 .. Len(r)
        BY <3>1, <1>0, <2>2, <2>4, <2>7
      <4> QED
        BY <3>1, <4>1, <2>4, <2>7
    <3>2. CASE ~(i < k)
      <4>1. i - 1 \in 1 .. Len(b) /\ i - 1 \in 1 .. Len(r) /\ ~(i - 1 < k) /\ i - 1 + 1 = i
        BY <3>2, <2>8, <1>0, <2>2, <2>4, <2>7
      <4> QED
        BY <4>1, <2>4, <2>7
    <3> QED
      BY <3>1, <3>2
  <2>9. Tripped(q) => Tripped(r)
    BY <2>3, <2>8 DEF Tripped
  <2>10. \A d \in critical : Waits(q, d) => Waits(r, d)
    BY <2>3, <2>8 DEF Waits, Stand
  <2> QED
    BY <2>1, <2>7, <2>9, <2>10
<1>3. CASE Len(q) = QueueSize /\ Evictable(q) = {} /\ e \in critical
  <2> DEFINE b == Front(q)
             f == [i \in 1 .. Len(b) |-> i]
  <2>1. r = Append(b, Overflow(e - 1))
    BY <1>3 DEF Enqueue, TripOverflow
  <2>2. q # <<>>
    BY <1>0, <1>3
  <2>3. /\ b \in Seq(Item) /\ Len(b) = Len(q) - 1
        /\ \A i \in 1 .. Len(q) - 1 : b[i] = q[i]
        /\ Last(q) = q[Len(q)] /\ Last(q) \in Item /\ Len(q) >= 1
    BY <1>0, <2>2, FrontIs
  <2> HIDE DEF b
  <2>5. IsPart(b, q)
    <3>1. /\ \A i \in 1 .. Len(b) : f[i] \in 1 .. Len(q) /\ b[i] = q[f[i]]
          /\ \A i, j \in 1 .. Len(b) : i < j => f[i] < f[j]
      BY <1>0, <2>3
    <3> HIDE DEF f
    <3> QED
      BY <3>1 DEF IsPart
  <2>6. Len(b) < QueueSize
    BY <1>0, <1>3, <2>3
  <2>7. /\ QueueOK(r) /\ Follows(r, q, e) /\ Waits(r, e)
        /\ \A i \in 1 .. Len(b) : r[i] = b[i]
        /\ Len(r) = Len(b) + 1 /\ r[Len(b) + 1] = Overflow(e - 1)
    <3>1. Overflow(e - 1) \in {Envelope(e), Overflow(e - 1)}
      OBVIOUS
    <3> QED
      BY <2>1, <2>3, <2>5, <2>6, <3>1, PutBehind
  <2>8. Tripped(r)
    <3>1. Len(b) + 1 \in 1 .. Len(r)
      BY <2>7, <2>3, <1>0
    <3> QED
      BY <3>1, <2>7, ItemsMade DEF Tripped
  <2>9. g = CASE Last(q).kind = "event" -> {Last(q).id}
              [] Last(q).kind = "overflow" -> {Last(q).id + 1}
              [] OTHER -> {}
    BY <1>3 DEF GivenUp
  <2>10. Real(Last(q)) => g = {Stand(Last(q))} /\ Stand(Last(q)) \in Event
    <3>1. Real(Last(q)) => Stand(Last(q)) \in Event
      BY <2>3, <1>0, StandIs
    <3> QED
      BY <3>1, <2>9 DEF Stand, Real
  <2>11. ~Real(Last(q)) => g = {}
    BY <2>9 DEF Real
  <2>12. ASSUME NEW d \in critical \ g, Waits(q, d) PROVE Waits(r, d)
    <3>1. PICK i \in 1 .. Len(q) : Real(q[i]) /\ Stand(q[i]) = d
      BY <2>12 DEF Waits
    <3>2. i # Len(q)
      BY <3>1, <2>3, <2>10
    <3>3. i \in 1 .. Len(b) /\ i \in 1 .. Len(r) /\ i \in 1 .. Len(q) - 1
      <4>1. Len(q) \in Nat /\ Len(b) = Len(q) - 1 /\ Len(r) = Len(b) + 1
        BY <1>0, <2>3, <2>7
      <4> HIDE DEF r
      <4> QED
        BY <3>2, <4>1
    <3>4. r[i] = q[i]
      BY <3>3, <2>3, <2>7
    <3> QED
      BY <3>1, <3>3, <3>4 DEF Waits
  <2> QED
    BY <2>7, <2>8, <2>10, <2>11, <2>12
<1>4. CASE Len(q) = QueueSize /\ Evictable(q) = {} /\ e \notin critical
  <2>1. r = q /\ g = {}
    BY <1>4 DEF Enqueue, GivenUp
  <2>2. Follows(q, q, e)
    BY DEF Follows
  <2> QED
    BY <1>4, <2>1, <2>2
<1> HIDE DEF r, g
<1>5. Len(q) < QueueSize \/ Len(q) = QueueSize
  <2>1. Len(q) \in Nat /\ Len(q) <= QueueSize /\ QueueSize \in Nat
    BY <1>0
  <2> QED
    BY <2>1
<1> QED
  BY <1>1, <1>2, <1>3, <1>4, <1>5 DEF r, g

-----------------------------------------------------------------------------
(* What the tab's listener knows, of the events r its pod has dispatched,  *)
(* the excused ones x and the awaited ones a.                              *)

(* An item that stands for a lower event than one before it is excused.    *)
InOrder(q, x) ==
  \A i, j \in 1 .. Len(q) : i < j /\ Real(q[i]) /\ Real(q[j]) =>
    Stand(q[j]) \in x \/ Stand(q[i]) <= Stand(q[j])

(* Items stand for events the pod has dispatched.                          *)
Dispatched(q, r) == \A i \in 1 .. Len(q) : Real(q[i]) => Stand(q[i]) \in r

(* Rows come in order, and nothing awaited is left out below them.         *)
Replays(f, a) ==
  /\ \A i, j \in 1 .. Len(f) : i < j => f[i] < f[j]
  /\ \A i \in 1 .. Len(f), e \in a : e < f[i] => Contains(f, e)

(* What is awaited and excused after something has been read.              *)
Moved(x, a, y, b) == x \subseteq y /\ b \subseteq a \ y

(* Once the replay is known, all that the pod has dispatched and the tab   *)
(* awaits is on its way.                                                   *)
ReaderIs(s, r, x, a) ==
  /\ s.phase # "ended"
  /\ Dispatched(s.queue, r) /\ InOrder(s.queue, x) /\ Replays(s.replay, a)
  /\ s.phase = "admitted" => s.replay = <<>>
  /\ s.phase = "live" =>
       \A e \in a \intersect r : Contains(s.replay, e) \/ Waits(s.queue, e)

(* Less is awaited, more is excused.                                       *)
LEMMA Fewer ==
  ASSUME NEW s, NEW r, NEW x, NEW a, NEW y, NEW b,
         ReaderIs(s, r, x, a), x \subseteq y, b \subseteq a
  PROVE  ReaderIs(s, r, y, b)
  BY DEF ReaderIs, Replays, InOrder

(* A ping or a shutdown frame.                                             *)
LEMMA ControlPut ==
  ASSUME NEW s, ListenerOK(s), NEW k \in {"heartbeat", "shutdown"}, Len(s.queue) < QueueSize
  PROVE  LET t == [s EXCEPT !.queue = Append(@, Control(k))] IN
         /\ ListenerOK(t) /\ t.pod = s.pod
         /\ \A r, x, a : ReaderIs(s, r, x, a) => ReaderIs(t, r, x, a)
<1> DEFINE q == s.queue
           p == Append(q, Control(k))
           t == [s EXCEPT !.queue = p]
<1> USE EventStreamAssumption
<1>1. /\ q \in Seq(Item) /\ Len(q) \in Nat /\ QueueOK(q) /\ s \in Listener
      /\ Control(k) \in Item /\ Control(k).kind = k /\ ~Real(Control(k))
  BY ControlsMade DEF ListenerOK, QueueOK
<1>2. /\ p \in Seq(Item) /\ Len(p) = Len(q) + 1 /\ p[Len(q) + 1] = Control(k)
      /\ \A i \in 1 .. Len(q) : p[i] = q[i] /\ i \in 1 .. Len(p)
  BY <1>1
<1> HIDE DEF p
<1>3. /\ t \in Listener /\ t.queue = p /\ t.replay = s.replay /\ t.phase = s.phase
      /\ t.pod = s.pod /\ t.dropped = s.dropped
  BY <1>1, <1>2 DEF Listener
<1> HIDE DEF t
<1>4. \A i \in 1 .. Len(p) : i \in 1 .. Len(q) \/ (i = Len(q) + 1 /\ ~Real(p[i]))
  BY <1>1, <1>2
<1>5. QueueOK(p)
  <2>1. Len(p) <= QueueSize
    BY <1>1, <1>2
  <2> QED
    BY <2>1, <1>1, <1>2, <1>4 DEF QueueOK, Real
<1>6. Tripped(q) => Tripped(p)
  BY <1>2 DEF Tripped
<1>7. ListenerOK(t)
  BY <1>3, <1>5, <1>6 DEF ListenerOK
<1>8. ASSUME NEW r, NEW x, NEW a, ReaderIs(s, r, x, a) PROVE ReaderIs(t, r, x, a)
  <2>1. Dispatched(p, r)
    BY <1>2, <1>4, <1>8 DEF ReaderIs, Dispatched
  <2>2. InOrder(p, x)
    BY <1>2, <1>4, <1>8 DEF ReaderIs, InOrder
  <2>3. \A e \in a : Waits(q, e) => Waits(p, e)
    BY <1>2 DEF Waits
  <2> QED
    BY <1>3, <1>8, <2>1, <2>2, <2>3 DEF ReaderIs
<1> QED
  BY <1>3, <1>7, <1>8 DEF t, p

(* An event is dispatched to a listener.                                   *)
LEMMA EventPut ==
  ASSUME NEW s, ListenerOK(s), s.phase # "ended", NEW e \in Event
  PROVE  LET g == GivenUp(s.queue, e)
             t == [s EXCEPT !.queue = Enqueue(@, e), !.dropped = @ \union g] IN
         /\ ListenerOK(t) /\ t.pod = s.pod
         /\ \A r, x, a, y, b :
              /\ ReaderIs(s, r, x, a) /\ r \subseteq Event
              /\ x \subseteq y /\ g \subseteq y
              /\ (\E later \in r : later > e) => e \in y
              /\ b \subseteq a /\ b \subseteq critical \ y
              => ReaderIs(t, r \union {e}, y, b)
<1> DEFINE q == s.queue
           g == GivenUp(q, e)
           p == Enqueue(q, e)
           t == [s EXCEPT !.queue = p, !.dropped = @ \union g]
<1> USE EventStreamAssumption
<1>1. QueueOK(q) /\ s \in Listener
  BY DEF ListenerOK
<1>2. /\ QueueOK(p) /\ Follows(p, q, e) /\ g \subseteq Event
      /\ Tripped(q) \/ g # {} => Tripped(p)
      /\ e \in critical => Waits(p, e)
      /\ \A d \in critical \ g : Waits(q, d) => Waits(p, d)
  BY <1>1, EnqueueIs
<1> HIDE DEF p, g
<1>3. /\ t \in Listener /\ t.queue = p /\ t.replay = s.replay /\ t.phase = s.phase
      /\ t.pod = s.pod /\ t.dropped = s.dropped \union g
  BY <1>1, <1>2 DEF Listener, QueueOK
<1> HIDE DEF t
<1>4. ListenerOK(t)
  BY <1>2, <1>3 DEF ListenerOK
<1>5. ASSUME NEW r, NEW x, NEW a, NEW y, NEW b,
             ReaderIs(s, r, x, a), r \subseteq Event, x \subseteq y, g \subseteq y,
             (\E later \in r : later > e) => e \in y,
             b \subseteq a, b \subseteq critical \ y
      PROVE  ReaderIs(t, r \union {e}, y, b)
  <2>1. Dispatched(p, r \union {e})
    BY <1>2, <1>5 DEF ReaderIs, Dispatched, Follows
  <2>2. InOrder(p, y)
    <3> SUFFICES ASSUME NEW i \in 1 .. Len(p), NEW j \in 1 .. Len(p),
                        i < j, Real(p[i]), Real(p[j])
                 PROVE  Stand(p[j]) \in y \/ Stand(p[i]) <= Stand(p[j])
      BY DEF InOrder
    <3>1. Stand(p[i]) \in Event /\ Stand(p[j]) \in Event
      BY <1>2, StandIs
    <3>2. CASE Stand(p[j]) = e
      <4>1. Stand(p[i]) \in r \union {e}
        BY <2>1 DEF Dispatched
      <4>2. CASE Stand(p[i]) = e
        BY <3>1, <3>2, <4>2 DEF Event
      <4>3. CASE Stand(p[i]) \in r
        BY <3>1, <3>2, <4>3, <1>5 DEF Event
      <4> QED
        BY <4>1, <4>2, <4>3
    <3>3. CASE Stand(p[j]) # e
      <4>1. PICK k, l \in 1 .. Len(q) : k < l /\ p[i] = q[k] /\ p[j] = q[l]
        BY <1>2, <3>3 DEF Follows
      <4> QED
        BY <4>1, <1>5 DEF ReaderIs, InOrder
    <3> QED
      BY <3>2, <3>3
  <2>3. Replays(s.replay, b)
    BY <1>5 DEF ReaderIs, Replays
  <2>4. ASSUME NEW d \in b \intersect (r \union {e}), s.phase = "live"
        PROVE  Contains(s.replay, d) \/ Waits(p, d)
    <3>1. d \in critical \ g /\ d \in a
      BY <2>4, <1>5
    <3>2. CASE d = e
      BY <3>1, <3>2, <1>2
    <3>3. CASE d \in r
      BY <3>1, <3>3, <2>4, <1>2, <1>5 DEF ReaderIs
    <3> QED
      BY <2>4, <3>2, <3>3
  <2> QED
    BY <1>3, <1>5, <2>1, <2>2, <2>3, <2>4 DEF ReaderIs
<1> QED
  BY <1>3, <1>4, <1>5 DEF t, p, g

-----------------------------------------------------------------------------
(* The generator takes an item, or a row.                                  *)

(* What remains when the head is taken keeps its order behind the head.    *)
LEMMA HeadTaken ==
  ASSUME NEW q, QueueOK(q), q # <<>>
  PROVE  LET p == Tail(q)
             h == Head(q) IN
         /\ QueueOK(p) /\ h \in Item /\ Len(q) >= 1 /\ h = q[1]
         /\ h.kind # "overflow" /\ Tripped(q) => Tripped(p)
         /\ \A r : Dispatched(q, r) => Dispatched(p, r) /\ (Real(h) => Stand(h) \in r)
         /\ \A d : Waits(q, d) /\ ~(Real(h) /\ Stand(h) = d) => Waits(p, d)
         /\ \A x : InOrder(q, x) =>
              /\ InOrder(p, x)
              /\ Real(h) => \A d : Waits(q, d) /\ d \notin x => Stand(h) <= d
<1> DEFINE p == Tail(q)
           h == Head(q)
<1> USE EventStreamAssumption
<1>1. /\ q \in Seq(Item) /\ Len(q) \in Nat /\ Len(q) <= QueueSize
      /\ \A i \in 1 .. Len(q) : q[i].kind = "overflow" => q[i].id < MaxEvents
  BY DEF QueueOK
<1>2. /\ p \in Seq(Item) /\ Len(p) = Len(q) - 1 /\ h = q[1] /\ h \in Item /\ Len(q) >= 1
      /\ \A i \in 1 .. Len(q) - 1 : p[i] = q[i + 1]
  BY <1>1, TailIs
<1> HIDE DEF p, h
<1>3. /\ \A i \in 1 .. Len(p) : i + 1 \in 1 .. Len(q) /\ p[i] = q[i + 1]
      /\ \A i, j \in 1 .. Len(p) : i < j => i + 1 < j + 1
      /\ Len(p) \in Nat
  BY <1>1, <1>2
<1>4. ASSUME NEW i \in 1 .. Len(q), i # 1 PROVE \E j \in 1 .. Len(p) : p[j] = q[i]
  <2>1. i - 1 \in 1 .. Len(p) /\ i - 1 + 1 = i
    BY <1>1, <1>2, <1>4
  <2> QED
    BY <2>1, <1>3
<1>5. QueueOK(p)
  <2>1. Len(p) <= QueueSize
    BY <1>1, <1>2
  <2> QED
    BY <2>1, <1>1, <1>2, <1>3 DEF QueueOK
<1>6. h.kind # "overflow" /\ Tripped(q) => Tripped(p)
  BY <1>2, <1>4 DEF Tripped
<1>7. 1 \in 1 .. Len(q)
  BY <1>1, <1>2
<1>8. ASSUME NEW r, Dispatched(q, r)
      PROVE  Dispatched(p, r) /\ (Real(h) => Stand(h) \in r)
  BY <1>2, <1>3, <1>7, <1>8 DEF Dispatched
<1>9. ASSUME NEW d, Waits(q, d), ~(Real(h) /\ Stand(h) = d) PROVE Waits(p, d)
  <2>1. PICK i \in 1 .. Len(q) : Real(q[i]) /\ Stand(q[i]) = d
    BY <1>9 DEF Waits
  <2>2. i # 1
    BY <1>2, <1>9, <2>1
  <2> QED
    BY <1>4, <2>1, <2>2 DEF Waits
<1>10. ASSUME NEW x, InOrder(q, x) PROVE InOrder(p, x)
  <2> SUFFICES ASSUME NEW i \in 1 .. Len(p), NEW j \in 1 .. Len(p),
                      i < j, Real(p[i]), Real(p[j])
               PROVE  Stand(p[j]) \in x \/ Stand(p[i]) <= Stand(p[j])
    BY DEF InOrder
  <2>1. /\ i + 1 \in 1 .. Len(q) /\ j + 1 \in 1 .. Len(q) /\ i + 1 < j + 1
        /\ p[i] = q[i + 1] /\ p[j] = q[j + 1]
    BY <1>3
  <2> QED
    BY <2>1, <1>10 DEF InOrder
<1>11. ASSUME NEW x, InOrder(q, x), Real(h), NEW d, Waits(q, d), d \notin x
       PROVE  Stand(h) <= d
  <2>1. PICK i \in 1 .. Len(q) : Real(q[i]) /\ Stand(q[i]) = d
    BY <1>11 DEF Waits
  <2>2. Stand(h) \in Event
    BY <1>2, <1>7, <1>11, StandIs
  <2>3. CASE i = 1
    BY <1>2, <2>1, <2>2, <2>3 DEF Event
  <2>4. CASE i # 1
    <3>1. 1 < i
      BY <2>4
    <3> QED
      BY <3>1, <1>2, <1>7, <1>11, <2>1 DEF InOrder
  <2> QED
    BY <2>3, <2>4
<1> QED
  BY <1>2, <1>5, <1>6, <1>8, <1>9, <1>10, <1>11 DEF p, h

(* The rows of get_replay_events become the replay.                        *)
LEMMA ReplayPut ==
  ASSUME NEW s, ListenerOK(s), s.phase = "admitted", NEW f \in Seq(Event),
         Len(f) <= ReplayLimit, NEW t \in Listener, t.phase = "live", t.replay = f,
         t.queue = s.queue, t.dropped = s.dropped
  PROVE  /\ ListenerOK(t)
         /\ \A r, x, a, y, b :
              /\ ReaderIs(s, r, x, a) /\ x \subseteq y /\ b \subseteq a
              /\ Replays(f, b) /\ (\A e \in b \intersect r : Contains(f, e))
              => ReaderIs(t, r, y, b)
<1>1. ListenerOK(t)
  BY DEF ListenerOK
<1> QED
  BY <1>1 DEF ReaderIs, InOrder

(* The listener after the generator has yielded a row, or an item.         *)
RowGone(s)  == [s EXCEPT !.replay = Tail(@)]
ItemGone(s) == [s EXCEPT !.queue = Tail(@)]

(* A row of the replay is shown.                                           *)
LEMMA RowTaken ==
  ASSUME NEW s, ListenerOK(s), s.replay # <<>>
  PROVE  LET e == Head(s.replay)
             t == RowGone(s) IN
         /\ ListenerOK(t) /\ e \in Event /\ t.pod = s.pod
         /\ \A r, x, a, y, b :
              /\ ReaderIs(s, r, x, a) /\ a \subseteq Event /\ Moved(x, a, y, b)
              /\ (\A d \in a : d <= e /\ d \notin r => d \in y)
              /\ e \notin b
              => ReaderIs(t, r, y, b) /\ \A d \in b : e < d
<1> DEFINE f == s.replay
           e == Head(f)
           g == Tail(f)
           t == RowGone(s)
<1>1. s \in Listener /\ f \in Seq(Event) /\ Len(f) \in Nat
  BY DEF ListenerOK, Listener
<1>2. /\ g \in Seq(Event) /\ Len(g) = Len(f) - 1 /\ e = f[1] /\ e \in Event /\ Len(f) >= 1
      /\ \A i \in 1 .. Len(f) - 1 : g[i] = f[i + 1]
  BY <1>1, TailIs
<1> HIDE DEF g, e
<1>3. /\ t \in Listener /\ t.queue = s.queue /\ t.replay = g /\ t.phase = s.phase
      /\ t.pod = s.pod /\ t.dropped = s.dropped
  <2>1. t = [s EXCEPT !.replay = g]
    BY DEF RowGone, g
  <2> QED
    BY <1>1, <1>2, <2>1 DEF Listener
<1> HIDE DEF t
<1>4. ListenerOK(t)
  <2>1. ReplayLimit \in Nat /\ Len(f) <= ReplayLimit
    BY EventStreamAssumption DEF ListenerOK
  <2>2. Len(g) <= ReplayLimit
    BY <1>1, <1>2, <2>1
  <2> QED
    BY <1>3, <2>2 DEF ListenerOK
<1>5. \A d : Contains(f, d) /\ d # e => Contains(g, d)
  <2> SUFFICES ASSUME NEW i \in 1 .. Len(f), f[i] # e PROVE \E j \in 1 .. Len(g) : g[j] = f[i]
    BY DEF Contains
  <2>1. i - 1 \in 1 .. Len(g) /\ i - 1 \in 1 .. Len(f) - 1 /\ i - 1 + 1 = i
    BY <1>1, <1>2
  <2> QED
    BY <1>2, <2>1
<1>6. ASSUME NEW r, NEW x, NEW a, NEW y, NEW b,
             ReaderIs(s, r, x, a), a \subseteq Event, Moved(x, a, y, b),
             (\A d \in a : d <= e /\ d \notin r => d \in y), e \notin b
      PROVE  ReaderIs(t, r, y, b) /\ \A d \in b : e < d
  <2>1. Replays(f, a) /\ f # <<>> /\ s.phase # "admitted"
    BY <1>6 DEF ReaderIs, Moved
  <2>2. Replays(g, b)
    <3>1. \A i, j \in 1 .. Len(g) : i < j => g[i] < g[j]
      <4> SUFFICES ASSUME NEW i \in 1 .. Len(g), NEW j \in 1 .. Len(g), i < j
                   PROVE  g[i] < g[j]
        OBVIOUS
      <4>1. /\ i + 1 \in 1 .. Len(f) /\ j + 1 \in 1 .. Len(f) /\ i + 1 < j + 1
            /\ i \in 1 .. Len(f) - 1 /\ j \in 1 .. Len(f) - 1
        BY <1>1, <1>2
      <4>2. g[i] = f[i + 1] /\ g[j] = f[j + 1]
        BY <4>1, <1>2
      <4> QED
        BY <4>1, <4>2, <2>1 DEF Replays
    <3>2. ASSUME NEW i \in 1 .. Len(g), NEW d \in b, d < g[i] PROVE Contains(g, d)
      <4>1. i + 1 \in 1 .. Len(f) /\ g[i] = f[i + 1]
        BY <1>1, <1>2
      <4>2. Contains(f, d)
        BY <4>1, <3>2, <2>1, <1>6 DEF Replays, Moved
      <4> QED
        BY <4>2, <1>5, <1>6 DEF Moved
    <3> QED
      BY <3>1, <3>2 DEF Replays
  <2>3. ASSUME NEW d \in b PROVE e < d
    <3> SUFFICES ASSUME ~(e < d) PROVE FALSE
      OBVIOUS
    <3>1. d < e /\ d \in a
      BY <1>2, <1>6 DEF Event, Moved
    <3>2. 1 \in 1 .. Len(f)
      BY <1>1, <1>2
    <3>3. PICK i \in 1 .. Len(f) : f[i] = d
      BY <3>1, <3>2, <1>2, <2>1 DEF Replays, Contains
    <3>4. i # 1
      BY <1>2, <1>6, <3>3 DEF Moved
    <3>5. f[1] < f[i]
      BY <2>1, <3>2, <3>4 DEF Replays
    <3> QED
      BY <3>1, <3>3, <3>5, <1>2, <1>6 DEF Event, Moved
  <2>4. InOrder(s.queue, y)
    BY <1>6 DEF ReaderIs, InOrder, Moved
  <2>5. \A d \in b \intersect r : s.phase = "live" => Contains(g, d) \/ Waits(s.queue, d)
    BY <1>5, <1>6 DEF ReaderIs, Moved
  <2> QED
    BY <1>3, <1>6, <2>1, <2>2, <2>3, <2>4, <2>5 DEF ReaderIs, Moved
<1>7. \A r, x, a, y, b :
        /\ ReaderIs(s, r, x, a) /\ a \subseteq Event /\ Moved(x, a, y, b)
        /\ (\A d \in a : d <= e /\ d \notin r => d \in y)
        /\ e \notin b
        => ReaderIs(t, r, y, b) /\ \A d \in b : e < d
  <2> SUFFICES ASSUME NEW r, NEW x, NEW a, NEW y, NEW b,
                      ReaderIs(s, r, x, a), a \subseteq Event, Moved(x, a, y, b),
                      \A d \in a : d <= e /\ d \notin r => d \in y,
                      e \notin b
               PROVE  ReaderIs(t, r, y, b) /\ \A d \in b : e < d
    OBVIOUS
  <2> QED
    BY <1>6 DEF Moved
<1>8. ListenerOK(t) /\ e \in Event /\ t.pod = s.pod
  BY <1>2, <1>3, <1>4
<1> QED
  BY <1>7, <1>8 DEF t, e, Moved

(* An item of the queue is taken.                                          *)
LEMMA ItemTaken ==
  ASSUME NEW s, ListenerOK(s), s.queue # <<>>, s.phase = "live", s.replay = <<>>
  PROVE  LET h == Head(s.queue)
             t == ItemGone(s) IN
         /\ h \in Item /\ (Real(h) => Stand(h) \in Event) /\ QueueOK(s.queue)
         /\ h.kind # "overflow" => ListenerOK(t)
         /\ t.pod = s.pod
         /\ \A r, x, a : ReaderIs(s, r, x, a) /\ ~Real(h) => ReaderIs(t, r, x, a)
         /\ \A r, x, a, y, b :
              /\ ReaderIs(s, r, x, a) /\ a \subseteq Event /\ Moved(x, a, y, b) /\ Real(h)
              /\ Stand(h) \notin b
              => /\ ReaderIs(t, r, y, b)
                 /\ Stand(h) \in r
                 /\ (\A d \in a : d <= Stand(h) /\ d \notin r => d \in y)
                      => \A d \in b : Stand(h) < d
         /\ \A r, x, a, y, b :
              /\ ReaderIs(s, r, x, a) /\ a \subseteq Event /\ Moved(x, a, y, b)
              /\ h.kind = "overflow" /\ (\A d \in a : d <= h.id /\ d \notin r => d \in y)
              => \A d \in b : h.id < d
<1> DEFINE q == s.queue
           p == Tail(q)
           h == Head(q)
           t == ItemGone(s)
<1>1. s \in Listener /\ QueueOK(q) /\ q \in Seq(Item)
  BY DEF ListenerOK, QueueOK
<1>2. /\ QueueOK(p) /\ h \in Item /\ Len(q) >= 1 /\ h = q[1]
      /\ h.kind # "overflow" /\ Tripped(q) => Tripped(p)
      /\ \A r : Dispatched(q, r) => Dispatched(p, r) /\ (Real(h) => Stand(h) \in r)
      /\ \A d : Waits(q, d) /\ ~(Real(h) /\ Stand(h) = d) => Waits(p, d)
      /\ \A x : InOrder(q, x) =>
              /\ InOrder(p, x)
              /\ Real(h) => \A d : Waits(q, d) /\ d \notin x => Stand(h) <= d
  BY <1>1, HeadTaken
<1>3. Real(h) => Stand(h) \in Event
  <2>1. 1 \in 1 .. Len(q)
    BY <1>1, <1>2
  <2> QED
    BY <1>1, <1>2, <2>1, StandIs
<1> HIDE DEF p, h
<1>4. /\ t \in Listener /\ t.queue = p /\ t.replay = s.replay /\ t.phase = s.phase
      /\ t.pod = s.pod /\ t.dropped = s.dropped
  <2>1. t = [s EXCEPT !.queue = p]
    BY DEF ItemGone, p
  <2> QED
    BY <1>1, <1>2, <2>1 DEF Listener, QueueOK
<1> HIDE DEF t
<1>5. h.kind # "overflow" => ListenerOK(t)
  BY <1>2, <1>4 DEF ListenerOK
<1>6. \A d : ~Contains(<<>>, d)
  BY DEF Contains
<1>7. ASSUME NEW r, NEW x, NEW a, ReaderIs(s, r, x, a), ~Real(h) PROVE ReaderIs(t, r, x, a)
  BY <1>2, <1>4, <1>7 DEF ReaderIs
<1>8. ASSUME NEW r, NEW x, NEW a, NEW y, NEW b,
             ReaderIs(s, r, x, a), a \subseteq Event, Moved(x, a, y, b), Real(h),
             Stand(h) \notin b
      PROVE  /\ ReaderIs(t, r, y, b) /\ Stand(h) \in r
             /\ (\A d \in a : d <= Stand(h) /\ d \notin r => d \in y)
                  => \A d \in b : Stand(h) < d
  <2>1. Dispatched(p, r) /\ Stand(h) \in r /\ InOrder(q, x) /\ InOrder(p, x)
    BY <1>2, <1>8 DEF ReaderIs, Moved
  <2>2. InOrder(p, y)
    BY <2>1, <1>8 DEF InOrder, Moved
  <2>3. \A d \in b \intersect r : Waits(q, d)
    BY <1>6, <1>8 DEF ReaderIs, Moved
  <2>4. \A d \in b \intersect r : Waits(p, d)
    BY <2>3, <1>2, <1>8 DEF Moved
  <2>5. Replays(s.replay, b)
    BY <1>8 DEF ReaderIs, Replays, Moved
  <2>6. ReaderIs(t, r, y, b)
    BY <1>4, <1>8, <2>1, <2>2, <2>4, <2>5 DEF ReaderIs, Moved
  <2>7. ASSUME (\A d \in a : d <= Stand(h) /\ d \notin r => d \in y), NEW d \in b
        PROVE  Stand(h) < d
    <3> SUFFICES ASSUME ~(Stand(h) < d) PROVE FALSE
      OBVIOUS
    <3>1. d <= Stand(h) /\ d \in Event /\ Stand(h) \in Event
      BY <1>3, <1>8 DEF Event, Moved
    <3>2. d \in r /\ d \notin x
      BY <3>1, <2>7, <1>8 DEF Moved
    <3>3. Stand(h) <= d
      BY <3>2, <2>1, <2>3, <1>2, <1>8 DEF Moved
    <3> QED
      BY <3>1, <3>3, <1>8 DEF Event, Moved
  <2> QED
    BY <2>1, <2>6, <2>7
<1>9. ASSUME NEW r, NEW x, NEW a, NEW y, NEW b,
             ReaderIs(s, r, x, a), a \subseteq Event, Moved(x, a, y, b),
             h.kind = "overflow", (\A d \in a : d <= h.id /\ d \notin r => d \in y), NEW d \in b
      PROVE  h.id < d
  <2> SUFFICES ASSUME ~(h.id < d) PROVE FALSE
    OBVIOUS
  <2>1. Real(h) /\ Stand(h) = h.id + 1 /\ h.id \in Nat /\ d \in Event /\ InOrder(q, x)
    BY <1>2, <1>9, ItemIs DEF Real, Stand, ReaderIs, Moved
  <2>2. d <= h.id
    BY <2>1 DEF Event
  <2>3. d \in r /\ d \notin x /\ d \in a
    BY <2>2, <1>9 DEF Moved
  <2>4. Waits(q, d)
    BY <2>3, <1>6, <1>9 DEF ReaderIs, Moved
  <2>5. Stand(h) <= d
    BY <2>1, <2>3, <2>4, <1>2
  <2> QED
    BY <2>1, <2>2, <2>5 DEF Event
<1> QED
  BY <1>1, <1>2, <1>3, <1>4, <1>5, <1>7, <1>8, <1>9 DEF t, h

-----------------------------------------------------------------------------
(* The inductive invariant.                                                *)

(* Rows whose transaction has committed.                                   *)
Settled == {e \in Event : row[e] \in {"committed", "pruned"}}

(* Cursors are drawn in order; only settled events are published.          *)
RowsOK ==
  /\ row \in [Event -> {"none", "open", "committed", "void", "pruned"}]
  /\ origin \in [Event -> Pod \union {None}]
  /\ \A e \in Drawn : origin[e] \in Pod
  /\ \A d, e \in Event : d < e /\ e \in Drawn => d \in Drawn
  /\ critical \subseteq Event /\ unpublished \subseteq Committed
  /\ outgoing \in [Pod -> Seq(Settled)] /\ reached \in [Pod -> SUBSET Settled]
  /\ up \in [Pod -> {"up", "stopping", "down"}]
  /\ relay \in [Pod -> {"none", "starting", "on", "failed"}]
  /\ excused \subseteq Event

(* Critical events that may still have to be shown.                        *)
Awaited ==
  {e \in critical : row[e] \in {"open", "committed"} /\ e \notin excused /\ shown[e] = 0}

(* What is remembered has been shown, and nothing awaited is behind the    *)
(* cursor.                                                                 *)
HookOK ==
  /\ tab \in {"connecting", "open", "waiting", "stuck"}
  /\ via \in Conn \union {None}
  /\ (tab = "open") <=> (via # None)
  /\ via # None => stream[via] # None
  /\ lastId = 0 \/ lastId \in Drawn
  /\ seen \in Seq(Event) /\ Len(seen) <= History
  /\ shown \in [Event -> Nat]
  /\ \A i \in 1 .. Len(seen) : shown[seen[i]] > 0
  /\ \A e \in Awaited : lastId < e

(* The tab's own listener.                                                 *)
ReaderOK ==
  via # None =>
    /\ ReaderIs(stream[via], reached[stream[via].pod], excused, Awaited)
    /\ \A i \in 1 .. Len(stream[via].replay) : stream[via].replay[i] \in Drawn

(* Redis counts every admitted listener while it answers.                  *)
CountsOK ==
  /\ counted \in 0 .. MaxStreams /\ fallback \in [Pod -> Nat]
  /\ timers \in 0 .. MaxTimers /\ faults \in 0 .. MaxFaults /\ uncounted \in BOOLEAN
  /\ IsFiniteSet(Open)
  /\ uncounted \/ Cardinality(Open) <= counted

(* The inductive invariant.                                                *)
VInd == RowsOK /\ StreamsOK /\ HookOK /\ ReaderOK /\ CountsOK

(* A sequence over a set is one over any greater set.                      *)
LEMMA SeqGrows ==
  ASSUME NEW S, NEW T, S \subseteq T, NEW q \in Seq(S)
  PROVE  q \in Seq(T)
<1>1. \A i \in 1 .. Len(q) : q[i] \in T
  OBVIOUS
<1>2. q = [i \in 1 .. Len(q) |-> q[i]] /\ Len(q) \in Nat
  OBVIOUS
<1> QED
  BY <1>1, <1>2

(* What the invariant says.                                                *)
LEMMA VIndImplies ==
  ASSUME VInd
  PROVE  VTypeOK /\ LossIsSignalled /\ InOrderIsShown /\ CapHolds
<1> USE EventStreamAssumption
<1>1. RowsOK /\ StreamsOK /\ HookOK /\ CountsOK
  BY DEF VInd
<1>2. stream \in [Conn -> Stream \union {None}]
  <2>1. \A c \in Conn : stream[c] # None => stream[c] \in Stream
    BY <1>1, ListenerType DEF StreamsOK
  <2> QED
    BY <1>1, <2>1 DEF StreamsOK
<1>3. VTypeOK
  <2>1. outgoing \in [Pod -> Seq(Event)]
    <3>1. \A p \in Pod : outgoing[p] \in Seq(Event)
      <4>1. Settled \subseteq Event
        BY DEF Settled
      <4> QED
        BY <1>1, <4>1, SeqGrows DEF RowsOK
    <3> QED
      BY <1>1, <3>1 DEF RowsOK
  <2>2. reached \in [Pod -> SUBSET Event]
    BY <1>1 DEF RowsOK, Settled
  <2>3. lastId \in 0 .. MaxEvents
    BY <1>1 DEF HookOK, Drawn, Event
  <2>4. seen \in BoundedSeq(Event, History)
    BY <1>1, BoundedIs DEF HookOK
  <2>5. counted \in Nat
    BY <1>1 DEF CountsOK
  <2> QED
    BY <1>1, <1>2, <2>1, <2>2, <2>3, <2>4, <2>5 DEF VTypeOK, RowsOK, HookOK, CountsOK
<1>4. LossIsSignalled
  <2> SUFFICES ASSUME NEW c \in Open, Listening(c), stream[c].dropped # {}
               PROVE  \E i \in DOMAIN stream[c].queue : stream[c].queue[i].kind = "overflow"
    BY DEF LossIsSignalled
  <2>1. ListenerOK(stream[c])
    BY <1>1 DEF StreamsOK, Open
  <2>2. Tripped(stream[c].queue) /\ DOMAIN stream[c].queue = 1 .. Len(stream[c].queue)
    BY <2>1 DEF ListenerOK, Listening, QueueOK
  <2> QED
    BY <2>2 DEF Tripped
<1>5. InOrderIsShown
  <2> SUFFICES ASSUME NEW e \in (critical \intersect Committed) \ excused,
                      e <= lastId, ~(shown[e] > 0)
               PROVE  FALSE
    BY DEF InOrderIsShown
  <2>1. e \in Event /\ shown[e] \in Nat /\ lastId \in Nat
    BY <1>1 DEF HookOK, RowsOK, Event, Drawn
  <2>2. e \in Awaited
    BY <2>1 DEF Awaited, Committed
  <2> QED
    BY <1>1, <2>1, <2>2 DEF HookOK, Event
<1>6. CapHolds
  <2>1. IsFiniteSet(Open) /\ counted <= MaxStreams /\ counted \in Nat
    BY <1>1 DEF CountsOK
  <2>2. Cardinality(Open) \in Nat
    BY <2>1, FS_CardinalityType
  <2> QED
    BY <1>1, <2>1, <2>2 DEF CountsOK, CapHolds
<1> QED
  BY <1>3, <1>4, <1>5, <1>6

(* Nothing has happened.                                                   *)
LEMMA VInitInd == VInit => VInd
<1> SUFFICES ASSUME VInit PROVE VInd
  OBVIOUS
<1> USE EventStreamAssumption
<1>1. RowsOK
  <2>1. \A e \in Event : row[e] = "none"
    BY DEF VInit
  <2>2. Drawn = {} /\ \A p \in Pod : outgoing[p] = <<>> /\ reached[p] = {}
    BY <2>1 DEF Drawn, VInit
  <2>3. outgoing \in [Pod -> Seq(Settled)] /\ reached \in [Pod -> SUBSET Settled]
    BY DEF VInit
  <2> QED
    BY <2>2, <2>3 DEF RowsOK, VInit
<1>2. StreamsOK
  BY DEF StreamsOK, VInit
<1>3. HookOK
  <2>1. seen \in Seq(Event) /\ Len(seen) = 0
    BY DEF VInit
  <2>2. \A e \in Event : row[e] = "none"
    BY DEF VInit
  <2>3. Awaited = {}
    BY <2>2 DEF Awaited, VInit
  <2> QED
    BY <2>1, <2>3 DEF HookOK, VInit
<1>4. ReaderOK
  BY DEF ReaderOK, VInit
<1>5. CountsOK
  <2>1. Open = {}
    BY DEF Open, VInit
  <2> QED
    <3>1. IsFiniteSet(Open) /\ Cardinality(Open) = 0
      BY <2>1, FS_EmptySet
    <3>2. /\ counted \in 0 .. MaxStreams /\ timers \in 0 .. MaxTimers
          /\ faults \in 0 .. MaxFaults /\ counted = 0
      BY DEF VInit
    <3>3. fallback \in [Pod -> Nat] /\ uncounted \in BOOLEAN
      BY DEF VInit
    <3>4. Cardinality(Open) <= counted
      BY <3>1, <3>2
    <3> QED
      BY <3>1, <3>2, <3>3, <3>4 DEF CountsOK
<1> QED
  BY <1>1, <1>2, <1>3, <1>4, <1>5 DEF VInd

-----------------------------------------------------------------------------
(* What a step that leaves a part alone does to it.                        *)

(* The database and the pods stand still.                                  *)
LEMMA RowsSame ==
  ASSUME RowsOK, excused' \subseteq Event,
         UNCHANGED <<row, origin, critical, unpublished, outgoing, up, relay, reached>>
  PROVE  RowsOK'
<1>1. Settled' = Settled /\ Committed' = Committed /\ Drawn' = Drawn
  BY DEF Settled, Committed, Drawn
<1> QED
  BY <1>1 DEF RowsOK

(* Only the subscriptions and the excused events change.                   *)
LEMMA RelayStep ==
  ASSUME RowsOK, excused' \subseteq Event,
         UNCHANGED <<row, origin, critical, unpublished, outgoing, up, reached>>,
         relay' \in [Pod -> {"none", "starting", "on", "failed"}]
  PROVE  RowsOK'
<1>1. Settled' = Settled /\ Committed' = Committed /\ Drawn' = Drawn
  BY DEF Settled, Committed, Drawn
<1> QED
  BY <1>1 DEF RowsOK

(* Rows go on: nothing that has been drawn is undrawn, settled is settled. *)
LEMMA RowsStep ==
  ASSUME RowsOK, row' \in [Event -> {"none", "open", "committed", "void", "pruned"}],
         \A e \in Event : row[e] # "none" <=> row'[e] # "none",
         \A e \in Settled : row'[e] \in {"committed", "pruned"},
         UNCHANGED <<origin, critical, excused, reached>>,
         unpublished' \subseteq {e \in Event : row'[e] = "committed"},
         outgoing' \in [Pod -> Seq(Settled)],
         up' \in [Pod -> {"up", "stopping", "down"}],
         relay' \in [Pod -> {"none", "starting", "on", "failed"}]
  PROVE  RowsOK'
<1>1. Settled \subseteq Settled' /\ Drawn' = Drawn
      /\ Committed' = {e \in Event : row'[e] = "committed"}
  BY DEF Settled, Drawn, Committed
<1>2. outgoing' \in [Pod -> Seq(Settled')]
  <2>1. \A p \in Pod : outgoing'[p] \in Seq(Settled')
    BY <1>1, SeqGrows
  <2> QED
    BY <2>1
<1>3. reached' \in [Pod -> SUBSET Settled']
  BY <1>1 DEF RowsOK
<1> QED
  BY <1>1, <1>2, <1>3 DEF RowsOK

(* No event is awaited anew when rows only settle and shown only grows.    *)
LEMMA AwaitedLess ==
  ASSUME RowsOK, HookOK, critical' = critical, excused \subseteq excused',
         \A e \in Event : row'[e] \in {"open", "committed"} => row[e] \in {"open", "committed"},
         \A e \in Event : shown'[e] = 0 => shown[e] = 0
  PROVE  Awaited' \subseteq Awaited
  BY DEF Awaited, RowsOK

(* The tab stands still.                                                   *)
LEMMA HookSame ==
  ASSUME HookOK, UNCHANGED hook, Awaited' \subseteq Awaited, Drawn \subseteq Drawn',
         via # None => stream'[via] # None
  PROVE  HookOK'
  BY DEF HookOK, hook

(* The tab's listener stands still.                                        *)
LEMMA ReaderSame ==
  ASSUME ReaderOK, UNCHANGED <<via, reached>>, via # None => stream'[via] = stream[via],
         excused \subseteq excused', Awaited' \subseteq Awaited, Drawn \subseteq Drawn'
  PROVE  ReaderOK'
  BY Fewer DEF ReaderOK

(* The tab's listener after the step decides.                              *)
LEMMA ReaderNow ==
  ASSUME via' = via,
         via # None =>
           /\ ReaderIs(stream'[via], reached'[stream'[via].pod], excused', Awaited')
           /\ \A i \in 1 .. Len(stream'[via].replay) : stream'[via].replay[i] \in Drawn'
  PROVE  ReaderOK'
  BY DEF ReaderOK

(* The counters stand still.                                               *)
LEMMA CountsSame ==
  ASSUME CountsOK, UNCHANGED counters, uncounted' = uncounted,
         timers' \in 0 .. MaxTimers, faults' \in 0 .. MaxFaults, Open' = Open
  PROVE  CountsOK'
  BY DEF CountsOK, counters

(* A fault stays within its bound.                                         *)
LEMMA FaultFits ==
  ASSUME CountsOK, Fault
  PROVE  timers' \in 0 .. MaxTimers /\ faults' \in 0 .. MaxFaults
  BY EventStreamAssumption DEF CountsOK, Fault

(* A timer stays within its bound.                                         *)
LEMMA TimerFits ==
  ASSUME CountsOK, TimerFires, faults' = faults
  PROVE  timers' \in 0 .. MaxTimers /\ faults' \in 0 .. MaxFaults
  BY EventStreamAssumption DEF CountsOK, TimerFires

(* A step of the database or of Redis, which listeners and tab do not see. *)
LEMMA BehindTheScenes ==
  ASSUME VInd, RowsOK', UNCHANGED <<stream, hook, reached, critical, excused, counters, uncounted>>,
         Drawn \subseteq Drawn',
         \A e \in Event : row'[e] \in {"open", "committed"} => row[e] \in {"open", "committed"},
         timers' \in 0 .. MaxTimers, faults' \in 0 .. MaxFaults
  PROVE  VInd'
<1>1. RowsOK /\ StreamsOK /\ HookOK /\ ReaderOK /\ CountsOK
  BY DEF VInd
<1>2. Awaited' \subseteq Awaited
  <2>1. UNCHANGED <<shown, via>>
    BY DEF hook
  <2> QED
    BY <1>1, <2>1, AwaitedLess
<1>3. HookOK'
  BY <1>1, <1>2, HookSame DEF HookOK
<1>4. ReaderOK'
  BY <1>1, <1>2, ReaderSame DEF hook
<1>5. Open' = Open
  BY DEF Open
<1>6. CountsOK'
  BY <1>1, <1>5, CountsSame
<1>7. StreamsOK'
  BY <1>1 DEF StreamsOK
<1> QED
  BY <1>3, <1>4, <1>6, <1>7 DEF VInd

-----------------------------------------------------------------------------
(* Transactions, Redis and subscriptions.                                  *)

(* A new cursor is greater than everything drawn, so nothing is behind it. *)
LEMMA DrawStep ==
  ASSUME VInd, NEW p \in Pod, Draw(p)
  PROVE  VInd'
<1>0. RowsOK /\ StreamsOK /\ HookOK /\ ReaderOK /\ CountsOK
  BY DEF VInd
<1>1. PICK e \in Event :
        /\ row[e] = "none" /\ \A d \in 1 .. e - 1 : row[d] # "none"
        /\ row' = [row EXCEPT ![e] = "open"] /\ origin' = [origin EXCEPT ![e] = p]
        /\ critical' \subseteq critical \union {e}
  BY DEF Draw
<1>2. /\ UNCHANGED <<unpublished, outgoing, up, relay, reached, stream, counted, fallback>>
      /\ UNCHANGED <<tab, via, lastId, seen, shown, excused, timers, faults, uncounted>>
  BY DEF Draw, pods, counters, hook, bounds
<1>3. /\ Drawn' = Drawn \union {e} /\ Settled' = Settled /\ Committed' = Committed
      /\ e \notin Drawn
  BY <1>0, <1>1 DEF Drawn, Settled, Committed, RowsOK
<1>4. \A d \in Drawn : d < e
  BY <1>0, <1>1, <1>3 DEF RowsOK, Event, Drawn
<1>5. RowsOK'
  <2>1. /\ row' \in [Event -> {"none", "open", "committed", "void", "pruned"}]
        /\ origin' \in [Event -> Pod \union {None}]
    BY <1>0, <1>1 DEF RowsOK
  <2>2. \A d \in Drawn' : origin'[d] \in Pod
    BY <1>0, <1>1, <1>3 DEF RowsOK
  <2>3. ASSUME NEW d \in Event, NEW f \in Event, d < f, f \in Drawn' PROVE d \in Drawn'
    <3>1. CASE f = e
      <4>1. d \in 1 .. e - 1
        BY <2>3, <3>1 DEF Event
      <4> QED
        BY <4>1, <1>1, <1>3 DEF Drawn
    <3>2. CASE f \in Drawn
      BY <3>2, <2>3, <1>0, <1>3 DEF RowsOK
    <3> QED
      BY <2>3, <3>1, <3>2, <1>3
  <2>4. critical' \subseteq Event
    BY <1>0, <1>1 DEF RowsOK
  <2> QED
    BY <1>0, <1>2, <1>3, <2>1, <2>2, <2>3, <2>4 DEF RowsOK
<1>6. Awaited' \subseteq Awaited \union {e}
  BY <1>0, <1>1, <1>2 DEF Awaited, RowsOK
<1>7. lastId < e
  BY <1>0, <1>4, EventStreamAssumption DEF HookOK, Event
<1>8. HookOK'
  BY <1>0, <1>2, <1>3, <1>6, <1>7 DEF HookOK
<1>9. ReaderOK'
  <2> SUFFICES ASSUME via # None
               PROVE  ReaderIs(stream[via], reached[stream[via].pod], excused, Awaited')
    BY <1>0, <1>2, <1>3 DEF ReaderOK
  <2> DEFINE s == stream[via]
             r == reached[s.pod]
  <2>1. ReaderIs(s, r, excused, Awaited) /\ ListenerOK(s) /\ s.pod \in Pod /\ s \in Listener
    BY <1>0 DEF ReaderOK, HookOK, StreamsOK, ListenerOK, Listener
  <2>2. e \notin r
    BY <2>1, <1>0, <1>3 DEF RowsOK, Settled, Drawn
  <2>3. \A i \in 1 .. Len(s.replay) : ~(e < s.replay[i])
    BY <1>0, <1>4 DEF ReaderOK, Drawn, Event
  <2>4. Replays(s.replay, Awaited')
    BY <2>1, <2>3, <1>6 DEF ReaderIs, Replays
  <2> QED
    BY <2>1, <2>2, <2>4, <1>6 DEF ReaderIs
<1>10. Open' = Open
  BY <1>2 DEF Open
<1> QED
  BY <1>0, <1>2, <1>5, <1>8, <1>9, <1>10 DEF VInd, StreamsOK, CountsOK

(* Commit, rollback, pruning and an aborted transaction: rows go on.       *)
(* Commit: the row is settled, still unpublished.                          *)
LEMMA CommitStep ==
  ASSUME VInd, NEW e \in Event, Commit(e)
  PROVE  VInd'
<1>0. RowsOK /\ StreamsOK /\ HookOK /\ ReaderOK /\ CountsOK
  BY DEF VInd
<1>1. RowsOK'
  <2>1. \A d \in Committed : row'[d] = "committed"
    BY <1>0 DEF Commit, Committed, RowsOK
  <2>2. unpublished' \subseteq {d \in Event : row'[d] = "committed"}
    BY <1>0, <2>1 DEF Commit, Committed, RowsOK
  <2>3. \A d \in Settled : row'[d] \in {"committed", "pruned"}
    BY <1>0 DEF Commit, Settled, RowsOK
  <2> QED
    BY <1>0, <2>2, <2>3, RowsStep DEF RowsOK, Commit
<1>2. Drawn \subseteq Drawn'
  BY <1>0 DEF Commit, Drawn, RowsOK
<1> QED
  BY <1>0, <1>1, <1>2, BehindTheScenes DEF Commit, RowsOK, CountsOK, bounds

(* Rollback: the row is awaited no longer.                                 *)
LEMMA RollbackStep ==
  ASSUME VInd, NEW e \in Event, Rollback(e)
  PROVE  VInd'
<1>0. RowsOK /\ StreamsOK /\ HookOK /\ ReaderOK /\ CountsOK
  BY DEF VInd
<1>1. RowsOK'
  <2>1. unpublished' \subseteq {d \in Event : row'[d] = "committed"}
    BY <1>0 DEF Rollback, Committed, RowsOK, pods
  <2>2. \A d \in Settled : row'[d] \in {"committed", "pruned"}
    BY <1>0 DEF Rollback, Settled, RowsOK
  <2> QED
    BY <1>0, <2>1, <2>2, RowsStep DEF RowsOK, Rollback, pods
<1>2. Drawn \subseteq Drawn'
  BY <1>0 DEF Rollback, Drawn, RowsOK
<1> QED
  BY <1>0, <1>1, <1>2, BehindTheScenes DEF Rollback, RowsOK, CountsOK, bounds, pods

(* Retention: pruned rows are awaited no longer.                           *)
LEMMA PruneStep ==
  ASSUME VInd, Prune
  PROVE  VInd'
<1>0. RowsOK /\ StreamsOK /\ HookOK /\ ReaderOK /\ CountsOK
  BY DEF VInd
<1>1. PICK k \in Committed :
        /\ \A e \in 1 .. k : row[e] # "open" /\ e \notin unpublished
        /\ row' = [e \in Event |-> IF e <= k /\ row[e] = "committed" THEN "pruned" ELSE row[e]]
  BY DEF Prune
<1>2. RowsOK'
  <2>1. \A e \in unpublished : ~(e <= k)
    BY <1>0, <1>1 DEF RowsOK, Event, Committed
  <2>2. unpublished' \subseteq {d \in Event : row'[d] = "committed"}
    BY <1>0, <1>1, <2>1 DEF Prune, Committed, RowsOK, pods
  <2>3. \A d \in Settled : row'[d] \in {"committed", "pruned"}
    BY <1>0, <1>1 DEF Settled, RowsOK
  <2> QED
    BY <1>0, <1>1, <2>2, <2>3, RowsStep DEF RowsOK, Prune, pods
<1>3. Drawn \subseteq Drawn'
  BY <1>0, <1>1 DEF Drawn, RowsOK
<1>4. timers' \in 0 .. MaxTimers /\ faults' \in 0 .. MaxFaults
  BY <1>0, TimerFits DEF Prune
<1> QED
  BY <1>0, <1>1, <1>2, <1>3, <1>4, BehindTheScenes DEF Prune, RowsOK, pods

(* A message for Redis is lost; no queue sees it.                          *)
LEMMA RelayErrorStep ==
  ASSUME VInd, NEW p \in Pod, RelayError(p)
  PROVE  VInd'
<1>0. RowsOK /\ StreamsOK /\ HookOK /\ ReaderOK /\ CountsOK
  BY DEF VInd
<1>1. outgoing' \in [Pod -> Seq(Settled)]
  <2>1. Tail(outgoing[p]) \in Seq(Settled)
    BY <1>0, TailIs DEF RelayError, RowsOK
  <2> QED
    BY <1>0, <2>1 DEF RelayError, RowsOK
<1>2. RowsOK'
  <2>1. \A d \in Settled : row'[d] \in {"committed", "pruned"}
    BY DEF RelayError, db, Settled
  <2> QED
    BY <1>0, <1>1, <2>1, RowsStep DEF RelayError, db, RowsOK, Committed
<1>3. timers' \in 0 .. MaxTimers /\ faults' \in 0 .. MaxFaults
  BY <1>0, FaultFits DEF RelayError
<1> QED
  BY <1>0, <1>2, <1>3, BehindTheScenes DEF RelayError, db, Drawn

(* The subscription of a pod comes up, or fails.                           *)
LEMMA SubscribeStep ==
  ASSUME VInd, NEW p \in Pod, Subscribe(p) \/ SubscribeError(p)
  PROVE  VInd'
<1>0. RowsOK /\ StreamsOK /\ HookOK /\ ReaderOK /\ CountsOK
  BY DEF VInd
<1>1. UNCHANGED <<row, origin, critical, unpublished, outgoing, up, reached, excused>>
  BY DEF Subscribe, SubscribeError, db
<1>2. RowsOK'
  <2>1. relay' \in [Pod -> {"none", "starting", "on", "failed"}]
    BY <1>0 DEF Subscribe, SubscribeError, RowsOK
  <2> QED
    BY <1>0, <1>1, <2>1, RelayStep DEF RowsOK
<1>3. timers' \in 0 .. MaxTimers /\ faults' \in 0 .. MaxFaults
  BY <1>0, FaultFits DEF Subscribe, SubscribeError, CountsOK, bounds
<1> QED
  BY <1>0, <1>1, <1>2, <1>3, BehindTheScenes DEF Subscribe, SubscribeError, bounds, Drawn

(* A pod comes back with nothing.                                          *)
LEMMA RestartStep ==
  ASSUME VInd, NEW p \in Pod, Restart(p)
  PROVE  VInd'
<1>0. RowsOK /\ StreamsOK /\ HookOK /\ ReaderOK /\ CountsOK
  BY DEF VInd
<1>1. UNCHANGED <<row, origin, critical, unpublished, outgoing, relay, reached, excused>>
  BY DEF Restart, db
<1>2. RowsOK'
  <2>1. up' \in [Pod -> {"up", "stopping", "down"}]
    BY <1>0 DEF Restart, RowsOK
  <2>2. \A d \in Settled : row'[d] \in {"committed", "pruned"}
    BY <1>1 DEF Settled
  <2> QED
    BY <1>0, <1>1, <2>1, <2>2, RowsStep DEF RowsOK, Committed
<1> QED
  BY <1>0, <1>1, <1>2, BehindTheScenes DEF Restart, bounds, Drawn, CountsOK

-----------------------------------------------------------------------------
(* Frames and events for every listener of a pod.                          *)

(* A control frame wherever there is room.                                 *)
LEMMA ControlStep ==
  ASSUME VInd, RowsOK', NEW p \in Pod, NEW k \in {"heartbeat", "shutdown"},
         stream' = [c \in Conn |->
           IF c \in On(p) /\ Listening(c) /\ Len(stream[c].queue) < QueueSize
           THEN [stream[c] EXCEPT !.queue = Append(@, Control(k))] ELSE stream[c]],
         UNCHANGED <<row, critical, reached, excused, hook, counters, uncounted>>,
         timers' \in 0 .. MaxTimers, faults' \in 0 .. MaxFaults
  PROVE  VInd'
<1>0. RowsOK /\ StreamsOK /\ HookOK /\ ReaderOK /\ CountsOK
  BY DEF VInd
<1>1. ASSUME NEW c \in Conn, stream[c] # None
      PROVE  /\ ListenerOK(stream'[c]) /\ stream'[c].pod = stream[c].pod
             /\ stream'[c].replay = stream[c].replay
             /\ \A r, x, a : ReaderIs(stream[c], r, x, a) => ReaderIs(stream'[c], r, x, a)
  <2>1. ListenerOK(stream[c]) /\ stream[c] \in Listener
    BY <1>0, <1>1 DEF StreamsOK, ListenerOK
  <2>2. CASE c \in On(p) /\ Listening(c) /\ Len(stream[c].queue) < QueueSize
    <3>1. stream'[c] = [stream[c] EXCEPT !.queue = Append(@, Control(k))]
      BY <2>2
    <3>2. stream'[c].replay = stream[c].replay
      BY <3>1, <2>1 DEF Listener
    <3> QED
      BY <3>1, <3>2, <2>1, <2>2, ControlPut
  <2>3. CASE ~(c \in On(p) /\ Listening(c) /\ Len(stream[c].queue) < QueueSize)
    <3>1. stream'[c] = stream[c]
      BY <2>3
    <3> QED
      BY <3>1, <2>1
  <2> QED
    BY <2>2, <2>3
<1>2. \A c \in Conn : stream[c] = None => stream'[c] = None
  BY DEF On, Open
<1>3. \A c \in Conn : stream[c] # None => stream'[c] \in Listener /\ stream'[c] # None
  <2>1. \A s : ListenerOK(s) => s # None
    BY ListenerType, NoneIsNoStream
  <2> QED
    BY <1>1, <2>1 DEF ListenerOK
<1>4. StreamsOK'
  <2>1. stream' \in [Conn -> Listener \union {None}]
    <3>1. \A c \in Conn : stream'[c] \in Listener \union {None}
      BY <1>2, <1>3
    <3>2. stream' = [c \in Conn |-> stream'[c]]
      OBVIOUS
    <3> QED
      BY <3>1, <3>2
  <2> QED
    BY <1>1, <1>2, <2>1 DEF StreamsOK
<1>5. Awaited' = Awaited /\ Drawn' = Drawn /\ UNCHANGED <<via, lastId>>
  BY DEF Awaited, Drawn, hook
<1>u. Drawn' = Drawn /\ via' = via /\ excused' = excused /\ reached' = reached
  BY <1>5
<1>6. HookOK'
  <2>1. via # None => stream'[via] # None
    BY <1>0, <1>3 DEF HookOK
  <2> QED
    BY <1>0, <2>1, <1>5, HookSame
<1>7. ReaderOK'
  <2> SUFFICES ASSUME via # None
               PROVE  /\ ReaderIs(stream'[via], reached'[stream'[via].pod], excused', Awaited')
                      /\ \A i \in 1 .. Len(stream'[via].replay) : stream'[via].replay[i] \in Drawn'
    BY <1>u, ReaderNow
  <2>1. via \in Conn /\ stream[via] # None
    BY <1>0 DEF HookOK
  <2>2. /\ ReaderIs(stream[via], reached[stream[via].pod], excused, Awaited)
        /\ \A i \in 1 .. Len(stream[via].replay) : stream[via].replay[i] \in Drawn
    BY <1>0 DEF ReaderOK
  <2> QED
    BY <1>1, <1>5, <1>u, <2>1, <2>2
<1>8. Open' = Open
  BY <1>2, <1>3 DEF Open
<1>9. CountsOK'
  BY <1>0, <1>8, CountsSame
<1> QED
  BY <1>4, <1>6, <1>7, <1>9 DEF VInd

(* _heartbeat_loop.                                                        *)
LEMMA HeartbeatStep ==
  ASSUME VInd, NEW p \in Pod, Heartbeat(p)
  PROVE  VInd'
<1>0. RowsOK /\ CountsOK
  BY DEF VInd
<1>1. UNCHANGED <<row, origin, critical, unpublished, outgoing, up, relay, reached, excused>>
  BY DEF Heartbeat, db, pods
<1>2. RowsOK'
  BY <1>0, <1>1, RowsSame DEF RowsOK
<1>3. timers' \in 0 .. MaxTimers /\ faults' \in 0 .. MaxFaults
  BY <1>0, TimerFits DEF Heartbeat
<1> QED
  BY <1>1, <1>2, <1>3, ControlStep DEF Heartbeat

(* EventBroadcaster.stop.                                                  *)
LEMMA StopStep ==
  ASSUME VInd, NEW p \in Pod, Stop(p)
  PROVE  VInd'
<1>0. RowsOK /\ CountsOK
  BY DEF VInd
<1>1. UNCHANGED <<row, origin, critical, unpublished, reached, excused>>
  BY DEF Stop, db
<1>2. RowsOK'
  <2>1. \A d \in Settled : row'[d] \in {"committed", "pruned"}
    BY <1>1 DEF Settled
  <2>2. /\ up' \in [Pod -> {"up", "stopping", "down"}]
        /\ relay' \in [Pod -> {"none", "starting", "on", "failed"}]
        /\ outgoing' \in [Pod -> Seq(Settled)]
    BY <1>0 DEF Stop, RowsOK
  <2> QED
    BY <1>0, <1>1, <2>1, <2>2, RowsStep DEF RowsOK, Committed
<1>3. timers' \in 0 .. MaxTimers /\ faults' \in 0 .. MaxFaults
  BY <1>0, FaultFits DEF Stop
<1> QED
  BY <1>1, <1>2, <1>3, ControlStep DEF Stop

(* _dispatch_to_local_queues, on any set of pods.                          *)
LEMMA DispatchStep ==
  ASSUME VInd, NEW e \in Settled, NEW where \in SUBSET Pod, Dispatch(e, where),
         UNCHANGED <<db, up, relay, hook, counters, bounds>>,
         unpublished' \subseteq Committed, outgoing' \in [Pod -> Seq(Settled)]
  PROVE  VInd'
<1>0. RowsOK /\ StreamsOK /\ HookOK /\ ReaderOK /\ CountsOK /\ e \in Event
  BY DEF VInd, Settled
<1> DEFINE hit == Hit(where)
           late == \E p \in where : \E later \in reached[p] : later > e
           skips == Skipped(e, where)
           Given(c) == [stream[c] EXCEPT !.queue = Enqueue(@, e),
                                         !.dropped = @ \union GivenUp(stream[c].queue, e)]
<1>1. /\ stream' = [c \in Conn |-> IF c \in hit THEN Given(c) ELSE stream[c]]
      /\ reached' = [p \in Pod |-> IF p \in where THEN reached[p] \union {e} ELSE reached[p]]
  BY DEF Dispatch
<1>e. excused' = excused \union skips
  BY DEF Dispatch
<1>2. /\ UNCHANGED <<row, origin, critical, up, relay, via, lastId, shown, seen, tab>>
      /\ UNCHANGED <<counted, fallback, timers, faults, uncounted>>
  BY DEF db, hook, counters, bounds
<1>4. late => e \in excused'
  <2>1. late => e \in skips
    BY <1>0 DEF Skipped
  <2> HIDE DEF late, skips
  <2> QED
    BY <1>e, <2>1
<1>5. ASSUME NEW c \in Conn, c \in hit
      PROVE  /\ ListenerOK(Given(c)) /\ Given(c).pod = stream[c].pod
             /\ Given(c).replay = stream[c].replay
             /\ GivenUp(stream[c].queue, e) \subseteq Event
             /\ \A r, x, a, y, b :
                  /\ ReaderIs(stream[c], r, x, a) /\ r \subseteq Event
                  /\ x \subseteq y /\ GivenUp(stream[c].queue, e) \subseteq y
                  /\ (\E later \in r : later > e) => e \in y
                  /\ b \subseteq a /\ b \subseteq critical \ y
                  => ReaderIs(Given(c), r \union {e}, y, b)
  <2>1. ListenerOK(stream[c]) /\ stream[c] \in Listener /\ QueueOK(stream[c].queue)
    BY <1>0, <1>5 DEF StreamsOK, ListenerOK, Open, Hit
  <2>2. stream[c].phase # "ended"
    BY <1>5 DEF Hit, Listening
  <2>3. Given(c).replay = stream[c].replay
    BY <2>1 DEF Listener
  <2>4. GivenUp(stream[c].queue, e) \subseteq Event
    BY <1>0, <2>1, EnqueueIs
  <2> QED
    BY <1>0, <2>1, <2>2, <2>3, <2>4, EventPut
<1>3. excused \subseteq excused' /\ \A c \in hit : GivenUp(stream[c].queue, e) \subseteq excused'
  <2>1. \A c \in hit : GivenUp(stream[c].queue, e) \subseteq skips
    BY <1>5 DEF Open, Hit, Skipped
  <2> HIDE DEF skips, hit
  <2> QED
    BY <1>e, <2>1
<1>6. excused' \subseteq Event
  <2>1. excused \subseteq Event /\ skips \subseteq Event
    BY <1>0 DEF RowsOK, Skipped
  <2> HIDE DEF skips
  <2> QED
    BY <1>e, <2>1
<1> HIDE DEF Given, skips
<1>7. Settled' = Settled /\ Committed' = Committed /\ Drawn' = Drawn
  BY <1>2 DEF Settled, Committed, Drawn
<1>8. RowsOK'
  <2>1. reached' \in [Pod -> SUBSET Settled]
    BY <1>0, <1>1 DEF RowsOK
  <2> QED
    BY <1>0, <1>2, <1>6, <1>7, <2>1 DEF RowsOK
<1>9. \A c \in Conn : ListenerOK(stream[c]) => stream[c] # None
  BY ListenerType, NoneIsNoStream
<1>10. \A c \in hit : ListenerOK(Given(c)) /\ Given(c) # None /\ Given(c) \in Listener
  BY <1>5, ListenerType, NoneIsNoStream DEF Open, Hit, ListenerOK
<1>11. StreamsOK'
  <2>1. stream' \in [Conn -> Listener \union {None}]
    BY <1>0, <1>1, <1>10 DEF StreamsOK
  <2> QED
    BY <1>0, <1>1, <1>10, <2>1 DEF StreamsOK
<1>12. \A c \in Conn : stream'[c] = None <=> stream[c] = None
  BY <1>1, <1>10 DEF Open, Hit
<1>13. Awaited' \subseteq Awaited /\ Awaited' \subseteq critical \ excused'
  BY <1>2, <1>3 DEF Awaited
<1>14. HookOK'
  BY <1>0, <1>2, <1>7, <1>12, <1>13 DEF HookOK
<1>15. ReaderOK'
  <2> SUFFICES ASSUME via # None
               PROVE  /\ ReaderIs(stream'[via], reached'[stream'[via].pod], excused', Awaited')
                      /\ \A i \in 1 .. Len(stream'[via].replay) : stream'[via].replay[i] \in Drawn
    BY <1>2, <1>7 DEF ReaderOK
  <2> DEFINE s == stream[via]
             r == reached[s.pod]
  <2>1. /\ ReaderIs(s, r, excused, Awaited) /\ via \in Open /\ via \in Conn
        /\ \A i \in 1 .. Len(s.replay) : s.replay[i] \in Drawn
        /\ s \in Listener /\ s.pod \in Pod
    BY <1>0 DEF ReaderOK, HookOK, Open, StreamsOK, ListenerOK, Listener
  <2>2. r \subseteq Event
    BY <1>0, <2>1 DEF RowsOK, Settled
  <2>3. CASE via \in hit
    <3>1. stream'[via] = Given(via) /\ reached'[s.pod] = r \union {e} /\ s.pod \in where
      BY <1>1, <2>1, <2>3 DEF Hit
    <3>2. (\E later \in r : later > e) => e \in excused'
      BY <3>1, <1>4
    <3>3. GivenUp(s.queue, e) \subseteq excused'
      BY <2>3, <1>3
    <3>4. ReaderIs(Given(via), r \union {e}, excused', Awaited')
      BY <1>3, <1>5, <1>13, <2>1, <2>2, <2>3, <3>2, <3>3
    <3> QED
      BY <1>5, <2>1, <2>3, <3>1, <3>4
  <2>4. CASE via \notin hit
    <3>1. stream'[via] = s /\ s.pod \notin where
      BY <1>1, <2>1, <2>4 DEF Hit, Listening, ReaderIs
    <3>2. reached'[s.pod] = r
      BY <1>1, <2>1, <3>1
    <3> QED
      BY <3>1, <3>2, <2>1, <1>3, <1>13, Fewer
  <2> QED
    BY <2>3, <2>4
<1>16. Open' = Open
  BY <1>12 DEF Open
<1> QED
  BY <1>0, <1>2, <1>8, <1>11, <1>14, <1>15, <1>16 DEF VInd, CountsOK

(* publish_event_nowait dispatches on the origin's pod.                    *)
LEMMA PublishStep ==
  ASSUME VInd, NEW e \in Event, Publish(e)
  PROVE  VInd'
<1>0. RowsOK
  BY DEF VInd
<1>1. e \in Settled /\ origin[e] \in Pod
  BY <1>0 DEF Publish, RowsOK, Committed, Settled, Drawn
<1>2. outgoing' \in [Pod -> Seq(Settled)]
  <2>1. Append(outgoing[origin[e]], e) \in Seq(Settled)
    BY <1>0, <1>1 DEF RowsOK
  <2> QED
    BY <1>0, <1>1, <2>1 DEF Publish, RowsOK
<1>3. unpublished' \subseteq Committed
  BY <1>0 DEF Publish, RowsOK
<1> QED
  BY <1>1, <1>2, <1>3, DispatchStep DEF Publish

(* A Redis message is dispatched on the subscribed pods.                   *)
LEMMA RelayStepHolds ==
  ASSUME VInd, NEW p \in Pod, Relay(p)
  PROVE  VInd'
<1>0. RowsOK
  BY DEF VInd
<1>1. /\ Head(outgoing[p]) \in Settled /\ Tail(outgoing[p]) \in Seq(Settled)
  BY <1>0, TailIs DEF Relay, RowsOK
<1>2. outgoing' \in [Pod -> Seq(Settled)]
  BY <1>0, <1>1 DEF Relay, RowsOK
<1>3. unpublished' \subseteq Committed
  BY <1>0 DEF Relay, RowsOK
<1> DEFINE where == {q \in Pod \ {p} : relay[q] = "on"}
<1>4. where \in SUBSET Pod /\ Dispatch(Head(outgoing[p]), where)
  BY DEF Relay
<1> HIDE DEF where
<1> QED
  BY <1>1, <1>2, <1>3, <1>4, DispatchStep DEF Relay

-----------------------------------------------------------------------------
(* Admission and the end of a listener.                                    *)

(* A tab without a listener waits or tries again.                          *)
LEMMA IdleStep ==
  ASSUME VInd, (\E p \in Pod : Refused(p)) \/ Unanswered \/ Backoff
  PROVE  VInd'
<1>0. RowsOK /\ StreamsOK /\ HookOK /\ ReaderOK /\ CountsOK
  BY DEF VInd
<1>1. /\ UNCHANGED <<row, origin, critical, unpublished, outgoing, up, relay, reached>>
      /\ UNCHANGED <<stream, counted, fallback, via, lastId, seen, shown, excused>>
      /\ UNCHANGED <<timers, faults, uncounted>>
      /\ via = None /\ tab' \in {"waiting", "connecting"}
  BY <1>0 DEF Refused, Unanswered, Backoff, db, pods, counters, bounds, HookOK
<1>2. Drawn' = Drawn /\ Awaited' = Awaited /\ Open' = Open
  BY <1>1 DEF Drawn, Awaited, Open
<1>3. RowsOK'
  BY <1>0, <1>1, RowsSame DEF RowsOK
<1>4. HookOK'
  BY <1>0, <1>1, <1>2 DEF HookOK
<1>5. ReaderOK'
  BY <1>1 DEF ReaderOK
<1>6. StreamsOK' /\ CountsOK'
  BY <1>0, <1>1, <1>2 DEF StreamsOK, CountsOK
<1> QED
  BY <1>3, <1>4, <1>5, <1>6 DEF VInd

(* The TTL of the count runs out only when no listener is left.            *)
LEMMA CounterExpiresStep ==
  ASSUME VInd, CounterExpires
  PROVE  VInd'
<1> USE EventStreamAssumption
<1>0. RowsOK /\ StreamsOK /\ HookOK /\ ReaderOK /\ CountsOK
  BY DEF VInd
<1>1. /\ UNCHANGED <<row, origin, critical, unpublished, outgoing, up, relay, reached>>
      /\ UNCHANGED <<stream, fallback, tab, via, lastId, seen, shown, excused>>
      /\ UNCHANGED <<timers, faults, uncounted>> /\ counted' = 0 /\ Open = {}
  BY DEF CounterExpires, db, pods, hook, bounds
<1>2. Drawn' = Drawn /\ Awaited' = Awaited /\ Open' = Open
  BY <1>1 DEF Drawn, Awaited, Open
<1>3. RowsOK'
  BY <1>0, <1>1, RowsSame DEF RowsOK
<1>4. HookOK' /\ StreamsOK'
  BY <1>0, <1>1, <1>2 DEF HookOK, StreamsOK
<1>5. ReaderOK'
  BY <1>0, <1>1, <1>2 DEF ReaderOK
<1>6. CountsOK'
  <2>1. Cardinality(Open') = 0 /\ IsFiniteSet(Open')
    BY <1>1, <1>2, FS_EmptySet
  <2>2. counted' \in 0 .. MaxStreams /\ Cardinality(Open') <= counted'
    BY <1>1, <2>1
  <2> QED
    BY <1>0, <1>1, <2>1, <2>2 DEF CountsOK
<1> QED
  BY <1>3, <1>4, <1>5, <1>6 DEF VInd

(* A listener that is new or has ended is in order.                        *)
LEMMA EndedIs ==
  ASSUME NEW p \in Pod
  PROVE  /\ ListenerOK(Ended(p)) /\ Ended(p) \in Listener /\ Ended(p) # None
         /\ Ended(p).pod = p
<1>1. Ended(p) \in Listener
  BY DEF Ended, Listener
<1>2. QueueOK(<<>>) /\ Len(<<>>) <= ReplayLimit
  BY EventStreamAssumption DEF QueueOK
<1>3. ListenerOK(Ended(p))
  BY <1>1, <1>2 DEF Ended, ListenerOK
<1> QED
  BY <1>1, <1>3, ListenerType, NoneIsNoStream DEF Ended

(* The tab leaves, with a cursor that has nothing awaited behind it.       *)
LEMMA LeaveStep ==
  ASSUME VInd, via # None, NEW state \in {"waiting", "connecting", "stuck"}, Leave(state),
         UNCHANGED <<db, pods, counters, seen, shown, uncounted>>,
         excused \subseteq excused', excused' \subseteq Event,
         lastId' = 0 \/ lastId' \in Drawn, \A e \in Awaited' : lastId' < e,
         timers' \in 0 .. MaxTimers, faults' \in 0 .. MaxFaults
  PROVE  VInd'
<1>0. RowsOK /\ StreamsOK /\ HookOK /\ ReaderOK /\ CountsOK
  BY DEF VInd
<1>1. /\ UNCHANGED <<row, origin, critical, unpublished, outgoing, up, relay, reached>>
      /\ UNCHANGED <<counted, fallback, seen, shown, uncounted>>
  BY DEF db, pods, counters
<1>2. via \in Conn /\ stream[via] # None /\ stream[via].pod \in Pod
  BY <1>0 DEF HookOK, StreamsOK, Listener
<1>3. stream' = [stream EXCEPT ![via] = Ended(stream[via].pod)] /\ tab' = state /\ via' = None
  BY DEF Leave
<1>4. StreamsOK'
  BY <1>0, <1>2, <1>3, EndedIs DEF StreamsOK
<1>5. Open' = Open /\ Drawn' = Drawn
  BY <1>0, <1>1, <1>2, <1>3, EndedIs DEF Open, Drawn, StreamsOK
<1>6. RowsOK'
  BY <1>0, <1>1, RowsSame
<1>7. HookOK'
  BY <1>0, <1>1, <1>3, <1>5 DEF HookOK
<1>8. ReaderOK'
  BY <1>3 DEF ReaderOK
<1>9. CountsOK'
  BY <1>0, <1>1, <1>5, CountsSame DEF counters
<1> QED
  BY <1>4, <1>6, <1>7, <1>8, <1>9 DEF VInd

(* A broken connection and a generator that raises leave the cursor alone. *)
LEMMA BreakStep ==
  ASSUME VInd, Break \/ GeneratorError
  PROVE  VInd'
<1>0. RowsOK /\ HookOK /\ CountsOK
  BY DEF VInd
<1>1. /\ UNCHANGED <<db, pods, counters, lastId, seen, shown, excused, uncounted>>
      /\ via # None /\ Fault
  BY DEF Break, GeneratorError
<1>2. PICK state \in {"waiting", "connecting", "stuck"} : Leave(state)
  BY DEF Break, GeneratorError
<1>3. Awaited' = Awaited
  BY <1>1 DEF Awaited, db
<1>4. timers' \in 0 .. MaxTimers /\ faults' \in 0 .. MaxFaults
  BY <1>0, <1>1, FaultFits
<1>5. (lastId' = 0 \/ lastId' \in Drawn) /\ \A e \in Awaited' : lastId' < e
  BY <1>0, <1>1, <1>3 DEF HookOK
<1>6. excused \subseteq excused' /\ excused' \subseteq Event
  BY <1>0, <1>1 DEF RowsOK
<1> QED
  BY <1>1, <1>2, <1>4, <1>5, <1>6, LeaveStep

(* A listener that has ended is not the tab's.                             *)
LEMMA UnregisterStep ==
  ASSUME VInd, NEW c \in Conn, Unregister(c)
  PROVE  VInd'
<1> USE EventStreamAssumption
<1>0. RowsOK /\ StreamsOK /\ HookOK /\ ReaderOK /\ CountsOK
  BY DEF VInd
<1>1. /\ UNCHANGED <<row, origin, critical, unpublished, outgoing, up, reached>>
      /\ UNCHANGED <<tab, via, lastId, seen, shown, excused, timers, faults, uncounted>>
      /\ stream' = [stream EXCEPT ![c] = None]
      /\ c \in Open /\ stream[c].phase = "ended"
  BY DEF Unregister, db, hook, bounds
<1>2. Drawn' = Drawn /\ Awaited' = Awaited
  BY <1>1 DEF Drawn, Awaited
<1>3. stream[c].pod \in Pod
  BY <1>0, <1>1 DEF StreamsOK, Open, Listener
<1>4. RowsOK'
  <2>1. relay' \in [Pod -> {"none", "starting", "on", "failed"}]
    BY <1>0, <1>3 DEF Unregister, RowsOK
  <2> QED
    BY <1>0, <1>1, <2>1, RelayStep DEF RowsOK
<1>5. StreamsOK'
  BY <1>0, <1>1 DEF StreamsOK
<1>6. via # None => via # c /\ via \in Conn
  BY <1>0, <1>1 DEF ReaderOK, ReaderIs, HookOK
<1>7. via # None => stream'[via] = stream[via]
  BY <1>0, <1>1, <1>6 DEF StreamsOK
<1>8. HookOK'
  BY <1>0, <1>1, <1>2, <1>7 DEF HookOK
<1>9. ReaderOK'
  BY <1>0, <1>1, <1>2, <1>7, ReaderSame
<1>10. CountsOK'
  <2>1. Open' = Open \ {c}
    BY <1>0, <1>1 DEF Open, StreamsOK
  <2>2. /\ IsFiniteSet(Open') /\ Cardinality(Open') = Cardinality(Open) - 1
        /\ Cardinality(Open) \in Nat /\ Cardinality(Open') \in Nat
    BY <1>0, <1>1, <2>1, FS_RemoveElement, FS_CardinalityType DEF CountsOK
  <2>3. /\ counted' \in 0 .. MaxStreams /\ counted' >= counted - 1 /\ counted \in Nat
        /\ counted' \in Nat
    BY <1>0 DEF Unregister, CountsOK, Minus
  <2>4. fallback' \in [Pod -> Nat]
    BY <1>0, <1>3 DEF Unregister, CountsOK, Minus
  <2>5. uncounted \/ Cardinality(Open') <= counted'
    BY <1>0, <2>2, <2>3 DEF CountsOK
  <2> QED
    BY <1>0, <1>1, <2>2, <2>3, <2>4, <2>5 DEF CountsOK
<1> QED
  BY <1>4, <1>5, <1>8, <1>9, <1>10 DEF VInd

(* register_listener: the cursor decides whether there is a replay.        *)
LEMMA AdmitStep ==
  ASSUME VInd, NEW p \in Pod, NEW c \in Conn, tab = "connecting", stream[c] = None,
         Admit(p, c), timers' \in 0 .. MaxTimers, faults' \in 0 .. MaxFaults,
         uncounted' \in BOOLEAN, counted' \in 0 .. MaxStreams, fallback' \in [Pod -> Nat],
         uncounted' \/ (~uncounted /\ counted' = counted + 1)
  PROVE  VInd'
<1> USE EventStreamAssumption
<1>0. RowsOK /\ StreamsOK /\ HookOK /\ ReaderOK /\ CountsOK
  BY DEF VInd
<1> DEFINE s == [Ended(p) EXCEPT !.phase = IF lastId = 0 THEN "live" ELSE "admitted"]
<1>1. /\ UNCHANGED <<row, origin, critical, unpublished, outgoing, up, reached>>
      /\ UNCHANGED <<lastId, seen, shown>>
      /\ stream' = [stream EXCEPT ![c] = s] /\ tab' = "open" /\ via' = c
      /\ relay' = IF relay[p] = "none" THEN [relay EXCEPT ![p] = "starting"] ELSE relay
      /\ excused' = IF lastId = 0 THEN excused \union reached[p] ELSE excused
  BY DEF Admit, db
<1>2. /\ s \in Listener /\ s.pod = p /\ s.queue = <<>> /\ s.replay = <<>> /\ s.dropped = {}
      /\ s.phase = IF lastId = 0 THEN "live" ELSE "admitted"
  <2>1. ASSUME NEW phase \in {"admitted", "live"}
        PROVE  LET u == [Ended(p) EXCEPT !.phase = phase] IN
               /\ u \in Listener /\ u.pod = p /\ u.queue = <<>> /\ u.replay = <<>>
               /\ u.dropped = {} /\ u.phase = phase
    <3>1. Ended(p) \in Listener
      BY EndedIs
    <3> QED
      BY <3>1 DEF Ended, Listener
  <2>2. CASE lastId = 0
    BY <2>1, <2>2
  <2>3. CASE lastId # 0
    BY <2>1, <2>3
  <2> QED
    BY <2>2, <2>3
<1> HIDE DEF s
<1>3. ListenerOK(s) /\ s # None
  <2>1. QueueOK(<<>>) /\ Len(<<>>) <= ReplayLimit
    BY DEF QueueOK
  <2>2. ListenerOK(s)
    BY <1>2, <2>1 DEF ListenerOK
  <2> QED
    BY <2>2, ListenerType, NoneIsNoStream
<1>4. StreamsOK'
  BY <1>0, <1>1, <1>2, <1>3 DEF StreamsOK
<1>5. Drawn' = Drawn /\ excused \subseteq excused' /\ excused' \subseteq Event
  BY <1>0, <1>1 DEF Drawn, RowsOK, Settled
<1>6. RowsOK'
  <2>1. relay' \in [Pod -> {"none", "starting", "on", "failed"}]
    BY <1>0, <1>1 DEF RowsOK
  <2> QED
    BY <1>0, <1>1, <1>5, <2>1, RelayStep
<1>7. Awaited' \subseteq Awaited
  BY <1>1, <1>5 DEF Awaited
<1>8. stream'[c] = s
  BY <1>0, <1>1 DEF StreamsOK
<1>9. HookOK'
  <2>1. via' \in Conn /\ via' # None /\ stream'[via'] # None
    BY <1>1, <1>3, <1>8
  <2> QED
    BY <1>0, <1>1, <1>5, <1>7, <2>1 DEF HookOK
<1>10. ReaderOK'
  <2>1. lastId = 0 => Awaited' \intersect reached[p] = {}
    BY <1>1 DEF Awaited
  <2>2. Dispatched(<<>>, reached[p]) /\ InOrder(<<>>, excused') /\ Replays(<<>>, Awaited')
    BY DEF Dispatched, InOrder, Replays
  <2>3. ReaderIs(s, reached[p], excused', Awaited')
    BY <1>2, <2>1, <2>2 DEF ReaderIs
  <2>4. ReaderIs(stream'[via'], reached'[stream'[via'].pod], excused', Awaited')
    BY <1>1, <1>2, <1>8, <2>3
  <2>5. Len(stream'[via'].replay) = 0
    BY <1>1, <1>2, <1>8
  <2> QED
    BY <2>4, <2>5 DEF ReaderOK
<1>11. CountsOK'
  <2>1. Open' = Open \union {c} /\ c \notin Open
    BY <1>0, <1>1, <1>3 DEF Open, StreamsOK
  <2>2. /\ IsFiniteSet(Open') /\ Cardinality(Open') = Cardinality(Open) + 1
        /\ Cardinality(Open) \in Nat
    BY <1>0, <2>1, FS_AddElement, FS_CardinalityType DEF CountsOK
  <2>3. uncounted' \/ Cardinality(Open') <= counted'
    BY <1>0, <2>2 DEF CountsOK
  <2> QED
    BY <2>2, <2>3 DEF CountsOK
<1> QED
  BY <1>4, <1>6, <1>9, <1>10, <1>11 DEF VInd

(* register_listener, counted in Redis or by the pod.                      *)
LEMMA RegisterStep ==
  ASSUME VInd, NEW p \in Pod, NEW c \in Conn, Register(p, c) \/ RegisterUncounted(p, c)
  PROVE  VInd'
<1> USE EventStreamAssumption
<1>0. CountsOK
  BY DEF VInd
<1>1. CASE Register(p, c)
  <2>1. /\ tab = "connecting" /\ stream[c] = None /\ Admit(p, c)
        /\ UNCHANGED <<fallback, timers, faults, uncounted>>
        /\ counted' = counted + 1 /\ counted < MaxStreams
    BY <1>1 DEF Register, WithinLimit, bounds
  <2>2. counted' \in 0 .. MaxStreams
    BY <1>0, <2>1 DEF CountsOK
  <2>3. /\ timers' \in 0 .. MaxTimers /\ faults' \in 0 .. MaxFaults
        /\ uncounted' \in BOOLEAN /\ fallback' \in [Pod -> Nat]
        /\ uncounted' \/ ~uncounted
    BY <1>0, <2>1 DEF CountsOK
  <2> QED
    BY <2>1, <2>2, <2>3, AdmitStep
<1>2. CASE RegisterUncounted(p, c)
  <2>1. /\ tab = "connecting" /\ stream[c] = None /\ Admit(p, c) /\ Fault
        /\ UNCHANGED counted /\ uncounted' = TRUE
        /\ fallback' = [fallback EXCEPT ![p] = @ + 1]
    BY <1>2 DEF RegisterUncounted
  <2>2. timers' \in 0 .. MaxTimers /\ faults' \in 0 .. MaxFaults
    BY <1>0, <2>1, FaultFits
  <2>3. counted' \in 0 .. MaxStreams /\ fallback' \in [Pod -> Nat]
    BY <1>0, <2>1 DEF CountsOK
  <2> QED
    BY <2>1, <2>2, <2>3, AdmitStep
<1> QED
  BY <1>1, <1>2

-----------------------------------------------------------------------------
(* The end of a pod.                                                       *)

(* Its listeners, open transactions and unpublished events go with it.     *)
LEMMA GoneStep ==
  ASSUME VInd, NEW p \in Pod, Gone(p), uncounted' = uncounted,
         timers' \in 0 .. MaxTimers, faults' \in 0 .. MaxFaults
  PROVE  VInd'
<1> USE EventStreamAssumption
<1>0. RowsOK /\ StreamsOK /\ HookOK /\ ReaderOK /\ CountsOK
  BY DEF VInd
<1>1. /\ UNCHANGED <<origin, critical, reached, counted, lastId, seen, shown, excused>>
      /\ up' = [up EXCEPT ![p] = "down"]
      /\ row' = [e \in Event |-> IF row[e] = "open" /\ origin[e] = p THEN "void" ELSE row[e]]
      /\ unpublished' \subseteq unpublished
      /\ outgoing' = [outgoing EXCEPT ![p] = <<>>] /\ relay' = [relay EXCEPT ![p] = "none"]
      /\ fallback' = [fallback EXCEPT ![p] = 0]
      /\ stream' = [c \in Conn |-> IF c \in On(p) THEN None ELSE stream[c]]
  BY DEF Gone
<1>2. \/ via \in On(p) /\ tab' = "waiting" /\ via' = None
      \/ via \notin On(p) /\ tab' = tab /\ via' = via
  BY DEF Gone
<1>3. RowsOK'
  <2>1. unpublished' \subseteq {e \in Event : row'[e] = "committed"}
    BY <1>0, <1>1 DEF RowsOK, Committed
  <2>2. \A e \in Settled : row'[e] \in {"committed", "pruned"}
    BY <1>1 DEF Settled
  <2>3. \A e \in Event : row[e] # "none" <=> row'[e] # "none"
    BY <1>1
  <2>4. row' \in [Event -> {"none", "open", "committed", "void", "pruned"}]
    BY <1>0, <1>1 DEF RowsOK
  <2>5. /\ up' \in [Pod -> {"up", "stopping", "down"}]
        /\ relay' \in [Pod -> {"none", "starting", "on", "failed"}]
        /\ outgoing' \in [Pod -> Seq(Settled)]
    BY <1>0, <1>1 DEF RowsOK
  <2> QED
    BY <1>0, <1>1, <2>1, <2>2, <2>3, <2>4, <2>5, RowsStep
<1>4. Drawn' = Drawn
  BY <1>1 DEF Drawn
<1>5. Awaited' \subseteq Awaited
  BY <1>0, <1>1 DEF Awaited, RowsOK
<1>6. StreamsOK'
  BY <1>0, <1>1 DEF StreamsOK
<1>7. via' # None => via' = via /\ via \in Conn /\ stream'[via] = stream[via]
                      /\ stream[via] # None
  BY <1>0, <1>1, <1>2 DEF HookOK
<1>8. HookOK'
  <2>1. /\ tab' \in {"connecting", "open", "waiting", "stuck"}
        /\ via' \in Conn \union {None} /\ ((tab' = "open") <=> (via' # None))
    BY <1>0, <1>2 DEF HookOK
  <2>2. via' # None => stream'[via'] # None
    BY <1>7
  <2> QED
    BY <1>0, <1>1, <1>4, <1>5, <2>1, <2>2 DEF HookOK
<1>9. ReaderOK'
  <2>1. CASE via' = None
    BY <2>1 DEF ReaderOK
  <2>2. CASE via' # None
    BY <1>0, <1>1, <1>4, <1>5, <1>7, <2>2, ReaderSame
  <2> QED
    BY <2>1, <2>2
<1>10. CountsOK'
  <2>1. Open' \subseteq Open
    BY <1>1 DEF Open
  <2>2. /\ IsFiniteSet(Open') /\ Cardinality(Open') <= Cardinality(Open)
        /\ Cardinality(Open) \in Nat /\ Cardinality(Open') \in Nat
    BY <1>0, <2>1, FS_Subset, FS_CardinalityType DEF CountsOK
  <2>3. fallback' \in [Pod -> Nat]
    BY <1>0, <1>1 DEF CountsOK
  <2> QED
    BY <1>0, <1>1, <2>2, <2>3 DEF CountsOK
<1> QED
  BY <1>3, <1>6, <1>8, <1>9, <1>10 DEF VInd

(* A pod that stopped exits, or a pod crashes.                             *)
LEMMA EndStep ==
  ASSUME VInd, NEW p \in Pod, Exit(p) \/ Crash(p)
  PROVE  VInd'
<1>1. CountsOK
  BY DEF VInd
<1>2. Gone(p) /\ uncounted' = uncounted
  BY DEF Exit, Crash, bounds
<1>3. timers' \in 0 .. MaxTimers /\ faults' \in 0 .. MaxFaults
  BY <1>1, FaultFits DEF Exit, Crash, bounds, CountsOK
<1> QED
  BY <1>2, <1>3, GoneStep

-----------------------------------------------------------------------------
(* The generator and the tab.                                              *)

(* One listener, the tab's, goes on; everything but the tab's memory and   *)
(* the excused events stays.                                               *)
LEMMA GeneratorGoesOn ==
  ASSUME VInd, NEW c \in Conn, via = c, NEW t, ListenerOK(t), t.pod = stream[c].pod,
         stream' = [stream EXCEPT ![c] = t],
         UNCHANGED <<db, pods, counters, tab, via, bounds>>,
         excused \subseteq excused', excused' \subseteq Event,
         lastId' = 0 \/ lastId' \in Drawn, \A e \in Awaited' : lastId' < e,
         seen' \in Seq(Event), Len(seen') <= History, shown' \in [Event -> Nat],
         \A i \in 1 .. Len(seen') : shown'[seen'[i]] > 0,
         ReaderIs(t, reached[t.pod], excused', Awaited'),
         \A i \in 1 .. Len(t.replay) : t.replay[i] \in Drawn
  PROVE  VInd'
<1>0. RowsOK /\ StreamsOK /\ HookOK /\ ReaderOK /\ CountsOK
  BY DEF VInd
<1>1. /\ UNCHANGED <<row, origin, critical, unpublished, outgoing, up, relay, reached>>
      /\ UNCHANGED <<counted, fallback, tab, via, timers, faults, uncounted>>
  BY DEF db, pods, counters, bounds
<1>2. t # None /\ t \in Listener /\ stream[c] # None /\ stream'[c] = t /\ via # None
  <2>1. via # None
    BY EventStreamAssumption
  <2> QED
    BY <2>1, <1>0, ListenerType, NoneIsNoStream DEF ListenerOK, HookOK, StreamsOK
<1>3. StreamsOK'
  BY <1>0, <1>2 DEF StreamsOK
<1>4. Open' = Open /\ Drawn' = Drawn
  BY <1>0, <1>1, <1>2 DEF Open, Drawn, StreamsOK
<1>5. RowsOK'
  BY <1>0, <1>1, RowsSame
<1>6. HookOK'
  BY <1>0, <1>1, <1>2, <1>4 DEF HookOK
<1>7. ReaderOK'
  BY <1>1, <1>2, <1>4, ReaderNow
<1>8. CountsOK'
  BY <1>0, <1>1, <1>4 DEF CountsOK
<1> QED
  BY <1>3, <1>5, <1>6, <1>7, <1>8 DEF VInd

(* get_replay_events.                                                      *)
LEMMA ReplayQueryStep ==
  ASSUME VInd, NEW c \in Conn, ReplayQuery(c)
  PROVE  VInd'
<1> USE EventStreamAssumption
<1>0. RowsOK /\ StreamsOK /\ HookOK /\ ReaderOK /\ CountsOK
  BY DEF VInd
<1> DEFINE s == stream[c]
           r == reached[s.pod]
           After(f) == [s EXCEPT !.phase = "live", !.replay = f]
<1>1. /\ UNCHANGED <<db, pods, counters, hook, bounds>>
      /\ UNCHANGED <<row, critical, reached, tab, via, lastId, seen, shown>>
      /\ via = c /\ s.phase = "admitted" /\ c # None
  BY DEF ReplayQuery, db, pods, hook
<1>2. /\ ListenerOK(s) /\ s \in Listener /\ s.replay = <<>>
      /\ ReaderIs(s, r, excused, Awaited) /\ s.pod \in Pod
  BY <1>0, <1>1 DEF StreamsOK, HookOK, ReaderOK, ReaderIs, ListenerOK, Listener
<1>3. ASSUME NEW f \in Seq(Event), Len(f) <= ReplayLimit,
             excused \subseteq excused', excused' \subseteq Event,
             stream' = [stream EXCEPT ![c] = After(f)],
             \A i \in 1 .. Len(f) : f[i] \in Drawn,
             Replays(f, Awaited'), \A e \in Awaited' \intersect r : Contains(f, e)
      PROVE  VInd'
  <2> DEFINE t == After(f)
  <2>1. /\ t \in Listener /\ t.phase = "live" /\ t.replay = f /\ t.queue = s.queue
        /\ t.dropped = s.dropped /\ t.pod = s.pod
    BY <1>2, <1>3 DEF Listener
  <2> HIDE DEF After
  <2>2. Awaited' \subseteq Awaited
    BY <1>1, <1>3 DEF Awaited
  <2>3. ListenerOK(t) /\ ReaderIs(t, r, excused', Awaited')
    BY <1>1, <1>2, <1>3, <2>1, <2>2, ReplayPut
  <2>4. (lastId' = 0 \/ lastId' \in Drawn) /\ \A e \in Awaited' : lastId' < e
    BY <1>0, <1>1, <2>2 DEF HookOK
  <2>5. /\ seen' \in Seq(Event) /\ Len(seen') <= History /\ shown' \in [Event -> Nat]
        /\ \A i \in 1 .. Len(seen') : shown'[seen'[i]] > 0
    BY <1>0, <1>1 DEF HookOK
  <2> HIDE DEF t
  <2>6. stream' = [stream EXCEPT ![c] = t] /\ \A i \in 1 .. Len(t.replay) : t.replay[i] \in Drawn
    BY <1>3, <2>1 DEF t
  <2> QED
    BY <1>1, <1>3, <2>1, <2>3, <2>4, <2>5, <2>6, GeneratorGoesOn
<1>4. Awaited \intersect r \subseteq Committed
  BY <1>0, <1>2 DEF Awaited, RowsOK, Settled, Committed
<1>5. CASE Expired(lastId)
  <2> SUFFICES ASSUME stream' = [stream EXCEPT ![c].phase = "live"],
                      excused' = excused \union Committed
               PROVE  VInd'
    BY <1>5 DEF ReplayQuery
  <2>1. stream' = [stream EXCEPT ![c] = After(<<>>)]
    BY <1>0, <1>2 DEF StreamsOK, Listener
  <2>2. excused \subseteq excused' /\ excused' \subseteq Event
    BY <1>0 DEF RowsOK, Committed
  <2>3. Awaited' \intersect r = {}
    BY <1>0, <1>1, <1>2 DEF Awaited, RowsOK, Settled, Committed
  <2>4. Replays(<<>>, Awaited') /\ <<>> \in Seq(Event) /\ Len(<<>>) <= ReplayLimit
    BY DEF Replays
  <2>5. \A i \in 1 .. Len(<<>>) : <<>>[i] \in Drawn
    OBVIOUS
  <2> HIDE DEF After
  <2> QED
    BY <1>3, <2>1, <2>2, <2>3, <2>4, <2>5
<1>6. CASE ~Expired(lastId)
  <2>1. PICK f \in BoundedSeq(Missed(lastId), ReplayLimit) :
          /\ FirstRows(f, Missed(lastId))
          /\ stream' = [stream EXCEPT ![c].phase = "live", ![c].replay = f]
          /\ excused' = excused \union (Missed(lastId) \ Range(f))
               \union {e \in Drawn \ Committed : \E i \in DOMAIN f : e < f[i]}
    BY <1>6 DEF ReplayQuery
  <2>2. /\ f \in Seq(Missed(lastId)) /\ f \in Seq(Event) /\ Len(f) <= ReplayLimit
        /\ DOMAIN f = 1 .. Len(f)
    <3>1. f \in Seq(Missed(lastId)) /\ Len(f) <= ReplayLimit
      BY <2>1, BoundedIs
    <3>2. Missed(lastId) \subseteq Event
      BY DEF Missed, Committed
    <3> QED
      BY <3>1, <3>2, SeqGrows
  <2>3. \A i \in 1 .. Len(f) : f[i] \in Missed(lastId) /\ f[i] \in Drawn
    BY <2>2 DEF Missed, Committed, Drawn
  <2>4. stream' = [stream EXCEPT ![c] = After(f)]
    BY <1>0, <1>2, <2>1 DEF StreamsOK, Listener
  <2>5. excused \subseteq excused' /\ excused' \subseteq Event
    <3>1. Missed(lastId) \subseteq Event /\ Drawn \subseteq Event /\ excused \subseteq Event
      BY <1>0 DEF Missed, Committed, Drawn, RowsOK
    <3> QED
      BY <2>1, <3>1
  <2>6. Awaited' \subseteq Awaited /\ Awaited' \intersect excused' = {}
    BY <1>1, <2>5 DEF Awaited
  <2>7. ASSUME NEW e \in Awaited', e \in Committed PROVE Contains(f, e)
    <3>1. e \in Missed(lastId)
      BY <1>0, <2>6, <2>7 DEF HookOK, Missed, Committed, Event, Drawn
    <3>2. e \in Range(f)
      BY <2>1, <2>6, <3>1
    <3> QED
      BY <3>2, <2>2 DEF Range, Contains
  <2>8. ASSUME NEW e \in Awaited', NEW i \in 1 .. Len(f), e < f[i] PROVE e \in Committed
    <3>1. e \in Drawn
      BY <1>0, <2>6 DEF Awaited, Drawn, RowsOK
    <3> QED
      BY <2>1, <2>2, <2>6, <2>8, <3>1
  <2>9. Replays(f, Awaited')
    <3>1. \A i, j \in 1 .. Len(f) : i < j => f[i] < f[j]
      BY <2>1, <2>2 DEF FirstRows
    <3> QED
      BY <3>1, <2>7, <2>8 DEF Replays
  <2>10. \A e \in Awaited' \intersect r : Contains(f, e)
    BY <1>4, <2>6, <2>7
  <2>11. \A i \in 1 .. Len(f) : f[i] \in Drawn
    BY <2>3
  <2> HIDE DEF After
  <2> QED
    BY <1>3, <2>2, <2>4, <2>5, <2>9, <2>10, <2>11
<1> QED
  BY <1>5, <1>6

(* Show: isDuplicateEvent and onEvent.                                     *)
LEMMA ShowIs ==
  ASSUME RowsOK, HookOK, NEW e \in Drawn, NEW p \in Pod, Show(e, p),
         UNCHANGED <<row, critical>>
  PROVE  /\ excused \subseteq excused' /\ excused' \subseteq Event
         /\ lastId' = e /\ seen' \in Seq(Event) /\ Len(seen') <= History
         /\ shown' \in [Event -> Nat] /\ \A i \in 1 .. Len(seen') : shown'[seen'[i]] > 0
         /\ Awaited' \subseteq Awaited \ excused' /\ e \notin Awaited'
         /\ \A d \in Awaited : d <= e /\ d \notin reached[p] => d \in excused'
<1> USE EventStreamAssumption
<1>0. e \in Event /\ Drawn \subseteq Event
  BY DEF Drawn
<1>1. excused' = excused \union {d \in Drawn : d <= e /\ d \notin reached[p]}
  BY DEF Show, Passes
<1>2. excused \subseteq excused' /\ excused' \subseteq Event
  BY <1>0, <1>1 DEF RowsOK
<1>3. \A d \in Awaited : d <= e /\ d \notin reached[p] => d \in excused'
  BY <1>1 DEF Awaited, Drawn, RowsOK
<1>4. CASE IsNew(e)
  <2>1. seen' = Remember(e) /\ shown' = [shown EXCEPT ![e] = @ + 1]
    BY <1>4 DEF Show
  <2>2. shown' \in [Event -> Nat] /\ shown'[e] > 0 /\ \A d \in Event : shown'[d] >= shown[d]
    BY <1>0, <2>1 DEF HookOK
  <2>3. /\ seen' \in Seq(Event) /\ Len(seen') <= History
        /\ \A i \in 1 .. Len(seen') : shown'[seen'[i]] > 0
    <3>1. CASE Len(seen) < History
      <4>1. seen' = Append(seen, e)
        BY <3>1, <2>1 DEF Remember
      <4>2. /\ seen' \in Seq(Event) /\ Len(seen') = Len(seen) + 1 /\ Len(seen) \in Nat
            /\ \A i \in 1 .. Len(seen) : seen'[i] = seen[i] /\ seen[i] \in Event
            /\ seen'[Len(seen) + 1] = e
        BY <4>1, <1>0 DEF HookOK
      <4>3. \A i \in 1 .. Len(seen') : i \in 1 .. Len(seen) \/ i = Len(seen) + 1
        BY <4>2
      <4>4. Len(seen') <= History
        BY <4>2, <3>1
      <4>5. ASSUME NEW i \in 1 .. Len(seen) PROVE shown'[seen[i]] > 0
        <5>1. seen[i] \in Event /\ shown[seen[i]] > 0
          BY <4>2 DEF HookOK
        <5>2. shown'[seen[i]] \in Nat /\ shown[seen[i]] \in Nat /\ shown'[seen[i]] >= shown[seen[i]]
          BY <2>2, <5>1 DEF HookOK
        <5> QED
          BY <5>1, <5>2
      <4> QED
        BY <2>2, <4>2, <4>3, <4>4, <4>5
    <3>2. CASE ~(Len(seen) < History)
      <4>1. seen' = Append(Tail(seen), e) /\ seen # <<>> /\ seen \in Seq(Event)
        BY <3>2, <2>1 DEF Remember, HookOK
      <4>2. /\ Tail(seen) \in Seq(Event) /\ Len(Tail(seen)) = Len(seen) - 1 /\ Len(seen) >= 1
            /\ \A i \in 1 .. Len(seen) - 1 : Tail(seen)[i] = seen[i + 1]
        BY <4>1, TailIs
      <4> DEFINE z == Tail(seen)
      <4> HIDE DEF z
      <4>3. z \in Seq(Event) /\ Len(z) = Len(seen) - 1 /\ Len(seen) \in Nat /\ seen' = Append(z, e)
        BY <4>1, <4>2 DEF z
      <4>4. \A i \in 1 .. Len(z) : shown'[z[i]] > 0
        <5> SUFFICES ASSUME NEW i \in 1 .. Len(z) PROVE shown'[z[i]] > 0
          OBVIOUS
        <5>1. i + 1 \in 1 .. Len(seen) /\ i \in 1 .. Len(seen) - 1
          BY <4>3
        <5>2. z[i] = seen[i + 1] /\ seen[i + 1] \in Event /\ shown[seen[i + 1]] > 0
          BY <4>1, <4>2, <5>1 DEF z, HookOK
        <5> QED
          BY <5>2, <2>2 DEF HookOK
      <4>5. /\ seen' \in Seq(Event) /\ Len(seen') = Len(z) + 1
            /\ \A i \in 1 .. Len(z) : seen'[i] = z[i]
            /\ seen'[Len(z) + 1] = e
        BY <4>3, <1>0
      <4>6. \A i \in 1 .. Len(seen') : i \in 1 .. Len(z) \/ i = Len(z) + 1
        BY <4>3, <4>5
      <4>7. Len(seen') <= History
        BY <4>3, <4>5 DEF HookOK
      <4> QED
        BY <2>2, <4>4, <4>5, <4>6, <4>7
    <3> QED
      BY <3>1, <3>2
  <2>4. Awaited' \subseteq Awaited \ excused' /\ e \notin Awaited'
    BY <1>2, <2>1, <2>2 DEF Awaited, RowsOK, HookOK
  <2> QED
    BY <1>2, <1>3, <2>2, <2>3, <2>4 DEF Show
<1>5. CASE ~IsNew(e)
  <2>1. seen' = seen /\ shown' = shown
    BY <1>5 DEF Show
  <2>2. PICK i \in 1 .. Len(seen) : seen[i] = e
    BY <1>5 DEF IsNew, Contains
  <2>3. shown[e] > 0
    BY <2>2 DEF HookOK
  <2>4. Awaited' \subseteq Awaited \ excused' /\ e \notin Awaited'
    BY <1>2, <2>1, <2>3 DEF Awaited
  <2> QED
    BY <1>2, <1>3, <2>1, <2>4 DEF Show, HookOK
<1> QED
  BY <1>4, <1>5

(* A row of the replay is yielded and shown.                               *)
LEMMA TakeReplayStep ==
  ASSUME VInd, NEW c \in Conn, TakeReplay(c)
  PROVE  VInd'
<1> USE EventStreamAssumption
<1>0. RowsOK /\ StreamsOK /\ HookOK /\ ReaderOK /\ CountsOK
  BY DEF VInd
<1> DEFINE s == stream[c]
           r == reached[s.pod]
           e == Head(s.replay)
           t == RowGone(s)
<1>1. /\ UNCHANGED <<db, pods, counters, tab, via, bounds>> /\ UNCHANGED <<row, critical>>
      /\ via = c /\ s.replay # <<>> /\ c # None /\ Show(e, s.pod)
      /\ stream' = [stream EXCEPT ![c].replay = Tail(@)]
  BY DEF TakeReplay, db
<1>2. /\ ListenerOK(s) /\ s \in Listener /\ ReaderIs(s, r, excused, Awaited) /\ s.pod \in Pod
      /\ \A i \in 1 .. Len(s.replay) : s.replay[i] \in Drawn
  BY <1>0, <1>1 DEF StreamsOK, HookOK, ReaderOK, ListenerOK, Listener
<1>3. stream' = [stream EXCEPT ![c] = t]
  BY <1>1 DEF RowGone
<1>4. /\ s.replay \in Seq(Event) /\ Len(s.replay) \in Nat
      /\ Len(Tail(s.replay)) = Len(s.replay) - 1 /\ e = s.replay[1] /\ Len(s.replay) >= 1
      /\ \A i \in 1 .. Len(s.replay) - 1 : Tail(s.replay)[i] = s.replay[i + 1]
  BY <1>1, <1>2, TailIs DEF Listener
<1>5. t.replay = Tail(s.replay)
  BY <1>2 DEF RowGone, Listener
<1>6. e \in Drawn /\ \A i \in 1 .. Len(t.replay) : t.replay[i] \in Drawn
  BY <1>2, <1>4, <1>5
<1> HIDE DEF s, r, e, t
<1>7. /\ ListenerOK(t) /\ t.pod = s.pod
      /\ \A x, a, y, b :
           /\ ReaderIs(s, r, x, a) /\ a \subseteq Event /\ Moved(x, a, y, b)
           /\ (\A d \in a : d <= e /\ d \notin r => d \in y)
           /\ e \notin b
           => ReaderIs(t, r, y, b) /\ \A d \in b : e < d
  BY <1>1, <1>2, RowTaken DEF t, e
<1>8. /\ excused \subseteq excused' /\ excused' \subseteq Event
      /\ lastId' = e /\ seen' \in Seq(Event) /\ Len(seen') <= History
      /\ shown' \in [Event -> Nat] /\ \A i \in 1 .. Len(seen') : shown'[seen'[i]] > 0
      /\ Awaited' \subseteq Awaited \ excused' /\ e \notin Awaited'
      /\ \A d \in Awaited : d <= e /\ d \notin r => d \in excused'
  BY <1>0, <1>1, <1>2, <1>6, ShowIs DEF r
<1>9. Awaited \subseteq Event /\ Moved(excused, Awaited, excused', Awaited')
  BY <1>0, <1>8 DEF Awaited, RowsOK, Moved
<1>10. ReaderIs(t, r, excused', Awaited') /\ \A d \in Awaited' : e < d
  BY <1>2, <1>7, <1>8, <1>9
<1>11. ReaderIs(t, reached[t.pod], excused', Awaited') /\ \A d \in Awaited' : lastId' < d
  BY <1>7, <1>8, <1>10 DEF r
<1> QED
  BY <1>1, <1>3, <1>6, <1>7, <1>8, <1>11, GeneratorGoesOn DEF s

(* What Ready says of the listener.                                        *)
LEMMA ReadyIs ==
  ASSUME VInd, NEW c \in Conn, NEW k, Ready(c, k)
  PROVE  LET s == stream[c] IN
         /\ ListenerOK(s) /\ s \in Listener /\ s.pod \in Pod /\ via = c /\ via # None
         /\ s.queue # <<>> /\ s.phase = "live" /\ s.replay = <<>> /\ Head(s.queue).kind = k
         /\ ReaderIs(s, reached[s.pod], excused, Awaited)
         /\ ItemGone(s).replay = <<>>
         /\ \A f : f = [s EXCEPT !.queue = Tail(@)] => f = ItemGone(s)
<1>1. via = c /\ c # None /\ StreamsOK /\ HookOK /\ ReaderOK
  BY EventStreamAssumption DEF VInd, Ready
<1>2. ListenerOK(stream[c]) /\ stream[c] \in Listener
  BY <1>1 DEF StreamsOK, HookOK, ListenerOK
<1>3. ItemGone(stream[c]).replay = stream[c].replay
  BY <1>2 DEF ItemGone, Listener
<1>4. ReaderIs(stream[c], reached[stream[c].pod], excused, Awaited)
  BY <1>1 DEF ReaderOK
<1>5. stream[c].pod \in Pod
  BY <1>2 DEF Listener
<1> QED
  BY <1>1, <1>2, <1>3, <1>4, <1>5 DEF Ready, ItemGone

(* A heartbeat is taken from the queue.                                    *)
LEMMA TakeHeartbeatStep ==
  ASSUME VInd, NEW c \in Conn, TakeHeartbeat(c)
  PROVE  VInd'
<1>0. RowsOK /\ StreamsOK /\ HookOK /\ ReaderOK /\ CountsOK
  BY DEF VInd
<1> DEFINE s == stream[c]
           t == ItemGone(s)
<1>1. /\ UNCHANGED <<db, pods, counters, tab, via, bounds>>
      /\ UNCHANGED <<row, critical, excused, lastId, seen, shown>>
      /\ Ready(c, "heartbeat") /\ stream' = [stream EXCEPT ![c].queue = Tail(@)]
  BY DEF TakeHeartbeat, db, hook
<1>2. /\ ListenerOK(s) /\ ReaderIs(s, reached[s.pod], excused, Awaited) /\ via = c
      /\ s.queue # <<>> /\ s.phase = "live" /\ s.replay = <<>>
      /\ Head(s.queue).kind = "heartbeat" /\ t.replay = <<>>
  BY <1>1, ReadyIs
<1>3. stream' = [stream EXCEPT ![c] = t]
  BY <1>1 DEF ItemGone
<1>4. ~Real(Head(s.queue)) /\ Head(s.queue).kind # "overflow"
  BY <1>2 DEF Real
<1> HIDE DEF s, t
<1>5. ListenerOK(t) /\ t.pod = s.pod /\ ReaderIs(t, reached[s.pod], excused, Awaited)
  BY <1>2, <1>4, ItemTaken DEF t
<1>6. Awaited' = Awaited
  BY <1>1 DEF Awaited
<1>7. /\ excused \subseteq excused' /\ excused' \subseteq Event
      /\ (lastId' = 0 \/ lastId' \in Drawn) /\ \A e \in Awaited' : lastId' < e
      /\ seen' \in Seq(Event) /\ Len(seen') <= History /\ shown' \in [Event -> Nat]
      /\ \A i \in 1 .. Len(seen') : shown'[seen'[i]] > 0
  BY <1>0, <1>1, <1>6 DEF RowsOK, HookOK
<1>8. ReaderIs(t, reached[t.pod], excused', Awaited')
  BY <1>1, <1>5, <1>6
<1>9. \A i \in 1 .. Len(t.replay) : t.replay[i] \in Drawn
  BY <1>2
<1> QED
  BY <1>1, <1>2, <1>3, <1>5, <1>7, <1>8, <1>9, GeneratorGoesOn DEF s

(* An event is taken from the queue and shown.                             *)
LEMMA TakeEventStep ==
  ASSUME VInd, NEW c \in Conn, TakeEvent(c)
  PROVE  VInd'
<1>0. RowsOK /\ StreamsOK /\ HookOK /\ ReaderOK /\ CountsOK
  BY DEF VInd
<1> DEFINE s == stream[c]
           r == reached[s.pod]
           h == Head(s.queue)
           t == ItemGone(s)
<1>1. /\ UNCHANGED <<db, pods, counters, tab, via, bounds>> /\ UNCHANGED <<row, critical>>
      /\ Ready(c, "event") /\ stream' = [stream EXCEPT ![c].queue = Tail(@)]
      /\ Show(h.id, s.pod)
  BY DEF TakeEvent, db
<1>2. /\ ListenerOK(s) /\ ReaderIs(s, r, excused, Awaited) /\ via = c
      /\ s.queue # <<>> /\ s.phase = "live" /\ s.replay = <<>>
      /\ h.kind = "event" /\ t.replay = <<>> /\ s.pod \in Pod
  BY <1>1, ReadyIs
<1>3. stream' = [stream EXCEPT ![c] = t]
  BY <1>1 DEF ItemGone
<1>4. Real(h) /\ Stand(h) = h.id /\ h.kind # "overflow"
  BY <1>2 DEF Real, Stand
<1> HIDE DEF s, t, h, r
<1>5. /\ ListenerOK(t) /\ t.pod = s.pod
      /\ \A x, a, y, b :
           /\ ReaderIs(s, r, x, a) /\ a \subseteq Event /\ Moved(x, a, y, b)
           /\ Stand(h) \notin b
           => /\ ReaderIs(t, r, y, b)
              /\ Stand(h) \in r
              /\ (\A d \in a : d <= Stand(h) /\ d \notin r => d \in y)
                   => \A d \in b : Stand(h) < d
  BY <1>2, <1>4, ItemTaken DEF t, h
<1>6. Awaited \subseteq Event
  BY <1>0 DEF Awaited, RowsOK
<1>7. h.id \in Drawn
  <2>1. Moved(excused, Awaited, excused, {})
    BY DEF Moved
  <2>2. h.id \in r
    BY <1>2, <1>4, <1>5, <1>6, <2>1
  <2> QED
    BY <1>0, <1>2, <2>2 DEF r, RowsOK, Settled, Drawn
<1>8. /\ excused \subseteq excused' /\ excused' \subseteq Event
      /\ lastId' = h.id /\ seen' \in Seq(Event) /\ Len(seen') <= History
      /\ shown' \in [Event -> Nat] /\ \A i \in 1 .. Len(seen') : shown'[seen'[i]] > 0
      /\ Awaited' \subseteq Awaited \ excused' /\ h.id \notin Awaited'
      /\ \A d \in Awaited : d <= h.id /\ d \notin r => d \in excused'
  BY <1>0, <1>1, <1>2, <1>7, ShowIs DEF r
<1>9. Moved(excused, Awaited, excused', Awaited')
  BY <1>8 DEF Moved
<1>10. ReaderIs(t, r, excused', Awaited') /\ \A d \in Awaited' : h.id < d
  BY <1>2, <1>4, <1>5, <1>6, <1>8, <1>9
<1>11. ReaderIs(t, reached[t.pod], excused', Awaited') /\ \A d \in Awaited' : lastId' < d
  BY <1>5, <1>8, <1>10 DEF r
<1>12. \A i \in 1 .. Len(t.replay) : t.replay[i] \in Drawn
  BY <1>2
<1> QED
  BY <1>1, <1>2, <1>3, <1>5, <1>7, <1>8, <1>11, <1>12, GeneratorGoesOn DEF s

(* stream_overflow: the tab resumes from the last cursor before the loss.  *)
LEMMA TakeOverflowStep ==
  ASSUME VInd, NEW c \in Conn, TakeOverflow(c)
  PROVE  VInd'
<1> USE EventStreamAssumption
<1>0. RowsOK /\ StreamsOK /\ HookOK /\ ReaderOK /\ CountsOK
  BY DEF VInd
<1> DEFINE s == stream[c]
           r == reached[s.pod]
           n == Head(s.queue).id
<1>1. /\ UNCHANGED <<db, pods, counters, seen, shown, bounds>> /\ UNCHANGED <<row, critical>>
      /\ Ready(c, "overflow") /\ Leave("connecting")
      /\ lastId' = (IF n # 0 THEN n ELSE lastId)
      /\ excused' = excused \union {e \in Drawn : e <= n /\ e \notin r}
  BY DEF TakeOverflow, db, Passes
<1>2. /\ ListenerOK(s) /\ ReaderIs(s, r, excused, Awaited) /\ via # None
      /\ s.queue # <<>> /\ s.phase = "live" /\ s.replay = <<>>
      /\ Head(s.queue).kind = "overflow" /\ s.pod \in Pod
  BY <1>1, ReadyIs
<1>3. /\ Head(s.queue) \in Item /\ (Real(Head(s.queue)) => Stand(Head(s.queue)) \in Event)
      /\ \A x, a, y, b :
           /\ ReaderIs(s, r, x, a) /\ a \subseteq Event /\ Moved(x, a, y, b)
           /\ (\A d \in a : d <= n /\ d \notin r => d \in y)
           => \A d \in b : n < d
      /\ Real(Head(s.queue)) => Stand(Head(s.queue)) \in r
  <2>1. QueueOK(s.queue) /\ Dispatched(s.queue, r)
    BY <1>2 DEF ListenerOK, ReaderIs
  <2>2. Real(Head(s.queue)) => Stand(Head(s.queue)) \in r
    BY <1>2, <2>1, HeadTaken
  <2> HIDE DEF s, r
  <2> QED
    BY <1>2, <2>2, ItemTaken
<1> HIDE DEF s, r
<1>4. n + 1 \in Drawn /\ n \in 0 .. MaxEvents
  <2>1. Real(Head(s.queue)) /\ Stand(Head(s.queue)) = n + 1 /\ n \in 0 .. MaxEvents
    BY <1>2, <1>3, ItemIs DEF Real, Stand
  <2> QED
    BY <1>0, <1>2, <1>3, <2>1 DEF r, RowsOK, Settled, Drawn
<1>5. Drawn \subseteq Event /\ Awaited \subseteq Drawn
  BY <1>0 DEF Drawn, Awaited, RowsOK
<1>6. excused \subseteq excused' /\ excused' \subseteq Event
  BY <1>0, <1>1, <1>5 DEF RowsOK
<1>7. Awaited' \subseteq Awaited \ excused'
  BY <1>1, <1>6 DEF Awaited
<1>8. \A d \in Awaited' : n < d
  <2>1. \A d \in Awaited : d <= n /\ d \notin r => d \in excused'
    BY <1>1, <1>5
  <2>2. Moved(excused, Awaited, excused', Awaited') /\ Awaited \subseteq Event
    BY <1>5, <1>6, <1>7 DEF Moved
  <2> QED
    BY <1>2, <1>3, <2>1, <2>2
<1>9. lastId' = 0 \/ lastId' \in Drawn
  <2>1. \A d, e \in Event : d < e /\ e \in Drawn => d \in Drawn
    BY <1>0 DEF RowsOK
  <2>2. n + 1 \in Event /\ (n # 0 => n \in Event /\ n < n + 1)
    BY <1>4, <1>5, EventStreamAssumption DEF Event
  <2>3. n # 0 => n \in Drawn
    BY <1>4, <2>1, <2>2
  <2> QED
    BY <1>0, <1>1, <2>3 DEF HookOK
<1>10. \A d \in Awaited' : lastId' < d
  BY <1>0, <1>1, <1>7, <1>8 DEF HookOK
<1>11. timers' \in 0 .. MaxTimers /\ faults' \in 0 .. MaxFaults /\ uncounted' = uncounted
  BY <1>0, <1>1 DEF CountsOK, bounds
<1> QED
  BY <1>1, <1>2, <1>6, <1>9, <1>10, <1>11, LeaveStep

(* A shutdown frame: the tab leaves and comes back later.                  *)
LEMMA TakeShutdownStep ==
  ASSUME VInd, NEW c \in Conn, TakeShutdown(c)
  PROVE  VInd'
<1>0. RowsOK /\ HookOK /\ CountsOK
  BY DEF VInd
<1>1. /\ UNCHANGED <<db, pods, counters, lastId, seen, shown, excused, bounds>>
      /\ Leave("waiting") /\ Ready(c, "shutdown")
  BY DEF TakeShutdown
<1>2. via # None
  BY <1>1, ReadyIs
<1>3. Awaited' = Awaited
  BY <1>1 DEF Awaited, db
<1>4. timers' \in 0 .. MaxTimers /\ faults' \in 0 .. MaxFaults /\ uncounted' = uncounted
  BY <1>0, <1>1 DEF CountsOK, bounds
<1>5. (lastId' = 0 \/ lastId' \in Drawn) /\ \A e \in Awaited' : lastId' < e
  BY <1>0, <1>1, <1>3 DEF HookOK
<1>6. excused \subseteq excused' /\ excused' \subseteq Event
  BY <1>0, <1>1 DEF RowsOK
<1> QED
  BY <1>1, <1>2, <1>4, <1>5, <1>6, LeaveStep

-----------------------------------------------------------------------------
(* The theorems.                                                           *)

(* Nothing the invariant speaks of changes in a stuttering step.           *)
LEMMA StutterStep ==
  ASSUME VInd, UNCHANGED vars
  PROVE  VInd'
<1>0. RowsOK /\ StreamsOK /\ HookOK /\ ReaderOK /\ CountsOK
  BY DEF VInd
<1>1. UNCHANGED <<db, pods, stream, counters, hook, excused, bounds>>
  BY DEF vars
<1>2. /\ UNCHANGED <<row, origin, critical, unpublished, outgoing, up, relay, reached>>
      /\ UNCHANGED <<via, stream, excused, timers, faults, uncounted, shown>>
  BY <1>1 DEF db, pods, hook, bounds
<1>3. Awaited' = Awaited /\ Drawn' = Drawn /\ Open' = Open
  BY <1>2 DEF Awaited, Drawn, Open
<1>4. RowsOK' /\ StreamsOK'
  BY <1>0, <1>2, RowsSame DEF StreamsOK, RowsOK
<1>5. HookOK' /\ ReaderOK'
  BY <1>0, <1>1, <1>2, <1>3, HookSame, ReaderSame DEF HookOK
<1>6. CountsOK'
  BY <1>0, <1>1, <1>2, <1>3, CountsSame DEF CountsOK
<1> QED
  BY <1>4, <1>5, <1>6 DEF VInd

(* Each item or row the generator yields keeps the invariant.              *)
LEMMA GeneratorKeeps ==
  ASSUME VInd, NEW c \in Conn, GeneratorStep(c)
  PROVE  VInd'
<1>1. CASE ReplayQuery(c) \/ TakeReplay(c)
  BY <1>1, ReplayQueryStep, TakeReplayStep
<1>2. CASE TakeEvent(c) \/ TakeHeartbeat(c)
  BY <1>2, TakeEventStep, TakeHeartbeatStep
<1>3. CASE TakeOverflow(c) \/ TakeShutdown(c)
  BY <1>3, TakeOverflowStep, TakeShutdownStep
<1> QED
  BY <1>1, <1>2, <1>3 DEF GeneratorStep

(* Every step keeps the invariant.                                         *)
LEMMA VNextInd ==
  ASSUME VInd, [VNext]_vars
  PROVE  VInd'
<1>1. CASE UNCHANGED vars
  BY <1>1, StutterStep
<1>2. ASSUME NEW p \in Pod,
             \/ Draw(p) \/ Relay(p) \/ RelayError(p) \/ Subscribe(p) \/ SubscribeError(p)
             \/ Heartbeat(p) \/ Stop(p) \/ Exit(p) \/ Crash(p) \/ Restart(p)
      PROVE  VInd'
  <2>1. CASE Draw(p)
    BY <2>1, DrawStep
  <2>2. CASE Relay(p)
    BY <2>2, RelayStepHolds
  <2>3. CASE RelayError(p)
    BY <2>3, RelayErrorStep
  <2>4. CASE Subscribe(p) \/ SubscribeError(p)
    BY <2>4, SubscribeStep
  <2>5. CASE Heartbeat(p)
    BY <2>5, HeartbeatStep
  <2>6. CASE Stop(p)
    BY <2>6, StopStep
  <2>7. CASE Exit(p) \/ Crash(p)
    BY <2>7, EndStep
  <2>8. CASE Restart(p)
    BY <2>8, RestartStep
  <2> QED
    BY <1>2, <2>1, <2>2, <2>3, <2>4, <2>5, <2>6, <2>7, <2>8
<1>3. ASSUME NEW e \in Event, Commit(e) \/ Rollback(e) \/ Publish(e)
      PROVE  VInd'
  BY <1>3, CommitStep, RollbackStep, PublishStep
<1>4. ASSUME NEW p \in Pod, NEW c \in Conn, Register(p, c) \/ RegisterUncounted(p, c)
      PROVE  VInd'
  BY <1>4, RegisterStep
<1>5. ASSUME NEW c \in Conn, GeneratorStep(c) \/ Unregister(c)
      PROVE  VInd'
  BY <1>5, GeneratorKeeps, UnregisterStep
<1>6. CASE Prune
  BY <1>6, PruneStep
<1>7. CASE (\E p \in Pod : Refused(p)) \/ Unanswered \/ Backoff
  BY <1>7, IdleStep
<1>8. CASE CounterExpires
  BY <1>8, CounterExpiresStep
<1>9. CASE Break \/ GeneratorError
  BY <1>9, BreakStep
<1> QED
  BY <1>1, <1>2, <1>3, <1>4, <1>5, <1>6, <1>7, <1>8, <1>9 DEF VNext

(* The inductive invariant of the stream: rows, listeners, the tab, what   *)
(* its listener still holds for it and the count in Redis fit together.    *)
THEOREM EventStreamInvariant == VSafe => []VInd
<1>1. VInd /\ [VNext]_vars => VInd'
  BY VNextInd
<1> QED
  BY VInitInd, <1>1, PTL DEF VSafe

(* Rows, queues, counters and the tab's memory keep their types, queues,   *)
(* replays and the remembered ids their bounds, and a tab is open exactly  *)
(* when it reads from a listener that exists.                              *)
THEOREM EventStreamTypeCorrect == VSafe => []VTypeOK
  BY EventStreamInvariant, VIndImplies, PTL

(* A queue of any size that has given up a critical event holds a          *)
(* stream_overflow frame until the tab has read it, whatever is enqueued   *)
(* after it.                                                               *)
THEOREM LossTheorem == VSafe => []LossIsSignalled
  BY EventStreamInvariant, VIndImplies, PTL

(* For any number of pods, listeners and events and any sizes of queues    *)
(* and replays: a committed critical event that the tab's pod dispatches in*)
(* the order of the cursors, or that a replay reads, is shown before the   *)
(* cursor with which the tab reconnects passes it.  What the cursor may    *)
(* leave behind is listed at InOrderIsShown; it includes what an overflow  *)
(* displaces and what Redis loses.                                         *)
THEOREM InOrderTheorem == VSafe => []InOrderIsShown
  BY EventStreamInvariant, VIndImplies, PTL

(* As long as Redis answers, a user never has more listeners than          *)
(* MAX_STREAMS_PER_USER, over all pods.                                    *)
THEOREM CapTheorem == VSafe => []CapHolds
  BY EventStreamInvariant, VIndImplies, PTL

-----------------------------------------------------------------------------
(* isDuplicateEvent: what the tab remembers of what it has shown.          *)

(* The events onEvent was called with.                                     *)
Shown == {e \in Event : shown[e] > 0}

(* The tab remembers every event it has shown, unless they are more than   *)
(* it can remember.                                                        *)
Remembered ==
  Cardinality(Shown) <= History =>
    /\ Len(seen) = Cardinality(Shown)
    /\ \A e \in Shown : Contains(seen, e)
    /\ ShownOnce

(* Show without the cursor.                                                *)
Shows(e) ==
  /\ seen' = IF IsNew(e) THEN Remember(e) ELSE seen
  /\ shown' = IF IsNew(e) THEN [shown EXCEPT ![e] = @ + 1] ELSE shown

(* Only a row or an event that the generator yields is shown.              *)
LEMMA OnlyShows ==
  ASSUME VInd, [VNext]_vars
  PROVE  UNCHANGED <<seen, shown>> \/ \E e \in Event : Shows(e)
<1>1. ASSUME NEW c \in Conn, TakeReplay(c) PROVE \E e \in Event : Shows(e)
  <2>1. c # None /\ via = c /\ stream[c].replay # <<>>
    BY <1>1, EventStreamAssumption DEF TakeReplay
  <2>2. stream[c].replay \in Seq(Event)
    BY <2>1 DEF VInd, StreamsOK, HookOK, ListenerOK, Listener
  <2>3. Head(stream[c].replay) \in Event
    BY <2>1, <2>2
  <2> QED
    BY <1>1, <2>3 DEF TakeReplay, Show, Shows
<1>2. ASSUME NEW c \in Conn, TakeEvent(c) PROVE \E e \in Event : Shows(e)
  <2>1. Ready(c, "event") /\ Show(Head(stream[c].queue).id, stream[c].pod)
    BY <1>2 DEF TakeEvent
  <2>2. stream[c].queue \in Seq(Item) /\ stream[c].queue # <<>>
        /\ Head(stream[c].queue).kind = "event"
    BY <2>1, ReadyIs DEF ListenerOK, QueueOK
  <2>3. Head(stream[c].queue).id \in Event
    BY <2>2, ItemIs, TailIs
  <2> QED
    BY <2>1, <2>3 DEF Show, Shows
<1>3. ASSUME NEW c \in Conn, GeneratorStep(c)
      PROVE  UNCHANGED <<seen, shown>> \/ \E e \in Event : Shows(e)
  BY <1>1, <1>2, <1>3
  DEF GeneratorStep, ReplayQuery, TakeHeartbeat, TakeOverflow, TakeShutdown, hook
<1>4. ASSUME NEW p \in Pod, NEW c \in Conn,
             Register(p, c) \/ RegisterUncounted(p, c) \/ Unregister(c)
      PROVE  UNCHANGED <<seen, shown>>
  BY <1>4 DEF Register, RegisterUncounted, Admit, Unregister, hook
<1>5. ASSUME NEW p \in Pod,
             \/ Draw(p) \/ Relay(p) \/ RelayError(p) \/ Subscribe(p) \/ SubscribeError(p)
             \/ Heartbeat(p) \/ Stop(p) \/ Exit(p) \/ Crash(p) \/ Restart(p)
      PROVE  UNCHANGED <<seen, shown>>
  BY <1>5 DEF Draw, Relay, RelayError, Subscribe, SubscribeError, Heartbeat, Stop, Exit,
              Crash, Gone, Restart, hook
<1>6. ASSUME NEW e \in Event, Commit(e) \/ Rollback(e) \/ Publish(e)
      PROVE  UNCHANGED <<seen, shown>>
  BY <1>6 DEF Commit, Rollback, Publish, hook
<1>7. CASE \/ Prune \/ Unanswered \/ CounterExpires \/ Backoff \/ Break \/ GeneratorError
           \/ \E p \in Pod : Refused(p)
  BY <1>7 DEF Prune, Refused, Unanswered, CounterExpires, Backoff, Break, GeneratorError, hook
<1>8. CASE UNCHANGED vars
  BY <1>8 DEF vars, hook
<1>9. ASSUME NEW c \in Conn, Unregister(c) PROVE UNCHANGED <<seen, shown>>
  BY <1>9 DEF Unregister, hook
<1> QED
  BY <1>3, <1>4, <1>5, <1>6, <1>7, <1>8, <1>9 DEF VNext

(* A new id finds its place: whatever has been shown is remembered, so the *)
(* event has not been shown, and there is room if the ids are few enough.  *)
LEMMA ShowsRemembers ==
  ASSUME VInd, Remembered, NEW e \in Event, Shows(e)
  PROVE  Remembered'
<1>1. /\ shown \in [Event -> Nat] /\ seen \in Seq(Event) /\ Len(seen) \in Nat
      /\ History \in Nat
  BY EventStreamAssumption DEF VInd, HookOK
<1>2. CASE ~IsNew(e)
  BY <1>2 DEF Shows, Remembered, Shown, ShownOnce
<1>3. CASE IsNew(e)
  <2> SUFFICES ASSUME Cardinality(Shown') <= History
               PROVE  /\ Len(seen') = Cardinality(Shown')
                      /\ \A d \in Shown' : Contains(seen', d)
                      /\ ShownOnce'
    BY DEF Remembered
  <2>1. shown' = [shown EXCEPT ![e] = @ + 1]
    BY <1>3 DEF Shows
  <2>2. Shown' = Shown \union {e}
    BY <1>1, <2>1 DEF Shown
  <2>3. IsFiniteSet(Shown) /\ Cardinality(Shown) \in Nat
    <3>1. IsFiniteSet(Event)
      BY FS_Interval, EventStreamAssumption DEF Event
    <3> QED
      BY <3>1, FS_Subset, FS_CardinalityType DEF Shown
  <2>4. Cardinality(Shown') = IF e \in Shown THEN Cardinality(Shown) ELSE Cardinality(Shown) + 1
    BY <2>2, <2>3, FS_AddElement
  <2>5. /\ Len(seen) = Cardinality(Shown) /\ ShownOnce
        /\ \A d \in Shown : Contains(seen, d)
    BY <2>3, <2>4, <1>1 DEF Remembered
  <2>6. e \notin Shown
    BY <1>3, <2>5 DEF IsNew
  <2>7. Len(seen) < History
    BY <1>1, <2>3, <2>4, <2>5, <2>6
  <2>8. seen' = Append(seen, e)
    BY <1>3, <2>7 DEF Shows, Remember
  <2>9. /\ Len(seen') = Len(seen) + 1 /\ seen'[Len(seen) + 1] = e
        /\ \A i \in 1 .. Len(seen) : seen'[i] = seen[i] /\ i \in 1 .. Len(seen')
    BY <1>1, <2>8
  <2>10. ASSUME NEW d \in Shown' PROVE Contains(seen', d)
    <3>1. CASE d = e
      BY <1>1, <2>9, <3>1 DEF Contains
    <3>2. CASE d \in Shown
      BY <2>5, <2>9, <3>2 DEF Contains
    <3> QED
      BY <2>2, <3>1, <3>2
  <2>11. ShownOnce'
    <3>1. shown[e] = 0
      BY <1>1, <2>6 DEF Shown
    <3> QED
      BY <1>1, <2>1, <2>5, <3>1 DEF ShownOnce
  <2> QED
    BY <2>4, <2>5, <2>6, <2>9, <2>10, <2>11
<1> QED
  BY <1>2, <1>3

(* What the tab shows, it remembers, up to the limit of its memory.        *)
LEMMA RememberedAlways == VSafe => []Remembered
<1>1. VInit => Remembered
  <2> SUFFICES ASSUME VInit PROVE Remembered
    OBVIOUS
  <2>1. Shown = {} /\ seen = <<>> /\ ShownOnce
    BY DEF VInit, Shown, ShownOnce
  <2> QED
    BY <2>1, FS_EmptySet DEF Remembered
<1>2. VInd /\ Remembered /\ [VNext]_vars => Remembered'
  <2> SUFFICES ASSUME VInd, Remembered, [VNext]_vars PROVE Remembered'
    OBVIOUS
  <2>1. CASE UNCHANGED <<seen, shown>>
    BY <2>1 DEF Remembered, Shown, ShownOnce
  <2> QED
    BY <2>1, OnlyShows, ShowsRemembers
<1> QED
  BY <1>1, <1>2, EventStreamInvariant, PTL DEF VSafe

(* For any number of pods, listeners and events, through reconnects,       *)
(* replays and overflows: until more events have been shown than the hook  *)
(* remembers ids, each of them has been shown once.                        *)
THEOREM ShownOnceTheorem == VSafe => [](Cardinality(Shown) <= History => ShownOnce)
<1>1. Remembered => (Cardinality(Shown) <= History => ShownOnce)
  BY DEF Remembered
<1> QED
  BY <1>1, RememberedAlways, PTL

=============================================================================
