------------------------ MODULE BinlogClientsProofs -------------------------
(***************************************************************************)
(* Two clients of the binlog's events, for every bound.                    *)
(*                                                                         *)
(* BinlogEvents, the client of one BinlogEventsProcessor: the fields       *)
(* always agree, a regenerated binlog holds the same events, and the       *)
(* processor implements EventMap.                                          *)
(*                                                                         *)
(* TQueue, whose operations write several events each: the log, cut after  *)
(* any event, is replayed without a refusal, and after the last event of   *)
(* an operation into the queue of that moment.                             *)
(***************************************************************************)
EXTENDS BinlogEvents, TQueue, BinlogLemmas

-----------------------------------------------------------------------------
(* BinlogEvents.                                                            *)

AllValues == Values \cup {NewValue}

(* The inductive invariant: the fields agree, with the gap that leaves room *)
(* for a tombstone, and no identifier is larger than the client's counter.  *)
EventsIInv ==
  /\ Agree(processor, AllValues)
  /\ last_event_id_ \in Nat
  /\ processor.last_event_id_ <= last_event_id_

(* The three kinds of events that the client feeds.                         *)
LEMMA AddStep ==
  ASSUME EventsIInv, Add(NewValue)
  PROVE  /\ EventsIInv' /\ last_event_id_ + 1 > processor.last_event_id_
         /\ Contents(processor)' = Contents(processor) \cup {<<last_event_id_ + 1, NewValue>>}
         /\ processor'.last_event_id_ = last_event_id_ + 1
<1> DEFINE e == Event("data", last_event_id_ + 1, NewValue, FALSE)
<1>1. Agree(processor, AllValues) /\ last_event_id_ \in Nat
      /\ processor.last_event_id_ \in Nat /\ processor.last_event_id_ <= last_event_id_
  BY TypedFields DEF EventsIInv, Agree
<1>2. e \in Data(AllValues) /\ e.id = last_event_id_ + 1 /\ e.val = NewValue
  BY <1>1 DEF Event, Data, AllValues
<1>3. processor' = do_event(processor, e) /\ last_event_id_' = last_event_id_ + 1
  BY DEF Add, Feed
<1> HIDE DEF e
<1>4. e.id > processor.last_event_id_
  BY <1>1, <1>2
<1>5. /\ Agree(processor', AllValues)
      /\ Contents(processor') = Contents(processor) \cup {<<e.id, e.val>>}
      /\ processor'.last_event_id_ = e.id
  BY <1>1, <1>2, <1>3, <1>4, DoEventNew
<1> QED
  BY <1>1, <1>2, <1>3, <1>4, <1>5 DEF EventsIInv, AllValues

LEMMA RewriteStep ==
  ASSUME EventsIInv, NEW id, NEW v \in Values, Rewrite(id, v)
  PROVE  /\ EventsIInv' /\ id \in LiveIds(processor)
         /\ Contents(processor)' = {c \in Contents(processor) : c[1] # id} \cup {<<id, v>>}
         /\ processor'.last_event_id_ = processor.last_event_id_
<1> DEFINE e == Event("data", id, v, TRUE)
<1>1. Agree(processor, AllValues) /\ last_event_id_ \in Nat
      /\ processor.last_event_id_ \in Nat /\ processor.last_event_id_ <= last_event_id_
  BY TypedFields DEF EventsIInv, Agree
<1>2. PICK i \in Alive(processor) : processor.events_[i].id = id
  <2>1. PICK c \in Contents(processor) : c[1] = id
    BY DEF Rewrite, LiveIds
  <2> QED
    BY <1>1, <2>1, LiveOfContents
<1>3. id \in Nat
  BY <1>1, <1>2, TypedFields DEF Agree, Data
<1>4. e \in Data(AllValues) /\ e.id = id /\ e.val = v /\ e.rewrite
  BY <1>3 DEF Event, Data, AllValues
<1>5. processor' = do_event(processor, e) /\ last_event_id_' = last_event_id_ + 1
  BY DEF Rewrite, Feed
<1> HIDE DEF e
<1>6. /\ Agree(processor', AllValues)
      /\ Contents(processor') = {c \in Contents(processor) : c[1] # e.id} \cup {<<e.id, e.val>>}
      /\ processor'.last_event_id_ = processor.last_event_id_
  BY <1>1, <1>2, <1>4, <1>5, DoEventRewrite
<1> QED
  BY <1>1, <1>4, <1>5, <1>6 DEF EventsIInv, AllValues, Rewrite

LEMMA EraseStep ==
  ASSUME EventsIInv, NEW id, Erase(id)
  PROVE  /\ EventsIInv' /\ id \in LiveIds(processor)
         /\ Contents(processor)' = {c \in Contents(processor) : c[1] # id}
         /\ processor'.last_event_id_ = processor.last_event_id_
<1> DEFINE e == Event("empty", id, 0, TRUE)
<1>1. Agree(processor, AllValues) /\ last_event_id_ \in Nat
      /\ processor.last_event_id_ \in Nat /\ processor.last_event_id_ <= last_event_id_
  BY TypedFields DEF EventsIInv, Agree
<1>2. PICK i \in Alive(processor) : processor.events_[i].id = id
  <2>1. PICK c \in Contents(processor) : c[1] = id
    BY DEF Erase, LiveIds
  <2> QED
    BY <1>1, <2>1, LiveOfContents
<1>3. e.id = id /\ e.type = "empty" /\ e.rewrite
  BY DEF Event
<1>4. processor' = do_event(processor, e) /\ last_event_id_' = last_event_id_ + 1
  BY DEF Erase, Feed
<1> HIDE DEF e
<1>5. /\ Agree(processor', AllValues)
      /\ Contents(processor') = {c \in Contents(processor) : c[1] # e.id}
      /\ processor'.last_event_id_ = processor.last_event_id_
  BY <1>1, <1>2, <1>3, <1>4, DoEventErase
<1> QED
  BY <1>1, <1>3, <1>4, <1>5 DEF EventsIInv, AllValues, Erase

(* The invariant holds initially and every event keeps it: compactify may   *)
(* run after any of them.                                                   *)
THEOREM EventsInvariance == EventsSpec => []EventsIInv
<1>1. EventsInit => EventsIInv
  BY EmptyAgrees DEF EventsInit, EventsIInv
<1>2. EventsIInv /\ [EventsNext]_events_vars => EventsIInv'
  <2> SUFFICES ASSUME EventsIInv, [EventsNext]_events_vars PROVE EventsIInv'
    OBVIOUS
  <2>1. CASE Add(NewValue)
    BY <2>1, AddStep
  <2>2. ASSUME NEW id \in 1..MaxId, NEW v \in Values, Rewrite(id, v) PROVE EventsIInv'
    BY <2>2, RewriteStep
  <2>3. ASSUME NEW id \in 1..MaxId, Erase(id) PROVE EventsIInv'
    BY <2>3, EraseStep
  <2>4. CASE UNCHANGED events_vars
    BY <2>4 DEF events_vars, EventsIInv
  <2> QED
    BY <2>1, <2>2, <2>3, <2>4 DEF EventsNext
<1> QED
  BY <1>1, <1>2, PTL DEF EventsSpec

(* The vectors stay parallel, the counters that trigger compactify count    *)
(* what they are named for and the identifiers increase strictly, for any   *)
(* number of events.                                                        *)
THEOREM CountersAgreeHolds == EventsSpec => []CountersAgree
<1>1. EventsIInv => CountersAgree
  <2> SUFFICES ASSUME EventsIInv PROVE CountersAgree
    OBVIOUS
  <2> DEFINE p == processor
             n == Len(p.event_ids_)
  <2>1. Agree(p, AllValues) /\ n \in Nat /\ Len(p.events_) = n
    BY TypedFields DEF EventsIInv, Agree
  <2>2. /\ p.total_events_ = n /\ p.empty_events_ = Cardinality(Deleted(p))
        /\ p.total_raw_events_size_ = n - Cardinality(Deleted(p))
    BY <2>1 DEF Agree, Counted
  <2>3. \A i \in 1..(n - 1) : p.event_ids_[i] < p.event_ids_[i + 1]
    <3> SUFFICES ASSUME NEW i \in 1..(n - 1) PROVE p.event_ids_[i] < p.event_ids_[i + 1]
      OBVIOUS
    <3>1. i \in 1..n /\ i + 1 \in 1..n /\ i < i + 1
      BY <2>1
    <3> QED
      BY <2>1, <3>1 DEF Agree, Sorted
  <2>4. \A i \in 1..n : ~IsDeleted(p.event_ids_[i]) => p.events_[i].id * 2 = p.event_ids_[i]
    BY <2>1 DEF Agree, Typed, Alive
  <2> QED
    BY <2>1, <2>2, <2>3, <2>4 DEF CountersAgree, Deleted
<1> QED
  BY <1>1, EventsInvariance, PTL

(* Reindexing writes the live events to a new binlog: it accepts all of     *)
(* them and holds the same contents.                                        *)
THEOREM RegenerationHolds == EventsSpec => []RegenerationPreserves
<1>1. EventsIInv => RegenerationPreserves
  <2> SUFFICES ASSUME EventsIInv PROVE RegenerationPreserves
    OBVIOUS
  <2> DEFINE s == for_each(processor)
  <2>1. /\ s \in Seq(Data(AllValues)) /\ Increasing(s)
        /\ Contents(processor) = {<<s[j].id, s[j].val>> : j \in 1..Len(s)}
    BY ForEachIncreases DEF EventsIInv
  <2>2. DOMAIN s = 1..Len(s)
    BY <2>1
  <2> HIDE DEF s
  <2>3. /\ \A i \in 1..Len(s) : ~Refused(Replay(SubSeq(s, 1, i - 1)), s[i])
        /\ Contents(Replay(s)) = {<<s[j].id, s[j].val>> : j \in 1..Len(s)}
    BY <2>1, ReplayIncreasing
  <2> QED
    BY <2>1, <2>2, <2>3 DEF RegenerationPreserves, s
<1> QED
  BY <1>1, EventsInvariance, PTL

(* Tombstones and compaction are invisible: what for_each shows and         *)
(* last_event_id behave as the abstract map does.                           *)
THEOREM EventsRefinement == EventsSpec => ImplementsEventMap
<1>1. EventsInit => Abstract!Init
  BY EmptyAgrees DEF EventsInit, Abstract!Init
<1>2. ASSUME EventsIInv, [EventsNext]_events_vars PROVE [Abstract!Next]_(Abstract!vars)
  <2>1. CASE last_event_id_ < MaxId /\ Add(NewValue)
    <3> DEFINE id == last_event_id_ + 1
    <3>1. Abstract!Add(id, NewValue)
      BY <1>2, <2>1, AddStep DEF Abstract!Add
    <3>2. id \in 1..MaxId /\ NewValue \in Values \cup {NewValue}
      BY <1>2, <2>1, BinlogEventsAssumption DEF EventsIInv
    <3> QED
      BY <3>1, <3>2 DEF Abstract!Next
  <2>2. ASSUME NEW id \in 1..MaxId, NEW v \in Values, Rewrite(id, v)
        PROVE  Abstract!Next
    <3>1. Abstract!Rewrite(id, v)
      BY <1>2, <2>2, RewriteStep DEF Abstract!Rewrite, Abstract!Live, LiveIds
    <3> QED
      BY <3>1 DEF Abstract!Next
  <2>3. ASSUME NEW id \in 1..MaxId, Erase(id)
        PROVE  Abstract!Next
    <3>1. Abstract!Erase(id)
      BY <1>2, <2>3, EraseStep DEF Abstract!Erase, Abstract!Live, LiveIds
    <3> QED
      BY <3>1 DEF Abstract!Next
  <2>4. CASE UNCHANGED events_vars
    BY <2>4 DEF events_vars, Abstract!vars
  <2> QED
    BY <1>2, <2>1, <2>2, <2>3, <2>4 DEF EventsNext
<1> QED
  BY <1>1, <1>2, EventsInvariance, PTL DEF EventsSpec, ImplementsEventMap, Abstract!Spec

-----------------------------------------------------------------------------
(* TQueue: the constants, and the loops over the events.                    *)

LEMMA Bounds ==
  /\ MAX_ID \in Nat /\ MAX_QUEUE_EVENTS \in Nat /\ MAX_TOTAL_EVENT_LENGTH \in Nat
  /\ Lengths \subseteq Nat \ {0} /\ Expirations \subseteq Nat \ {0}
BY TQueueAssumption

(* The bodies of the loops: what step i makes of y.                         *)
Weight(f, i) == IF i \in DOMAIN f THEN f[i].len ELSE 0

Step(loop_, a, i, y) ==
  CASE loop_ = "pop"    -> IF i \in a.ids THEN pop(a.cb, y, i, a.tail_id) ELSE y
    [] loop_ = "erase"  -> IF i \in a.ids THEN Erased(a.cb, y, i) ELSE y
    [] loop_ = "replay" -> ReplayStep(y, a[i])
    [] loop_ = "length" -> IF i \in DOMAIN a THEN y + a[i].len ELSE y

(* h: the values of n steps that begin with z.                              *)
Run(h, loop_, a, z, n) == h = [i \in 0..n |-> IF i = 0 THEN z ELSE Step(loop_, a, i, h[i - 1])]

LEMMA StepsExist ==
  ASSUME NEW loop_, NEW a, NEW z, NEW n \in Nat
  PROVE  \E h : Run(h, loop_, a, z, n)
<1> USE DEF Run
<1> DEFINE Is(h, k) == Run(h, loop_, a, z, k)
           Bad == {k \in Nat : ~ \E h : Is(h, k)}
<1>1. SUFFICES ASSUME Bad # {} PROVE FALSE
  OBVIOUS
<1>2. PICK k \in Bad : \A y \in Bad : k <= y
  BY <1>1, LeastNumber
<1>3. CASE k = 0
  <2> DEFINE g == [i \in 0..0 |-> z]
  <2>1. g = [i \in 0..0 |-> IF i = 0 THEN z ELSE Step(loop_, a, i, g[i - 1])]
    OBVIOUS
  <2> QED
    BY <1>2, <1>3, <2>1
<1>4. CASE k # 0
  <2>1. k - 1 \in Nat /\ k - 1 \notin Bad
    BY <1>2, <1>4, SMTT(20)
  <2>2. PICK g : Is(g, k - 1)
    BY <2>1
  <2> DEFINE h == [i \in 0..k |-> IF i = k THEN Step(loop_, a, k, g[k - 1]) ELSE g[i]]
  <2>3. ASSUME NEW i \in 0..k
        PROVE  h[i] = IF i = 0 THEN z ELSE Step(loop_, a, i, h[i - 1])
    <3>1. CASE i = k
      BY <3>1, <1>4
    <3>2. CASE i # k /\ i # 0
      <4>1. i \in 0..(k - 1) /\ i - 1 \in 0..k /\ i - 1 # k
        BY <3>2
      <4> QED
        BY <4>1, <2>2, <3>2
    <3>3. CASE i # k /\ i = 0
      <4>1. i \in 0..(k - 1)
        BY <3>3
      <4> QED
        BY <4>1, <2>2, <3>3
    <3> QED
      BY <3>1, <3>2, <3>3
  <2>4. Is(h, k)
    BY <2>3
  <2> QED
    BY <1>2, <2>4
<1> QED
  BY <1>3, <1>4

LEMMA RunValues ==
  ASSUME NEW h, NEW loop_, NEW a, NEW z, NEW n \in Nat, Run(h, loop_, a, z, n)
  PROVE  h[0] = z /\ \A i \in 1..n : h[i] = Step(loop_, a, i, h[i - 1])
BY DEF Run

-----------------------------------------------------------------------------
(* The sum of the lengths.                                                  *)

IsSum(h, f) == h[0] = 0 /\ \A i \in 1..MAX_ID : h[i] = h[i - 1] + Weight(f, i)

LEMMA SumExists ==
  ASSUME NEW f, \A i \in DOMAIN f : f[i].len \in Nat
  PROVE  \E h : /\ IsSum(h, f) /\ Length(f) = h[MAX_ID]
                /\ \A i \in 0..MAX_ID : h[i] \in Nat
<1> DEFINE Is(h) == h = [i \in 0..MAX_ID |-> IF i = 0 THEN 0
                           ELSE IF i \in DOMAIN f THEN h[i - 1] + f[i].len ELSE h[i - 1]]
<1>1. PICK g : Run(g, "length", f, 0, MAX_ID)
  BY StepsExist, Bounds
<1>2. \A h : Is(h) <=> Run(h, "length", f, 0, MAX_ID)
  BY DEF Run, Step
<1>3. PICK h : h = (CHOOSE x : Is(x))
  OBVIOUS
<1>4. Run(h, "length", f, 0, MAX_ID)
  BY <1>1, <1>2, <1>3
<1>5. Length(f) = (CHOOSE x : Is(x))[MAX_ID]
  BY DEF Length
<1> HIDE DEF Is
<1>6. h[0] = 0 /\ \A i \in 1..MAX_ID : h[i] = Step("length", f, i, h[i - 1])
  BY <1>4, RunValues, Bounds
<1>7. h[0] = 0 /\ \A i \in 1..MAX_ID : h[i] = IF i \in DOMAIN f THEN h[i - 1] + f[i].len ELSE h[i - 1]
  BY <1>6 DEF Step
<1> DEFINE S == {i \in 0..MAX_ID : h[i] \in Nat}
<1>8. 0 \in S
  BY <1>7, Bounds
<1>9. ASSUME NEW i \in 1..MAX_ID, i - 1 \in S PROVE i \in S
  BY <1>7, <1>9, Bounds
<1>10. \A i \in 0..MAX_ID : i \in S
  <2> HIDE DEF S
  <2> QED
    BY <1>8, <1>9, StepInduction, Bounds
<1>11. ASSUME NEW i \in 1..MAX_ID PROVE h[i] = h[i - 1] + Weight(f, i)
  <2>1. i - 1 \in 0..MAX_ID
    BY Bounds
  <2> QED
    BY <1>7, <1>10, <2>1 DEF Weight
<1> QED
  BY <1>3, <1>5, <1>7, <1>10, <1>11 DEF IsSum

LEMMA LengthNumber ==
  ASSUME NEW f, \A i \in DOMAIN f : f[i].len \in Nat
  PROVE  Length(f) \in Nat
BY SumExists, Bounds

(* Smaller weights have a smaller sum.                                      *)
LEMMA LengthMonotone ==
  ASSUME NEW f, NEW g, \A i \in DOMAIN f : f[i].len \in Nat, \A i \in DOMAIN g : g[i].len \in Nat,
         \A i \in 1..MAX_ID : Weight(f, i) <= Weight(g, i)
  PROVE  Length(f) <= Length(g)
<1>1. PICK h : IsSum(h, f) /\ Length(f) = h[MAX_ID] /\ \A i \in 0..MAX_ID : h[i] \in Nat
  BY SumExists
<1>2. PICK k : IsSum(k, g) /\ Length(g) = k[MAX_ID] /\ \A i \in 0..MAX_ID : k[i] \in Nat
  BY SumExists
<1> DEFINE S == {i \in 0..MAX_ID : h[i] <= k[i]}
<1>3. 0 \in S
  BY <1>1, <1>2, Bounds DEF IsSum
<1>4. ASSUME NEW i \in 1..MAX_ID, i - 1 \in S PROVE i \in S
  <2>1. i - 1 \in 0..MAX_ID /\ i \in 0..MAX_ID /\ Weight(f, i) \in Nat /\ Weight(g, i) \in Nat
    BY Bounds DEF Weight
  <2>2. h[i] = h[i - 1] + Weight(f, i) /\ k[i] = k[i - 1] + Weight(g, i) /\ h[i - 1] <= k[i - 1]
    BY <1>1, <1>2, <1>4 DEF IsSum
  <2> QED
    BY <1>1, <1>2, <2>1, <2>2
<1>5. \A i \in 0..MAX_ID : i \in S
  <2> HIDE DEF S
  <2> QED
    BY <1>3, <1>4, StepInduction, Bounds
<1> QED
  BY <1>1, <1>2, <1>5, Bounds

(* A change at one place.                                                   *)
LEMMA LengthChanged ==
  ASSUME NEW f, NEW g, \A i \in DOMAIN f : f[i].len \in Nat, \A i \in DOMAIN g : g[i].len \in Nat,
         NEW z \in 1..MAX_ID, \A i \in 1..MAX_ID : i # z => Weight(f, i) = Weight(g, i)
  PROVE  Length(g) = Length(f) - Weight(f, z) + Weight(g, z)
<1>1. PICK h : IsSum(h, f) /\ Length(f) = h[MAX_ID] /\ \A i \in 0..MAX_ID : h[i] \in Nat
  BY SumExists
<1>2. PICK k : IsSum(k, g) /\ Length(g) = k[MAX_ID] /\ \A i \in 0..MAX_ID : k[i] \in Nat
  BY SumExists
<1> DEFINE d == Weight(g, z) - Weight(f, z)
           S == {i \in 0..MAX_ID : k[i] = IF i < z THEN h[i] ELSE h[i] + d}
<1>0. Weight(g, z) \in Nat /\ Weight(f, z) \in Nat /\ d \in Int
  BY DEF Weight
<1>3. 0 \in S
  BY <1>1, <1>2, Bounds DEF IsSum
<1>4. ASSUME NEW i \in 1..MAX_ID, i - 1 \in S PROVE i \in S
  <2>1. i - 1 \in 0..MAX_ID /\ i \in 0..MAX_ID /\ Weight(f, i) \in Nat /\ Weight(g, i) \in Nat
    BY Bounds DEF Weight
  <2>2. h[i] = h[i - 1] + Weight(f, i) /\ k[i] = k[i - 1] + Weight(g, i)
        /\ k[i - 1] = IF i - 1 < z THEN h[i - 1] ELSE h[i - 1] + d
    BY <1>1, <1>2, <1>4 DEF IsSum
  <2>3. CASE i = z
    BY <1>0, <1>1, <1>2, <2>1, <2>2, <2>3
  <2>4. CASE i # z
    <3>1. Weight(f, i) = Weight(g, i)
      BY <2>4
    <3> HIDE DEF d
    <3> QED
      BY <1>0, <1>1, <1>2, <2>1, <2>2, <2>4, <3>1
  <2> QED
    BY <2>3, <2>4
<1>5. \A i \in 0..MAX_ID : i \in S
  <2> HIDE DEF S
  <2> QED
    BY <1>3, <1>4, StepInduction, Bounds
<1>6. MAX_ID \in 0..MAX_ID /\ ~(MAX_ID < z)
  BY Bounds
<1>7. k[MAX_ID] = h[MAX_ID] + d
  BY <1>5, <1>6
<1> QED
  BY <1>0, <1>1, <1>2, <1>6, <1>7

-----------------------------------------------------------------------------
(* The events of a queue, and a log that has exactly these events.          *)

StoredValues == [event_id : Nat, expires_at : Nat, len : Nat]

LogEvents ==
  [type : {"data", "empty"}, id : Nat, val : StoredValues \cup {0}, rewrite : BOOLEAN]

Slots == [log_event_id : Nat, expires_at : Nat \ {0}, len : Nat]

(* They fit into the limits, and only the last one can be a tombstone.      *)
GoodEvents(f) ==
  /\ DOMAIN f \subseteq 1..MAX_ID
  /\ \A i \in DOMAIN f : f[i] \in Slots
  /\ \A i, j \in DOMAIN f : i < j => f[i].len # 0
  /\ Cardinality(DOMAIN f) <= MAX_QUEUE_EVENTS
  /\ Length(f) <= MAX_TOTAL_EVENT_LENGTH

Entry(f, i) == <<f[i].log_event_id, StoredEvent(i, f[i])>>

Describes(f, C) ==
  /\ C = {Entry(f, i) : i \in DOMAIN f}
  /\ \A i \in DOMAIN f : f[i].log_event_id # 0
  /\ \A i, j \in DOMAIN f : i < j => f[i].log_event_id < f[j].log_event_id

(* What a crash now would leave: a log that can be replayed into f.         *)
Recorded(log, f) ==
  /\ Agree(Replay(log), StoredValues)
  /\ GoodEvents(f)
  /\ Describes(f, Contents(Replay(log)))

(* So it is after every event of the log.                                   *)
EveryPrefix(log) ==
  log \in Seq(LogEvents) /\ \A n \in 0..Len(log) : \E f : Recorded(SubSeq(log, 1, n), f)

LEMMA GoodFinite ==
  ASSUME NEW f, DOMAIN f \subseteq 1..MAX_ID
  PROVE  IsFiniteSet(DOMAIN f) /\ Cardinality(DOMAIN f) \in Nat
<1>1. IsFiniteSet(1..MAX_ID)
  BY Bounds, FS_Interval
<1>2. IsFiniteSet(DOMAIN f)
  BY <1>1, FS_Subset
<1> QED
  BY <1>2, FS_CardinalityType

(* An event is taken away, or loses its data; another one is put behind.    *)
Without(f, g, id) ==
  DOMAIN g = DOMAIN f \ {id} /\ \A i \in DOMAIN g : g[i] = f[i]

Emptied(f, g, id) ==
  /\ DOMAIN g = DOMAIN f
  /\ \A i \in DOMAIN g : i # id => g[i] = f[i]
  /\ g[id] \in Slots /\ g[id].len = 0
  /\ g[id].log_event_id = f[id].log_event_id

Extended(f, g, id, e) ==
  /\ DOMAIN g = DOMAIN f \cup {id}
  /\ \A i \in DOMAIN f : g[i] = f[i]
  /\ g[id] = e

LEMMA GoodWithout ==
  ASSUME NEW f, NEW g, GoodEvents(f), NEW id \in DOMAIN f, Without(f, g, id)
  PROVE  GoodEvents(g) /\ Length(g) = Length(f) - f[id].len
<1>1. /\ DOMAIN f \subseteq 1..MAX_ID /\ \A i \in DOMAIN f : f[i] \in Slots /\ f[i].len \in Nat
      /\ \A i \in DOMAIN g : g[i] \in Slots /\ g[i].len \in Nat
      /\ DOMAIN g \subseteq DOMAIN f /\ id \in 1..MAX_ID
  BY DEF GoodEvents, Without, Slots
<1>2. \A i \in 1..MAX_ID : i # id => Weight(f, i) = Weight(g, i)
  BY DEF Weight, Without
<1>3. Weight(f, id) = f[id].len /\ Weight(g, id) = 0
  BY DEF Weight, Without
<1>4. Length(g) = Length(f) - f[id].len
  <2>1. Length(f) \in Nat /\ Length(g) \in Nat
    BY <1>1, LengthNumber
  <2>2. Length(g) = Length(f) - Weight(f, id) + Weight(g, id)
    BY <1>1, <1>2, LengthChanged
  <2> QED
    BY <1>1, <1>3, <2>1, <2>2
<1>5. Length(g) <= MAX_TOTAL_EVENT_LENGTH
  <2>1. Length(f) \in Nat /\ Length(f) <= MAX_TOTAL_EVENT_LENGTH
    BY <1>1, LengthNumber DEF GoodEvents
  <2> QED
    BY <1>1, <1>4, <2>1, Bounds
<1>6. Cardinality(DOMAIN g) <= MAX_QUEUE_EVENTS
  <2>1. IsFiniteSet(DOMAIN f) /\ Cardinality(DOMAIN f) \in Nat
    BY <1>1, GoodFinite
  <2>2. Cardinality(DOMAIN g) <= Cardinality(DOMAIN f) /\ Cardinality(DOMAIN g) \in Nat
    BY <1>1, <2>1, FS_Subset, FS_CardinalityType
  <2> QED
    BY <2>1, <2>2, Bounds DEF GoodEvents
<1> QED
  BY <1>1, <1>4, <1>5, <1>6 DEF GoodEvents, Without

LEMMA GoodEmptied ==
  ASSUME NEW f, NEW g, GoodEvents(f), NEW id \in DOMAIN f, \A i \in DOMAIN f : i <= id,
         Emptied(f, g, id)
  PROVE  GoodEvents(g) /\ Length(g) = Length(f) - f[id].len
<1>1. /\ DOMAIN f \subseteq 1..MAX_ID /\ \A i \in DOMAIN f : f[i] \in Slots /\ f[i].len \in Nat
      /\ \A i \in DOMAIN g : g[i] \in Slots /\ g[i].len \in Nat
      /\ DOMAIN g = DOMAIN f /\ id \in 1..MAX_ID /\ g[id].len = 0
  BY DEF GoodEvents, Emptied, Slots
<1>2. \A i \in 1..MAX_ID : i # id => Weight(f, i) = Weight(g, i)
  BY DEF Weight, Emptied
<1>3. Weight(f, id) = f[id].len /\ Weight(g, id) = 0
  BY <1>1 DEF Weight
<1>4. Length(g) = Length(f) - f[id].len
  <2>1. Length(f) \in Nat /\ Length(g) \in Nat
    BY <1>1, LengthNumber
  <2>2. Length(g) = Length(f) - Weight(f, id) + Weight(g, id)
    BY <1>1, <1>2, LengthChanged
  <2> QED
    BY <1>1, <1>3, <2>1, <2>2
<1>5. Length(g) <= MAX_TOTAL_EVENT_LENGTH
  <2>1. Length(f) \in Nat /\ Length(f) <= MAX_TOTAL_EVENT_LENGTH
    BY <1>1, LengthNumber DEF GoodEvents
  <2> QED
    BY <1>1, <1>4, <2>1, Bounds
<1>6. ASSUME NEW i \in DOMAIN g, NEW j \in DOMAIN g, i < j PROVE g[i].len # 0
  <2>1. i \in DOMAIN f /\ j \in DOMAIN f /\ j <= id /\ i # id
    BY <1>1, <1>6, Bounds
  <2> QED
    BY <1>1, <1>6, <2>1 DEF GoodEvents, Emptied
<1> QED
  BY <1>1, <1>4, <1>5, <1>6 DEF GoodEvents

LEMMA GoodExtended ==
  ASSUME NEW f, NEW g, GoodEvents(f), NEW id \in 1..MAX_ID, NEW e \in Slots,
         \A i \in DOMAIN f : i < id /\ f[i].len # 0, Extended(f, g, id, e),
         Cardinality(DOMAIN f) < MAX_QUEUE_EVENTS,
         Length(f) <= MAX_TOTAL_EVENT_LENGTH - e.len
  PROVE  GoodEvents(g) /\ Length(g) = Length(f) + e.len
<1>1. /\ DOMAIN f \subseteq 1..MAX_ID /\ \A i \in DOMAIN f : f[i] \in Slots /\ f[i].len \in Nat
      /\ \A i \in DOMAIN g : g[i] \in Slots /\ g[i].len \in Nat
      /\ DOMAIN g = DOMAIN f \cup {id} /\ DOMAIN g \subseteq 1..MAX_ID
      /\ e.len \in Nat /\ g[id].len = e.len /\ id \notin DOMAIN f
  BY DEF GoodEvents, Extended, Slots
<1>2. \A i \in 1..MAX_ID : i # id => Weight(f, i) = Weight(g, i)
  BY DEF Weight, Extended
<1>3. Weight(f, id) = 0 /\ Weight(g, id) = e.len
  BY <1>1 DEF Weight
<1>4. Length(f) \in Nat /\ Length(g) \in Nat
  BY <1>1, LengthNumber
<1>5. Length(g) = Length(f) + e.len
  <2>2. Length(g) = Length(f) - Weight(f, id) + Weight(g, id)
    BY <1>1, <1>2, LengthChanged
  <2> QED
    BY <1>1, <1>3, <1>4, <2>2
<1>6. Length(g) <= MAX_TOTAL_EVENT_LENGTH
  BY <1>1, <1>4, <1>5, Bounds
<1>7. Cardinality(DOMAIN g) <= MAX_QUEUE_EVENTS
  <2>1. IsFiniteSet(DOMAIN f) /\ Cardinality(DOMAIN f) \in Nat
    BY <1>1, GoodFinite
  <2>2. Cardinality(DOMAIN g) = Cardinality(DOMAIN f) + 1
    BY <1>1, <2>1, FS_AddElement
  <2> QED
    BY <2>1, <2>2, Bounds
<1>8. ASSUME NEW i \in DOMAIN g, NEW j \in DOMAIN g, i < j PROVE g[i].len # 0
  <2>1. i # id
    BY <1>1, <1>8, Bounds
  <2> QED
    BY <1>1, <2>1 DEF Extended
<1> QED
  BY <1>1, <1>5, <1>6, <1>7, <1>8 DEF GoodEvents

-----------------------------------------------------------------------------
(* The events that TQueueBinlog adds to the log.                            *)

LogIdsDiffer(f) == \A i, j \in DOMAIN f : f[i].log_event_id = f[j].log_event_id => i = j

LEMMA DescribedIdsDiffer ==
  ASSUME NEW f, NEW C, GoodEvents(f), Describes(f, C)
  PROVE  LogIdsDiffer(f)
<1> SUFFICES ASSUME NEW i \in DOMAIN f, NEW j \in DOMAIN f,
                    f[i].log_event_id = f[j].log_event_id, i # j
             PROVE  FALSE
  BY DEF LogIdsDiffer
<1>1. i \in Nat /\ j \in Nat /\ f[i].log_event_id \in Nat /\ f[j].log_event_id \in Nat
  BY Bounds DEF GoodEvents, Slots
<1>2. i < j \/ j < i
  BY <1>1
<1> QED
  BY <1>1, <1>2 DEF Describes

LEMMA DescribesWithout ==
  ASSUME NEW f, NEW g, NEW C, GoodEvents(f), Describes(f, C), NEW id \in DOMAIN f, Without(f, g, id)
  PROVE  Describes(g, {c \in C : c[1] # f[id].log_event_id})
<1> DEFINE D == {c \in C : c[1] # f[id].log_event_id}
<1>1. LogIdsDiffer(f)
  BY DescribedIdsDiffer
<1>2. DOMAIN g = DOMAIN f \ {id} /\ \A i \in DOMAIN g : g[i] = f[i] /\ Entry(g, i) = Entry(f, i)
  BY DEF Without, Entry
<1>3. ASSUME NEW c \in D PROVE c \in {Entry(g, i) : i \in DOMAIN g}
  <2>1. PICK i \in DOMAIN f : c = Entry(f, i)
    BY DEF Describes
  <2>2. i # id
    BY <1>3, <2>1 DEF Entry
  <2> QED
    BY <1>2, <2>1, <2>2
<1>4. ASSUME NEW i \in DOMAIN g PROVE Entry(g, i) \in D
  <2>1. i \in DOMAIN f /\ i # id /\ Entry(g, i) = Entry(f, i)
    BY <1>2
  <2>2. f[i].log_event_id # f[id].log_event_id
    BY <1>1, <2>1 DEF LogIdsDiffer
  <2>3. Entry(f, i) \in C /\ Entry(f, i)[1] = f[i].log_event_id
    BY <2>1 DEF Describes, Entry
  <2> QED
    BY <2>1, <2>2, <2>3
<1>5. D = {Entry(g, i) : i \in DOMAIN g}
  BY <1>3, <1>4
<1>6. \A i \in DOMAIN g : g[i].log_event_id # 0
  BY <1>2 DEF Describes
<1>7. \A i, j \in DOMAIN g : i < j => g[i].log_event_id < g[j].log_event_id
  BY <1>2 DEF Describes
<1> QED
  BY <1>5, <1>6, <1>7 DEF Describes

LEMMA DescribesEmptied ==
  ASSUME NEW f, NEW g, NEW C, GoodEvents(f), Describes(f, C), NEW id \in DOMAIN f, Emptied(f, g, id)
  PROVE  Describes(g, {c \in C : c[1] # f[id].log_event_id} \cup {Entry(g, id)})
<1> DEFINE D == {c \in C : c[1] # f[id].log_event_id} \cup {Entry(g, id)}
<1>1. LogIdsDiffer(f)
  BY DescribedIdsDiffer
<1>2. /\ DOMAIN g = DOMAIN f
      /\ \A i \in DOMAIN g : i # id => g[i] = f[i] /\ Entry(g, i) = Entry(f, i)
      /\ \A i \in DOMAIN g : g[i].log_event_id = f[i].log_event_id
  BY DEF Emptied, Entry
<1>3. ASSUME NEW c \in D PROVE c \in {Entry(g, i) : i \in DOMAIN g}
  <2>1. CASE c = Entry(g, id)
    BY <1>2, <2>1
  <2>2. CASE c \in C /\ c[1] # f[id].log_event_id
    <3>1. PICK i \in DOMAIN f : c = Entry(f, i)
      BY <2>2 DEF Describes
    <3>2. i # id
      BY <2>2, <3>1 DEF Entry
    <3> QED
      BY <1>2, <3>1, <3>2
  <2> QED
    BY <1>3, <2>1, <2>2
<1>4. ASSUME NEW i \in DOMAIN g PROVE Entry(g, i) \in D
  <2>1. CASE i = id
    BY <2>1
  <2>2. CASE i # id
    <3>1. i \in DOMAIN f /\ Entry(g, i) = Entry(f, i)
      BY <1>2, <2>2
    <3>2. f[i].log_event_id # f[id].log_event_id
      BY <1>1, <2>2, <3>1 DEF LogIdsDiffer
    <3>3. Entry(f, i) \in C /\ Entry(f, i)[1] = f[i].log_event_id
      BY <3>1 DEF Describes, Entry
    <3> QED
      BY <3>1, <3>2, <3>3
  <2> QED
    BY <2>1, <2>2
<1>5. D = {Entry(g, i) : i \in DOMAIN g}
  BY <1>3, <1>4
<1>6. \A i \in DOMAIN g : g[i].log_event_id # 0
  BY <1>2 DEF Describes
<1>7. \A i, j \in DOMAIN g : i < j => g[i].log_event_id < g[j].log_event_id
  BY <1>2 DEF Describes
<1> QED
  BY <1>5, <1>6, <1>7 DEF Describes

LEMMA DescribesExtended ==
  ASSUME NEW f, NEW g, NEW C, GoodEvents(f), Describes(f, C), NEW id \in 1..MAX_ID, NEW e \in Slots,
         \A i \in DOMAIN f : i < id /\ f[i].log_event_id < e.log_event_id,
         e.log_event_id # 0, Extended(f, g, id, e)
  PROVE  Describes(g, C \cup {Entry(g, id)})
<1>1. /\ DOMAIN g = DOMAIN f \cup {id} /\ id \notin DOMAIN f /\ g[id] = e
      /\ \A i \in DOMAIN f : g[i] = f[i] /\ Entry(g, i) = Entry(f, i)
      /\ \A i \in DOMAIN f : i \in Nat /\ i < id /\ ~(id < i)
  BY DEF Extended, Entry, GoodEvents
<1>2. C \cup {Entry(g, id)} = {Entry(g, i) : i \in DOMAIN g}
  <2>1. C = {Entry(f, i) : i \in DOMAIN f}
    BY DEF Describes
  <2> QED
    BY <1>1, <2>1
<1>3. \A i \in DOMAIN g : g[i].log_event_id # 0
  BY <1>1 DEF Describes
<1>4. ASSUME NEW i \in DOMAIN g, NEW j \in DOMAIN g, i < j
      PROVE  g[i].log_event_id < g[j].log_event_id
  <2>1. i \in DOMAIN f
    BY <1>1, <1>4
  <2>2. CASE j \in DOMAIN f
    BY <1>1, <1>4, <2>1, <2>2 DEF Describes
  <2>3. CASE j = id
    BY <1>1, <2>1, <2>3
  <2> QED
    BY <1>1, <2>2, <2>3
<1> QED
  BY <1>2, <1>3, <1>4 DEF Describes

-----------------------------------------------------------------------------
(* The log grows by one event.                                              *)

LEMMA ReplayAppend ==
  ASSUME NEW log \in Seq(LogEvents), NEW e \in LogEvents
  PROVE  /\ Append(log, e) \in Seq(LogEvents) /\ Len(Append(log, e)) = Len(log) + 1
         /\ \A n \in 0..Len(log) : SubSeq(Append(log, e), 1, n) = SubSeq(log, 1, n)
         /\ Replay(Append(log, e)) = do_event(Replay(log), e)
<1> DEFINE l == Append(log, e)
           n == Len(log) + 1
<1>1. l \in Seq(LogEvents) /\ Len(l) = n /\ n \in Nat /\ n - 1 = Len(log)
      /\ n \in 1..Len(l) /\ l[n] = e
  OBVIOUS
<1>2. ASSUME NEW m \in 0..Len(log) PROVE SubSeq(l, 1, m) = SubSeq(log, 1, m)
  OBVIOUS
<1>3. SubSeq(l, 1, n - 1) = log
  OBVIOUS
<1>4. SubSeq(l, 1, n) = l
  OBVIOUS
<1> HIDE DEF l, n
<1>5. Replay(SubSeq(l, 1, n)) = do_event(Replay(SubSeq(l, 1, n - 1)), l[n])
  BY <1>1, ReplayProperties
<1> QED
  BY <1>1, <1>2, <1>3, <1>4, <1>5 DEF l, n

LEMMA PrefixAppend ==
  ASSUME NEW log, NEW e \in LogEvents, NEW f, EveryPrefix(log), Recorded(Append(log, e), f)
  PROVE  EveryPrefix(Append(log, e))
<1> DEFINE l == Append(log, e)
<1>1. log \in Seq(LogEvents) /\ Len(log) \in Nat
  BY DEF EveryPrefix
<1>2. /\ l \in Seq(LogEvents) /\ Len(l) = Len(log) + 1
      /\ \A n \in 0..Len(log) : SubSeq(l, 1, n) = SubSeq(log, 1, n)
  BY <1>1, ReplayAppend
<1>3. SubSeq(l, 1, Len(l)) = l
  BY <1>2
<1> HIDE DEF l
<1>4. ASSUME NEW n \in 0..Len(l) PROVE \E g : Recorded(SubSeq(l, 1, n), g)
  <2>1. CASE n = Len(l)
    BY <1>3, <2>1 DEF l
  <2>2. CASE n # Len(l)
    <3>1. n \in 0..Len(log)
      BY <1>1, <1>2, <2>2
    <3> QED
      BY <1>2, <3>1 DEF EveryPrefix
  <2> QED
    BY <2>1, <2>2
<1> QED
  BY <1>2, <1>4 DEF EveryPrefix, l

(* The three events: erase, rewrite without data, add.                      *)
LEMMA RecordedErase ==
  ASSUME NEW log \in Seq(LogEvents), NEW f, NEW g, Recorded(log, f), NEW id \in DOMAIN f,
         Without(f, g, id), NEW e \in LogEvents, e.type = "empty", e.rewrite,
         e.id = f[id].log_event_id
  PROVE  /\ Recorded(Append(log, e), g)
         /\ Replay(Append(log, e)).last_event_id_ = Replay(log).last_event_id_
<1> DEFINE p == Replay(log)
<1>1. Agree(p, StoredValues) /\ GoodEvents(f) /\ Describes(f, Contents(p))
  BY DEF Recorded
<1>2. Entry(f, id) \in Contents(p) /\ Entry(f, id)[1] = e.id
  BY <1>1 DEF Describes, Entry
<1>3. Replay(Append(log, e)) = do_event(p, e)
  BY ReplayAppend
<1> HIDE DEF p
<1>4. PICK i \in Alive(p) : p.events_[i].id = e.id
  BY <1>1, <1>2, LiveOfContents
<1>5. /\ Agree(do_event(p, e), StoredValues)
      /\ Contents(do_event(p, e)) = {c \in Contents(p) : c[1] # e.id}
      /\ do_event(p, e).last_event_id_ = p.last_event_id_
  BY <1>1, <1>4, DoEventErase
<1>6. GoodEvents(g) /\ Describes(g, {c \in Contents(p) : c[1] # e.id})
  BY <1>1, GoodWithout, DescribesWithout
<1> QED
  BY <1>3, <1>5, <1>6 DEF Recorded, p

LEMMA RecordedRewrite ==
  ASSUME NEW log \in Seq(LogEvents), NEW f, NEW g, Recorded(log, f), NEW id \in DOMAIN f,
         \A i \in DOMAIN f : i <= id,
         Emptied(f, g, id), NEW e \in LogEvents, e.type = "data", e.rewrite,
         e.id = f[id].log_event_id, e.val = StoredEvent(id, g[id])
  PROVE  /\ Recorded(Append(log, e), g)
         /\ Replay(Append(log, e)).last_event_id_ = Replay(log).last_event_id_
<1> DEFINE p == Replay(log)
<1>1. Agree(p, StoredValues) /\ GoodEvents(f) /\ Describes(f, Contents(p))
  BY DEF Recorded
<1>2. Entry(f, id) \in Contents(p) /\ Entry(f, id)[1] = e.id
  BY <1>1 DEF Describes, Entry
<1>3. Replay(Append(log, e)) = do_event(p, e)
  BY ReplayAppend
<1> HIDE DEF p
<1>4. PICK i \in Alive(p) : p.events_[i].id = e.id
  BY <1>1, <1>2, LiveOfContents
<1>5. e.val \in StoredValues /\ e \in Data(StoredValues)
  <2>1. id \in Nat /\ g[id] \in Slots
    BY <1>1, Bounds DEF GoodEvents, Emptied
  <2>2. e.val \in StoredValues
    BY <2>1 DEF StoredEvent, StoredValues, Slots
  <2> QED
    BY <2>2 DEF Data, LogEvents
<1>6. /\ Agree(do_event(p, e), StoredValues)
      /\ Contents(do_event(p, e)) = {c \in Contents(p) : c[1] # e.id} \cup {<<e.id, e.val>>}
      /\ do_event(p, e).last_event_id_ = p.last_event_id_
  BY <1>1, <1>4, <1>5, DoEventRewrite
<1>7. <<e.id, e.val>> = Entry(g, id)
  BY DEF Entry, Emptied
<1>8. GoodEvents(g) /\ Describes(g, {c \in Contents(p) : c[1] # e.id} \cup {Entry(g, id)})
  BY <1>1, GoodEmptied, DescribesEmptied
<1> QED
  BY <1>3, <1>6, <1>7, <1>8 DEF Recorded, p

LEMMA RecordedAdd ==
  ASSUME NEW log \in Seq(LogEvents), NEW f, NEW g, Recorded(log, f), NEW id \in 1..MAX_ID,
         NEW slot \in Slots, Extended(f, g, id, slot), GoodEvents(g),
         \A i \in DOMAIN f : i < id,
         NEW e \in LogEvents, e.type = "data",
         e.id = slot.log_event_id, e.id > Replay(log).last_event_id_, e.val = StoredEvent(id, slot)
  PROVE  /\ Recorded(Append(log, e), g)
         /\ Replay(Append(log, e)).last_event_id_ = e.id
<1> DEFINE p == Replay(log)
<1>1. Agree(p, StoredValues) /\ GoodEvents(f) /\ Describes(f, Contents(p))
  BY DEF Recorded
<1>2. p.last_event_id_ \in Nat /\ e.id \in Nat /\ e.id > p.last_event_id_
  BY <1>1, TypedFields DEF Agree, LogEvents
<1>3. Replay(Append(log, e)) = do_event(p, e)
  BY ReplayAppend
<1> HIDE DEF p
<1>4. e.val \in StoredValues /\ e \in Data(StoredValues)
  <2>1. e.val \in StoredValues
    BY DEF StoredEvent, StoredValues, Slots
  <2> QED
    BY <2>1 DEF Data, LogEvents
<1>5. /\ Agree(do_event(p, e), StoredValues)
      /\ Contents(do_event(p, e)) = Contents(p) \cup {<<e.id, e.val>>}
      /\ do_event(p, e).last_event_id_ = e.id
  BY <1>1, <1>2, <1>4, DoEventNew
<1>6. ASSUME NEW i \in DOMAIN f PROVE f[i].log_event_id < slot.log_event_id
  <2>1. Entry(f, i) \in Contents(p) /\ Entry(f, i)[1] = f[i].log_event_id /\ f[i].log_event_id \in Nat
    BY <1>1 DEF Describes, Entry, GoodEvents, Slots
  <2>2. PICK k \in Alive(p) : p.events_[k].id = f[i].log_event_id
    BY <1>1, <2>1, LiveOfContents
  <2>3. /\ k \in 1..Len(p.event_ids_) /\ p.event_ids_[k] \in Nat
        /\ p.events_[k].id * 2 = p.event_ids_[k] /\ p.event_ids_[k] <= p.last_event_id_ * 2 + 1
    BY <1>1, TypedFields DEF Agree, Sorted, Alive
  <2> QED
    BY <1>2, <2>1, <2>2, <2>3
<1>7. slot.log_event_id # 0 /\ <<e.id, e.val>> = Entry(g, id)
  BY <1>2 DEF Entry, Extended
<1>8. Describes(g, Contents(p) \cup {Entry(g, id)})
  BY <1>1, <1>6, <1>7, DescribesExtended
<1> QED
  BY <1>3, <1>5, <1>7, <1>8 DEF Recorded, p

-----------------------------------------------------------------------------
(* The queue, also between the steps of an operation: the limits hold, the  *)
(* length is the sum and the log has exactly the events of the queue.       *)

IsQueue(s) ==
  DOMAIN s = {"tail_id", "events", "total_event_length", "gc_at", "log", "last_event_id_"}

LogHeld(s) ==
  /\ EveryPrefix(s.log) /\ Recorded(s.log, s.events)
  /\ Replay(s.log).last_event_id_ <= s.last_event_id_

Held(cb, s) ==
  /\ IsQueue(s)
  /\ s.tail_id \in Nat /\ s.gc_at \in Nat /\ s.last_event_id_ \in Nat
  /\ GoodEvents(s.events)
  /\ s.total_event_length = Length(s.events)
  /\ cb => LogHeld(s)
  /\ ~cb => s.log = <<>> /\ \A i \in Ids(s) : s.events[i].len # 0

(* The log s is the beginning of t.                                         *)
Grown(s, t) == Len(s) <= Len(t) /\ \A n \in 1..Len(s) : t[n] = s[n]

LEMMA GrownAppend ==
  ASSUME NEW log \in Seq(LogEvents), NEW e \in LogEvents
  PROVE  Grown(log, Append(log, e))
BY DEF Grown

(* A queue from which an event is erased, without and with a log.           *)
LEMMA HeldWithout ==
  ASSUME NEW s, NEW t, Held(FALSE, s), NEW id \in Ids(s), IsQueue(t), Without(s.events, t.events, id),
         t.total_event_length = s.total_event_length - s.events[id].len,
         t.log = s.log, t.last_event_id_ = s.last_event_id_, t.tail_id \in Nat, t.gc_at \in Nat
  PROVE  Held(FALSE, t)
<1>1. GoodEvents(t.events) /\ Length(t.events) = Length(s.events) - s.events[id].len
  BY GoodWithout DEF Held, Ids
<1> QED
  BY <1>1 DEF Held, Without, Ids

LEMMA HeldErased ==
  ASSUME NEW s, NEW t, Held(TRUE, s), NEW id \in Ids(s), IsQueue(t), Without(s.events, t.events, id),
         t.total_event_length = s.total_event_length - s.events[id].len,
         t.log = callback_pop(s, s.events[id].log_event_id).log,
         t.last_event_id_ = s.last_event_id_ + 1, t.tail_id \in Nat, t.gc_at \in Nat
  PROVE  Held(TRUE, t) /\ Grown(s.log, t.log)
<1> DEFINE e == [type |-> "empty", id |-> s.events[id].log_event_id, val |-> 0, rewrite |-> TRUE]
<1>1. t.log = Append(s.log, e)
  BY DEF callback_pop, Logged, Held, IsQueue
<1>2. e \in LogEvents /\ e.type = "empty" /\ e.rewrite = TRUE /\ e.id = s.events[id].log_event_id
  BY DEF LogEvents, Held, GoodEvents, Slots, Ids
<1>3. /\ s.log \in Seq(LogEvents) /\ EveryPrefix(s.log) /\ Recorded(s.log, s.events)
      /\ s.last_event_id_ \in Nat /\ Replay(s.log).last_event_id_ <= s.last_event_id_
      /\ Replay(s.log).last_event_id_ \in Nat
  BY TypedFields DEF Held, LogHeld, EveryPrefix, Recorded, Agree
<1> HIDE DEF e
<1>4. /\ Recorded(t.log, t.events)
      /\ Replay(t.log).last_event_id_ = Replay(s.log).last_event_id_
  BY <1>1, <1>2, <1>3, RecordedErase DEF Ids
<1>5. EveryPrefix(t.log) /\ Grown(s.log, t.log)
  BY <1>1, <1>2, <1>3, <1>4, PrefixAppend, GrownAppend
<1>6. GoodEvents(t.events) /\ Length(t.events) = Length(s.events) - s.events[id].len
  BY GoodWithout DEF Held, Ids
<1>7. Replay(t.log).last_event_id_ <= t.last_event_id_ /\ t.last_event_id_ \in Nat
  BY <1>3, <1>4
<1> QED
  BY <1>4, <1>5, <1>6, <1>7 DEF Held, LogHeld

(* A queue whose last event becomes a tombstone.                            *)
LEMMA HeldRewritten ==
  ASSUME NEW s, NEW t, Held(TRUE, s), NEW id \in Ids(s), \A i \in Ids(s) : i <= id,
         IsQueue(t), Emptied(s.events, t.events, id),
         t.total_event_length = s.total_event_length - s.events[id].len,
         t.log = callback_rewrite(s, id, t.events[id]).log,
         t.last_event_id_ = s.last_event_id_ + 1, t.tail_id \in Nat, t.gc_at \in Nat
  PROVE  Held(TRUE, t) /\ Grown(s.log, t.log)
<1> DEFINE e == [type |-> "data", id |-> t.events[id].log_event_id,
                 val |-> StoredEvent(id, t.events[id]), rewrite |-> TRUE]
<1>1. t.log = Append(s.log, e)
  BY DEF callback_rewrite, Logged, Held, IsQueue
<1>2. /\ e \in LogEvents /\ e.type = "data" /\ e.rewrite = TRUE
      /\ e.id = s.events[id].log_event_id /\ e.val = StoredEvent(id, t.events[id])
  <2>1. t.events[id] \in Slots /\ id \in Nat /\ t.events[id].log_event_id = s.events[id].log_event_id
    BY Bounds DEF Emptied, Held, GoodEvents, Ids
  <2>2. StoredEvent(id, t.events[id]) \in StoredValues
    BY <2>1 DEF StoredEvent, StoredValues, Slots
  <2>3. t.events[id].log_event_id \in Nat
    BY <2>1 DEF Slots
  <2> QED
    BY <2>1, <2>2, <2>3 DEF LogEvents
<1>3. /\ s.log \in Seq(LogEvents) /\ EveryPrefix(s.log) /\ Recorded(s.log, s.events)
      /\ s.last_event_id_ \in Nat /\ Replay(s.log).last_event_id_ <= s.last_event_id_
      /\ Replay(s.log).last_event_id_ \in Nat
  BY TypedFields DEF Held, LogHeld, EveryPrefix, Recorded, Agree
<1> HIDE DEF e
<1>4. /\ Recorded(t.log, t.events)
      /\ Replay(t.log).last_event_id_ = Replay(s.log).last_event_id_
  BY <1>1, <1>2, <1>3, RecordedRewrite DEF Ids
<1>5. EveryPrefix(t.log) /\ Grown(s.log, t.log)
  BY <1>1, <1>2, <1>3, <1>4, PrefixAppend, GrownAppend
<1>6. GoodEvents(t.events) /\ Length(t.events) = Length(s.events) - s.events[id].len
  BY GoodEmptied DEF Held, Ids
<1>7. Replay(t.log).last_event_id_ <= t.last_event_id_ /\ t.last_event_id_ \in Nat
  BY <1>3, <1>4
<1> QED
  BY <1>4, <1>5, <1>6, <1>7 DEF Held, LogHeld

-----------------------------------------------------------------------------
(* The private operations, field by field.                                  *)

LEMMA RemoveFields ==
  ASSUME NEW s, IsQueue(s), NEW id \in Ids(s)
  PROVE  LET t == remove_event(s, id)
         IN  /\ IsQueue(t) /\ Without(s.events, t.events, id)
             /\ t.total_event_length = s.total_event_length - s.events[id].len
             /\ t.log = s.log /\ t.last_event_id_ = s.last_event_id_
             /\ t.tail_id = s.tail_id /\ t.gc_at = s.gc_at
BY DEF remove_event, IsQueue, Without, Drop, Ids

LEMMA ClearFields ==
  ASSUME NEW s, IsQueue(s), NEW id \in Ids(s), s.events[id] \in Slots
  PROVE  LET t == clear_event_data(s, id)
         IN  /\ IsQueue(t) /\ Emptied(s.events, t.events, id)
             /\ t.total_event_length = s.total_event_length - s.events[id].len
             /\ t.log = s.log /\ t.last_event_id_ = s.last_event_id_
             /\ t.tail_id = s.tail_id /\ t.gc_at = s.gc_at
<1> DEFINE t == clear_event_data(s, id)
<1>1. /\ IsQueue(t) /\ t.events = [s.events EXCEPT ![id].len = 0]
      /\ t.total_event_length = s.total_event_length - s.events[id].len
      /\ t.log = s.log /\ t.last_event_id_ = s.last_event_id_
      /\ t.tail_id = s.tail_id /\ t.gc_at = s.gc_at
  BY DEF clear_event_data, IsQueue
<1>2. Emptied(s.events, t.events, id)
  BY <1>1 DEF Emptied, Slots, Ids
<1> QED
  BY <1>1, <1>2

LEMMA CallbackFields ==
  ASSUME NEW s, IsQueue(s), NEW log_event_id, NEW event_id, NEW e
  PROVE  /\ LET t == callback_pop(s, log_event_id)
            IN  /\ IsQueue(t) /\ t.last_event_id_ = s.last_event_id_ + 1
                /\ t.tail_id = s.tail_id /\ t.events = s.events /\ t.gc_at = s.gc_at
                /\ t.total_event_length = s.total_event_length
         /\ LET t == callback_rewrite(s, event_id, e)
            IN  /\ IsQueue(t) /\ t.last_event_id_ = s.last_event_id_ + 1
                /\ t.tail_id = s.tail_id /\ t.events = s.events /\ t.gc_at = s.gc_at
                /\ t.total_event_length = s.total_event_length
                /\ t.log = Append(s.log, [type |-> "data", id |-> e.log_event_id,
                                          val |-> StoredEvent(event_id, e), rewrite |-> TRUE])
BY DEF callback_pop, callback_rewrite, Logged, IsQueue

(* What both ways to remove an event leave.                                 *)
LEMMA EraseResult ==
  ASSUME NEW cb \in BOOLEAN, NEW s, Held(cb, s), NEW id \in Ids(s)
  PROVE  LET t == Erased(cb, s, id)
         IN  /\ Held(cb, t) /\ Grown(s.log, t.log) /\ Without(s.events, t.events, id)
             /\ t.tail_id = s.tail_id /\ t.gc_at = s.gc_at
             /\ t = remove_event(IF cb THEN callback_pop(s, s.events[id].log_event_id) ELSE s, id)
<1> DEFINE log_id == s.events[id].log_event_id
           u == callback_pop(s, log_id)
           t == Erased(cb, s, id)
<1>1. IsQueue(s) /\ s.tail_id \in Nat /\ s.gc_at \in Nat
  BY DEF Held
<1>2. CASE cb
  <2>1. log_id # 0
    BY <1>2 DEF Held, LogHeld, Recorded, Describes, Ids
  <2>2. t = remove_event(u, id)
    BY <1>2, <2>1 DEF Erased
  <2>3. /\ IsQueue(u) /\ u.last_event_id_ = s.last_event_id_ + 1
        /\ u.tail_id = s.tail_id /\ u.events = s.events /\ u.gc_at = s.gc_at
        /\ u.total_event_length = s.total_event_length
    BY <1>1, CallbackFields
  <2> HIDE DEF u
  <2>4. id \in Ids(u)
    BY <2>3 DEF Ids
  <2>5. /\ IsQueue(t) /\ Without(u.events, t.events, id)
        /\ t.total_event_length = u.total_event_length - u.events[id].len
        /\ t.log = u.log /\ t.last_event_id_ = u.last_event_id_
        /\ t.tail_id = u.tail_id /\ t.gc_at = u.gc_at
    BY <2>2, <2>3, <2>4, RemoveFields
  <2> HIDE DEF t
  <2>6. Held(TRUE, s) /\ t.log = callback_pop(s, s.events[id].log_event_id).log
    BY <1>2, <2>5 DEF u
  <2>7. Held(TRUE, t) /\ Grown(s.log, t.log)
    BY <1>1, <2>3, <2>5, <2>6, HeldErased
  <2>8. Held(cb, t) /\ Grown(s.log, t.log)
    BY <1>2, <2>7
  <2> QED
    BY <1>2, <2>2, <2>3, <2>5, <2>8 DEF t, u
<1>3. CASE ~cb
  <2>1. t = remove_event(s, id)
    BY <1>3 DEF Erased
  <2>2. /\ IsQueue(t) /\ Without(s.events, t.events, id)
        /\ t.total_event_length = s.total_event_length - s.events[id].len
        /\ t.log = s.log /\ t.last_event_id_ = s.last_event_id_
        /\ t.tail_id = s.tail_id /\ t.gc_at = s.gc_at
    BY <1>1, <2>1, RemoveFields
  <2> HIDE DEF t
  <2>3. Held(FALSE, s)
    BY <1>3
  <2>4. Held(FALSE, t)
    BY <1>1, <2>2, <2>3, HeldWithout
  <2>5. Held(cb, t)
    BY <1>3, <2>4
  <2>6. Grown(s.log, t.log)
    BY <1>3, <2>2 DEF Held, Grown
  <2> QED
    BY <1>3, <2>1, <2>2, <2>5, <2>6 DEF t
<1> QED
  BY <1>2, <1>3

LEMMA PopResult ==
  ASSUME NEW cb \in BOOLEAN, NEW s, Held(cb, s), NEW id \in Ids(s), NEW tail_id \in Nat,
         tail_id = 0 \/ \A i \in Ids(s) : i < tail_id
  PROVE  LET t == pop(cb, s, id, tail_id)
         IN  /\ Held(cb, t) /\ Grown(s.log, t.log)
             /\ t.tail_id = s.tail_id /\ t.gc_at = s.gc_at
             /\ \/ Without(s.events, t.events, id) /\ ~(cb /\ id + 1 = tail_id)
                \/ Emptied(s.events, t.events, id) /\ cb /\ id + 1 = tail_id
<1> DEFINE e == s.events[id]
           c == clear_event_data(s, id)
           t == pop(cb, s, id, tail_id)
<1>1. IsQueue(s) /\ s.tail_id \in Nat /\ s.gc_at \in Nat /\ e \in Slots /\ id \in Nat
  BY Bounds DEF Held, GoodEvents, Ids
<1>2. cb => e.log_event_id # 0
  BY DEF Held, LogHeld, Recorded, Describes, Ids
<1>3. CASE ~(cb /\ id + 1 = tail_id)
  <2>1. t = remove_event(IF cb THEN callback_pop(s, e.log_event_id) ELSE s, id)
    BY <1>2, <1>3 DEF pop
  <2> QED
    BY <1>3, <2>1, EraseResult
<1>4. CASE cb /\ id + 1 = tail_id /\ e.len = 0
  <2>1. t = s
    BY <1>2, <1>4 DEF pop
  <2>2. Grown(s.log, s.log)
    BY <1>4 DEF Grown, Held, LogHeld, EveryPrefix
  <2>3. Emptied(s.events, s.events, id)
    BY <1>1, <1>4 DEF Emptied
  <2> QED
    BY <1>4, <2>1, <2>2, <2>3
<1>5. CASE cb /\ id + 1 = tail_id /\ e.len # 0
  <2>1. t = callback_rewrite(c, id, c.events[id])
    BY <1>2, <1>5 DEF pop
  <2>2. /\ IsQueue(c) /\ Emptied(s.events, c.events, id)
        /\ c.total_event_length = s.total_event_length - s.events[id].len
        /\ c.log = s.log /\ c.last_event_id_ = s.last_event_id_
        /\ c.tail_id = s.tail_id /\ c.gc_at = s.gc_at
    BY <1>1, ClearFields
  <2> HIDE DEF c
  <2>3. /\ IsQueue(t) /\ t.last_event_id_ = c.last_event_id_ + 1
        /\ t.tail_id = c.tail_id /\ t.events = c.events /\ t.gc_at = c.gc_at
        /\ t.total_event_length = c.total_event_length
        /\ t.log = callback_rewrite(s, id, c.events[id]).log
    <3> DEFINE x == c.events[id]
    <3>1. t = callback_rewrite(c, id, x)
      BY <2>1
    <3> HIDE DEF x, t
    <3>2. /\ IsQueue(t) /\ t.last_event_id_ = c.last_event_id_ + 1
          /\ t.tail_id = c.tail_id /\ t.events = c.events /\ t.gc_at = c.gc_at
          /\ t.total_event_length = c.total_event_length
          /\ t.log = Append(c.log, [type |-> "data", id |-> x.log_event_id,
                                   val |-> StoredEvent(id, x), rewrite |-> TRUE])
      <4>1. IsQueue(c)
        BY <2>2
      <4> QED
        BY <3>1, <4>1, CallbackFields
    <3>3. callback_rewrite(s, id, x).log = Append(s.log, [type |-> "data", id |-> x.log_event_id,
                                                          val |-> StoredEvent(id, x), rewrite |-> TRUE])
      BY <1>1 DEF callback_rewrite, Logged, IsQueue
    <3> QED
      BY <2>2, <3>2, <3>3 DEF x
  <2> HIDE DEF t
  <2>4. \A i \in Ids(s) : i <= id
    BY <1>1, <1>5, Bounds DEF Held, GoodEvents, Ids
  <2>5. Held(TRUE, s)
    BY <1>5
  <2>6. Held(TRUE, t) /\ Grown(s.log, t.log)
    BY <1>1, <2>2, <2>3, <2>4, <2>5, HeldRewritten
  <2>7. Held(cb, t)
    BY <1>5, <2>6
  <2> QED
    BY <1>5, <2>2, <2>3, <2>6, <2>7 DEF t
<1> QED
  BY <1>3, <1>4, <1>5

-----------------------------------------------------------------------------
(* The loops over the events.                                               *)

LEMMA HeldLog ==
  ASSUME NEW cb \in BOOLEAN, NEW s, Held(cb, s)
  PROVE  s.log \in Seq(LogEvents) /\ Len(s.log) \in Nat
<1>1. CASE cb
  BY <1>1 DEF Held, LogHeld, EveryPrefix
<1>2. CASE ~cb
  <2>1. s.log = <<>>
    BY <1>2 DEF Held
  <2> QED
    BY <2>1
<1> QED
  BY <1>1, <1>2

LEMMA GrownTransitive ==
  ASSUME NEW cb \in BOOLEAN, NEW s, NEW t, NEW u, Held(cb, s), Held(cb, t), Held(cb, u),
         Grown(s.log, t.log), Grown(t.log, u.log)
  PROVE  Grown(s.log, u.log)
<1>1. Len(s.log) \in Nat /\ Len(t.log) \in Nat /\ Len(u.log) \in Nat
  BY HeldLog
<1> QED
  BY <1>1 DEF Grown

LEMMA GrownReflexive ==
  ASSUME NEW cb \in BOOLEAN, NEW s, Held(cb, s)
  PROVE  Grown(s.log, s.log)
BY HeldLog DEF Grown

(* t is s after the events of ids up to i were popped.                      *)
Popped(cb, s, t, ids, tail_id, i) ==
  /\ Held(cb, t) /\ Grown(s.log, t.log) /\ t.tail_id = s.tail_id /\ t.gc_at = s.gc_at
  /\ Ids(t) \subseteq Ids(s)
  /\ \A j \in Ids(s) : j \notin ids \/ j > i => j \in Ids(t) /\ t.events[j] = s.events[j]
  /\ \A j \in ids : j <= i => IF cb /\ j + 1 = tail_id THEN j \in Ids(t) /\ t.events[j].len = 0
                              ELSE j \notin Ids(t)

LEMMA PopAllRun ==
  ASSUME NEW cb, NEW s, NEW ids, NEW tail_id
  PROVE  \E h : /\ h[0] = s /\ h[MAX_ID] = PopAll(cb, s, ids, tail_id)
                /\ \A i \in 1..MAX_ID :
                     h[i] = IF i \in ids THEN pop(cb, h[i - 1], i, tail_id) ELSE h[i - 1]
<1> DEFINE Is(h) == h = [i \in 0..MAX_ID |-> IF i = 0 THEN s
                           ELSE IF i \in ids THEN pop(cb, h[i - 1], i, tail_id) ELSE h[i - 1]]
           a == [cb |-> cb, ids |-> ids, tail_id |-> tail_id]
<1>0. a.cb = cb /\ a.ids = ids /\ a.tail_id = tail_id
  OBVIOUS
<1> HIDE DEF a
<1>1. PICK g : Run(g, "pop", a, s, MAX_ID)
  BY StepsExist, Bounds
<1>2. \A h : Is(h) <=> Run(h, "pop", a, s, MAX_ID)
  BY <1>0 DEF Run, Step
<1>3. PICK h : h = (CHOOSE x : Is(x))
  OBVIOUS
<1>4. Run(h, "pop", a, s, MAX_ID)
  BY <1>1, <1>2, <1>3
<1>5. PopAll(cb, s, ids, tail_id) = (CHOOSE x : Is(x))[MAX_ID]
  BY DEF PopAll
<1> HIDE DEF Is
<1>6. h[0] = s /\ \A i \in 1..MAX_ID : h[i] = Step("pop", a, i, h[i - 1])
  BY <1>4, RunValues, Bounds
<1>7. \A i \in 1..MAX_ID : h[i] = IF i \in ids THEN pop(cb, h[i - 1], i, tail_id) ELSE h[i - 1]
  BY <1>0, <1>6 DEF Step
<1> WITNESS h
<1> QED
  BY <1>3, <1>5, <1>6, <1>7

LEMMA PopAllResult ==
  ASSUME NEW cb \in BOOLEAN, NEW s, Held(cb, s), NEW ids \in SUBSET Ids(s), NEW tail_id \in Nat,
         tail_id = 0 \/ \A i \in Ids(s) : i < tail_id
  PROVE  Popped(cb, s, PopAll(cb, s, ids, tail_id), ids, tail_id, MAX_ID)
<1>1. PICK h : /\ h[0] = s /\ h[MAX_ID] = PopAll(cb, s, ids, tail_id)
               /\ \A i \in 1..MAX_ID :
                    h[i] = IF i \in ids THEN pop(cb, h[i - 1], i, tail_id) ELSE h[i - 1]
  BY PopAllRun
<1> DEFINE P(i) == Popped(cb, s, h[i], ids, tail_id, i)
           S == {i \in 0..MAX_ID : P(i)}
<1>0. \A j \in Ids(s) : j \in 1..MAX_ID
  BY DEF Held, GoodEvents, Ids
<1>2. 0 \in S
  <2>1. Grown(s.log, s.log)
    BY GrownReflexive
  <2>2. \A j \in ids : ~(j <= 0)
    BY <1>0
  <2> QED
    BY <1>1, <2>1, <2>2, Bounds DEF Popped
<1>3. ASSUME NEW i \in 1..MAX_ID, i - 1 \in S PROVE i \in S
  <2> DEFINE u == h[i - 1]
             t == h[i]
  <2>1. /\ Held(cb, u) /\ Grown(s.log, u.log) /\ u.tail_id = s.tail_id /\ u.gc_at = s.gc_at
        /\ Ids(u) \subseteq Ids(s)
        /\ \A j \in Ids(s) : j \notin ids \/ j > i - 1 => j \in Ids(u) /\ u.events[j] = s.events[j]
        /\ \A j \in ids : j <= i - 1 => IF cb /\ j + 1 = tail_id THEN j \in Ids(u) /\ u.events[j].len = 0
                                        ELSE j \notin Ids(u)
    BY <1>3 DEF Popped
  <2>2. t = IF i \in ids THEN pop(cb, u, i, tail_id) ELSE u
    BY <1>1
  <2>3. \A j \in Ids(s) : j \in Nat /\ (j > i - 1 <=> j = i \/ j > i) /\ (j <= i <=> j = i \/ j <= i - 1)
                          /\ (j > i => j # i) /\ (j <= i - 1 => j # i)
    BY <1>0
  <2>9. i \in 0..MAX_ID
    BY Bounds
  <2> HIDE DEF u, t
  <2>4. CASE i \notin ids
    <3>1. t = u
      BY <2>2, <2>4
    <3>2. \A j \in Ids(s) : j \notin ids \/ j > i => j \in Ids(t) /\ t.events[j] = s.events[j]
      BY <2>1, <2>3, <3>1
    <3>3. \A j \in ids : j <= i => IF cb /\ j + 1 = tail_id THEN j \in Ids(t) /\ t.events[j].len = 0
                                   ELSE j \notin Ids(t)
      BY <2>1, <2>3, <2>4, <3>1
    <3>4. Popped(cb, s, t, ids, tail_id, i)
      BY <2>1, <3>1, <3>2, <3>3 DEF Popped
    <3> QED
      BY <2>9, <3>4 DEF t
  <2>5. CASE i \in ids
    <3>1. t = pop(cb, u, i, tail_id)
      BY <2>2, <2>5
    <3>2. i \in Ids(u) /\ (tail_id = 0 \/ \A j \in Ids(u) : j < tail_id)
      BY <2>1, <2>3, <2>5
    <3>3. /\ Held(cb, t) /\ Grown(u.log, t.log)
          /\ t.tail_id = u.tail_id /\ t.gc_at = u.gc_at
          /\ \/ Without(u.events, t.events, i) /\ ~(cb /\ i + 1 = tail_id)
             \/ Emptied(u.events, t.events, i) /\ cb /\ i + 1 = tail_id
      BY <2>1, <3>1, <3>2, PopResult
    <3>4. /\ Ids(t) \subseteq Ids(u)
          /\ \A j \in Ids(u) : j # i => j \in Ids(t) /\ t.events[j] = u.events[j]
          /\ IF cb /\ i + 1 = tail_id THEN i \in Ids(t) /\ t.events[i].len = 0 ELSE i \notin Ids(t)
      BY <3>2, <3>3 DEF Without, Emptied, Ids
    <3>5. \A j \in Ids(s) : j \notin ids \/ j > i => j \in Ids(t) /\ t.events[j] = s.events[j]
      BY <2>1, <2>3, <2>5, <3>4
    <3>6. ASSUME NEW j \in ids, j <= i
          PROVE  IF cb /\ j + 1 = tail_id THEN j \in Ids(t) /\ t.events[j].len = 0 ELSE j \notin Ids(t)
      <4>1. CASE j = i
        BY <3>4, <4>1
      <4>2. CASE j # i
        <5>1. j <= i - 1
          BY <2>3, <3>6, <4>2
        <5> QED
          BY <2>1, <3>4, <4>2, <5>1
      <4> QED
        BY <4>1, <4>2
    <3>7. Grown(s.log, t.log)
      BY <2>1, <3>3, GrownTransitive
    <3>8. Popped(cb, s, t, ids, tail_id, i)
      BY <2>1, <3>3, <3>4, <3>5, <3>6, <3>7 DEF Popped
    <3> QED
      BY <2>9, <3>8 DEF t
  <2> QED
    BY <2>4, <2>5
<1>4. \A i \in 0..MAX_ID : i \in S
  <2> HIDE DEF S
  <2> QED
    BY <1>2, <1>3, StepInduction, Bounds
<1>5. P(MAX_ID)
  BY <1>4, Bounds
<1> QED
  BY <1>1, <1>5

(* t is s after the events of ids up to i were erased.                      *)
Cleared(cb, s, t, ids, i) ==
  /\ Held(cb, t) /\ Grown(s.log, t.log) /\ t.tail_id = s.tail_id /\ t.gc_at = s.gc_at
  /\ Ids(t) = {j \in Ids(s) : j \notin ids \/ j > i}
  /\ \A j \in Ids(t) : t.events[j] = s.events[j]

LEMMA EraseAllRun ==
  ASSUME NEW cb, NEW s, NEW ids
  PROVE  \E h : /\ h[0] = s /\ h[MAX_ID] = EraseAll(cb, s, ids)
                /\ \A i \in 1..MAX_ID :
                     h[i] = IF i \in ids THEN Erased(cb, h[i - 1], i) ELSE h[i - 1]
<1> DEFINE Is(h) == h = [i \in 0..MAX_ID |-> IF i = 0 THEN s
                           ELSE IF i \in ids THEN Erased(cb, h[i - 1], i) ELSE h[i - 1]]
           a == [cb |-> cb, ids |-> ids]
<1>0. a.cb = cb /\ a.ids = ids
  OBVIOUS
<1> HIDE DEF a
<1>1. PICK g : Run(g, "erase", a, s, MAX_ID)
  BY StepsExist, Bounds
<1>2. \A h : Is(h) <=> Run(h, "erase", a, s, MAX_ID)
  BY <1>0 DEF Run, Step
<1>3. PICK h : h = (CHOOSE x : Is(x))
  OBVIOUS
<1>4. Run(h, "erase", a, s, MAX_ID)
  BY <1>1, <1>2, <1>3
<1>5. EraseAll(cb, s, ids) = (CHOOSE x : Is(x))[MAX_ID]
  BY DEF EraseAll
<1> HIDE DEF Is
<1>6. h[0] = s /\ \A i \in 1..MAX_ID : h[i] = Step("erase", a, i, h[i - 1])
  BY <1>4, RunValues, Bounds
<1>7. \A i \in 1..MAX_ID : h[i] = IF i \in ids THEN Erased(cb, h[i - 1], i) ELSE h[i - 1]
  BY <1>0, <1>6 DEF Step
<1> WITNESS h
<1> QED
  BY <1>3, <1>5, <1>6, <1>7

LEMMA EraseAllResult ==
  ASSUME NEW cb \in BOOLEAN, NEW s, Held(cb, s), NEW ids \in SUBSET Ids(s)
  PROVE  Cleared(cb, s, EraseAll(cb, s, ids), ids, MAX_ID)
<1>1. PICK h : /\ h[0] = s /\ h[MAX_ID] = EraseAll(cb, s, ids)
               /\ \A i \in 1..MAX_ID :
                    h[i] = IF i \in ids THEN Erased(cb, h[i - 1], i) ELSE h[i - 1]
  BY EraseAllRun
<1> DEFINE P(i) == Cleared(cb, s, h[i], ids, i)
           S == {i \in 0..MAX_ID : P(i)}
<1>0. \A j \in Ids(s) : j \in 1..MAX_ID
  BY DEF Held, GoodEvents, Ids
<1>2. 0 \in S
  <2>1. Grown(s.log, s.log)
    BY GrownReflexive
  <2>2. \A j \in Ids(s) : j > 0
    BY <1>0
  <2> QED
    BY <1>1, <2>1, <2>2, Bounds DEF Cleared
<1>3. ASSUME NEW i \in 1..MAX_ID, i - 1 \in S PROVE i \in S
  <2> DEFINE u == h[i - 1]
             t == h[i]
  <2>1. /\ Held(cb, u) /\ Grown(s.log, u.log) /\ u.tail_id = s.tail_id /\ u.gc_at = s.gc_at
        /\ Ids(u) = {j \in Ids(s) : j \notin ids \/ j > i - 1}
        /\ \A j \in Ids(u) : u.events[j] = s.events[j]
    BY <1>3 DEF Cleared
  <2>2. t = IF i \in ids THEN Erased(cb, u, i) ELSE u
    BY <1>1
  <2>3. \A j \in Ids(s) : (j > i - 1 <=> j = i \/ j > i) /\ (j > i => j # i)
    BY <1>0
  <2>4. i \in 0..MAX_ID
    BY Bounds
  <2> HIDE DEF u, t
  <2>5. CASE i \notin ids
    <3>1. t = u
      BY <2>2, <2>5
    <3>2. Ids(t) = {j \in Ids(s) : j \notin ids \/ j > i}
      BY <2>1, <2>3, <2>5, <3>1
    <3>3. Cleared(cb, s, t, ids, i)
      BY <2>1, <3>1, <3>2 DEF Cleared
    <3> QED
      BY <2>4, <3>3 DEF t
  <2>6. CASE i \in ids
    <3>1. t = Erased(cb, u, i)
      BY <2>2, <2>6
    <3>2. i \in Ids(u)
      BY <2>1, <2>3, <2>6
    <3>3. /\ Held(cb, t) /\ Grown(u.log, t.log) /\ Without(u.events, t.events, i)
          /\ t.tail_id = u.tail_id /\ t.gc_at = u.gc_at
      BY <2>1, <3>1, <3>2, EraseResult
    <3>4. Ids(t) = Ids(u) \ {i} /\ \A j \in Ids(t) : t.events[j] = s.events[j]
      BY <2>1, <3>3 DEF Without, Ids
    <3>5. Ids(t) = {j \in Ids(s) : j \notin ids \/ j > i}
      BY <2>1, <2>3, <2>6, <3>4
    <3>6. Grown(s.log, t.log)
      BY <2>1, <3>3, GrownTransitive
    <3>7. Cleared(cb, s, t, ids, i)
      BY <2>1, <3>3, <3>4, <3>5, <3>6 DEF Cleared
    <3> QED
      BY <2>4, <3>7 DEF t
  <2> QED
    BY <2>5, <2>6
<1>4. \A i \in 0..MAX_ID : i \in S
  <2> HIDE DEF S
  <2> QED
    BY <1>2, <1>3, StepInduction, Bounds
<1>5. P(MAX_ID)
  BY <1>4, Bounds
<1> QED
  BY <1>1, <1>5

-----------------------------------------------------------------------------
(* do_push.                                                                 *)

LEMMA MaxMember ==
  ASSUME NEW T \in SUBSET (1..MAX_ID), T # {}
  PROVE  Max(T) \in T /\ \A y \in T : y <= Max(T)
<1> DEFINE R == {MAX_ID - x : x \in T}
<1>1. R \subseteq Nat /\ R # {}
  <2>1. \A x \in T : MAX_ID - x \in Nat
    BY Bounds
  <2> QED
    BY <2>1, Zenon
<1>2. PICK r \in R : \A y \in R : r <= y
  <2> HIDE DEF R
  <2> QED
    BY <1>1, LeastNumber
<1>3. PICK x \in T : r = MAX_ID - x
  BY <1>2
<1>4. \A y \in T : x >= y
  BY <1>2, <1>3, Bounds
<1>5. Max(T) \in T /\ \A y \in T : Max(T) >= y
  BY <1>3, <1>4 DEF Max
<1> QED
  BY <1>5, Bounds

LEMMA MinMember ==
  ASSUME NEW T \in SUBSET (1..MAX_ID), T # {}
  PROVE  Min(T) \in T /\ \A y \in T : Min(T) <= y
<1>1. T \subseteq Nat
  BY Bounds
<1>2. \E x \in T : \A y \in T : x <= y
  BY <1>1, LeastNumber
<1> QED
  BY <1>2 DEF Min

(* The tombstone goes first.                                                *)
LEMMA BareResult ==
  ASSUME NEW cb \in BOOLEAN, NEW s, Held(cb, s)
  PROVE  LET t == WithoutTombstone(cb, s)
         IN  /\ Held(cb, t) /\ Grown(s.log, t.log) /\ t.tail_id = s.tail_id /\ t.gc_at = s.gc_at
             /\ Ids(t) = {i \in Ids(s) : s.events[i].len # 0}
             /\ \A i \in Ids(t) : t.events[i] = s.events[i]
<1> DEFINE last == Max(Ids(s))
           t == WithoutTombstone(cb, s)
<1>1. IsQueue(s) /\ Ids(s) \in SUBSET (1..MAX_ID) /\ s.tail_id \in Nat /\ s.gc_at \in Nat
  BY DEF Held, GoodEvents, Ids
<1>2. CASE Ids(s) = {} \/ s.events[last].len # 0
  <2>1. t = s
    BY <1>2 DEF WithoutTombstone
  <2>2. \A i \in Ids(s) : s.events[i].len # 0
    <3> SUFFICES ASSUME NEW i \in Ids(s) PROVE s.events[i].len # 0
      OBVIOUS
    <3>1. last \in Ids(s) /\ i <= last
      BY <1>1, MaxMember
    <3> HIDE DEF last
    <3>2. i < last \/ i = last
      BY <1>1, <3>1
    <3> QED
      BY <1>2, <3>1, <3>2 DEF Held, GoodEvents, Ids
  <2> QED
    BY <2>1, <2>2, GrownReflexive
<1>3. CASE Ids(s) # {} /\ s.events[last].len = 0
  <2>1. last \in Ids(s) /\ \A i \in Ids(s) : i <= last
    BY <1>1, <1>3, MaxMember
  <2> DEFINE log_id == s.events[last].log_event_id
             u == callback_pop(s, log_id)
  <2>2. cb
    BY <1>3, <2>1 DEF Held
  <2>3. log_id # 0
    BY <2>1, <2>2 DEF Held, LogHeld, Recorded, Describes, Ids
  <2>4. t = [u EXCEPT !.events = Drop(s, last)]
    BY <1>3, <2>2, <2>3 DEF WithoutTombstone
  <2>5. /\ IsQueue(u) /\ u.last_event_id_ = s.last_event_id_ + 1
        /\ u.tail_id = s.tail_id /\ u.events = s.events /\ u.gc_at = s.gc_at
        /\ u.total_event_length = s.total_event_length
    BY <1>1, CallbackFields
  <2> HIDE DEF t, u, last
  <2>6. /\ IsQueue(t) /\ t.events = Drop(s, last) /\ t.log = u.log
        /\ t.last_event_id_ = s.last_event_id_ + 1 /\ t.tail_id = s.tail_id /\ t.gc_at = s.gc_at
        /\ t.total_event_length = s.total_event_length
    BY <2>4, <2>5 DEF IsQueue
  <2>7. Without(s.events, t.events, last)
    BY <2>6 DEF Without, Drop, Ids
  <2>8. t.total_event_length = s.total_event_length - s.events[last].len
    <3>1. s.total_event_length \in Nat
      BY LengthNumber DEF Held, GoodEvents, Slots
    <3> QED
      BY <1>3, <2>6, <3>1
  <2>9. Held(TRUE, s) /\ t.log = callback_pop(s, s.events[last].log_event_id).log
    BY <2>2, <2>6 DEF u
  <2>10. Held(TRUE, t) /\ Grown(s.log, t.log)
    BY <1>1, <2>1, <2>6, <2>7, <2>8, <2>9, HeldErased
  <2>11. ASSUME NEW i \in Ids(s), i # last PROVE s.events[i].len # 0
    <3>1. i < last
      BY <1>1, <2>1, <2>11
    <3> QED
      BY <2>1, <3>1 DEF Held, GoodEvents, Ids
  <2>12. Held(cb, t)
    BY <2>2, <2>10
  <2>13. Ids(t) = {i \in Ids(s) : s.events[i].len # 0}
    BY <1>3, <2>7, <2>11 DEF Without, Ids
  <2> QED
    BY <2>6, <2>7, <2>10, <2>12, <2>13 DEF t, Without, Ids
<1> QED
  BY <1>2, <1>3

(* A queue without tombstones and without a log, and one with a log.        *)
PlainPushed(s, t, id, e) ==
  /\ IsQueue(t) /\ Extended(s.events, t.events, id, e)
  /\ t.tail_id = id + 1 /\ t.total_event_length = s.total_event_length + e.len
  /\ t.log = s.log /\ t.last_event_id_ = s.last_event_id_
  /\ t.gc_at = IF Ids(s) = {} /\ e.len # 0 THEN e.expires_at ELSE s.gc_at

Numbered(e, log_event_id) == [e EXCEPT !.log_event_id = log_event_id]

LoggedPushed(b, t, id, e) ==
  /\ IsQueue(t) /\ Extended(b.events, t.events, id, Numbered(e, b.last_event_id_ + 1))
  /\ t.tail_id = id + 1 /\ t.total_event_length = b.total_event_length + e.len
  /\ t.log = Append(b.log, [type |-> "data", id |-> b.last_event_id_ + 1,
                            val |-> StoredEvent(id, e), rewrite |-> FALSE])
  /\ t.last_event_id_ = b.last_event_id_ + 1
  /\ t.gc_at = IF Ids(b) = {} /\ e.len # 0 THEN e.expires_at ELSE b.gc_at

LEMMA PlainPushFields ==
  ASSUME NEW cb \in BOOLEAN, ~cb, NEW s, IsQueue(s), Ids(s) \in SUBSET (1..MAX_ID), \A i \in Ids(s) : s.events[i].len # 0,
         NEW id, id \notin Ids(s), NEW e, NEW t, t = do_push(cb, s, id, e)
  PROVE  PlainPushed(s, t, id, e)
<1> DEFINE u == IF Ids(s) = {} /\ e.len # 0 THEN schedule_queue_gc(s, e.expires_at) ELSE s
           events == [i \in Ids(u) \cup {id} |-> IF i = id THEN e ELSE u.events[i]]
<1>1. WithoutTombstone(cb, s) = s
  <2>1. Ids(s) = {} \/ s.events[Max(Ids(s))].len # 0
    BY MaxMember
  <2> QED
    BY <2>1 DEF WithoutTombstone
<1>2. t = [u EXCEPT !.tail_id = id + 1, !.total_event_length = @ + e.len, !.events = events]
  BY <1>1 DEF do_push
<1>3. /\ IsQueue(u) /\ u.tail_id = s.tail_id /\ u.events = s.events
      /\ u.total_event_length = s.total_event_length
      /\ u.log = s.log /\ u.last_event_id_ = s.last_event_id_
      /\ u.gc_at = IF Ids(s) = {} /\ e.len # 0 THEN e.expires_at ELSE s.gc_at
  BY DEF schedule_queue_gc, IsQueue
<1>4. Extended(s.events, events, id, e)
  BY <1>3 DEF Extended, Ids
<1> HIDE DEF u, events
<1>5. /\ IsQueue(t) /\ t.events = events
      /\ t.tail_id = id + 1 /\ t.total_event_length = u.total_event_length + e.len
      /\ t.log = u.log /\ t.last_event_id_ = u.last_event_id_ /\ t.gc_at = u.gc_at
  BY <1>2, <1>3 DEF IsQueue
<1> QED
  BY <1>3, <1>4, <1>5 DEF PlainPushed

LEMMA LoggedPushFields ==
  ASSUME NEW cb \in BOOLEAN, cb, NEW s, NEW b, b = WithoutTombstone(cb, s), IsQueue(b),
         NEW id, id \notin Ids(b), NEW e \in Slots, e.log_event_id = 0,
         NEW t, t = do_push(cb, s, id, e)
  PROVE  LoggedPushed(b, t, id, e)
<1> DEFINE u == IF Ids(b) = {} /\ e.len # 0 THEN schedule_queue_gc(b, e.expires_at) ELSE b
           log_id == u.last_event_id_ + 1
           v == Logged(u, "data", log_id, StoredEvent(id, e), FALSE)
           slot == Numbered(e, log_id)
           events == [i \in Ids(v) \cup {id} |-> IF i = id THEN slot ELSE v.events[i]]
<1>1. t = [v EXCEPT !.tail_id = id + 1, !.total_event_length = @ + e.len, !.events = events]
  BY DEF do_push, Numbered
<1>2. /\ IsQueue(u) /\ u.tail_id = b.tail_id /\ u.events = b.events
      /\ u.total_event_length = b.total_event_length
      /\ u.log = b.log /\ u.last_event_id_ = b.last_event_id_
      /\ u.gc_at = IF Ids(b) = {} /\ e.len # 0 THEN e.expires_at ELSE b.gc_at
  BY DEF schedule_queue_gc, IsQueue
<1> HIDE DEF u
<1>3. /\ IsQueue(v) /\ v.last_event_id_ = u.last_event_id_ + 1
      /\ v.tail_id = u.tail_id /\ v.events = u.events /\ v.gc_at = u.gc_at
      /\ v.total_event_length = u.total_event_length
      /\ v.log = Append(u.log, [type |-> "data", id |-> u.last_event_id_ + 1,
                                val |-> StoredEvent(id, e), rewrite |-> FALSE])
  BY <1>2 DEF Logged, IsQueue
<1> HIDE DEF v
<1>4. Extended(b.events, events, id, slot)
  BY <1>2, <1>3 DEF Extended, Ids
<1> HIDE DEF events
<1>5. /\ IsQueue(t) /\ t.events = events
      /\ t.tail_id = id + 1 /\ t.total_event_length = v.total_event_length + e.len
      /\ t.log = v.log /\ t.last_event_id_ = v.last_event_id_ /\ t.gc_at = v.gc_at
  BY <1>1, <1>3 DEF IsQueue
<1> QED
  BY <1>2, <1>3, <1>4, <1>5 DEF LoggedPushed

HasData(s) == \E i \in Ids(s) : s.events[i].len # 0

LEMMA PushResult ==
  ASSUME NEW cb \in BOOLEAN, NEW s, Held(cb, s), NEW id \in 1..MAX_ID, NEW e \in Slots,
         e.log_event_id = 0, e.len # 0, \A i \in Ids(s) : i < id,
         Cardinality(Ids(s)) < MAX_QUEUE_EVENTS, Length(s.events) <= MAX_TOTAL_EVENT_LENGTH - e.len,
         HasData(s) => s.gc_at # 0
  PROVE  LET t == do_push(cb, s, id, e)
         IN  /\ Held(cb, t) /\ Grown(s.log, t.log) /\ t.tail_id = id + 1 /\ t.gc_at # 0
             /\ id \in Ids(t) /\ \A i \in Ids(t) : i <= id
             /\ \A i \in Ids(t) : t.events[i].len # 0
<1> DEFINE b == WithoutTombstone(cb, s)
           t == do_push(cb, s, id, e)
<1>1. /\ Held(cb, b) /\ Grown(s.log, b.log) /\ b.tail_id = s.tail_id /\ b.gc_at = s.gc_at
      /\ Ids(b) = {i \in Ids(s) : s.events[i].len # 0}
      /\ \A i \in Ids(b) : b.events[i] = s.events[i]
  BY BareResult
<1>2. IsQueue(b) /\ Ids(b) \in SUBSET (1..MAX_ID) /\ GoodEvents(b.events) /\ b.gc_at \in Nat
      /\ b.total_event_length = Length(b.events) /\ b.last_event_id_ \in Nat
  BY <1>1 DEF Held, GoodEvents, Ids
<1>3. Cardinality(Ids(b)) < MAX_QUEUE_EVENTS
  <2>1. IsFiniteSet(Ids(s)) /\ Cardinality(Ids(s)) \in Nat
    BY GoodFinite DEF Held, GoodEvents, Ids
  <2>2. Ids(b) \subseteq Ids(s)
    BY <1>1
  <2>3. Cardinality(Ids(b)) <= Cardinality(Ids(s)) /\ Cardinality(Ids(b)) \in Nat
    BY <2>1, <2>2, FS_Subset, FS_CardinalityType
  <2> QED
    BY <2>1, <2>3, Bounds
<1>4. Length(b.events) <= MAX_TOTAL_EVENT_LENGTH - e.len
  <2>1. /\ \A i \in DOMAIN s.events : s.events[i].len \in Nat
        /\ \A i \in DOMAIN b.events : b.events[i].len \in Nat
    BY <1>2 DEF Held, GoodEvents, Slots
  <2>2. ASSUME NEW i \in 1..MAX_ID PROVE Weight(b.events, i) <= Weight(s.events, i)
    BY <1>1, <2>1 DEF Weight, Ids
  <2>3. Length(b.events) <= Length(s.events)
    BY <2>1, <2>2, LengthMonotone
  <2>4. Length(s.events) \in Nat /\ Length(b.events) \in Nat /\ e.len \in Nat
    BY <2>1, LengthNumber DEF Slots
  <2> QED
    BY <2>3, <2>4, Bounds
<1>5. id \notin Ids(b) /\ \A i \in Ids(b) : i < id /\ b.events[i].len # 0
  BY <1>1, Bounds
<1>6. e.expires_at \in Nat /\ e.expires_at # 0 /\ e.len \in Nat
  BY DEF Slots
<1>7. Ids(b) # {} => b.gc_at # 0
  BY <1>1 DEF HasData
<1> HIDE DEF b, t
<1>8. CASE ~cb
  <2>1. b = s
    <3>1. \A i \in Ids(s) : s.events[i].len # 0
      BY <1>8 DEF Held
    <3>2. Ids(s) \in SUBSET (1..MAX_ID)
      BY DEF Held, GoodEvents, Ids
    <3>3. Ids(s) = {} \/ s.events[Max(Ids(s))].len # 0
      BY <3>1, <3>2, MaxMember
    <3> QED
      BY <3>3 DEF b, WithoutTombstone
  <2>2. /\ IsQueue(t) /\ Extended(s.events, t.events, id, e)
        /\ t.tail_id = id + 1 /\ t.total_event_length = s.total_event_length + e.len
        /\ t.log = s.log /\ t.last_event_id_ = s.last_event_id_
        /\ t.gc_at = IF Ids(s) = {} /\ e.len # 0 THEN e.expires_at ELSE s.gc_at
    <3>1. t = do_push(cb, s, id, e)
      BY DEF t
    <3>2. /\ IsQueue(s) /\ Ids(s) \in SUBSET (1..MAX_ID) /\ \A i \in Ids(s) : s.events[i].len # 0
          /\ id \notin Ids(s)
      BY <1>2, <1>5, <2>1
    <3>3. PlainPushed(s, t, id, e)
      BY <1>8, <3>1, <3>2, PlainPushFields
    <3> QED
      BY <3>3 DEF PlainPushed
  <2>3. \A i \in DOMAIN s.events : i < id /\ s.events[i].len # 0
    BY <1>5, <2>1 DEF Ids
  <2>4. GoodEvents(t.events) /\ Length(t.events) = Length(s.events) + e.len
    BY <1>2, <1>3, <1>4, <2>1, <2>2, <2>3, GoodExtended DEF Ids
  <2>5. t.gc_at \in Nat /\ t.gc_at # 0
    BY <1>2, <1>6, <1>7, <2>1, <2>2
  <2>6. /\ Ids(t) = Ids(s) \cup {id} /\ \A i \in Ids(t) : i <= id /\ t.events[i].len # 0
    BY <1>2, <1>5, <2>1, <2>2, Bounds DEF Extended, Ids
  <2>7. s.log = <<>> /\ t.tail_id \in Nat
    BY <1>8, <2>2 DEF Held
  <2>8. Held(cb, t)
    BY <1>2, <1>8, <2>1, <2>2, <2>4, <2>5, <2>6, <2>7 DEF Held
  <2>9. Grown(s.log, t.log)
    BY <2>2, GrownReflexive
  <2> QED
    BY <2>2, <2>5, <2>6, <2>8, <2>9 DEF t
<1>9. CASE cb
  <2> DEFINE slot == Numbered(e, b.last_event_id_ + 1)
             ev == [type |-> "data", id |-> b.last_event_id_ + 1,
                    val |-> StoredEvent(id, e), rewrite |-> FALSE]
  <2>1. /\ IsQueue(t) /\ Extended(b.events, t.events, id, slot)
        /\ t.tail_id = id + 1 /\ t.total_event_length = b.total_event_length + e.len
        /\ t.log = Append(b.log, ev)
        /\ t.last_event_id_ = b.last_event_id_ + 1
        /\ t.gc_at = IF Ids(b) = {} /\ e.len # 0 THEN e.expires_at ELSE b.gc_at
    <3>1. t = do_push(cb, s, id, e) /\ b = WithoutTombstone(cb, s)
      BY DEF t, b
    <3>2. IsQueue(b) /\ id \notin Ids(b)
      BY <1>2, <1>5
    <3>3. LoggedPushed(b, t, id, e)
      BY <1>9, <3>1, <3>2, LoggedPushFields
    <3> QED
      BY <3>3 DEF LoggedPushed
  <2>2. slot \in Slots /\ slot.len = e.len /\ slot.log_event_id = b.last_event_id_ + 1
        /\ StoredEvent(id, e) = StoredEvent(id, slot)
    BY <1>2 DEF Slots, StoredEvent, Numbered
  <2>3. ev \in LogEvents /\ ev.type = "data" /\ ev.id = slot.log_event_id
        /\ ev.val = StoredEvent(id, slot)
    <3>1. StoredEvent(id, e) \in StoredValues
      BY <1>6, Bounds DEF StoredEvent, StoredValues
    <3> QED
      BY <1>2, <2>2, <3>1 DEF LogEvents
  <2> HIDE DEF slot, ev
  <2>4. \A i \in DOMAIN b.events : i < id /\ b.events[i].len # 0
    BY <1>5 DEF Ids
  <2>5. GoodEvents(t.events) /\ Length(t.events) = Length(b.events) + slot.len
    BY <1>2, <1>3, <1>4, <2>1, <2>2, <2>4, GoodExtended DEF Ids
  <2>6. /\ EveryPrefix(b.log) /\ Recorded(b.log, b.events) /\ b.log \in Seq(LogEvents)
        /\ Replay(b.log).last_event_id_ <= b.last_event_id_
        /\ Replay(b.log).last_event_id_ \in Nat
    BY <1>1, <1>9, TypedFields DEF Held, LogHeld, EveryPrefix, Recorded, Agree
  <2>7. ev.id > Replay(b.log).last_event_id_
    BY <1>2, <2>2, <2>3, <2>6
  <2>8. Recorded(t.log, t.events) /\ Replay(t.log).last_event_id_ = ev.id
    <3>1. Extended(b.events, t.events, id, slot) /\ t.log = Append(b.log, ev) /\ id \in 1..MAX_ID
          /\ slot \in Slots /\ \A i \in DOMAIN b.events : i < id
      BY <2>1, <2>2, <2>4
    <3>2. /\ Recorded(b.log, b.events) /\ b.log \in Seq(LogEvents) /\ GoodEvents(t.events)
          /\ ev \in LogEvents /\ ev.type = "data" /\ ev.id = slot.log_event_id
          /\ ev.id > Replay(b.log).last_event_id_ /\ ev.val = StoredEvent(id, slot)
      BY <2>3, <2>5, <2>6, <2>7
    <3>3. Recorded(Append(b.log, ev), t.events) /\ Replay(Append(b.log, ev)).last_event_id_ = ev.id
      BY <3>1, <3>2, RecordedAdd, ZenonT(40)
    <3> QED
      BY <3>1, <3>3
  <2>9. EveryPrefix(t.log) /\ Grown(b.log, t.log)
    BY <2>1, <2>3, <2>6, <2>8, PrefixAppend, GrownAppend
  <2>10. t.gc_at \in Nat /\ t.gc_at # 0
    BY <1>2, <1>6, <1>7, <2>1
  <2>11. t.last_event_id_ \in Nat /\ t.tail_id \in Nat /\ Replay(t.log).last_event_id_ <= t.last_event_id_
         /\ t.total_event_length = Length(t.events)
    BY <1>2, <2>1, <2>2, <2>3, <2>5, <2>8
  <2>12. Held(cb, t)
    BY <1>9, <2>1, <2>5, <2>8, <2>9, <2>10, <2>11 DEF Held, LogHeld
  <2>13. Grown(s.log, t.log)
    BY <1>1, <2>9, <2>12, GrownTransitive
  <2>14. /\ Ids(t) = Ids(b) \cup {id} /\ \A i \in Ids(t) : i <= id /\ t.events[i].len # 0
    BY <1>2, <1>5, <2>1, <2>2, Bounds DEF Extended, Ids
  <2> QED
    BY <2>1, <2>10, <2>12, <2>13, <2>14 DEF t
<1> QED
  BY <1>8, <1>9

-----------------------------------------------------------------------------
(* Replaying a log that has the events f gives f.                           *)

LEMMA ReplayedValues ==
  ASSUME NEW log, NEW alive, alive = for_each(Replay(log)), Len(alive) \in Nat
  PROVE  /\ Replayed(log)[0] = EmptyQueue
         /\ \A i \in 1..Len(alive) : Replayed(log)[i] = ReplayStep(Replayed(log)[i - 1], alive[i])
<1> DEFINE n == Len(alive)
           Is(h) == h = [i \in 0..n |-> IF i = 0 THEN EmptyQueue ELSE ReplayStep(h[i - 1], alive[i])]
<1>1. PICK g : Run(g, "replay", alive, EmptyQueue, n)
  BY StepsExist
<1>2. \A h : Is(h) <=> Run(h, "replay", alive, EmptyQueue, n)
  BY DEF Run, Step
<1>3. PICK h : h = (CHOOSE x : Is(x))
  OBVIOUS
<1>4. Run(h, "replay", alive, EmptyQueue, n)
  BY <1>1, <1>2, <1>3
<1>5. Replayed(log) = (CHOOSE x : Is(x))
  BY DEF Replayed
<1> HIDE DEF Is
<1>6. h[0] = EmptyQueue /\ \A i \in 1..n : h[i] = Step("replay", alive, i, h[i - 1])
  BY <1>4, RunValues
<1>7. \A i \in 1..n : h[i] = ReplayStep(h[i - 1], alive[i])
  BY <1>6 DEF Step
<1> QED
  BY <1>3, <1>5, <1>6, <1>7

(* The live events of the log are those of f, in the same order.            *)
InOrder(alive, f) ==
  /\ \A j \in 1..Len(alive) :
       LET id == alive[j].val.event_id
       IN  /\ id \in DOMAIN f
           /\ f[id] = [log_event_id |-> alive[j].id, expires_at |-> alive[j].val.expires_at,
                       len |-> alive[j].val.len]
  /\ \A i, j \in 1..Len(alive) : i < j => alive[i].val.event_id < alive[j].val.event_id
  /\ \A i \in DOMAIN f : \E j \in 1..Len(alive) : alive[j].val.event_id = i

LEMMA LiveInOrder ==
  ASSUME NEW log, NEW f, Recorded(log, f)
  PROVE  LET alive == for_each(Replay(log))
         IN  Len(alive) \in Nat /\ DOMAIN alive = 1..Len(alive) /\ InOrder(alive, f)
<1> DEFINE p == Replay(log)
           alive == for_each(p)
           N == Len(alive)
<1>1. /\ alive \in Seq(Data(StoredValues)) /\ Increasing(alive)
      /\ Contents(p) = {<<alive[j].id, alive[j].val>> : j \in 1..N}
  BY ForEachIncreases DEF Recorded
<1>2. GoodEvents(f) /\ Describes(f, Contents(p))
  BY DEF Recorded
<1>3. N \in Nat /\ DOMAIN alive = 1..N /\ \A j \in 1..N : alive[j] \in Data(StoredValues)
  BY <1>1
<1> HIDE DEF alive, p, N
<1>4. \A i \in DOMAIN f : i \in Nat /\ f[i] \in Slots /\ f[i].log_event_id \in Nat
  BY <1>2, Bounds DEF GoodEvents, Slots
<1>5. ASSUME NEW j \in 1..N
      PROVE  \E i \in DOMAIN f : /\ alive[j].val.event_id = i
                                 /\ alive[j].id = f[i].log_event_id
                                 /\ f[i] = [log_event_id |-> alive[j].id,
                                            expires_at |-> alive[j].val.expires_at,
                                            len |-> alive[j].val.len]
  <2>1. <<alive[j].id, alive[j].val>> \in Contents(p)
    BY <1>1
  <2>2. PICK i \in DOMAIN f : <<alive[j].id, alive[j].val>> = Entry(f, i)
    BY <1>2, <2>1 DEF Describes
  <2>3. alive[j].id = f[i].log_event_id /\ alive[j].val = StoredEvent(i, f[i])
    BY <2>2 DEF Entry
  <2>4. /\ alive[j].val.event_id = i /\ alive[j].val.expires_at = f[i].expires_at
        /\ alive[j].val.len = f[i].len
    BY <2>3 DEF StoredEvent
  <2>5. f[i] = [log_event_id |-> f[i].log_event_id, expires_at |-> f[i].expires_at, len |-> f[i].len]
    BY <1>4 DEF Slots
  <2> QED
    BY <2>3, <2>4, <2>5
<1>6. ASSUME NEW i \in 1..N, NEW j \in 1..N, i < j
      PROVE  alive[i].val.event_id < alive[j].val.event_id
  <2>1. PICK x \in DOMAIN f : alive[i].val.event_id = x /\ alive[i].id = f[x].log_event_id
    BY <1>5
  <2>2. PICK y \in DOMAIN f : alive[j].val.event_id = y /\ alive[j].id = f[y].log_event_id
    BY <1>5
  <2>3. f[x].log_event_id < f[y].log_event_id
    BY <1>1, <1>6, <2>1, <2>2 DEF Increasing, N
  <2>4. x # y /\ ~(y < x)
    BY <1>2, <1>4, <2>3 DEF Describes
  <2> QED
    BY <1>4, <2>1, <2>2, <2>4
<1>7. ASSUME NEW i \in DOMAIN f
      PROVE  \E j \in 1..N : alive[j].val.event_id = i
  <2>1. Entry(f, i) \in Contents(p)
    BY <1>2 DEF Describes
  <2>2. PICK j \in 1..N : Entry(f, i) = <<alive[j].id, alive[j].val>>
    BY <1>1, <2>1
  <2>3. alive[j].val = StoredEvent(i, f[i])
    BY <2>2 DEF Entry
  <2> QED
    BY <2>3 DEF StoredEvent
<1>8. InOrder(alive, f)
  BY <1>5, <1>6, <1>7 DEF InOrder, N
<1> QED
  BY <1>3, <1>8 DEF alive, p, N

(* After k of them.                                                         *)
Loaded(t, f, alive, k) ==
  /\ IsQueue(t) /\ t.gc_at \in Nat /\ (HasData(t) => t.gc_at # 0)
  /\ Ids(t) = {alive[j].val.event_id : j \in 1..k}
  /\ \A i \in Ids(t) : t.events[i] = f[i]
  /\ t.total_event_length = Length(t.events)
  /\ t.tail_id = IF k = 0 THEN 0 ELSE alive[k].val.event_id + 1

LEMMA LoadNothing ==
  ASSUME NEW f, NEW alive
  PROVE  Loaded(EmptyQueue, f, alive, 0)
<1> DEFINE t == EmptyQueue
<1>1. IsQueue(t) /\ t.tail_id = 0 /\ t.events = <<>> /\ t.total_event_length = 0 /\ t.gc_at = 0
  BY DEF EmptyQueue, IsQueue
<1> HIDE DEF t
<1>2. Ids(t) = {}
  BY <1>1 DEF Ids
<1>3. Length(t.events) = 0
  <2>1. \A i \in DOMAIN t.events : t.events[i].len \in Nat
    BY <1>2 DEF Ids
  <2>2. PICK h : /\ IsSum(h, t.events) /\ Length(t.events) = h[MAX_ID]
    BY <2>1, SumExists
  <2> DEFINE S == {i \in 0..MAX_ID : h[i] = 0}
  <2>3. 0 \in S
    BY <2>2, Bounds DEF IsSum
  <2>4. ASSUME NEW i \in 1..MAX_ID, i - 1 \in S PROVE i \in S
    <3>1. Weight(t.events, i) = 0 /\ h[i] = h[i - 1] + Weight(t.events, i) /\ i \in 0..MAX_ID
      BY <1>2, <2>2, Bounds DEF IsSum, Weight, Ids
    <3> QED
      BY <2>4, <3>1
  <2>5. \A i \in 0..MAX_ID : i \in S
    <3> HIDE DEF S
    <3> QED
      BY <2>3, <2>4, StepInduction, Bounds
  <2> QED
    BY <2>2, <2>5, Bounds
<1>4. {alive[j].val.event_id : j \in 1..0} = {}
  OBVIOUS
<1> QED
  BY <1>1, <1>2, <1>3, <1>4 DEF Loaded, HasData, t

LEMMA LoadOneMore ==
  ASSUME NEW f, GoodEvents(f), NEW alive, InOrder(alive, f), Len(alive) \in Nat,
         NEW k \in 1..Len(alive), NEW s, Loaded(s, f, alive, k - 1)
  PROVE  /\ Accepts(s, alive[k].val.event_id,
                    [log_event_id |-> alive[k].id, expires_at |-> alive[k].val.expires_at,
                     len |-> alive[k].val.len])
         /\ Loaded(ReplayStep(s, alive[k]), f, alive, k)
<1> DEFINE id == alive[k].val.event_id
           e == [log_event_id |-> alive[k].id, expires_at |-> alive[k].val.expires_at,
                 len |-> alive[k].val.len]
           t == ReplayStep(s, alive[k])
           id_(j) == alive[j].val.event_id
<1>1. id \in DOMAIN f /\ f[id] = e
  BY DEF InOrder
<1>2. t = IF Accepts(s, id, e) THEN do_push(FALSE, s, id, e) ELSE s
  BY DEF ReplayStep
<1>3. /\ IsQueue(s) /\ s.gc_at \in Nat /\ (HasData(s) => s.gc_at # 0)
      /\ Ids(s) = {id_(j) : j \in 1..(k - 1)}
      /\ \A i \in Ids(s) : s.events[i] = f[i]
      /\ s.total_event_length = Length(s.events)
      /\ s.tail_id = IF k - 1 = 0 THEN 0 ELSE id_(k - 1) + 1
  BY DEF Loaded
<1>4. \A j \in 1..Len(alive) : id_(j) \in DOMAIN f /\ (j < k => id_(j) < id)
  BY DEF InOrder
<1>5. k - 1 \in Nat /\ \A j \in 1..(k - 1) : j \in 1..Len(alive) /\ j < k
  OBVIOUS
<1>6. \A i \in DOMAIN f : i \in 1..MAX_ID /\ i \in Nat /\ f[i] \in Slots /\ f[i].len \in Nat
  BY Bounds DEF GoodEvents, Slots
<1>7. /\ Ids(s) \subseteq DOMAIN f /\ \A i \in Ids(s) : i < id /\ s.events[i] = f[i] /\ f[i].len # 0
      /\ id \notin Ids(s)
  <2> HIDE DEF id, e, t
  <2>1. \A i \in Ids(s) : i \in DOMAIN f /\ i < id
    BY <1>3, <1>4, <1>5
  <2>2. \A i \in Ids(s) : f[i].len # 0
    BY <1>1, <2>1 DEF GoodEvents
  <2> QED
    BY <1>1, <1>3, <1>6, <2>1, <2>2
<1>8. id >= s.tail_id
  <2>1. CASE k - 1 = 0
    BY <1>1, <1>3, <1>6, <2>1
  <2>2. CASE k - 1 # 0
    <3>1. k - 1 \in 1..Len(alive) /\ k - 1 < k
      BY <2>2
    <3>2. id_(k - 1) < id /\ id_(k - 1) \in DOMAIN f
      BY <1>4, <3>1
    <3> HIDE DEF id
    <3>3. s.tail_id = id_(k - 1) + 1
      BY <1>3, <2>2
    <3> QED
      BY <1>1, <1>6, <3>2, <3>3
  <2> QED
    BY <2>1, <2>2
<1>9. {id_(j) : j \in 1..k} = Ids(s) \cup {id}
  <2>1. 1..k = (1..(k - 1)) \cup {k}
    BY <1>5
  <2> QED
    BY <1>3, <2>1
<1> HIDE DEF id, e, t
<1>10. Cardinality(Ids(s)) < MAX_QUEUE_EVENTS
  <2>1. IsFiniteSet(DOMAIN f) /\ Cardinality(DOMAIN f) \in Nat
    BY GoodFinite DEF GoodEvents
  <2>2. IsFiniteSet(Ids(s)) /\ Cardinality(Ids(s)) \in Nat
    BY <1>7, <2>1, FS_Subset, FS_CardinalityType
  <2>3. Cardinality(Ids(s) \cup {id}) = Cardinality(Ids(s)) + 1
    BY <1>7, <2>2, FS_AddElement
  <2>4. Ids(s) \cup {id} \subseteq DOMAIN f
    BY <1>1, <1>7
  <2>5. Cardinality(Ids(s) \cup {id}) <= Cardinality(DOMAIN f)
    BY <2>1, <2>4, FS_Subset
  <2>6. Cardinality(DOMAIN f) <= MAX_QUEUE_EVENTS
    BY DEF GoodEvents
  <2> QED
    BY <2>1, <2>2, <2>3, <2>5, <2>6, Bounds
<1>11. ASSUME NEW g, Extended(s.events, g, id, e)
       PROVE  Length(g) = Length(s.events) + e.len /\ Length(g) <= Length(f)
              /\ Length(g) \in Nat /\ Length(s.events) \in Nat
  <2>1. /\ \A i \in DOMAIN f : f[i].len \in Nat
        /\ \A i \in DOMAIN s.events : s.events[i].len \in Nat
        /\ \A i \in DOMAIN g : g[i] = f[i] /\ g[i].len \in Nat
        /\ DOMAIN g = DOMAIN s.events \cup {id} /\ id \notin DOMAIN s.events
        /\ \A i \in DOMAIN s.events : g[i] = s.events[i]
    BY <1>1, <1>6, <1>7, <1>11 DEF Extended, Ids
  <2>2. id \in 1..MAX_ID /\ e.len \in Nat
    BY <1>1, <1>6
  <2>3. \A i \in 1..MAX_ID : i # id => Weight(s.events, i) = Weight(g, i)
    BY <2>1 DEF Weight
  <2>4. Weight(s.events, id) = 0 /\ Weight(g, id) = e.len
    BY <1>1, <2>1 DEF Weight
  <2>5. Length(g) = Length(s.events) - Weight(s.events, id) + Weight(g, id)
    BY <2>1, <2>2, <2>3, LengthChanged
  <2>6. \A i \in 1..MAX_ID : Weight(g, i) <= Weight(f, i)
    <3>1. DOMAIN g \subseteq DOMAIN f
      BY <1>1, <1>7, <2>1 DEF Ids
    <3> QED
      BY <2>1, <3>1 DEF Weight
  <2>7. Length(g) <= Length(f)
    BY <2>1, <2>6, LengthMonotone
  <2>8. Length(g) \in Nat /\ Length(s.events) \in Nat
    BY <2>1, LengthNumber
  <2> QED
    BY <2>2, <2>4, <2>5, <2>7, <2>8
<1>12. e \in Slots /\ e.expires_at \in Nat /\ e.expires_at # 0 /\ e.expires_at > 0 /\ e.len \in Nat
  <2>1. e \in Slots
    BY <1>1, <1>6
  <2> QED
    BY <2>1 DEF Slots
<1>13. Accepts(s, id, e)
  <2> DEFINE g == [i \in Ids(s) \cup {id} |-> f[i]]
  <2>1. Extended(s.events, g, id, e)
    BY <1>1, <1>7 DEF Extended, Ids
  <2> HIDE DEF g
  <2>2. Length(g) = Length(s.events) + e.len /\ Length(g) <= Length(f) /\ Length(s.events) \in Nat
        /\ Length(g) \in Nat
    BY <1>11, <2>1
  <2>3. Length(f) \in Nat /\ Length(f) <= MAX_TOTAL_EVENT_LENGTH
    BY <1>6, LengthNumber DEF GoodEvents
  <2>4. s.total_event_length <= MAX_TOTAL_EVENT_LENGTH - e.len
    BY <1>3, <1>12, <2>2, <2>3, Bounds
  <2> QED
    BY <1>8, <1>10, <1>12, <2>4 DEF Accepts
<1>14. PlainPushed(s, t, id, e)
  <2>1. t = do_push(FALSE, s, id, e)
    BY <1>2, <1>13
  <2>2. Ids(s) \in SUBSET (1..MAX_ID) /\ \A i \in Ids(s) : s.events[i].len # 0
    BY <1>6, <1>7
  <2> QED
    BY <1>3, <1>7, <2>1, <2>2, PlainPushFields
<1>15. /\ IsQueue(t) /\ Extended(s.events, t.events, id, e)
       /\ t.tail_id = id + 1 /\ t.total_event_length = s.total_event_length + e.len
       /\ t.gc_at = IF Ids(s) = {} /\ e.len # 0 THEN e.expires_at ELSE s.gc_at
  BY <1>14 DEF PlainPushed
<1>16. Ids(t) = Ids(s) \cup {id} /\ \A i \in Ids(t) : t.events[i] = f[i]
  BY <1>1, <1>7, <1>15 DEF Extended, Ids
<1>17. t.gc_at \in Nat /\ (HasData(t) => t.gc_at # 0)
  <2>1. CASE Ids(s) = {}
    BY <1>1, <1>3, <1>12, <1>15, <1>16, <2>1 DEF HasData
  <2>2. CASE Ids(s) # {}
    <3>1. HasData(s)
      BY <1>7, <2>2 DEF HasData
    <3> QED
      BY <1>3, <1>15, <2>2, <3>1
  <2> QED
    BY <2>1, <2>2
<1>18. t.total_event_length = Length(t.events)
  BY <1>3, <1>11, <1>15
<1>19. Loaded(t, f, alive, k)
  <2>1. k # 0
    OBVIOUS
  <2> QED
    BY <1>9, <1>15, <1>16, <1>17, <1>18, <2>1 DEF Loaded, id
<1> QED
  BY <1>13, <1>19 DEF id, e, t

SameEvents(f, g) == DOMAIN g = DOMAIN f /\ \A i \in DOMAIN f : g[i] = f[i]

LEMMA SameEventsSame ==
  ASSUME NEW f, NEW g, NEW C, GoodEvents(f), Describes(f, C), SameEvents(f, g)
  PROVE  GoodEvents(g) /\ Describes(g, C) /\ Length(g) = Length(f)
<1>1. /\ \A i \in DOMAIN f : f[i].len \in Nat
      /\ \A i \in DOMAIN g : g[i].len \in Nat
      /\ \A i \in 1..MAX_ID : Weight(g, i) = Weight(f, i) /\ Weight(f, i) \in Nat
  BY DEF GoodEvents, Slots, SameEvents, Weight
<1>2. Length(g) <= Length(f) /\ Length(f) <= Length(g)
  BY <1>1, LengthMonotone
<1>3. Length(g) \in Nat /\ Length(f) \in Nat
  BY <1>1, LengthNumber
<1>4. Length(g) = Length(f)
  BY <1>2, <1>3
<1>5. GoodEvents(g)
  BY <1>4 DEF GoodEvents, SameEvents
<1>6. {Entry(f, i) : i \in DOMAIN f} = {Entry(g, i) : i \in DOMAIN g}
  BY DEF Entry, SameEvents
<1>7. Describes(g, C)
  BY <1>6 DEF Describes, SameEvents
<1> QED
  BY <1>4, <1>5, <1>7

(* The number after the last event, and what the events show.               *)
TailOf(f) == IF DOMAIN f = {} THEN 0 ELSE Max(DOMAIN f) + 1

DataOf(f) == {<<i, f[i].expires_at, f[i].len>> : i \in {j \in DOMAIN f : f[j].len # 0}}

ViewOf(f) == [tail_id |-> TailOf(f), events |-> DataOf(f)]

LEMMA SameEventsView ==
  ASSUME NEW f, NEW g, SameEvents(f, g)
  PROVE  TailOf(g) = TailOf(f) /\ DataOf(g) = DataOf(f)
<1>1. TailOf(g) = TailOf(f)
  BY DEF TailOf, SameEvents
<1>2. {j \in DOMAIN f : f[j].len # 0} = {j \in DOMAIN g : g[j].len # 0}
  BY DEF SameEvents
<1>3. DataOf(g) = DataOf(f)
  BY <1>2 DEF DataOf, SameEvents
<1> QED
  BY <1>1, <1>3

LEMMA LoadResult ==
  ASSUME NEW log, EveryPrefix(log), NEW f, Recorded(log, f)
  PROVE  /\ ReplayAccepted(log)
         /\ LET t == Load(log)
            IN  /\ Held(TRUE, t) /\ SameEvents(f, t.events) /\ t.log = log
                /\ t.tail_id = TailOf(t.events) /\ (HasData(t) => t.gc_at # 0)
                /\ Visible(t) = ViewOf(f)
<1> DEFINE alive == for_each(Replay(log))
           N == Len(alive)
           h == Replayed(log)
           S == {k \in 0..N : Loaded(h[k], f, alive, k)}
<1>1. N \in Nat /\ DOMAIN alive = 1..N /\ InOrder(alive, f)
  BY LiveInOrder
<1>2. h[0] = EmptyQueue /\ \A i \in 1..N : h[i] = ReplayStep(h[i - 1], alive[i])
  BY <1>1, ReplayedValues
<1>3. GoodEvents(f) /\ Describes(f, Contents(Replay(log))) /\ Agree(Replay(log), StoredValues)
  BY DEF Recorded
<1>4. ReplayAccepted(log) <=>
        \A i \in 1..N : Accepts(h[i - 1], alive[i].val.event_id,
                                [log_event_id |-> alive[i].id, expires_at |-> alive[i].val.expires_at,
                                 len |-> alive[i].val.len])
  BY <1>1 DEF ReplayAccepted
<1>5. Load(log) = [h[N] EXCEPT !.log = log, !.last_event_id_ = Replay(log).last_event_id_]
  BY DEF Load
<1> HIDE DEF alive, h, N
<1>6. 0 \in S
  BY <1>1, <1>2, LoadNothing
<1>7. ASSUME NEW k \in 1..N, k - 1 \in S
      PROVE  /\ k \in S
             /\ Accepts(h[k - 1], alive[k].val.event_id,
                        [log_event_id |-> alive[k].id, expires_at |-> alive[k].val.expires_at,
                         len |-> alive[k].val.len])
  <2>1. Loaded(h[k - 1], f, alive, k - 1) /\ k \in 0..N /\ Len(alive) = N
    BY <1>1, <1>7 DEF N
  <2> DEFINE s == h[k - 1]
  <2>2. k \in 1..Len(alive) /\ Len(alive) \in Nat /\ Loaded(s, f, alive, k - 1) /\ InOrder(alive, f)
    BY <1>1, <2>1
  <2>3. h[k] = ReplayStep(s, alive[k])
    BY <1>2
  <2> HIDE DEF s
  <2>4. /\ Accepts(s, alive[k].val.event_id,
                   [log_event_id |-> alive[k].id, expires_at |-> alive[k].val.expires_at,
                    len |-> alive[k].val.len])
        /\ Loaded(ReplayStep(s, alive[k]), f, alive, k)
    BY <1>3, <2>2, LoadOneMore
  <2>5. k \in S
    BY <2>1, <2>3, <2>4
  <2> QED
    BY <2>4, <2>5 DEF s
<1>8. \A k \in 0..N : k \in S
  <2> HIDE DEF S
  <2> QED
    BY <1>1, <1>6, <1>7, StepInduction
<1>9. ReplayAccepted(log)
  <2>1. \A i \in 1..N : i - 1 \in S
    BY <1>1, <1>8
  <2> QED
    BY <1>4, <1>7, <2>1
<1> DEFINE u == h[N]
           t == Load(log)
<1>10. /\ IsQueue(u) /\ u.gc_at \in Nat /\ (HasData(u) => u.gc_at # 0)
       /\ Ids(u) = {alive[j].val.event_id : j \in 1..N}
       /\ \A i \in Ids(u) : u.events[i] = f[i]
       /\ u.total_event_length = Length(u.events)
       /\ u.tail_id = IF N = 0 THEN 0 ELSE alive[N].val.event_id + 1
  <2>1. N \in S
    BY <1>1, <1>8
  <2>2. Loaded(u, f, alive, N)
    BY <2>1
  <2> QED
    BY <2>2 DEF Loaded
<1> HIDE DEF u, S
<1>11. Ids(u) = DOMAIN f
  <2>1. \A j \in 1..N : alive[j].val.event_id \in DOMAIN f
    BY <1>1 DEF InOrder, N
  <2>2. \A i \in DOMAIN f : \E j \in 1..N : alive[j].val.event_id = i
    BY <1>1 DEF InOrder, N
  <2>3. Ids(u) = {alive[j].val.event_id : j \in 1..N}
    BY <1>10
  <2> QED
    BY <2>1, <2>2, <2>3
<1>12. /\ IsQueue(t) /\ t.events = u.events /\ t.log = log /\ t.tail_id = u.tail_id
       /\ t.last_event_id_ = Replay(log).last_event_id_ /\ t.gc_at = u.gc_at
       /\ t.total_event_length = u.total_event_length
  BY <1>5, <1>10 DEF IsQueue, u
<1> HIDE DEF t
<1>13. SameEvents(f, t.events)
  BY <1>10, <1>11, <1>12 DEF SameEvents, Ids
<1>14. GoodEvents(t.events) /\ Describes(t.events, Contents(Replay(log)))
  BY <1>3, <1>13, SameEventsSame
<1>15. u.tail_id = TailOf(f) /\ u.tail_id \in Nat
  <2>1. CASE N = 0
    <3>1. DOMAIN f = {}
      <4>1. 1..N = {}
        BY <2>1
      <4> QED
        BY <1>10, <1>11, <4>1
    <3> QED
      BY <1>10, <2>1, <3>1 DEF TailOf
  <2>2. CASE N # 0
    <3> DEFINE m == alive[N].val.event_id
    <3>1. N \in 1..N /\ m \in DOMAIN f
      BY <1>1, <1>10, <1>11, <2>2
    <3>2. DOMAIN f \in SUBSET (1..MAX_ID) /\ DOMAIN f # {}
      BY <1>3, <3>1 DEF GoodEvents
    <3>3. ASSUME NEW i \in DOMAIN f PROVE i <= m
      <4>1. PICK j \in 1..N : i = alive[j].val.event_id
        BY <1>10, <1>11
      <4>2. j = N \/ j < N
        BY <1>1
      <4>3. i = m \/ i < m
        BY <1>1, <3>1, <4>1, <4>2 DEF InOrder, N
      <4> QED
        BY <3>1, <3>2, <4>3, Bounds
    <3> HIDE DEF m
    <3>4. Max(DOMAIN f) \in DOMAIN f /\ \A y \in DOMAIN f : y <= Max(DOMAIN f)
      BY <3>2, MaxMember
    <3>5. Max(DOMAIN f) = m
      <4>1. m <= Max(DOMAIN f) /\ Max(DOMAIN f) <= m /\ m \in Nat /\ Max(DOMAIN f) \in Nat
        BY <3>1, <3>2, <3>3, <3>4, Bounds
      <4> QED
        BY <4>1
    <3>6. u.tail_id = m + 1 /\ m \in Nat
      BY <1>10, <2>2, <3>1, <3>2, Bounds DEF m
    <3> QED
      BY <3>2, <3>5, <3>6 DEF TailOf
  <2> QED
    BY <2>1, <2>2
<1>16. TailOf(t.events) = TailOf(f) /\ DataOf(t.events) = DataOf(f)
  BY <1>13, SameEventsView
<1>17. Visible(t) = ViewOf(f)
  <2>1. t.tail_id = TailOf(f)
    BY <1>12, <1>15
  <2>2. Visible(t) = [tail_id |-> t.tail_id, events |-> DataOf(t.events)]
    BY DEF Visible, DataOf, Ids
  <2> QED
    BY <1>16, <2>1, <2>2 DEF ViewOf
<1>18. HasData(t) => t.gc_at # 0
  BY <1>10, <1>12 DEF HasData, Ids
<1>19. LogHeld(t)
  <2>1. Replay(log).last_event_id_ \in Nat
    BY <1>3, TypedFields DEF Agree
  <2> QED
    BY <1>3, <1>12, <1>14, <2>1 DEF LogHeld, Recorded
<1>20. Held(TRUE, t)
  <2>1. t.last_event_id_ \in Nat
    BY <1>3, <1>12, TypedFields DEF Agree
  <2> QED
    BY <1>10, <1>12, <1>14, <1>15, <1>19, <2>1 DEF Held
<1> QED
  BY <1>9, <1>12, <1>13, <1>15, <1>16, <1>17, <1>18, <1>20 DEF t

-----------------------------------------------------------------------------
(* Between operations: garbage collection is scheduled while there is data, *)
(* and the next number is behind every event.                               *)

Settled(cb, s) ==
  /\ Held(cb, s)
  /\ HasData(s) => s.gc_at # 0
  /\ \A i \in Ids(s) : i < s.tail_id
  /\ cb => s.tail_id = TailOf(s.events)

Views == [tail_id : Int, events : SUBSET (Nat \X Nat \X Nat)]

History(log) ==
  /\ order \in Seq(Views) /\ Len(order) = Len(log)
  /\ \A n \in 1..Len(log) : order[n] # Unfinished =>
       \E f : Recorded(SubSeq(log, 1, n), f) /\ order[n] = ViewOf(f)

(* The inductive invariant.                                                 *)
QueueIInv == callback \in BOOLEAN /\ Settled(callback, q) /\ History(q.log)

LEMMA VisibleView ==
  ASSUME NEW cb \in BOOLEAN, NEW s, Held(cb, s)
  PROVE  Visible(s) \in Views
<1>1. \A i \in Ids(s) : i \in Nat /\ s.events[i].expires_at \in Nat /\ s.events[i].len \in Nat
  BY Bounds DEF Held, GoodEvents, Slots, Ids
<1> DEFINE D == {<<i, s.events[i].expires_at, s.events[i].len>> : i \in {j \in Ids(s) : s.events[j].len # 0}}
<1>2. D \subseteq Nat \X Nat \X Nat
  BY <1>1
<1>3. s.tail_id \in Int
  BY DEF Held
<1>4. Visible(s) = [tail_id |-> s.tail_id, events |-> D]
  BY DEF Visible
<1> HIDE DEF D
<1> QED
  BY <1>2, <1>3, <1>4 DEF Views

LEMMA SamePrefix ==
  ASSUME NEW s \in Seq(LogEvents), NEW t \in Seq(LogEvents), Grown(s, t), NEW n \in 0..Len(s)
  PROVE  SubSeq(t, 1, n) = SubSeq(s, 1, n)
<1>1. n \in Nat /\ n <= Len(s) /\ n <= Len(t)
  BY DEF Grown
<1>2. \A i \in 1..n : t[i] = s[i]
  BY DEF Grown
<1> QED
  BY <1>1, <1>2

(* An operation that only adds to the log.                                  *)
LEMMA BecomeKeeps ==
  ASSUME QueueIInv, NEW s, Settled(callback, s), Grown(q.log, s.log), Become(s)
  PROVE  QueueIInv'
<1>1. /\ q' = s /\ callback' = callback /\ callback \in BOOLEAN
      /\ order' = [n \in 1..Len(s.log) |->
                     IF n <= Len(order) THEN order[n]
                     ELSE IF n = Len(s.log) THEN Visible(s) ELSE Unfinished]
  BY DEF Become, QueueIInv
<1>2. /\ q.log \in Seq(LogEvents) /\ s.log \in Seq(LogEvents) /\ Len(q.log) \in Nat /\ Len(s.log) \in Nat
      /\ Held(callback, s)
  BY HeldLog DEF QueueIInv, Settled
<1>3. /\ order \in Seq(Views) /\ Len(order) = Len(q.log)
      /\ \A n \in 1..Len(q.log) : order[n] # Unfinished =>
           \E f : Recorded(SubSeq(q.log, 1, n), f) /\ order[n] = ViewOf(f)
  BY DEF QueueIInv, History
<1> DEFINE N == Len(s.log)
           o == order'
           V(n) == IF n <= Len(order) THEN order[n] ELSE IF n = N THEN Visible(s) ELSE Unfinished
<1>4. Unfinished \in Views /\ Visible(s) \in Views
  <2>1. Visible(s) \in Views
    BY <1>1, <1>2, VisibleView
  <2> QED
    BY <2>1 DEF Unfinished, Views
<1>5. \A n \in 1..N : V(n) \in Views
  BY <1>2, <1>3, <1>4
<1>6. o = [n \in 1..N |-> V(n)]
  BY <1>1
<1> HIDE DEF V, N, o
<1>7. o \in Seq(Views) /\ Len(o) = N /\ \A n \in 1..N : o[n] = V(n)
  <2>1. N \in Nat
    BY <1>2 DEF N
  <2> QED
    BY <1>5, <1>6, <2>1
<1>8. ASSUME NEW n \in 1..N, o[n] # Unfinished
      PROVE  \E f : Recorded(SubSeq(s.log, 1, n), f) /\ o[n] = ViewOf(f)
  <2>0. n \in Nat /\ N = Len(s.log) /\ N \in Nat
    BY <1>2 DEF N
  <2>1. CASE n <= Len(order)
    <3>1. o[n] = order[n] /\ n \in 1..Len(q.log) /\ n \in 0..Len(q.log)
      BY <1>2, <1>3, <1>7, <2>0, <2>1 DEF V
    <3>2. SubSeq(s.log, 1, n) = SubSeq(q.log, 1, n)
      BY <1>2, <3>1, SamePrefix
    <3> QED
      BY <1>3, <1>8, <3>1, <3>2
  <2>2. CASE ~(n <= Len(order))
    <3>1. o[n] = Visible(s) /\ n = N
      BY <1>7, <1>8, <2>2 DEF V
    <3>2. callback
      <4>1. ~callback => s.log = <<>>
        BY <1>2 DEF Held
      <4> QED
        BY <1>1, <2>0, <3>1, <4>1
    <3>3. Recorded(s.log, s.events) /\ s.tail_id = TailOf(s.events)
      BY <3>2 DEF Settled, Held, LogHeld
    <3>4. SubSeq(s.log, 1, n) = s.log
      BY <1>2, <2>0, <3>1
    <3>5. Visible(s) = ViewOf(s.events)
      BY <3>3 DEF Visible, ViewOf, DataOf, Ids
    <3> QED
      BY <3>1, <3>3, <3>4, <3>5
  <2> QED
    BY <2>1, <2>2
<1>9. History(q.log)'
  BY <1>1, <1>7, <1>8 DEF History, o, N
<1> QED
  BY <1>1, <1>9 DEF QueueIInv

(* An operation that removes events and keeps the last one in the log.      *)
LEMMA FewerSettled ==
  ASSUME NEW cb \in BOOLEAN, NEW s, NEW t, Settled(cb, s), Held(cb, t), t.tail_id = s.tail_id,
         Ids(t) \subseteq Ids(s), HasData(t) => t.gc_at # 0,
         (cb /\ Ids(s) # {}) => Max(Ids(s)) \in Ids(t)
  PROVE  Settled(cb, t)
<1>1. \A i \in Ids(t) : i < t.tail_id
  BY DEF Settled
<1>2. ASSUME cb PROVE t.tail_id = TailOf(t.events)
  <2>1. t.tail_id = TailOf(s.events)
    BY <1>2 DEF Settled
  <2>2. CASE Ids(s) = {}
    BY <2>1, <2>2 DEF TailOf, Ids
  <2>3. CASE Ids(s) # {}
    <3>1. Ids(s) \in SUBSET (1..MAX_ID) /\ Ids(t) \in SUBSET (1..MAX_ID) /\ Ids(t) # {}
      BY <1>2, <2>3 DEF Settled, Held, GoodEvents, Ids
    <3> DEFINE m == Max(Ids(s))
               k == Max(Ids(t))
    <3>2. m \in Ids(s) /\ (\A y \in Ids(s) : y <= m) /\ m \in Ids(t)
      BY <1>2, <2>3, <3>1, MaxMember
    <3>3. k \in Ids(t) /\ \A y \in Ids(t) : y <= k
      BY <3>1, MaxMember
    <3> HIDE DEF m, k
    <3>4. m <= k /\ k <= m /\ m \in Nat /\ k \in Nat
      BY <3>1, <3>2, <3>3, Bounds
    <3>5. m = k
      BY <3>4
    <3> QED
      BY <2>1, <2>3, <3>1, <3>5 DEF TailOf, Ids, m, k
  <2> QED
    BY <2>2, <2>3
<1> QED
  BY <1>1, <1>2 DEF Settled

LEMMA PopAllSettled ==
  ASSUME NEW cb \in BOOLEAN, NEW s, Settled(cb, s), NEW ids \in SUBSET Ids(s)
  PROVE  LET t == PopAll(cb, s, ids, s.tail_id)
         IN  /\ Settled(cb, t) /\ Grown(s.log, t.log) /\ t.tail_id = s.tail_id
             /\ Ids(t) \subseteq Ids(s)
             /\ \A i \in Ids(t) : t.events[i].len # 0 => i \notin ids /\ t.events[i] = s.events[i]
<1> DEFINE t == PopAll(cb, s, ids, s.tail_id)
<1>1. /\ Held(cb, s) /\ s.tail_id \in Nat /\ \A i \in Ids(s) : i < s.tail_id
      /\ \A i \in Ids(s) : i \in 1..MAX_ID /\ i \in Nat /\ i <= MAX_ID
  BY Bounds DEF Settled, Held, GoodEvents, Ids
<1>2. Popped(cb, s, t, ids, s.tail_id, MAX_ID)
  BY <1>1, PopAllResult
<1> HIDE DEF t
<1>3. /\ Held(cb, t) /\ Grown(s.log, t.log) /\ t.tail_id = s.tail_id /\ t.gc_at = s.gc_at
      /\ Ids(t) \subseteq Ids(s)
      /\ \A j \in Ids(s) : j \notin ids => j \in Ids(t) /\ t.events[j] = s.events[j]
      /\ \A j \in ids : IF cb /\ j + 1 = s.tail_id THEN j \in Ids(t) /\ t.events[j].len = 0
                        ELSE j \notin Ids(t)
  BY <1>1, <1>2 DEF Popped
<1>4. \A i \in Ids(t) : t.events[i].len # 0 => i \notin ids /\ t.events[i] = s.events[i]
  BY <1>3
<1>5. HasData(t) => t.gc_at # 0
  BY <1>3, <1>4 DEF HasData, Settled
<1>6. ASSUME cb, Ids(s) # {} PROVE Max(Ids(s)) \in Ids(t)
  <2>1. Max(Ids(s)) \in Ids(s)
    BY <1>1, <1>6, MaxMember
  <2>2. s.tail_id = Max(Ids(s)) + 1
    BY <1>6 DEF Settled, TailOf, Ids
  <2> QED
    BY <1>3, <1>6, <2>1, <2>2
<1>7. Settled(cb, t)
  BY <1>3, <1>5, <1>6, FewerSettled
<1> QED
  BY <1>3, <1>4, <1>7 DEF t

-----------------------------------------------------------------------------
(* The operations.                                                          *)

LEMMA HeldTail ==
  ASSUME NEW cb \in BOOLEAN, NEW s, Held(cb, s), NEW x \in Nat
  PROVE  LET t == [s EXCEPT !.tail_id = x]
         IN  /\ Held(cb, t) /\ t.log = s.log /\ t.gc_at = s.gc_at /\ t.events = s.events
             /\ t.tail_id = x
<1> DEFINE t == [s EXCEPT !.tail_id = x]
<1>1. /\ IsQueue(t) /\ t.log = s.log /\ t.gc_at = s.gc_at /\ t.events = s.events
      /\ t.tail_id = x /\ t.last_event_id_ = s.last_event_id_
      /\ t.total_event_length = s.total_event_length
  BY DEF Held, IsQueue
<1> HIDE DEF t
<1>2. Held(cb, t)
  BY <1>1 DEF Held, LogHeld, Ids
<1> QED
  BY <1>1, <1>2 DEF t

LEMMA HeldGc ==
  ASSUME NEW cb \in BOOLEAN, NEW s, Held(cb, s), NEW x \in Nat
  PROVE  LET t == schedule_queue_gc(s, x)
         IN  /\ Held(cb, t) /\ t.log = s.log /\ t.gc_at = x /\ t.events = s.events
             /\ t.tail_id = s.tail_id
<1> DEFINE t == schedule_queue_gc(s, x)
<1>1. /\ IsQueue(t) /\ t.log = s.log /\ t.gc_at = x /\ t.events = s.events
      /\ t.tail_id = s.tail_id /\ t.last_event_id_ = s.last_event_id_
      /\ t.total_event_length = s.total_event_length
  BY DEF Held, IsQueue, schedule_queue_gc
<1> HIDE DEF t
<1>2. Held(cb, t)
  BY <1>1 DEF Held, LogHeld, Ids
<1> QED
  BY <1>1, <1>2 DEF t

LEMMA PushStep ==
  ASSUME QueueIInv, NEW len \in Lengths, NEW expires_at \in Expirations, NEW first \in FirstIds,
         push(len, expires_at, first)
  PROVE  QueueIInv'
<1> DEFINE used == q.tail_id # 0 /\ HasNext(q.tail_id)
           base == IF used \/ q.tail_id = 0 THEN q ELSE Wrapped(callback, q)
           id   == IF used THEN q.tail_id ELSE first
           from == [base EXCEPT !.tail_id = id]
           e    == [log_event_id |-> 0, expires_at |-> expires_at, len |-> len]
           t    == do_push(callback, from, id, e)
<1>1. /\ Cardinality(Ids(q)) < MAX_QUEUE_EVENTS
      /\ q.total_event_length <= MAX_TOTAL_EVENT_LENGTH - len
      /\ Become(t)
  BY DEF push
<1>2. callback \in BOOLEAN /\ Settled(callback, q) /\ Held(callback, q)
  BY DEF QueueIInv, Settled
<1>3. /\ q.tail_id \in Nat /\ GoodEvents(q.events) /\ q.total_event_length = Length(q.events)
      /\ \A i \in Ids(q) : i \in Nat /\ 0 < i /\ i < q.tail_id
  BY <1>2, Bounds DEF Held, Settled, GoodEvents, Ids
<1>4. first \in Nat /\ first # 0 /\ first + 1 < MAX_ID /\ first \in 1..MAX_ID
  <2>1. first \in Nat /\ first # 0 /\ first + 1 < MAX_ID
    BY TQueueAssumption
  <2> QED
    BY <2>1, Bounds
<1>5. /\ id \in 1..MAX_ID /\ id \in Nat /\ Held(callback, base) /\ Grown(q.log, base.log)
      /\ Ids(base) \subseteq Ids(q) /\ base.gc_at = q.gc_at
      /\ \A i \in Ids(base) : base.events[i] = q.events[i] /\ i < id
  <2>1. CASE used
    <3>1. base = q /\ id = q.tail_id
      BY <2>1
    <3>2. id \in 1..MAX_ID
      BY <1>3, <2>1, <3>1, Bounds DEF HasNext
    <3> QED
      BY <1>2, <1>3, <3>1, <3>2, GrownReflexive
  <2>2. CASE ~used /\ q.tail_id = 0
    <3>1. base = q /\ id = first
      BY <2>2
    <3>2. Ids(q) = {}
      BY <1>3, <2>2
    <3> QED
      BY <1>2, <1>4, <3>1, <3>2, GrownReflexive
  <2>3. CASE ~used /\ q.tail_id # 0
    <3> DEFINE w == PopAll(callback, q, Ids(q), 0)
    <3>1. base = [w EXCEPT !.tail_id = 0] /\ id = first
      BY <2>3 DEF Wrapped
    <3>2. Popped(callback, q, w, Ids(q), 0, MAX_ID)
      <4>1. Ids(q) \in SUBSET Ids(q) /\ 0 \in Nat /\ (0 = 0 \/ \A i \in Ids(q) : i < 0)
        OBVIOUS
      <4> QED
        BY <1>2, <4>1, PopAllResult
    <3> HIDE DEF w, used, base, id
    <3>3. /\ Held(callback, w) /\ Grown(q.log, w.log) /\ w.gc_at = q.gc_at
          /\ Ids(w) \subseteq Ids(q) /\ \A j \in Ids(q) : j <= MAX_ID /\ j + 1 # 0
      BY <1>2, <1>3, <3>2, Bounds DEF Popped, Held, GoodEvents, Ids
    <3>4. Ids(w) = {}
      BY <3>2, <3>3 DEF Popped
    <3>5. Held(callback, base) /\ base.log = w.log /\ base.gc_at = w.gc_at /\ base.events = w.events
      BY <1>2, <3>1, <3>3, HeldTail
    <3> QED
      BY <1>4, <3>1, <3>3, <3>4, <3>5 DEF Ids
  <2> QED
    BY <2>1, <2>2, <2>3
<1> HIDE DEF used, base, id
<1>6. Held(callback, from) /\ from.log = base.log /\ from.gc_at = base.gc_at /\ from.events = base.events
  BY <1>2, <1>5, HeldTail
<1>7. e \in Slots /\ e.log_event_id = 0 /\ e.len # 0 /\ e.len = len /\ len \in Nat
  BY Bounds DEF Slots
<1> HIDE DEF from, e
<1>8. Ids(from) \subseteq Ids(q) /\ \A i \in Ids(from) : from.events[i] = q.events[i] /\ i < id
  BY <1>5, <1>6 DEF Ids
<1>9. Cardinality(Ids(from)) < MAX_QUEUE_EVENTS
  <2>1. IsFiniteSet(Ids(q)) /\ Cardinality(Ids(q)) \in Nat
    BY <1>3, GoodFinite DEF GoodEvents, Ids
  <2>2. Cardinality(Ids(from)) <= Cardinality(Ids(q)) /\ Cardinality(Ids(from)) \in Nat
    BY <1>8, <2>1, FS_Subset, FS_CardinalityType
  <2> QED
    BY <1>1, <2>1, <2>2, Bounds
<1>10. Length(from.events) <= MAX_TOTAL_EVENT_LENGTH - e.len
  <2>1. /\ \A i \in DOMAIN q.events : q.events[i].len \in Nat
        /\ \A i \in DOMAIN from.events : from.events[i].len \in Nat
    BY <1>3, <1>8 DEF GoodEvents, Slots, Ids
  <2>2. \A i \in 1..MAX_ID : Weight(from.events, i) <= Weight(q.events, i)
    BY <1>8, <2>1 DEF Weight, Ids
  <2>3. Length(from.events) <= Length(q.events)
    BY <2>1, <2>2, LengthMonotone
  <2>4. Length(from.events) \in Nat /\ Length(q.events) \in Nat
    BY <2>1, LengthNumber
  <2> QED
    BY <1>1, <1>3, <1>7, <2>3, <2>4, Bounds
<1>11. HasData(from) => from.gc_at # 0
  BY <1>2, <1>5, <1>6, <1>8 DEF HasData, Settled
<1>12. /\ Held(callback, t) /\ Grown(from.log, t.log) /\ t.tail_id = id + 1 /\ t.gc_at # 0
       /\ id \in Ids(t) /\ \A i \in Ids(t) : i <= id
       /\ \A i \in Ids(t) : t.events[i].len # 0
  BY <1>2, <1>5, <1>6, <1>7, <1>8, <1>9, <1>10, <1>11, PushResult
<1> HIDE DEF t
<1>13. t.tail_id = TailOf(t.events)
  <2>1. Ids(t) \in SUBSET (1..MAX_ID) /\ Ids(t) # {}
    BY <1>12 DEF Held, GoodEvents, Ids
  <2>2. Max(Ids(t)) \in Ids(t) /\ \A y \in Ids(t) : y <= Max(Ids(t))
    BY <2>1, MaxMember
  <2>3. Max(Ids(t)) = id
    <3>1. Max(Ids(t)) \in Nat /\ Max(Ids(t)) <= id /\ id <= Max(Ids(t))
      BY <1>12, <2>1, <2>2, Bounds
    <3> QED
      BY <1>5, <3>1
  <2> QED
    BY <1>12, <2>1, <2>3 DEF TailOf, Ids
<1>14. \A i \in Ids(t) : i < t.tail_id
  <2>1. Ids(t) \in SUBSET (1..MAX_ID)
    BY <1>12 DEF Held, GoodEvents, Ids
  <2> QED
    BY <1>5, <1>12, <2>1, Bounds
<1>15. Settled(callback, t)
  BY <1>12, <1>13, <1>14 DEF Settled
<1>16. Grown(q.log, t.log)
  BY <1>2, <1>5, <1>6, <1>12, GrownTransitive
<1> QED
  BY <1>1, <1>15, <1>16, BecomeKeeps

LEMMA ForgetStep ==
  ASSUME QueueIInv, NEW id \in Ids(q), forget(id)
  PROVE  QueueIInv'
<1> DEFINE t == pop(callback, q, id, q.tail_id)
<1>1. callback \in BOOLEAN /\ Settled(callback, q) /\ Held(callback, q) /\ q.tail_id \in Nat
      /\ (\A i \in Ids(q) : i < q.tail_id) /\ Become(t)
  BY DEF QueueIInv, Settled, Held, forget
<1>2. /\ Held(callback, t) /\ Grown(q.log, t.log)
      /\ t.tail_id = q.tail_id /\ t.gc_at = q.gc_at
      /\ \/ Without(q.events, t.events, id) /\ ~(callback /\ id + 1 = q.tail_id)
         \/ Emptied(q.events, t.events, id) /\ callback /\ id + 1 = q.tail_id
  BY <1>1, PopResult
<1> HIDE DEF t
<1>3. /\ Ids(t) \subseteq Ids(q)
      /\ \A i \in Ids(q) : i # id => i \in Ids(t) /\ t.events[i] = q.events[i]
      /\ \A i \in Ids(t) : t.events[i].len # 0 => t.events[i] = q.events[i]
      /\ callback /\ id + 1 = q.tail_id => id \in Ids(t)
  BY <1>2 DEF Without, Emptied, Ids
<1>4. HasData(t) => t.gc_at # 0
  BY <1>1, <1>2, <1>3 DEF HasData, Settled
<1>5. ASSUME callback PROVE Max(Ids(q)) \in Ids(t)
  <2>1. Ids(q) \in SUBSET (1..MAX_ID) /\ Ids(q) # {}
    BY <1>1 DEF Held, GoodEvents, Ids
  <2>2. Max(Ids(q)) \in Ids(q)
    BY <2>1, MaxMember
  <2>3. q.tail_id = Max(Ids(q)) + 1
    BY <1>1, <1>5, <2>1 DEF Settled, TailOf, Ids
  <2> QED
    BY <1>3, <1>5, <2>2, <2>3
<1>6. Settled(callback, t)
  BY <1>1, <1>2, <1>3, <1>4, <1>5, FewerSettled
<1> QED
  BY <1>1, <1>2, <1>6, BecomeKeeps

LEMMA GetStep ==
  ASSUME QueueIInv, NEW from_id, NEW forget_previous \in BOOLEAN, NEW limit,
         get(from_id, forget_previous, limit)
  PROVE  QueueIInv'
<1> DEFINE old == {i \in Ids(q) : i < from_id}
           s == IF forget_previous THEN PopAll(callback, q, old, q.tail_id) ELSE q
           later == {i \in Ids(s) : i >= from_id}
           ready == {i \in later : ~Gone(s.events[i])}
           seen  == {i \in later : Cardinality({j \in ready : j < i}) <= limit}
           gone == {i \in seen : Gone(s.events[i])}
           t == PopAll(callback, s, gone, s.tail_id)
<1>1. Become(t)
  BY DEF get
<1>2. callback \in BOOLEAN /\ Settled(callback, q) /\ Held(callback, q)
  BY DEF QueueIInv, Settled
<1>3. gone \in SUBSET Ids(s) /\ old \in SUBSET Ids(q)
  OBVIOUS
<1> HIDE DEF gone, t, old
<1>4. Settled(callback, s) /\ Grown(q.log, s.log)
  <2>1. CASE forget_previous
    <3>1. s = PopAll(callback, q, old, q.tail_id)
      BY <2>1
    <3> QED
      BY <1>2, <1>3, <3>1, PopAllSettled
  <2>2. CASE ~forget_previous
    BY <1>2, <2>2, GrownReflexive
  <2> QED
    BY <2>1, <2>2
<1> HIDE DEF s
<1>5. Settled(callback, t) /\ Grown(s.log, t.log)
  BY <1>2, <1>3, <1>4, PopAllSettled DEF t
<1>6. Grown(q.log, t.log)
  BY <1>2, <1>4, <1>5, GrownTransitive DEF Settled
<1> QED
  BY <1>1, <1>5, <1>6, BecomeKeeps

LEMMA ClearStep ==
  ASSUME QueueIInv, NEW keep_count \in Nat, clear(keep_count)
  PROVE  QueueIInv'
<1> DEFINE last  == Max(Ids(q))
           e     == q.events[last]
           keeps == keep_count = 0 /\ callback /\ e.log_event_id # 0
           kept  == IF keeps THEN {last} ELSE KeptFrom(keep_count)
           base  == IF ~keeps \/ e.len = 0 THEN q
                    ELSE LET c == clear_event_data(q, last) IN callback_rewrite(c, last, c.events[last])
           ids   == Ids(q) \ kept
           t     == EraseAll(callback, base, ids)
<1>1. get_size(q) > keep_count /\ Become(t)
  BY DEF clear
<1>2. callback \in BOOLEAN /\ Settled(callback, q) /\ Held(callback, q) /\ q.tail_id \in Nat
      /\ \A i \in Ids(q) : i < q.tail_id
  BY DEF QueueIInv, Settled, Held
<1>3. Ids(q) \in SUBSET (1..MAX_ID) /\ IsFiniteSet(Ids(q))
  BY <1>2, GoodFinite DEF Held, GoodEvents, Ids
<1>4. Ids(q) # {}
  <2> SUFFICES ASSUME Ids(q) = {} PROVE FALSE
    OBVIOUS
  <2>1. Cardinality(Ids(q)) = 0
    BY FS_EmptySet
  <2>2. get_size(q) = 0
    BY <2>1 DEF get_size
  <2> QED
    BY <1>1, <2>2
<1>5. last \in Ids(q) /\ (\A y \in Ids(q) : y <= last) /\ last \in Nat
  BY <1>3, <1>4, MaxMember, Bounds
<1>6. callback => e.log_event_id # 0 /\ last + 1 = q.tail_id
  BY <1>2, <1>4, <1>5 DEF Settled, TailOf, Held, LogHeld, Recorded, Describes, Ids
<1>7. /\ Held(callback, base) /\ Grown(q.log, base.log)
      /\ base.tail_id = q.tail_id /\ base.gc_at = q.gc_at /\ Ids(base) = Ids(q)
      /\ \A i \in Ids(q) : base.events[i].len # 0 => base.events[i] = q.events[i]
  <2>1. CASE ~keeps
    <3>1. base = q
      BY <2>1
    <3> QED
      BY <1>2, <3>1, GrownReflexive
  <2>2. CASE keeps
    <3>1. base = pop(callback, q, last, q.tail_id)
      BY <1>6, <2>2 DEF pop
    <3> HIDE DEF base, last
    <3>2. /\ Held(callback, base) /\ Grown(q.log, base.log)
          /\ base.tail_id = q.tail_id /\ base.gc_at = q.gc_at
          /\ \/ Without(q.events, base.events, last) /\ ~(callback /\ last + 1 = q.tail_id)
             \/ Emptied(q.events, base.events, last) /\ callback /\ last + 1 = q.tail_id
      BY <1>2, <1>5, <3>1, PopResult
    <3>3. Emptied(q.events, base.events, last)
      BY <1>6, <2>2, <3>2
    <3> QED
      BY <1>5, <3>2, <3>3 DEF Emptied, Ids
  <2> QED
    BY <2>1, <2>2
<1>8. callback => last \in kept
  <2>1. CASE keeps
    BY <2>1
  <2>2. CASE ~keeps /\ callback
    <3>1. keep_count # 0
      BY <1>6, <2>2
    <3>2. {j \in Ids(q) : j >= last} = {last}
      BY <1>3, <1>5, Bounds
    <3> HIDE DEF last
    <3>3. Cardinality({last}) = 1
      BY FS_Singleton
    <3>4. last \in KeptFrom(keep_count)
      BY <1>5, <3>1, <3>2, <3>3 DEF KeptFrom
    <3> QED
      BY <2>2, <3>4
  <2> QED
    BY <1>2, <2>1, <2>2
<1>9. ids \in SUBSET Ids(base)
  BY <1>7
<1> HIDE DEF last, base, kept, keeps, t
<1>10. Cleared(callback, base, t, ids, MAX_ID)
  BY <1>2, <1>7, <1>9, EraseAllResult DEF t
<1>11. /\ Held(callback, t) /\ Grown(base.log, t.log) /\ t.tail_id = q.tail_id /\ t.gc_at = q.gc_at
       /\ Ids(t) \subseteq Ids(q) /\ (callback => last \in Ids(t))
       /\ \A j \in Ids(t) : t.events[j] = base.events[j]
  BY <1>5, <1>7, <1>8, <1>10 DEF Cleared
<1>12. HasData(t) => t.gc_at # 0
  <2>1. HasData(t) => HasData(q)
    BY <1>7, <1>11 DEF HasData
  <2> QED
    BY <1>2, <1>11, <2>1 DEF Settled
<1>13. Settled(callback, t)
  BY <1>2, <1>11, <1>12, FewerSettled DEF last
<1>14. Grown(q.log, t.log)
  BY <1>2, <1>7, <1>11, GrownTransitive
<1> QED
  BY <1>1, <1>13, <1>14, BecomeKeeps

LEMMA GcStep ==
  ASSUME QueueIInv, NEW n, run_gc(n)
  PROVE  QueueIInv'
<1> DEFINE first == {i \in Ids(q) : Cardinality({j \in Ids(q) : j <= i}) <= n}
           stays == {i \in Ids(q) : ~Gone(q.events[i])}
           seen  == {i \in Ids(q) : Cardinality({j \in stays : j < i}) <= 1}
           done  == first \cap seen
           x == NextGcAt(stays \cap done, Ids(q) \ first)
           u == PopAll(callback, q, done \ stays, q.tail_id)
           t == schedule_queue_gc(u, x)
<1>1. Become(t)
  BY DEF run_gc
<1>2. callback \in BOOLEAN /\ Settled(callback, q) /\ Held(callback, q)
  BY DEF QueueIInv, Settled
<1>3. /\ Ids(q) \in SUBSET (1..MAX_ID) /\ IsFiniteSet(Ids(q))
      /\ \A i \in Ids(q) : q.events[i].expires_at \in Nat /\ q.events[i].expires_at # 0
  BY <1>2, GoodFinite DEF Held, GoodEvents, Ids, Slots
<1>4. done \ stays \in SUBSET Ids(q) /\ stays \in SUBSET Ids(q) /\ first \in SUBSET Ids(q)
  OBVIOUS
<1>5. (stays \cap done = {} /\ Ids(q) \ first = {}) => stays = {} /\ done = Ids(q)
  <2> SUFFICES ASSUME stays \cap done = {}, first = Ids(q) PROVE stays = {} /\ done = Ids(q)
    BY <1>4
  <2>1. stays = {}
    <3> SUFFICES ASSUME stays # {} PROVE FALSE
      OBVIOUS
    <3> DEFINE m == Min(stays)
    <3> HIDE DEF stays, first
    <3>1. m \in stays /\ \A y \in stays : m <= y
      BY <1>3, <1>4, MinMember
    <3> HIDE DEF m
    <3>2. {j \in stays : j < m} = {}
      BY <1>3, <1>4, <3>1, Bounds
    <3>3. m \in seen
      BY <1>4, <3>1, <3>2, FS_EmptySet
    <3> QED
      BY <1>4, <3>1, <3>3
  <2> HIDE DEF stays, first
  <2>2. seen = Ids(q)
    <3>1. \A i \in Ids(q) : {j \in stays : j < i} = {}
      BY <2>1
    <3> QED
      BY <3>1, FS_EmptySet
  <2> QED
    BY <2>1, <2>2
<1> HIDE DEF stays, done, first
<1>6. /\ x \in Nat
      /\ x = 0 => stays = {} /\ done = Ids(q)
  <2>1. CASE stays \cap done # {}
    <3>1. Min(stays \cap done) \in Ids(q)
      BY <1>3, <1>4, <2>1, MinMember
    <3> QED
      BY <1>3, <2>1, <3>1 DEF NextGcAt
  <2>2. CASE stays \cap done = {} /\ Ids(q) \ first # {}
    <3>1. Min(Ids(q) \ first) \in Ids(q)
      BY <1>3, <2>2, MinMember
    <3> QED
      BY <1>3, <2>2, <3>1 DEF NextGcAt
  <2>3. CASE stays \cap done = {} /\ Ids(q) \ first = {}
    BY <1>5, <2>3 DEF NextGcAt
  <2> QED
    BY <2>1, <2>2, <2>3
<1>7. /\ Settled(callback, u) /\ Grown(q.log, u.log) /\ u.tail_id = q.tail_id
      /\ \A i \in Ids(u) : u.events[i].len # 0 => i \notin (done \ stays)
      /\ Ids(u) \subseteq Ids(q)
  BY <1>2, <1>4, PopAllSettled
<1> HIDE DEF u, x
<1>8. Held(callback, t) /\ t.log = u.log /\ t.gc_at = x /\ t.events = u.events /\ t.tail_id = u.tail_id
  BY <1>2, <1>6, <1>7, HeldGc DEF Settled
<1> HIDE DEF t
<1>9. HasData(t) => t.gc_at # 0
  BY <1>6, <1>7, <1>8 DEF HasData, Ids
<1>10. Settled(callback, t)
  BY <1>7, <1>8, <1>9 DEF Settled, Ids
<1> QED
  BY <1>1, <1>7, <1>8, <1>10, BecomeKeeps

LEMMA RestartStep ==
  ASSUME QueueIInv, NEW n \in 0..Len(q.log), Restart(n)
  PROVE  QueueIInv'
<1> DEFINE log == SubSeq(q.log, 1, n)
           t == Load(log)
           o == SubSeq(order, 1, n)
<1>1. q' = t /\ order' = o /\ callback' = callback /\ callback = TRUE
  BY DEF Restart, QueueIInv
<1>2. EveryPrefix(q.log) /\ q.log \in Seq(LogEvents) /\ Len(q.log) \in Nat
  BY <1>1 DEF QueueIInv, Settled, Held, LogHeld, EveryPrefix
<1>3. /\ order \in Seq(Views) /\ Len(order) = Len(q.log)
      /\ \A m \in 1..Len(q.log) : order[m] # Unfinished =>
           \E f : Recorded(SubSeq(q.log, 1, m), f) /\ order[m] = ViewOf(f)
  BY DEF QueueIInv, History
<1>4. log \in Seq(LogEvents) /\ Len(log) = n
  BY <1>2
<1>5. \A m \in 0..n : SubSeq(log, 1, m) = SubSeq(q.log, 1, m) /\ m \in 0..Len(q.log)
  BY <1>2
<1>6. o \in Seq(Views) /\ Len(o) = n /\ \A m \in 1..n : o[m] = order[m]
  BY <1>2, <1>3
<1>7. PICK f : Recorded(log, f)
  BY <1>2 DEF EveryPrefix
<1> HIDE DEF log, o, t
<1>8. EveryPrefix(log)
  BY <1>2, <1>4, <1>5 DEF EveryPrefix
<1>9. /\ Held(TRUE, t) /\ SameEvents(f, t.events) /\ t.log = log
      /\ t.tail_id = TailOf(t.events) /\ (HasData(t) => t.gc_at # 0)
  BY <1>7, <1>8, LoadResult DEF t
<1>10. \A i \in Ids(t) : i < t.tail_id
  <2> SUFFICES ASSUME NEW i \in Ids(t) PROVE i < t.tail_id
    OBVIOUS
  <2>1. Ids(t) \in SUBSET (1..MAX_ID) /\ Ids(t) # {}
    BY <1>9 DEF Held, GoodEvents, Ids
  <2>2. Max(Ids(t)) \in Ids(t) /\ i <= Max(Ids(t))
    BY <2>1, MaxMember
  <2>3. t.tail_id = Max(Ids(t)) + 1
    BY <1>9, <2>1 DEF TailOf, Ids
  <2> QED
    BY <2>1, <2>2, <2>3, Bounds
<1>11. Settled(TRUE, t)
  BY <1>9, <1>10 DEF Settled
<1>12. ASSUME NEW m \in 1..n, o[m] # Unfinished
       PROVE  \E g : Recorded(SubSeq(log, 1, m), g) /\ o[m] = ViewOf(g)
  <2>1. m \in 1..Len(q.log) /\ m \in 0..n
    BY <1>2
  <2> QED
    BY <1>3, <1>5, <1>6, <1>12, <2>1
<1>13. History(q.log)'
  BY <1>1, <1>4, <1>6, <1>9, <1>12 DEF History
<1> QED
  BY <1>1, <1>11, <1>13 DEF QueueIInv

-----------------------------------------------------------------------------
(* The theorems.                                                            *)

LEMMA EmptyRecorded ==
  \E f : Recorded(<<>>, f) /\ f = <<>>
<1> DEFINE f == EmptyQueue.events
<1>1. f = <<>> /\ DOMAIN f = {}
  BY DEF EmptyQueue
<1>2. Replay(<<>>) = EmptyProcessor
  <2>1. <<>> \in Seq(LogEvents) /\ SubSeq(<<>>, 1, 0) = <<>>
    OBVIOUS
  <2> QED
    BY <2>1, ReplayProperties
<1>3. Agree(Replay(<<>>), StoredValues) /\ Contents(Replay(<<>>)) = {}
  BY <1>2, EmptyAgrees
<1>4. Loaded(EmptyQueue, <<>>, <<>>, 0)
  BY LoadNothing
<1>5. Length(f) = 0
  BY <1>4 DEF Loaded, EmptyQueue
<1> HIDE DEF f
<1>6. GoodEvents(f)
  BY <1>1, <1>5, FS_EmptySet, Bounds DEF GoodEvents
<1>7. Describes(f, {})
  BY <1>1 DEF Describes
<1> QED
  BY <1>1, <1>3, <1>6, <1>7 DEF Recorded

LEMMA InitQueue == Init => QueueIInv
<1> SUFFICES ASSUME Init PROVE QueueIInv
  OBVIOUS
<1>1. /\ IsQueue(q) /\ q.tail_id = 0 /\ q.events = <<>> /\ q.total_event_length = 0 /\ q.gc_at = 0
      /\ q.log = <<>> /\ q.last_event_id_ = 0 /\ callback \in BOOLEAN /\ order = <<>>
  BY DEF Init, EmptyQueue, IsQueue
<1>2. Loaded(q, <<>>, <<>>, 0)
  BY LoadNothing DEF Init
<1>3. Ids(q) = {} /\ q.total_event_length = Length(q.events)
  BY <1>1, <1>2 DEF Loaded, Ids
<1>4. Recorded(<<>>, <<>>)
  BY EmptyRecorded
<1>5. EveryPrefix(<<>>)
  <2>1. <<>> \in Seq(LogEvents) /\ Len(<<>>) = 0
    OBVIOUS
  <2>2. \A n \in 0..0 : SubSeq(<<>>, 1, n) = <<>>
    OBVIOUS
  <2> QED
    BY <1>4, <2>1, <2>2 DEF EveryPrefix
<1>6. Replay(<<>>).last_event_id_ = 0
  <2>1. <<>> \in Seq(LogEvents) /\ SubSeq(<<>>, 1, 0) = <<>>
    OBVIOUS
  <2>2. Replay(<<>>) = EmptyProcessor
    BY <2>1, ReplayProperties
  <2> QED
    BY <2>2, EmptyAgrees
<1>7. Held(callback, q)
  BY <1>1, <1>3, <1>4, <1>5, <1>6 DEF Held, LogHeld, Recorded
<1>8. TailOf(q.events) = 0
  BY <1>3 DEF TailOf, Ids
<1>9. Settled(callback, q)
  BY <1>1, <1>3, <1>7, <1>8 DEF Settled, HasData
<1>10. History(q.log)
  BY <1>1 DEF History
<1> QED
  BY <1>1, <1>9, <1>10 DEF QueueIInv

(* The invariant is inductive: it holds after every operation and after a   *)
(* restart from every prefix of the log.                                    *)
THEOREM QueueInvariance == Spec => []QueueIInv
<1>1. QueueIInv /\ [Next]_vars => QueueIInv'
  <2> SUFFICES ASSUME QueueIInv, [Next]_vars PROVE QueueIInv'
    OBVIOUS
  <2>1. ASSUME NEW len \in Lengths, NEW expires_at \in Expirations, NEW first \in FirstIds,
               push(len, expires_at, first)
        PROVE  QueueIInv'
    BY <2>1, PushStep
  <2>2. ASSUME NEW id \in Ids(q), forget(id) PROVE QueueIInv'
    BY <2>2, ForgetStep
  <2>3. ASSUME NEW keep_count \in 0..MAX_QUEUE_EVENTS, clear(keep_count) PROVE QueueIInv'
    <3>1. keep_count \in Nat
      BY Bounds
    <3> QED
      BY <2>3, <3>1, ClearStep
  <2>4. ASSUME NEW from_id \in 0..MAX_ID, NEW forget_previous \in BOOLEAN, NEW limit \in 0..1,
               get(from_id, forget_previous, limit)
        PROVE  QueueIInv'
    BY <2>4, GetStep
  <2>5. ASSUME NEW n \in 0..Cardinality(Ids(q)), run_gc(n) PROVE QueueIInv'
    BY <2>5, GcStep
  <2>6. CASE Tick
    BY <2>6 DEF Tick, QueueIInv, History
  <2>7. ASSUME NEW n \in 0..Len(q.log), Restart(n) PROVE QueueIInv'
    BY <2>7, RestartStep
  <2>8. CASE UNCHANGED vars
    BY <2>8 DEF vars, QueueIInv, History
  <2> QED
    BY <2>1, <2>2, <2>3, <2>4, <2>5, <2>6, <2>7, <2>8 DEF Next
<1> QED
  BY <1>1, InitQueue, PTL DEF Spec

(* Whatever prefix of the binlog survives, its replay accepts every event,  *)
(* and from the end of an operation it shows what the queue showed then.    *)
THEOREM RecoversHistoryHolds == Spec => []RecoversHistory
<1>1. QueueIInv => RecoversHistory
  <2> SUFFICES ASSUME QueueIInv, NEW n \in 1..Len(q.log)
               PROVE  /\ ReplayAccepted(SubSeq(q.log, 1, n))
                      /\ order[n] # Unfinished => Visible(Load(SubSeq(q.log, 1, n))) = order[n]
    BY DEF RecoversHistory
  <2> DEFINE log == SubSeq(q.log, 1, n)
  <2>1. callback
    <3>1. Held(callback, q) /\ callback \in BOOLEAN
      BY DEF QueueIInv, Settled
    <3>2. ~callback => q.log = <<>>
      BY <3>1 DEF Held
    <3> QED
      BY <3>1, <3>2
  <2>2. EveryPrefix(q.log) /\ q.log \in Seq(LogEvents) /\ Len(q.log) \in Nat
    BY <2>1 DEF QueueIInv, Settled, Held, LogHeld, EveryPrefix
  <2>3. log \in Seq(LogEvents) /\ Len(log) = n /\ n \in 0..Len(q.log)
        /\ \A m \in 0..n : SubSeq(log, 1, m) = SubSeq(q.log, 1, m) /\ m \in 0..Len(q.log)
    BY <2>2
  <2>4. PICK f : Recorded(log, f)
    BY <2>2, <2>3 DEF EveryPrefix
  <2>5. order[n] # Unfinished => \E g : Recorded(log, g) /\ order[n] = ViewOf(g)
    BY DEF QueueIInv, History
  <2> HIDE DEF log
  <2>6. EveryPrefix(log)
    BY <2>2, <2>3 DEF EveryPrefix
  <2>7. ReplayAccepted(log)
    BY <2>4, <2>6, LoadResult
  <2>8. ASSUME order[n] # Unfinished PROVE Visible(Load(log)) = order[n]
    <3>1. PICK g : Recorded(log, g) /\ order[n] = ViewOf(g)
      BY <2>5, <2>8
    <3> QED
      BY <2>6, <3>1, LoadResult
  <2> QED
    BY <2>7, <2>8 DEF log
<1> QED
  BY <1>1, QueueInvariance, PTL

(* The fields of the queue agree with each other and with the binlog, and   *)
(* garbage collection is scheduled while there is data.                     *)
THEOREM QueueFieldsAgree == Spec => []FieldsAgree
<1>1. QueueIInv => FieldsAgree
  <2> SUFFICES ASSUME QueueIInv PROVE FieldsAgree
    OBVIOUS
  <2>1. callback \in BOOLEAN /\ Settled(callback, q) /\ Held(callback, q)
    BY DEF QueueIInv, Settled
  <2>2. Ids(q) \in SUBSET (1..MAX_ID) /\ IsFiniteSet(Ids(q)) /\ Cardinality(Ids(q)) \in Nat
    BY <2>1, GoodFinite DEF Held, GoodEvents, Ids
  <2>3. q.total_event_length = Length(q.events)
    BY <2>1 DEF Held
  <2>4. ASSUME NEW i \in Ids(q), q.events[i].len = 0 PROVE callback /\ i + 1 = q.tail_id
    <3>1. callback
      BY <2>1, <2>4 DEF Held
    <3>2. Max(Ids(q)) \in Ids(q) /\ i <= Max(Ids(q))
      BY <2>2, MaxMember
    <3>3. ~(i < Max(Ids(q)))
      BY <2>1, <2>4, <3>2 DEF Held, GoodEvents, Ids
    <3>4. q.tail_id = Max(Ids(q)) + 1
      BY <2>1, <3>1 DEF Settled, TailOf, Ids
    <3>5. i = Max(Ids(q))
      BY <2>2, <3>2, <3>3, Bounds
    <3> QED
      BY <3>1, <3>4, <3>5
  <2>5. ASSUME callback
        PROVE  {c[1] : c \in Contents(Replay(q.log))} = {q.events[i].log_event_id : i \in Ids(q)}
    <3>1. Contents(Replay(q.log)) = {Entry(q.events, i) : i \in Ids(q)}
      BY <2>1, <2>5 DEF Held, LogHeld, Recorded, Describes, Ids
    <3>2. \A i \in Ids(q) : Entry(q.events, i)[1] = q.events[i].log_event_id
      BY DEF Entry
    <3> QED
      BY <3>1, <3>2
  <2>6. ASSUME get_size(q) > 0 PROVE q.gc_at # 0
    <3>1. HasData(q)
      <4> SUFFICES ASSUME ~HasData(q) PROVE FALSE
        OBVIOUS
      <4>1. \A i \in Ids(q) : q.events[i].len = 0
        BY DEF HasData
      <4>2. CASE Ids(q) = {}
        <5>1. Cardinality(Ids(q)) = 0
          BY <4>2, FS_EmptySet
        <5> QED
          BY <2>6, <4>2, <5>1 DEF get_size
      <4>3. CASE Ids(q) # {}
        <5> DEFINE m == Max(Ids(q))
        <5>1. m \in Ids(q) /\ \A y \in Ids(q) : y <= m
          BY <2>2, <4>3, MaxMember
        <5>2. get_size(q) = Cardinality(Ids(q)) - 1
          BY <4>1, <4>3, <5>1 DEF get_size
        <5> HIDE DEF m
        <5>3. Ids(q) = {m}
          <6>1. ASSUME NEW i \in Ids(q) PROVE i = m
            <7>1. ~(i < m)
              BY <2>1, <4>1, <5>1 DEF Held, GoodEvents, Ids
            <7> QED
              BY <2>2, <5>1, <7>1, Bounds
          <6> QED
            BY <5>1, <6>1
        <5>4. Cardinality(Ids(q)) = 1
          BY <5>3, FS_Singleton
        <5> QED
          BY <2>6, <5>2, <5>4
      <4> QED
        BY <4>2, <4>3
    <3> QED
      BY <2>1, <3>1 DEF Settled
  <2>7. \A i \in Ids(q) : i < q.tail_id
    BY <2>1 DEF Settled
  <2> QED
    BY <2>3, <2>4, <2>5, <2>6, <2>7 DEF FieldsAgree
<1> QED
  BY <1>1, QueueInvariance, PTL
=============================================================================
