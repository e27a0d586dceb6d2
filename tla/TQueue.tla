------------------------------- MODULE TQueue -------------------------------
(***************************************************************************)
(* td::TQueueImpl with td::TQueueBinlog as its storage                     *)
(* (tddb/td/db/TQueue.{h,cpp}): one queue of events that expire, kept in   *)
(* a binlog.  So that the numbering survives a restart, the last event is  *)
(* never deleted from the binlog: it is rewritten without data (a          *)
(* tombstone) and goes when the next event is pushed.                      *)
(*                                                                         *)
(* An operation is a function from the object's fields, the record q, to   *)
(* the new ones.  q.log is the binlog, every callback_->push and pop being *)
(* one event of it; it is replayed through the real BinlogEventsProcessor. *)
(***************************************************************************)
EXTENDS BinlogEventsProcessor, FiniteSets

CONSTANTS
  MAX_ID,                   \* EventId::MAX_ID
  MAX_QUEUE_EVENTS, MAX_TOTAL_EVENT_LENGTH,
  FirstIds,                 \* what Random::fast or hint_new_id may give
  Lengths, Expirations,     \* of the data and of the pushed events
  MaxNow,                   \* bound: unix_time_now
  MaxLog,                   \* bound: events in the binlog when another one is pushed
  MaxRestarts               \* bound: restarts

ASSUME TQueueAssumption ==
  /\ MAX_ID \in Nat /\ MAX_QUEUE_EVENTS \in Nat /\ MAX_TOTAL_EVENT_LENGTH \in Nat
  /\ \A id \in FirstIds : id \in Nat \ {0} /\ id + 1 < MAX_ID
  /\ Lengths \subseteq Nat \ {0} /\ Expirations \subseteq Nat \ {0}
  /\ MaxNow \in Nat /\ MaxLog \in Nat /\ MaxRestarts \in Nat

VARIABLES
  q,          \* the queue
  callback,   \* whether callback_ is set, for the whole life of the queue
  now,
  order,      \* history: what the queue showed after each event of the log, Unfinished
              \* if the event is not the last one of its operation
  restarts

vars == <<q, callback, now, order, restarts>>

(* events: event_id -> [log_event_id, expires_at, len], len the data's size *)
EmptyQueue ==
  [tail_id |-> 0, events |-> <<>>, total_event_length |-> 0, gc_at |-> 0,
   log |-> <<>>, last_event_id_ |-> 0]

Ids(s) == DOMAIN s.events

Drop(s, id) == [i \in Ids(s) \ {id} |-> s.events[i]]

HasNext(id) == id + 1 < MAX_ID

get_queue_head(s) ==
  IF Ids(s) = {} THEN s.tail_id ELSE Min(Ids(s))

(* A last event without data is not counted.                                *)
get_size(s) ==
  Cardinality(Ids(s)) - (IF Ids(s) # {} /\ s.events[Max(Ids(s))].len = 0 THEN 1 ELSE 0)

-----------------------------------------------------------------------------
(* TQueueBinlog: add, rewrite and erase of binlog events.                   *)

Logged(s, type, id, val, rewrite) ==
  [s EXCEPT !.log = Append(@, [type |-> type, id |-> id, val |-> val, rewrite |-> rewrite]),
            !.last_event_id_ = @ + 1]

StoredEvent(event_id, e) == [event_id |-> event_id, expires_at |-> e.expires_at, len |-> e.len]

callback_pop(s, log_event_id) == Logged(s, "empty", log_event_id, 0, TRUE)

callback_rewrite(s, event_id, e) ==
  Logged(s, "data", e.log_event_id, StoredEvent(event_id, e), TRUE)

-----------------------------------------------------------------------------
(* The private operations.                                                  *)

remove_event(s, id) ==
  [s EXCEPT !.total_event_length = @ - s.events[id].len, !.events = Drop(s, id)]

clear_event_data_KeepsLength(s, id) == [s EXCEPT !.events[id].len = 0]

clear_event_data(s, id) ==
  [s EXCEPT !.total_event_length = @ - s.events[id].len, !.events[id].len = 0]

schedule_queue_gc(s, gc_at) == [s EXCEPT !.gc_at = gc_at]

(* pop: the event before the tail stays as a tombstone.                     *)
pop(cb, s, id, tail_id) ==
  LET e == s.events[id]
      cleared == clear_event_data(s, id)
  IN  IF ~cb \/ e.log_event_id = 0 THEN remove_event(s, id)
      ELSE IF id + 1 = tail_id
             THEN IF e.len = 0 THEN s ELSE callback_rewrite(cleared, id, cleared.events[id])
      ELSE remove_event(callback_pop(s, e.log_event_id), id)

(* The events ids, in the order of the map.                                 *)
PopAll(cb, s, ids, tail_id) ==
  LET after[i \in 0..MAX_ID] ==
        IF i = 0 THEN s ELSE IF i \in ids THEN pop(cb, after[i - 1], i, tail_id) ELSE after[i - 1]
  IN  after[MAX_ID]

(* do_push refuses an event that is out of the limits or out of order.      *)
Accepts(s, id, e) ==
  /\ Cardinality(Ids(s)) < MAX_QUEUE_EVENTS
  /\ s.total_event_length <= MAX_TOTAL_EVENT_LENGTH - e.len
  /\ e.expires_at > 0
  /\ id >= s.tail_id

WithoutTombstone(cb, s) ==
  LET last == Max(Ids(s))
  IN  IF Ids(s) = {} \/ s.events[last].len # 0 THEN s
      ELSE [(IF cb /\ s.events[last].log_event_id # 0
               THEN callback_pop(s, s.events[last].log_event_id) ELSE s) EXCEPT !.events = Drop(s, last)]

do_push(cb, s, id, e) ==
  LET bare   == WithoutTombstone(cb, s)
      timed  == IF Ids(bare) = {} /\ e.len # 0 THEN schedule_queue_gc(bare, e.expires_at) ELSE bare
      log_id == timed.last_event_id_ + 1
      saved  == IF cb /\ e.log_event_id = 0
                  THEN Logged(timed, "data", log_id, StoredEvent(id, e), FALSE) ELSE timed
      added  == IF cb /\ e.log_event_id = 0 THEN [e EXCEPT !.log_event_id = log_id] ELSE e
  IN  [saved EXCEPT !.tail_id = id + 1,
                    !.total_event_length = @ + e.len,
                    !.events = [i \in Ids(saved) \cup {id} |-> IF i = id THEN added ELSE saved.events[i]]]

-----------------------------------------------------------------------------
(* What get can return, and the number the next event will have.            *)
Visible(s) ==
  [tail_id |-> s.tail_id,
   events |-> {<<i, s.events[i].expires_at, s.events[i].len>> : i \in {j \in Ids(s) : s.events[j].len # 0}}]

Unfinished == [tail_id |-> -1, events |-> {}]

(* An operation has turned q into s.                                        *)
Become(s) ==
  /\ q' = s
  /\ order' = [n \in 1..Len(s.log) |->
                 IF n <= Len(order) THEN order[n]
                 ELSE IF n = Len(s.log) THEN Visible(s) ELSE Unfinished]
  /\ UNCHANGED <<callback, now, restarts>>

Init ==
  /\ q = EmptyQueue /\ callback \in BOOLEAN
  /\ now = 1 /\ order = <<>> /\ restarts = 0

(* push: at the end of the numbers everything is dropped and the numbering  *)
(* starts again, as it does when the queue was never used.                  *)
Wrapped_KeepsEvents(cb, s) == [s EXCEPT !.tail_id = 0]

Wrapped(cb, s) == [PopAll(cb, s, Ids(s), 0) EXCEPT !.tail_id = 0]

push(len, expires_at, first) ==
  LET used    == q.tail_id # 0 /\ HasNext(q.tail_id)
      base    == IF used \/ q.tail_id = 0 THEN q ELSE Wrapped(callback, q)
      id      == IF used THEN q.tail_id ELSE first
      from    == [base EXCEPT !.tail_id = id]
      e       == [log_event_id |-> 0, expires_at |-> expires_at, len |-> len]
  IN  /\ Len(q.log) < MaxLog
      /\ Cardinality(Ids(q)) < MAX_QUEUE_EVENTS
      /\ q.total_event_length <= MAX_TOTAL_EVENT_LENGTH - len
      /\ Become(do_push(callback, from, id, e))

forget(event_id) ==
  /\ event_id \in Ids(q)
  /\ Become(pop(callback, q, event_id, q.tail_id))

(* clear: the last keep_count entries of the map stay, or the last one as a *)
(* tombstone.                                                               *)
KeptFrom(keep_count) ==
  {i \in Ids(q) : Cardinality({j \in Ids(q) : j >= i}) <= keep_count}

Erased(cb, s, id) ==
  LET log_event_id == s.events[id].log_event_id
  IN  remove_event(IF cb /\ log_event_id # 0 THEN callback_pop(s, log_event_id) ELSE s, id)

EraseAll(cb, s, ids) ==
  LET after[i \in 0..MAX_ID] ==
        IF i = 0 THEN s ELSE IF i \in ids THEN Erased(cb, after[i - 1], i) ELSE after[i - 1]
  IN  after[MAX_ID]

clear(keep_count) ==
  LET last  == Max(Ids(q))
      e     == q.events[last]
      keeps == keep_count = 0 /\ callback /\ e.log_event_id # 0
      kept  == IF keeps THEN {last} ELSE KeptFrom(keep_count)
      base  == IF ~keeps \/ e.len = 0 THEN q
               ELSE LET c == clear_event_data(q, last) IN callback_rewrite(c, last, c.events[last])
  IN  /\ get_size(q) > keep_count
      /\ Become(EraseAll(callback, base, Ids(q) \ kept))

(* get: the events before from_id are forgotten if asked, then expired ones *)
(* and tombstones are popped until there are limit events to return.        *)
Gone(e) == e.expires_at < now \/ e.len = 0

get(from_id, forget_previous, limit) ==
  LET s     == IF forget_previous THEN PopAll(callback, q, {i \in Ids(q) : i < from_id}, q.tail_id) ELSE q
      later == {i \in Ids(s) : i >= from_id}
      ready == {i \in later : ~Gone(s.events[i])}
      seen  == {i \in later : Cardinality({j \in ready : j < i}) <= limit}
  IN  /\ from_id <= q.tail_id + 10
      /\ from_id >= get_queue_head(q) - MAX_QUEUE_EVENTS
      /\ Become(PopAll(callback, s, {i \in seen : Gone(s.events[i])}, s.tail_id))

(* When a queue is looked at next: when its first event that stays expires, *)
(* or the first one that there was no time for.                             *)
NextGcAt_IfCut(stays, rest) == IF rest # {} THEN q.events[Min(rest)].expires_at ELSE 0

NextGcAt(stays, rest) ==
  IF stays # {} THEN q.events[Min(stays)].expires_at
  ELSE IF rest # {} THEN q.events[Min(rest)].expires_at ELSE 0

(* run_gc on a queue that is due, up to its second event that is not gone;  *)
(* its time may be over before that, after the first n events.              *)
run_gc(n) ==
  LET first == {i \in Ids(q) : Cardinality({j \in Ids(q) : j <= i}) <= n}
      stays == {i \in Ids(q) : ~Gone(q.events[i])}
      seen  == {i \in Ids(q) : Cardinality({j \in stays : j < i}) <= 1}
      done  == first \cap seen
  IN  /\ q.gc_at # 0 /\ q.gc_at < now
      /\ Become(schedule_queue_gc(PopAll(callback, q, done \ stays, q.tail_id),
                                  NextGcAt(stays \cap done, Ids(q) \ first)))

Tick ==
  /\ now < MaxNow
  /\ now' = now + 1
  /\ UNCHANGED <<q, callback, order, restarts>>

(* TQueueBinlog::replay of the live events of a log into a queue without a  *)
(* callback.                                                                *)
ReplayStep(s, event) ==
  LET e == [log_event_id |-> event.id, expires_at |-> event.val.expires_at, len |-> event.val.len]
  IN  IF Accepts(s, event.val.event_id, e) THEN do_push(FALSE, s, event.val.event_id, e) ELSE s

Replayed(log) ==
  LET alive == for_each(Replay(log))
      after[i \in 0..Len(alive)] == IF i = 0 THEN EmptyQueue ELSE ReplayStep(after[i - 1], alive[i])
  IN  after

Load(log) ==
  [Replayed(log)[Len(for_each(Replay(log)))] EXCEPT !.log = log,
                                                    !.last_event_id_ = Replay(log).last_event_id_]

(* The process ends and another one opens the binlog, of which the first n  *)
(* events are on the disk.                                                  *)
Restart(n) ==
  /\ callback /\ restarts < MaxRestarts
  /\ q' = Load(SubSeq(q.log, 1, n))
  /\ order' = SubSeq(order, 1, n)
  /\ restarts' = restarts + 1
  /\ UNCHANGED <<callback, now>>

Next ==
  \/ \E len \in Lengths, expires_at \in Expirations, first \in FirstIds : push(len, expires_at, first)
  \/ \E id \in Ids(q) : forget(id)
  \/ \E keep_count \in 0..MAX_QUEUE_EVENTS : clear(keep_count)
  \/ \E from_id \in 0..MAX_ID, forget_previous \in BOOLEAN, limit \in 0..1 :
       get(from_id, forget_previous, limit)
  \/ \E n \in 0..Cardinality(Ids(q)) : run_gc(n)
  \/ Tick
  \/ \E n \in 0..Len(q.log) : Restart(n)

Spec == Init /\ [][Next]_vars

(* run_gc is called again and again, and time passes.  A call that is cut   *)
(* short after no event at all is not fair to anyone.                       *)
GcDue == q.gc_at # 0 /\ q.gc_at < now

Fairness == WF_vars(Tick) /\ ([]<>~GcDue \/ []<><<run_gc(Cardinality(Ids(q)))>>_vars)

FairSpec == Spec /\ Fairness

-----------------------------------------------------------------------------
(* Replaying the binlog, cut at any event, never fails ("Failed to add      *)
(* event", a CHECK with TQueueMemoryStorage): the live events fit into the  *)
(* limits and their numbers increase.                                       *)
ReplayAccepted(log) ==
  LET alive == for_each(Replay(log))
      after == Replayed(log)
  IN  \A i \in DOMAIN alive :
        Accepts(after[i - 1], alive[i].val.event_id,
                [log_event_id |-> alive[i].id, expires_at |-> alive[i].val.expires_at,
                 len |-> alive[i].val.len])

(* After a restart from any prefix of the binlog the replay succeeds, and   *)
(* from the end of any operation the queue shows the same events and        *)
(* continues with the same number: no event identifier is used twice,       *)
(* forgotten and expired events do not come back and no other event is      *)
(* lost, however events were pushed, forgotten, cleared and collected.      *)
RecoversHistory ==
  \A n \in 1..Len(q.log) :
    LET log == SubSeq(q.log, 1, n)
    IN  /\ ReplayAccepted(log)
        /\ order[n] # Unfinished => Visible(Load(log)) = order[n]

(* The sum of the lengths of events.                                        *)
Length(events) ==
  LET sum[i \in 0..MAX_ID] ==
        IF i = 0 THEN 0 ELSE IF i \in DOMAIN events THEN sum[i - 1] + events[i].len ELSE sum[i - 1]
  IN  sum[MAX_ID]

(* The fields agree with each other after every operation: the length is    *)
(* the sum that the limit is about, the tail is behind every event, only    *)
(* the last event can be a tombstone, the binlog has exactly the events of  *)
(* the queue, and garbage collection is scheduled while there is data.      *)
FieldsAgree ==
  /\ q.total_event_length = Length(q.events)
  /\ \A i \in Ids(q) : i < q.tail_id /\ (q.events[i].len = 0 => callback /\ i + 1 = q.tail_id)
  /\ callback => {c[1] : c \in Contents(Replay(q.log))} = {q.events[i].log_event_id : i \in Ids(q)}
  /\ get_size(q) > 0 => q.gc_at # 0

(* Expired events do not stay: run_gc finds them, although it looks at a    *)
(* queue only when the time it remembered for it has come.                  *)
ExpiredCollected ==
  \A i \in 1..MAX_ID :
    (i \in Ids(q) /\ q.events[i].len # 0)
      ~> ~(i \in Ids(q) /\ q.events[i].len # 0 /\ q.events[i].expires_at < MaxNow)
=============================================================================
