--------------------------- MODULE BinlogKeyValue ---------------------------
(***************************************************************************)
(* td::BinlogKeyValue<ConcurrentBinlog> (tddb/td/db/BinlogKeyValue.h): a   *)
(* key-value map of which every change is an event of a binlog.            *)
(*                                                                         *)
(* A writer changes the map and takes its sequence numbers under           *)
(* rw_mutex_, but hands the events to the binlog after releasing it, so    *)
(* the events of two writers may arrive in the other order.  The actor of  *)
(* ConcurrentBinlog puts them back in order (module ConcurrentBinlog); the *)
(* events then go to the real BinlogEventsProcessor.  A crash leaves some  *)
(* prefix of the log on the disk; which one is the subject of module       *)
(* Binlog.                                                                 *)
(***************************************************************************)
EXTENDS BinlogEventsProcessor, FiniteSets

CONSTANTS Threads, Keys, Values,
          Prefixed,     \* the keys that begin with erase_by_prefix's argument
          MaxEvents,    \* bound: events ever taken a number for, losses not counted
          MaxCrashes    \* bound: restarts

ASSUME BinlogKeyValueAssumption ==
  /\ Prefixed \subseteq Keys
  /\ MaxEvents \in Nat /\ MaxCrashes \in Nat

VARIABLES
  map_,             \* key -> its value and the identifier of its event, id 0 if absent
  last_event_id_,   \* the next sequence number
  held,             \* thread -> the events it still has to hand to the binlog
  arrived,          \* the events that wait in the actor for a smaller number
  expected,         \* the number the actor waits for
  log,              \* the events in the binlog
  order,            \* history: the map's values after each event, in the order of the numbers
  crashes

vars == <<map_, last_event_id_, held, arrived, expected, log, order, crashes>>

Absent == [value |-> 0, id |-> 0]

Present(m) == {k \in Keys : m[k].id # 0}

(* What get and isset can tell: the values of the keys that are set.        *)
View(m) == {<<k, m[k].value>> : k \in Present(m)}

Event(type, id, val, rewrite) == [type |-> type, id |-> id, val |-> val, rewrite |-> rewrite]

EraseEvent(id) == Event("empty", id, 0, TRUE)

(* An event with its sequence number.                                       *)
Numbered(seq_no, event) == [seq_no |-> seq_no, event |-> event]

Init ==
  /\ map_ = [k \in Keys |-> Absent]
  /\ last_event_id_ = 1 /\ expected = 1
  /\ held = [t \in Threads |-> <<>>]
  /\ arrived = {} /\ log = <<>> /\ order = <<>> /\ crashes = 0

-----------------------------------------------------------------------------
(* The actor: an event whose number is the expected one goes to the log     *)
(* with all that directly follow it, any other one waits.                   *)

Arrive_Unordered(events) ==
  /\ log' = log \o [i \in DOMAIN events |-> events[i].event]
  /\ UNCHANGED <<arrived, expected>>

Arrive(events) ==
  LET all    == arrived \cup ToSet(events)
      have   == {e.seq_no : e \in all}
      next   == CHOOSE n \in expected..(expected + Cardinality(have)) :
                  n \notin have /\ expected..(n - 1) \subseteq have
      EventAt(n) == (CHOOSE e \in all : e.seq_no = n).event
  IN  /\ log' = log \o [i \in 1..(next - expected) |-> EventAt(expected + i - 1)]
      /\ arrived' = {e \in all : e.seq_no >= next}
      /\ expected' = next

(* add_event, after the lock has been released.                             *)
Send(t) ==
  /\ held[t] # <<>>
  /\ Arrive(<<Head(held[t])>>)
  /\ held' = [held EXCEPT ![t] = Tail(@)]
  /\ UNCHANGED <<map_, last_event_id_, order, crashes>>

-----------------------------------------------------------------------------
(* The writers, each up to the end of its critical section.                 *)

Idle(t) == held[t] = <<>>

MayTake(n) == Len(order) + n <= MaxEvents

(* A changed key keeps its event, which is rewritten.                       *)
EventIdOf(k) == IF map_[k].id # 0 THEN map_[k].id ELSE last_event_id_

(* set: nothing happens and 0 is returned if the key has that value.        *)
set(t, k, v) ==
  /\ Idle(t) /\ MayTake(1)
  /\ ~(map_[k].id # 0 /\ map_[k].value = v)
  /\ map_' = [map_ EXCEPT ![k] = [value |-> v, id |-> IF @.id # 0 THEN @.id ELSE last_event_id_]]
  /\ last_event_id_' = last_event_id_ + 1
  /\ held' = [held EXCEPT ![t] = <<Numbered(last_event_id_,
                                     Event("data", EventIdOf(k), <<k, v>>, map_[k].id # 0))>>]
  /\ order' = Append(order, View(map_'))
  /\ UNCHANGED <<arrived, expected, log, crashes>>

Without(m, keys) == [k \in Keys |-> IF k \in keys THEN Absent ELSE m[k]]

(* The map loses the keys at once; in the log they are erased one by one.   *)
EraseKeys(keys) ==
  /\ MayTake(Len(keys))
  /\ map_' = Without(map_, ToSet(keys))
  /\ order' = order \o [i \in DOMAIN keys |-> View(Without(map_, ToSet(SubSeq(keys, 1, i))))]

EraseEvents(keys) ==
  [i \in DOMAIN keys |-> Numbered(last_event_id_ + i - 1, EraseEvent(map_[keys[i]].id))]

erase(t, k) ==
  /\ Idle(t) /\ k \in Present(map_)
  /\ EraseKeys(<<k>>)
  /\ last_event_id_' = last_event_id_ + 1
  /\ held' = [held EXCEPT ![t] = EraseEvents(<<k>>)]
  /\ UNCHANGED <<arrived, expected, log, crashes>>

(* erase_batch sends its one message under the lock.                        *)
erase_batch(t, keys) ==
  /\ Idle(t) /\ keys # <<>>
  /\ EraseKeys(keys)
  /\ last_event_id_' = last_event_id_ + Len(keys)
  /\ Arrive(EraseEvents(keys))
  /\ UNCHANGED <<held, crashes>>

(* erase_by_prefix takes all its numbers under the lock and sends its       *)
(* events one by one.                                                       *)
NextEventId_One(n) == last_event_id_ + 1

NextEventId(n) == last_event_id_ + n

erase_by_prefix(t, keys) ==
  /\ Idle(t) /\ keys # <<>>
  /\ EraseKeys(keys)
  /\ last_event_id_' = NextEventId(Len(keys))
  /\ held' = [held EXCEPT ![t] = EraseEvents(keys)]
  /\ UNCHANGED <<arrived, expected, log, crashes>>

-----------------------------------------------------------------------------
(* init or external_init_handle: the live events, in the order of their     *)
(* identifiers, are put into an empty map.                                  *)
Load(events) ==
  LET alive == for_each(Replay(events))
      after[i \in 0..Len(alive)] ==
        IF i = 0 THEN [k \in Keys |-> Absent]
        ELSE [after[i - 1] EXCEPT ![alive[i].val[1]] = [value |-> alive[i].val[2], id |-> alive[i].id]]
  IN  after[Len(alive)]

(* The process ends, by a crash or by closing, and another one opens the    *)
(* binlog, of which the first n events are on the disk.                     *)
Restart(n) ==
  /\ crashes < MaxCrashes
  /\ log' = SubSeq(log, 1, n)
  /\ order' = SubSeq(order, 1, n)
  /\ map_' = Load(log')
  /\ last_event_id_' = Replay(log').last_event_id_ + 1
  /\ expected' = last_event_id_'
  /\ held' = [t \in Threads |-> <<>>] /\ arrived' = {}
  /\ crashes' = crashes + 1

Next ==
  \/ \E t \in Threads :
       \/ Send(t)
       \/ \E k \in Keys : erase(t, k) \/ \E v \in Values : set(t, k, v)
       \/ \E keys \in SUBSET Present(map_) : \E s \in SetToSeqs(keys) : erase_batch(t, s)
       \/ \E s \in SetToSeqs(Present(map_) \cap Prefixed) : erase_by_prefix(t, s)
  \/ \E n \in 0..Len(log) : Restart(n)

Spec == Init /\ [][Next]_vars

-----------------------------------------------------------------------------
(* After a restart the map is one that it was before: whatever prefix of    *)
(* the log survives, loading it gives the values after the last operation   *)
(* in it, in the one order of the sequence numbers ("SeqNo is used to       *)
(* restore total order on all write queries", KeyValueSyncInterface.h).     *)
(* A batch may be cut in the middle, but no erased key comes back, no       *)
(* overwritten value does, and no later write survives an earlier one.  The *)
(* event processor refuses no event on the way, which would be fatal: a     *)
(* rewrite or an erase reaches it only while the event it names is alive.   *)
RecoversHistory ==
  \A n \in 1..Len(log) :
    /\ ~Refused(Replay(SubSeq(log, 1, n - 1)), log[n])
    /\ View(Load(SubSeq(log, 1, n))) = order[n]

(* When every writer has handed over its events, none of them waits in the  *)
(* actor, the log reproduces the map with the identifiers of the events,    *)
(* and no event is left in it that no key refers to.                        *)
MapMatchesLog ==
  (\A t \in Threads : Idle(t)) =>
    /\ arrived = {}
    /\ Load(log) = map_
    /\ Len(for_each(Replay(log))) = Cardinality(Present(map_))
=============================================================================
