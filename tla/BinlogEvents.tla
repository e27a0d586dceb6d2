---------------------------- MODULE BinlogEvents ----------------------------
(***************************************************************************)
(* A client of one BinlogEventsProcessor: it adds events with increasing   *)
(* identifiers (Binlog::next_event_id, which a rewrite or an erase also    *)
(* advances) and rewrites or erases events that are alive.                 *)
(***************************************************************************)
EXTENDS BinlogEventsProcessor

CONSTANTS MaxId,    \* bound: the largest identifier
          NewValue, Values   \* the value of a new event, and those it is rewritten to

ASSUME BinlogEventsAssumption == MaxId \in Nat

VARIABLES processor, last_event_id_

events_vars == <<processor, last_event_id_>>

LiveIds(p) == {c[1] : c \in Contents(p)}

Event(type, id, val, rewrite) ==
  [type |-> type, id |-> id, val |-> val, rewrite |-> rewrite]

EventsInit == processor = EmptyProcessor /\ last_event_id_ = 0

Feed(event) ==
  /\ processor' = do_event(processor, event)
  /\ last_event_id_' = last_event_id_ + 1

Add(v) == Feed(Event("data", last_event_id_ + 1, v, FALSE))

Rewrite(id, v) == id \in LiveIds(processor) /\ Feed(Event("data", id, v, TRUE))

Erase(id) == id \in LiveIds(processor) /\ Feed(Event("empty", id, 0, TRUE))

EventsNext ==
  /\ last_event_id_ < MaxId
  /\ \/ Add(NewValue)
     \/ \E id \in 1..MaxId, v \in Values : Rewrite(id, v)
     \/ \E id \in 1..MaxId : Erase(id)

EventsSpec == EventsInit /\ [][EventsNext]_events_vars

-----------------------------------------------------------------------------
(* The fields agree: parallel vectors, counters that count what they are    *)
(* named for (compactify is triggered by them) and for_each's LOG_CHECK     *)
(* that identifiers increase strictly.                                      *)
CountersAgree ==
  LET p == processor
      n == Len(p.event_ids_)
      deleted == {i \in 1..n : IsDeleted(p.event_ids_[i])}
  IN  /\ Len(p.events_) = n /\ p.total_events_ = n
      /\ p.empty_events_ = Cardinality(deleted)
      /\ p.total_raw_events_size_ = n - Cardinality(deleted)
      /\ \A i \in 1..(n - 1) : p.event_ids_[i] < p.event_ids_[i + 1]
      /\ \A i \in 1..n : ~IsDeleted(p.event_ids_[i]) => p.events_[i].id * 2 = p.event_ids_[i]

(* A regenerated binlog holds the same events: feeding what for_each visits *)
(* to a new processor is accepted, although rewritten events still carry    *)
(* their Rewrite flag there, and gives the same contents.                   *)
RegenerationPreserves ==
  LET events == for_each(processor)
  IN  /\ \A i \in DOMAIN events : ~Refused(Replay(SubSeq(events, 1, i - 1)), events[i])
      /\ Contents(Replay(events)) = Contents(processor)

Abstract == INSTANCE EventMap WITH
  Ids <- 1..MaxId, Values <- Values \cup {NewValue}, content <- Contents(processor), last <- processor.last_event_id_

(* The processor implements the abstract map: tombstones and compaction     *)
(* cannot be seen through for_each and last_event_id.                       *)
ImplementsEventMap == Abstract!Spec
=============================================================================
