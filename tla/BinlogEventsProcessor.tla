----------------------- MODULE BinlogEventsProcessor ------------------------
(***************************************************************************)
(* td::detail::BinlogEventsProcessor                                       *)
(* (tddb/td/db/binlog/detail/BinlogEventsProcessor.{h,cpp}): the events of *)
(* a binlog that are alive, as operators on the object's fields.           *)
(*                                                                         *)
(* An event is a record with an id, a type ("data" for the client's types, *)
(* "empty" for ServiceTypes::Empty, "key" for AesCtrEncryption), whether   *)
(* its Rewrite flag is set, and a value.  Every event has size 1.          *)
(* event_ids_ holds id * 2 + was_deleted.                                  *)
(***************************************************************************)
EXTENDS Integers, Sequences, SequencesExt

CONSTANT CompactMin   \* compactify() needs more events than this, 10 in the code

ASSUME EventsProcessorAssumption == CompactMin \in Nat

EmptyProcessor ==
  [event_ids_ |-> <<>>, events_ |-> <<>>, total_events_ |-> 0, empty_events_ |-> 0,
   last_event_id_ |-> 0, total_raw_events_size_ |-> 0]

(* What an erased event leaves in events_: a default-constructed one.       *)
DeletedEvent == [type |-> "empty", id |-> 0, val |-> 0, rewrite |-> FALSE]

IsDeleted(fixed_id) == fixed_id % 2 = 1

(* The positions of the live events, in the order of compactify's loop.     *)
AlivePositions(p) ==
  LET kept[i \in 0..Len(p.event_ids_)] ==
        IF i = 0 THEN <<>>
        ELSE IF IsDeleted(p.event_ids_[i]) THEN kept[i - 1]
        ELSE Append(kept[i - 1], i)
  IN  kept[Len(p.event_ids_)]

(* The elements of a sequence at some positions.                            *)
At(s, positions) == SubSeq([i \in DOMAIN positions |-> s[positions[i]]], 1, Len(positions))

compactify_KeepsCount(p) ==
  LET kept == AlivePositions(p)
  IN  [p EXCEPT !.event_ids_ = At(p.event_ids_, kept),
                !.events_ = At(p.events_, kept),
                !.total_events_ = Len(kept)]

compactify_MovesIdsOnly(p) ==
  LET kept == AlivePositions(p)
  IN  [p EXCEPT !.event_ids_ = At(p.event_ids_, kept),
                !.events_ = SubSeq(@, 1, Len(kept)),
                !.total_events_ = Len(kept),
                !.empty_events_ = 0]

compactify(p) ==
  LET kept == AlivePositions(p)
  IN  [p EXCEPT !.event_ids_ = At(p.event_ids_, kept),
                !.events_ = At(p.events_, kept),
                !.total_events_ = Len(kept),
                !.empty_events_ = 0]

MaybeCompactify(p) ==
  IF p.total_events_ > CompactMin /\ p.empty_events_ * 4 > p.total_events_ * 3
    THEN compactify(p) ELSE p

(* The event that a rewrite is about: lower_bound, then an exact match.     *)
Positions(p, event) == {i \in DOMAIN p.event_ids_ : p.event_ids_[i] = event.id * 2}

IsRewrite_ByFlag(p, event) == event.rewrite

IsRewrite(p, event) ==
  event.rewrite /\ p.event_ids_ # <<>> /\ Last(p.event_ids_) >= event.id * 2

(* Whether do_event returns an error, which is fatal to a running Binlog.   *)
Refused(p, event) ==
  IF IsRewrite(p, event) THEN Positions(p, event) = {}
  ELSE /\ event.type = "data"
       /\ p.event_ids_ # <<>> /\ Last(p.event_ids_) >= event.id * 2

Rewritten(p, event) ==
  LET pos == CHOOSE i \in Positions(p, event) : TRUE
  IN  IF event.type = "empty"
        THEN [p EXCEPT !.event_ids_[pos] = @ + 1,
                       !.events_[pos] = DeletedEvent,
                       !.empty_events_ = @ + 1,
                       !.total_raw_events_size_ = @ - 1]
        ELSE [p EXCEPT !.events_[pos] = event]

Appended(p, event) ==
  [p EXCEPT !.last_event_id_ = event.id,
            !.total_raw_events_size_ = @ + 1,
            !.total_events_ = @ + 1,
            !.event_ids_ = Append(@, event.id * 2),
            !.events_ = Append(@, event)]

(* do_event for an event that is not refused.  Service events are skipped.  *)
do_event(p, event) ==
  MaybeCompactify(IF IsRewrite(p, event) THEN Rewritten(p, event)
                  ELSE IF event.type = "data" THEN Appended(p, event)
                  ELSE p)

(* for_each: the live events, in the order of their identifiers.            *)
for_each(p) == At(p.events_, AlivePositions(p))

(* A processor fed with a sequence of events, none of which it refuses.     *)
Replay(events) ==
  LET after[i \in 0..Len(events)] ==
        IF i = 0 THEN EmptyProcessor ELSE do_event(after[i - 1], events[i])
  IN  after[Len(events)]

(* What the clients of a binlog can see of it.                              *)
Contents(p) ==
  LET alive == for_each(p) IN {<<alive[i].id, alive[i].val>> : i \in DOMAIN alive}
=============================================================================
