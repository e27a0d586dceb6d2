----------------------- MODULE OrderedEventsProcessor -----------------------
(***************************************************************************)
(* td::OrderedEventsProcessor (tdutils/td/utils/OrderedEventsProcessor.h): *)
(* events carry unique consecutive numbers, arrive in any order and are    *)
(* run in the order of their numbers.  Early events wait in data_array_,   *)
(* a vector of (data, flag) pairs whose first cell belongs to offset_.     *)
(* An event's data is its number, so that `delivered', the history of the  *)
(* callback's calls, tells a wrong slot from a right one.                  *)
(***************************************************************************)
EXTENDS Integers, Sequences, OrderedEvents

CONSTANTS Offset,      \* the constructor's argument: the first number
          MaxSeqNo,    \* bound: the last number a caller uses
          CompactMin   \* try_compactify's threshold, 5 in the code

ASSUME ProcessorAssumption ==
  /\ Offset \in Nat /\ MaxSeqNo \in Nat /\ CompactMin \in Nat

VARIABLES offset_, begin_, end_, data_array_,
          first,      \* history: the number the processor started from
          added,      \* history: the numbers that callers have used
          delivered,  \* history: <<seq_no, data>> of every call of function
          returned    \* history: what clear() handed back, if it was the last call

ordered_vars == <<offset_, begin_, end_, data_array_, first, added, delivered, returned>>

EmptyCell == [first |-> 0, second |-> FALSE]

OrderedInit ==
  /\ offset_ = Offset /\ begin_ = Offset /\ end_ = Offset
  /\ data_array_ = <<>>
  /\ first = Offset /\ added = {} /\ delivered = <<>> /\ returned = {}

(* data_array_[seq_no - offset_], C++ indices starting at 0.                *)
Cell(seq_no) == data_array_[seq_no - offset_ + 1]

(* The loop of add(): it stops at end_ or at the first cell that is unset.  *)
LoopEnd ==
  CHOOSE k \in (begin_ + 1)..(IF end_ > begin_ THEN end_ ELSE begin_ + 1) :
    /\ \A j \in (begin_ + 1)..(k - 1) : Cell(j).second
    /\ k >= end_ \/ ~Cell(k).second

Compacted_OneTooMany(array, offset, begin) ==
  LET begin_pos == begin - offset
  IN  IF begin_pos > CompactMin /\ begin_pos * 2 > Len(array)
        THEN [array |-> SubSeq(array, begin_pos + 2, Len(array)), offset |-> begin]
        ELSE [array |-> array, offset |-> offset]

(* try_compactify, for the values begin_ and offset_ have when it runs.     *)
Compacted(array, offset, begin) ==
  LET begin_pos == begin - offset
  IN  IF begin_pos > CompactMin /\ begin_pos * 2 > Len(array)
        THEN [array |-> SubSeq(array, begin_pos + 1, Len(array)), offset |-> begin]
        ELSE [array |-> array, offset |-> offset]

(* data_array_ when the flags of the numbers below b have been reset.       *)
Reset_Forgotten(b) == data_array_

Reset(b) ==
  [i \in DOMAIN data_array_ |->
     IF offset_ + i - 1 \in (begin_ + 1)..(b - 1)
       THEN [data_array_[i] EXCEPT !.second = FALSE]
       ELSE data_array_[i]]

EndAfter(b) == IF b > end_ THEN b ELSE end_

(* add() of the number that everyone waits for.                             *)
RunNow(seq_no) ==
  LET b   == LoopEnd
      ran == [i \in 1..(b - begin_) |->
                <<begin_ + i - 1,
                  IF i = 1 THEN seq_no ELSE Cell(begin_ + i - 1).first>>]
      e   == EndAfter(b)
      c   == Compacted(Reset(b), IF b = e THEN b ELSE offset_, b)
  IN  /\ begin_' = b
      /\ end_' = e
      /\ data_array_' = c.array
      /\ offset_' = c.offset
      /\ delivered' = delivered \o ran

EndStored(seq_no) == IF end_ < seq_no + 1 THEN seq_no + 1 ELSE end_

(* add() of an early number.                                                *)
Store(seq_no) ==
  LET pos    == seq_no - offset_ + 1
      size   == IF Len(data_array_) < pos THEN pos ELSE Len(data_array_)
  IN  /\ data_array_' =
           [i \in 1..size |->
              IF i = pos THEN [first |-> seq_no, second |-> TRUE]
              ELSE IF i \in DOMAIN data_array_ THEN data_array_[i] ELSE EmptyCell]
      /\ end_' = EndStored(seq_no)
      /\ UNCHANGED <<offset_, begin_, delivered>>

(* add().  Callers never reuse a number (they take them from an atomic      *)
(* counter), so LOG_CHECK(seq_no >= begin_) is a property, not a guard.     *)
Add(seq_no) ==
  /\ seq_no \notin added
  /\ added' = added \cup {seq_no}
  /\ returned' = {} /\ UNCHANGED first
  /\ IF seq_no = begin_ THEN RunNow(seq_no) ELSE Store(seq_no)

(* The data whose flag is set.                                              *)
Waiting == {data_array_[i].first : i \in {j \in DOMAIN data_array_ : data_array_[j].second}}

(* clear(function): the data of the waiting events goes back to the caller  *)
(* and the object is a default-constructed one, whose first number is 1.    *)
Clear ==
  /\ returned' = Waiting
  /\ offset_' = 1 /\ begin_' = 1 /\ end_' = 1 /\ data_array_' = <<>>
  /\ first' = 1 /\ added' = {} /\ delivered' = <<>>

OrderedNext == Clear \/ \E n \in first..MaxSeqNo : Add(n)

OrderedSpec == OrderedInit /\ [][OrderedNext]_ordered_vars

-----------------------------------------------------------------------------
(* A flag is set exactly for the numbers that wait, in their own cells with *)
(* their own data: the vector is reused without being cleared (offset_ =    *)
(* begin_ when it is drained), so a stale flag would run an event twice,    *)
(* and the LOG_CHECK of add() holds for every number that can still come.   *)
FlagsAreWaiting ==
  /\ \A n \in (first..MaxSeqNo) \ added : n >= begin_
  /\ \A n \in added :
       n < begin_ \/ (n > begin_ /\ n < end_ /\ Cell(n) = [first |-> n, second |-> TRUE])
  /\ \A i \in DOMAIN data_array_ :
       data_array_[i].second => offset_ + i - 1 \in added \cap (begin_ + 1)..(end_ - 1)

Abstract == INSTANCE OrderedDelivery WITH
  begin <- begin_, end <- end_,
  slots <- [n \in {m \in begin_..(end_ - 1) :
                     /\ m - offset_ + 1 \in DOMAIN data_array_
                     /\ Cell(m).second} |-> Cell(n).first],
  ran <- delivered, back <- returned

(* Every step of the vector implementation is a step of the abstract        *)
(* processor on the same begin, end and waiting events: resizing, reuse and *)
(* compaction of the vector are invisible to callers, and clear() returns   *)
(* exactly the events that wait.                                            *)
ImplementsOrderedDelivery == Abstract!Spec
=============================================================================
