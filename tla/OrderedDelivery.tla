--------------------------- MODULE OrderedDelivery --------------------------
(***************************************************************************)
(* The abstract specification of td::OrderedEventsProcessor: numbered      *)
(* events arrive once each, in any order, and are run in number order.     *)
(* It has no vector, no offset and no compaction.                          *)
(***************************************************************************)
EXTENDS Integers, Sequences, OrderedEvents

CONSTANTS Offset, MaxSeqNo

VARIABLES begin, end, slots, ran, back

vars == <<begin, end, slots, ran, back>>

Init == begin = Offset /\ end = Offset /\ slots = <<>> /\ ran = <<>> /\ back = {}

(* The event everyone waits for: it runs, and so does all it was blocking.  *)
Run ==
  LET upto == DrainTo(begin + 1, end, slots)
  IN  /\ begin' = upto
      /\ end' = Covered(end, upto)
      /\ slots' = KeepFrom(upto, slots)
      /\ ran' = ran \o [i \in 1..(upto - begin) |->
                          <<begin + i - 1, Drained(begin, upto, slots, begin)[i]>>]
      /\ back' = {}

Wait(n) ==
  /\ n > begin /\ n \notin DOMAIN slots
  /\ slots' = Stored(n, n, slots)
  /\ end' = Covered(end, n + 1)
  /\ back' = {}
  /\ UNCHANGED <<begin, ran>>

(* Start again from 1 and return the events that still wait.                *)
Reset ==
  /\ back' = {slots[n] : n \in DOMAIN slots}
  /\ begin' = 1 /\ end' = 1 /\ slots' = <<>> /\ ran' = <<>>

Next == Run \/ Reset \/ \E n \in 1..MaxSeqNo : Wait(n)

Spec == Init /\ [][Next]_vars
=============================================================================
