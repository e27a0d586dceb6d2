--------------------------- MODULE OrderedEvents ---------------------------
(***************************************************************************)
(* What td::OrderedEventsProcessor promises, as operators on three values: *)
(* begin, the next number to run; end, one past the largest number seen;   *)
(* slots, a function from the numbers that came early to their data.       *)
(* The class itself (a vector with an offset, compacted now and then) is   *)
(* modelled by OrderedEventsProcessor, which is checked to implement this. *)
(***************************************************************************)
EXTENDS Integers, Sequences

Larger(a, b) == IF a >= b THEN a ELSE b

(* The value of begin_ after the loop of add(): the first number that is    *)
(* not waiting in a slot, or end if every one of them is.                   *)
DrainTo(begin, end, slots) ==
  LET last == Larger(begin, end)
  IN  CHOOSE k \in begin..last :
        /\ \A j \in begin..(k - 1) : j \in DOMAIN slots
        /\ k = last \/ k \notin DOMAIN slots

(* The data handed to the callback when seq_no = begin arrives with data,   *)
(* in call order: the new event, then the ones that waited for it.          *)
Drained(begin, upto, slots, data) ==
  [i \in 1..(upto - begin) |-> IF i = 1 THEN data ELSE slots[begin + i - 1]]

(* The slots that remain when every number below upto has been run.         *)
KeepFrom(upto, slots) ==
  [n \in {m \in DOMAIN slots : m >= upto} |-> slots[n]]

(* The slots after an early number was stored.                              *)
Stored(seq_no, data, slots) ==
  [n \in DOMAIN slots \cup {seq_no} |-> IF n = seq_no THEN data ELSE slots[n]]

Covered(end, upto) == Larger(end, upto)
=============================================================================
