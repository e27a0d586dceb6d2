------------------------------ MODULE EventMap ------------------------------
(***************************************************************************)
(* The abstract specification of a binlog's contents: a finite map from    *)
(* event identifiers to values.  A new event gets an identifier larger     *)
(* than all earlier ones; only live events are rewritten or erased.        *)
(***************************************************************************)
EXTENDS Integers, FiniteSets

CONSTANTS Ids, Values

VARIABLES content,   \* the live events: a set of <<id, value>>
          last       \* the largest identifier ever added

vars == <<content, last>>

Live == {c[1] : c \in content}

Init == content = {} /\ last = 0

Add(id, v) ==
  /\ id > last
  /\ content' = content \cup {<<id, v>>}
  /\ last' = id

Rewrite(id, v) ==
  /\ id \in Live
  /\ content' = {c \in content : c[1] # id} \cup {<<id, v>>}
  /\ UNCHANGED last

Erase(id) ==
  /\ id \in Live
  /\ content' = {c \in content : c[1] # id}
  /\ UNCHANGED last

Next == \E id \in Ids : (\E v \in Values : Add(id, v) \/ Rewrite(id, v)) \/ Erase(id)

Spec == Init /\ [][Next]_vars
=============================================================================
