------------------------------ MODULE MCTQueue ------------------------------
(* A queue over its binlog, and, from the same initial states, the events   *)
(* of a binlog alone: the one of the two moves while the other has not      *)
(* begun.                                                                   *)
EXTENDS TQueue, BinlogEvents

MCInit == Init /\ EventsInit

MCNext ==
  \/ EventsInit /\ Next /\ UNCHANGED events_vars
  \/ Init /\ EventsNext /\ UNCHANGED vars

MCSpec == MCInit /\ [][MCNext]_<<vars, events_vars>> /\ Fairness
=============================================================================
