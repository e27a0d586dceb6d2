------------------------- MODULE MCConcurrentBinlog -------------------------
(* Two client threads against one BinlogActor, and, from the same initial   *)
(* states, its OrderedEventsProcessor alone with more numbers: the one of   *)
(* the two moves while the other has not begun.                             *)
EXTENDS ConcurrentBinlog, OrderedEventsProcessor

CONSTANTS t1, t2

MCThreads == {t1, t2}

MCInit == Init /\ OrderedInit

MCNext ==
  \/ OrderedInit /\ Next /\ UNCHANGED ordered_vars
  \/ Init /\ OrderedNext /\ UNCHANGED vars

MCSpec == MCInit /\ [][MCNext]_<<vars, ordered_vars>> /\ Fairness
=============================================================================
