-------------------------- MODULE MCUpdatesManager --------------------------
(* An update that stands for two changes, two messages and between them an  *)
(* update that does not move the pts; and, from the same initial states,    *)
(* the checker that sorts out repeated updates before: the one of the two   *)
(* moves while the other has not begun.                                     *)
EXTENDS UpdatesManager, DuplicateChecker

MCCounts == <<2, 1, 0, 1>>

MCInit == Init /\ CheckerInit

MCNext ==
  \/ CheckerInit /\ Next /\ UNCHANGED checker_vars
  \/ Init /\ CheckerNext /\ UNCHANGED vars

MCSpec == MCInit /\ [][MCNext]_<<vars, checker_vars>> /\ Fairness
=============================================================================
