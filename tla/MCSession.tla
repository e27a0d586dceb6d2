----------------------------- MODULE MCSession -----------------------------
(* Instances of Session for TLC.                                            *)
EXTENDS Session

CONSTANTS a, b, none

(* b may only follow a.                                                     *)
Chain == [q \in {a, b} |-> IF q = b THEN {a} ELSE {}]

Independent == [q \in {a, b} |-> {}]

World(order, cancelable, late, notes, n, c, r, l) ==
  [after |-> order, cancel |-> cancelable, late |-> late, notes |-> notes,
   batch |-> n, closes |-> c, rejects |-> r, losses |-> l]

(* A cancellation and a broken connection; a rejection and a broken         *)
(* connection; messages that wait too long and answers that must be asked   *)
(* for; a session that the server loses; and queries so long that a packet  *)
(* has room for one.                                                        *)
MCWorlds ==
  {World(Chain, {a}, FALSE, {"result"}, 2, 1, 0, 0),
   World(Chain, {}, FALSE, {"result"}, 2, 1, 1, 0),
   World(Independent, {}, TRUE, {"result", "detailed"}, 2, 0, 0, 0),
   World(Chain, {}, FALSE, {"result", "detailed"}, 2, 0, 0, 1),
   World(Chain, {}, FALSE, {"result"}, 1, 0, 0, 0)}
=============================================================================
