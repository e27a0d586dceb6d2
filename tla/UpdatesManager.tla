--------------------------- MODULE UpdatesManager ---------------------------
(***************************************************************************)
(* The pts stream of td::UpdatesManager.  The server numbers what happens  *)
(* to the account; update x moves the pts by Counts[x].  Updates are pushed *)
(* over connections that lose and reorder them, and may also be fetched    *)
(* with getDifference, in slices or whole, or one by one.  The client must *)
(* apply them in order and once each, without knowing what it has missed.  *)
(*                                                                         *)
(* Handlers call one another, so they are written as operators on the      *)
(* record um of the actor's fields.  Updates are named by their positions, *)
(* which is the order of PendingPtsUpdate::operator<.  Left out: qts and   *)
(* seq, pts that jump by 99 or more, PERSISTENT_TIMESTAMP_INVALID and      *)
(* updatePtsChanged.                                                       *)
(***************************************************************************)
EXTENDS Integers, Sequences, FiniteSetsExt

CONSTANTS Counts,         \* the pts_count of every update that will happen
          StartPts,       \* the server's pts when the client logs in
          SingleSession,  \* option session_count is at most 1
          Bots,           \* the values that auth_manager_->is_bot() may have
          MaxPrefix,      \* GAP_TIMEOUT_UPDATE_COUNT, 20 in the code
          MaxFaults,      \* bound: failed queries, forced differences, tooLong
          MaxRestarts     \* bound: restarts of the client

ASSUME UpdatesAssumption ==
  /\ Counts \in Seq(Nat) /\ StartPts \in Nat \ {0} /\ SingleSession \in BOOLEAN /\ Bots \subseteq BOOLEAN
  /\ MaxPrefix \in Nat \ {0} /\ MaxFaults \in Nat /\ MaxRestarts \in Nat

Updates == DOMAIN Counts

(* The pts after each update.                                               *)
Pts[x \in 0..Len(Counts)] == IF x = 0 THEN StartPts ELSE Pts[x - 1] + Counts[x]

VARIABLES um,        \* the fields of UpdatesManager
          server,    \* how many updates have happened
          pushed,    \* updates on their way to the client
          request,   \* the query in flight, with its answer if there is one
          fetches,   \* the pts of the GetPtsUpdateQuery in flight
          faults, restarts

vars == <<um, server, pushed, request, fetches, faults, restarts>>

NoRequest == [type |-> "none"]

(* What the constructor leaves for init_state.  skipping: the counter of    *)
(* can_postpone_updates is not yet 0, which is so at first in the process   *)
(* of an authorised bot and not in that of a user, nor where one logs in.   *)
Fresh(pts, skipping) ==
  [pts |-> pts, accumulated_pts |-> -1, accumulated_count |-> 0,
   pending |-> {}, postponed |-> {}, running |-> FALSE,
   gap |-> FALSE, min_gap |-> FALSE, retry |-> FALSE,
   skipping |-> skipping, min_postponed |-> 0, last_fetched |-> 0,
   ask |-> "none",       \* the query that the handler has sent
   fetch |-> {},         \* the pts it has asked GetPtsUpdateQuery for
   saves |-> {pts},      \* the values that "updates.pts" may have
   at |-> pts,           \* history: the pts of what has been applied
   misapplied |-> {},    \* history: updates applied out of turn
   checks |-> TRUE]      \* history: no CHECK has failed

-----------------------------------------------------------------------------
(* Applying updates.                                                        *)

(* MessagesManager::process_pts_update.                                     *)
Apply(u, x) ==
  IF u.at = Pts[x - 1] THEN [u EXCEPT !.at = Pts[x]] ELSE [u EXCEPT !.misapplied = @ \cup {x}]

(* The updates xs, in order.                                                *)
ApplyAll(u, xs) ==
  LET after[x \in 0..Len(Counts)] ==
        IF x = 0 THEN u ELSE IF x \in xs THEN Apply(after[x - 1], x) ELSE after[x - 1]
  IN  after[Len(Counts)]

(* set_pts; PtsManager decides when the value is saved.                     *)
set_pts(u, pts) ==
  IF pts > u.pts THEN [u EXCEPT !.pts = pts, !.saves = @ \cup {pts}] ELSE u

(* A timer that is set may be brought forward, and min_pts_gap_timeout_ be  *)
(* set again with it; when they fire is left open.                          *)
set_pts_gap_timeout(u, long) == [u EXCEPT !.gap = TRUE, !.min_gap = @ \/ long]

drop_all_pending_pts_updates_KeepsCount(u) ==
  [u EXCEPT !.accumulated_pts = -1, !.gap = FALSE, !.min_gap = FALSE, !.pending = {}]

drop_all_pending_pts_updates(u) ==
  [u EXCEPT !.accumulated_count = 0, !.accumulated_pts = -1,
            !.gap = FALSE, !.min_gap = FALSE, !.pending = {}]

process_all_pending_pts_updates(u) ==
  drop_all_pending_pts_updates(set_pts(ApplyAll(u, u.pending), u.accumulated_pts))

(* One round of the loop of process_pending_pts_updates.                    *)
ApplyFirst(u, x) ==
  IF Counts[x] = 0 THEN [u EXCEPT !.pending = @ \ {x}]
  ELSE [set_pts(Apply(u, x), Pts[x]) EXCEPT
          !.pending = @ \ {x},
          !.accumulated_count = @ - Counts[x],
          !.checks = @ /\ Pts[x] <= u.accumulated_pts /\ u.accumulated_count >= Counts[x]]

IsNext(u, x) ==
  x \in u.pending /\ u.pts = Pts[x] - Counts[x] /\ \A y \in u.pending : x <= y

(* The loop ends at the first update that is not next: while that one       *)
(* waits, no later one is the first.                                        *)
ApplyPending(u) ==
  LET after[x \in 0..Len(Counts)] ==
        IF x = 0 THEN u ELSE IF IsNext(after[x - 1], x) THEN ApplyFirst(after[x - 1], x) ELSE after[x - 1]
  IN  after[Len(Counts)]

GapLeft_NoTimer(u) == u

(* The gap that is left has a timer of its own.                             *)
GapLeft(u) == IF u.pending = {} THEN u ELSE set_pts_gap_timeout(u, TRUE)

process_pending_pts_updates(u) ==
  LET v == ApplyPending(u)
  IN  IF v = u THEN GapLeft(u) ELSE GapLeft([v EXCEPT !.gap = FALSE, !.min_gap = FALSE])

-----------------------------------------------------------------------------
(* Receiving updates.                                                       *)

(* While can_postpone_updates is false, what cannot be applied is dropped.   *)
postpone_pts_update(u, x) ==
  IF u.skipping \/ (Counts[x] > 1 /\ SingleSession) THEN u
  ELSE [u EXCEPT !.postponed = @ \cup {x}]

(* add_pending_pts_update once update x has been counted in.                *)
Counted(u, x) ==
  LET start == u.accumulated_pts - u.accumulated_count
      v     == [u EXCEPT !.pending = @ \cup {x}]
  IN  CASE u.pts > start -> set_pts_gap_timeout(postpone_pts_update(u, x), FALSE)
        [] u.pts = start /\ u.pending = {} /\ ~u.gap ->
             IF Counts[x] = 0 THEN u
             ELSE [set_pts(Apply(u, x), u.accumulated_pts) EXCEPT
                     !.accumulated_count = 0, !.accumulated_pts = -1]
        [] u.pts < start /\ u.pts = Pts[x] - Counts[x] -> process_pending_pts_updates(v)
        [] u.pts < start /\ u.pts # Pts[x] - Counts[x] -> set_pts_gap_timeout(v, TRUE)
        [] OTHER -> process_all_pending_pts_updates(v)

(* bad: is_acceptable_update refuses the update, which is asked of those    *)
(* that have waited for the end of getDifference.                           *)
add_pending_pts_update(u, x, bad) ==
  CASE Pts[x] <= u.pts -> u
    [] Pts[x] > u.pts /\ (u.running \/ u.postponed # {}) -> postpone_pts_update(u, x)
    [] Pts[x] > u.pts /\ ~u.running /\ u.postponed = {} /\ (bad \/ u.pts > Pts[x] - Counts[x]) ->
         set_pts_gap_timeout(postpone_pts_update(u, x), FALSE)
    [] OTHER ->
         Counted([u EXCEPT !.accumulated_count = @ + Counts[x],
                           !.accumulated_pts = IF Pts[x] > @ THEN Pts[x] ELSE @], x)

-----------------------------------------------------------------------------
(* getDifference.                                                           *)

before_get_difference(u) ==
  drop_all_pending_pts_updates(
    [u EXCEPT !.postponed = @ \cup (IF u.skipping THEN {} ELSE u.pending)])

run_get_difference(u, is_recursive) ==
  [before_get_difference(u) EXCEPT
     !.running = TRUE, !.ask = "getDifference",
     !.checks = @ /\ ~u.running /\ u.pts # -1,
     !.min_postponed = IF is_recursive THEN @ ELSE 0]

(* init_state without a saved pts asks the server for its state.            *)
init_state(u) ==
  CASE u.pts = -1 /\ ~u.running ->
         [before_get_difference(u) EXCEPT !.running = TRUE, !.ask = "getState"]
    [] u.pts = -1 /\ u.running -> u
    [] OTHER -> run_get_difference(u, FALSE)

get_difference(u) ==
  CASE u.pts = -1 -> init_state(u)
    [] u.pts # -1 /\ u.running -> u
    [] OTHER -> run_get_difference(u, FALSE)

(* The sum of the counts of xs.                                             *)
Total(xs) ==
  LET sum[x \in 0..Len(Counts)] ==
        IF x = 0 THEN 0 ELSE IF x \in xs THEN sum[x - 1] + Counts[x] ELSE sum[x - 1]
  IN  sum[Len(Counts)]

UpTo(xs, x) == {y \in xs : y <= x}

(* The inner loop of process_postponed_pts_updates: is x the last of the    *)
(* first updates of xs that together begin at pts?                          *)
Applicable(pts, xs) ==
  {x \in xs :
     /\ Cardinality(UpTo(xs, x)) <= MaxPrefix
     /\ pts = Pts[x] - Total(UpTo(xs, x))
     /\ \A y \in xs : y < x => pts < Pts[y] - Total(UpTo(xs, y))}

(* One round of the outer loop.                                             *)
Later(u) == {x \in u.postponed : Pts[x] > u.pts}

ApplyPrefix(u) ==
  LET last   == CHOOSE x \in Applicable(u.pts, Later(u)) : TRUE
      prefix == UpTo(Later(u), last)
  IN  IF Applicable(u.pts, Later(u)) = {} THEN u
      ELSE [ApplyAll(u, {x \in prefix : Counts[x] > 0}) EXCEPT
              !.postponed = Later(u) \ prefix, !.pts = Pts[last]]

(* rounds: how often it applies updates before time is up.                  *)
ApplyPostponed(u, rounds) ==
  LET after[i \in 0..rounds] == IF i = 0 THEN u ELSE ApplyPrefix(after[i - 1])
  IN  [after[rounds] EXCEPT !.postponed = Later(after[rounds])]

process_postponed_pts_updates(u, rounds) ==
  LET v == ApplyPostponed(u, rounds)
  IN  [v EXCEPT !.saves = @ \cup {v.pts}]

AddAll(u, xs, bad) ==
  LET after[x \in 0..Len(Counts)] ==
        IF x = 0 THEN u
        ELSE IF x \in xs THEN add_pending_pts_update(after[x - 1], x, x \in bad) ELSE after[x - 1]
  IN  after[Len(Counts)]

(* after_get_difference; bad are the postponed updates that are refused.    *)
after_get_difference(u, bad) ==
  AddAll([u EXCEPT !.retry = FALSE, !.skipping = FALSE, !.postponed = {}], u.postponed, bad)

(* process_get_difference_updates and set_pts of on_get_updates_state.      *)
TakeDifference(u, answer) ==
  set_pts([ApplyAll(u, answer.updates) EXCEPT
             !.checks = @ /\ u.pending = {} /\ u.accumulated_pts = -1],
          answer.pts)

(* updates_differenceSlice: more is asked for unless the postponed updates  *)
(* can be applied from here.                                                *)
on_slice(u, answer, same_date, rounds, bad) ==
  LET v == process_postponed_pts_updates(TakeDifference(u, answer), rounds)
  IN  IF same_date /\ (v.pts = u.pts \/ (v.min_postponed # 0 /\ v.pts >= v.min_postponed))
        THEN after_get_difference(v, bad)
        ELSE run_get_difference(v, TRUE)

-----------------------------------------------------------------------------
(* Steps of the system.                                                     *)

(* The end of a handler: what it has sent is on its way.                    *)
Handled(u) ==
  /\ um' = [u EXCEPT !.ask = "none", !.fetch = {}]
  /\ request' = CASE u.ask = "none" -> request
                  [] u.ask # "none" -> [type |-> u.ask, pts |-> u.pts]
  /\ fetches' = fetches \cup u.fetch

(* As Handled, when the handler is that of the answer in request.           *)
Consumed(u) ==
  /\ um' = [u EXCEPT !.ask = "none", !.fetch = {}]
  /\ request' = CASE u.ask = "none" -> NoRequest
                  [] u.ask # "none" -> [type |-> u.ask, pts |-> u.pts]
  /\ fetches' = fetches \cup u.fetch

Init ==
  LET u == init_state(Fresh(-1, FALSE))
  IN  /\ um = [u EXCEPT !.ask = "none"]
      /\ request = [type |-> u.ask, pts |-> u.pts]
      /\ server = 0 /\ pushed = {} /\ fetches = {} /\ faults = 0 /\ restarts = 0

Fault == faults < MaxFaults /\ faults' = faults + 1
NoFault == UNCHANGED faults

(* Something happens to the account, and the server pushes it.              *)
Happen ==
  /\ server < Len(Counts)
  /\ server' = server + 1
  /\ pushed' = pushed \cup {server + 1}
  /\ UNCHANGED <<um, request, fetches, faults, restarts>>

(* A push is lost with its connection.                                      *)
Lose(x) ==
  /\ x \in pushed
  /\ pushed' = pushed \ {x}
  /\ UNCHANGED <<um, server, request, fetches, faults, restarts>>

Started(u) == IF u.pts = -1 THEN init_state(u) ELSE u

MinPostponed(u, x) ==
  IF u.running /\ ~u.skipping /\ (u.min_postponed = 0 \/ Pts[x] < u.min_postponed)
    THEN [u EXCEPT !.min_postponed = Pts[x]] ELSE u

(* can_postpone_updates has counted to its end, and is true from now on.    *)
EndSkipping(u) == [u EXCEPT !.skipping = FALSE]

(* on_pending_updates, with one update of the pts stream.  It asks          *)
(* can_postpone_updates twice, and the answers may differ.                  *)
on_pending_updates(x) ==
  /\ x \in pushed
  /\ pushed' = pushed \ {x}
  /\ LET u == MinPostponed(Started(um), x)
     IN  \E v \in {u, EndSkipping(u)} : Handled(add_pending_pts_update(v, x, FALSE))
  /\ UNCHANGED <<server, faults, restarts>>

(* can_postpone_updates is asked for the other streams, too.                *)
SkipOthers ==
  /\ um.skipping
  /\ um' = EndSkipping(um)
  /\ UNCHANGED <<server, pushed, request, fetches, faults, restarts>>

(* on_pending_updates of an update that is_acceptable_update refuses.       *)
on_unacceptable_update(x) ==
  /\ x \in pushed /\ ~Started(um).running
  /\ pushed' = pushed \ {x}
  /\ Fault /\ Handled(get_difference(um))
  /\ UNCHANGED <<server, restarts>>

(* updatesTooLong, the answer to a ping and others ask for the difference.  *)
on_updates_too_long ==
  /\ Fault /\ Handled(get_difference(um))
  /\ UNCHANGED <<server, pushed, restarts>>

(* The server answers with what it has now.  A slice is not empty.          *)
Answer(type, upto) ==
  [type |-> type, pts |-> Pts[upto], updates |-> {x \in 1..upto : Pts[x] > request.pts}]

AnswerOk ==
  /\ \/ request.type = "getState" /\ request' = Answer("updates_state", server)
     \/ /\ request.type = "getDifference" /\ Pts[server] = request.pts
        /\ request' = [type |-> "differenceEmpty"]
     \/ /\ request.type = "getDifference" /\ Pts[server] > request.pts
        /\ request' = Answer("difference", server)
     \/ /\ request.type = "getDifference"
        /\ \E upto \in 1..(server - 1) :
             Pts[upto] > request.pts /\ request' = Answer("differenceSlice", upto)
  /\ UNCHANGED <<um, server, pushed, fetches, faults, restarts>>

AnswerBadly ==
  /\ Fault
  /\ \/ /\ request.type \in {"getState", "getDifference"}
        /\ request' = [type |-> "error"]
     \/ /\ request.type = "getDifference" /\ Pts[server] > request.pts
        /\ request' \in {Answer("differenceTooLong", server), [type |-> "invalid_poll"]}
  /\ UNCHANGED <<um, server, pushed, fetches, restarts>>

Failed_NoRetry(u) == [u EXCEPT !.running = FALSE]

(* on_failed_get_difference and on_failed_get_updates_state.                *)
Failed(u) == [u EXCEPT !.running = FALSE, !.retry = TRUE]

on_failed_get_difference ==
  /\ request.type = "error"
  /\ Consumed(Failed(um))
  /\ UNCHANGED <<server, pushed, faults, restarts>>

(* on_get_updates_state of a client that had no pts.                        *)
on_get_updates_state ==
  /\ request.type = "updates_state"
  /\ Consumed(after_get_difference(
       [set_pts(um, request.pts) EXCEPT !.at = request.pts, !.running = FALSE], {}))
  /\ UNCHANGED <<server, pushed, faults, restarts>>

(* One refused update makes the rest of the postponed ones wait as well.    *)
Refusals == {{}} \cup {{x} : x \in um.postponed}

(* on_get_difference.  The difference is applied as it is; refused updates  *)
(* are among those that were postponed meanwhile.                           *)
on_get_difference ==
  LET u == [um EXCEPT !.running = FALSE]
  IN  /\ \/ /\ request.type = "differenceEmpty"
            /\ \E bad \in Refusals : Consumed(after_get_difference(u, bad))
         \/ /\ request.type = "difference"
            /\ \E bad \in Refusals :
                 Consumed(after_get_difference(TakeDifference(u, request), bad))
         \/ /\ request.type = "differenceSlice"
            /\ \E bad \in Refusals, same_date \in BOOLEAN, rounds \in 0..Cardinality(um.postponed) :
                 Consumed(on_slice(u, request, same_date, rounds, bad))
         \/ /\ request.type = "differenceTooLong"
            /\ Consumed(get_difference([set_pts(u, request.pts) EXCEPT !.at = request.pts]))
         \/ request.type = "invalid_poll" /\ Consumed(run_get_difference(u, TRUE))
      /\ UNCHANGED <<server, pushed, faults, restarts>>

(* The timers.                                                              *)
fill_pts_gap ==
  /\ um.gap
  /\ Handled(get_difference([um EXCEPT !.gap = FALSE]))
  /\ UNCHANGED <<server, pushed, faults, restarts>>

fill_get_difference_gap ==
  /\ um.retry
  /\ Handled(get_difference([um EXCEPT !.retry = FALSE]))
  /\ UNCHANGED <<server, pushed, faults, restarts>>

(* Is the update with this pts all that is missing before the first one     *)
(* that waits?                                                              *)
MissesOne(u, pts) ==
  /\ ~u.running /\ u.postponed = {} /\ u.pending # {} /\ u.pts = pts - 1
  /\ Pts[Min(u.pending)] = pts + Counts[Min(u.pending)]

repair_pts_gap ==
  LET pts == um.pts + 1
      u   == [um EXCEPT !.min_gap = FALSE]
  IN  /\ um.min_gap
      /\ Handled(IF MissesOne(u, pts) /\ u.last_fetched # pts
                   THEN [u EXCEPT !.last_fetched = pts, !.fetch = {pts}] ELSE u)
      /\ UNCHANGED <<server, pushed, faults, restarts>>

CanTake(u, pts) == MissesOne(u, pts) /\ Pts[Min(u.pending)] <= pts + 1

(* on_get_pts_update, and the query whose answer it is.                     *)
on_get_pts_update(pts) ==
  /\ pts \in fetches
  /\ LET found == {x \in 1..server : Pts[x] = pts /\ Counts[x] = 1}
         u == IF CanTake(um, pts) /\ found # {}
                THEN add_pending_pts_update(um, Min(found), FALSE) ELSE um
     IN  /\ um' = u /\ fetches' = fetches \ {pts}
  /\ UNCHANGED <<server, pushed, request, faults, restarts>>

FetchFails(pts) ==
  /\ pts \in fetches
  /\ fetches' = fetches \ {pts}
  /\ UNCHANGED <<um, server, pushed, request, faults, restarts>>

(* The process ends, and the next one begins from a pts that was saved.     *)
Restart ==
  /\ restarts < MaxRestarts /\ restarts' = restarts + 1
  /\ \E pts \in um.saves, bot \in Bots :
       LET u == init_state(Fresh(pts, bot))
       IN  /\ um' = [u EXCEPT !.ask = "none"]
           /\ request' = [type |-> u.ask, pts |-> u.pts]
  /\ pushed' = {} /\ fetches' = {}
  /\ UNCHANGED <<server, faults>>

Deliver == \E x \in pushed : on_pending_updates(x)
Environment ==
  \/ \E x \in pushed : Lose(x) \/ on_unacceptable_update(x)
  \/ \E pts \in fetches : FetchFails(pts) \/ on_get_pts_update(pts)
  \/ Happen \/ on_updates_too_long \/ AnswerBadly \/ repair_pts_gap \/ SkipOthers \/ Restart

Next ==
  \/ Deliver \/ Environment \/ AnswerOk
  \/ on_failed_get_difference \/ on_get_updates_state \/ on_get_difference
  \/ fill_pts_gap \/ fill_get_difference_gap

Spec == Init /\ [][Next]_vars

(* Queries are answered, answers are handled and timers fire: weak fairness *)
(* of AnswerOk with the handlers of answers, and of the two timers, with    *)
(* ENABLED written out.  A query in flight changes with them and with the   *)
(* steps that count as faults or restarts.                                  *)
Exchanged == request' # request /\ faults' = faults /\ restarts' = restarts

Fairness ==
  /\ []<>(request.type = "none") \/ []<><<Exchanged>>_vars
  /\ []<>~um.gap \/ []<><<fill_pts_gap>>_vars
  /\ []<>~um.retry \/ []<><<fill_get_difference_gap>>_vars

FairSpec == Spec /\ Fairness

-----------------------------------------------------------------------------
(* add_pending_pts_update, process_all_pending_pts_updates,                 *)
(* process_pending_pts_updates, process_postponed_pts_updates and           *)
(* on_get_difference: whatever was lost, late, fetched twice or postponed,  *)
(* every update is applied once and in its turn, and the pts says exactly   *)
(* what has been applied.                                                   *)
StateMatchesPts == um.misapplied = {} /\ um.at = um.pts

(* An update that waits for a gap to be filled, or for the end of           *)
(* getDifference, has a timer or a query that will see to it.               *)
WaitingIsWatched ==
  um.pending # {} \/ um.postponed # {} => um.gap \/ um.retry \/ um.running

(* add_pending_pts_update, process_pending_pts_updates,                     *)
(* before_get_difference:                                                   *)
(* accumulated_pts_count_ is the number of pts that the pending updates     *)
(* stand for, so the condition on which all of them are applied at once is  *)
(* right.                                                                   *)
AccumulatedAgree ==
  um.postponed = {} /\ ~um.running =>
    um.accumulated_count = Total(um.pending)

(* What waits is watched and counted right, and the CHECKs of               *)
(* run_get_difference, process_pending_pts_updates and process_pts_update   *)
(* do not fail.                                                             *)
PendingAgrees == WaitingIsWatched /\ AccumulatedAgree /\ um.checks

(* fill_pts_gap, schedule_get_difference and on_get_difference: an update   *)
(* that waits is applied or found to be old in the end, unless the process  *)
(* ends before.  A bot that still skips updates may drop it again.          *)
GapsAreFilled ==
  \A x \in Updates, r \in 0..MaxRestarts :
    restarts = r /\ ~um.skipping /\ x \in um.pending \cup um.postponed
      ~> (um.pts >= Pts[x] \/ restarts # r)
=============================================================================
