----------------------------- MODULE PtsManager -----------------------------
(***************************************************************************)
(* td::PtsManager over td::ChangesProcessor, and the part of               *)
(* UpdatesManager that saves what it returns.  Changes to the state are    *)
(* numbered when they are begun and finish in any order; what is saved for *)
(* the next start may only pass changes that are finished.  The same code  *)
(* serves pts and qts; this is one of the two, the other is seen through   *)
(* the actor's only timer, which both use.  A pts is -1 before the first   *)
(* one is known and InvalidPts after the server has called it invalid.     *)
(***************************************************************************)
EXTENDS Integers, Sequences

CONSTANTS CompactMin,   \* try_compactify's threshold, 5 in the code
          IsBot,        \* auth_manager_->is_bot(): saves may be delayed
          CanIgnore,    \* Td::can_ignore_background_updates_: no database is used
          InvalidPts,   \* std::numeric_limits<int32>::max()
          MaxChanges,   \* bound: changes begun between two starts
          MaxPts,       \* bound: the greatest pts
          MaxInits      \* bound: restarts and calls of init

ASSUME PtsAssumption ==
  /\ CompactMin \in Nat /\ IsBot \in BOOLEAN /\ CanIgnore \in BOOLEAN
  /\ MaxChanges \in Nat /\ MaxPts \in Nat /\ MaxInits \in Nat
  /\ InvalidPts \in Nat /\ InvalidPts > MaxPts

VARIABLES db_pts_, mem_pts_,               \* PtsManager
          offset_, ready_i_, data_array_,  \* its ChangesProcessor
          promises,      \* tokens whose promises have not been set
          pending_pts_,  \* UpdatesManager: a value that waits for the timer
          has_timeout,   \* UpdatesManager: the actor's timer is set
          stored,        \* "updates.pts" in the binlog, 0 if there is none
          ignoring,      \* the option ignore_background_updates
          aborted,       \* a CHECK has failed
          start,         \* history: the pts of the last init
          base,          \* history: the first token since the last init
          log,           \* history: the changes begun since the last init
          kept,          \* history: what the last init left unsaved, by the option
          inits          \* the number of calls of init

processor == <<offset_, ready_i_, data_array_>>
saving == <<pending_pts_, has_timeout, stored>>
mode == <<ignoring, aborted>>
vars == <<db_pts_, mem_pts_, processor, promises, saving, mode, start, base, log, kept, inits>>

Init ==
  /\ db_pts_ = -1 /\ mem_pts_ = -1 /\ stored = 0
  /\ offset_ = 1 /\ ready_i_ = 0 /\ data_array_ = <<>>
  /\ promises = {} /\ pending_pts_ = 0 /\ has_timeout = FALSE
  /\ ignoring = FALSE /\ aborted = FALSE
  /\ start = -1 /\ base = 1 /\ log = <<>> /\ kept = {} /\ inits = 0

-----------------------------------------------------------------------------
(* Saving.                                                                  *)

Erase == stored' = 0 /\ pending_pts_' = 0 /\ UNCHANGED has_timeout

SaveNow(pts) == stored' = pts /\ pending_pts_' = 0 /\ UNCHANGED has_timeout

SaveLater_DropsTimer(pts) == IsBot /\ pending_pts_' = pts /\ UNCHANGED <<stored, has_timeout>>

(* A bot's value waits if another was saved a moment ago.                   *)
SaveLater(pts) == IsBot /\ pending_pts_' = pts /\ has_timeout' = TRUE /\ UNCHANGED stored

(* save_pts erases the value of an invalid pts, and otherwise does nothing  *)
(* while background updates are ignored.                                    *)
save_pts(pts) ==
  \/ pts = InvalidPts /\ Erase
  \/ pts # InvalidPts /\ ~ignoring /\ (SaveNow(pts) \/ SaveLater(pts))
  \/ pts # InvalidPts /\ ignoring /\ UNCHANGED saving

(* timeout_expired makes the last save old enough for save_pts not to wait. *)
(* If save_pts does nothing, CHECK(pending_pts_ == 0) fails.                *)
timeout_expired ==
  /\ has_timeout /\ ~aborted
  /\ IF pending_pts_ # 0 /\ ignoring
       THEN aborted' = TRUE /\ UNCHANGED saving
       ELSE /\ has_timeout' = FALSE
            /\ pending_pts_' = 0
            /\ stored' = IF pending_pts_ # 0 THEN pending_pts_ ELSE stored
            /\ UNCHANGED aborted
  /\ UNCHANGED <<db_pts_, mem_pts_, processor, promises, ignoring, start, base, log, kept, inits>>

(* The other stream's save sets the timer.                                  *)
OtherTimeout ==
  /\ IsBot /\ ~has_timeout /\ ~ignoring /\ ~aborted
  /\ has_timeout' = TRUE
  /\ UNCHANGED <<db_pts_, mem_pts_, processor, promises, pending_pts_, stored, mode,
                 start, base, log, kept, inits>>

(* setOption("ignore_background_updates"), at any time.                     *)
SetOption ==
  /\ CanIgnore /\ ~aborted
  /\ ignoring' = ~ignoring
  /\ UNCHANGED <<db_pts_, mem_pts_, processor, promises, saving, aborted, start, base, log, kept, inits>>

-----------------------------------------------------------------------------
(* ChangesProcessor and PtsManager.                                         *)

(* add_pts: pts is 0 if the change is not a checkpoint.                     *)
add_pts(pts) ==
  /\ Len(log) < MaxChanges /\ ~aborted
  /\ mem_pts_' = IF pts > 0 THEN pts ELSE mem_pts_
  /\ data_array_' = Append(data_array_, [pts |-> pts, finished |-> FALSE])
  /\ promises' = promises \cup {offset_ + Len(data_array_)}
  /\ log' = Append(log, [pts |-> pts, finished |-> FALSE])
  /\ UNCHANGED <<db_pts_, offset_, ready_i_, mode, start, base, kept, inits>>

(* set_pts with a valid pts, which only goes up, or a change of no pts.     *)
AddPts ==
  /\ \E pts \in {0} \cup 1..MaxPts : (pts = 0 \/ pts >= mem_pts_) /\ add_pts(pts)
  /\ UNCHANGED saving

(* set_pts with the invalid pts: the saved one is dropped at once, the new  *)
(* one is numbered behind the changes under way, and getState is sent.      *)
InvalidatePts == add_pts(InvalidPts) /\ Erase

ReadyEnd_IgnoresGaps(array) == Len(array)

(* The loop of ChangesProcessor::finish stops at the first unfinished cell. *)
ReadyEnd(array) ==
  CHOOSE k \in ready_i_..Len(array) :
    /\ \A i \in (ready_i_ + 1)..k : array[i].finished
    /\ k = Len(array) \/ ~array[k + 1].finished

(* The callback of PtsManager::finish, over the cells from ready_i_ to k.   *)
Checkpoint(array, k) ==
  LET cells == {i \in (ready_i_ + 1)..k : array[i].pts # 0}
  IN  IF cells = {} THEN db_pts_
      ELSE array[CHOOSE i \in cells : \A j \in cells : j <= i].pts

try_compactify_KeepsOffset(array, k) ==
  IF k > CompactMin /\ k * 2 > Len(array)
    THEN /\ data_array_' = SubSeq(array, k + 1, Len(array))
         /\ ready_i_' = 0 /\ UNCHANGED offset_
    ELSE data_array_' = array /\ ready_i_' = k /\ UNCHANGED offset_

try_compactify(array, k) ==
  IF k > CompactMin /\ k * 2 > Len(array)
    THEN /\ data_array_' = SubSeq(array, k + 1, Len(array))
         /\ offset_' = offset_ + k
         /\ ready_i_' = 0
    ELSE data_array_' = array /\ ready_i_' = k /\ UNCHANGED offset_

(* finish ignores a token whose cell is gone: pos is unsigned.              *)
HasCell(token) == offset_ <= token /\ token < offset_ + Len(data_array_)

Finished(cell) == [pts |-> cell.pts, finished |-> TRUE]

Marked(token) == [data_array_ EXCEPT ![token - offset_ + 1] = Finished(@)]

(* on_pts_ack: the promise of a change is set, or destroyed, and its event  *)
(* reaches the actor.  A change that init has forgotten may still finish.   *)
on_pts_ack(token) ==
  /\ token \in promises /\ ~aborted
  /\ promises' = promises \ {token}
  /\ IF HasCell(token)
       THEN LET array == Marked(token)
                k     == ReadyEnd(array)
                new_pts == Checkpoint(array, k)
            IN  /\ db_pts_' = new_pts
                /\ try_compactify(array, k)
                /\ IF new_pts # db_pts_ THEN save_pts(new_pts) ELSE UNCHANGED saving
       ELSE UNCHANGED <<db_pts_, processor, saving>>
  /\ log' = IF token >= base THEN [log EXCEPT ![token - base + 1] = Finished(@)] ELSE log
  /\ UNCHANGED <<mem_pts_, mode, start, base, kept, inits>>

(* ChangesProcessor::clear: the tokens given out stay behind offset_.       *)
clear == offset_' = offset_ + Len(data_array_)

(* init, and the history variables that start anew with it.                 *)
init(pts) ==
  /\ inits < MaxInits
  /\ db_pts_' = pts /\ mem_pts_' = pts
  /\ clear /\ ready_i_' = 0 /\ data_array_' = <<>>
  /\ start' = pts /\ base' = offset_' /\ log' = <<>> /\ inits' = inits + 1

(* on_get_updates_state when the pts is invalid: the server's pts is taken  *)
(* and, unless ignored, saved at once, while changes of before may be under *)
(* way.                                                                     *)
Reinit(pts) ==
  /\ mem_pts_ = InvalidPts /\ ~aborted
  /\ init(pts)
  /\ IF ignoring THEN UNCHANGED saving ELSE SaveNow(pts)
  /\ kept' = IF ignoring THEN {stored, pending_pts_} ELSE {}
  /\ UNCHANGED <<promises, mode>>

(* The process ends at any point and init_state of the next one reads the   *)
(* saved pts, which it first drops if background updates are ignored, or if *)
(* a bot without a database was not running for two days.  A new process    *)
(* has a new ChangesProcessor and no promise.                               *)
Restart ==
  /\ inits < MaxInits
  /\ \E drop \in BOOLEAN :
       LET saved == IF drop THEN 0 ELSE stored
           pts   == IF saved = 0 THEN -1 ELSE saved
       IN  /\ ignoring => drop
           /\ drop => ignoring \/ (CanIgnore /\ IsBot)
           /\ stored' = saved /\ db_pts_' = pts /\ mem_pts_' = pts /\ start' = pts
  /\ offset_' = 1 /\ ready_i_' = 0 /\ data_array_' = <<>>
  /\ promises' = {} /\ pending_pts_' = 0 /\ has_timeout' = FALSE
  /\ base' = 1 /\ log' = <<>> /\ kept' = {} /\ inits' = inits + 1
  /\ aborted' = FALSE
  /\ UNCHANGED ignoring

Ack == \E token \in promises : on_pts_ack(token)
ReinitAny == \E pts \in 1..MaxPts : Reinit(pts)

Next ==
  \/ AddPts \/ InvalidatePts \/ Ack \/ timeout_expired \/ OtherTimeout
  \/ SetOption \/ ReinitAny \/ Restart

Spec == Init /\ [][Next]_vars

(* Promises are set sooner or later, and timers fire.                       *)
FairSpec == Spec /\ WF_vars(Ack) /\ WF_vars(timeout_expired)

-----------------------------------------------------------------------------
Change == [pts : Nat, finished : BOOLEAN]

(* Types of the fields of PtsManager, ChangesProcessor and UpdatesManager.  *)
TypeOK ==
  /\ db_pts_ \in Int /\ mem_pts_ \in Int /\ stored \in Int /\ pending_pts_ \in Int
  /\ offset_ \in Nat /\ ready_i_ \in Nat /\ data_array_ \in Seq(Change)
  /\ has_timeout \in BOOLEAN /\ promises \subseteq Nat
  /\ ignoring \in BOOLEAN /\ aborted \in BOOLEAN
  /\ start \in Int /\ base \in Nat /\ log \in Seq(Change) /\ inits \in Nat

(* The value v is the pts of a change that is finished together with all    *)
(* changes begun before it, or the one that the manager started from.       *)
Reached(v) ==
  \/ v = start
  \/ \E i \in 1..Len(log) : log[i].pts = v /\ \A j \in 1..i : log[j].finished

(* PtsManager::finish: db_pts_, the value in the binlog and the value that  *)
(* waits for the timer never pass a change that is not finished, whatever   *)
(* the order of the acknowledgements, the compactions and the calls of init.*)
(* A value that init could not replace, because background updates are      *)
(* ignored, is one of before.                                               *)
NeverPassesUnfinished ==
  /\ Reached(db_pts_)
  /\ \A v \in {stored, pending_pts_} \ {0} : Reached(v) \/ v \in kept

(* "It is about finding mem processed PTS": when every change has finished, *)
(* finish has found the last one; nothing is left behind in the processor.  *)
CatchesUp == (\A i \in 1..Len(log) : log[i].finished) => db_pts_ = mem_pts_

(* save_pts and timeout_expired: if background updates are not ignored and  *)
(* no more changes are begun, the value in the binlog becomes the last one  *)
(* of memory, or is gone if that is invalid.                                *)
EventuallySaved ==
  []~ignoring => []<>(\/ stored = IF mem_pts_ \in {-1, InvalidPts} THEN 0 ELSE mem_pts_
                      \/ Len(log) < MaxChanges)

(* "CHECK(pending_pts_ == 0)" in timeout_expired.  It does not hold if the  *)
(* option is set while a value waits.                                       *)
PendingCleared == ~aborted

-----------------------------------------------------------------------------
(* The inductive invariant.  data_array_ is the end of the history; what    *)
(* lies before ready_i_ is finished and what lies at ready_i_ is not.       *)

(* How much of the history has been passed to finish's callback.            *)
Passed == offset_ - base + ready_i_

(* v is the last checkpoint among the first n changes.                      *)
LastCheckpoint(v, n) ==
  \/ v = start /\ \A i \in 1..n : log[i].pts = 0
  \/ /\ v # 0
     /\ \E i \in 1..n : log[i].pts = v /\ \A j \in (i + 1)..n : log[j].pts = 0

ArrayIsEndOfHistory ==
  /\ base <= offset_ /\ ready_i_ <= Len(data_array_)
  /\ offset_ + Len(data_array_) = base + Len(log)
  /\ \A i \in 1..Len(data_array_) : data_array_[i] = log[offset_ - base + i]

ReadyIsFrontier ==
  /\ \A i \in 1..Passed : log[i].finished
  /\ ready_i_ < Len(data_array_) => ~data_array_[ready_i_ + 1].finished

TokensGiven == \A token \in promises : token < offset_ + Len(data_array_)

(* The processor is a window on the history, db_pts_ is the last checkpoint *)
(* that was passed and mem_pts_ the last one that was added.                *)
IInv ==
  /\ TypeOK
  /\ ArrayIsEndOfHistory /\ ReadyIsFrontier /\ TokensGiven
  /\ LastCheckpoint(db_pts_, Passed)
  /\ LastCheckpoint(mem_pts_, Len(log))
  /\ NeverPassesUnfinished
=============================================================================
