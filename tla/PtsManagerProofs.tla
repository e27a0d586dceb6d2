-------------------------- MODULE PtsManagerProofs --------------------------
(***************************************************************************)
(* Proofs about PtsManager, for every threshold of try_compactify, for bots *)
(* and users, and for any number of changes, calls of init and restarts.   *)
(***************************************************************************)
EXTENDS PtsManager, SequenceTheorems, TLAPS

(* The lemmas on loops and orders; CompactMin does not matter for them.     *)
Lemmas == INSTANCE BinlogLemmas WITH CompactMin <- 1

(* The loop of ChangesProcessor::finish has a well-defined end.             *)
LEMMA ReadyEndProperties ==
  ASSUME NEW array \in Seq(Change), ready_i_ \in Nat, ready_i_ <= Len(array)
  PROVE  LET k == ReadyEnd(array)
         IN  /\ k \in Nat /\ ready_i_ <= k /\ k <= Len(array)
             /\ \A i \in (ready_i_ + 1)..k : array[i].finished
             /\ k < Len(array) => ~array[k + 1].finished
<1> DEFINE P(k) == /\ \A i \in (ready_i_ + 1)..k : array[i].finished
                   /\ k = Len(array) \/ ~array[k + 1].finished
           S == {k \in ready_i_..Len(array) : k = Len(array) \/ ~array[k + 1].finished}
<1>1. Len(array) \in Nat
  OBVIOUS
<1>2. PICK k \in S : \A y \in S : k <= y
  <2>1. Len(array) \in S
    BY <1>1
  <2>2. S \subseteq Nat
    BY <1>1
  <2> QED
    BY <2>1, <2>2, Lemmas!LeastNumber
<1>3. k \in ready_i_..Len(array) /\ P(k)
  <2>1. \A i \in (ready_i_ + 1)..k : i - 1 \in ready_i_..Len(array) /\ i - 1 < k
    BY <1>1
  <2>2. \A i \in (ready_i_ + 1)..k : i - 1 \notin S
    <3> SUFFICES ASSUME NEW i \in (ready_i_ + 1)..k, i - 1 \in S
                 PROVE  FALSE
      OBVIOUS
    <3>1. k <= i - 1
      BY <1>2
    <3>2. k \in Nat /\ i \in Int
      BY <1>1, <1>2
    <3> QED
      BY <3>1, <3>2, <2>1
  <2>3. \A i \in (ready_i_ + 1)..k : array[i].finished
    BY <1>1, <2>1, <2>2
  <2> QED
    BY <1>2, <2>3
<1>4. ReadyEnd(array) = CHOOSE x \in ready_i_..Len(array) : P(x)
  BY DEF ReadyEnd
<1> DEFINE d == ReadyEnd(array)
<1>5. d \in ready_i_..Len(array) /\ P(d)
  BY <1>3, <1>4
<1> QED
  BY <1>1, <1>5

(* What the callback of PtsManager::finish leaves in db_pts_: the pts of    *)
(* the last checkpoint that the loop passed, if it passed one.              *)
LEMMA CheckpointProperties ==
  ASSUME NEW array \in Seq(Change), NEW k \in Nat, ready_i_ \in Nat, k <= Len(array)
  PROVE  \/ /\ Checkpoint(array, k) = db_pts_
            /\ \A i \in (ready_i_ + 1)..k : array[i].pts = 0
         \/ \E i \in (ready_i_ + 1)..k :
              /\ Checkpoint(array, k) = array[i].pts
              /\ array[i].pts # 0
              /\ \A j \in (i + 1)..k : array[j].pts = 0
<1> DEFINE cells == {i \in (ready_i_ + 1)..k : array[i].pts # 0}
           P(i) == \A j \in cells : j <= i
<1>1. CASE cells = {}
  BY <1>1 DEF Checkpoint
<1>2. CASE cells # {}
  <2> DEFINE S == {k - i : i \in cells}
  <2>1. S \subseteq Nat /\ S # {}
    BY <1>2
  <2>2. PICK x \in S : \A y \in S : x <= y
    BY <2>1, Lemmas!LeastNumber
  <2>3. PICK m \in cells : x = k - m
    BY <2>2
  <2>4. P(m)
    <3> SUFFICES ASSUME NEW j \in cells
                 PROVE  j <= m
      OBVIOUS
    <3>1. x <= k - j
      BY <2>2
    <3> QED
      BY <2>3, <3>1
  <2> DEFINE d == CHOOSE i \in cells : P(i)
  <2>5. d \in cells /\ P(d)
    BY <2>3, <2>4
  <2>6. Checkpoint(array, k) = array[d].pts
    BY <1>2 DEF Checkpoint
  <2> HIDE DEF d
  <2>7. \A j \in (d + 1)..k : array[j].pts = 0
    BY <2>5
  <2> QED
    BY <2>5, <2>6, <2>7
<1> QED
  BY <1>1, <1>2

-----------------------------------------------------------------------------
(* The initial state: nothing has been added.                               *)
LEMMA InitIInv ==
  Init => IInv
<1> SUFFICES ASSUME Init
             PROVE  IInv
  OBVIOUS
<1>1. TypeOK
  <2>1. data_array_ \in Seq(Change) /\ log \in Seq(Change) /\ promises \subseteq Nat
    BY DEF Init
  <2>2. has_timeout \in BOOLEAN /\ ignoring \in BOOLEAN /\ aborted \in BOOLEAN
    BY Zenon DEF Init
  <2> QED
    BY <2>1, <2>2 DEF Init, TypeOK
<1>2. Len(log) = 0 /\ Len(data_array_) = 0 /\ Passed = 0
  BY DEF Init, Passed
<1>3. ArrayIsEndOfHistory /\ ReadyIsFrontier /\ TokensGiven
  BY <1>2 DEF Init, ArrayIsEndOfHistory, ReadyIsFrontier, TokensGiven
<1>4. LastCheckpoint(db_pts_, Passed) /\ LastCheckpoint(mem_pts_, Len(log))
  BY <1>2 DEF Init, LastCheckpoint
<1>5. NeverPassesUnfinished
  BY DEF Init, NeverPassesUnfinished, Reached
<1> QED
  BY <1>1, <1>3, <1>4, <1>5 DEF IInv

(* What LastCheckpoint says does not change while the start and the pts of  *)
(* the changes it speaks of do not.                                         *)
LEMMA SameCheckpoint ==
  ASSUME NEW v, NEW n \in Nat, LastCheckpoint(v, n), start' = start,
         \A i \in 1..n : log'[i].pts = log[i].pts
  PROVE  \/ v = start' /\ \A i \in 1..n : log'[i].pts = 0
         \/ /\ v # 0
            /\ \E i \in 1..n : log'[i].pts = v /\ \A j \in (i + 1)..n : log'[j].pts = 0
<1>1. CASE v = start /\ \A i \in 1..n : log[i].pts = 0
  BY <1>1
<1>2. CASE v # 0 /\ \E i \in 1..n : log[i].pts = v /\ \A j \in (i + 1)..n : log[j].pts = 0
  <2>1. PICK i \in 1..n : log[i].pts = v /\ \A j \in (i + 1)..n : log[j].pts = 0
    BY <1>2
  <2>2. \A j \in (i + 1)..n : j \in 1..n
    OBVIOUS
  <2>3. log'[i].pts = v /\ \A j \in (i + 1)..n : log'[j].pts = 0
    BY <2>1, <2>2
  <2> QED
    BY <1>2, <2>3
<1> QED
  BY <1>1, <1>2 DEF LastCheckpoint

(* A change is begun: the history and the array grow by the same cell.  The *)
(* saved value stays, or is dropped because pts is invalid.                 *)
LEMMA AddKeepsIInv ==
  ASSUME IInv, NEW pts \in Nat, add_pts(pts), UNCHANGED saving \/ Erase
  PROVE  IInv'
<1> DEFINE cell == [pts |-> pts, finished |-> FALSE]
<1>1. TypeOK
  BY DEF IInv
<1>2. cell \in Change
  BY DEF Change
<1>3. /\ data_array_' = Append(data_array_, cell) /\ log' = Append(log, cell)
      /\ UNCHANGED <<db_pts_, offset_, ready_i_, ignoring, aborted, start, base, kept, inits>>
      /\ promises' = promises \cup {offset_ + Len(data_array_)}
      /\ mem_pts_' = IF pts > 0 THEN pts ELSE mem_pts_
  BY DEF add_pts, mode
<1>0. /\ has_timeout' = has_timeout
      /\ stored' = stored \/ stored' = 0
      /\ pending_pts_' = pending_pts_ \/ pending_pts_' = 0
  BY DEF saving, Erase
<1> HIDE DEF cell
<1>4. TypeOK'
  <2>1. data_array_' \in Seq(Change) /\ log' \in Seq(Change)
    BY <1>1, <1>2, <1>3 DEF TypeOK
  <2>2. mem_pts_' \in Int /\ stored' \in Int /\ pending_pts_' \in Int
    BY <1>0, <1>1, <1>3 DEF TypeOK
  <2>5. has_timeout' \in BOOLEAN /\ ignoring' \in BOOLEAN /\ aborted' \in BOOLEAN
    BY <1>0, <1>1, <1>3, Zenon DEF TypeOK
  <2>3. offset_ + Len(data_array_) \in Nat
    BY <1>1 DEF TypeOK
  <2>4. promises' \subseteq Nat
    BY <1>1, <1>3, <2>3 DEF TypeOK
  <2> QED
    BY <1>1, <1>3, <2>1, <2>2, <2>4, <2>5 DEF TypeOK
<1>5. /\ Len(log') = Len(log) + 1 /\ log'[Len(log) + 1] = cell
      /\ \A i \in 1..Len(log) : log'[i] = log[i]
  BY <1>1, <1>2, <1>3 DEF TypeOK
<1>6. /\ Len(data_array_') = Len(data_array_) + 1 /\ data_array_'[Len(data_array_) + 1] = cell
      /\ \A i \in 1..Len(data_array_) : data_array_'[i] = data_array_[i]
  BY <1>1, <1>2, <1>3 DEF TypeOK
<1>7. cell.pts = pts /\ ~cell.finished
  BY DEF cell
<1>8. ArrayIsEndOfHistory'
  <2>1. /\ base <= offset_ /\ ready_i_ <= Len(data_array_)
        /\ offset_ + Len(data_array_) = base + Len(log)
        /\ \A i \in 1..Len(data_array_) : data_array_[i] = log[offset_ - base + i]
    BY DEF IInv, ArrayIsEndOfHistory
  <2>2. \A i \in 1..Len(data_array_) : offset_ - base + i \in 1..Len(log)
    BY <1>1, <2>1 DEF TypeOK
  <2>3. \A i \in 1..Len(data_array_) : data_array_'[i] = log'[offset_ - base + i]
    BY <1>5, <1>6, <2>1, <2>2
  <2>4. offset_ - base + (Len(data_array_) + 1) = Len(log) + 1
    <3>1. Len(log) \in Nat /\ Len(data_array_) \in Nat /\ offset_ \in Nat /\ base \in Nat
      BY <1>1 DEF TypeOK
    <3> QED
      BY <2>1, <3>1
  <2>5. \A i \in 1..(Len(data_array_) + 1) : data_array_'[i] = log'[offset_ - base + i]
    <3>1. SUFFICES ASSUME NEW i \in 1..(Len(data_array_) + 1)
                   PROVE  data_array_'[i] = log'[offset_ - base + i]
      OBVIOUS
    <3>2. i \in 1..Len(data_array_) \/ i = Len(data_array_) + 1
      <4>1. Len(data_array_) \in Nat
        BY <1>1 DEF TypeOK
      <4> QED
        BY <3>1, <4>1
    <3>3. CASE i \in 1..Len(data_array_)
      BY <2>3, <3>3
    <3>4. CASE i = Len(data_array_) + 1
      BY <1>5, <1>6, <2>4, <3>4
    <3> QED
      BY <3>2, <3>3, <3>4
  <2>6. base' <= offset_' /\ ready_i_' <= Len(data_array_')
    BY <1>1, <1>3, <1>6, <2>1 DEF TypeOK
  <2>7. offset_' + Len(data_array_') = base' + Len(log')
    <3>1. Len(log) \in Nat /\ Len(data_array_) \in Nat /\ offset_ \in Nat /\ base \in Nat
      BY <1>1 DEF TypeOK
    <3>2. offset_' = offset_ /\ base' = base
      BY <1>3
    <3> QED
      BY <1>5, <1>6, <2>1, <3>1, <3>2
  <2> QED
    BY <1>3, <1>6, <2>5, <2>6, <2>7 DEF ArrayIsEndOfHistory
<1>9. Passed' = Passed /\ Passed \in Nat /\ Passed <= Len(log)
  BY <1>1, <1>3 DEF Passed, IInv, ArrayIsEndOfHistory, TypeOK
<1>10. ReadyIsFrontier'
  <2>1. \A i \in 1..Passed' : log'[i].finished
    BY <1>1, <1>5, <1>9 DEF IInv, ReadyIsFrontier, TypeOK
  <2>2. ready_i_' < Len(data_array_') => ~data_array_'[ready_i_' + 1].finished
    <3>1. CASE ready_i_ < Len(data_array_)
      BY <1>1, <1>3, <1>6, <3>1 DEF IInv, ReadyIsFrontier, TypeOK
    <3>2. CASE ready_i_ = Len(data_array_)
      BY <1>3, <1>6, <1>7, <3>2
    <3> QED
      BY <1>1, <3>1, <3>2 DEF IInv, ArrayIsEndOfHistory, TypeOK
  <2> QED
    BY <2>1, <2>2 DEF ReadyIsFrontier
<1>11. TokensGiven'
  <2>1. \A token \in promises : token \in Nat /\ token < offset_ + Len(data_array_)
    BY <1>1 DEF IInv, TokensGiven, TypeOK
  <2> QED
    BY <1>1, <1>3, <1>6, <2>1 DEF TokensGiven, TypeOK
<1>12. LastCheckpoint(db_pts_, Passed)'
  <2>1. \A i \in 1..Passed : log'[i].pts = log[i].pts
    <3>1. Len(log) \in Nat
      BY <1>1 DEF TypeOK
    <3>2. \A i \in 1..Passed : i \in 1..Len(log)
      BY <1>9, <3>1
    <3> QED
      BY <1>5, <3>2
  <2>2. LastCheckpoint(db_pts_, Passed) /\ start' = start /\ db_pts_' = db_pts_
    BY <1>3 DEF IInv
  <2> HIDE DEF Passed
  <2> QED
    BY <1>9, <2>1, <2>2, SameCheckpoint DEF LastCheckpoint
<1>13. LastCheckpoint(mem_pts_, Len(log))'
  <2>1. CASE pts > 0
    <3>1. mem_pts_' = pts /\ pts # 0
      BY <1>3, <2>1
    <3>2. Len(log) \in Nat
      BY <1>1 DEF TypeOK
    <3> DEFINE n == Len(log) + 1
    <3>3. n \in 1..n /\ \A j \in (n + 1)..n : log'[j].pts = 0
      BY <3>2
    <3>4. log'[n].pts = mem_pts_' /\ Len(log') = n /\ mem_pts_' # 0
      BY <1>5, <1>7, <3>1
    <3> HIDE DEF n
    <3>5. \E i \in 1..n : log'[i].pts = mem_pts_' /\ \A j \in (i + 1)..n : log'[j].pts = 0
      BY <3>3, <3>4
    <3> QED
      BY <3>4, <3>5 DEF LastCheckpoint
  <2>2. CASE pts = 0
    <3> DEFINE m == Len(log)
    <3>1. m \in Nat
      BY <1>1 DEF TypeOK
    <3>2. mem_pts_' = mem_pts_ /\ start' = start
      BY <1>3, <2>2
    <3>3. Len(log') = m + 1 /\ log'[m + 1].pts = 0 /\ \A i \in 1..m : log'[i].pts = log[i].pts
      BY <1>5, <1>7, <2>2
    <3>4. LastCheckpoint(mem_pts_, m)
      BY DEF IInv
    <3> HIDE DEF m
    <3>5. \A i \in Nat : \A j \in (i + 1)..(m + 1) : j \in (i + 1)..m \/ j = m + 1
      BY <3>1
    <3>6. \/ mem_pts_ = start' /\ \A i \in 1..m : log'[i].pts = 0
          \/ /\ mem_pts_ # 0
             /\ \E i \in 1..m : /\ log'[i].pts = mem_pts_
                                /\ \A j \in (i + 1)..m : log'[j].pts = 0
      BY <3>1, <3>2, <3>3, <3>4, SameCheckpoint
    <3>7. CASE mem_pts_ = start' /\ \A i \in 1..m : log'[i].pts = 0
      <4>1. \A i \in 1..(m + 1) : i \in 1..m \/ i = m + 1
        BY <3>1
      <4>2. \A i \in 1..(m + 1) : log'[i].pts = 0
        BY <3>3, <3>7, <4>1
      <4> QED
        BY <3>2, <3>3, <3>7, <4>2 DEF LastCheckpoint
    <3>8. CASE mem_pts_ # 0 /\ \E i \in 1..m : /\ log'[i].pts = mem_pts_
                                               /\ \A j \in (i + 1)..m : log'[j].pts = 0
      <4>1. PICK i \in 1..m : log'[i].pts = mem_pts_ /\ \A j \in (i + 1)..m : log'[j].pts = 0
        BY <3>8
      <4>2. i \in Nat /\ i \in 1..(m + 1)
        BY <3>1
      <4>3. \A j \in (i + 1)..(m + 1) : log'[j].pts = 0
        BY <3>3, <3>5, <4>1, <4>2
      <4> QED
        BY <3>2, <3>3, <3>8, <4>1, <4>2, <4>3 DEF LastCheckpoint
    <3> QED
      BY <3>6, <3>7, <3>8
  <2> QED
    BY <2>1, <2>2
<1>14. \A v : Reached(v) => Reached(v)'
  <2>1. Len(log) \in Nat
    BY <1>1 DEF TypeOK
  <2> SUFFICES ASSUME NEW v, NEW i \in 1..Len(log),
                      log[i].pts = v /\ \A j \in 1..i : log[j].finished
               PROVE  i \in 1..Len(log') /\ log'[i].pts = v /\ \A j \in 1..i : log'[j].finished
    BY <1>3 DEF Reached
  <2>2. \A j \in 1..i : j \in 1..Len(log)
    BY <2>1
  <2> QED
    BY <1>5, <2>1, <2>2
<1>15. NeverPassesUnfinished'
  <2>1. Reached(db_pts_)'
    BY <1>3, <1>14 DEF IInv, NeverPassesUnfinished, Reached
  <2>2. \A v \in {stored', pending_pts_'} \ {0} : v \in {stored, pending_pts_} \ {0}
    BY <1>0
  <2> QED
    BY <1>3, <1>14, <2>1, <2>2, SMTT(40) DEF IInv, NeverPassesUnfinished, Reached
<1> QED
  BY <1>4, <1>8, <1>10, <1>11, <1>12, <1>13, <1>15 DEF IInv

(* Marking one cell of a sequence of changes.                               *)
LEMMA MarkCell ==
  ASSUME NEW s \in Seq(Change), NEW p \in 1..Len(s)
  PROVE  LET t == [s EXCEPT ![p] = Finished(s[p])]
         IN  /\ t \in Seq(Change) /\ Len(t) = Len(s)
             /\ t[p] = Finished(s[p])
             /\ \A i \in 1..Len(s) : i # p => t[i] = s[i]
<1>1. s[p] \in Change
  OBVIOUS
<1>2. Finished(s[p]) \in Change
  BY <1>1 DEF Change, Finished
<1> QED
  BY <1>2, ExceptSeq

(* A finished change is what it was, but for the mark.                      *)
LEMMA FinishedCell ==
  ASSUME NEW c \in Change
  PROVE  Finished(c).pts = c.pts /\ Finished(c).finished
BY DEF Change, Finished

(* What an acknowledgement does to the array and the history: the same      *)
(* change is marked in both, if the array still has it.                     *)
LEMMA MarkBoth ==
  ASSUME TypeOK, ArrayIsEndOfHistory, NEW token \in Nat, HasCell(token),
         log' = IF token >= base THEN [log EXCEPT ![token - base + 1] = Finished(@)] ELSE log
  PROVE  /\ Marked(token) \in Seq(Change) /\ Len(Marked(token)) = Len(data_array_)
         /\ log' \in Seq(Change) /\ Len(log') = Len(log)
         /\ \A i \in 1..Len(log) : /\ log'[i].pts = log[i].pts
                                   /\ log[i].finished => log'[i].finished
         /\ \A i \in 1..Len(data_array_) : Marked(token)[i] = log'[offset_ - base + i]
<1> DEFINE p == token - offset_ + 1
           q == token - base + 1
<1>1. /\ base <= offset_ /\ offset_ + Len(data_array_) = base + Len(log)
      /\ \A i \in 1..Len(data_array_) : data_array_[i] = log[offset_ - base + i]
  BY DEF ArrayIsEndOfHistory
<1>2. /\ offset_ \in Nat /\ base \in Nat /\ data_array_ \in Seq(Change) /\ log \in Seq(Change)
      /\ Len(log) \in Nat /\ Len(data_array_) \in Nat
  BY DEF TypeOK
<1>3. p \in 1..Len(data_array_) /\ q \in 1..Len(log) /\ q = offset_ - base + p /\ token >= base
  BY <1>1, <1>2 DEF HasCell
<1>4. /\ Marked(token) = [data_array_ EXCEPT ![p] = Finished(data_array_[p])]
      /\ log' = [log EXCEPT ![q] = Finished(log[q])]
  BY <1>3 DEF Marked
<1> HIDE DEF p, q
<1>5. /\ Marked(token) \in Seq(Change) /\ Len(Marked(token)) = Len(data_array_)
      /\ Marked(token)[p] = Finished(data_array_[p])
      /\ \A i \in 1..Len(data_array_) : i # p => Marked(token)[i] = data_array_[i]
  <2> DEFINE t == [data_array_ EXCEPT ![p] = Finished(data_array_[p])]
  <2>1. /\ t \in Seq(Change) /\ Len(t) = Len(data_array_)
        /\ t[p] = Finished(data_array_[p])
        /\ \A i \in 1..Len(data_array_) : i # p => t[i] = data_array_[i]
    BY <1>2, <1>3, MarkCell, Zenon
  <2> QED
    BY <1>4, <2>1, Zenon
<1>6. /\ log' \in Seq(Change) /\ Len(log') = Len(log)
      /\ log'[q] = Finished(log[q])
      /\ \A i \in 1..Len(log) : i # q => log'[i] = log[i]
  <2> DEFINE t == [log EXCEPT ![q] = Finished(log[q])]
  <2>1. /\ t \in Seq(Change) /\ Len(t) = Len(log)
        /\ t[q] = Finished(log[q])
        /\ \A i \in 1..Len(log) : i # q => t[i] = log[i]
    BY <1>2, <1>3, MarkCell, Zenon
  <2> QED
    BY <1>4, <2>1, Zenon
<1>7. \A i \in 1..Len(log) : /\ log'[i].pts = log[i].pts
                             /\ log[i].finished => log'[i].finished
  <2>1. Finished(log[q]).pts = log[q].pts /\ Finished(log[q]).finished
    BY <1>2, <1>3, FinishedCell
  <2> QED
    BY <1>2, <1>3, <1>6, <2>1
<1>8. \A i \in 1..Len(data_array_) : Marked(token)[i] = log'[offset_ - base + i]
  <2> SUFFICES ASSUME NEW i \in 1..Len(data_array_)
               PROVE  Marked(token)[i] = log'[offset_ - base + i]
    OBVIOUS
  <2>1. offset_ - base + i \in 1..Len(log)
    BY <1>1, <1>2
  <2>2. CASE i = p
    <3>1. offset_ - base + i = q
      BY <1>3, <2>2
    <3> QED
      BY <1>1, <1>3, <1>5, <1>6, <2>2, <3>1
  <2>3. CASE i # p
    <3>1. offset_ - base + i # q
      BY <1>1, <1>2, <1>3, <2>3
    <3> QED
      BY <1>1, <1>5, <1>6, <2>1, <2>3, <3>1
  <2> QED
    BY <2>2, <2>3
<1> QED
  BY <1>5, <1>6, <1>7, <1>8

(* finish of a change that the array still has.                             *)
LEMMA FinishKeepsIInv ==
  ASSUME IInv, NEW token \in promises, on_pts_ack(token), HasCell(token)
  PROVE  IInv'
<1> DEFINE array == Marked(token)
           k == ReadyEnd(array)
           new_pts == Checkpoint(array, k)
           n == offset_ - base + k
<1>1. TypeOK /\ ArrayIsEndOfHistory /\ ReadyIsFrontier
  BY DEF IInv
<1>2. /\ offset_ \in Nat /\ base \in Nat /\ ready_i_ \in Nat /\ base <= offset_
      /\ data_array_ \in Seq(Change) /\ log \in Seq(Change)
      /\ Len(log) \in Nat /\ Len(data_array_) \in Nat /\ ready_i_ <= Len(data_array_)
      /\ offset_ + Len(data_array_) = base + Len(log) /\ token \in Nat
  BY <1>1 DEF TypeOK, ArrayIsEndOfHistory
<1>3. /\ db_pts_' = new_pts
      /\ try_compactify(array, k)
      /\ IF new_pts # db_pts_ THEN save_pts(new_pts) ELSE UNCHANGED saving
      /\ promises' = promises \ {token}
      /\ UNCHANGED <<mem_pts_, mode, start, base, kept, inits>>
      /\ log' = IF token >= base THEN [log EXCEPT ![token - base + 1] = Finished(@)] ELSE log
  BY DEF on_pts_ack
<1>4. /\ array \in Seq(Change) /\ Len(array) = Len(data_array_)
      /\ log' \in Seq(Change) /\ Len(log') = Len(log)
      /\ \A i \in 1..Len(log) : /\ log'[i].pts = log[i].pts
                                /\ log[i].finished => log'[i].finished
      /\ \A i \in 1..Len(data_array_) : array[i] = log'[offset_ - base + i]
  BY <1>1, <1>2, <1>3, MarkBoth
<1> HIDE DEF array
<1>5. /\ k \in Nat /\ ready_i_ <= k /\ k <= Len(array)
      /\ \A i \in (ready_i_ + 1)..k : array[i].finished
      /\ k < Len(array) => ~array[k + 1].finished
  BY <1>2, <1>4, ReadyEndProperties
<1>6. \/ /\ new_pts = db_pts_
         /\ \A i \in (ready_i_ + 1)..k : array[i].pts = 0
      \/ \E i \in (ready_i_ + 1)..k :
           /\ new_pts = array[i].pts
           /\ array[i].pts # 0
           /\ \A j \in (i + 1)..k : array[j].pts = 0
  BY <1>2, <1>4, <1>5, CheckpointProperties
<1> HIDE DEF k, new_pts
<1>7. n \in Nat /\ n <= Len(log) /\ Passed \in Nat /\ Passed <= n /\ n - Passed = k - ready_i_
  BY <1>2, <1>4, <1>5 DEF Passed
<1>8. \A i \in (Passed + 1)..n : /\ i - (offset_ - base) \in (ready_i_ + 1)..k
                                 /\ i - (offset_ - base) \in 1..Len(data_array_)
                                 /\ log'[i] = array[i - (offset_ - base)]
  <2> SUFFICES ASSUME NEW i \in (Passed + 1)..n
               PROVE  /\ i - (offset_ - base) \in (ready_i_ + 1)..k
                      /\ i - (offset_ - base) \in 1..Len(data_array_)
                      /\ log'[i] = array[i - (offset_ - base)]
    OBVIOUS
  <2>1. i - (offset_ - base) \in (ready_i_ + 1)..k /\ i - (offset_ - base) \in 1..Len(data_array_)
    BY <1>2, <1>4, <1>5 DEF Passed
  <2>2. offset_ - base + (i - (offset_ - base)) = i
    BY <1>2, <1>7
  <2> QED
    BY <1>4, <2>1, <2>2
<1>9. \A i \in 1..n : log'[i].finished
  <2> SUFFICES ASSUME NEW i \in 1..n
               PROVE  log'[i].finished
    OBVIOUS
  <2>1. CASE i <= Passed
    BY <1>1, <1>4, <1>7, <2>1 DEF ReadyIsFrontier
  <2>2. CASE i > Passed
    BY <1>5, <1>7, <1>8, <2>2
  <2> QED
    BY <1>7, <2>1, <2>2
<1>10. offset_' - base' + ready_i_' = n
  <2>1. base' = base
    BY <1>3
  <2>2. \/ offset_' = offset_ + k /\ ready_i_' = 0
        \/ offset_' = offset_ /\ ready_i_' = k
    BY <1>3 DEF try_compactify
  <2>3. offset_ \in Nat /\ base \in Nat /\ k \in Nat
    BY <1>2, <1>5
  <2> QED
    BY <2>1, <2>2, <2>3
<1>11. /\ data_array_' \in Seq(Change) /\ offset_' \in Nat /\ ready_i_' \in Nat
       /\ base' <= offset_' /\ ready_i_' <= Len(data_array_')
       /\ offset_' + Len(data_array_') = base' + Len(log')
       /\ \A i \in 1..Len(data_array_') : data_array_'[i] = log'[offset_' - base' + i]
       /\ ready_i_' < Len(data_array_') => ~data_array_'[ready_i_' + 1].finished
  <2>1. CASE k > CompactMin /\ k * 2 > Len(array)
    <3> DEFINE rest == SubSeq(array, k + 1, Len(array))
    <3>1. data_array_' = rest /\ offset_' = offset_ + k /\ ready_i_' = 0 /\ base' = base
      BY <1>3, <2>1 DEF try_compactify
    <3>2. /\ rest \in Seq(Change) /\ Len(rest) = Len(array) - k
          /\ \A i \in 1..Len(rest) : rest[i] = array[k + i]
      BY <1>4, <1>5, SubSeqProperties
    <3> HIDE DEF rest
    <3>3. \A i \in 1..Len(rest) : rest[i] = log'[offset_ + k - base + i]
      <4> SUFFICES ASSUME NEW i \in 1..Len(rest)
                   PROVE  rest[i] = log'[offset_ + k - base + i]
        OBVIOUS
      <4>1. k + i \in 1..Len(data_array_) /\ offset_ - base + (k + i) = offset_ + k - base + i
        BY <1>2, <1>4, <1>5, <3>2
      <4> QED
        BY <1>4, <3>2, <4>1
    <3>4. 0 < Len(rest) => ~rest[1].finished
      <4> HAVE 0 < Len(rest)
      <4>1. Len(rest) \in Nat /\ Len(array) \in Nat
        BY <1>4, <3>2
      <4>2. 1 \in 1..Len(rest) /\ k < Len(array)
        BY <1>5, <3>2, <4>1
      <4> QED
        BY <1>5, <3>2, <4>2
    <3>5. Len(rest) = Len(data_array_) - k /\ Len(log') = Len(log)
      BY <1>4, <3>2
    <3>6. /\ (offset_ + k) + (Len(data_array_) - k) = base + Len(log)
          /\ offset_ + k \in Nat /\ base <= offset_ + k /\ 0 <= Len(data_array_) - k
      <4>1. k <= Len(data_array_)
        BY <1>4, <1>5
      <4> QED
        BY <1>2, <1>5, <4>1
    <3>7. ready_i_' < Len(data_array_') => ~data_array_'[ready_i_' + 1].finished
      BY <3>1, <3>4
    <3>8. \A i \in 1..Len(data_array_') : data_array_'[i] = log'[offset_' - base' + i]
      <4> SUFFICES ASSUME NEW i \in 1..Len(rest)
                   PROVE  rest[i] = log'[offset_' - base' + i]
        BY <3>1
      <4>1. offset_' - base' + i = offset_ + k - base + i
        BY <1>2, <1>5, <3>1
      <4> QED
        BY <3>3, <4>1
    <3>9. /\ base' <= offset_' /\ ready_i_' <= Len(data_array_')
          /\ offset_' + Len(data_array_') = base' + Len(log')
      BY <3>1, <3>5, <3>6
    <3> QED
      BY <3>1, <3>2, <3>6, <3>7, <3>8, <3>9
  <2>2. CASE ~(k > CompactMin /\ k * 2 > Len(array))
    <3>1. data_array_' = array /\ offset_' = offset_ /\ ready_i_' = k /\ base' = base
      BY <1>3, <2>2 DEF try_compactify
    <3> QED
      BY <1>2, <1>4, <1>5, <3>1
  <2> QED
    BY <2>1, <2>2
<1>12. ArrayIsEndOfHistory' /\ ReadyIsFrontier'
  BY <1>9, <1>10, <1>11 DEF ArrayIsEndOfHistory, ReadyIsFrontier, Passed
<1>13. new_pts \in Int
  <2>1. CASE new_pts = db_pts_
    BY <1>1, <2>1 DEF TypeOK
  <2>2. CASE \E i \in (ready_i_ + 1)..k : new_pts = array[i].pts
    <3>1. PICK i \in (ready_i_ + 1)..k : new_pts = array[i].pts
      BY <2>2
    <3>2. i \in 1..Len(array)
      BY <1>2, <1>4, <1>5
    <3>3. array[i] \in Change
      BY <1>4, <3>2
    <3> QED
      BY <3>1, <3>3 DEF Change
  <2> QED
    BY <1>6, <2>1, <2>2
<1>14. /\ stored' = stored \/ stored' = new_pts \/ stored' = 0
       /\ pending_pts_' = pending_pts_ \/ pending_pts_' = new_pts \/ pending_pts_' = 0
       /\ has_timeout' = has_timeout \/ has_timeout' = TRUE
  BY <1>3 DEF save_pts, saving, Erase, SaveNow, SaveLater
<1>15. TypeOK'
  <2>1. has_timeout' \in BOOLEAN /\ ignoring' \in BOOLEAN /\ aborted' \in BOOLEAN
    BY <1>1, <1>3, <1>14, Zenon DEF TypeOK, mode
  <2>2. stored' \in Int /\ pending_pts_' \in Int /\ db_pts_' \in Int
    BY <1>1, <1>3, <1>13, <1>14 DEF TypeOK
  <2>3. promises' \subseteq Nat
    BY <1>1, <1>3 DEF TypeOK
  <2> QED
    BY <1>1, <1>3, <1>4, <1>11, <2>1, <2>2, <2>3 DEF TypeOK
<1>16. TokensGiven'
  <2>1. offset_' + Len(data_array_') = offset_ + Len(data_array_)
    BY <1>2, <1>3, <1>4, <1>11
  <2> QED
    BY <1>3, <2>1 DEF IInv, TokensGiven
<1>17. /\ LastCheckpoint(db_pts_, Passed)'
       /\ LastCheckpoint(mem_pts_, Len(log))'
  <2>1. \A i \in 1..Passed : log'[i].pts = log[i].pts
    BY <1>4, <1>7
  <2>2. LastCheckpoint(db_pts_, Passed) /\ LastCheckpoint(mem_pts_, Len(log)) /\ start' = start
    BY <1>3 DEF IInv
  <2> DEFINE Last(v, m) == \/ v = start' /\ \A i \in 1..m : log'[i].pts = 0
                           \/ /\ v # 0
                              /\ \E i \in 1..m : log'[i].pts = v /\ \A j \in (i + 1)..m : log'[j].pts = 0
  <2>3. Last(db_pts_, Passed)
    BY <1>7, <2>1, <2>2, SameCheckpoint
  <2>4. Last(mem_pts_, Len(log))
    <3>1. \A i \in 1..Len(log) : log'[i].pts = log[i].pts
      BY <1>4
    <3>2. Len(log) \in Nat
      BY <1>2
    <3> QED
      BY <2>2, <3>1, <3>2, SameCheckpoint
  <2>5. Last(new_pts, n)
    <3>1. CASE /\ new_pts = db_pts_
               /\ \A i \in (ready_i_ + 1)..k : array[i].pts = 0
      <4>1. \A i \in (Passed + 1)..n : log'[i].pts = 0
        BY <1>8, <3>1
      <4> QED
        BY <1>7, <2>3, <3>1, <4>1
    <3>2. CASE \E i \in (ready_i_ + 1)..k :
                 /\ new_pts = array[i].pts
                 /\ array[i].pts # 0
                 /\ \A j \in (i + 1)..k : array[j].pts = 0
      <4>1. PICK i \in (ready_i_ + 1)..k :
                 /\ new_pts = array[i].pts
                 /\ array[i].pts # 0
                 /\ \A j \in (i + 1)..k : array[j].pts = 0
        BY <3>2
      <4> DEFINE m == i + (offset_ - base)
      <4>2. m \in (Passed + 1)..n /\ m \in 1..n /\ m - (offset_ - base) = i
        BY <1>2, <1>5, <1>7 DEF Passed
      <4>3. log'[m] = array[i]
        BY <1>8, <4>2
      <4>4. \A j \in (m + 1)..n : j \in (Passed + 1)..n /\ j - (offset_ - base) \in (i + 1)..k
        BY <1>2, <1>5, <1>7, <4>2 DEF Passed
      <4> HIDE DEF m
      <4>5. \A j \in (m + 1)..n : log'[j].pts = 0
        BY <1>8, <4>1, <4>4
      <4> QED
        BY <4>1, <4>2, <4>3, <4>5
    <3> QED
      BY <1>6, <3>1, <3>2
  <2>6. Passed' = n /\ db_pts_' = new_pts /\ mem_pts_' = mem_pts_ /\ Len(log') = Len(log)
    BY <1>3, <1>4, <1>10 DEF Passed
  <2> HIDE DEF n
  <2> QED
    BY <2>4, <2>5, <2>6 DEF LastCheckpoint
<1>18. NeverPassesUnfinished'
  <2> DEFINE Later(v) == \/ v = start'
                         \/ \E i \in 1..Len(log') : log'[i].pts = v /\ \A j \in 1..i : log'[j].finished
  <2>1. \A v : Reached(v) => Later(v)
    <3> SUFFICES ASSUME NEW v, NEW i \in 1..Len(log),
                        log[i].pts = v /\ \A j \in 1..i : log[j].finished
                 PROVE  log'[i].pts = v /\ \A j \in 1..i : log'[j].finished
      BY <1>3, <1>4, SMTT(40) DEF Reached
    <3>1. \A j \in 1..i : j \in 1..Len(log)
      BY <1>2
    <3> QED
      BY <1>4, <3>1
  <2>2. Later(db_pts_')
    <3>1. LastCheckpoint(db_pts_, Passed)' /\ Passed' = n
      BY <1>10, <1>17 DEF Passed
    <3>2. \A i \in 1..n : i \in 1..Len(log') /\ \A j \in 1..i : j \in 1..n
      BY <1>2, <1>4, <1>7
    <3> HIDE DEF n
    <3> QED
      BY <1>9, <3>1, <3>2 DEF LastCheckpoint
  <2>3. \A v \in {stored, pending_pts_} \ {0} : Later(v) \/ v \in kept
    BY <2>1 DEF IInv, NeverPassesUnfinished
  <2>4. Later(new_pts) /\ kept' = kept
    BY <1>3, <2>2
  <2> HIDE DEF Later, new_pts
  <2>5. \A v \in {stored', pending_pts_'} \ {0} : Later(v) \/ v \in kept'
    BY <1>14, <2>3, <2>4
  <2> USE DEF Later
  <2> QED
    BY <2>2, <2>5 DEF NeverPassesUnfinished, Reached
<1> QED
  BY <1>12, <1>15, <1>16, <1>17, <1>18 DEF IInv

(* finish of a change that clear or try_compactify has dropped: the token   *)
(* lies before offset_ and the history has the change as finished.          *)
LEMMA StaleAckKeepsIInv ==
  ASSUME IInv, NEW token \in promises, on_pts_ack(token), ~HasCell(token)
  PROVE  IInv'
<1>1. TypeOK /\ ArrayIsEndOfHistory /\ ReadyIsFrontier /\ TokensGiven
  BY DEF IInv
<1>2. /\ offset_ \in Nat /\ base \in Nat /\ ready_i_ \in Nat /\ base <= offset_
      /\ log \in Seq(Change) /\ Len(log) \in Nat /\ Len(data_array_) \in Nat
      /\ ready_i_ <= Len(data_array_)
      /\ offset_ + Len(data_array_) = base + Len(log)
      /\ token \in Nat /\ token < offset_ + Len(data_array_)
  BY <1>1 DEF TypeOK, ArrayIsEndOfHistory, TokensGiven
<1>3. token < offset_
  BY <1>2 DEF HasCell
<1>4. log' = log
  <2>1. CASE token >= base
    <3> DEFINE q == token - base + 1
    <3>1. q \in 1..Passed /\ q \in 1..Len(log)
      BY <1>2, <1>3, <2>1 DEF Passed
    <3>2. log[q].finished /\ log[q] \in Change
      BY <1>1, <1>2, <3>1 DEF ReadyIsFrontier
    <3>3. Finished(log[q]) = log[q]
      BY <3>2 DEF Finished, Change
    <3>4. log' = [log EXCEPT ![q] = log[q]]
      BY <2>1, <3>3 DEF on_pts_ack
    <3> HIDE DEF q
    <3> QED
      BY <1>2, <3>1, <3>4
  <2>2. CASE ~(token >= base)
    BY <2>2 DEF on_pts_ack
  <2> QED
    BY <2>1, <2>2
<1>5. /\ UNCHANGED <<db_pts_, processor, saving, mem_pts_, mode, start, base, kept, inits>>
      /\ promises' = promises \ {token}
  BY DEF on_pts_ack
<1>6. TypeOK'
  <2>1. promises' \subseteq Nat
    BY <1>1, <1>5 DEF TypeOK
  <2> QED
    BY <1>1, <1>4, <1>5, <2>1 DEF TypeOK, processor, saving, mode
<1>7. ArrayIsEndOfHistory' /\ ReadyIsFrontier'
  BY <1>1, <1>4, <1>5 DEF ArrayIsEndOfHistory, ReadyIsFrontier, Passed, processor
<1>8. TokensGiven'
  BY <1>1, <1>5 DEF TokensGiven, processor
<1>9. /\ LastCheckpoint(db_pts_, Passed)' /\ LastCheckpoint(mem_pts_, Len(log))'
      /\ NeverPassesUnfinished'
  BY <1>4, <1>5 DEF IInv, LastCheckpoint, Passed, NeverPassesUnfinished, Reached, processor, saving
<1> QED
  BY <1>6, <1>7, <1>8, <1>9 DEF IInv

(* The manager starts anew from pts, with an empty processor.               *)
LEMMA FreshIInv ==
  ASSUME IInv, NEW pts \in Int,
         db_pts_' = pts, mem_pts_' = pts, stored' \in Int, pending_pts_' \in Int,
         \A v \in {stored', pending_pts_'} \ {0} : v = pts \/ v \in kept',
         offset_' \in Nat, ready_i_' = 0, data_array_' = <<>>,
         has_timeout' \in BOOLEAN, ignoring' \in BOOLEAN, aborted' \in BOOLEAN,
         start' = pts, base' = offset_', log' = <<>>,
         inits' = inits + 1, promises' \subseteq Nat,
         \A token \in promises' : token < offset_'
  PROVE  IInv'
<1>1. TypeOK'
  <2>1. data_array_' \in Seq(Change) /\ log' \in Seq(Change)
    OBVIOUS
  <2>2. inits' \in Nat
    BY DEF IInv, TypeOK
  <2> QED
    BY <2>1, <2>2 DEF TypeOK
<1>2. Len(log') = 0 /\ Len(data_array_') = 0 /\ Passed' = 0
  <2>1. Passed' = offset_' - base' + ready_i_'
    BY DEF Passed
  <2>2. \A o \in Nat : o - o + 0 = 0
    OBVIOUS
  <2> QED
    BY <2>1, <2>2
<1>3. ArrayIsEndOfHistory' /\ ReadyIsFrontier'
  BY <1>2 DEF ArrayIsEndOfHistory, ReadyIsFrontier
<1>6. TokensGiven'
  <2>1. \A o \in Nat : o + 0 = o
    OBVIOUS
  <2> QED
    BY <1>2, <2>1 DEF TokensGiven
<1>4. LastCheckpoint(db_pts_, Passed)' /\ LastCheckpoint(mem_pts_, Len(log))'
  BY <1>2 DEF LastCheckpoint
<1>5. NeverPassesUnfinished'
  BY DEF NeverPassesUnfinished, Reached
<1> QED
  BY <1>1, <1>3, <1>4, <1>5, <1>6 DEF IInv

-----------------------------------------------------------------------------
(* Every step keeps the invariant.                                          *)
LEMMA NextKeepsIInv ==
  IInv /\ [Next]_vars => IInv'
<1> SUFFICES ASSUME IInv, [Next]_vars
             PROVE  IInv'
  OBVIOUS
<1> USE PtsAssumption
<1>1. TypeOK /\ TokensGiven
  BY DEF IInv
<1>2. CASE AddPts
  <2>1. PICK pts \in {0} \cup 1..MaxPts : add_pts(pts)
    BY <1>2 DEF AddPts
  <2>2. pts \in Nat /\ UNCHANGED saving
    BY <1>2 DEF AddPts
  <2> QED
    BY <2>1, <2>2, AddKeepsIInv
<1>3. CASE InvalidatePts
  BY <1>3, AddKeepsIInv DEF InvalidatePts
<1>4. CASE Ack
  BY <1>4, FinishKeepsIInv, StaleAckKeepsIInv DEF Ack
<1>5. CASE timeout_expired \/ OtherTimeout \/ SetOption
  <2>1. /\ UNCHANGED <<db_pts_, mem_pts_, offset_, ready_i_, data_array_, promises, start, base,
                       log, kept, inits>>
        /\ (stored' = stored) \/ (stored' = pending_pts_)
        /\ (pending_pts_' = pending_pts_) \/ (pending_pts_' = 0)
    BY <1>5 DEF timeout_expired, OtherTimeout, SetOption, processor, saving
  <2>2. has_timeout' \in BOOLEAN /\ ignoring' \in BOOLEAN /\ aborted' \in BOOLEAN
    <3>1. has_timeout \in BOOLEAN /\ ignoring \in BOOLEAN /\ aborted \in BOOLEAN
      BY <1>1, Zenon DEF TypeOK
    <3>2. CASE timeout_expired
      BY <3>1, <3>2, Zenon DEF timeout_expired, saving
    <3>3. CASE OtherTimeout
      BY <3>1, <3>3, Zenon DEF OtherTimeout, mode
    <3>4. CASE SetOption
      BY <3>1, <3>4, Zenon DEF SetOption, saving
    <3> QED
      BY <1>5, <3>2, <3>3, <3>4
  <2>3. TypeOK'
    BY <1>1, <2>1, <2>2 DEF TypeOK
  <2>4. NeverPassesUnfinished'
    BY <2>1 DEF IInv, NeverPassesUnfinished, Reached
  <2> QED
    BY <2>1, <2>3, <2>4
    DEF IInv, ArrayIsEndOfHistory, ReadyIsFrontier, TokensGiven, Passed, LastCheckpoint
<1>6. CASE ReinitAny
  <2>1. PICK pts \in 1..MaxPts : Reinit(pts)
    BY <1>6 DEF ReinitAny
  <2>2. offset_' = offset_ + Len(data_array_) /\ offset_' \in Nat /\ promises' = promises
    BY <1>1, <2>1 DEF Reinit, init, clear, TypeOK
  <2>3. \A token \in promises' : token < offset_'
    BY <1>1, <2>2 DEF TokensGiven
  <2>4. pts \in Int /\ promises' \subseteq Nat
    BY <1>1, <2>1 DEF Reinit, TypeOK
  <2>5. has_timeout' \in BOOLEAN /\ ignoring' \in BOOLEAN /\ aborted' \in BOOLEAN
    BY <1>1, <2>1, Zenon DEF Reinit, SaveNow, saving, mode, TypeOK
  <2>6. /\ stored' \in Int /\ pending_pts_' \in Int
        /\ \A v \in {stored', pending_pts_'} \ {0} : v = pts \/ v \in kept'
    BY <1>1, <2>1 DEF Reinit, SaveNow, saving, TypeOK
  <2> QED
    BY <2>1, <2>2, <2>3, <2>4, <2>5, <2>6, FreshIInv DEF Reinit, init
<1>7. CASE Restart
  <2>1. PICK drop \in BOOLEAN :
          LET saved == IF drop THEN 0 ELSE stored
              pts   == IF saved = 0 THEN -1 ELSE saved
          IN  stored' = saved /\ db_pts_' = pts /\ mem_pts_' = pts /\ start' = pts
    BY <1>7 DEF Restart
  <2> DEFINE new == IF stored' = 0 THEN -1 ELSE stored'
  <2>2. stored' \in Int /\ db_pts_' = new /\ mem_pts_' = new /\ start' = new
    BY <1>1, <2>1 DEF TypeOK
  <2>3. /\ has_timeout' \in BOOLEAN /\ ignoring' \in BOOLEAN /\ aborted' \in BOOLEAN
    BY <1>1, <1>7, Zenon DEF Restart, TypeOK
  <2>4. new \in Int /\ \A v \in {stored', 0} \ {0} : v = new
    BY <2>2
  <2> HIDE DEF new
  <2> QED
    BY <1>7, <2>2, <2>3, <2>4, FreshIInv DEF Restart
<1>8. CASE UNCHANGED vars
  BY <1>8
  DEF vars, processor, saving, mode, IInv, TypeOK, ArrayIsEndOfHistory, ReadyIsFrontier, TokensGiven,
      Passed, LastCheckpoint, NeverPassesUnfinished, Reached
<1> QED
  BY <1>2, <1>3, <1>4, <1>5, <1>6, <1>7, <1>8 DEF Next

(* The inductive invariant holds: the processor's vector is a window on the *)
(* history of changes, finished up to ready_i_ and no further.              *)
THEOREM PtsInvariance == Spec => []IInv
BY InitIInv, NextKeepsIInv, PTL DEF Spec

(* All fields keep their types.                                             *)
THEOREM PtsTypeCorrect == Spec => []TypeOK
<1>1. IInv => TypeOK
  BY DEF IInv
<1> QED
  BY PtsInvariance, <1>1, PTL

(* db_pts_, the value in the binlog and the one that waits for the timer    *)
(* never pass an unfinished change.                                         *)
THEOREM SavedSafely == Spec => []NeverPassesUnfinished
<1>1. IInv => NeverPassesUnfinished
  BY DEF IInv
<1> QED
  BY PtsInvariance, <1>1, PTL

(* Once all changes are finished, finish has found the last of them.        *)
THEOREM FindsLast == Spec => []CatchesUp
<1>1. IInv => CatchesUp
  <2> SUFFICES ASSUME IInv, \A i \in 1..Len(log) : log[i].finished
               PROVE  db_pts_ = mem_pts_
    BY DEF CatchesUp
  <2>1. /\ offset_ \in Nat /\ base \in Nat /\ ready_i_ \in Nat /\ base <= offset_
        /\ Len(log) \in Nat /\ Len(data_array_) \in Nat /\ ready_i_ <= Len(data_array_)
        /\ offset_ + Len(data_array_) = base + Len(log)
    BY DEF IInv, TypeOK, ArrayIsEndOfHistory
  <2>2. ready_i_ = Len(data_array_)
    <3> SUFFICES ASSUME ready_i_ < Len(data_array_)
                 PROVE  FALSE
      BY <2>1
    <3>1. ready_i_ + 1 \in 1..Len(data_array_) /\ offset_ - base + (ready_i_ + 1) \in 1..Len(log)
      BY <2>1
    <3> QED
      BY <3>1 DEF IInv, ArrayIsEndOfHistory, ReadyIsFrontier
  <2>3. Passed = Len(log)
    BY <2>1, <2>2 DEF Passed
  <2>4. LastCheckpoint(db_pts_, Len(log)) /\ LastCheckpoint(mem_pts_, Len(log))
    BY <2>3 DEF IInv
  <2>5. ASSUME NEW v, NEW w, LastCheckpoint(v, Len(log)), LastCheckpoint(w, Len(log))
        PROVE  v = w
    BY <2>1, <2>5 DEF LastCheckpoint
  <2> QED
    BY <2>4, <2>5
<1> QED
  BY PtsInvariance, <1>1, PTL
=============================================================================
