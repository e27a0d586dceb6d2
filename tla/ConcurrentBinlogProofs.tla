----------------------- MODULE ConcurrentBinlogProofs -----------------------
(***************************************************************************)
(* Proofs about OrderedEventsProcessor and ConcurrentBinlog.               *)
(*                                                                         *)
(* OrderedEventsProcessor, for every first number, any number of events    *)
(* and every threshold of try_compactify: the flags of its vector are      *)
(* those of the events that wait, and the class implements                 *)
(* OrderedDelivery.                                                        *)
(*                                                                         *)
(* ConcurrentBinlog, whose actor has such a processor (begin, end and      *)
(* slots are OrderedDelivery's), for any set of threads and any bounds.    *)
(* The inductive invariant follows a sequence number from the counter to   *)
(* the log: it is held by one thread, or in one message of one channel, or *)
(* in the batch being looped over, or in a slot of the processor, or in    *)
(* the log; and it follows a promise the same way, with the relation that  *)
(* its covers[p] has to the place where it is.                             *)
(***************************************************************************)
EXTENDS OrderedEventsProcessor, ConcurrentBinlog, SequenceTheorems, TLAPS

(* The lemmas on loops and orders; CompactMin does not matter for them.     *)
Lemmas == INSTANCE BinlogLemmas WITH CompactMin <- 1

LEMMA SameDrainTo == \A b, e, waiting : Lemmas!DrainTo(b, e, waiting) = DrainTo(b, e, waiting)
BY DEF DrainTo, Lemmas!DrainTo, Larger, Lemmas!Larger

-----------------------------------------------------------------------------
(* OrderedEventsProcessor.                                                  *)

Cells == [first : Nat, second : BOOLEAN]

(* The members of the class: the vector reaches from offset_ to end_ when   *)
(* events wait in it, and is of any length when it is drained.              *)
Vector ==
  /\ offset_ \in Nat /\ begin_ \in Nat /\ end_ \in Nat
  /\ offset_ <= begin_ /\ begin_ <= end_
  /\ data_array_ \in Seq(Cells)
  /\ begin_ < end_ => end_ - offset_ <= Len(data_array_)

History == first \in Nat /\ first <= begin_ /\ added \subseteq first..MaxSeqNo

OrderedIInv == Vector /\ History /\ FlagsAreWaiting

(* The events that wait, by their numbers.                                  *)
Early == {n \in added : n > begin_}

-----------------------------------------------------------------------------
(* Where the loop of add() stops, for every vector: all numbers below it    *)
(* have their flag set and its own is not set, or it is the end.            *)
LEMMA LoopEndProperties ==
  ASSUME begin_ \in Nat, end_ \in Nat, begin_ <= end_
  PROVE  /\ LoopEnd \in Nat /\ begin_ < LoopEnd
         /\ LoopEnd <= end_ \/ LoopEnd = begin_ + 1
         /\ \A j \in (begin_ + 1)..(LoopEnd - 1) : Cell(j).second
         /\ LoopEnd >= end_ \/ ~Cell(LoopEnd).second
<1> DEFINE last == IF end_ > begin_ THEN end_ ELSE begin_ + 1
           P(k) == /\ \A j \in (begin_ + 1)..(k - 1) : Cell(j).second
                   /\ k >= end_ \/ ~Cell(k).second
           S == {k \in (begin_ + 1)..last : k >= end_ \/ ~Cell(k).second}
<1>1. last \in Nat /\ begin_ < last /\ end_ <= last /\ (last = end_ \/ last = begin_ + 1)
  OBVIOUS
<1> HIDE DEF last
<1>2. PICK k \in S : \A y \in S : k <= y
  <2>1. last \in S
    BY <1>1
  <2>2. S \subseteq Nat
    BY <1>1
  <2> QED
    BY <2>1, <2>2, Lemmas!LeastNumber
<1>3. k \in (begin_ + 1)..last /\ P(k)
  <2>1. k \in (begin_ + 1)..last /\ k \in Nat
    BY <1>1, <1>2
  <2>2. ASSUME NEW j \in (begin_ + 1)..(k - 1)
        PROVE  Cell(j).second
    <3>1. j \in (begin_ + 1)..last /\ j < k
      BY <1>1, <2>1
    <3>2. j \notin S
      BY <1>2, <2>1, <3>1
    <3> QED
      BY <3>1, <3>2
  <2> QED
    BY <1>2, <2>1, <2>2
<1>4. LoopEnd = CHOOSE x \in (begin_ + 1)..last : P(x)
  BY DEF LoopEnd, last
<1>5. LoopEnd \in (begin_ + 1)..last /\ P(LoopEnd)
  BY <1>3, <1>4
<1> HIDE DEF LoopEnd
<1> QED
  BY <1>1, <1>5

(* What the invariant says of a cell.                                       *)
LEMMA CellsOfNumbers ==
  ASSUME OrderedIInv
  PROVE  /\ added \subseteq Nat
         /\ \A n \in added : n < end_ /\ n # begin_
         /\ \A n \in Early : /\ n \in (begin_ + 1)..(end_ - 1)
                             /\ n - offset_ + 1 \in 1..Len(data_array_)
                             /\ Cell(n) = [first |-> n, second |-> TRUE]
         /\ \A n \in (begin_ + 1)..(end_ - 1) :
              /\ n - offset_ + 1 \in 1..Len(data_array_)
              /\ Cell(n).second => n \in added
<1>1. added \subseteq Nat /\ begin_ \in Nat /\ end_ \in Nat /\ offset_ \in Nat
      /\ offset_ <= begin_ /\ begin_ <= end_ /\ Len(data_array_) \in Nat
  BY DEF OrderedIInv, Vector, History
<1>2. \A n \in added :
        n < begin_ \/ (n > begin_ /\ n < end_ /\ Cell(n) = [first |-> n, second |-> TRUE])
  BY DEF OrderedIInv, FlagsAreWaiting
<1>3. \A n \in added : n < end_ /\ n # begin_
  BY <1>1, <1>2
<1>4. ASSUME NEW n \in (begin_ + 1)..(end_ - 1)
      PROVE  n - offset_ + 1 \in 1..Len(data_array_)
  BY <1>1 DEF OrderedIInv, Vector
<1>5. ASSUME NEW n \in Early
      PROVE  n \in (begin_ + 1)..(end_ - 1) /\ Cell(n) = [first |-> n, second |-> TRUE]
  BY <1>1, <1>2 DEF Early
<1>6. ASSUME NEW n \in (begin_ + 1)..(end_ - 1), Cell(n).second
      PROVE  n \in added
  <2>1. n - offset_ + 1 \in DOMAIN data_array_ /\ offset_ + (n - offset_ + 1) - 1 = n
    BY <1>1, <1>4 DEF OrderedIInv, Vector
  <2> QED
    BY <1>6, <2>1 DEF OrderedIInv, FlagsAreWaiting, Cell
<1> QED
  BY <1>1, <1>3, <1>4, <1>5, <1>6

(* The loop passes the events that wait, up to the first missing number.    *)
LEMMA LoopOverAdded ==
  ASSUME OrderedIInv
  PROVE  /\ LoopEnd \in Nat /\ begin_ < LoopEnd
         /\ LoopEnd <= end_ \/ (LoopEnd = begin_ + 1 /\ end_ = begin_)
         /\ \A j \in (begin_ + 1)..(LoopEnd - 1) : j \in added
         /\ LoopEnd \notin added
<1>1. begin_ \in Nat /\ end_ \in Nat /\ begin_ <= end_
  BY DEF OrderedIInv, Vector
<1>2. /\ LoopEnd \in Nat /\ begin_ < LoopEnd
      /\ LoopEnd <= end_ \/ LoopEnd = begin_ + 1
      /\ \A j \in (begin_ + 1)..(LoopEnd - 1) : Cell(j).second
      /\ LoopEnd >= end_ \/ ~Cell(LoopEnd).second
  BY <1>1, LoopEndProperties
<1>3. LoopEnd <= end_ \/ (LoopEnd = begin_ + 1 /\ end_ = begin_)
  BY <1>1, <1>2
<1>4. \A j \in (begin_ + 1)..(LoopEnd - 1) : j \in (begin_ + 1)..(end_ - 1)
  BY <1>1, <1>2, <1>3
<1>5. \A j \in (begin_ + 1)..(LoopEnd - 1) : j \in added
  BY <1>2, <1>4, CellsOfNumbers
<1>6. LoopEnd \notin added
  <2>1. CASE LoopEnd >= end_
    BY <1>1, <1>2, <2>1, CellsOfNumbers
  <2>2. CASE ~Cell(LoopEnd).second
    <3>1. LoopEnd \in added => Cell(LoopEnd) = [first |-> LoopEnd, second |-> TRUE]
      BY <1>2, CellsOfNumbers DEF Early
    <3> QED
      BY <2>2, <3>1
  <2> QED
    BY <1>2, <2>1, <2>2
<1> QED
  BY <1>2, <1>3, <1>5, <1>6

(* The vector after the loop: the flags below b are reset.                  *)
LEMMA ResetProperties ==
  ASSUME OrderedIInv, NEW b \in Nat
  PROVE  /\ Reset(b) \in Seq(Cells) /\ Len(Reset(b)) = Len(data_array_)
         /\ \A i \in 1..Len(data_array_) :
              IF offset_ + i - 1 \in (begin_ + 1)..(b - 1)
                THEN ~Reset(b)[i].second
                ELSE Reset(b)[i] = data_array_[i]
<1>1. data_array_ \in Seq(Cells) /\ Len(data_array_) \in Nat
      /\ DOMAIN data_array_ = 1..Len(data_array_)
  BY DEF OrderedIInv, Vector
<1>2. \A i \in 1..Len(data_array_) : data_array_[i] \in Cells
  BY <1>1
<1>3. \A c \in Cells : [c EXCEPT !.second = FALSE] \in Cells /\ ~[c EXCEPT !.second = FALSE].second
  BY DEF Cells
<1> DEFINE r == Reset(b)
           Value(i) == IF offset_ + i - 1 \in (begin_ + 1)..(b - 1)
                         THEN [data_array_[i] EXCEPT !.second = FALSE]
                         ELSE data_array_[i]
<1>4. r = [i \in 1..Len(data_array_) |-> Value(i)]
  BY <1>1 DEF Reset
<1>5. \A i \in 1..Len(data_array_) : Value(i) \in Cells
  BY <1>2, <1>3
<1> HIDE DEF Value
<1>6. r \in Seq(Cells) /\ Len(r) = Len(data_array_)
  BY <1>1, <1>4, <1>5, IsASeq
<1>7. \A i \in 1..Len(data_array_) : r[i] = Value(i)
  BY <1>4
<1> QED
  BY <1>2, <1>3, <1>6, <1>7 DEF Value

-----------------------------------------------------------------------------
(* add() of the number that everyone waits for keeps the invariant: what is *)
(* left in the vector, compacted or not, are the events above b.            *)
LEMMA RunNowKeepsIInv ==
  ASSUME OrderedIInv, NEW seq_no \in first..MaxSeqNo, seq_no = begin_, seq_no \notin added,
         added' = added \cup {seq_no}, first' = first, RunNow(seq_no)
  PROVE  OrderedIInv'
<1> DEFINE b == LoopEnd
           e == EndAfter(b)
           r == Reset(b)
           o == IF b = e THEN b ELSE offset_
           c == Compacted(r, o, b)
<1> USE ProcessorAssumption
<1>1. /\ offset_ \in Nat /\ begin_ \in Nat /\ end_ \in Nat /\ offset_ <= begin_ /\ begin_ <= end_
      /\ Len(data_array_) \in Nat /\ data_array_ \in Seq(Cells)
      /\ begin_ < end_ => end_ - offset_ <= Len(data_array_)
      /\ first \in Nat /\ first <= begin_ /\ added \subseteq first..MaxSeqNo /\ added \subseteq Nat
  BY DEF OrderedIInv, Vector, History
<1>2. /\ begin_' = b /\ end_' = e /\ data_array_' = c.array /\ offset_' = c.offset
  BY DEF RunNow
<1>3. /\ b \in Nat /\ begin_ < b
      /\ b <= end_ \/ (b = begin_ + 1 /\ end_ = begin_)
      /\ \A j \in (begin_ + 1)..(b - 1) : j \in added
      /\ b \notin added
  BY LoopOverAdded
<1> HIDE DEF b
<1>4. e \in Nat /\ b <= e /\ end_ <= e /\ (b < e => e = end_)
  BY <1>1, <1>3 DEF EndAfter
<1>5. /\ r \in Seq(Cells) /\ Len(r) = Len(data_array_)
      /\ \A i \in 1..Len(data_array_) :
           IF offset_ + i - 1 \in (begin_ + 1)..(b - 1)
             THEN ~r[i].second ELSE r[i] = data_array_[i]
  BY <1>3, ResetProperties
<1> HIDE DEF e, r
<1>6. \A i \in 1..Len(r) : r[i].second =>
        offset_ + i - 1 \in added /\ offset_ + i - 1 >= b /\ offset_ + i - 1 < end_
  <2> SUFFICES ASSUME NEW i \in 1..Len(r), r[i].second
               PROVE  offset_ + i - 1 \in added /\ offset_ + i - 1 >= b /\ offset_ + i - 1 < end_
    OBVIOUS
  <2>1. r[i] = data_array_[i] /\ offset_ + i - 1 \notin (begin_ + 1)..(b - 1)
    BY <1>5
  <2>2. offset_ + i - 1 \in added /\ offset_ + i - 1 \in (begin_ + 1)..(end_ - 1)
    BY <1>1, <1>5, <2>1 DEF OrderedIInv, FlagsAreWaiting
  <2> QED
    BY <1>1, <1>3, <2>1, <2>2
<1>7. \A n \in added : n > b =>
        /\ n < end_ /\ n - offset_ + 1 \in 1..Len(r)
        /\ r[n - offset_ + 1] = [first |-> n, second |-> TRUE]
  <2> SUFFICES ASSUME NEW n \in added, n > b
               PROVE  /\ n < end_ /\ n - offset_ + 1 \in 1..Len(r)
                      /\ r[n - offset_ + 1] = [first |-> n, second |-> TRUE]
    OBVIOUS
  <2>1. n \in Early /\ n \in Nat
    BY <1>1, <1>3 DEF Early
  <2>2. /\ n \in (begin_ + 1)..(end_ - 1) /\ n - offset_ + 1 \in 1..Len(data_array_)
        /\ Cell(n) = [first |-> n, second |-> TRUE]
    BY <2>1, CellsOfNumbers
  <2>3. offset_ + (n - offset_ + 1) - 1 \notin (begin_ + 1)..(b - 1)
    BY <1>1, <1>3, <2>1
  <2> DEFINE k == n - offset_ + 1
  <2>4. k \in 1..Len(data_array_) /\ data_array_[k] = [first |-> n, second |-> TRUE]
    BY <2>2 DEF Cell
  <2>5. r[k] = data_array_[k]
    BY <1>5, <2>3, <2>4
  <2>6. n < end_ /\ k \in 1..Len(r)
    BY <1>1, <1>5, <2>1, <2>2, <2>4
  <2> QED
    BY <2>4, <2>5, <2>6
<1>8. \A n \in (first..MaxSeqNo) \ added' : n >= b
  <2> SUFFICES ASSUME NEW n \in first..MaxSeqNo, n \notin added, n # begin_
               PROVE  n >= b
    OBVIOUS
  <2>1. n >= begin_ /\ n \in Int
    BY <1>1 DEF OrderedIInv, FlagsAreWaiting
  <2>2. n \notin (begin_ + 1)..(b - 1)
    BY <1>3
  <2> QED
    BY <1>1, <1>3, <2>1, <2>2
<1>9. History'
  BY <1>1, <1>2, <1>3 DEF History
<1>10. CASE b = e
  <2>1. c = [array |-> r, offset |-> b]
    BY <1>3, <1>10 DEF Compacted
  <2>2. data_array_' = r /\ offset_' = b
    BY <1>2, <2>1
  <2>3. Vector'
    BY <1>2, <1>3, <1>4, <1>5, <1>10, <2>2 DEF Vector
  <2>4. \A i \in 1..Len(r) : ~r[i].second
    BY <1>1, <1>3, <1>4, <1>6, <1>10
  <2>5. \A n \in added' : n < b
    <3>1. \A n \in added : n < end_ /\ n \in Nat
      BY <1>1, CellsOfNumbers
    <3> QED
      BY <1>1, <1>3, <1>4, <1>10, <3>1
  <2>6. DOMAIN data_array_' = 1..Len(r)
    BY <1>5, <2>2
  <2>7. FlagsAreWaiting'
    BY <1>2, <1>8, <2>2, <2>4, <2>5, <2>6 DEF FlagsAreWaiting
  <2> QED
    BY <1>9, <2>3, <2>7 DEF OrderedIInv
<1>11. CASE b # e
  <2>1. b < e /\ e = end_ /\ begin_ < end_ /\ b < end_
    BY <1>1, <1>3, <1>4, <1>11
  <2> DEFINE p == b - o
  <2>2. o = offset_ /\ p \in Nat /\ p + 1 <= Len(r)
    BY <1>1, <1>3, <1>5, <1>11, <2>1
  <2>3. \E d \in Nat :
          /\ d <= p /\ offset_' = offset_ + d
          /\ data_array_' \in Seq(Cells) /\ Len(data_array_') = Len(r) - d
          /\ \A i \in 1..(Len(r) - d) : data_array_'[i] = r[i + d]
    <3>1. CASE p > CompactMin /\ p * 2 > Len(r)
      <4>1. data_array_' = SubSeq(r, p + 1, Len(r)) /\ offset_' = b
        BY <1>2, <3>1 DEF Compacted
      <4>2. /\ SubSeq(r, p + 1, Len(r)) \in Seq(Cells)
            /\ Len(SubSeq(r, p + 1, Len(r))) = Len(r) - p
            /\ \A i \in 1..(Len(r) - p) : SubSeq(r, p + 1, Len(r))[i] = r[i + p]
        <5>1. Len(r) \in Nat /\ p + 1 \in 1..(Len(r) + 1)
          BY <1>1, <1>5, <2>2
        <5>2. /\ SubSeq(r, p + 1, Len(r)) \in Seq(Cells)
              /\ Len(SubSeq(r, p + 1, Len(r))) = Len(r) - (p + 1) + 1
              /\ \A i \in 1..(Len(r) - (p + 1) + 1) :
                   SubSeq(r, p + 1, Len(r))[i] = r[(p + 1) + i - 1]
          BY <1>5, <2>2, <5>1, SubSeqProperties
        <5> DEFINE s == SubSeq(r, p + 1, Len(r))
        <5> HIDE DEF s, p
        <5>3. Len(r) - (p + 1) + 1 = Len(r) - p
          BY <2>2, <5>1
        <5>4. \A i \in 1..(Len(r) - p) : s[i] = r[i + p]
          <6> SUFFICES ASSUME NEW i \in 1..(Len(r) - p)
                       PROVE  s[i] = r[i + p]
            OBVIOUS
          <6>1. (p + 1) + i - 1 = i + p
            BY <2>2, <5>1
          <6> QED
            BY <5>2, <5>3, <6>1 DEF s
        <5> QED
          BY <5>2, <5>3, <5>4 DEF s
      <4>3. offset_ + p = b /\ p \in Nat /\ p <= p
        BY <1>1, <1>3, <2>2
      <4> HIDE DEF p
      <4> QED
        BY <4>1, <4>2, <4>3
    <3>2. CASE ~(p > CompactMin /\ p * 2 > Len(r))
      <4>1. data_array_' = r /\ offset_' = offset_
        BY <1>2, <2>2, <3>2 DEF Compacted
      <4>2. 0 <= p /\ offset_ + 0 = offset_ /\ Len(r) - 0 = Len(r) /\ \A i \in Int : i + 0 = i
        BY <1>1, <1>5, <2>2
      <4> QED
        BY <1>5, <4>1, <4>2
    <3> QED
      BY <3>1, <3>2
  <2>4. PICK d \in Nat :
          /\ d <= p /\ offset_' = offset_ + d
          /\ data_array_' \in Seq(Cells) /\ Len(data_array_') = Len(r) - d
          /\ \A i \in 1..(Len(r) - d) : data_array_'[i] = r[i + d]
    BY <2>3
  <2>5. offset_ + d <= b /\ Len(r) \in Nat /\ d <= Len(r)
    BY <1>1, <1>3, <1>5, <2>2, <2>4
  <2> HIDE DEF p, o, c
  <2>6. Vector'
    <3>1. end_' - offset_' <= Len(data_array_')
      BY <1>1, <1>2, <1>5, <2>1, <2>4, <2>5
    <3> QED
      BY <1>1, <1>2, <1>3, <1>4, <2>4, <2>5, <3>1 DEF Vector
  <2>7. ASSUME NEW n \in added'
        PROVE  n < b \/ (n > b /\ n < e /\ Cell(n)' = [first |-> n, second |-> TRUE])
    <3>1. CASE n = begin_
      BY <1>3, <3>1
    <3>2. CASE n \in added /\ ~(n < b)
      <4>1. n > b /\ n \in Nat
        BY <1>1, <1>3, <3>2
      <4>2. /\ n < end_ /\ n - offset_ + 1 \in 1..Len(r)
            /\ r[n - offset_ + 1] = [first |-> n, second |-> TRUE]
        BY <1>7, <3>2, <4>1
      <4>3. /\ n - (offset_ + d) + 1 \in 1..(Len(r) - d)
            /\ n - (offset_ + d) + 1 + d = n - offset_ + 1
        BY <1>1, <1>3, <2>5, <4>1, <4>2
      <4>4. data_array_'[n - (offset_ + d) + 1] = r[n - offset_ + 1]
        <5>1. data_array_'[n - (offset_ + d) + 1] = r[n - (offset_ + d) + 1 + d]
          BY <2>4, <4>3, Zenon
        <5> QED
          BY <4>3, <5>1, Zenon
      <4>5. offset_' = offset_ + d
        BY <2>4, Zenon
      <4>6. Cell(n)' = data_array_'[n - (offset_ + d) + 1]
        BY <4>5, Zenon DEF Cell
      <4>7. Cell(n)' = [first |-> n, second |-> TRUE]
        BY <4>2, <4>4, <4>6, Zenon
      <4>8. n < e
        BY <1>1, <1>4, <4>1, <4>2
      <4> QED
        BY <4>1, <4>7, <4>8
    <3> QED
      BY <3>1, <3>2
  <2>8. ASSUME NEW i \in DOMAIN data_array_', data_array_'[i].second
        PROVE  offset_' + i - 1 \in added' /\ offset_' + i - 1 \in (b + 1)..(e - 1)
    <3>1. i \in 1..(Len(r) - d)
      BY <2>4, <2>8
    <3>2. data_array_'[i] = r[i + d]
      BY <2>4, <3>1
    <3>3. i + d \in 1..Len(r) /\ offset_ + (i + d) - 1 = offset_' + i - 1
      BY <1>1, <2>4, <2>5, <3>1
    <3>4. offset_' + i - 1 \in added /\ offset_' + i - 1 >= b /\ offset_' + i - 1 < end_
      BY <1>6, <2>8, <3>2, <3>3
    <3>5. offset_' + i - 1 # b
      BY <1>3, <3>4
    <3> DEFINE x == offset_' + i - 1
    <3>6. x \in Nat /\ x \in added'
      BY <1>1, <3>4
    <3> HIDE DEF x
    <3>7. x >= b /\ x < end_ /\ x # b
      BY <3>4, <3>5 DEF x
    <3>8. x \in (b + 1)..(e - 1)
      BY <1>1, <1>3, <2>1, <3>6, <3>7
    <3> QED
      BY <3>6, <3>8 DEF x
  <2>9. FlagsAreWaiting'
    BY <1>2, <1>8, <2>7, <2>8 DEF FlagsAreWaiting
  <2> QED
    BY <1>9, <2>6, <2>9 DEF OrderedIInv
<1> QED
  BY <1>10, <1>11

(* add() of an early number keeps the invariant: the vector grows as far as *)
(* it must, with unset cells, and the number's own cell is set.             *)
LEMMA StoreKeepsIInv ==
  ASSUME OrderedIInv, NEW seq_no \in first..MaxSeqNo, seq_no # begin_, seq_no \notin added,
         added' = added \cup {seq_no}, first' = first, Store(seq_no)
  PROVE  OrderedIInv'
<1> DEFINE pos  == seq_no - offset_ + 1
           size == IF Len(data_array_) < pos THEN pos ELSE Len(data_array_)
           Value(i) == IF i = pos THEN [first |-> seq_no, second |-> TRUE]
                       ELSE IF i \in DOMAIN data_array_ THEN data_array_[i] ELSE EmptyCell
<1>1. /\ offset_ \in Nat /\ begin_ \in Nat /\ end_ \in Nat /\ offset_ <= begin_ /\ begin_ <= end_
      /\ Len(data_array_) \in Nat /\ data_array_ \in Seq(Cells)
      /\ DOMAIN data_array_ = 1..Len(data_array_)
      /\ begin_ < end_ => end_ - offset_ <= Len(data_array_)
      /\ first \in Nat /\ first <= begin_ /\ added \subseteq first..MaxSeqNo /\ added \subseteq Nat
      /\ MaxSeqNo \in Nat
  BY ProcessorAssumption DEF OrderedIInv, Vector, History
<1>2. /\ data_array_' = [i \in 1..size |-> Value(i)]
      /\ end_' = EndStored(seq_no) /\ offset_' = offset_ /\ begin_' = begin_
  BY DEF Store
<1>3. seq_no \in Nat /\ seq_no > begin_
  BY <1>1 DEF OrderedIInv, FlagsAreWaiting
<1>4. pos \in Nat /\ pos >= 1 /\ size \in Nat /\ pos <= size /\ Len(data_array_) <= size
  BY <1>1, <1>3
<1>5. end_' \in Nat /\ end_ <= end_' /\ seq_no < end_' /\ (end_' = end_ \/ end_' = seq_no + 1)
  BY <1>1, <1>2, <1>3 DEF EndStored
<1>6. end_' - offset_ <= size
  BY <1>1, <1>3, <1>4, <1>5
<1> HIDE DEF size
<1>7. \A i \in 1..size : Value(i) \in Cells
  <2>1. [first |-> seq_no, second |-> TRUE] \in Cells /\ EmptyCell \in Cells
    BY <1>3 DEF Cells, EmptyCell
  <2>2. \A i \in DOMAIN data_array_ : data_array_[i] \in Cells
    BY <1>1
  <2> QED
    BY <2>1, <2>2
<1> HIDE DEF Value
<1>8. data_array_' \in Seq(Cells) /\ Len(data_array_') = size /\ DOMAIN data_array_' = 1..size
  BY <1>2, <1>4, <1>7, IsASeq
<1>9. \A i \in 1..size : data_array_'[i] = Value(i)
  BY <1>2
<1>10. Vector'
  <2>1. offset_' = offset_ /\ begin_' = begin_
    BY <1>2
  <2>2. begin_ <= end_' /\ end_' - offset_' <= Len(data_array_')
    BY <1>1, <1>5, <1>6, <1>8, <2>1
  <2> QED
    BY <1>1, <1>5, <1>8, <2>1, <2>2 DEF Vector
<1>11. History'
  BY <1>1, <1>2 DEF History
<1>12. \A n \in (first'..MaxSeqNo) \ added' : n >= begin_'
  BY <1>1, <1>2 DEF OrderedIInv, FlagsAreWaiting
<1>13. ASSUME NEW n \in added'
       PROVE  \/ n < begin_'
              \/ n > begin_' /\ n < end_' /\ Cell(n)' = [first |-> n, second |-> TRUE]
  <2>1. CASE n = seq_no
    <3>1. pos \in 1..size /\ data_array_'[pos] = [first |-> seq_no, second |-> TRUE]
      <4>1. pos \in 1..size
        BY <1>4
      <4>2. Value(pos) = [first |-> seq_no, second |-> TRUE]
        BY DEF Value
      <4> HIDE DEF pos
      <4> QED
        BY <1>9, <4>1, <4>2
    <3> QED
      BY <1>2, <1>3, <1>5, <2>1, <3>1 DEF Cell
  <2>2. CASE n \in added /\ n # seq_no /\ ~(n < begin_)
    <3>1. n \in Early /\ n \in Nat
      BY <1>1, <2>2, CellsOfNumbers DEF Early
    <3>2. /\ n \in (begin_ + 1)..(end_ - 1) /\ n - offset_ + 1 \in 1..Len(data_array_)
          /\ Cell(n) = [first |-> n, second |-> TRUE]
      BY <3>1, CellsOfNumbers
    <3>3. n - offset_ + 1 \in 1..size /\ n - offset_ + 1 # pos
      BY <1>1, <1>3, <1>4, <2>2, <3>1, <3>2
    <3>4. data_array_'[n - offset_ + 1] = data_array_[n - offset_ + 1]
      BY <1>1, <1>9, <3>2, <3>3 DEF Value
    <3> QED
      BY <1>1, <1>2, <1>5, <3>1, <3>2, <3>4 DEF Cell
  <2> QED
    BY <1>2, <2>1, <2>2
<1>14. ASSUME NEW i \in DOMAIN data_array_', data_array_'[i].second
       PROVE  offset_' + i - 1 \in added' \cap (begin_' + 1)..(end_' - 1)
  <2>1. i \in 1..size /\ Value(i).second
    BY <1>8, <1>9, <1>14
  <2>2. CASE i = pos
    <3>1. offset_ + i - 1 = seq_no
      BY <1>1, <1>3, <2>2
    <3> QED
      BY <1>1, <1>2, <1>3, <1>5, <3>1
  <2>3. CASE i # pos
    <3>1. i \in DOMAIN data_array_ /\ data_array_[i].second
      BY <2>1, <2>3 DEF Value, EmptyCell
    <3>2. offset_ + i - 1 \in added \cap (begin_ + 1)..(end_ - 1)
      BY <3>1 DEF OrderedIInv, FlagsAreWaiting
    <3> DEFINE x == offset_ + i - 1
    <3>3. x \in added /\ x \in (begin_ + 1)..(end_ - 1)
      BY <3>2
    <3> HIDE DEF x
    <3> DEFINE last == end_'
    <3>4. last \in Nat /\ end_ <= last
      BY <1>5
    <3> HIDE DEF last
    <3>5. x \in (begin_ + 1)..(last - 1)
      BY <1>1, <3>3, <3>4
    <3> QED
      BY <1>2, <3>3, <3>5 DEF x, last
  <2> QED
    BY <2>2, <2>3
<1>15. FlagsAreWaiting'
  BY <1>12, <1>13, <1>14 DEF FlagsAreWaiting
<1> QED
  BY <1>10, <1>11, <1>15 DEF OrderedIInv

(* The constructor and clear() establish the invariant: no number is used   *)
(* and the vector is empty.                                                 *)
LEMMA FreshObject ==
  ASSUME NEW o \in Nat, offset_ = o, begin_ = o, end_ = o, data_array_ = <<>>, first = o,
         added = {}
  PROVE  OrderedIInv
<1>1. <<>> \in Seq(Cells) /\ Len(<<>>) = 0 /\ DOMAIN <<>> = {}
  BY EmptySeq
<1>2. Vector /\ History
  BY <1>1 DEF Vector, History
<1>3. \A n \in o..MaxSeqNo : n >= o
  BY ProcessorAssumption
<1>4. FlagsAreWaiting
  BY <1>1, <1>3 DEF FlagsAreWaiting
<1> QED
  BY <1>2, <1>4 DEF OrderedIInv

LEMMA ClearKeepsIInv ==
  ASSUME Clear
  PROVE  OrderedIInv'
<1>1. /\ offset_' = 1 /\ begin_' = 1 /\ end_' = 1 /\ data_array_' = <<>> /\ first' = 1
      /\ added' = {}
  BY DEF Clear
<1>2. <<>> \in Seq(Cells) /\ Len(<<>>) = 0 /\ DOMAIN <<>> = {}
  BY EmptySeq
<1>3. Vector' /\ History'
  BY <1>1, <1>2 DEF Vector, History
<1>4. \A n \in 1..MaxSeqNo : n >= 1
  BY ProcessorAssumption
<1>5. FlagsAreWaiting'
  BY <1>1, <1>2, <1>4 DEF FlagsAreWaiting
<1> QED
  BY <1>3, <1>5 DEF OrderedIInv

(* Every call keeps the invariant.                                          *)
LEMMA NextKeepsIInv ==
  ASSUME OrderedIInv, [OrderedNext]_ordered_vars
  PROVE  OrderedIInv'
<1>1. CASE Clear
  BY <1>1, ClearKeepsIInv
<1>2. ASSUME NEW n \in first..MaxSeqNo, Add(n)
      PROVE  OrderedIInv'
  <2>1. n \notin added /\ added' = added \cup {n} /\ first' = first
    BY <1>2 DEF Add
  <2>2. CASE n = begin_
    BY <1>2, <2>1, <2>2, RunNowKeepsIInv DEF Add
  <2>3. CASE n # begin_
    BY <1>2, <2>1, <2>3, StoreKeepsIInv DEF Add
  <2> QED
    BY <2>2, <2>3
<1>3. CASE UNCHANGED ordered_vars
  BY <1>3 DEF ordered_vars, OrderedIInv, Vector, History, FlagsAreWaiting, Cell
<1> QED
  BY <1>1, <1>2, <1>3 DEF OrderedNext

(* The inductive invariant of the class and its callers.                    *)
THEOREM ProcessorInvariance == OrderedSpec => []OrderedIInv
<1>1. OrderedInit => OrderedIInv
  BY FreshObject, ProcessorAssumption DEF OrderedInit
<1>2. OrderedIInv /\ [OrderedNext]_ordered_vars => OrderedIInv'
  BY NextKeepsIInv
<1> QED
  BY <1>1, <1>2, PTL DEF OrderedSpec

(* A flag of data_array_ is set exactly for the numbers that wait, whatever *)
(* was resized, reused and compacted, and add()'s LOG_CHECK cannot fail.    *)
THEOREM NoStaleFlags == OrderedSpec => []FlagsAreWaiting
<1>1. OrderedIInv => FlagsAreWaiting
  BY DEF OrderedIInv
<1> QED
  BY <1>1, ProcessorInvariance, PTL

-----------------------------------------------------------------------------
(* The refinement. *)

(* What the refinement mapping puts for the abstract slots.                 *)
Slots ==
  [n \in {m \in begin_..(end_ - 1) : m - offset_ + 1 \in DOMAIN data_array_ /\ Cell(m).second}
     |-> Cell(n).first]

(* The abstract slots are the early numbers, each with its own data.        *)
LEMMA SlotsAreEarly == OrderedIInv => Slots = [n \in Early |-> n]
<1> SUFFICES ASSUME OrderedIInv
             PROVE  Slots = [n \in Early |-> n]
  OBVIOUS
<1> DEFINE D == {m \in begin_..(end_ - 1) : m - offset_ + 1 \in DOMAIN data_array_ /\ Cell(m).second}
<1>1. /\ begin_ \in Nat /\ end_ \in Nat /\ offset_ \in Nat /\ offset_ <= begin_
      /\ DOMAIN data_array_ = 1..Len(data_array_)
  BY DEF OrderedIInv, Vector
<1>2. ASSUME NEW m \in D
      PROVE  m \in Early
  <2>1. offset_ + (m - offset_ + 1) - 1 = m
    BY <1>1
  <2>2. m \in added \cap (begin_ + 1)..(end_ - 1)
    BY <2>1 DEF OrderedIInv, FlagsAreWaiting, Cell
  <2> QED
    BY <1>1, <2>2 DEF Early
<1>3. ASSUME NEW m \in Early
      PROVE  m \in D /\ Cell(m).first = m
  <2>1. /\ m \in (begin_ + 1)..(end_ - 1) /\ m - offset_ + 1 \in 1..Len(data_array_)
        /\ Cell(m) = [first |-> m, second |-> TRUE]
    BY CellsOfNumbers
  <2> QED
    BY <1>1, <2>1
<1>4. D = Early
  BY <1>2, <1>3
<1> HIDE DEF D
<1> QED
  BY <1>3, <1>4 DEF Slots, D

LEMMA SlotsAreEarlyNext == (OrderedIInv => Slots = [n \in Early |-> n])'
  BY SlotsAreEarly, PTL

(* The loop over the vector and the abstract drain stop at the same number. *)
LEMMA SameEnd ==
  ASSUME OrderedIInv
  PROVE  DrainTo(begin_ + 1, end_, [n \in Early |-> n]) = LoopEnd
<1> DEFINE T == [n \in Early |-> n]
           d == DrainTo(begin_ + 1, end_, T)
           b == LoopEnd
<1>1. begin_ \in Nat /\ end_ \in Nat /\ begin_ + 1 \in Nat /\ begin_ <= end_
  BY DEF OrderedIInv, Vector
<1>2. DOMAIN T = Early
  OBVIOUS
<1> HIDE DEF T
<1>3. /\ d \in Nat /\ begin_ + 1 <= d
      /\ \A j \in (begin_ + 1)..(d - 1) : j \in Early
      /\ d >= end_ \/ d \notin Early
  BY <1>1, <1>2, SameDrainTo, Lemmas!DrainToProperties
<1>4. /\ b \in Nat /\ begin_ < b
      /\ b <= end_ \/ (b = begin_ + 1 /\ end_ = begin_)
      /\ \A j \in (begin_ + 1)..(b - 1) : j \in added
      /\ b \notin added
  BY LoopOverAdded
<1> HIDE DEF d, b
<1>5. ~(d < b)
  <2> SUFFICES ASSUME d < b
               PROVE  FALSE
    OBVIOUS
  <2>1. d \in (begin_ + 1)..(b - 1)
    BY <1>1, <1>3, <1>4
  <2>2. d \in Early
    BY <1>1, <1>3, <1>4, <2>1 DEF Early
  <2> QED
    BY <1>1, <1>3, <1>4, <2>1, <2>2
<1>6. ~(b < d)
  <2> SUFFICES ASSUME b < d
               PROVE  FALSE
    OBVIOUS
  <2>1. b \in (begin_ + 1)..(d - 1)
    BY <1>1, <1>3, <1>4
  <2> QED
    BY <1>3, <1>4, <2>1 DEF Early
<1>7. d = b
  BY <1>3, <1>4, <1>5, <1>6
<1> QED
  BY <1>7 DEF d, b, T

(* The operators that both specifications share.                            *)
LEMMA SameOperators ==
  /\ \A x, y : Abstract!Covered(x, y) = Larger(x, y)
  /\ \A x, y, s : Abstract!DrainTo(x, y, s) = DrainTo(x, y, s)
  /\ \A x, y, s, v : Abstract!Drained(x, y, s, v) = Drained(x, y, s, v)
  /\ \A x, s : Abstract!KeepFrom(x, s) = KeepFrom(x, s)
  /\ \A x, v, s : Abstract!Stored(x, v, s) = Stored(x, v, s)
BY DEF Abstract!Covered, Abstract!Larger, Larger, Abstract!DrainTo, DrainTo, Abstract!Drained,
   Drained, Abstract!KeepFrom, KeepFrom, Abstract!Stored, Stored

(* add() of the expected number is the abstract Run.                        *)
LEMMA RunNowIsRun ==
  ASSUME OrderedIInv, OrderedIInv', NEW seq_no, seq_no = begin_, added' = added \cup {seq_no},
         returned' = {}, RunNow(seq_no)
  PROVE  Abstract!Run
<1> DEFINE T == [n \in Early |-> n]
           b == LoopEnd
           ran == [i \in 1..(b - begin_) |->
                     <<begin_ + i - 1, IF i = 1 THEN seq_no ELSE Cell(begin_ + i - 1).first>>]
           abstractRan == [i \in 1..(b - begin_) |->
                             <<begin_ + i - 1, Drained(begin_, b, T, begin_)[i]>>]
<1>1. begin_ \in Nat /\ end_ \in Nat /\ begin_ <= end_
  BY DEF OrderedIInv, Vector
<1>2. /\ b \in Nat /\ begin_ < b
      /\ \A j \in (begin_ + 1)..(b - 1) : j \in added
      /\ b \notin added
  BY LoopOverAdded
<1>3. begin_' = b /\ end_' = Larger(end_, b) /\ delivered' = delivered \o ran
  <2>1. begin_' = b /\ end_' = EndAfter(b) /\ delivered' = delivered \o ran
    BY DEF RunNow
  <2>2. EndAfter(b) = Larger(end_, b)
    BY <1>1, <1>2 DEF EndAfter, Larger
  <2> QED
    BY <2>1, <2>2
<1>4. Slots = T /\ Slots' = [n \in Early' |-> n]
  BY SlotsAreEarly, SlotsAreEarlyNext
<1>5. DrainTo(begin_ + 1, end_, T) = b
  BY SameEnd
<1> HIDE DEF b
<1>6. KeepFrom(b, T) = [n \in Early' |-> n]
  <2>1. Early \subseteq Nat /\ added \subseteq Nat
    BY CellsOfNumbers DEF Early
  <2>2. Early' = {n \in added \cup {begin_} : n > b}
    BY <1>3 DEF Early
  <2>3. ASSUME NEW m \in Early, m >= b
        PROVE  m \in Early'
    BY <1>1, <1>2, <2>1, <2>2, <2>3 DEF Early
  <2>4. ASSUME NEW m \in Early'
        PROVE  m \in Early /\ m >= b
    BY <1>1, <1>2, <2>1, <2>2, <2>4 DEF Early
  <2>5. {m \in Early : m >= b} = Early'
    BY <2>3, <2>4
  <2> QED
    BY <2>5 DEF KeepFrom
<1>7. ran = abstractRan
  <2> SUFFICES ASSUME NEW i \in 1..(b - begin_), i # 1
               PROVE  Cell(begin_ + i - 1).first = T[begin_ + i - 1]
    BY DEF Drained
  <2>1. begin_ + i - 1 \in (begin_ + 1)..(b - 1) /\ begin_ + i - 1 > begin_
    BY <1>1, <1>2
  <2>2. begin_ + i - 1 \in Early
    BY <1>2, <2>1 DEF Early
  <2> HIDE DEF T
  <2>3. Cell(begin_ + i - 1) = [first |-> begin_ + i - 1, second |-> TRUE]
    BY <2>2, CellsOfNumbers
  <2> QED
    BY <2>2, <2>3 DEF T
<1> HIDE DEF T, ran
<1>8. /\ begin_' = b
      /\ end_' = Larger(end_, b)
      /\ Slots' = KeepFrom(b, Slots)
      /\ delivered' = delivered \o [i \in 1..(b - begin_) |->
                                      <<begin_ + i - 1, Drained(begin_, b, Slots, begin_)[i]>>]
      /\ b = DrainTo(begin_ + 1, end_, Slots)
  BY <1>3, <1>4, <1>5, <1>6, <1>7 DEF abstractRan
<1> QED
  BY <1>8, SameOperators DEF Abstract!Run, Slots

(* add() of an early number is the abstract Wait.                           *)
LEMMA StoreIsWait ==
  ASSUME OrderedIInv, OrderedIInv', NEW seq_no \in first..MaxSeqNo, seq_no # begin_, seq_no \notin added,
         added' = added \cup {seq_no}, returned' = {}, Store(seq_no)
  PROVE  seq_no \in 1..MaxSeqNo /\ Abstract!Wait(seq_no)
<1> DEFINE T == [n \in Early |-> n]
<1>1. begin_ \in Nat /\ end_ \in Nat /\ first \in Nat /\ MaxSeqNo \in Nat
  BY ProcessorAssumption DEF OrderedIInv, Vector, History
<1>2. seq_no \in Nat /\ seq_no > begin_
  BY <1>1 DEF OrderedIInv, FlagsAreWaiting
<1>3. begin_' = begin_ /\ delivered' = delivered /\ end_' = Larger(end_, seq_no + 1)
  BY <1>1, <1>2 DEF Store, EndStored, Larger
<1>4. Slots = T /\ Slots' = [n \in Early' |-> n]
  BY SlotsAreEarly, SlotsAreEarlyNext
<1>5. Early' = Early \cup {seq_no} /\ seq_no \notin Early
  BY <1>1, <1>2, <1>3 DEF Early
<1>6. Stored(seq_no, seq_no, T) = [n \in Early' |-> n]
  BY <1>5 DEF Stored
<1>7. DOMAIN T = Early
  OBVIOUS
<1> HIDE DEF T
<1>8. /\ seq_no > begin_ /\ seq_no \notin DOMAIN Slots
      /\ Slots' = Stored(seq_no, seq_no, Slots)
      /\ end_' = Larger(end_, seq_no + 1)
  BY <1>2, <1>3, <1>4, <1>5, <1>6, <1>7
<1>9. Abstract!Wait(seq_no)
  BY <1>3, <1>8, SameOperators DEF Abstract!Wait, Slots
<1> QED
  BY <1>1, <1>2, <1>9

(* clear() is the abstract Reset: it returns the events that wait.          *)
LEMMA ClearIsReset ==
  ASSUME OrderedIInv, OrderedIInv', Clear
  PROVE  Abstract!Reset
<1> DEFINE T == [n \in Early |-> n]
<1>1. /\ returned' = Waiting /\ begin_' = 1 /\ end_' = 1 /\ delivered' = <<>> /\ added' = {}
  BY DEF Clear
<1>2. Slots = T /\ Slots' = [n \in Early' |-> n]
  BY SlotsAreEarly, SlotsAreEarlyNext
<1>3. Slots' = <<>>
  <2>1. Early' = {}
    BY <1>1 DEF Early
  <2> QED
    BY <1>2, <2>1
<1>4. Waiting = Early
  <2>1. /\ offset_ \in Nat /\ begin_ \in Nat /\ data_array_ \in Seq(Cells)
        /\ DOMAIN data_array_ = 1..Len(data_array_)
    BY DEF OrderedIInv, Vector
  <2>2. ASSUME NEW n \in Early
        PROVE  n \in Waiting
    <3>1. n - offset_ + 1 \in DOMAIN data_array_ /\ Cell(n) = [first |-> n, second |-> TRUE]
      BY <2>1, CellsOfNumbers
    <3> QED
      BY <3>1 DEF Waiting, Cell
  <2>3. ASSUME NEW i \in DOMAIN data_array_, data_array_[i].second
        PROVE  data_array_[i].first \in Early
    <3>1. offset_ + i - 1 \in added \cap (begin_ + 1)..(end_ - 1)
      BY <2>3 DEF OrderedIInv, FlagsAreWaiting
    <3>2. offset_ + i - 1 \in Early
      BY <2>1, <3>1 DEF Early
    <3>3. (offset_ + i - 1) - offset_ + 1 = i
      BY <2>1
    <3>4. Cell(offset_ + i - 1) = data_array_[i]
      BY <3>3 DEF Cell
    <3>5. data_array_[i] = [first |-> offset_ + i - 1, second |-> TRUE]
      BY <3>2, <3>4, CellsOfNumbers
    <3> QED
      BY <3>2, <3>5
  <2> QED
    BY <2>2, <2>3 DEF Waiting
<1>5. {Slots[n] : n \in DOMAIN Slots} = Early
  BY <1>2
<1> QED
  BY <1>1, <1>3, <1>4, <1>5 DEF Abstract!Reset, Slots

(* Every step of the class is a step of OrderedDelivery on the same begin,  *)
(* end and waiting events: callers cannot tell the vector, its reuse and    *)
(* its compaction from an ideal reordering buffer.                          *)
THEOREM ProcessorRefinement == OrderedSpec => ImplementsOrderedDelivery
<1>1. OrderedInit => Abstract!Init
  <2> SUFFICES ASSUME OrderedInit
               PROVE  Abstract!Init
    OBVIOUS
  <2>1. OrderedIInv
    BY FreshObject, ProcessorAssumption DEF OrderedInit
  <2>2. Slots = [n \in Early |-> n] /\ Early = {}
    BY <2>1, SlotsAreEarly DEF OrderedInit, Early
  <2>3. Slots = <<>>
    BY <2>2
  <2> QED
    BY <2>3 DEF OrderedInit, Abstract!Init, Slots
<1>2. OrderedIInv /\ OrderedIInv' /\ [OrderedNext]_ordered_vars => [Abstract!Next]_(Abstract!vars)
  <2> SUFFICES ASSUME OrderedIInv, OrderedIInv', [OrderedNext]_ordered_vars
               PROVE  [Abstract!Next]_(Abstract!vars)
    OBVIOUS
  <2>1. CASE Clear
    BY <2>1, ClearIsReset DEF Abstract!Next
  <2>2. ASSUME NEW n \in first..MaxSeqNo, Add(n)
        PROVE  Abstract!Next
    <3>1. n \notin added /\ added' = added \cup {n} /\ returned' = {}
      BY <2>2 DEF Add
    <3>2. CASE n = begin_
      BY <2>2, <3>1, <3>2, RunNowIsRun DEF Add, Abstract!Next
    <3>3. CASE n # begin_
      BY <2>2, <3>1, <3>3, StoreIsWait DEF Add, Abstract!Next
    <3> QED
      BY <3>2, <3>3
  <2>3. CASE UNCHANGED ordered_vars
    BY <2>3 DEF ordered_vars, Abstract!vars, Cell
  <2> QED
    BY <2>1, <2>2, <2>3 DEF OrderedNext
<1> QED
  BY <1>1, <1>2, ProcessorInvariance, PTL DEF OrderedSpec, ImplementsOrderedDelivery, Abstract!Spec

-----------------------------------------------------------------------------
(* The inductive invariant.  At(t, 0) is the event that thread t holds and  *)
(* At(t, i) the i-th message on its way.                                    *)
At(t, i) == IF i = 0 THEN held[t] ELSE channel[t][i]

Places(t) == 0..Len(channel[t])

Apart(a, b) == \A n \in Numbers(a) : n \notin Numbers(b)

(* The numbers of m are taken, not yet run, and not waiting in a slot.      *)
Fresh(m) ==
  \A n \in Numbers(m) : begin <= n /\ n < last_event_id_ /\ n \notin DOMAIN slots

Shape(m) ==
  /\ m.op = "add_raw_event" => m.n = 1
  /\ m.op = "erase_batch" => m.n >= 1 /\ m.promise = 0
  /\ m.op \notin {"add_raw_event", "erase_batch"} => m.n = 0

HeldShape ==
  \A t \in Threads : held[t] = Nothing \/ held[t].op \in {"add_raw_event", "erase_batch"}

PlacesFresh ==
  \A t \in Threads : \A i \in Places(t) :
    Shape(At(t, i)) /\ Fresh(At(t, i)) /\ Apart(At(t, i), batch)

PlacesApart ==
  \A t, u \in Threads : \A i \in Places(t), j \in Places(u) :
    (t # u \/ i # j) => Apart(At(t, i), At(u, j))

BatchFresh ==
  /\ Shape(batch) /\ Fresh(batch)
  /\ batch = Nothing \/ batch.op = "erase_batch"

SlotsOrdered ==
  \A n \in DOMAIN slots : begin < n /\ n < end /\ slots[n].seq_no = n

Positions == stable <= flushed /\ flushed <= Len(log)

(* p is a promise that was made, and what it covers is at most n.           *)
CoveredIn(c, p, n) == p \in 1..Len(c) /\ c[p] <= n

CoveredBy(p, n) == CoveredIn(covers, p, n)

PromisesCovered ==
  /\ \A t \in Threads : \A i \in Places(t) :
       At(t, i).promise # 0 =>
         /\ At(t, i).promise \in 1..Len(covers)
         /\ At(t, i).op = "add_raw_event" => CoveredBy(At(t, i).promise, At(t, i).seq_no)
  /\ \A n \in DOMAIN slots : slots[n].promise # 0 => CoveredBy(slots[n].promise, n)
  /\ \A r \in immediate_sync_promises_ : r[2] # 0 => CoveredBy(r[2], r[1])
  /\ \A p \in sync_promises_ : CoveredBy(p, begin - 1)
  /\ \A p \in done : CoveredBy(p, FirstId + stable - 1)

(* The actor has seen number n, or it will before message k of t's channel. *)
SeenIn(messages, rest, upto, k, n) ==
  \/ n < upto
  \/ n \in Numbers(rest)
  \/ \E j \in 1..Len(messages) : j < k /\ n \in Numbers(messages[j])

SeenBefore(t, k, n) == SeenIn(channel[t], batch, end, k, n)

(* A force_sync arrives after everything its thread had sent.               *)
SyncsFollow ==
  running =>
    \A t \in Threads :
      /\ \A i \in 1..Len(channel[t]) :
           channel[t][i].op = "force_sync" /\ channel[t][i].promise # 0 =>
             SeenBefore(t, i, covers[channel[t][i].promise])
      /\ owned => SeenBefore(t, Len(channel[t]) + 1, sent[t])

IInv ==
  /\ TypeOK /\ LogInOrder /\ Positions /\ SlotsOrdered /\ ForcedSyncsMoveOn
  /\ HeldShape /\ PlacesFresh /\ PlacesApart /\ BatchFresh
  /\ PromisesCovered /\ SyncsFollow
(* Whoever waits has a timer, also between the rounds of erase_batch.       *)
TimersSet ==
  /\ sync_promises_ # {} => force_sync_flag_ \/ lazy_sync_flag_
  /\ force_sync_flag_ => wakeup_at_ \in 0..SYNC_TIMEOUT
  /\ lazy_sync_flag_ => wakeup_at_ \in 0..LAZY_TIMEOUT
  /\ need_flush_age # -1 => \/ flush_flag_ /\ wakeup_at_ \in 0..FLUSH_TIMEOUT
                            \/ force_sync_flag_

-----------------------------------------------------------------------------
(* Arithmetic, stated apart from the states it is used on. *)

(* A number that is not in a..(b - 1) and not below a is not below b.       *)
LEMMA NotBelow ==
  \A a, b, k \in Nat : a <= k /\ k \notin a..(b - 1) => b <= k
  OBVIOUS

(* Subtracting one keeps the order.                                         *)
LEMMA OneLess ==
  \A a, b \in Nat : a <= b => a - 1 \in Int /\ b - 1 \in Int /\ a - 1 <= b - 1
  OBVIOUS

(* So does adding a constant first.                                         *)
LEMMA OneLessAfter ==
  \A a, b, c \in Nat : a <= b =>
    c + a - 1 \in Int /\ c + b - 1 \in Int /\ c + a - 1 <= c + b - 1
  OBVIOUS

-----------------------------------------------------------------------------
(* Messages. *)

(* The fields of a message have the types that TypeOK gives them.           *)
LEMMA MessageFields ==
  ASSUME NEW m \in Messages
  PROVE  m.seq_no \in Nat /\ m.n \in Nat /\ m.raw \in BOOLEAN /\ m.promise \in Nat
  BY DEF Messages

(* What is built from typed parts is a message with these parts.            *)
LEMMA MessageType ==
  ASSUME NEW op \in {"none", "add_raw_event", "erase_batch", "force_sync", "force_flush",
                     "change_key", "close", "close_and_destroy"},
         NEW seq_no \in Nat, NEW n \in Nat, NEW raw \in BOOLEAN, NEW promise \in Nat
  PROVE  LET m == Message(op, seq_no, n, raw, promise)
         IN  /\ m \in Messages /\ m.op = op /\ m.seq_no = seq_no /\ m.n = n
             /\ m.raw = raw /\ m.promise = promise
  BY DEF Message, Messages

(* The empty place is a message that carries no number and no promise.      *)
LEMMA NothingType ==
  /\ Nothing \in Messages /\ Nothing.op = "none" /\ Nothing.n = 0 /\ Nothing.promise = 0
  /\ Numbers(Nothing) = {}
  BY DEF Nothing, Message, Messages, Numbers

(* The numbers a message carries, by how many there are.                    *)
LEMMA NumbersOf ==
  ASSUME NEW m \in Messages
  PROVE  /\ m.n = 0 => Numbers(m) = {}
         /\ m.n = 1 => Numbers(m) = {m.seq_no}
         /\ Numbers(m) \subseteq Nat
         /\ m.n >= 1 => m.seq_no \in Numbers(m) /\ m.seq_no + m.n - 1 \in Numbers(m)
  BY MessageFields DEF Numbers

-----------------------------------------------------------------------------
(* What flush_immediate_sync and try_flush leave behind.                    *)
LEMMA SyncAndFlushEffect ==
  ASSUME TypeOK, begin' \in Nat, log' \in Seq(Messages),
         NEW promises, promises \subseteq Nat,
         NEW f \in Nat, f <= Len(log'), NEW age \in -1..FLUSH_TIMEOUT,
         SyncAndFlush(promises, f, age)
  PROVE  /\ sync_promises_' \subseteq Nat
         /\ immediate_sync_promises_' \subseteq Nat \X Nat
         /\ force_sync_flag_' \in BOOLEAN /\ lazy_sync_flag_' \in BOOLEAN
         /\ flush_flag_' \in BOOLEAN /\ wakeup_at_' \in Nat \cup {-1}
         /\ flushed' \in {f, Len(log')} /\ need_flush_age' \in -1..FLUSH_TIMEOUT
         /\ \A p \in sync_promises_' :
              \/ p \in sync_promises_ \/ p \in promises
              \/ \E r \in immediate_sync_promises_ : p = r[2] /\ r[2] # 0 /\ r[1] < begin'
         /\ \A r \in immediate_sync_promises_' :
              r \in immediate_sync_promises_ /\ begin' <= r[1]
<1> USE ConcurrentBinlogAssumption
<1> DEFINE ready     == ReadyToSync(begin')
           startLazy == promises # {} /\ ~lazy_sync_flag_ /\ ~force_sync_flag_
           startSync == ready # {} /\ ~force_sync_flag_
           force     == force_sync_flag_ \/ startSync
           overdue   == Overdue(age)
           defer     == ~overdue /\ ~force
<1>1. ready \subseteq immediate_sync_promises_
  BY DEF ReadyToSync
<1>2. immediate_sync_promises_ \subseteq Nat \X Nat /\ sync_promises_ \subseteq Nat
  BY DEF TypeOK
<1>3. \A r \in immediate_sync_promises_ : r[1] \in Nat /\ r[2] \in Nat
  BY <1>2
<1>4. \A r \in ready : r[1] < begin'
  BY <1>3 DEF ReadyToSync
<1>5. \A r \in immediate_sync_promises_ : r \in ready \/ begin' <= r[1]
  BY <1>3 DEF ReadyToSync
<1>6. sync_promises_' = sync_promises_ \cup promises \cup (({r[2] : r \in ready}) \ {0})
  BY DEF SyncAndFlush
<1>7. immediate_sync_promises_' = immediate_sync_promises_ \ ready
  BY DEF SyncAndFlush
<1>8. force_sync_flag_' \in BOOLEAN /\ lazy_sync_flag_' \in BOOLEAN /\ flush_flag_' \in BOOLEAN
  BY DEF SyncAndFlush, TypeOK
<1>9. flushed' \in {f, Len(log')} /\ need_flush_age' \in -1..FLUSH_TIMEOUT
  BY DEF SyncAndFlush
<1>10. wakeup_at_' \in Nat \cup {-1}
  <2>1. wakeup_at_ \in Nat \cup {-1}
    BY DEF TypeOK
  <2>2. \A c \in BOOLEAN, w \in Nat \cup {-1}, a \in Nat : WakeupIf(c, w, a) \in Nat \cup {-1}
    BY DEF WakeupIf, WakeupAt
  <2>3. defer => FLUSH_TIMEOUT - age \in Nat
    BY DEF Overdue
  <2>4. \A w \in Nat \cup {-1} : WakeupIf(defer, w, FLUSH_TIMEOUT - age) \in Nat \cup {-1}
    BY <2>3 DEF WakeupIf, WakeupAt
  <2>5. WakeupIf(startLazy, wakeup_at_, LAZY_TIMEOUT) \in Nat \cup {-1}
    BY <2>1, <2>2
  <2>6. WakeupIf(startSync, WakeupIf(startLazy, wakeup_at_, LAZY_TIMEOUT), SYNC_TIMEOUT)
          \in Nat \cup {-1}
    BY <2>2, <2>5
  <2>7. wakeup_at_' = WakeupIf(defer, WakeupIf(startSync,
                        WakeupIf(startLazy, wakeup_at_, LAZY_TIMEOUT), SYNC_TIMEOUT),
                        FLUSH_TIMEOUT - age)
    BY DEF SyncAndFlush
  <2> HIDE DEF defer, startSync, startLazy
  <2> QED
    BY <2>4, <2>6, <2>7
<1> HIDE DEF ready
<1>11. sync_promises_' \subseteq Nat /\ immediate_sync_promises_' \subseteq Nat \X Nat
  BY <1>1, <1>2, <1>3, <1>6, <1>7
<1>12. \A p \in sync_promises_' :
         \/ p \in sync_promises_ \/ p \in promises
         \/ \E r \in immediate_sync_promises_ : p = r[2] /\ r[2] # 0 /\ r[1] < begin'
  BY <1>1, <1>4, <1>6
<1>13. \A r \in immediate_sync_promises_' :
         r \in immediate_sync_promises_ /\ begin' <= r[1]
  BY <1>5, <1>7
<1> QED
  BY <1>8, <1>9, <1>10, <1>11, <1>12, <1>13

(* What add_raw_event does to the numbers: begin moves over the new event   *)
(* and waiting ones only, the log grows by exactly these, in order, and the *)
(* promises that now wait for a sync are of numbers below begin.            *)
LEMMA AddRawEventEffect ==
  ASSUME TypeOK, LogInOrder, Positions, SlotsOrdered, UNCHANGED last_event_id_,
         NEW seq_no \in Nat, NEW event \in Messages, event.seq_no = seq_no,
         begin <= seq_no, seq_no < last_event_id_, seq_no \notin DOMAIN slots,
         AddRawEvent(seq_no, event)
  PROVE  /\ begin' \in Nat /\ end' \in Nat /\ begin <= begin' /\ end <= end'
         /\ begin' <= end' /\ end' <= last_event_id_ /\ seq_no < end'
         /\ \A n \in begin..(begin' - 1) : n = seq_no \/ n \in DOMAIN slots
         /\ \A n \in DOMAIN slots' :
              /\ n = seq_no \/ n \in DOMAIN slots
              /\ begin' < n /\ n < end'
              /\ slots'[n] = IF n = seq_no THEN event ELSE slots[n]
         /\ log' \in Seq(Messages) /\ LogInOrder' /\ Positions'
         /\ stable' \in Nat /\ flushed' \in Nat /\ stable <= stable'
         /\ need_flush_age' \in -1..FLUSH_TIMEOUT
         /\ sync_promises_' \subseteq Nat /\ immediate_sync_promises_' \subseteq Nat \X Nat
         /\ force_sync_flag_' \in BOOLEAN /\ lazy_sync_flag_' \in BOOLEAN
         /\ flush_flag_' \in BOOLEAN /\ wakeup_at_' \in Nat \cup {-1}
         /\ \A p \in sync_promises_' :
              \/ p \in sync_promises_
              \/ p # 0 /\ p = event.promise /\ seq_no < begin'
              \/ \E n \in DOMAIN slots : p # 0 /\ p = slots[n].promise /\ n < begin'
              \/ \E r \in immediate_sync_promises_ : p = r[2] /\ r[2] # 0 /\ r[1] < begin'
         /\ \A r \in immediate_sync_promises_' :
              r \in immediate_sync_promises_ /\ begin' <= r[1]
<1> USE ConcurrentBinlogAssumption
<1>0. /\ begin \in Nat /\ end \in Nat /\ begin <= end /\ end <= last_event_id_
      /\ last_event_id_ \in Nat /\ DOMAIN slots \subseteq Nat
      /\ \A n \in DOMAIN slots : slots[n] \in Messages
      /\ log \in Seq(Messages) /\ flushed \in Nat /\ stable \in Nat
      /\ need_flush_age \in -1..FLUSH_TIMEOUT /\ sync_promises_ \subseteq Nat
  BY DEF TypeOK
<1>1. CASE seq_no = begin
  <2> DEFINE upto == DrainTo(begin + 1, end, slots)
             events == Drained(begin, upto, slots, event)
             newLog == log \o events
             promises == {events[i].promise : i \in DOMAIN events} \ {0}
  <2>1. /\ upto \in Nat /\ begin + 1 <= upto
        /\ upto <= begin + 1 \/ upto <= end
        /\ \A j \in (begin + 1)..(upto - 1) : j \in DOMAIN slots
        /\ upto >= end \/ upto \notin DOMAIN slots
    <3>1. begin + 1 \in Nat
      BY <1>0
    <3> QED
      BY <1>0, <3>1, SameDrainTo, Lemmas!DrainToProperties
  <2> HIDE DEF upto
  <2>2. /\ begin' = upto /\ end' = Covered(end, upto)
        /\ slots' = KeepFrom(upto, slots) /\ log' = newLog
        /\ \E f \in BinlogPositions(flushed, Len(newLog)),
              s \in BinlogPositions(stable, Len(newLog)) :
             /\ s <= f /\ stable' = s
             /\ SyncAndFlush(promises, f, FlushAge(newLog, f))
    BY <1>1 DEF AddRawEvent, upto
  <2>3. /\ end' \in Nat /\ end <= end' /\ upto <= end' /\ end' <= last_event_id_
    BY <1>0, <1>1, <2>1, <2>2 DEF Covered, Larger
  <2>4. \A n \in begin..(begin' - 1) : n = seq_no \/ n \in DOMAIN slots
    BY <1>0, <1>1, <2>1, <2>2
  <2>5. \A n \in DOMAIN slots' :
          /\ n \in DOMAIN slots /\ begin' < n /\ n < end' /\ slots'[n] = slots[n]
          /\ n # seq_no
    BY <1>0, <1>1, <2>1, <2>2, <2>3 DEF KeepFrom, SlotsOrdered
  <2>6. /\ events \in Seq(Messages) /\ Len(events) = upto - begin
        /\ \A i \in 1..Len(events) :
             /\ events[i].seq_no = begin + i - 1
             /\ events[i] = event \/ \E n \in DOMAIN slots : n < upto /\ events[i] = slots[n]
    <3>1. \A i \in 1..(upto - begin) : i # 1 => begin + i - 1 \in DOMAIN slots
      BY <1>0, <2>1
    <3>2. events = [i \in 1..(upto - begin) |->
                      IF i = 1 THEN event ELSE slots[begin + i - 1]]
      BY DEF Drained
    <3>3. \A i \in 1..(upto - begin) :
            /\ events[i] \in Messages /\ events[i].seq_no = begin + i - 1
            /\ events[i] = event \/ \E n \in DOMAIN slots : n < upto /\ events[i] = slots[n]
      <4> SUFFICES ASSUME NEW i \in 1..(upto - begin)
                   PROVE  /\ events[i] \in Messages /\ events[i].seq_no = begin + i - 1
                          /\ \/ events[i] = event
                             \/ \E n \in DOMAIN slots : n < upto /\ events[i] = slots[n]
        OBVIOUS
      <4>1. CASE i = 1
        <5>1. events[i] = event
          BY <3>2, <4>1
        <5> QED
          BY <1>0, <1>1, <4>1, <5>1
      <4>2. CASE i # 1
        <5>1. events[i] = slots[begin + i - 1] /\ begin + i - 1 \in DOMAIN slots
          BY <3>1, <3>2, <4>2
        <5>2. begin + i - 1 < upto
          BY <1>0, <2>1
        <5> QED
          BY <1>0, <5>1, <5>2 DEF SlotsOrdered
      <4> QED
        BY <4>1, <4>2
    <3>4. upto - begin \in Nat
      BY <1>0, <2>1
    <3>5. events \in [1..(upto - begin) -> Messages]
      BY <3>2, <3>3
    <3>6. events \in Seq(Messages) /\ Len(events) = upto - begin
      BY <3>4, <3>5, IsASeq, LenProperties
    <3> QED
      BY <3>3, <3>6
  <2> HIDE DEF events
  <2>7. /\ newLog \in Seq(Messages) /\ Len(newLog) = Len(log) + Len(events)
        /\ \A i \in 1..Len(newLog) :
             newLog[i] = IF i <= Len(log) THEN log[i] ELSE events[i - Len(log)]
    BY <1>0, <2>6, ConcatProperties, ZenonT(30)
  <2> HIDE DEF newLog
  <2>8. LogInOrder'
    <3>1. Len(log) \in Nat /\ DOMAIN log = 1..Len(log)
      BY <1>0, LenProperties
    <3>2. DOMAIN newLog = 1..Len(newLog)
      BY <2>7, LenProperties
    <3>3. Len(newLog) = upto - FirstId
      <4>1. Len(log) = begin - FirstId
        BY DEF LogInOrder
      <4>2. Len(newLog) = Len(log) + Len(events) /\ Len(events) = upto - begin
        BY <2>6, <2>7
      <4> QED
        BY <1>0, <2>1, <4>1, <4>2
    <3>4. \A i \in 1..Len(newLog) : newLog[i].seq_no = FirstId + i - 1
      <4>1. SUFFICES ASSUME NEW i \in 1..Len(newLog)
                     PROVE  newLog[i].seq_no = FirstId + i - 1
        OBVIOUS
      <4>2. CASE i <= Len(log)
        <5>1. newLog[i] = log[i] /\ i \in DOMAIN log
          BY <2>7, <3>1, <4>2
        <5> QED
          BY <5>1 DEF LogInOrder
      <4>3. CASE ~(i <= Len(log))
        <5>1. i - Len(log) \in 1..Len(events)
          BY <2>6, <2>7, <3>1, <3>3, <1>0, <2>1, <4>3, SMTT(30)
        <5>2. newLog[i].seq_no = begin + (i - Len(log)) - 1
          BY <2>6, <2>7, <4>3, <5>1
        <5>3. Len(log) = begin - FirstId
          BY DEF LogInOrder
        <5> QED
          BY <1>0, <3>1, <5>2, <5>3
      <4> QED
        BY <4>2, <4>3
    <3> QED
      BY <2>2, <3>2, <3>3, <3>4 DEF LogInOrder
  <2>9. promises \subseteq Nat
    BY <2>6, <1>0, MessageFields, LenProperties
  <2>10. \A p \in promises : 
           \/ p # 0 /\ p = event.promise
           \/ \E n \in DOMAIN slots : p # 0 /\ p = slots[n].promise /\ n < upto
    BY <2>6, LenProperties
  <2> HIDE DEF promises
  <2>11. PICK f \in BinlogPositions(flushed, Len(newLog)) : 
           /\ stable' \in BinlogPositions(stable, Len(newLog)) /\ stable' <= f
           /\ SyncAndFlush(promises, f, FlushAge(newLog, f))
    BY <2>2
  <2>12. Len(log) \in Nat /\ Len(newLog) \in Nat /\ Len(events) \in Nat
    BY <1>0, <2>6, <2>7, LenProperties
  <2>13. /\ f \in Nat /\ f <= Len(newLog) /\ flushed <= f
         /\ stable' \in Nat /\ stable <= stable'
    BY <1>0, <2>7, <2>11, <2>12 DEF BinlogPositions, Positions
  <2>14. FlushAge(newLog, f) \in -1..FLUSH_TIMEOUT
    BY <1>0 DEF FlushAge
  <2>15. /\ begin' \in Nat /\ log' \in Seq(Messages) /\ f <= Len(log')
    BY <2>1, <2>2, <2>7, <2>13
  <2> DEFINE age == FlushAge(newLog, f)
  <2> HIDE DEF age
  <2>16. /\ age \in -1..FLUSH_TIMEOUT /\ SyncAndFlush(promises, f, age)
    BY <2>11, <2>14 DEF age
  <2>17. /\ sync_promises_' \subseteq Nat
         /\ immediate_sync_promises_' \subseteq Nat \X Nat
         /\ force_sync_flag_' \in BOOLEAN /\ lazy_sync_flag_' \in BOOLEAN
         /\ flush_flag_' \in BOOLEAN /\ wakeup_at_' \in Nat \cup {-1}
         /\ flushed' \in {f, Len(log')} /\ need_flush_age' \in -1..FLUSH_TIMEOUT
         /\ \A p \in sync_promises_' :
              \/ p \in sync_promises_ \/ p \in promises
              \/ \E r \in immediate_sync_promises_ : p = r[2] /\ r[2] # 0 /\ r[1] < begin'
         /\ \A r \in immediate_sync_promises_' :
              r \in immediate_sync_promises_ /\ begin' <= r[1]
    BY <2>9, <2>13, <2>15, <2>16, SyncAndFlushEffect
  <2>18. Positions' /\ flushed' \in Nat
    BY <2>2, <2>11, <2>12, <2>13, <2>17 DEF Positions
  <2>19. \A p \in sync_promises_' :
           \/ p \in sync_promises_
           \/ p # 0 /\ p = event.promise /\ seq_no < begin'
           \/ \E n \in DOMAIN slots : p # 0 /\ p = slots[n].promise /\ n < begin'
           \/ \E r \in immediate_sync_promises_ : p = r[2] /\ r[2] # 0 /\ r[1] < begin'
    <3>1. seq_no < begin'
      BY <1>0, <1>1, <2>1, <2>2
    <3> QED
      BY <2>2, <2>10, <2>17, <3>1, Zenon
  <2>20. /\ begin' \in Nat /\ end' \in Nat /\ begin <= begin' /\ end <= end'
         /\ begin' <= end' /\ end' <= last_event_id_ /\ seq_no < end'
    BY <1>0, <1>1, <2>1, <2>2, <2>3
  <2>21. \A n \in DOMAIN slots' :
           /\ n = seq_no \/ n \in DOMAIN slots
           /\ begin' < n /\ n < end'
           /\ slots'[n] = IF n = seq_no THEN event ELSE slots[n]
    BY <2>5
  <2> QED
    BY <2>4, <2>8, <2>13, <2>15, <2>17, <2>18, <2>19, <2>20, <2>21
<1>2. CASE seq_no # begin
  <2>1. /\ slots' = Stored(seq_no, event, slots) /\ end' = Covered(end, seq_no + 1)
        /\ begin' = begin /\ log' = log /\ stable' = stable
        /\ SyncAndFlush({}, flushed, need_flush_age)
    BY <1>2 DEF AddRawEvent
  <2>2. /\ end' \in Nat /\ end <= end' /\ seq_no < end' /\ end' <= last_event_id_
    BY <1>0, <2>1 DEF Covered, Larger
  <2>3. \A n \in DOMAIN slots' :
          /\ n = seq_no \/ n \in DOMAIN slots
          /\ begin' < n /\ n < end'
          /\ slots'[n] = IF n = seq_no THEN event ELSE slots[n]
    BY <1>0, <1>2, <2>1, <2>2 DEF Stored, SlotsOrdered
  <2>4. begin' \in Nat /\ log' \in Seq(Messages) /\ flushed <= Len(log')
    BY <1>0, <2>1 DEF Positions
  <2>5. /\ sync_promises_' \subseteq Nat
        /\ immediate_sync_promises_' \subseteq Nat \X Nat
        /\ force_sync_flag_' \in BOOLEAN /\ lazy_sync_flag_' \in BOOLEAN
        /\ flush_flag_' \in BOOLEAN /\ wakeup_at_' \in Nat \cup {-1}
        /\ flushed' \in {flushed, Len(log')} /\ need_flush_age' \in -1..FLUSH_TIMEOUT
        /\ \A p \in sync_promises_' :
             \/ p \in sync_promises_ \/ p \in {}
             \/ \E r \in immediate_sync_promises_ : p = r[2] /\ r[2] # 0 /\ r[1] < begin'
        /\ \A r \in immediate_sync_promises_' :
             r \in immediate_sync_promises_ /\ begin' <= r[1]
    BY <1>0, <2>1, <2>4, SyncAndFlushEffect
  <2>6. LogInOrder' /\ Positions' /\ flushed' \in Nat
    BY <1>0, <2>1, <2>5, LenProperties DEF LogInOrder, Positions
  <2>7. \A n \in begin..(begin' - 1) : n = seq_no \/ n \in DOMAIN slots
    BY <1>0, <2>1
  <2>8. /\ begin' \in Nat /\ begin <= begin' /\ begin' <= end'
        /\ stable' \in Nat /\ stable <= stable'
    BY <1>0, <2>1, <2>2
  <2>9. \A p \in sync_promises_' :
          \/ p \in sync_promises_
          \/ \E r \in immediate_sync_promises_ : p = r[2] /\ r[2] # 0 /\ r[1] < begin'
    BY <2>5
  <2> QED
    BY <2>2, <2>3, <2>4, <2>5, <2>6, <2>7, <2>8, <2>9
<1> QED
  BY <1>1, <1>2

-----------------------------------------------------------------------------
(* Places and promises. *)

(* Every place holds a message.                                             *)
LEMMA PlaceTypes ==
  ASSUME TypeOK
  PROVE  \A t \in Threads :
           /\ channel[t] \in Seq(Messages) /\ Len(channel[t]) \in Nat
           /\ 0 \in Places(t)
           /\ \A i \in Places(t) : i \in Nat /\ At(t, i) \in Messages
  BY LenProperties, ElementOfSeq DEF TypeOK, Places, At

(* A new promise is the last of covers', the others stay what they are.     *)
LEMMA CoversGrow ==
  ASSUME covers \in Seq(Nat), NEW wanted \in BOOLEAN, NEW upto \in Nat,
         MakePromise(wanted, upto)
  PROVE  /\ covers' \in Seq(Nat)
         /\ \A p \in 1..Len(covers) : p \in 1..Len(covers') /\ covers'[p] = covers[p]
         /\ \A p, n : CoveredBy(p, n) => CoveredIn(covers', p, n)
         /\ NewPromise(wanted) \in Nat
         /\ NewPromise(wanted) # 0 =>
              /\ NewPromise(wanted) \in 1..Len(covers')
              /\ covers'[NewPromise(wanted)] = upto
<1>1. CASE wanted
  <2>1. covers' = Append(covers, upto) /\ NewPromise(wanted) = Len(covers) + 1
    BY <1>1 DEF MakePromise, NewPromise
  <2>2. /\ covers' \in Seq(Nat) /\ Len(covers) \in Nat /\ Len(covers') = Len(covers) + 1
        /\ \A p \in 1..Len(covers) : covers'[p] = covers[p]
        /\ covers'[Len(covers) + 1] = upto
    BY <2>1, AppendProperties, LenProperties
  <2> QED
    BY <2>1, <2>2 DEF CoveredBy, CoveredIn
<1>2. CASE ~wanted
  <2>1. covers' = covers /\ NewPromise(wanted) = 0
    BY <1>2 DEF MakePromise, NewPromise
  <2> QED
    BY <2>1 DEF CoveredBy, CoveredIn
<1> QED
  BY <1>1, <1>2

-----------------------------------------------------------------------------
(* The steps of the clients. *)

(* next_event_id: the numbers taken are at the counter, so nobody has them. *)
LEMMA TakeNumbersPreserves ==
  ASSUME IInv, NEW t \in Threads, NEW op, NEW n, NEW raw \in BOOLEAN, NEW wanted \in BOOLEAN,
         \/ op = "add_raw_event" /\ n = 1
         \/ op = "erase_batch" /\ n = 2 /\ wanted = FALSE,
         TakeNumbers(t, op, n, raw, wanted)
  PROVE  IInv'
<1> DEFINE m == Message(op, last_event_id_, n, raw, NewPromise(wanted))
<1>1. /\ last_event_id_' = last_event_id_ + n /\ held' = [held EXCEPT ![t] = m]
      /\ MakePromise(wanted, last_event_id_)
      /\ UNCHANGED <<owned, calls, channel, begin, end, slots, batch, log, flushed, stable,
                     need_flush_age, timerVars, running, sent, done, lost>>
  BY DEF TakeNumbers, NextEventId, processorVars, binlogVars
<1>2. TypeOK /\ last_event_id_ \in Nat /\ n \in Nat /\ covers \in Seq(Nat) /\ begin \in Nat
      /\ end \in Nat /\ begin <= end /\ end <= last_event_id_
  BY DEF IInv, TypeOK
<1>3. /\ covers' \in Seq(Nat)
      /\ \A p \in 1..Len(covers) : p \in 1..Len(covers') /\ covers'[p] = covers[p]
      /\ \A p, k : CoveredBy(p, k) => CoveredIn(covers', p, k)
      /\ NewPromise(wanted) \in Nat
      /\ NewPromise(wanted) # 0 =>
           /\ NewPromise(wanted) \in 1..Len(covers')
           /\ covers'[NewPromise(wanted)] = last_event_id_
  BY <1>1, <1>2, CoversGrow
<1>4. /\ m \in Messages /\ m.op = op /\ m.seq_no = last_event_id_ /\ m.n = n
      /\ m.promise = NewPromise(wanted)
  BY <1>2, <1>3 DEF Message, Messages
<1>5. \A k \in Numbers(m) : k \in Nat /\ last_event_id_ <= k /\ k < last_event_id_'
  BY <1>1, <1>2, <1>4 DEF Numbers
<1> HIDE DEF m
<1>6. \A u \in Threads : 
        /\ Places(u)' = Places(u)
        /\ \A i \in Places(u) : At(u, i)' = IF u = t /\ i = 0 THEN m ELSE At(u, i)
  BY <1>1, <1>2 DEF Places, At, TypeOK
<1>7. TypeOK'
  <2>1. held' \in [Threads -> Messages]
    BY <1>1, <1>2, <1>4 DEF TypeOK
  <2>2. last_event_id_' \in Nat /\ end' <= last_event_id_'
    BY <1>1, <1>2
  <2> QED
    BY <1>1, <1>2, <1>3, <2>1, <2>2 DEF TypeOK, timerVars
<1>8. LogInOrder' /\ Positions' /\ SlotsOrdered' /\ ForcedSyncsMoveOn'
  BY <1>1 DEF IInv, LogInOrder, Positions, SlotsOrdered, ForcedSyncsMoveOn, timerVars
<1>9. HeldShape'
  BY <1>1, <1>2, <1>4 DEF IInv, HeldShape, TypeOK
<1>10. \A u \in Threads : \A i \in Places(u) : \A k \in Numbers(At(u, i)) :
         k < last_event_id_
  BY DEF IInv, PlacesFresh, Fresh
<1>11. /\ Shape(m) /\ Apart(m, batch)
       /\ \A k \in Numbers(m) : begin <= k /\ k < last_event_id_' /\ k \notin DOMAIN slots
  <2>1. \A k \in DOMAIN slots : k < last_event_id_ /\ k \in Nat
    BY <1>2 DEF IInv, SlotsOrdered, TypeOK
  <2>2. \A k \in Numbers(batch) : k < last_event_id_
    BY DEF IInv, BatchFresh, Fresh
  <2>3. Shape(m)
    BY <1>4 DEF Shape, NewPromise
  <2>4. \A k \in Numbers(m) : begin <= k /\ k < last_event_id_' /\ k \notin DOMAIN slots
    BY <1>2, <1>5, <2>1
  <2>5. Apart(m, batch)
    BY <1>2, <1>5, <2>2 DEF Apart
  <2> QED
    BY <2>3, <2>4, <2>5
<1>12. PlacesFresh'
  <2> SUFFICES ASSUME NEW u \in Threads, NEW i \in Places(u)
               PROVE  (Shape(At(u, i)) /\ Fresh(At(u, i)) /\ Apart(At(u, i), batch))'
    BY <1>6 DEF PlacesFresh
  <2>1. Shape(At(u, i)) /\ Fresh(At(u, i)) /\ Apart(At(u, i), batch)
    BY DEF IInv, PlacesFresh
  <2>2. CASE u = t /\ i = 0
    <3>1. At(u, i)' = m
      BY <1>6, <2>2
    <3> QED
      BY <1>1, <1>11, <3>1 DEF Shape, Fresh, Apart, Numbers
  <2>3. CASE ~(u = t /\ i = 0)
    <3>1. At(u, i)' = At(u, i)
      BY <1>6, <2>3
    <3> QED
      BY <1>1, <1>2, <2>1, <3>1 DEF Shape, Fresh, Apart, Numbers
  <2> QED
    BY <2>2, <2>3
<1>13. PlacesApart'
  <2> SUFFICES ASSUME NEW u \in Threads, NEW v \in Threads, NEW i \in Places(u),
                      NEW j \in Places(v), u # v \/ i # j
               PROVE  Apart(At(u, i)', At(v, j)')
    BY <1>6 DEF PlacesApart, Apart, Numbers
  <2>1. Apart(At(u, i), At(v, j))
    BY DEF IInv, PlacesApart
  <2> QED
    BY <1>2, <1>5, <1>6, <1>10, <2>1, PlaceTypes, NumbersOf DEF Apart
<1>14. BatchFresh'
  BY <1>1, <1>2 DEF IInv, BatchFresh, Fresh, Shape, Numbers
<1>15. PromisesCovered'
  <2>1. \A u \in Threads : \A i \in Places(u) :
          At(u, i)'.promise # 0 =>
            /\ At(u, i)'.promise \in 1..Len(covers')
            /\ At(u, i)'.op = "add_raw_event" =>
                 CoveredIn(covers', At(u, i)'.promise, At(u, i)'.seq_no)
    <3> SUFFICES ASSUME NEW u \in Threads, NEW i \in Places(u), At(u, i)'.promise # 0
                 PROVE  /\ At(u, i)'.promise \in 1..Len(covers')
                        /\ At(u, i)'.op = "add_raw_event" =>
                             CoveredIn(covers', At(u, i)'.promise, At(u, i)'.seq_no)
      OBVIOUS
    <3>1. CASE u = t /\ i = 0
      BY <1>2, <1>3, <1>4, <1>6, <3>1 DEF CoveredBy, CoveredIn
    <3>2. CASE ~(u = t /\ i = 0)
      BY <1>3, <1>6, <3>2 DEF IInv, PromisesCovered, CoveredBy, CoveredIn
    <3> QED
      BY <3>1, <3>2
  <2>2. /\ \A k \in DOMAIN slots' : slots'[k].promise # 0 => CoveredIn(covers', slots'[k].promise, k)
        /\ \A r \in immediate_sync_promises_' : r[2] # 0 => CoveredIn(covers', r[2], r[1])
        /\ \A p \in sync_promises_' : CoveredIn(covers', p, begin' - 1)
        /\ \A p \in done' : CoveredIn(covers', p, FirstId + stable' - 1)
    BY <1>1, <1>3 DEF IInv, PromisesCovered, CoveredBy, CoveredIn, timerVars
  <2> QED
    BY <1>1, <1>6, <2>1, <2>2 DEF PromisesCovered, CoveredBy, CoveredIn
<1>16. SyncsFollow'
  <2> SUFFICES ASSUME running, NEW u \in Threads
               PROVE  /\ \A i \in 1..Len(channel[u]) :
                           channel[u][i].op = "force_sync" /\ channel[u][i].promise # 0 =>
                             SeenBefore(u, i, covers'[channel[u][i].promise])
                      /\ owned => SeenBefore(u, Len(channel[u]) + 1, sent[u])
    BY <1>1 DEF SyncsFollow, SeenBefore, SeenIn, Numbers
  <2>1. \A i \in 1..Len(channel[u]) : i \in Places(u) /\ At(u, i) = channel[u][i]
    BY <1>2, PlaceTypes DEF Places, At
  <2>2. \A i \in 1..Len(channel[u]) : channel[u][i].promise # 0 =>
          covers'[channel[u][i].promise] = covers[channel[u][i].promise]
    BY <1>3, <2>1 DEF IInv, PromisesCovered
  <2> QED
    BY <2>2 DEF IInv, SyncsFollow
<1> QED
  BY <1>7, <1>8, <1>9, <1>12, <1>13, <1>14, <1>15, <1>16 DEF IInv

(* send_closure: a held event moves to the end of its thread's channel.     *)
LEMMA SendPreserves ==
  ASSUME IInv, NEW t \in Threads, Send(t)
  PROVE  IInv'
<1> DEFINE L == Len(channel[t])
           From(u, i) == IF u = t /\ i = L + 1 THEN 0 ELSE i
<1>1. /\ held[t] # Nothing /\ Transmit(t, held[t])
      /\ held' = [held EXCEPT ![t] = Nothing]
      /\ sent' = [sent EXCEPT ![t] = held[t].seq_no + held[t].n - 1]
      /\ UNCHANGED <<last_event_id_, owned, calls, begin, end, slots, batch, log, flushed,
                     stable, need_flush_age, timerVars, running, covers, done>>
  BY DEF Send, processorVars, binlogVars
<1>2. /\ TypeOK /\ held[t] \in Messages /\ L \in Nat /\ held[t].promise \in Nat
      /\ channel[t] \in Seq(Messages)
  BY MessageFields, PlaceTypes DEF IInv, TypeOK
<1>3. /\ \/ owned /\ channel' = [channel EXCEPT ![t] = Append(channel[t], held[t])] /\ lost' = lost
         \/ ~owned /\ channel' = channel /\ lost' = lost \cup Given(held[t].promise)
  BY <1>1 DEF Transmit
<1>4. /\ At(t, 0) = held[t] /\ 0 \in Places(t)
      /\ held[t].op \in {"add_raw_event", "erase_batch"} /\ held[t].n >= 1
  <2>1. At(t, 0) = held[t] /\ 0 \in Places(t)
    BY <1>2 DEF At, Places
  <2>2. held[t].op \in {"add_raw_event", "erase_batch"}
    BY <1>1 DEF IInv, HeldShape
  <2>3. Shape(held[t])
    BY <2>1 DEF IInv, PlacesFresh
  <2> QED
    BY <2>1, <2>2, <2>3 DEF Shape
<1>5. /\ channel' \in [Threads -> Seq(Messages)]
      /\ \A u \in Threads : u # t => channel'[u] = channel[u]
      /\ \A i \in 1..L : channel'[t][i] = channel[t][i]
      /\ owned => Len(channel'[t]) = L + 1 /\ channel'[t][L + 1] = held[t]
      /\ ~owned => channel' = channel
  <2>1. CASE owned
    <3>1. /\ Append(channel[t], held[t]) \in Seq(Messages)
          /\ Len(Append(channel[t], held[t])) = L + 1
          /\ \A i \in 1..L : Append(channel[t], held[t])[i] = channel[t][i]
          /\ Append(channel[t], held[t])[L + 1] = held[t]
      BY <1>2, AppendProperties
    <3>2. channel' = [channel EXCEPT ![t] = Append(channel[t], held[t])]
      BY <1>3, <2>1
    <3> QED
      BY <1>2, <2>1, <3>1, <3>2 DEF TypeOK
  <2>2. CASE ~owned
    BY <1>2, <1>3, <2>2 DEF TypeOK
  <2> QED
    BY <2>1, <2>2
<1>6. \A u \in Threads : \A i \in Places(u)' :
        /\ i \in Nat
        /\ u = t /\ i = 0 => At(u, i)' = Nothing
        /\ ~(u = t /\ i = 0) => From(u, i) \in Places(u) /\ At(u, i)' = At(u, From(u, i))
  <2> SUFFICES ASSUME NEW u \in Threads, NEW i \in Places(u)'
               PROVE  /\ i \in Nat
                      /\ u = t /\ i = 0 => At(u, i)' = Nothing
                      /\ ~(u = t /\ i = 0) =>
                           From(u, i) \in Places(u) /\ At(u, i)' = At(u, From(u, i))
    OBVIOUS
  <2>1. i \in 0..Len(channel'[u]) /\ Len(channel'[u]) \in Nat /\ Len(channel[u]) \in Nat
    BY <1>2, <1>5, LenProperties DEF Places, TypeOK
  <2>2. held'[u] = IF u = t THEN Nothing ELSE held[u]
    BY <1>1, <1>2 DEF TypeOK
  <2>3. CASE u # t
    BY <1>5, <2>1, <2>2, <2>3 DEF Places, At
  <2>4. CASE u = t
    BY <1>2, <1>5, <2>1, <2>2, <2>4 DEF Places, At
  <2> QED
    BY <2>3, <2>4
<1>7. \A u, v \in Threads : \A i \in Places(u)', j \in Places(v)' :
        (u # v \/ i # j) /\ ~(u = t /\ i = 0) /\ ~(v = t /\ j = 0) =>
          u # v \/ From(u, i) # From(v, j)
  BY <1>2, <1>6
<1> HIDE DEF From
<1>8. TypeOK'
  <2>1. held' \in [Threads -> Messages] /\ sent' \in [Threads -> Nat] /\ lost' \subseteq Nat
    <3>1. held[t].seq_no + held[t].n - 1 \in Nat
      BY <1>2, <1>4, MessageFields
    <3>2. held' \in [Threads -> Messages]
      BY <1>1, <1>2, NothingType DEF TypeOK
    <3>3. sent' \in [Threads -> Nat]
      BY <1>1, <1>2, <3>1 DEF TypeOK
    <3>4. lost' \subseteq Nat
      BY <1>2, <1>3 DEF TypeOK, Given
    <3> QED
      BY <3>2, <3>3, <3>4
  <2> QED
    BY <1>1, <1>2, <1>5, <2>1 DEF TypeOK, timerVars
<1>9. LogInOrder' /\ Positions' /\ SlotsOrdered' /\ ForcedSyncsMoveOn' /\ BatchFresh'
  BY <1>1 DEF IInv, LogInOrder, Positions, SlotsOrdered, ForcedSyncsMoveOn, BatchFresh, Fresh,
              Shape, Numbers, timerVars
<1>10. HeldShape'
  BY <1>1, <1>2 DEF IInv, HeldShape, TypeOK
<1>11. PlacesFresh'
  <2> SUFFICES ASSUME NEW u \in Threads, NEW i \in Places(u)'
               PROVE  (Shape(At(u, i)) /\ Fresh(At(u, i)) /\ Apart(At(u, i), batch))'
    BY DEF PlacesFresh
  <2>1. CASE u = t /\ i = 0
    <3>1. At(u, i)' = Nothing
      BY <1>6, <2>1
    <3>2. Numbers(At(u, i)') = {}
      BY <3>1, NothingType
    <3> QED
      BY <3>1, <3>2, NothingType DEF Shape, Fresh, Apart, Numbers
  <2>2. CASE ~(u = t /\ i = 0)
    <3>1. At(u, i)' = At(u, From(u, i)) /\ From(u, i) \in Places(u)
      BY <1>6, <2>2
    <3>2. /\ Shape(At(u, From(u, i))) /\ Fresh(At(u, From(u, i)))
          /\ Apart(At(u, From(u, i)), batch)
      BY <3>1 DEF IInv, PlacesFresh
    <3> QED
      BY <1>1, <3>1, <3>2 DEF Shape, Fresh, Apart, Numbers
  <2> QED
    BY <2>1, <2>2
<1>12. PlacesApart'
  <2> SUFFICES ASSUME NEW u \in Threads, NEW v \in Threads, NEW i \in Places(u)',
                      NEW j \in Places(v)', u # v \/ i # j
               PROVE  Apart(At(u, i)', At(v, j)')
    BY DEF PlacesApart, Apart, Numbers
  <2>1. CASE (u = t /\ i = 0) \/ (v = t /\ j = 0)
    BY <1>6, <2>1, NothingType DEF Apart
  <2>2. CASE ~(u = t /\ i = 0) /\ ~(v = t /\ j = 0)
    <3>1. /\ At(u, i)' = At(u, From(u, i)) /\ From(u, i) \in Places(u)
          /\ At(v, j)' = At(v, From(v, j)) /\ From(v, j) \in Places(v)
          /\ u # v \/ From(u, i) # From(v, j)
      BY <1>6, <1>7, <2>2
    <3> QED
      BY <3>1 DEF IInv, PlacesApart
  <2> QED
    BY <2>1, <2>2
<1>13. PromisesCovered'
  <2>1. \A u \in Threads : \A i \in Places(u)' :
          At(u, i)'.promise # 0 =>
            /\ At(u, i)'.promise \in 1..Len(covers')
            /\ At(u, i)'.op = "add_raw_event" =>
                 CoveredIn(covers', At(u, i)'.promise, At(u, i)'.seq_no)
    <3> SUFFICES ASSUME NEW u \in Threads, NEW i \in Places(u)', At(u, i)'.promise # 0
                 PROVE  /\ At(u, i)'.promise \in 1..Len(covers')
                        /\ At(u, i)'.op = "add_raw_event" =>
                             CoveredIn(covers', At(u, i)'.promise, At(u, i)'.seq_no)
      OBVIOUS
    <3>1. ~(u = t /\ i = 0)
      BY <1>6, NothingType
    <3>2. At(u, i)' = At(u, From(u, i)) /\ From(u, i) \in Places(u)
      BY <1>6, <3>1
    <3> QED
      BY <1>1, <3>2 DEF IInv, PromisesCovered, CoveredBy
  <2>2. /\ \A k \in DOMAIN slots' : slots'[k].promise # 0 => CoveredIn(covers', slots'[k].promise, k)
        /\ \A r \in immediate_sync_promises_' : r[2] # 0 => CoveredIn(covers', r[2], r[1])
        /\ \A p \in sync_promises_' : CoveredIn(covers', p, begin' - 1)
        /\ \A p \in done' : CoveredIn(covers', p, FirstId + stable' - 1)
    BY <1>1 DEF IInv, PromisesCovered, CoveredBy, timerVars
  <2> QED
    BY <2>1, <2>2 DEF PromisesCovered, CoveredBy, CoveredIn
<1>14. SyncsFollow'
  <2> SUFFICES ASSUME running, NEW u \in Threads
               PROVE  /\ \A i \in 1..Len(channel'[u]) :
                           channel'[u][i].op = "force_sync" /\ channel'[u][i].promise # 0 =>
                             SeenBefore(u, i, covers[channel[u][i].promise])'
                      /\ owned => SeenBefore(u, Len(channel[u]) + 1, sent[u])'
    BY <1>1 DEF SyncsFollow
  <2>1. /\ \A i \in 1..Len(channel[u]) :
             channel[u][i].op = "force_sync" /\ channel[u][i].promise # 0 =>
               SeenBefore(u, i, covers[channel[u][i].promise])
        /\ owned => SeenBefore(u, Len(channel[u]) + 1, sent[u])
    BY DEF IInv, SyncsFollow
  <2>2. Len(channel[u]) \in Nat /\ Len(channel'[u]) \in Nat
    BY <1>2, <1>5, LenProperties DEF TypeOK
  <2>3. CASE u # t \/ ~owned
    <3>1. channel'[u] = channel[u] /\ (owned => sent'[u] = sent[u])
      BY <1>1, <1>2, <1>5, <2>3 DEF TypeOK
    <3> QED
      BY <1>1, <2>1, <3>1 DEF SeenBefore, SeenIn, Numbers
  <2>4. CASE u = t /\ owned
    <3>1. /\ Len(channel'[u]) = L + 1 /\ channel'[u][L + 1] = held[t]
          /\ \A i \in 1..L : channel'[u][i] = channel[u][i]
      BY <1>5, <2>4
    <3>2. sent'[u] \in Numbers(channel'[u][L + 1])
      BY <1>1, <1>2, <1>4, <2>4, <3>1, NumbersOf DEF TypeOK
    <3>3. SeenBefore(u, Len(channel[u]) + 1, sent[u])'
      BY <1>2, <3>1, <3>2, SMTT(30) DEF SeenBefore, SeenIn, Numbers
    <3>4. ASSUME NEW i \in 1..Len(channel'[u]),
                 channel'[u][i].op = "force_sync" /\ channel'[u][i].promise # 0
          PROVE  SeenBefore(u, i, covers[channel[u][i].promise])'
      <4>1. i \in 1..L
        BY <1>2, <1>4, <3>1, <3>4
      <4>2. SeenBefore(u, i, covers[channel[u][i].promise]) /\ channel'[u][i] = channel[u][i]
        BY <2>1, <2>4, <3>1, <3>4, <4>1
      <4> QED
        BY <1>1, <1>2, <2>4, <3>1, <4>1, <4>2, SMTT(30) DEF SeenBefore, SeenIn, Numbers
    <3> QED
      BY <3>3, <3>4
  <2> QED
    BY <2>3, <2>4
<1> QED
  BY <1>8, <1>9, <1>10, <1>11, <1>12, <1>13, <1>14 DEF IInv

(* A call that carries no number: its message goes to the end of the        *)
(* channel, and a promise in it covers what the thread has sent.            *)
LEMMA CallPreserves ==
  ASSUME IInv, owned, NEW t \in Threads, NEW m \in Messages,
         m.op \notin {"add_raw_event", "erase_batch"}, m.n = 0,
         channel' = [channel EXCEPT ![t] = Append(channel[t], m)],
         covers' \in Seq(Nat),
         \A p \in 1..Len(covers) : p \in 1..Len(covers') /\ covers'[p] = covers[p],
         m.promise # 0 => m.promise \in 1..Len(covers') /\ covers'[m.promise] = sent[t],
         owned' \in BOOLEAN, calls' \in Nat,
         UNCHANGED <<last_event_id_, held, begin, end, slots, batch, log, flushed, stable,
                     need_flush_age, timerVars, running, sent, done, lost>>
  PROVE  IInv'
<1> DEFINE L == Len(channel[t])
<1>1. TypeOK /\ channel[t] \in Seq(Messages) /\ L \in Nat /\ Numbers(m) = {}
  BY PlaceTypes, NumbersOf DEF IInv
<1>2. /\ channel' \in [Threads -> Seq(Messages)]
      /\ \A u \in Threads : u # t => channel'[u] = channel[u]
      /\ Len(channel'[t]) = L + 1 /\ channel'[t][L + 1] = m
      /\ \A i \in 1..L : channel'[t][i] = channel[t][i]
  <2>1. /\ Append(channel[t], m) \in Seq(Messages) /\ Len(Append(channel[t], m)) = L + 1
        /\ \A i \in 1..L : Append(channel[t], m)[i] = channel[t][i]
        /\ Append(channel[t], m)[L + 1] = m
    BY <1>1, AppendProperties
  <2> QED
    BY <1>1, <2>1 DEF TypeOK
<1>3. \A u \in Threads : \A i \in Places(u)' :
        /\ u = t /\ i = L + 1 => At(u, i)' = m
        /\ ~(u = t /\ i = L + 1) => i \in Places(u) /\ At(u, i)' = At(u, i)
  <2> SUFFICES ASSUME NEW u \in Threads, NEW i \in Places(u)'
               PROVE  /\ u = t /\ i = L + 1 => At(u, i)' = m
                      /\ ~(u = t /\ i = L + 1) => i \in Places(u) /\ At(u, i)' = At(u, i)
    OBVIOUS
  <2>1. i \in 0..Len(channel'[u]) /\ Len(channel'[u]) \in Nat /\ Len(channel[u]) \in Nat
    BY <1>1, <1>2, LenProperties DEF Places, TypeOK
  <2>2. CASE u # t
    BY <1>2, <2>1, <2>2 DEF Places, At
  <2>3. CASE u = t
    BY <1>1, <1>2, <2>1, <2>3 DEF Places, At
  <2> QED
    BY <2>2, <2>3
<1>4. \A p, n : CoveredBy(p, n) => CoveredIn(covers', p, n)
  BY DEF CoveredBy, CoveredIn
<1>5. TypeOK'
  BY <1>1, <1>2 DEF TypeOK, timerVars
<1>6. /\ LogInOrder' /\ Positions' /\ SlotsOrdered' /\ ForcedSyncsMoveOn' /\ BatchFresh'
      /\ HeldShape'
  BY DEF IInv, LogInOrder, Positions, SlotsOrdered, ForcedSyncsMoveOn, BatchFresh, Fresh, Shape,
         Numbers, HeldShape, timerVars
<1>7. PlacesFresh'
  <2> SUFFICES ASSUME NEW u \in Threads, NEW i \in Places(u)'
               PROVE  (Shape(At(u, i)) /\ Fresh(At(u, i)) /\ Apart(At(u, i), batch))'
    BY DEF PlacesFresh
  <2>1. CASE u = t /\ i = L + 1
    <3>1. At(u, i)' = m
      BY <1>3, <2>1
    <3>2. Numbers(At(u, i)') = {}
      BY <1>1, <3>1
    <3> QED
      BY <3>1, <3>2 DEF Shape, Fresh, Apart, Numbers
  <2>2. CASE ~(u = t /\ i = L + 1)
    <3>1. At(u, i)' = At(u, i) /\ i \in Places(u)
      BY <1>3, <2>2
    <3>2. Shape(At(u, i)) /\ Fresh(At(u, i)) /\ Apart(At(u, i), batch)
      BY <3>1 DEF IInv, PlacesFresh
    <3> QED
      BY <3>1, <3>2 DEF Shape, Fresh, Apart, Numbers
  <2> QED
    BY <2>1, <2>2
<1>8. PlacesApart'
  <2> SUFFICES ASSUME NEW u \in Threads, NEW v \in Threads, NEW i \in Places(u)',
                      NEW j \in Places(v)', u # v \/ i # j
               PROVE  Apart(At(u, i)', At(v, j)')
    BY DEF PlacesApart, Apart, Numbers
  <2>1. CASE (u = t /\ i = L + 1) \/ (v = t /\ j = L + 1)
    BY <1>1, <1>3, <2>1 DEF Apart
  <2>2. CASE ~(u = t /\ i = L + 1) /\ ~(v = t /\ j = L + 1)
    <3>1. /\ At(u, i)' = At(u, i) /\ i \in Places(u)
          /\ At(v, j)' = At(v, j) /\ j \in Places(v)
      BY <1>3, <2>2
    <3> QED
      BY <3>1 DEF IInv, PlacesApart
  <2> QED
    BY <2>1, <2>2
<1>9. PromisesCovered'
  <2>1. \A u \in Threads : \A i \in Places(u)' :
          At(u, i)'.promise # 0 =>
            /\ At(u, i)'.promise \in 1..Len(covers')
            /\ At(u, i)'.op = "add_raw_event" =>
                 CoveredIn(covers', At(u, i)'.promise, At(u, i)'.seq_no)
    <3> SUFFICES ASSUME NEW u \in Threads, NEW i \in Places(u)', At(u, i)'.promise # 0
                 PROVE  /\ At(u, i)'.promise \in 1..Len(covers')
                        /\ At(u, i)'.op = "add_raw_event" =>
                             CoveredIn(covers', At(u, i)'.promise, At(u, i)'.seq_no)
      OBVIOUS
    <3>1. CASE u = t /\ i = L + 1
      BY <1>3, <3>1
    <3>2. CASE ~(u = t /\ i = L + 1)
      BY <1>3, <1>4, <3>2 DEF IInv, PromisesCovered
    <3> QED
      BY <3>1, <3>2
  <2>2. /\ \A k \in DOMAIN slots' : slots'[k].promise # 0 => CoveredIn(covers', slots'[k].promise, k)
        /\ \A r \in immediate_sync_promises_' : r[2] # 0 => CoveredIn(covers', r[2], r[1])
        /\ \A p \in sync_promises_' : CoveredIn(covers', p, begin' - 1)
        /\ \A p \in done' : CoveredIn(covers', p, FirstId + stable' - 1)
    BY <1>4 DEF IInv, PromisesCovered, timerVars
  <2> QED
    BY <2>1, <2>2 DEF PromisesCovered, CoveredBy, CoveredIn
<1>10. SyncsFollow'
  <2> SUFFICES ASSUME running, NEW u \in Threads
               PROVE  /\ \A i \in 1..Len(channel'[u]) :
                           channel'[u][i].op = "force_sync" /\ channel'[u][i].promise # 0 =>
                             SeenIn(channel'[u], batch', end', i, covers'[channel'[u][i].promise])
                      /\ SeenIn(channel'[u], batch', end', Len(channel'[u]) + 1, sent'[u])
    BY DEF SyncsFollow, SeenBefore
  <2>1. /\ \A i \in 1..Len(channel[u]) :
             channel[u][i].op = "force_sync" /\ channel[u][i].promise # 0 =>
               SeenIn(channel[u], batch, end, i, covers[channel[u][i].promise])
        /\ SeenIn(channel[u], batch, end, Len(channel[u]) + 1, sent[u])
    BY DEF IInv, SyncsFollow, SeenBefore
  <2>2. Len(channel[u]) \in Nat /\ Len(channel'[u]) \in Nat
    BY <1>1, <1>2, LenProperties DEF TypeOK
  <2>3. /\ Len(channel[u]) <= Len(channel'[u])
        /\ \A i \in 1..Len(channel[u]) : channel'[u][i] = channel[u][i]
    BY <1>1, <1>2, <2>2
  <2>4. \A k, h \in Nat : \A n :
          k <= Len(channel[u]) + 1 /\ k <= h /\ SeenIn(channel[u], batch, end, k, n) =>
            SeenIn(channel'[u], batch', end', h, n)
    BY <2>2, <2>3 DEF SeenIn
  <2>5. SeenIn(channel'[u], batch', end', Len(channel'[u]) + 1, sent'[u])
    BY <2>1, <2>2, <2>3, <2>4
  <2>6. ASSUME NEW i \in 1..Len(channel'[u]),
               channel'[u][i].op = "force_sync" /\ channel'[u][i].promise # 0
        PROVE  SeenIn(channel'[u], batch', end', i, covers'[channel'[u][i].promise])
    <3>1. CASE u = t /\ i = L + 1
      <4>1. covers'[channel'[u][i].promise] = sent[u]
        BY <1>2, <2>6, <3>1
      <4> QED
        BY <1>1, <2>1, <2>2, <2>4, <3>1, <4>1
    <3>2. CASE ~(u = t /\ i = L + 1)
      <4>1. i \in 1..Len(channel[u]) /\ i \in Nat
        BY <1>1, <1>2, <2>2, <3>2
      <4>2. channel'[u][i] = channel[u][i]
        BY <2>3, <4>1
      <4>3. i \in Places(u) /\ At(u, i) = channel[u][i]
        BY <2>2, <4>1 DEF Places, At
      <4>4. covers'[channel[u][i].promise] = covers[channel[u][i].promise]
        BY <2>6, <4>2, <4>3, SMTT(30) DEF IInv, PromisesCovered
      <4>5. SeenIn(channel[u], batch, end, i, covers'[channel[u][i].promise])
        BY <2>1, <2>6, <4>1, <4>2, <4>4
      <4> QED
        BY <2>2, <2>4, <4>1, <4>2, <4>5
    <3> QED
      BY <3>1, <3>2
  <2> QED
    BY <2>5, <2>6
<1> QED
  BY <1>5, <1>6, <1>7, <1>8, <1>9, <1>10 DEF IInv

(* All steps of a client thread.                                            *)
LEMMA ClientPreserves ==
  ASSUME IInv, NEW t \in Threads, Client(t)
  PROVE  IInv'
<1> USE DEF processorVars, binlogVars
<1>0. covers \in Seq(Nat) /\ calls \in Nat /\ sent[t] \in Nat /\ Len(covers) \in Nat
  BY LenProperties DEF IInv, TypeOK
<1>1. CASE BeginAdd(t)
  BY <1>1, TakeNumbersPreserves DEF BeginAdd
<1>2. CASE BeginEraseBatch(t)
  BY <1>2, TakeNumbersPreserves DEF BeginEraseBatch
<1>3. CASE Send(t)
  BY <1>3, SendPreserves
<1>4. ASSUME NEW op \in {"force_sync", "force_flush", "change_key"}, NEW wanted \in BOOLEAN,
             Call(t, op, wanted)
      PROVE  IInv'
  <2> DEFINE m == Message(op, 0, 0, FALSE, NewPromise(wanted))
  <2>1. MakePromise(wanted, sent[t])
    BY <1>4 DEF Call
  <2>2. /\ covers' \in Seq(Nat)
        /\ \A p \in 1..Len(covers) : p \in 1..Len(covers') /\ covers'[p] = covers[p]
        /\ NewPromise(wanted) \in Nat
        /\ NewPromise(wanted) # 0 =>
             NewPromise(wanted) \in 1..Len(covers') /\ covers'[NewPromise(wanted)] = sent[t]
    BY <1>0, <2>1, CoversGrow
  <2>3. m \in Messages /\ m.op = op /\ m.n = 0 /\ m.promise = NewPromise(wanted)
    BY <2>2 DEF Message, Messages
  <2> HIDE DEF m
  <2>4. /\ owned /\ channel' = [channel EXCEPT ![t] = Append(channel[t], m)]
        /\ UNCHANGED <<last_event_id_, held, begin, end, slots, batch, log, flushed, stable,
                       need_flush_age, timerVars, running, sent, done, lost>>
        /\ owned' = owned /\ calls' = calls + 1
    BY <1>4 DEF Call, Transmit, m
  <2>5. owned' \in BOOLEAN /\ calls' \in Nat
    BY <1>0, <2>4 DEF IInv, TypeOK
  <2>6. m.promise # 0 => m.promise \in 1..Len(covers') /\ covers'[m.promise] = sent[t]
    BY <2>2, <2>3
  <2>7. m.op \notin {"add_raw_event", "erase_batch"}
    BY <2>3
  <2> QED
    BY <2>2, <2>3, <2>4, <2>5, <2>6, <2>7, CallPreserves
<1>5. CASE ForceSync(t)
  BY <1>4, <1>5 DEF ForceSync
<1>6. CASE ForceFlush(t)
  BY <1>4, <1>6 DEF ForceFlush
<1>7. CASE ChangeKey(t)
  BY <1>4, <1>7 DEF ChangeKey
<1>8. ASSUME NEW op \in {"close", "close_and_destroy"}, Close(t, op)
      PROVE  IInv'
  <2> DEFINE m == Message(op, 0, 0, FALSE, 0)
  <2>1. m \in Messages /\ m.op = op /\ m.n = 0 /\ m.promise = 0
    BY DEF Message, Messages
  <2> HIDE DEF m
  <2>2. /\ owned /\ channel' = [channel EXCEPT ![t] = Append(channel[t], m)]
        /\ UNCHANGED <<last_event_id_, held, begin, end, slots, batch, log, flushed, stable,
                       need_flush_age, timerVars, running, sent, done, lost>>
        /\ owned' = FALSE /\ calls' = calls /\ covers' = covers
    BY <1>8 DEF Close, Transmit, m
  <2>3. m.op \notin {"add_raw_event", "erase_batch"}
    BY <2>1
  <2>4. /\ owned' \in BOOLEAN /\ calls' \in Nat /\ covers' \in Seq(Nat)
        /\ \A p \in 1..Len(covers) : p \in 1..Len(covers') /\ covers'[p] = covers[p]
    BY <1>0, <2>2
  <2>5. m.promise # 0 => m.promise \in 1..Len(covers') /\ covers'[m.promise] = sent[t]
    BY <2>1
  <2> QED
    BY <2>1, <2>2, <2>3, <2>4, <2>5, CallPreserves
<1> QED
  BY <1>1, <1>2, <1>3, <1>5, <1>6, <1>7, <1>8 DEF Client

-----------------------------------------------------------------------------
(* The steps of the actor. *)

(* Where place i of thread u was before the first message of t was taken.   *)
Before(t, u, i) == IF u = t /\ i # 0 THEN i + 1 ELSE i

(* The places after a message was taken are the old ones without the first. *)
LEMMA TakenMessage ==
  ASSUME TypeOK, NEW t \in Threads, channel[t] # <<>>, UNCHANGED held,
         channel' = [channel EXCEPT ![t] = Tail(channel[t])]
  PROVE  /\ channel' \in [Threads -> Seq(Messages)]
         /\ Head(channel[t]) = At(t, 1) /\ Head(channel[t]) = channel[t][1] /\ 1 \in Places(t)
         /\ Head(channel[t]) \in Messages
         /\ \A u \in Threads : u # t => channel'[u] = channel[u]
         /\ Len(channel[t]) \in Nat /\ 1 <= Len(channel[t])
         /\ Len(channel'[t]) = Len(channel[t]) - 1
         /\ \A i \in 1..Len(channel'[t]) : channel'[t][i] = channel[t][i + 1]
         /\ \A u \in Threads : \A i \in Places(u)' :
              /\ Before(t, u, i) \in Places(u) /\ (u # t \/ Before(t, u, i) # 1)
              /\ At(u, i)' = At(u, Before(t, u, i))
         /\ \A u, v \in Threads : \A i \in Places(u)', j \in Places(v)' :
              u # v \/ i # j => u # v \/ Before(t, u, i) # Before(t, v, j)
<1>1. channel[t] \in Seq(Messages) /\ Len(channel[t]) \in Nat
  BY PlaceTypes
<1>2. /\ Head(channel[t]) = channel[t][1] /\ Tail(channel[t]) \in Seq(Messages)
      /\ Len(Tail(channel[t])) = Len(channel[t]) - 1 /\ 1 <= Len(channel[t])
      /\ \A i \in 1..Len(Tail(channel[t])) : Tail(channel[t])[i] = channel[t][i + 1]
  BY <1>1, HeadTailProperties, EmptySeq
<1>3. /\ channel' \in [Threads -> Seq(Messages)] /\ channel'[t] = Tail(channel[t])
      /\ \A u \in Threads : u # t => channel'[u] = channel[u]
  BY <1>2 DEF TypeOK
<1>4. Head(channel[t]) = At(t, 1) /\ 1 \in Places(t) /\ Head(channel[t]) \in Messages
  BY <1>1, <1>2, PlaceTypes DEF At, Places
<1>5. ASSUME NEW u \in Threads, NEW i \in Places(u)'
      PROVE  /\ i \in Nat
             /\ Before(t, u, i) \in Places(u) /\ (u # t \/ Before(t, u, i) # 1)
             /\ At(u, i)' = At(u, Before(t, u, i))
  <2>1. i \in 0..Len(channel'[u]) /\ Len(channel'[u]) \in Nat /\ Len(channel[u]) \in Nat
    BY <1>3, PlaceTypes, LenProperties DEF Places, TypeOK
  <2>2. CASE u # t
    BY <1>3, <2>1, <2>2 DEF Places, At, Before
  <2>3. CASE u = t
    BY <1>1, <1>2, <1>3, <2>1, <2>3 DEF Places, At, Before
  <2> QED
    BY <2>1, <2>2, <2>3
<1>6. \A u, v \in Threads : \A i \in Places(u)', j \in Places(v)' :
        u # v \/ i # j => u # v \/ Before(t, u, i) # Before(t, v, j)
  BY <1>5 DEF Before
<1> QED
  BY <1>1, <1>2, <1>3, <1>4, <1>5, <1>6

(* Taking a message leaves the other places as they are, if the step keeps  *)
(* their numbers ahead of begin, out of the slots and out of the batch.     *)
LEMMA PlacesAfterTaking ==
  ASSUME IInv, NEW t \in Threads, channel[t] # <<>>,
         channel' = [channel EXCEPT ![t] = Tail(channel[t])],
         UNCHANGED <<held, last_event_id_, covers>>,
         \A u \in Threads : \A i \in Places(u) : u # t \/ i # 1 =>
           /\ \A k \in Numbers(At(u, i)) : begin' <= k /\ k \notin DOMAIN slots'
           /\ Apart(At(u, i), batch')
  PROVE  /\ HeldShape' /\ PlacesFresh' /\ PlacesApart'
         /\ \A u \in Threads : \A i \in Places(u)' :
              At(u, i)'.promise # 0 =>
                /\ At(u, i)'.promise \in 1..Len(covers')
                /\ At(u, i)'.op = "add_raw_event" =>
                     CoveredIn(covers', At(u, i)'.promise, At(u, i)'.seq_no)
<1>1. \A u \in Threads : \A i \in Places(u)' :
        /\ Before(t, u, i) \in Places(u) /\ (u # t \/ Before(t, u, i) # 1)
        /\ At(u, i)' = At(u, Before(t, u, i))
  BY TakenMessage DEF IInv
<1>2. \A u, v \in Threads : \A i \in Places(u)', j \in Places(v)' :
        u # v \/ i # j => u # v \/ Before(t, u, i) # Before(t, v, j)
  BY TakenMessage DEF IInv
<1>3. HeldShape'
  BY DEF IInv, HeldShape
<1>4. PlacesFresh'
  <2> SUFFICES ASSUME NEW u \in Threads, NEW i \in Places(u)'
               PROVE  (Shape(At(u, i)) /\ Fresh(At(u, i)) /\ Apart(At(u, i), batch))'
    BY DEF PlacesFresh
  <2> DEFINE b == Before(t, u, i)
  <2>1. At(u, i)' = At(u, b) /\ b \in Places(u) /\ (u # t \/ b # 1)
    BY <1>1
  <2> HIDE DEF b
  <2>2. Shape(At(u, b)) /\ Fresh(At(u, b))
    BY <2>1 DEF IInv, PlacesFresh
  <2>3. /\ \A k \in Numbers(At(u, b)) : begin' <= k /\ k \notin DOMAIN slots'
        /\ Apart(At(u, b), batch')
    BY <2>1
  <2> QED
    BY <2>1, <2>2, <2>3 DEF Shape, Fresh, Apart, Numbers
<1>5. PlacesApart'
  <2> SUFFICES ASSUME NEW u \in Threads, NEW v \in Threads, NEW i \in Places(u)',
                      NEW j \in Places(v)', u # v \/ i # j
               PROVE  Apart(At(u, i)', At(v, j)')
    BY DEF PlacesApart, Apart, Numbers
  <2> DEFINE b == Before(t, u, i)
             c == Before(t, v, j)
  <2>1. /\ At(u, i)' = At(u, b) /\ b \in Places(u) /\ At(v, j)' = At(v, c) /\ c \in Places(v)
        /\ u # v \/ b # c
    BY <1>1, <1>2
  <2> HIDE DEF b, c
  <2> QED
    BY <2>1 DEF IInv, PlacesApart
<1>6. \A u \in Threads : \A i \in Places(u)' :
        At(u, i)'.promise # 0 =>
          /\ At(u, i)'.promise \in 1..Len(covers')
          /\ At(u, i)'.op = "add_raw_event" =>
               CoveredIn(covers', At(u, i)'.promise, At(u, i)'.seq_no)
  <2> SUFFICES ASSUME NEW u \in Threads, NEW i \in Places(u)', At(u, i)'.promise # 0
               PROVE  /\ At(u, i)'.promise \in 1..Len(covers')
                      /\ At(u, i)'.op = "add_raw_event" =>
                           CoveredIn(covers', At(u, i)'.promise, At(u, i)'.seq_no)
    OBVIOUS
  <2> DEFINE b == Before(t, u, i)
  <2>1. At(u, i)' = At(u, b) /\ b \in Places(u)
    BY <1>1
  <2> HIDE DEF b
  <2> QED
    BY <2>1 DEF IInv, PromisesCovered, CoveredBy
<1> QED
  BY <1>3, <1>4, <1>5, <1>6

(* The numbers of the message that was taken have been seen, or are in the  *)
(* batch now.                                                               *)
LEMMA SyncsAfterTaking ==
  ASSUME IInv, NEW t \in Threads, channel[t] # <<>>,
         channel' = [channel EXCEPT ![t] = Tail(channel[t])],
         UNCHANGED <<held, owned, sent, covers>>,
         running' => running, end \in Int, end' \in Int, end <= end',
         running' => \A n \in Numbers(batch) \cup Numbers(channel[t][1]) :
                       n \in Nat /\ (n < end' \/ n \in Numbers(batch'))
  PROVE  SyncsFollow'
<1> SUFFICES ASSUME running', NEW u \in Threads
             PROVE  /\ \A i \in 1..Len(channel'[u]) :
                         channel'[u][i].op = "force_sync" /\ channel'[u][i].promise # 0 =>
                           SeenIn(channel'[u], batch', end', i, covers'[channel'[u][i].promise])
                    /\ owned' =>
                         SeenIn(channel'[u], batch', end', Len(channel'[u]) + 1, sent'[u])
  BY DEF SyncsFollow, SeenBefore
<1>1. /\ \A i \in 1..Len(channel[u]) :
           channel[u][i].op = "force_sync" /\ channel[u][i].promise # 0 =>
             SeenIn(channel[u], batch, end, i, covers[channel[u][i].promise])
      /\ owned => SeenIn(channel[u], batch, end, Len(channel[u]) + 1, sent[u])
  BY DEF IInv, SyncsFollow, SeenBefore
<1>2. /\ channel' \in [Threads -> Seq(Messages)]
      /\ u # t => channel'[u] = channel[u]
      /\ u = t => /\ Len(channel'[u]) = Len(channel[u]) - 1
                  /\ \A i \in 1..Len(channel'[u]) : channel'[u][i] = channel[u][i + 1]
  BY TakenMessage DEF IInv
<1>3. Len(channel[u]) \in Nat /\ Len(channel'[u]) \in Nat
  BY <1>2, LenProperties, PlaceTypes DEF IInv
<1>4. sent[u] \in Nat /\ \A p \in 1..Len(covers) : covers[p] \in Nat
  BY ElementOfSeq DEF IInv, TypeOK
<1>5. CASE u # t
  <2>1. \A k \in Nat, n \in Nat : SeenIn(channel[u], batch, end, k, n) =>
          SeenIn(channel'[u], batch', end', k, n)
    BY <1>2, <1>5 DEF SeenIn
  <2>2. \A i \in 1..Len(channel[u]) : channel[u][i].promise # 0 =>
          covers[channel[u][i].promise] \in Nat
    <3>1. \A i \in 1..Len(channel[u]) : i \in Places(u) /\ At(u, i) = channel[u][i]
      BY <1>3 DEF Places, At
    <3> QED
      BY <1>4, <3>1 DEF IInv, PromisesCovered
  <2> QED
    BY <1>1, <1>2, <1>3, <1>4, <1>5, <2>1, <2>2
<1>6. CASE u = t
  <2>1. ASSUME NEW k \in Nat, NEW n \in Nat, SeenIn(channel[u], batch, end, k + 1, n)
        PROVE  SeenIn(channel'[u], batch', end', k, n)
    <3>1. CASE n < end \/ n \in Numbers(batch) \/ n \in Numbers(channel[t][1])
      BY <3>1 DEF SeenIn
    <3>2. CASE ~(n < end \/ n \in Numbers(batch) \/ n \in Numbers(channel[t][1]))
      <4>1. PICK j \in 1..Len(channel[u]) : j < k + 1 /\ n \in Numbers(channel[u][j])
        BY <2>1, <3>2 DEF SeenIn
      <4>2. j # 1
        BY <1>6, <3>2, <4>1
      <4>3. /\ j - 1 \in 1..Len(channel'[u]) /\ j - 1 < k
            /\ channel'[u][j - 1] = channel[u][j]
        BY <1>2, <1>3, <1>6, <4>1, <4>2
      <4> QED
        BY <4>1, <4>3 DEF SeenIn
    <3> QED
      BY <3>1, <3>2
  <2>2. owned' => SeenIn(channel'[u], batch', end', Len(channel'[u]) + 1, sent'[u])
    <3>1. Len(channel'[u]) + 1 \in Nat /\ Len(channel'[u]) + 1 = Len(channel[u])
      BY <1>2, <1>3, <1>6
    <3>2. owned => SeenIn(channel[u], batch, end, Len(channel[u]) + 1, sent[u])
      BY <1>1
    <3> QED
      BY <1>4, <2>1, <3>1, <3>2
  <2>3. ASSUME NEW i \in 1..Len(channel'[u]),
               channel'[u][i].op = "force_sync" /\ channel'[u][i].promise # 0
        PROVE  SeenIn(channel'[u], batch', end', i, covers'[channel'[u][i].promise])
    <3>1. i \in Nat /\ i + 1 \in 1..Len(channel[u]) /\ channel'[u][i] = channel[u][i + 1]
      BY <1>2, <1>3, <1>6
    <3>2. i + 1 \in Places(u) /\ At(u, i + 1) = channel[u][i + 1]
      BY <1>3, <3>1 DEF Places, At
    <3>3. covers[channel[u][i + 1].promise] \in Nat
      BY <1>4, <2>3, <3>1, <3>2 DEF IInv, PromisesCovered
    <3>4. SeenIn(channel[u], batch, end, i + 1, covers[channel[u][i + 1].promise])
      BY <1>1, <2>3, <3>1
    <3> QED
      BY <2>1, <3>1, <3>3, <3>4
  <2> QED
    BY <2>2, <2>3
<1> QED
  BY <1>5, <1>6

(* add_raw_event moves promises only to where they are covered.             *)
LEMMA PromisesAfterAdding ==
  ASSUME IInv, UNCHANGED <<last_event_id_, covers, done>>,
         NEW seq_no \in Nat, NEW event \in Messages, event.seq_no = seq_no,
         event.promise # 0 => CoveredBy(event.promise, seq_no),
         begin <= seq_no, seq_no < last_event_id_, seq_no \notin DOMAIN slots,
         AddRawEvent(seq_no, event)
  PROVE  /\ \A k \in DOMAIN slots' : slots'[k].promise # 0 => CoveredIn(covers', slots'[k].promise, k)
         /\ \A r \in immediate_sync_promises_' : r[2] # 0 => CoveredIn(covers', r[2], r[1])
         /\ \A p \in sync_promises_' : CoveredIn(covers', p, begin' - 1)
         /\ \A p \in done' : CoveredIn(covers', p, FirstId + stable' - 1)
<1>1. /\ TypeOK /\ LogInOrder /\ Positions /\ SlotsOrdered
      /\ covers \in Seq(Nat) /\ begin \in Nat /\ stable \in Nat
      /\ immediate_sync_promises_ \subseteq Nat \X Nat /\ DOMAIN slots \subseteq Nat
      /\ \A p \in 1..Len(covers) : covers[p] \in Nat
  BY ElementOfSeq DEF IInv, TypeOK
<1>2. \A r \in immediate_sync_promises_ : r[1] \in Nat /\ r[2] \in Nat
  BY <1>1
<1>3. /\ begin' \in Nat /\ begin <= begin' /\ stable' \in Nat /\ stable <= stable'
      /\ \A n \in DOMAIN slots' :
           /\ n = seq_no \/ n \in DOMAIN slots
           /\ slots'[n] = IF n = seq_no THEN event ELSE slots[n]
      /\ \A p \in sync_promises_' :
           \/ p \in sync_promises_
           \/ p # 0 /\ p = event.promise /\ seq_no < begin'
           \/ \E n \in DOMAIN slots : p # 0 /\ p = slots[n].promise /\ n < begin'
           \/ \E r \in immediate_sync_promises_ : p = r[2] /\ r[2] # 0 /\ r[1] < begin'
      /\ \A r \in immediate_sync_promises_' : r \in immediate_sync_promises_
  BY <1>1, AddRawEventEffect, SMTT(30)
<1>4. /\ \A n \in DOMAIN slots : slots[n].promise # 0 => CoveredIn(covers, slots[n].promise, n)
      /\ \A r \in immediate_sync_promises_ : r[2] # 0 => CoveredIn(covers, r[2], r[1])
      /\ \A p \in sync_promises_ : CoveredIn(covers, p, begin - 1)
      /\ \A p \in done : CoveredIn(covers, p, FirstId + stable - 1)
      /\ event.promise # 0 => CoveredIn(covers, event.promise, seq_no)
  BY DEF IInv, PromisesCovered, CoveredBy
<1>5. ASSUME NEW p, NEW k \in Int, NEW n \in Int, k <= n, CoveredIn(covers, p, k)
      PROVE  CoveredIn(covers', p, n)
  BY <1>1, <1>5 DEF CoveredIn
<1>6. \A p \in sync_promises_' : CoveredIn(covers', p, begin' - 1)
  <2> SUFFICES ASSUME NEW p \in sync_promises_'
               PROVE  CoveredIn(covers', p, begin' - 1)
    OBVIOUS
  <2>1. CASE p \in sync_promises_
    <3>1. begin - 1 \in Int /\ begin' - 1 \in Int /\ begin - 1 <= begin' - 1
      BY <1>1, <1>3, OneLess
    <3>2. CoveredIn(covers, p, begin - 1)
      BY <1>4, <2>1
    <3> QED
      BY <1>5, <3>1, <3>2
  <2>2. CASE p # 0 /\ p = event.promise /\ seq_no < begin'
    BY <1>3, <1>4, <1>5, <2>2
  <2>3. CASE \E n \in DOMAIN slots : p # 0 /\ p = slots[n].promise /\ n < begin'
    <3>1. PICK n \in DOMAIN slots : p # 0 /\ p = slots[n].promise /\ n < begin'
      BY <2>3
    <3>2. CoveredIn(covers, p, n)
      BY <1>4, <3>1
    <3>3. n \in Int /\ begin' - 1 \in Int /\ n <= begin' - 1
      BY <1>1, <1>3, <3>1
    <3> QED
      BY <1>5, <3>2, <3>3
  <2>4. CASE \E r \in immediate_sync_promises_ : p = r[2] /\ r[2] # 0 /\ r[1] < begin'
    <3>1. PICK r \in immediate_sync_promises_ : p = r[2] /\ r[2] # 0 /\ r[1] < begin'
      BY <2>4
    <3>2. CoveredIn(covers, p, r[1])
      BY <1>4, <3>1
    <3>3. r[1] \in Int /\ begin' - 1 \in Int /\ r[1] <= begin' - 1
      BY <1>2, <1>3, <3>1
    <3> QED
      BY <1>5, <3>2, <3>3
  <2> QED
    BY <1>3, <2>1, <2>2, <2>3, <2>4
<1>7. \A p \in done' : CoveredIn(covers', p, FirstId + stable' - 1)
  <2>1. /\ FirstId + stable - 1 \in Int /\ FirstId + stable' - 1 \in Int
        /\ FirstId + stable - 1 <= FirstId + stable' - 1
    BY <1>1, <1>3, OneLessAfter, ConcurrentBinlogAssumption
  <2> QED
    BY <1>4, <1>5, <2>1
<1>8. /\ \A k \in DOMAIN slots' : slots'[k].promise # 0 => CoveredIn(covers', slots'[k].promise, k)
      /\ \A r \in immediate_sync_promises_' : r[2] # 0 => CoveredIn(covers', r[2], r[1])
  BY <1>3, <1>4
<1> QED
  BY <1>6, <1>7, <1>8

(* A number that is ahead of begin and not run by this step stays ahead.    *)
LEMMA StaysAhead ==
  ASSUME begin \in Nat, begin' \in Nat, NEW seq_no \in Nat,
         \A n \in begin..(begin' - 1) : n = seq_no \/ n \in DOMAIN slots,
         \A n \in DOMAIN slots' : n = seq_no \/ n \in DOMAIN slots
  PROVE  \A k \in Nat : begin <= k /\ k # seq_no /\ k \notin DOMAIN slots =>
           begin' <= k /\ k \notin DOMAIN slots'
<1> SUFFICES ASSUME NEW k \in Nat, begin <= k, k # seq_no, k \notin DOMAIN slots
             PROVE  begin' <= k /\ k \notin DOMAIN slots'
  OBVIOUS
<1>1. k \notin begin..(begin' - 1) /\ k \notin DOMAIN slots'
  OBVIOUS
<1> QED
  BY <1>1, NotBelow

(* BinlogActor::add_raw_event *)
LEMMA OnAddRawEventPreserves ==
  ASSUME IInv, NEW t \in Threads, OnAddRawEvent(t)
  PROVE  IInv'
<1> DEFINE m == Head(channel[t])
<1>1. /\ batch = Nothing /\ channel[t] # <<>> /\ m.op = "add_raw_event"
      /\ channel' = [channel EXCEPT ![t] = Tail(channel[t])]
      /\ AddRawEvent(m.seq_no, m)
      /\ UNCHANGED <<last_event_id_, owned, held, calls, batch, running, sent, covers, done, lost>>
  BY DEF OnAddRawEvent, Receive, clientVars, promiseVars
<1>2. /\ m = At(t, 1) /\ m = channel[t][1] /\ 1 \in Places(t) /\ m \in Messages
      /\ channel' \in [Threads -> Seq(Messages)]
  BY <1>1, TakenMessage DEF IInv
<1> HIDE DEF m
<1>3. m.seq_no \in Nat /\ m.n = 1 /\ Numbers(m) = {m.seq_no}
  <2>1. Shape(m)
    BY <1>2 DEF IInv, PlacesFresh
  <2> QED
    BY <1>1, <1>2, <2>1, MessageFields, NumbersOf DEF Shape
<1>4. begin <= m.seq_no /\ m.seq_no < last_event_id_ /\ m.seq_no \notin DOMAIN slots
  BY <1>2, <1>3 DEF IInv, PlacesFresh, Fresh
<1>5. /\ TypeOK /\ LogInOrder /\ Positions /\ SlotsOrdered /\ begin \in Nat /\ end \in Nat
      /\ \A n \in DOMAIN slots : slots[n] \in Messages
  BY DEF IInv, TypeOK
<1>6. /\ begin' \in Nat /\ end' \in Nat /\ begin <= begin' /\ end <= end'
      /\ begin' <= end' /\ end' <= last_event_id_ /\ m.seq_no < end'
      /\ \A n \in begin..(begin' - 1) : n = m.seq_no \/ n \in DOMAIN slots
      /\ \A n \in DOMAIN slots' :
           /\ n = m.seq_no \/ n \in DOMAIN slots
           /\ begin' < n /\ n < end'
           /\ slots'[n] = IF n = m.seq_no THEN m ELSE slots[n]
      /\ log' \in Seq(Messages) /\ LogInOrder' /\ Positions'
      /\ stable' \in Nat /\ flushed' \in Nat /\ need_flush_age' \in -1..FLUSH_TIMEOUT
      /\ sync_promises_' \subseteq Nat /\ immediate_sync_promises_' \subseteq Nat \X Nat
      /\ force_sync_flag_' \in BOOLEAN /\ lazy_sync_flag_' \in BOOLEAN
      /\ flush_flag_' \in BOOLEAN /\ wakeup_at_' \in Nat \cup {-1}
      /\ \A r \in immediate_sync_promises_' :
           r \in immediate_sync_promises_ /\ begin' <= r[1]
  BY <1>1, <1>2, <1>3, <1>4, <1>5, AddRawEventEffect, ZenonT(30)
<1>7. TypeOK'
  <2>1. DOMAIN slots' \subseteq Nat /\ \A n \in DOMAIN slots' : slots'[n] \in Messages
    BY <1>2, <1>3, <1>5, <1>6 DEF TypeOK
  <2> QED
    BY <1>1, <1>2, <1>5, <1>6, <2>1 DEF TypeOK
<1>8. SlotsOrdered'
  BY <1>5, <1>6 DEF SlotsOrdered
<1>9. ForcedSyncsMoveOn'
  <2>1. \A r \in immediate_sync_promises_ : r[1] \in Nat /\ r[1] < end
    BY <1>5 DEF IInv, ForcedSyncsMoveOn, TypeOK
  <2> QED
    BY <1>5, <1>6, <2>1 DEF ForcedSyncsMoveOn
<1>10. BatchFresh'
  BY <1>1, NothingType DEF BatchFresh, Shape, Fresh, Numbers, Nothing, Message
<1>11. \A u \in Threads : \A i \in Places(u) : u # t \/ i # 1 =>
         /\ \A k \in Numbers(At(u, i)) : begin' <= k /\ k \notin DOMAIN slots'
         /\ Apart(At(u, i), batch')
  <2> SUFFICES ASSUME NEW u \in Threads, NEW i \in Places(u), u # t \/ i # 1
               PROVE  /\ \A k \in Numbers(At(u, i)) : begin' <= k /\ k \notin DOMAIN slots'
                      /\ Apart(At(u, i), batch')
    OBVIOUS
  <2>1. Fresh(At(u, i)) /\ Apart(At(u, i), batch) /\ Apart(At(u, i), m)
    BY <1>2 DEF IInv, PlacesFresh, PlacesApart
  <2>2. \A k \in Numbers(At(u, i)) : k \in Nat /\ k # m.seq_no
    BY <1>3, <1>5, <2>1, PlaceTypes, NumbersOf DEF Apart
  <2>3. \A k \in Numbers(At(u, i)) : begin' <= k /\ k \notin DOMAIN slots'
    <3>1. \A k \in Nat : begin <= k /\ k # m.seq_no /\ k \notin DOMAIN slots =>
            begin' <= k /\ k \notin DOMAIN slots'
      BY <1>3, <1>5, <1>6, StaysAhead
    <3>2. \A k \in Numbers(At(u, i)) : begin <= k /\ k \notin DOMAIN slots
      BY <2>1 DEF Fresh
    <3> QED
      BY <2>2, <3>1, <3>2
  <2> QED
    BY <1>1, <2>1, <2>3
<1>12. /\ HeldShape' /\ PlacesFresh' /\ PlacesApart'
       /\ \A u \in Threads : \A i \in Places(u)' :
            At(u, i)'.promise # 0 =>
              /\ At(u, i)'.promise \in 1..Len(covers')
              /\ At(u, i)'.op = "add_raw_event" =>
                   CoveredIn(covers', At(u, i)'.promise, At(u, i)'.seq_no)
  BY <1>1, <1>11, PlacesAfterTaking
<1>13. PromisesCovered'
  <2>1. m.promise # 0 => CoveredBy(m.promise, m.seq_no)
    BY <1>1, <1>2 DEF IInv, PromisesCovered
  <2>2. /\ \A k \in DOMAIN slots' : slots'[k].promise # 0 => CoveredIn(covers', slots'[k].promise, k)
        /\ \A r \in immediate_sync_promises_' : r[2] # 0 => CoveredIn(covers', r[2], r[1])
        /\ \A p \in sync_promises_' : CoveredIn(covers', p, begin' - 1)
        /\ \A p \in done' : CoveredIn(covers', p, FirstId + stable' - 1)
    BY <1>1, <1>2, <1>3, <1>4, <2>1, PromisesAfterAdding
  <2> QED
    BY <1>12, <2>2 DEF PromisesCovered, CoveredBy
<1>14. SyncsFollow'
  <2>1. \A n \in Numbers(batch) \cup Numbers(channel[t][1]) :
          n \in Nat /\ (n < end' \/ n \in Numbers(batch'))
    BY <1>1, <1>2, <1>3, <1>6, NothingType
  <2>2. end \in Int /\ end' \in Int /\ end <= end' /\ (running' => running)
    BY <1>1, <1>5, <1>6
  <2> QED
    BY <1>1, <2>1, <2>2, SyncsAfterTaking
<1> QED
  BY <1>6, <1>7, <1>8, <1>9, <1>10, <1>12, <1>13, <1>14 DEF IInv

(* One round of the loop in BinlogActor::erase_batch. *)
LEMMA EraseBatchStepPreserves ==
  ASSUME IInv, EraseBatchStep
  PROVE  IInv'
<1> DEFINE m == Message("add_raw_event", batch.seq_no, 1, TRUE, 0)
<1>1. /\ batch # Nothing /\ AddRawEvent(batch.seq_no, m) /\ batch' = RestOfBatch
      /\ UNCHANGED <<last_event_id_, owned, held, calls, channel, running, sent, covers, done,
                     lost>>
  BY DEF EraseBatchStep, clientVars, promiseVars
<1>2. /\ TypeOK /\ LogInOrder /\ Positions /\ SlotsOrdered /\ begin \in Nat /\ end \in Nat
      /\ \A n \in DOMAIN slots : slots[n] \in Messages
      /\ batch \in Messages
  BY DEF IInv, TypeOK
<1>3. /\ batch.seq_no \in Nat /\ batch.n \in Nat /\ batch.n >= 1 /\ batch.op = "erase_batch"
      /\ batch.seq_no \in Numbers(batch)
  BY <1>1, <1>2, MessageFields, NumbersOf DEF IInv, BatchFresh, Shape
<1>4. m \in Messages /\ m.seq_no = batch.seq_no /\ m.promise = 0
  BY <1>3 DEF Message, Messages
<1> HIDE DEF m
<1>5. begin <= batch.seq_no /\ batch.seq_no < last_event_id_ /\ batch.seq_no \notin DOMAIN slots
  BY <1>3 DEF IInv, BatchFresh, Fresh
<1>6. /\ begin' \in Nat /\ end' \in Nat /\ begin <= begin' /\ end <= end'
      /\ begin' <= end' /\ end' <= last_event_id_ /\ batch.seq_no < end'
      /\ \A n \in begin..(begin' - 1) : n = batch.seq_no \/ n \in DOMAIN slots
      /\ \A n \in DOMAIN slots' :
           /\ n = batch.seq_no \/ n \in DOMAIN slots
           /\ begin' < n /\ n < end'
           /\ slots'[n] = IF n = batch.seq_no THEN m ELSE slots[n]
      /\ log' \in Seq(Messages) /\ LogInOrder' /\ Positions'
      /\ stable' \in Nat /\ flushed' \in Nat /\ need_flush_age' \in -1..FLUSH_TIMEOUT
      /\ sync_promises_' \subseteq Nat /\ immediate_sync_promises_' \subseteq Nat \X Nat
      /\ force_sync_flag_' \in BOOLEAN /\ lazy_sync_flag_' \in BOOLEAN
      /\ flush_flag_' \in BOOLEAN /\ wakeup_at_' \in Nat \cup {-1}
      /\ \A r \in immediate_sync_promises_' :
           r \in immediate_sync_promises_ /\ begin' <= r[1]
  BY <1>1, <1>2, <1>3, <1>4, <1>5, AddRawEventEffect, ZenonT(30)
<1>7. /\ batch' \in Messages /\ Shape(batch') /\ (batch' = Nothing \/ batch'.op = "erase_batch")
      /\ \A n \in Numbers(batch) : n = batch.seq_no \/ n \in Numbers(batch')
      /\ \A n \in Numbers(batch') : n \in Numbers(batch) /\ n # batch.seq_no
  <2>1. CASE batch.n = 1
    <3>1. batch' = Nothing /\ Numbers(batch) = {batch.seq_no}
      BY <1>1, <1>2, <2>1, NumbersOf DEF RestOfBatch
    <3> QED
      BY <3>1, NothingType DEF Shape
  <2>2. CASE batch.n # 1
    <3>1. batch' = [batch EXCEPT !.seq_no = batch.seq_no + 1, !.n = batch.n - 1]
      BY <1>1, <2>2 DEF RestOfBatch
    <3>2. /\ batch' \in Messages /\ batch'.op = "erase_batch" /\ batch'.promise = batch.promise
          /\ batch'.seq_no = batch.seq_no + 1 /\ batch'.n = batch.n - 1
      <4>1. batch.seq_no + 1 \in Nat /\ batch.n - 1 \in Nat
        BY <1>3, <2>2
      <4>2. batch' \in Messages
        BY <1>2, <3>1, <4>1 DEF Messages
      <4>3. /\ batch'.op = batch.op /\ batch'.promise = batch.promise
            /\ batch'.seq_no = batch.seq_no + 1 /\ batch'.n = batch.n - 1
        BY <1>2, <3>1 DEF Messages
      <4> QED
        BY <1>3, <4>2, <4>3
    <3>3. Shape(batch')
      BY <1>3, <2>2, <3>2 DEF IInv, BatchFresh, Shape
    <3> QED
      BY <1>3, <2>2, <3>2, <3>3 DEF Numbers
  <2> QED
    BY <2>1, <2>2
<1>8. TypeOK'
  <2>1. DOMAIN slots' \subseteq Nat /\ \A n \in DOMAIN slots' : slots'[n] \in Messages
    BY <1>2, <1>3, <1>4, <1>6 DEF TypeOK
  <2> QED
    BY <1>1, <1>2, <1>6, <1>7, <2>1 DEF TypeOK
<1>9. SlotsOrdered'
  BY <1>2, <1>4, <1>6 DEF SlotsOrdered
<1>10. ForcedSyncsMoveOn'
  <2>1. \A r \in immediate_sync_promises_ : r[1] \in Nat /\ r[1] < end
    BY <1>2 DEF IInv, ForcedSyncsMoveOn, TypeOK
  <2> QED
    BY <1>2, <1>6, <2>1 DEF ForcedSyncsMoveOn
<1>11. \A k \in Nat : begin <= k /\ k # batch.seq_no /\ k \notin DOMAIN slots =>
         begin' <= k /\ k \notin DOMAIN slots'
  BY <1>2, <1>3, <1>6, StaysAhead
<1>12. BatchFresh'
  <2>1. \A k \in Numbers(batch') : begin' <= k /\ k < last_event_id_' /\ k \notin DOMAIN slots'
    BY <1>1, <1>2, <1>7, <1>11, NumbersOf DEF IInv, BatchFresh, Fresh
  <2> QED
    BY <1>7, <2>1 DEF BatchFresh, Shape, Fresh, Numbers
<1>13. \A u \in Threads : Places(u)' = Places(u) /\ \A i \in Places(u) : At(u, i)' = At(u, i)
  BY <1>1 DEF Places, At
<1>14. HeldShape' /\ PlacesApart'
  BY <1>1, <1>13 DEF IInv, HeldShape, PlacesApart, Apart, Numbers
<1>15. PlacesFresh'
  <2> SUFFICES ASSUME NEW u \in Threads, NEW i \in Places(u)
               PROVE  (Shape(At(u, i)) /\ Fresh(At(u, i)) /\ Apart(At(u, i), batch))'
    BY <1>13 DEF PlacesFresh
  <2>1. Shape(At(u, i)) /\ Fresh(At(u, i)) /\ Apart(At(u, i), batch) /\ At(u, i)' = At(u, i)
    BY <1>13 DEF IInv, PlacesFresh
  <2>2. \A k \in Numbers(At(u, i)) : k \in Nat /\ k # batch.seq_no /\ k \notin Numbers(batch')
    BY <1>2, <1>3, <1>7, <2>1, PlaceTypes, NumbersOf DEF Apart
  <2>3. \A k \in Numbers(At(u, i)) : begin' <= k /\ k < last_event_id_' /\ k \notin DOMAIN slots'
    BY <1>1, <1>11, <2>1, <2>2 DEF Fresh
  <2> QED
    BY <2>1, <2>2, <2>3 DEF Shape, Fresh, Apart, Numbers
<1>16. PromisesCovered'
  <2>1. m.promise # 0 => CoveredBy(m.promise, batch.seq_no)
    BY <1>4
  <2>2. /\ \A k \in DOMAIN slots' : slots'[k].promise # 0 => CoveredIn(covers', slots'[k].promise, k)
        /\ \A r \in immediate_sync_promises_' : r[2] # 0 => CoveredIn(covers', r[2], r[1])
        /\ \A p \in sync_promises_' : CoveredIn(covers', p, begin' - 1)
        /\ \A p \in done' : CoveredIn(covers', p, FirstId + stable' - 1)
    BY <1>1, <1>3, <1>4, <1>5, <2>1, PromisesAfterAdding
  <2>3. \A u \in Threads : \A i \in Places(u) :
          At(u, i).promise # 0 =>
            /\ At(u, i).promise \in 1..Len(covers')
            /\ At(u, i).op = "add_raw_event" =>
                 CoveredIn(covers', At(u, i).promise, At(u, i).seq_no)
    BY <1>1 DEF IInv, PromisesCovered, CoveredBy
  <2> QED
    BY <1>13, <2>2, <2>3 DEF PromisesCovered, CoveredBy
<1>17. SyncsFollow'
  <2>1. \A u \in Threads : sent[u] \in Nat
    BY <1>2 DEF TypeOK
  <2>2. \A u \in Threads : \A i \in 1..Len(channel[u]) :
          channel[u][i].promise # 0 => covers[channel[u][i].promise] \in Nat
    <3>1. \A u \in Threads : \A i \in 1..Len(channel[u]) :
            i \in Places(u) /\ At(u, i) = channel[u][i]
      BY <1>2, PlaceTypes DEF Places, At
    <3>2. \A p \in 1..Len(covers) : covers[p] \in Nat
      BY <1>2, ElementOfSeq DEF TypeOK
    <3> QED
      BY <3>1, <3>2 DEF IInv, PromisesCovered
  <2>3. \A u \in Threads : \A k, n \in Nat :
          SeenIn(channel[u], batch, end, k, n) => SeenIn(channel'[u], batch', end', k, n)
    BY <1>1, <1>2, <1>6, <1>7 DEF SeenIn
  <2>4. \A u \in Threads : Len(channel[u]) \in Nat
    BY <1>2, PlaceTypes
  <2> SUFFICES ASSUME running', NEW u \in Threads
               PROVE  /\ \A i \in 1..Len(channel'[u]) :
                           channel'[u][i].op = "force_sync" /\ channel'[u][i].promise # 0 =>
                             SeenIn(channel'[u], batch', end', i, covers'[channel'[u][i].promise])
                      /\ owned' => SeenIn(channel'[u], batch', end', Len(channel'[u]) + 1, sent'[u])
    BY DEF SyncsFollow, SeenBefore
  <2>5. /\ \A i \in 1..Len(channel[u]) :
             channel[u][i].op = "force_sync" /\ channel[u][i].promise # 0 =>
               SeenIn(channel[u], batch, end, i, covers[channel[u][i].promise])
        /\ owned => SeenIn(channel[u], batch, end, Len(channel[u]) + 1, sent[u])
    BY <1>1 DEF IInv, SyncsFollow, SeenBefore
  <2> QED
    BY <1>1, <2>1, <2>2, <2>3, <2>4, <2>5
<1> QED
  BY <1>6, <1>8, <1>9, <1>10, <1>12, <1>14, <1>15, <1>16, <1>17 DEF IInv

(* BinlogActor::erase_batch enters its loop. *)
LEMMA OnEraseBatchPreserves ==
  ASSUME IInv, NEW t \in Threads, OnEraseBatch(t)
  PROVE  IInv'
<1> DEFINE m == Head(channel[t])
<1>1. /\ batch = Nothing /\ channel[t] # <<>> /\ m.op = "erase_batch" /\ batch' = m
      /\ channel' = [channel EXCEPT ![t] = Tail(channel[t])]
      /\ UNCHANGED <<last_event_id_, owned, held, calls, begin, end, slots, log, flushed,
                     stable, need_flush_age, running, sent, covers, done, lost>>
      /\ UNCHANGED <<immediate_sync_promises_, sync_promises_, force_sync_flag_,
                     lazy_sync_flag_, flush_flag_, wakeup_at_>>
  BY DEF OnEraseBatch, Receive, clientVars, processorVars, binlogVars, timerVars, promiseVars
<1>2. /\ m = At(t, 1) /\ m = channel[t][1] /\ 1 \in Places(t) /\ m \in Messages
      /\ channel' \in [Threads -> Seq(Messages)]
  BY <1>1, TakenMessage DEF IInv
<1> HIDE DEF m
<1>3. Shape(m) /\ Fresh(m)
  BY <1>2 DEF IInv, PlacesFresh
<1>4. TypeOK'
  BY <1>1, <1>2 DEF IInv, TypeOK
<1>5. LogInOrder' /\ Positions' /\ SlotsOrdered' /\ ForcedSyncsMoveOn'
  BY <1>1 DEF IInv, LogInOrder, Positions, SlotsOrdered, ForcedSyncsMoveOn
<1>6. BatchFresh'
  BY <1>1, <1>3 DEF BatchFresh, Shape, Fresh, Numbers
<1>7. \A u \in Threads : \A i \in Places(u) : u # t \/ i # 1 =>
        /\ \A k \in Numbers(At(u, i)) : begin' <= k /\ k \notin DOMAIN slots'
        /\ Apart(At(u, i), batch')
  BY <1>1, <1>2 DEF IInv, PlacesFresh, PlacesApart, Fresh
<1>8. /\ HeldShape' /\ PlacesFresh' /\ PlacesApart'
      /\ \A u \in Threads : \A i \in Places(u)' :
           At(u, i)'.promise # 0 =>
             /\ At(u, i)'.promise \in 1..Len(covers')
             /\ At(u, i)'.op = "add_raw_event" =>
                  CoveredIn(covers', At(u, i)'.promise, At(u, i)'.seq_no)
  BY <1>1, <1>7, PlacesAfterTaking
<1>9. PromisesCovered'
  <2>1. /\ \A n \in DOMAIN slots : slots[n].promise # 0 => CoveredIn(covers, slots[n].promise, n)
        /\ \A r \in immediate_sync_promises_ : r[2] # 0 => CoveredIn(covers, r[2], r[1])
        /\ \A p \in sync_promises_ : CoveredIn(covers, p, begin - 1)
        /\ \A p \in done : CoveredIn(covers, p, FirstId + stable - 1)
    BY DEF IInv, PromisesCovered, CoveredBy
  <2> QED
    BY <1>1, <1>8, <2>1 DEF PromisesCovered, CoveredBy
<1>10. SyncsFollow'
  <2>1. \A n \in Numbers(batch) \cup Numbers(channel[t][1]) :
          n \in Nat /\ (n < end' \/ n \in Numbers(batch'))
    BY <1>1, <1>2, NothingType, NumbersOf
  <2>2. end \in Int /\ end' \in Int /\ end <= end' /\ (running' => running)
    BY <1>1 DEF IInv, TypeOK
  <2> QED
    BY <1>1, <2>1, <2>2, SyncsAfterTaking
<1> QED
  BY <1>4, <1>5, <1>6, <1>8, <1>9, <1>10 DEF IInv

(* Taking a message that carries no numbers, or any message once the actor  *)
(* has stopped, keeps what the invariant says of the numbers.               *)
LEMMA QuietTake ==
  ASSUME IInv, NEW t \in Threads, channel[t] # <<>>,
         channel' = [channel EXCEPT ![t] = Tail(channel[t])],
         UNCHANGED <<last_event_id_, owned, held, begin, end, batch, log, sent, covers>>,
         slots' = slots \/ slots' = <<>>,
         running' => running /\ Numbers(channel[t][1]) = {}
  PROVE  /\ HeldShape' /\ PlacesFresh' /\ PlacesApart' /\ BatchFresh'
         /\ SlotsOrdered' /\ LogInOrder' /\ SyncsFollow'
         /\ DOMAIN slots' \subseteq DOMAIN slots /\ \A n \in DOMAIN slots' : slots'[n] = slots[n]
         /\ channel' \in [Threads -> Seq(Messages)]
         /\ \A u \in Threads : \A i \in Places(u)' :
              At(u, i)'.promise # 0 =>
                /\ At(u, i)'.promise \in 1..Len(covers')
                /\ At(u, i)'.op = "add_raw_event" =>
                     CoveredIn(covers', At(u, i)'.promise, At(u, i)'.seq_no)
         /\ \A n \in DOMAIN slots' : slots'[n].promise # 0 => CoveredIn(covers', slots'[n].promise, n)
<1>1. DOMAIN slots' \subseteq DOMAIN slots /\ \A n \in DOMAIN slots' : slots'[n] = slots[n]
  <2>1. DOMAIN <<>> = {}
    OBVIOUS
  <2> QED
    BY <2>1
<1>2. channel' \in [Threads -> Seq(Messages)]
  BY TakenMessage DEF IInv
<1>3. BatchFresh'
  BY <1>1 DEF IInv, BatchFresh, Shape, Fresh, Numbers
<1>4. SlotsOrdered' /\ LogInOrder'
  BY <1>1 DEF IInv, SlotsOrdered, LogInOrder
<1>5. \A u \in Threads : \A i \in Places(u) : u # t \/ i # 1 =>
        /\ \A k \in Numbers(At(u, i)) : begin' <= k /\ k \notin DOMAIN slots'
        /\ Apart(At(u, i), batch')
  BY <1>1 DEF IInv, PlacesFresh, Fresh
<1>6. /\ HeldShape' /\ PlacesFresh' /\ PlacesApart'
      /\ \A u \in Threads : \A i \in Places(u)' :
           At(u, i)'.promise # 0 =>
             /\ At(u, i)'.promise \in 1..Len(covers')
             /\ At(u, i)'.op = "add_raw_event" =>
                  CoveredIn(covers', At(u, i)'.promise, At(u, i)'.seq_no)
  BY <1>5, PlacesAfterTaking
<1>7. \A n \in DOMAIN slots' : slots'[n].promise # 0 => CoveredIn(covers', slots'[n].promise, n)
  BY <1>1 DEF IInv, PromisesCovered, CoveredBy
<1>8. SyncsFollow'
  <2>1. running' => \A n \in Numbers(batch) \cup Numbers(channel[t][1]) :
                      n \in Nat /\ (n < end' \/ n \in Numbers(batch'))
    <3>1. Numbers(batch) \subseteq Nat
      BY NumbersOf DEF IInv, TypeOK
    <3> QED
      BY <3>1
  <2>2. end \in Int /\ end' \in Int /\ end <= end' /\ (running' => running)
    BY DEF IInv, TypeOK
  <2> QED
    BY <2>1, <2>2, SyncsAfterTaking
<1> QED
  BY <1>1, <1>2, <1>3, <1>4, <1>6, <1>7, <1>8

(* A step that leaves numbers and places alone keeps what is said of them.  *)
LEMMA QuietStep ==
  ASSUME IInv,
         UNCHANGED <<last_event_id_, owned, held, channel, begin, end, slots, batch, log,
                     running, sent, covers>>
  PROVE  /\ HeldShape' /\ PlacesFresh' /\ PlacesApart' /\ BatchFresh'
         /\ SlotsOrdered' /\ LogInOrder' /\ SyncsFollow'
         /\ \A u \in Threads : \A i \in Places(u)' :
              At(u, i)'.promise # 0 =>
                /\ At(u, i)'.promise \in 1..Len(covers')
                /\ At(u, i)'.op = "add_raw_event" =>
                     CoveredIn(covers', At(u, i)'.promise, At(u, i)'.seq_no)
         /\ \A n \in DOMAIN slots' : slots'[n].promise # 0 => CoveredIn(covers', slots'[n].promise, n)
<1>1. \A u \in Threads : Places(u)' = Places(u) /\ \A i \in Places(u) : At(u, i)' = At(u, i)
  BY DEF Places, At
<1>2. HeldShape' /\ SlotsOrdered' /\ LogInOrder' /\ BatchFresh'
  BY DEF IInv, HeldShape, SlotsOrdered, LogInOrder, BatchFresh, Shape, Fresh, Numbers
<1>3. PlacesFresh' /\ PlacesApart'
  BY <1>1 DEF IInv, PlacesFresh, PlacesApart, Shape, Fresh, Apart, Numbers
<1>4. SyncsFollow'
  BY DEF IInv, SyncsFollow, SeenBefore
<1>5. \A u \in Threads : \A i \in Places(u)' :
        At(u, i)'.promise # 0 =>
          /\ At(u, i)'.promise \in 1..Len(covers')
          /\ At(u, i)'.op = "add_raw_event" =>
               CoveredIn(covers', At(u, i)'.promise, At(u, i)'.seq_no)
  BY <1>1 DEF IInv, PromisesCovered, CoveredBy
<1>6. \A n \in DOMAIN slots' : slots'[n].promise # 0 => CoveredIn(covers', slots'[n].promise, n)
  BY DEF IInv, PromisesCovered, CoveredBy
<1> QED
  BY <1>2, <1>3, <1>4, <1>5, <1>6

(* What a message other than add_raw_event and erase_batch is like.         *)
LEMMA QuietMessage ==
  ASSUME IInv, NEW t \in Threads, NEW op, Receive(t, op),
         op \notin {"add_raw_event", "erase_batch"}, UNCHANGED held
  PROVE  /\ running /\ batch = Nothing /\ channel[t] # <<>>
         /\ channel' = [channel EXCEPT ![t] = Tail(channel[t])]
         /\ Head(channel[t]) \in Messages /\ Head(channel[t]).op = op
         /\ Head(channel[t]) = channel[t][1] /\ Head(channel[t]) = At(t, 1) /\ 1 \in Places(t)
         /\ 1 \in 1..Len(channel[t]) /\ Numbers(channel[t][1]) = {}
<1>1. /\ running /\ batch = Nothing /\ channel[t] # <<>> /\ Head(channel[t]).op = op
      /\ channel' = [channel EXCEPT ![t] = Tail(channel[t])]
  BY DEF Receive
<1>2. /\ Head(channel[t]) = At(t, 1) /\ Head(channel[t]) = channel[t][1] /\ 1 \in Places(t)
      /\ Head(channel[t]) \in Messages /\ Len(channel[t]) \in Nat /\ 1 <= Len(channel[t])
  BY <1>1, TakenMessage DEF IInv
<1>3. Numbers(At(t, 1)) = {}
  BY <1>1, <1>2, NumbersOf DEF IInv, PlacesFresh, Shape
<1> QED
  BY <1>1, <1>2, <1>3

(* BinlogActor::force_sync *)
LEMMA OnForceSyncPreserves ==
  ASSUME IInv, NEW t \in Threads, OnForceSync(t)
  PROVE  IInv'
<1> DEFINE m == Head(channel[t])
<1>1. /\ Receive(t, "force_sync")
      /\ UNCHANGED <<last_event_id_, owned, held, calls, begin, end, slots, batch, log,
                     flushed, stable, need_flush_age, lazy_sync_flag_, flush_flag_, running,
                     sent, covers, done, lost>>
  BY DEF OnForceSync, clientVars, processorVars, binlogVars, promiseVars
<1>2. /\ running /\ batch = Nothing /\ channel[t] # <<>>
      /\ channel' = [channel EXCEPT ![t] = Tail(channel[t])]
      /\ m \in Messages /\ m.op = "force_sync"
      /\ m = channel[t][1] /\ m = At(t, 1) /\ 1 \in Places(t)
      /\ 1 \in 1..Len(channel[t]) /\ Numbers(channel[t][1]) = {}
  BY <1>1, QuietMessage
<1>3. /\ HeldShape' /\ PlacesFresh' /\ PlacesApart' /\ BatchFresh'
      /\ SlotsOrdered' /\ LogInOrder' /\ SyncsFollow'
      /\ channel' \in [Threads -> Seq(Messages)]
      /\ \A u \in Threads : \A i \in Places(u)' :
           At(u, i)'.promise # 0 =>
             /\ At(u, i)'.promise \in 1..Len(covers')
             /\ At(u, i)'.op = "add_raw_event" =>
                  CoveredIn(covers', At(u, i)'.promise, At(u, i)'.seq_no)
      /\ \A n \in DOMAIN slots' : slots'[n].promise # 0 => CoveredIn(covers', slots'[n].promise, n)
  BY <1>1, <1>2, QuietTake
<1>4. /\ m.promise \in Nat /\ begin \in Nat /\ end \in Nat /\ begin <= end
      /\ sync_promises_ \subseteq Nat /\ immediate_sync_promises_ \subseteq Nat \X Nat
      /\ wakeup_at_ \in Nat \cup {-1} /\ force_sync_flag_ \in BOOLEAN
  BY <1>2, MessageFields DEF IInv, TypeOK
<1>5. m.promise # 0 => CoveredIn(covers, m.promise, end - 1)
  <2> SUFFICES ASSUME m.promise # 0
               PROVE  CoveredIn(covers, m.promise, end - 1)
    OBVIOUS
  <2>1. m.promise \in 1..Len(covers)
    BY <1>2 DEF IInv, PromisesCovered
  <2>2. covers[m.promise] \in Nat
    BY <2>1, ElementOfSeq DEF IInv, TypeOK
  <2>3. SeenIn(channel[t], batch, end, 1, covers[m.promise])
    BY <1>2 DEF IInv, SyncsFollow, SeenBefore
  <2>4. covers[m.promise] < end
    BY <1>2, <2>3, NothingType DEF SeenIn
  <2> QED
    BY <1>4, <2>1, <2>2, <2>4 DEF CoveredIn
<1>6. /\ Positions'
      /\ \A r \in immediate_sync_promises_ : r[2] # 0 => CoveredIn(covers', r[2], r[1])
      /\ \A p \in sync_promises_ : CoveredIn(covers', p, begin' - 1)
      /\ \A p \in done' : CoveredIn(covers', p, FirstId + stable' - 1)
  BY <1>1 DEF IInv, Positions, PromisesCovered, CoveredBy
<1>7. CASE CaughtUp
  <2>1. /\ sync_promises_' = sync_promises_ \cup Given(m.promise)
        /\ force_sync_flag_' = TRUE
        /\ wakeup_at_' = WakeupIf(~force_sync_flag_, wakeup_at_, SYNC_TIMEOUT)
        /\ immediate_sync_promises_' = immediate_sync_promises_
    BY <1>7 DEF OnForceSync
  <2> HIDE DEF m
  <2>2. wakeup_at_' \in Nat \cup {-1}
    BY <1>4, <2>1, ConcurrentBinlogAssumption DEF WakeupIf, WakeupAt
  <2>3. sync_promises_' \subseteq Nat
    BY <1>4, <2>1 DEF Given
  <2>4. TypeOK'
    BY <1>1, <1>2, <1>3, <2>1, <2>2, <2>3 DEF IInv, TypeOK
  <2>5. ForcedSyncsMoveOn'
    BY <1>1, <2>1 DEF IInv, ForcedSyncsMoveOn
  <2>6. begin' = end
    BY <1>1, <1>7 DEF CaughtUp
  <2>7. \A p \in sync_promises_' : CoveredIn(covers', p, begin' - 1)
    BY <1>1, <1>5, <1>6, <2>1, <2>6 DEF Given
  <2>8. PromisesCovered'
    BY <1>3, <1>6, <2>1, <2>7 DEF PromisesCovered, CoveredBy
  <2> QED
    BY <1>3, <1>6, <2>4, <2>5, <2>8 DEF IInv
<1>8. CASE ~CaughtUp
  <2>1. /\ immediate_sync_promises_' =
             immediate_sync_promises_ \cup {<<end - 1, m.promise>>}
        /\ UNCHANGED <<sync_promises_, force_sync_flag_, wakeup_at_>>
    BY <1>8 DEF OnForceSync
  <2> HIDE DEF m
  <2>2. begin <= end - 1 /\ end - 1 \in Nat /\ end - 1 < end
    BY <1>4, <1>8 DEF CaughtUp
  <2>3. immediate_sync_promises_' \subseteq Nat \X Nat
    BY <1>4, <2>1, <2>2
  <2>4. TypeOK'
    BY <1>1, <1>2, <1>3, <2>1, <2>3 DEF IInv, TypeOK
  <2>5. ForcedSyncsMoveOn'
    BY <1>1, <2>1, <2>2 DEF IInv, ForcedSyncsMoveOn
  <2>6. \A r \in immediate_sync_promises_' : r[2] # 0 => CoveredIn(covers', r[2], r[1])
    BY <1>1, <1>5, <1>6, <2>1
  <2>7. PromisesCovered'
    BY <1>3, <1>6, <2>1, <2>6 DEF PromisesCovered, CoveredBy
  <2> QED
    BY <1>3, <1>6, <2>4, <2>5, <2>7 DEF IInv
<1> QED
  BY <1>7, <1>8

(* A fulfilled promise stays covered when more becomes stable.              *)
LEMMA StableGrows ==
  ASSUME IInv, UNCHANGED covers, stable' \in Nat, stable <= stable'
  PROVE  \A p \in done : CoveredIn(covers', p, FirstId + stable' - 1)
<1> SUFFICES ASSUME NEW p \in done
             PROVE  CoveredIn(covers', p, FirstId + stable' - 1)
  OBVIOUS
<1>1. p \in 1..Len(covers) /\ covers[p] <= FirstId + stable - 1 /\ covers[p] \in Nat
  BY ElementOfSeq DEF IInv, PromisesCovered, CoveredBy, CoveredIn, TypeOK
<1>2. /\ FirstId + stable - 1 \in Int /\ FirstId + stable' - 1 \in Int
      /\ FirstId + stable - 1 <= FirstId + stable' - 1
  BY OneLessAfter, ConcurrentBinlogAssumption DEF IInv, TypeOK
<1>3. \A a, b, c \in Int : a <= b /\ b <= c => a <= c
  OBVIOUS
<1> QED
  BY <1>1, <1>2, <1>3 DEF CoveredIn

(* The messages that only flush, sync or stop: what they have in common.    *)
LEMMA QuietBinlogPreserves ==
  ASSUME IInv, NEW t \in Threads, channel[t] # <<>>,
         channel' = [channel EXCEPT ![t] = Tail(channel[t])],
         UNCHANGED <<last_event_id_, owned, held, calls, begin, end, batch, log, sent,
                     covers, done, force_sync_flag_, lazy_sync_flag_>>,
         slots' = slots \/ slots' = <<>>,
         running' => running /\ Numbers(channel[t][1]) = {}, running' \in BOOLEAN,
         immediate_sync_promises_' \subseteq immediate_sync_promises_,
         sync_promises_' \subseteq sync_promises_,
         flush_flag_' \in BOOLEAN, wakeup_at_' \in Nat \cup {-1}, lost' \subseteq Nat,
         need_flush_age' \in -1..FLUSH_TIMEOUT,
         flushed' \in {flushed, Len(log)}, stable' \in {stable, flushed'}
  PROVE  IInv'
<1>1. /\ HeldShape' /\ PlacesFresh' /\ PlacesApart' /\ BatchFresh'
      /\ SlotsOrdered' /\ LogInOrder' /\ SyncsFollow'
      /\ DOMAIN slots' \subseteq DOMAIN slots /\ \A n \in DOMAIN slots' : slots'[n] = slots[n]
      /\ channel' \in [Threads -> Seq(Messages)]
      /\ \A u \in Threads : \A i \in Places(u)' :
           At(u, i)'.promise # 0 =>
             /\ At(u, i)'.promise \in 1..Len(covers')
             /\ At(u, i)'.op = "add_raw_event" =>
                  CoveredIn(covers', At(u, i)'.promise, At(u, i)'.seq_no)
      /\ \A n \in DOMAIN slots' : slots'[n].promise # 0 => CoveredIn(covers', slots'[n].promise, n)
  BY QuietTake
<1>2. /\ Positions' /\ flushed' \in Nat /\ stable' \in Nat /\ stable <= stable'
  <2>1. Len(log) \in Nat /\ flushed \in Nat /\ stable \in Nat
    BY LenProperties DEF IInv, TypeOK
  <2> QED
    BY <2>1 DEF IInv, Positions
<1>3. TypeOK'
  BY <1>1, <1>2 DEF IInv, TypeOK
<1>4. ForcedSyncsMoveOn'
  BY DEF IInv, ForcedSyncsMoveOn
<1>5. PromisesCovered'
  <2>1. \A p \in done : CoveredIn(covers', p, FirstId + stable' - 1)
    BY <1>2, StableGrows
  <2>2. /\ \A r \in immediate_sync_promises_' : r[2] # 0 => CoveredIn(covers', r[2], r[1])
        /\ \A p \in sync_promises_' : CoveredIn(covers', p, begin' - 1)
    BY DEF IInv, PromisesCovered, CoveredBy
  <2> QED
    BY <1>1, <2>1, <2>2 DEF PromisesCovered, CoveredBy
<1> QED
  BY <1>1, <1>2, <1>3, <1>4, <1>5 DEF IInv

(* BinlogActor::force_flush *)
LEMMA OnForceFlushPreserves ==
  ASSUME IInv, NEW t \in Threads, OnForceFlush(t)
  PROVE  IInv'
<1>1. /\ Receive(t, "force_flush") /\ Flush /\ flush_flag_' = FALSE
      /\ UNCHANGED <<last_event_id_, owned, held, calls, begin, end, slots, batch, log,
                     stable, immediate_sync_promises_, sync_promises_, force_sync_flag_,
                     lazy_sync_flag_, wakeup_at_, running, sent, covers, done, lost>>
  BY DEF OnForceFlush, clientVars, processorVars, promiseVars
<1>2. /\ channel[t] # <<>> /\ channel' = [channel EXCEPT ![t] = Tail(channel[t])]
      /\ running /\ Numbers(channel[t][1]) = {}
  BY <1>1, QuietMessage
<1>3. /\ running' \in BOOLEAN /\ wakeup_at_' \in Nat \cup {-1} /\ lost' \subseteq Nat
      /\ need_flush_age' \in -1..FLUSH_TIMEOUT
  BY <1>1, ConcurrentBinlogAssumption DEF IInv, TypeOK, Flush
<1> QED
  BY <1>1, <1>2, <1>3, QuietBinlogPreserves DEF Flush

(* BinlogActor::change_key *)
LEMMA OnChangeKeyPreserves ==
  ASSUME IInv, NEW t \in Threads, OnChangeKey(t)
  PROVE  IInv'
<1>1. /\ Receive(t, "change_key") /\ (Sync \/ UNCHANGED <<flushed, stable, need_flush_age>>)
      /\ UNCHANGED <<last_event_id_, owned, held, calls, begin, end, slots, batch, log,
                     immediate_sync_promises_, sync_promises_, force_sync_flag_,
                     lazy_sync_flag_, flush_flag_, wakeup_at_, running, sent, covers, done,
                     lost>>
  BY DEF OnChangeKey, clientVars, processorVars, timerVars, promiseVars
<1>2. /\ channel[t] # <<>> /\ channel' = [channel EXCEPT ![t] = Tail(channel[t])]
      /\ running /\ Numbers(channel[t][1]) = {}
  BY <1>1, QuietMessage
<1>3. /\ running' \in BOOLEAN /\ wakeup_at_' \in Nat \cup {-1} /\ lost' \subseteq Nat
      /\ flush_flag_' \in BOOLEAN /\ need_flush_age' \in -1..FLUSH_TIMEOUT
  BY <1>1, ConcurrentBinlogAssumption DEF IInv, TypeOK, Flush, Sync
<1>4. flushed' \in {flushed, Len(log)} /\ stable' \in {stable, flushed'}
  BY <1>1 DEF Sync, Flush
<1> QED
  BY <1>1, <1>2, <1>3, <1>4, QuietBinlogPreserves

(* The promises that die with the actor are promises. *)
LEMMA AbandonedType ==
  ASSUME TypeOK
  PROVE  Abandoned \subseteq Nat
<1>1. \A n \in DOMAIN slots : slots[n].promise \in Nat
  BY MessageFields DEF TypeOK
<1>2. \A r \in immediate_sync_promises_ : r[2] \in Nat
  BY DEF TypeOK
<1>3. sync_promises_ \subseteq Nat
  BY DEF TypeOK
<1> QED
  BY <1>1, <1>2, <1>3 DEF Abandoned

(* BinlogActor::close and close_and_destroy *)
LEMMA OnClosePreserves ==
  ASSUME IInv, NEW t \in Threads, NEW op \in {"close", "close_and_destroy"}, OnClose(t, op)
  PROVE  IInv'
<1>1. /\ Receive(t, op) /\ running' = FALSE /\ CloseFile(op)
      /\ lost' = lost \cup (Abandoned \ {0})
      /\ slots' = <<>> /\ immediate_sync_promises_' = {} /\ sync_promises_' = {}
      /\ wakeup_at_' = -1
      /\ UNCHANGED <<last_event_id_, owned, held, calls, begin, end, batch, log,
                     force_sync_flag_, lazy_sync_flag_, flush_flag_, sent, covers, done>>
  BY DEF OnClose, clientVars
<1>2. channel[t] # <<>> /\ channel' = [channel EXCEPT ![t] = Tail(channel[t])]
  BY <1>1 DEF Receive
<1>3. lost' \subseteq Nat
  BY <1>1, AbandonedType DEF IInv, TypeOK
<1>4. /\ flush_flag_' \in BOOLEAN /\ need_flush_age' \in -1..FLUSH_TIMEOUT
  BY <1>1, ConcurrentBinlogAssumption DEF IInv, TypeOK, CloseFile, Flush, Sync
<1>5. flushed' \in {flushed, Len(log)} /\ stable' \in {stable, flushed'}
  BY <1>1 DEF CloseFile, Sync, Flush
<1>6. wakeup_at_' \in Nat \cup {-1} /\ running' \in BOOLEAN /\ ~running'
  BY <1>1
<1> QED
  BY <1>1, <1>2, <1>3, <1>4, <1>5, <1>6, QuietBinlogPreserves

(* A message that reaches a stopped actor. *)
LEMMA DropPreserves ==
  ASSUME IInv, NEW t \in Threads, Drop(t)
  PROVE  IInv'
<1>1. /\ ~running /\ channel[t] # <<>>
      /\ lost' = lost \cup Given(Head(channel[t]).promise)
      /\ channel' = [channel EXCEPT ![t] = Tail(channel[t])]
      /\ UNCHANGED <<last_event_id_, owned, held, calls, begin, end, slots, batch, log,
                     flushed, stable, need_flush_age, immediate_sync_promises_, sync_promises_,
                     force_sync_flag_, lazy_sync_flag_, flush_flag_, wakeup_at_, running, sent,
                     covers, done>>
  BY DEF Drop, clientVars, processorVars, binlogVars, timerVars
<1>2. Head(channel[t]) \in Messages
  BY <1>1, TakenMessage DEF IInv
<1>3. lost' \subseteq Nat
  BY <1>1, <1>2, MessageFields DEF IInv, TypeOK, Given
<1>4. /\ running' \in BOOLEAN /\ wakeup_at_' \in Nat \cup {-1}
      /\ flush_flag_' \in BOOLEAN /\ need_flush_age' \in -1..FLUSH_TIMEOUT
  BY <1>1 DEF IInv, TypeOK
<1> QED
  BY <1>1, <1>3, <1>4, QuietBinlogPreserves

(* BinlogActor::timeout_expired *)
LEMMA TimeoutExpiredPreserves ==
  ASSUME IInv, TimeoutExpired
  PROVE  IInv'
<1>1. /\ lazy_sync_flag_' = FALSE /\ force_sync_flag_' = FALSE
      /\ UNCHANGED <<last_event_id_, owned, held, calls, channel, begin, end, slots, batch,
                     log, immediate_sync_promises_, running, sent, covers, lost>>
  BY DEF TimeoutExpired, clientVars, processorVars
<1>2. /\ HeldShape' /\ PlacesFresh' /\ PlacesApart' /\ BatchFresh'
      /\ SlotsOrdered' /\ LogInOrder' /\ SyncsFollow'
      /\ \A u \in Threads : \A i \in Places(u)' :
           At(u, i)'.promise # 0 =>
             /\ At(u, i)'.promise \in 1..Len(covers')
             /\ At(u, i)'.op = "add_raw_event" =>
                  CoveredIn(covers', At(u, i)'.promise, At(u, i)'.seq_no)
      /\ \A n \in DOMAIN slots' : slots'[n].promise # 0 => CoveredIn(covers', slots'[n].promise, n)
  BY <1>1, QuietStep
<1>3. /\ TypeOK /\ Len(log) \in Nat /\ flushed \in Nat /\ stable \in Nat
      /\ need_flush_age \in -1..FLUSH_TIMEOUT /\ begin \in Nat
      /\ stable <= flushed /\ flushed <= Len(log)
      /\ sync_promises_ \subseteq Nat /\ done \subseteq Nat
  BY LenProperties DEF IInv, TypeOK, Positions
<1>4. ForcedSyncsMoveOn'
  BY <1>1 DEF IInv, ForcedSyncsMoveOn
<1>5. /\ \A r \in immediate_sync_promises_' : r[2] # 0 => CoveredIn(covers', r[2], r[1])
      /\ \A p \in sync_promises_ : CoveredIn(covers', p, begin' - 1)
  BY <1>1 DEF IInv, PromisesCovered, CoveredBy
<1>6. CASE NeedSync
  <2>1. /\ Sync /\ done' = done \cup sync_promises_ /\ sync_promises_' = {}
        /\ flush_flag_' = FALSE /\ wakeup_at_' = -1
    BY <1>6 DEF TimeoutExpired, PromisesLeft
  <2>2. /\ flushed' = Len(log) /\ stable' = Len(log) /\ need_flush_age' = -1
        /\ stable' \in Nat /\ stable <= stable'
    BY <1>3, <2>1 DEF Sync, Flush
  <2>3. TypeOK' /\ Positions'
    <3>1. done' \subseteq Nat /\ sync_promises_' \subseteq Nat
      BY <1>3, <2>1
    <3>2. -1 \in -1..FLUSH_TIMEOUT
      BY ConcurrentBinlogAssumption
    <3> QED
      <4>1. Positions'
        BY <1>1, <1>3, <2>2 DEF Positions
      <4>2. TypeOK'
        BY <1>1, <1>3, <2>1, <2>2, <3>1, <3>2 DEF TypeOK
      <4> QED
        BY <4>1, <4>2
  <2>4. begin' - 1 = FirstId + stable' - 1
    <3>1. Len(log) = begin - FirstId
      BY DEF IInv, LogInOrder
    <3> QED
      BY <1>1, <1>3, <2>2, <3>1, ConcurrentBinlogAssumption
  <2>5. \A p \in done' : CoveredIn(covers', p, FirstId + stable' - 1)
    BY <1>1, <1>5, <2>1, <2>2, <2>4, StableGrows
  <2>6. PromisesCovered'
    BY <1>2, <1>5, <2>1, <2>5 DEF PromisesCovered, CoveredBy
  <2> QED
    BY <1>2, <1>4, <2>3, <2>6 DEF IInv
<1>7. CASE ~NeedSync
  <2> DEFINE overdue == Overdue(need_flush_age)
             defer   == NeedFlush /\ ~overdue
  <2>1. /\ IF NeedFlush /\ overdue THEN Flush ELSE UNCHANGED <<flushed, need_flush_age>>
        /\ flush_flag_' = defer
        /\ wakeup_at_' = IF defer THEN FLUSH_TIMEOUT - need_flush_age ELSE -1
        /\ UNCHANGED <<stable, sync_promises_, done>>
    BY <1>7 DEF TimeoutExpired
  <2>2. flush_flag_' \in BOOLEAN
    BY <2>1, <1>3 DEF TypeOK, NeedFlush
  <2>3. wakeup_at_' \in Nat \cup {-1}
    BY <2>1, <1>3, ConcurrentBinlogAssumption DEF Overdue
  <2>4. /\ flushed' \in Nat /\ stable' \in Nat /\ need_flush_age' \in -1..FLUSH_TIMEOUT
        /\ stable' <= flushed' /\ flushed' <= Len(log)
    BY <2>1, <1>3, ConcurrentBinlogAssumption DEF Flush
  <2>5. TypeOK' /\ Positions'
    BY <1>1, <1>3, <2>1, <2>2, <2>3, <2>4 DEF TypeOK, Positions
  <2>6. PromisesCovered'
    BY <1>1, <1>2, <1>3, <1>5, <2>1, StableGrows DEF PromisesCovered, CoveredBy
  <2> QED
    BY <1>2, <1>4, <2>5, <2>6 DEF IInv
<1> QED
  BY <1>6, <1>7

(* Time passes, or nothing happens. *)
LEMMA TickPreserves ==
  ASSUME IInv, Tick \/ UNCHANGED vars
  PROVE  IInv'
<1>1. /\ UNCHANGED <<last_event_id_, owned, held, calls, channel, begin, end, slots, batch,
                     log, flushed, stable, immediate_sync_promises_, sync_promises_,
                     force_sync_flag_, lazy_sync_flag_, flush_flag_, running, sent, covers,
                     done, lost>>
      /\ Tick \/ UNCHANGED <<wakeup_at_, need_flush_age>>
  BY DEF Tick, vars, clientVars, processorVars, binlogVars, timerVars, promiseVars
<1>2. /\ HeldShape' /\ PlacesFresh' /\ PlacesApart' /\ BatchFresh'
      /\ SlotsOrdered' /\ LogInOrder' /\ SyncsFollow'
      /\ \A u \in Threads : \A i \in Places(u)' :
           At(u, i)'.promise # 0 =>
             /\ At(u, i)'.promise \in 1..Len(covers')
             /\ At(u, i)'.op = "add_raw_event" =>
                  CoveredIn(covers', At(u, i)'.promise, At(u, i)'.seq_no)
      /\ \A n \in DOMAIN slots' : slots'[n].promise # 0 => CoveredIn(covers', slots'[n].promise, n)
  BY <1>1, QuietStep
<1>3. wakeup_at_' \in Nat \cup {-1} /\ need_flush_age' \in -1..FLUSH_TIMEOUT
  <2>1. /\ wakeup_at_ \in Nat \cup {-1} /\ need_flush_age \in -1..FLUSH_TIMEOUT
    BY DEF IInv, TypeOK
  <2>2. CASE Tick
    BY <2>1, <2>2, ConcurrentBinlogAssumption DEF Tick
  <2> QED
    BY <1>1, <2>1, <2>2
<1>4. TypeOK'
  BY <1>1, <1>3 DEF IInv, TypeOK
<1>5. Positions' /\ ForcedSyncsMoveOn'
  BY <1>1 DEF IInv, Positions, ForcedSyncsMoveOn
<1>6. PromisesCovered'
  <2>1. /\ \A r \in immediate_sync_promises_ : r[2] # 0 => CoveredIn(covers, r[2], r[1])
        /\ \A p \in sync_promises_ : CoveredIn(covers, p, begin - 1)
        /\ \A p \in done : CoveredIn(covers, p, FirstId + stable - 1)
    BY DEF IInv, PromisesCovered, CoveredBy
  <2> QED
    BY <1>1, <1>2, <2>1 DEF PromisesCovered, CoveredBy
<1> QED
  BY <1>2, <1>4, <1>5, <1>6 DEF IInv

-----------------------------------------------------------------------------
(* The invariant. *)

(* The state after init_impl satisfies the invariant.                       *)
LEMMA InitEstablishes ==
  ASSUME Init
  PROVE  IInv
<1> USE ConcurrentBinlogAssumption
<1>1. TypeOK
  <2>1. FirstId - 1 \in Nat /\ -1 \in -1..FLUSH_TIMEOUT /\ DOMAIN <<>> = {}
    OBVIOUS
  <2>2. held \in [Threads -> Messages] /\ batch \in Messages
    BY NothingType DEF Init
  <2>3. channel \in [Threads -> Seq(Messages)] /\ log \in Seq(Messages) /\ covers \in Seq(Nat)
    BY EmptySeq DEF Init
  <2>4. sent \in [Threads -> Nat] /\ flushed \in Nat /\ stable \in Nat
    BY <2>1 DEF Init
  <2>5. /\ last_event_id_ \in Nat /\ calls \in Nat /\ begin \in Nat /\ end \in Nat
        /\ begin <= end /\ end <= last_event_id_
        /\ need_flush_age \in -1..FLUSH_TIMEOUT /\ wakeup_at_ \in Nat \cup {-1}
    BY <2>1 DEF Init
  <2>6. /\ DOMAIN slots = {} /\ immediate_sync_promises_ = {} /\ sync_promises_ = {}
        /\ done = {} /\ lost = {} /\ owned \in BOOLEAN /\ running \in BOOLEAN
        /\ force_sync_flag_ \in BOOLEAN /\ lazy_sync_flag_ \in BOOLEAN
        /\ flush_flag_ \in BOOLEAN
    BY <2>1 DEF Init
  <2> QED
    BY <2>2, <2>3, <2>4, <2>5, <2>6 DEF TypeOK
<1>2. \A t \in Threads : Places(t) = {0} /\ At(t, 0) = Nothing
  BY EmptySeq DEF Init, Places, At
<1>3. DOMAIN slots = {} /\ Len(log) = 0 /\ DOMAIN log = {}
  BY EmptySeq DEF Init
<1>4. LogInOrder /\ Positions /\ SlotsOrdered /\ ForcedSyncsMoveOn /\ HeldShape
  BY <1>3 DEF Init, LogInOrder, Positions, SlotsOrdered, ForcedSyncsMoveOn, HeldShape
<1>5. Shape(Nothing) /\ Fresh(Nothing) /\ \A m : Apart(Nothing, m)
  BY NothingType DEF Shape, Fresh, Apart
<1>6. PlacesFresh /\ PlacesApart
  BY <1>2, <1>5 DEF PlacesFresh, PlacesApart
<1>7. BatchFresh
  BY <1>5 DEF Init, BatchFresh
<1>8. PromisesCovered
  BY <1>2, <1>3, NothingType DEF Init, PromisesCovered
<1>9. SyncsFollow
  <2>1. \A t \in Threads : Len(channel[t]) = 0 /\ sent[t] < end
    BY EmptySeq DEF Init
  <2> QED
    BY <2>1 DEF SyncsFollow, SeenBefore, SeenIn
<1> QED
  BY <1>1, <1>4, <1>6, <1>7, <1>8, <1>9 DEF IInv

(* Every step of a thread, of the actor and of time preserves it.           *)
LEMMA NextPreserves ==
  ASSUME IInv, [Next]_vars
  PROVE  IInv'
<1>1. ASSUME NEW t \in Threads, Client(t)
      PROVE  IInv'
  BY <1>1, ClientPreserves
<1>2. ASSUME NEW t \in Threads, Deliver(t)
      PROVE  IInv'
  BY <1>2, OnAddRawEventPreserves, OnEraseBatchPreserves, OnForceSyncPreserves,
     OnForceFlushPreserves, OnChangeKeyPreserves, OnClosePreserves, DropPreserves DEF Deliver
<1> QED
  BY <1>1, <1>2, EraseBatchStepPreserves, TimeoutExpiredPreserves, TickPreserves DEF Next

(* The inductive invariant holds of every behaviour of the specification.   *)
THEOREM Invariance == Spec => []IInv
<1>1. Init => IInv
  BY InitEstablishes
<1>2. IInv /\ [Next]_vars => IInv'
  BY NextPreserves
<1> QED
  BY <1>1, <1>2, PTL DEF Spec

(* The variables of ConcurrentBinlog and BinlogActor keep their types,      *)
(* begin never passes end, and end never passes last_event_id_.             *)
THEOREM TypeCorrect == Spec => []TypeOK
<1>1. IInv => TypeOK
  BY DEF IInv
<1> QED
  BY <1>1, Invariance, PTL

(* However threads interleave next_event_id and send_closure, the Binlog    *)
(* gets each number once, in increasing order, without a gap.               *)
THEOREM Order == Spec => []LogInOrder
<1>1. IInv => LogInOrder
  BY DEF IInv
<1> QED
  BY <1>1, Invariance, PTL

(* A promise that timeout_expired has fulfilled covers only events that a   *)
(* completed sync covers: its own, and all the ones before it.              *)
THEOREM Durability == Spec => []PromiseImpliesStable
<1>1. IInv => PromiseImpliesStable
  <2> SUFFICES ASSUME IInv, NEW p \in done
               PROVE  covers[p] < FirstId + stable
    BY DEF PromiseImpliesStable
  <2>1. p \in 1..Len(covers) /\ covers[p] <= FirstId + stable - 1
    BY DEF IInv, PromisesCovered, CoveredBy, CoveredIn
  <2>2. covers[p] \in Nat /\ stable \in Nat
    BY <2>1, ElementOfSeq DEF IInv, TypeOK
  <2> QED
    BY <2>1, <2>2, ConcurrentBinlogAssumption
<1> QED
  BY <1>1, Invariance, PTL

(* OrderedEventsProcessor's check that a number is not below begin, and     *)
(* the one that its slot is free, never fail in the actor.                  *)
THEOREM NoOverrun == Spec => []NeverOverrun
<1>1. IInv => NeverOverrun
  <2> SUFFICES ASSUME IInv
               PROVE  /\ \A t \in Threads : \A i \in DOMAIN channel[t] :
                           \A n \in Numbers(channel[t][i]) : n >= begin /\ n \notin DOMAIN slots
                      /\ \A n \in Numbers(batch) : n >= begin /\ n \notin DOMAIN slots
    BY DEF NeverOverrun
  <2>1. \A m : Fresh(m) => \A n \in Numbers(m) : n >= begin /\ n \notin DOMAIN slots
    BY DEF Fresh
  <2>2. \A t \in Threads : \A i \in DOMAIN channel[t] :
          i \in Places(t) /\ At(t, i) = channel[t][i]
    BY PlaceTypes, LenProperties DEF IInv, Places, At
  <2>3. \A t \in Threads : \A i \in DOMAIN channel[t] : Fresh(channel[t][i])
    BY <2>2 DEF IInv, PlacesFresh
  <2> QED
    BY <2>1, <2>3 DEF IInv, BatchFresh
<1> QED
  BY <1>1, Invariance, PTL

(* A force_sync waits in immediate_sync_promises_ only for a number that    *)
(* the processor knows of and has not run.                                  *)
THEOREM SyncsMoveOn == Spec => []ForcedSyncsMoveOn
<1>1. IInv => ForcedSyncsMoveOn
  BY DEF IInv
<1> QED
  BY <1>1, Invariance, PTL

(* BinlogActor::close leaves nothing that the Binlog was given unsynced.    *)
THEOREM CloseSyncs == Spec => ClosedIsStable
<1>1. IInv /\ [Next]_vars =>
        [\A t \in Threads : OnClose(t, "close") => stable' = begin - FirstId]_vars
  BY DEF IInv, LogInOrder, OnClose, CloseFile, Sync
<1> QED
  BY <1>1, Invariance, PTL DEF Spec, ClosedIsStable

-----------------------------------------------------------------------------
(* Timers. *)

(* A wakeup that is asked for comes in time, and never postpones another.   *)
LEMMA WakeupProperties ==
  ASSUME NEW c \in BOOLEAN, NEW w \in Nat \cup {-1}, NEW a \in Nat
  PROVE  /\ WakeupIf(c, w, a) \in Nat \cup {-1}
         /\ c => WakeupIf(c, w, a) \in 0..a
         /\ \A b \in Nat : w \in 0..b => WakeupIf(c, w, a) \in 0..b
  BY DEF WakeupIf, WakeupAt

(* What flush_immediate_sync and try_flush leave behind has its timer.      *)
LEMMA SyncAndFlushSetsTimers ==
  ASSUME TypeOK, TimersSet, NEW promises, NEW f, NEW age \in -1..FLUSH_TIMEOUT,
         SyncAndFlush(promises, f, age)
  PROVE  TimersSet'
<1> USE ConcurrentBinlogAssumption
<1> DEFINE ready     == ReadyToSync(begin')
           startLazy == promises # {} /\ ~lazy_sync_flag_ /\ ~force_sync_flag_
           startSync == ready # {} /\ ~force_sync_flag_
           force     == force_sync_flag_ \/ startSync
           overdue   == Overdue(age)
           defer     == ~overdue /\ ~force
           w1 == WakeupIf(startLazy, wakeup_at_, LAZY_TIMEOUT)
           w2 == WakeupIf(startSync, w1, SYNC_TIMEOUT)
           w3 == WakeupIf(defer, w2, FLUSH_TIMEOUT - age)
<1>1. /\ sync_promises_' = sync_promises_ \cup promises \cup (({r[2] : r \in ready}) \ {0})
      /\ lazy_sync_flag_' = (lazy_sync_flag_ \/ startLazy)
      /\ force_sync_flag_' = force
      /\ flush_flag_' = (flush_flag_ \/ defer)
      /\ wakeup_at_' = w3
      /\ need_flush_age' = IF overdue THEN -1 ELSE age
  BY DEF SyncAndFlush
<1>2. /\ startLazy \in BOOLEAN /\ startSync \in BOOLEAN /\ defer \in BOOLEAN
      /\ wakeup_at_ \in Nat \cup {-1}
      /\ ~overdue => age \in 0..(FLUSH_TIMEOUT - 1)
  BY DEF TypeOK, Overdue
<1> HIDE DEF ready
<1>3. startSync => force
  OBVIOUS
<1>4. sync_promises_' # {} => force_sync_flag_' \/ lazy_sync_flag_'
  BY <1>1 DEF TimersSet
<1> HIDE DEF startLazy, startSync, overdue
<1>5. /\ w1 \in Nat \cup {-1}
      /\ startLazy => w1 \in 0..LAZY_TIMEOUT
      /\ \A b \in Nat : wakeup_at_ \in 0..b => w1 \in 0..b
  BY <1>2, WakeupProperties
<1> HIDE DEF w1
<1>6. /\ w2 \in Nat \cup {-1}
      /\ startSync => w2 \in 0..SYNC_TIMEOUT
      /\ \A b \in Nat : w1 \in 0..b => w2 \in 0..b
  BY <1>2, <1>5, WakeupProperties
<1> HIDE DEF w2
<1>7. /\ defer => w3 \in 0..FLUSH_TIMEOUT
      /\ \A b \in Nat : w2 \in 0..b => w3 \in 0..b
  <2>1. CASE defer
    <3>1. FLUSH_TIMEOUT - age \in Nat /\ FLUSH_TIMEOUT - age <= FLUSH_TIMEOUT
      BY <1>2, <2>1
    <3>2. /\ w3 \in 0..(FLUSH_TIMEOUT - age)
          /\ \A b \in Nat : w2 \in 0..b => w3 \in 0..b
      BY <1>2, <1>6, <2>1, <3>1, WakeupProperties
    <3> HIDE DEF w3
    <3> QED
      BY <3>1, <3>2
  <2>2. CASE ~defer
    BY <2>2 DEF WakeupIf
  <2> QED
    BY <2>1, <2>2
<1> HIDE DEF w3, defer
<1>8. ASSUME force_sync_flag_'
      PROVE  wakeup_at_' \in 0..SYNC_TIMEOUT
  BY <1>1, <1>5, <1>6, <1>7, <1>8 DEF TimersSet
<1>9. ASSUME lazy_sync_flag_'
      PROVE  wakeup_at_' \in 0..LAZY_TIMEOUT
  BY <1>1, <1>5, <1>6, <1>7, <1>9 DEF TimersSet
<1>10. ASSUME need_flush_age' # -1
       PROVE  \/ flush_flag_' /\ wakeup_at_' \in 0..FLUSH_TIMEOUT
              \/ force_sync_flag_'
  <2>1. ~overdue
    BY <1>1, <1>10
  <2>2. defer \/ force
    BY <2>1 DEF defer
  <2> QED
    BY <1>1, <1>7, <2>2
<1> QED
  BY <1>4, <1>8, <1>9, <1>10 DEF TimersSet

(* The age of the buffer stays in its range when events are added.          *)
LEMMA FlushAgeType ==
  ASSUME TypeOK, NEW newLog, NEW f
  PROVE  FlushAge(newLog, f) \in -1..FLUSH_TIMEOUT
  BY ConcurrentBinlogAssumption DEF FlushAge, TypeOK

(* add_raw_event ends with flush_immediate_sync and try_flush.              *)
LEMMA AddRawEventSetsTimers ==
  ASSUME TypeOK, TimersSet, NEW seq_no, NEW event, AddRawEvent(seq_no, event)
  PROVE  TimersSet'
<1>1. need_flush_age \in -1..FLUSH_TIMEOUT
  BY DEF TypeOK
<1>2. CASE seq_no = begin
  <2>1. PICK promises, newLog, f : SyncAndFlush(promises, f, FlushAge(newLog, f))
    BY <1>2 DEF AddRawEvent
  <2> QED
    BY <2>1, FlushAgeType, SyncAndFlushSetsTimers
<1>3. CASE seq_no # begin
  BY <1>1, <1>3, SyncAndFlushSetsTimers DEF AddRawEvent
<1> QED
  BY <1>2, <1>3

(* Every step keeps a timer for whoever waits while the actor runs.         *)
LEMMA NextSetsTimers ==
  ASSUME TypeOK, running => TimersSet, [Next]_vars
  PROVE  running' => TimersSet'
<1> USE ConcurrentBinlogAssumption
<1> SUFFICES ASSUME running'
             PROVE  TimersSet'
  OBVIOUS
<1>1. ASSUME NEW t \in Threads, Client(t)
      PROVE  TimersSet'
  <2>1. UNCHANGED <<timerVars, need_flush_age, running>>
    BY <1>1 DEF Client, BeginAdd, BeginEraseBatch, TakeNumbers, Send, ForceSync, ForceFlush,
       ChangeKey, Call, Close, binlogVars
  <2> QED
    BY <2>1 DEF TimersSet, timerVars
<1>2. ASSUME NEW t \in Threads, OnAddRawEvent(t)
      PROVE  TimersSet'
  BY <1>2, AddRawEventSetsTimers DEF OnAddRawEvent, Receive
<1>3. ASSUME NEW t \in Threads, OnEraseBatch(t)
      PROVE  TimersSet'
  BY <1>3 DEF OnEraseBatch, Receive, TimersSet, timerVars, binlogVars
<1>4. ASSUME NEW t \in Threads, OnForceSync(t)
      PROVE  TimersSet'
  <2>1. running /\ UNCHANGED <<need_flush_age, lazy_sync_flag_, flush_flag_>>
    BY <1>4 DEF OnForceSync, Receive, binlogVars
  <2>2. CASE CaughtUp
    <3>1. /\ force_sync_flag_' = TRUE
          /\ wakeup_at_' = WakeupIf(~force_sync_flag_, wakeup_at_, SYNC_TIMEOUT)
      BY <1>4, <2>2 DEF OnForceSync
    <3>2. (~force_sync_flag_) \in BOOLEAN /\ wakeup_at_ \in Nat \cup {-1}
      BY DEF TypeOK
    <3>3. /\ ~force_sync_flag_ => wakeup_at_' \in 0..SYNC_TIMEOUT
          /\ \A b \in Nat : wakeup_at_ \in 0..b => wakeup_at_' \in 0..b
      BY <3>1, <3>2, WakeupProperties
    <3> QED
      BY <2>1, <3>1, <3>3 DEF TimersSet
  <2>3. CASE ~CaughtUp
    BY <1>4, <2>1, <2>3 DEF OnForceSync, TimersSet
  <2> QED
    BY <2>2, <2>3
<1>5. ASSUME NEW t \in Threads, OnForceFlush(t)
      PROVE  TimersSet'
  BY <1>5 DEF OnForceFlush, Receive, Flush, TimersSet
<1>6. ASSUME NEW t \in Threads, OnChangeKey(t)
      PROVE  TimersSet'
  BY <1>6 DEF OnChangeKey, Receive, Sync, Flush, TimersSet, timerVars
<1>7. ASSUME NEW t \in Threads, NEW op, OnClose(t, op)
      PROVE  TimersSet'
  BY <1>7 DEF OnClose
<1>8. ASSUME NEW t \in Threads, Drop(t)
      PROVE  TimersSet'
  BY <1>8 DEF Drop
<1>9. ASSUME EraseBatchStep
      PROVE  TimersSet'
  BY <1>9, AddRawEventSetsTimers DEF EraseBatchStep
<1>10. ASSUME TimeoutExpired
       PROVE  TimersSet'
  <2>1. CASE NeedSync
    BY <1>10, <2>1 DEF TimeoutExpired, NeedSync, Sync, Flush, PromisesLeft, TimersSet
  <2>2. CASE ~NeedSync
    <3>1. /\ ~force_sync_flag_ /\ ~lazy_sync_flag_ /\ running
          /\ lazy_sync_flag_' = FALSE /\ force_sync_flag_' = FALSE
          /\ UNCHANGED sync_promises_
      BY <1>10, <2>2 DEF TimeoutExpired, NeedSync
    <3>2. sync_promises_ = {}
      BY <3>1 DEF TimersSet
    <3>3. CASE NeedFlush /\ ~Overdue(need_flush_age)
      <4>1. /\ flush_flag_' = TRUE /\ wakeup_at_' = FLUSH_TIMEOUT - need_flush_age
            /\ UNCHANGED need_flush_age
        BY <1>10, <2>2, <3>3 DEF TimeoutExpired
      <4>2. wakeup_at_' \in 0..FLUSH_TIMEOUT
        BY <3>3, <4>1 DEF Overdue, TypeOK
      <4> QED
        BY <3>1, <3>2, <4>1, <4>2 DEF TimersSet
    <3>4. CASE ~(NeedFlush /\ ~Overdue(need_flush_age))
      <4>1. need_flush_age' = -1
        BY <1>10, <2>2, <3>1, <3>4 DEF TimeoutExpired, Flush, TimersSet, NeedFlush
      <4> QED
        BY <3>1, <3>2, <4>1 DEF TimersSet
    <3> QED
      BY <3>3, <3>4
  <2> QED
    BY <2>1, <2>2
<1>11. ASSUME Tick
       PROVE  TimersSet'
  <2>1. /\ running /\ wakeup_at_ > 0 /\ wakeup_at_' = wakeup_at_ - 1
        /\ wakeup_at_ \in Nat \cup {-1} /\ need_flush_age \in -1..FLUSH_TIMEOUT
        /\ need_flush_age' = IF need_flush_age \in 0..(FLUSH_TIMEOUT - 1)
                               THEN need_flush_age + 1 ELSE need_flush_age
        /\ UNCHANGED <<sync_promises_, force_sync_flag_, lazy_sync_flag_, flush_flag_>>
    BY <1>11 DEF Tick, TypeOK
  <2>2. \A b \in Nat : wakeup_at_ \in 0..b => wakeup_at_' \in 0..b
    BY <2>1
  <2>3. need_flush_age' # -1 => need_flush_age # -1
    BY <2>1
  <2> QED
    BY <2>1, <2>2, <2>3 DEF TimersSet
<1>12. CASE UNCHANGED vars
  BY <1>12 DEF vars, timerVars, binlogVars, TimersSet
<1> QED
  BY <1>1, <1>2, <1>3, <1>4, <1>5, <1>6, <1>7, <1>8, <1>9, <1>10, <1>11, <1>12 DEF Next, Deliver

(* A promise that waits for a sync, and an event in the buffer, always have *)
(* the actor's timer set early enough, whichever handler ran last.          *)
THEOREM TimersInTime == Spec => []WaitersHaveTimers
<1> DEFINE TInv == running => TimersSet
<1>1. Init => TInv
  BY DEF Init, TimersSet
<1>2. TypeOK /\ TInv /\ [Next]_vars => TInv'
  BY NextSetsTimers
<1>3. TInv => WaitersHaveTimers
  BY DEF TimersSet, WaitersHaveTimers
<1> HIDE DEF TInv
<1> QED
  BY <1>1, <1>2, <1>3, TypeCorrect, PTL DEF Spec
=============================================================================
