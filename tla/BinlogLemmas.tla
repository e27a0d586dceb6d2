---------------------------- MODULE BinlogLemmas ----------------------------
(***************************************************************************)
(* What the operators under the binlog compute, for every argument.        *)
(*                                                                         *)
(* OrderedEvents: the loop of OrderedEventsProcessor::add stops at a       *)
(* well-defined number, and what it runs is what was waiting below it.     *)
(*                                                                         *)
(* BinlogEventsProcessor, for every value of CompactMin and every          *)
(* processor whose fields agree: tombstones and compactify cannot be seen  *)
(* through for_each, do_event keeps the fields in agreement, and replaying *)
(* events one by one is what Replay says.                                  *)
(***************************************************************************)
EXTENDS OrderedEvents, BinlogEventsProcessor, WellFoundedInduction, FiniteSetTheorems,
        SequenceTheorems, TLAPS

(* Every non-empty set of natural numbers has a least element.              *)
LEMMA LeastNumber ==
  ASSUME NEW S, S \subseteq Nat, S # {}
  PROVE  \E x \in S : \A y \in S : x <= y
<1> DEFINE R == OpToRel(<, Nat)
<1>1. IsWellFoundedOn(R, Nat)
  BY NatLessThanWellFounded
<1> HIDE DEF R
<1>2. PICK x \in S : \A y \in S : ~(<<y, x>> \in R)
  BY <1>1, WFMin
<1>3. \A y \in S : y < x => <<y, x>> \in R
  BY DEF R, OpToRel
<1>4. \A y \in S : ~(y < x)
  BY <1>2, <1>3, Zenon
<1> QED
  BY <1>4

(* Induction over the steps of a loop.                                      *)
LEMMA StepInduction ==
  ASSUME NEW n \in Nat, NEW S, 0 \in S, \A i \in 1..n : i - 1 \in S => i \in S
  PROVE  \A i \in 0..n : i \in S
<1> DEFINE Bad == {i \in 0..n : i \notin S}
<1>1. SUFFICES ASSUME Bad # {} PROVE FALSE
  OBVIOUS
<1>2. Bad \subseteq Nat
  OBVIOUS
<1>3. PICK k \in Bad : \A y \in Bad : k <= y
  BY <1>1, <1>2, LeastNumber
<1>4. k # 0 /\ k \in 1..n
  BY <1>3
<1>5. k - 1 \in 0..n /\ k - 1 \notin Bad
  BY <1>3, <1>4
<1> QED
  BY <1>3, <1>4, <1>5

(* Where the loop of add() stops: every number from begin up to there has   *)
(* its event waiting, and the next one has not, or is the end.              *)
LEMMA DrainToProperties ==
  ASSUME NEW begin \in Nat, NEW end \in Nat, NEW slots
  PROVE  LET k == DrainTo(begin, end, slots)
         IN  /\ k \in Nat /\ begin <= k
             /\ k <= begin \/ k <= end
             /\ \A j \in begin..(k - 1) : j \in DOMAIN slots
             /\ k >= end \/ k \notin DOMAIN slots
<1> DEFINE last == Larger(begin, end)
           Stop(k) == k = last \/ k \notin DOMAIN slots
           S == {k \in begin..last : Stop(k)}
           P(k) == /\ \A j \in begin..(k - 1) : j \in DOMAIN slots
                   /\ k = last \/ k \notin DOMAIN slots
<1>1. last \in Nat /\ begin <= last /\ end <= last /\ (last = begin \/ last = end)
  BY DEF Larger
<1> HIDE DEF last
<1>2. PICK k \in S : \A y \in S : k <= y
  <2>1. last \in S
    BY <1>1
  <2>2. S \subseteq Nat
    BY <1>1
  <2> QED
    BY <2>1, <2>2, LeastNumber
<1>3. k \in begin..last /\ P(k)
  BY <1>1, <1>2
<1>4. DrainTo(begin, end, slots) = CHOOSE x \in begin..last : P(x)
  BY DEF DrainTo, last
<1> DEFINE d == DrainTo(begin, end, slots)
<1>5. d \in begin..last /\ P(d)
  BY <1>3, <1>4
<1> QED
  BY <1>1, <1>5

-----------------------------------------------------------------------------
(* The processors over a set E of events.                                   *)
Processors(E) ==
  [event_ids_ : Seq(Nat), events_ : Seq(E), total_events_ : Nat, empty_events_ : Nat,
   last_event_id_ : Nat, total_raw_events_size_ : Nat]

(* The clients' events with values in V, and what a processor can hold.     *)
Data(V) == [type : {"data"}, id : Nat, val : V, rewrite : BOOLEAN]

Holdable(V) == Data(V) \cup {DeletedEvent}

Alive(p) == {i \in 1..Len(p.event_ids_) : ~IsDeleted(p.event_ids_[i])}

Deleted(p) == {i \in 1..Len(p.event_ids_) : IsDeleted(p.event_ids_[i])}

-----------------------------------------------------------------------------
(* The loop of compactify and for_each.                                     *)

(* Step i of the loop, with what it has collected before.                   *)
Kept(ids, i, before) ==
  IF i = 0 THEN <<>> ELSE IF IsDeleted(ids[i]) THEN before ELSE Append(before, i)

(* The loop has a result: the function that AlivePositions chooses exists.  *)
LEMMA KeptExists ==
  ASSUME NEW ids, NEW n \in Nat
  PROVE  \E g : g = [i \in 0..n |-> Kept(ids, i, g[i - 1])]
<1> DEFINE Bad == {k \in Nat : ~ \E g : g = [i \in 0..k |-> Kept(ids, i, g[i - 1])]}
<1>1. SUFFICES ASSUME Bad # {} PROVE FALSE
  OBVIOUS
<1>2. PICK k \in Bad : \A y \in Bad : k <= y
  BY <1>1, LeastNumber
<1>3. CASE k = 0
  <2> DEFINE g == [i \in 0..0 |-> <<>>]
  <2>1. g = [i \in 0..0 |-> Kept(ids, i, g[i - 1])]
    BY DEF Kept
  <2> QED
    BY <1>2, <1>3, <2>1
<1>4. CASE k # 0
  <2>1. k - 1 \in Nat /\ k - 1 \notin Bad
    BY <1>2, <1>4
  <2>2. PICK g : g = [i \in 0..(k - 1) |-> Kept(ids, i, g[i - 1])]
    BY <2>1
  <2> DEFINE h == [i \in 0..k |-> IF i = k THEN Kept(ids, k, g[k - 1]) ELSE g[i]]
  <2>3. ASSUME NEW i \in 0..k
        PROVE  h[i] = Kept(ids, i, h[i - 1])
    <3>1. CASE i = k
      BY <3>1, <1>4
    <3>2. CASE i # k /\ i # 0
      <4>1. i \in 0..(k - 1) /\ i - 1 \in 0..k /\ i - 1 # k
        BY <3>2
      <4> QED
        BY <4>1, <2>2
    <3>3. CASE i # k /\ i = 0
      <4>1. i \in 0..(k - 1)
        BY <3>3
      <4>2. h[i] = Kept(ids, i, g[i - 1])
        BY <3>3, <4>1, <2>2
      <4> QED
        BY <4>2, <3>3 DEF Kept
    <3> QED
      BY <3>1, <3>2, <3>3
  <2>4. h = [i \in 0..k |-> Kept(ids, i, h[i - 1])]
    BY <2>3
  <2> QED
    BY <1>2, <2>4
<1> QED
  BY <1>3, <1>4

(* AlivePositions enumerates the live positions in increasing order.        *)
LEMMA AlivePositionsProperties ==
  ASSUME NEW p, p.event_ids_ \in Seq(Nat)
  PROVE  LET kept == AlivePositions(p)
         IN  /\ kept \in Seq(Nat)
             /\ \A j \in DOMAIN kept : kept[j] \in Alive(p)
             /\ \A k \in Alive(p) : \E j \in DOMAIN kept : kept[j] = k
             /\ \A i, j \in DOMAIN kept : i < j => kept[i] < kept[j]
             /\ Len(kept) = Cardinality(Alive(p))
<1> DEFINE ids == p.event_ids_
           n == Len(ids)
           f == CHOOSE g : g = [i \in 0..n |-> Kept(ids, i, g[i - 1])]
<1>1. n \in Nat /\ ids \in [1..n -> Nat]
  OBVIOUS
<1>2. AlivePositions(p) = f[n]
  BY DEF AlivePositions, Kept
<1>3. f = [i \in 0..n |-> Kept(ids, i, f[i - 1])]
  BY <1>1, KeptExists
<1> DEFINE S(i) == {k \in 1..i : ~IsDeleted(ids[k])}
           Good(i) == /\ f[i] \in Seq(Nat)
                      /\ \A j \in 1..Len(f[i]) : f[i][j] \in S(i)
                      /\ \A m \in S(i) : \E j \in 1..Len(f[i]) : f[i][j] = m
                      /\ \A a, b \in 1..Len(f[i]) : a < b => f[i][a] < f[i][b]
           Bad == {i \in 0..n : ~Good(i)}
<1> HIDE DEF f
<1>4. Bad = {}
  <2>1. SUFFICES ASSUME Bad # {} PROVE FALSE
    OBVIOUS
  <2>2. PICK k \in Bad : \A y \in Bad : k <= y
    <3> HIDE DEF Good
    <3>1. Bad \subseteq Nat
      BY <1>1
    <3> QED
      BY <2>1, <3>1, LeastNumber
  <2>3. CASE k = 0
    <3>1. f[0] = <<>>
      <4>1. 0 \in 0..n
        BY <1>1
      <4> HIDE DEF n, ids
      <4>2. f[0] = Kept(ids, 0, f[0 - 1])
        BY <1>3, <4>1
      <4> QED
        BY <4>2 DEF Kept
    <3>2. S(0) = {}
      OBVIOUS
    <3>3. Good(0)
      BY <3>1, <3>2
    <3> QED
      BY <2>2, <2>3, <3>3
  <2>4. CASE k # 0
    <3>1. k - 1 \in 0..n /\ k \in 1..n /\ k - 1 \notin Bad
      BY <2>2, <2>4, <1>1
    <3>2. Good(k - 1)
      BY <3>1
    <3>3. f[k] = IF IsDeleted(ids[k]) THEN f[k - 1] ELSE Append(f[k - 1], k)
      BY <1>3, <2>4, <3>1 DEF Kept
    <3>4. S(k) = IF IsDeleted(ids[k]) THEN S(k - 1) ELSE S(k - 1) \cup {k}
      BY <3>1
    <3>5. CASE IsDeleted(ids[k])
      BY <2>2, <3>2, <3>3, <3>4, <3>5
    <3>6. CASE ~IsDeleted(ids[k])
      <4> DEFINE s == f[k - 1]
                 t == f[k]
      <4>1. s \in Seq(Nat) /\ t = Append(s, k) /\ k \in Nat
        BY <3>1, <3>2, <3>3, <3>6
      <4>2. /\ \A j \in 1..Len(s) : s[j] \in S(k - 1)
            /\ \A m \in S(k - 1) : \E j \in 1..Len(s) : s[j] = m
            /\ \A a, b \in 1..Len(s) : a < b => s[a] < s[b]
        BY <3>2
      <4> HIDE DEF s, t
      <4>3. /\ t \in Seq(Nat) /\ Len(t) = Len(s) + 1 /\ Len(s) \in Nat
            /\ t[Len(s) + 1] = k
            /\ \A j \in 1..Len(s) : t[j] = s[j]
        BY <4>1
      <4>4. ASSUME NEW j \in 1..Len(s)
            PROVE  s[j] \in S(k - 1) /\ s[j] < k
        <5>1. s[j] \in S(k - 1)
          BY <4>2
        <5>2. s[j] \in 1..(k - 1)
          BY <5>1
        <5> QED
          BY <5>1, <5>2, <3>1
      <4>5. /\ \A j \in 1..Len(t) : t[j] \in S(k - 1) \cup {k}
            /\ \A m \in S(k - 1) \cup {k} : \E j \in 1..Len(t) : t[j] = m
        <5> HIDE DEF S
        <5>1. 1..Len(t) = (1..Len(s)) \cup {Len(s) + 1}
          BY <4>3
        <5>2. \A j \in 1..Len(t) : t[j] \in S(k - 1) \cup {k}
          BY <4>2, <4>3, <5>1
        <5>3. ASSUME NEW m \in S(k - 1) \cup {k}
              PROVE  \E j \in 1..Len(t) : t[j] = m
          <6>1. CASE m = k
            BY <4>3, <5>1, <6>1
          <6>2. CASE m \in S(k - 1)
            <7>1. PICK j \in 1..Len(s) : s[j] = m
              BY <6>2, <4>2
            <7> QED
              BY <7>1, <4>3, <5>1
          <6> QED
            BY <6>1, <6>2
        <5> QED
          BY <5>2, <5>3
      <4>6. ASSUME NEW a \in 1..Len(t), NEW b \in 1..Len(t), a < b
            PROVE  t[a] < t[b]
        <5>1. a \in 1..Len(s) /\ t[a] = s[a]
          BY <4>3, <4>6
        <5>2. CASE b = Len(s) + 1
          BY <4>3, <4>4, <5>1, <5>2
        <5>3. CASE b # Len(s) + 1
          <6>1. b \in 1..Len(s) /\ t[b] = s[b]
            BY <4>3, <5>3
          <6> QED
            BY <4>2, <4>6, <5>1, <6>1
        <5> QED
          BY <5>2, <5>3
      <4>7. Good(k)
        BY <4>3, <4>5, <4>6, <3>4, <3>6 DEF t
      <4> QED
        BY <4>7, <2>2
    <3> QED
      BY <3>5, <3>6
  <2> QED
    BY <2>3, <2>4
<1>5. Good(n)
  <2> HIDE DEF Good
  <2> QED
    BY <1>1, <1>4
<1> DEFINE kept == f[n]
<1>6. S(n) = Alive(p)
  BY DEF Alive
<1>7. /\ kept \in Seq(Nat)
      /\ \A j \in 1..Len(kept) : kept[j] \in Alive(p)
      /\ \A m \in Alive(p) : \E j \in 1..Len(kept) : kept[j] = m
      /\ \A a, b \in 1..Len(kept) : a < b => kept[a] < kept[b]
  BY <1>5, <1>6
<1> HIDE DEF kept
<1>8. Len(kept) \in Nat /\ DOMAIN kept = 1..Len(kept) /\ \A j \in 1..Len(kept) : kept[j] \in Nat
  BY <1>7
<1>9. kept \in Bijection(1..Len(kept), Alive(p))
  <2>1. kept \in [1..Len(kept) -> Alive(p)]
    BY <1>7, <1>8
  <2>2. \A a, b \in 1..Len(kept) : kept[a] = kept[b] => a = b
    BY <1>7, <1>8
  <2>3. \A x \in Alive(p) : \E a \in 1..Len(kept) : kept[a] = x
    BY <1>7
  <2> QED
    BY <2>1, <2>2, <2>3 DEF Bijection, Injection, Surjection, IsInjective
<1>10. Len(kept) = Cardinality(Alive(p))
  BY <1>8, <1>9, FS_CountingElements DEF ExistsBijection
<1> QED
  BY <1>2, <1>7, <1>8, <1>10 DEF kept

-----------------------------------------------------------------------------
(* The fields of a processor that holds events with values in V agree.  The *)
(* identifiers keep a gap above a live one, so that marking it deleted      *)
(* leaves the vector sorted.                                                *)

Typed(p, V) ==
  /\ p \in Processors(Holdable(V))
  /\ Len(p.events_) = Len(p.event_ids_)
  /\ \A i \in Alive(p) : p.events_[i].type = "data" /\ p.events_[i].id * 2 = p.event_ids_[i]

Counted(p) ==
  /\ p.total_events_ = Len(p.event_ids_)
  /\ p.empty_events_ = Cardinality(Deleted(p))
  /\ p.total_raw_events_size_ = Len(p.event_ids_) - Cardinality(Deleted(p))

Sorted(p) ==
  /\ \A i, j \in 1..Len(p.event_ids_) : i < j =>
       /\ p.event_ids_[i] < p.event_ids_[j]
       /\ ~IsDeleted(p.event_ids_[i]) => p.event_ids_[i] + 1 < p.event_ids_[j]
  /\ \A i \in 1..Len(p.event_ids_) :
       1 < p.event_ids_[i] /\ p.event_ids_[i] <= p.last_event_id_ * 2 + 1

Agree(p, V) == Typed(p, V) /\ Counted(p) /\ Sorted(p)

(* The parity of an entry of event_ids_.                                    *)
LEMMA Parity ==
  ASSUME NEW x \in Nat
  PROVE  /\ ~IsDeleted(x * 2)
         /\ ~IsDeleted(x) => IsDeleted(x + 1)
         /\ IsDeleted(x) => x # 0
BY DEF IsDeleted

(* A processor is determined by its fields.                                 *)
LEMMA TypedFields ==
  ASSUME NEW p, NEW V, Typed(p, V)
  PROVE  /\ p.event_ids_ \in Seq(Nat) /\ p.events_ \in Seq(Holdable(V))
         /\ Len(p.event_ids_) \in Nat /\ Len(p.events_) = Len(p.event_ids_)
         /\ DOMAIN p.event_ids_ = 1..Len(p.event_ids_)
         /\ DOMAIN p.events_ = 1..Len(p.event_ids_)
         /\ \A i \in 1..Len(p.event_ids_) :
              p.event_ids_[i] \in Nat /\ p.events_[i] \in Holdable(V)
         /\ p.total_events_ \in Nat /\ p.empty_events_ \in Nat
         /\ p.last_event_id_ \in Nat /\ p.total_raw_events_size_ \in Nat
         /\ \A i \in Alive(p) : p.events_[i] \in Data(V) /\ p.events_[i].id * 2 = p.event_ids_[i]
<1>1. p \in Processors(Holdable(V)) /\ Len(p.events_) = Len(p.event_ids_)
  BY DEF Typed
<1>2. /\ p.event_ids_ \in Seq(Nat) /\ p.events_ \in Seq(Holdable(V))
      /\ p.total_events_ \in Nat /\ p.empty_events_ \in Nat
      /\ p.last_event_id_ \in Nat /\ p.total_raw_events_size_ \in Nat
  BY <1>1 DEF Processors
<1>3. /\ Len(p.event_ids_) \in Nat
      /\ DOMAIN p.event_ids_ = 1..Len(p.event_ids_)
      /\ DOMAIN p.events_ = 1..Len(p.event_ids_)
      /\ \A i \in 1..Len(p.event_ids_) :
           p.event_ids_[i] \in Nat /\ p.events_[i] \in Holdable(V)
  BY <1>1, <1>2
<1>4. ASSUME NEW i \in Alive(p)
      PROVE  /\ p.events_[i] \in Data(V)
             /\ p.events_[i].id * 2 = p.event_ids_[i]
  <2>1. p.events_[i].type = "data" /\ p.events_[i].id * 2 = p.event_ids_[i]
    BY DEF Typed
  <2>2. p.events_[i] \in Holdable(V)
    BY <1>3 DEF Alive
  <2>3. p.events_[i] # DeletedEvent
    BY <2>1 DEF DeletedEvent
  <2> QED
    BY <2>1, <2>2, <2>3 DEF Holdable
<1> QED
  BY <1>1, <1>2, <1>3, <1>4

(* At picks the elements at the given positions.                            *)
LEMMA AtProperties ==
  ASSUME NEW S, NEW s \in Seq(S), NEW positions \in Seq(Nat),
         \A j \in DOMAIN positions : positions[j] \in 1..Len(s)
  PROVE  /\ At(s, positions) \in Seq(S)
         /\ Len(At(s, positions)) = Len(positions)
         /\ \A j \in 1..Len(positions) : At(s, positions)[j] = s[positions[j]]
<1> DEFINE t == [j \in 1..Len(positions) |-> s[positions[j]]]
<1>1. Len(positions) \in Nat /\ DOMAIN positions = 1..Len(positions)
  OBVIOUS
<1>2. \A j \in 1..Len(positions) : s[positions[j]] \in S
  BY <1>1
<1>3. t \in Seq(S) /\ Len(t) = Len(positions)
  BY <1>1, <1>2
<1>4. At(s, positions) = SubSeq(t, 1, Len(t))
  BY <1>1, <1>3 DEF At
<1> HIDE DEF t
<1>5. SubSeq(t, 1, Len(t)) = t
  BY <1>3
<1> QED
  BY <1>3, <1>4, <1>5 DEF t

(* for_each visits the live events in the order of their positions.         *)
LEMMA ForEachProperties ==
  ASSUME NEW p, NEW V, Typed(p, V)
  PROVE  LET kept == AlivePositions(p)
         IN  /\ for_each(p) \in Seq(Holdable(V))
             /\ Len(for_each(p)) = Len(kept)
             /\ \A j \in 1..Len(kept) : for_each(p)[j] = p.events_[kept[j]]
<1> DEFINE kept == AlivePositions(p)
<1>1. kept \in Seq(Nat) /\ \A j \in DOMAIN kept : kept[j] \in Alive(p)
  BY TypedFields, AlivePositionsProperties
<1>2. \A j \in DOMAIN kept : kept[j] \in 1..Len(p.events_)
  BY <1>1, TypedFields DEF Alive
<1> HIDE DEF kept
<1>3. p.events_ \in Seq(Holdable(V))
  BY TypedFields
<1>4. for_each(p) = At(p.events_, kept)
  BY DEF for_each, kept
<1> QED
  BY <1>1, <1>2, <1>3, <1>4, AtProperties DEF kept

(* Contents is the set of the live events, whatever for_each's order is.    *)
LEMMA ContentsOfLive ==
  ASSUME NEW p, NEW V, Typed(p, V)
  PROVE  Contents(p) = {<<p.events_[i].id, p.events_[i].val>> : i \in Alive(p)}
<1> DEFINE kept == AlivePositions(p)
           alive == for_each(p)
           C(e) == <<e.id, e.val>>
<1>1. /\ kept \in Seq(Nat) /\ \A j \in DOMAIN kept : kept[j] \in Alive(p)
      /\ \A k \in Alive(p) : \E j \in DOMAIN kept : kept[j] = k
  BY TypedFields, AlivePositionsProperties
<1>2. DOMAIN kept = 1..Len(kept)
  BY <1>1
<1>3. DOMAIN alive = 1..Len(kept) /\ \A j \in 1..Len(kept) : alive[j] = p.events_[kept[j]]
  BY ForEachProperties
<1>4. Contents(p) = {C(alive[j]) : j \in 1..Len(kept)}
  BY <1>3 DEF Contents
<1> HIDE DEF C, kept, alive
<1>5. {C(alive[j]) : j \in 1..Len(kept)} = {C(p.events_[i]) : i \in Alive(p)}
  <2>1. ASSUME NEW j \in 1..Len(kept)
        PROVE  \E i \in Alive(p) : C(alive[j]) = C(p.events_[i])
    BY <1>1, <1>2, <1>3
  <2>2. ASSUME NEW i \in Alive(p)
        PROVE  \E j \in 1..Len(kept) : C(alive[j]) = C(p.events_[i])
    BY <1>1, <1>2, <1>3
  <2> QED
    BY <2>1, <2>2
<1> QED
  BY <1>4, <1>5 DEF C

-----------------------------------------------------------------------------
(* compactify.                                                              *)

(* A step that keeps Counted when it changes the number of live and deleted *)
(* positions: the two sets partition the positions.                         *)
LEMMA AliveAndDeleted ==
  ASSUME NEW p, p.event_ids_ \in Seq(Nat)
  PROVE  /\ IsFiniteSet(Deleted(p)) /\ IsFiniteSet(Alive(p))
         /\ Cardinality(Deleted(p)) \in Nat /\ Cardinality(Alive(p)) \in Nat
         /\ Cardinality(Alive(p)) = Len(p.event_ids_) - Cardinality(Deleted(p))
<1> DEFINE n == Len(p.event_ids_)
<1>1. n \in Nat
  OBVIOUS
<1> HIDE DEF n
<1>2. IsFiniteSet(1..n) /\ Cardinality(1..n) = n
  BY <1>1, FS_Interval
<1>3. Deleted(p) \subseteq 1..n /\ Alive(p) = (1..n) \ Deleted(p)
  BY DEF Deleted, Alive, n
<1>4. IsFiniteSet(Deleted(p)) /\ IsFiniteSet(Alive(p))
  BY <1>2, <1>3, FS_Subset
<1>5. (1..n) \cap Deleted(p) = Deleted(p)
  BY <1>3
<1>6. Cardinality((1..n) \ Deleted(p)) = n - Cardinality(Deleted(p))
  BY <1>2, <1>5, FS_Difference
<1> QED
  BY <1>3, <1>4, <1>6, FS_CardinalityType DEF n

(* compactify leaves no tombstone, keeps the fields in agreement, and is    *)
(* invisible to for_each.                                                   *)
LEMMA CompactifyProperties ==
  ASSUME NEW p, NEW V, Agree(p, V)
  PROVE  /\ Agree(compactify(p), V)
         /\ Contents(compactify(p)) = Contents(p)
         /\ compactify(p).last_event_id_ = p.last_event_id_
<1> DEFINE kept == AlivePositions(p)
           q == compactify(p)
           ids == p.event_ids_
           evs == p.events_
           n == Len(kept)
<1>1. Typed(p, V) /\ Counted(p) /\ Sorted(p)
  BY DEF Agree
<1>2. /\ kept \in Seq(Nat)
      /\ \A j \in DOMAIN kept : kept[j] \in Alive(p)
      /\ \A k \in Alive(p) : \E j \in DOMAIN kept : kept[j] = k
      /\ \A i, j \in DOMAIN kept : i < j => kept[i] < kept[j]
      /\ n = Cardinality(Alive(p))
  BY <1>1, TypedFields, AlivePositionsProperties
<1>3. n \in Nat /\ DOMAIN kept = 1..n
  BY <1>2
<1>4. /\ ids \in Seq(Nat) /\ evs \in Seq(Holdable(V)) /\ Len(evs) = Len(ids) /\ Len(ids) \in Nat
      /\ \A i \in 1..Len(ids) : ids[i] \in Nat
      /\ p.last_event_id_ \in Nat /\ p.total_raw_events_size_ \in Nat
      /\ p \in Processors(Holdable(V))
  BY <1>1, TypedFields DEF Typed
<1>5. \A j \in 1..n : kept[j] \in 1..Len(ids) /\ kept[j] \in Nat /\ ~IsDeleted(ids[kept[j]])
  BY <1>2, <1>3 DEF Alive
<1>5a. \A j \in DOMAIN kept : kept[j] \in 1..Len(ids)
  BY <1>3, <1>5
<1>5b. \A j \in DOMAIN kept : kept[j] \in 1..Len(evs)
  BY <1>4, <1>5a
<1> HIDE DEF kept, ids, evs, n
<1>6. /\ At(ids, kept) \in Seq(Nat) /\ Len(At(ids, kept)) = n
      /\ \A j \in 1..n : At(ids, kept)[j] = ids[kept[j]]
  <2>1. kept \in Seq(Nat) /\ ids \in Seq(Nat)
    BY <1>2, <1>4
  <2> QED
    BY <1>5a, <2>1, AtProperties DEF n
<1>7. /\ At(evs, kept) \in Seq(Holdable(V)) /\ Len(At(evs, kept)) = n
      /\ \A j \in 1..n : At(evs, kept)[j] = evs[kept[j]]
  <2>1. kept \in Seq(Nat) /\ evs \in Seq(Holdable(V))
    BY <1>2, <1>4
  <2> QED
    BY <1>5b, <2>1, AtProperties DEF n
<1>8. /\ q.event_ids_ = At(ids, kept) /\ q.events_ = At(evs, kept)
      /\ q.total_events_ = n /\ q.empty_events_ = 0
      /\ q.last_event_id_ = p.last_event_id_
      /\ q.total_raw_events_size_ = p.total_raw_events_size_
      /\ q \in Processors(Holdable(V))
  BY <1>3, <1>4, <1>6, <1>7 DEF compactify, Processors, ids, evs, kept, n
<1> HIDE DEF kept, q, ids, evs, n
<1>9. /\ Len(q.event_ids_) = n /\ Len(q.events_) = n
      /\ \A j \in 1..n : q.event_ids_[j] = ids[kept[j]] /\ q.events_[j] = evs[kept[j]]
  BY <1>6, <1>7, <1>8
<1>10. Alive(q) = 1..n /\ Deleted(q) = {}
  BY <1>5, <1>9 DEF Alive, Deleted
<1>11. Typed(q, V)
  <2> SUFFICES ASSUME NEW j \in 1..n
               PROVE  q.events_[j].type = "data" /\ q.events_[j].id * 2 = q.event_ids_[j]
    BY <1>8, <1>9, <1>10 DEF Typed
  <2>1. kept[j] \in Alive(p)
    BY <1>2, <1>3
  <2>2. evs[kept[j]].type = "data" /\ evs[kept[j]].id * 2 = ids[kept[j]]
    BY <1>1, <2>1 DEF Typed, evs, ids
  <2> QED
    BY <1>9, <2>2
<1>12. Counted(q)
  <2>1. Cardinality(Deleted(q)) = 0
    BY <1>10, FS_EmptySet
  <2>2. p.total_raw_events_size_ = n
    BY <1>1, <1>2, <1>4, AliveAndDeleted DEF Counted, ids
  <2> QED
    BY <1>3, <1>8, <1>9, <2>1, <2>2 DEF Counted
<1>13. Sorted(q)
  <2>1. ASSUME NEW i \in 1..n, NEW j \in 1..n, i < j
        PROVE  /\ ids[kept[i]] < ids[kept[j]]
               /\ ~IsDeleted(ids[kept[i]]) => ids[kept[i]] + 1 < ids[kept[j]]
    <3>1. kept[i] < kept[j] /\ kept[i] \in 1..Len(ids) /\ kept[j] \in 1..Len(ids)
      BY <1>2, <1>3, <1>5, <2>1
    <3> QED
      BY <1>1, <3>1 DEF Sorted, ids
  <2>2. \A j \in 1..n : 1 < ids[kept[j]] /\ ids[kept[j]] <= p.last_event_id_ * 2 + 1
    BY <1>1, <1>5 DEF Sorted, ids
  <2> QED
    BY <1>8, <1>9, <2>1, <2>2 DEF Sorted
<1>14. Contents(q) = Contents(p)
  <2> DEFINE C(e) == <<e.id, e.val>>
  <2>1. Contents(q) = {C(q.events_[j]) : j \in 1..n}
    BY <1>10, <1>11, ContentsOfLive
  <2>2. Contents(p) = {C(evs[i]) : i \in Alive(p)}
    BY <1>1, ContentsOfLive DEF evs
  <2> HIDE DEF C
  <2>3. ASSUME NEW j \in 1..n
        PROVE  \E i \in Alive(p) : C(q.events_[j]) = C(evs[i])
    BY <1>2, <1>3, <1>9
  <2>4. ASSUME NEW i \in Alive(p)
        PROVE  \E j \in 1..n : C(q.events_[j]) = C(evs[i])
    BY <1>2, <1>3, <1>9
  <2> QED
    BY <2>1, <2>2, <2>3, <2>4
<1> QED
  BY <1>8, <1>11, <1>12, <1>13, <1>14 DEF Agree, q

LEMMA MaybeCompactifyProperties ==
  ASSUME NEW p, NEW V, Agree(p, V)
  PROVE  /\ Agree(MaybeCompactify(p), V)
         /\ Contents(MaybeCompactify(p)) = Contents(p)
         /\ MaybeCompactify(p).last_event_id_ = p.last_event_id_
BY CompactifyProperties DEF MaybeCompactify

-----------------------------------------------------------------------------
(* do_event.                                                                *)

(* A new event.                                                             *)
LEMMA AppendedProperties ==
  ASSUME NEW p, NEW V, Agree(p, V), NEW e \in Data(V), e.id > p.last_event_id_
  PROVE  /\ Agree(Appended(p, e), V)
         /\ Contents(Appended(p, e)) = Contents(p) \cup {<<e.id, e.val>>}
         /\ Appended(p, e).last_event_id_ = e.id
<1> DEFINE q == Appended(p, e)
           ids == p.event_ids_
           evs == p.events_
           n == Len(ids)
<1>1. Typed(p, V) /\ Counted(p) /\ Sorted(p)
  BY DEF Agree
<1>2. /\ ids \in Seq(Nat) /\ evs \in Seq(Holdable(V)) /\ Len(evs) = n /\ n \in Nat
      /\ \A i \in 1..n : ids[i] \in Nat
      /\ p.last_event_id_ \in Nat /\ p.total_raw_events_size_ \in Nat /\ p.total_events_ \in Nat
      /\ p \in Processors(Holdable(V))
  BY <1>1, TypedFields DEF Typed
<1>3. e \in Holdable(V) /\ e.id \in Nat /\ e.id * 2 \in Nat /\ e.type = "data"
  BY DEF Data, Holdable
<1>4. /\ Append(ids, e.id * 2) \in Seq(Nat) /\ Len(Append(ids, e.id * 2)) = n + 1
      /\ \A i \in 1..n : Append(ids, e.id * 2)[i] = ids[i]
      /\ Append(ids, e.id * 2)[n + 1] = e.id * 2
  BY <1>2, <1>3
<1>5. /\ Append(evs, e) \in Seq(Holdable(V)) /\ Len(Append(evs, e)) = n + 1
      /\ \A i \in 1..n : Append(evs, e)[i] = evs[i]
      /\ Append(evs, e)[n + 1] = e
  BY <1>2, <1>3
<1>6. /\ q.event_ids_ = Append(ids, e.id * 2) /\ q.events_ = Append(evs, e)
      /\ q.total_events_ = p.total_events_ + 1 /\ q.empty_events_ = p.empty_events_
      /\ q.last_event_id_ = e.id
      /\ q.total_raw_events_size_ = p.total_raw_events_size_ + 1
      /\ q \in Processors(Holdable(V))
  <2> DEFINE a == Append(ids, e.id * 2)
             b == Append(evs, e)
             x == p.total_raw_events_size_ + 1
             y == p.total_events_ + 1
  <2>1. q = [p EXCEPT !.last_event_id_ = e.id, !.total_raw_events_size_ = x,
                      !.total_events_ = y, !.event_ids_ = a, !.events_ = b]
    BY <1>2 DEF Appended, Processors
  <2>2. a \in Seq(Nat) /\ b \in Seq(Holdable(V)) /\ x \in Nat /\ y \in Nat
    BY <1>2, <1>4, <1>5
  <2> HIDE DEF q, ids, evs, n, a, b, x, y
  <2>3. /\ q.event_ids_ = a /\ q.events_ = b /\ q.total_events_ = y
        /\ q.empty_events_ = p.empty_events_ /\ q.last_event_id_ = e.id
        /\ q.total_raw_events_size_ = x /\ q \in Processors(Holdable(V))
    BY <1>2, <1>3, <2>1, <2>2 DEF Processors
  <2> QED
    BY <2>3 DEF a, b, x, y
<1> HIDE DEF q, ids, evs, n
<1>7. /\ Len(q.event_ids_) = n + 1 /\ Len(q.events_) = n + 1
      /\ \A i \in 1..n : q.event_ids_[i] = ids[i] /\ q.events_[i] = evs[i]
      /\ q.event_ids_[n + 1] = e.id * 2 /\ q.events_[n + 1] = e
      /\ 1..(n + 1) = (1..n) \cup {n + 1} /\ n + 1 \notin 1..n
  BY <1>2, <1>4, <1>5, <1>6
<1>8. Alive(q) = Alive(p) \cup {n + 1} /\ Deleted(q) = Deleted(p)
  BY <1>3, <1>7, Parity DEF Alive, Deleted, ids, n
<1>9. \A i \in Alive(p) : i \in 1..n
  BY DEF Alive, n, ids
<1>10. Typed(q, V)
  <2>1. \A i \in Alive(p) : evs[i].type = "data" /\ evs[i].id * 2 = ids[i]
    BY <1>1 DEF Typed, evs, ids
  <2>2. \A i \in Alive(q) : q.events_[i].type = "data" /\ q.events_[i].id * 2 = q.event_ids_[i]
    BY <1>3, <1>7, <1>8, <1>9, <2>1
  <2> QED
    BY <1>6, <1>7, <2>2 DEF Typed
<1>11. Counted(q)
  <2>1. Cardinality(Deleted(p)) \in Nat
    BY <1>2, AliveAndDeleted DEF ids
  <2>2. /\ p.total_events_ = n /\ p.empty_events_ = Cardinality(Deleted(p))
        /\ p.total_raw_events_size_ = n - Cardinality(Deleted(p))
    BY <1>1 DEF Counted, n, ids
  <2> QED
    BY <1>2, <1>6, <1>7, <1>8, <2>1, <2>2 DEF Counted
<1>12. Sorted(q)
  <2>1. \A i, j \in 1..n : i < j =>
           ids[i] < ids[j] /\ (~IsDeleted(ids[i]) => ids[i] + 1 < ids[j])
    BY <1>1 DEF Sorted, n, ids
  <2>2. \A i \in 1..n : 1 < ids[i] /\ ids[i] <= p.last_event_id_ * 2 + 1
    BY <1>1 DEF Sorted, n, ids
  <2>2a. \A i \in 1..(n + 1) : 1 < q.event_ids_[i]
    <3>1. 1 < e.id * 2
      BY <1>2, <1>3
    <3> QED
      BY <1>7, <2>2, <3>1
  <2>3. \A i \in 1..n : ids[i] < e.id * 2
    BY <1>2, <1>3, <2>2
  <2>4. ASSUME NEW i \in 1..n, ~IsDeleted(ids[i])
        PROVE  ids[i] + 1 < e.id * 2
    <3>1. ids[i] \in Nat /\ e.id * 2 \in Nat /\ ids[i] < e.id * 2
      BY <1>2, <1>3, <2>3
    <3>2. ids[i] + 1 # e.id * 2
      BY <1>3, <2>4, <3>1, Parity
    <3> DEFINE d == e.id * 2
    <3> HIDE DEF d
    <3>3. ids[i] + 1 < d
      BY <3>1, <3>2 DEF d
    <3> QED
      BY <3>3 DEF d
  <2>5. ASSUME NEW i \in 1..(n + 1), NEW j \in 1..(n + 1), i < j
        PROVE  /\ q.event_ids_[i] < q.event_ids_[j]
               /\ ~IsDeleted(q.event_ids_[i]) => q.event_ids_[i] + 1 < q.event_ids_[j]
    <3>1. i \in 1..n
      BY <1>2, <2>5
    <3>2. CASE j = n + 1
      BY <1>7, <2>3, <2>4, <3>1, <3>2
    <3>3. CASE j \in 1..n
      BY <1>7, <2>1, <2>5, <3>1, <3>3
    <3> QED
      BY <1>7, <3>2, <3>3
  <2>6. \A i \in 1..(n + 1) : q.event_ids_[i] <= e.id * 2 + 1
    <3> DEFINE d == e.id * 2
    <3>1. d \in Nat /\ \A i \in 1..n : ids[i] < d
      BY <1>3, <2>3
    <3> HIDE DEF d
    <3>2. \A i \in 1..(n + 1) : q.event_ids_[i] <= d
      <4>1. \A i \in 1..n : q.event_ids_[i] <= d
        <5> SUFFICES ASSUME NEW i \in 1..n PROVE q.event_ids_[i] <= d
          OBVIOUS
        <5>1. q.event_ids_[i] = ids[i] /\ ids[i] \in Nat /\ ids[i] < d
          BY <1>2, <1>7, <3>1
        <5> QED
          BY <3>1, <5>1
      <4>2. q.event_ids_[n + 1] = d
        BY <1>7 DEF d
      <4> QED
        BY <1>7, <3>1, <4>1, <4>2
    <3>3. \A i \in 1..(n + 1) : q.event_ids_[i] \in Nat
      BY <1>2, <1>3, <1>7
    <3>4. \A i \in 1..(n + 1) : q.event_ids_[i] <= d + 1
      BY <3>1, <3>2, <3>3
    <3> QED
      BY <3>4 DEF d
  <2> QED
    BY <1>6, <1>7, <2>2a, <2>5, <2>6 DEF Sorted
<1>13. Contents(q) = Contents(p) \cup {<<e.id, e.val>>}
  <2> DEFINE C(x) == <<x.id, x.val>>
  <2>1. Contents(q) = {C(q.events_[j]) : j \in Alive(q)}
    BY <1>10, ContentsOfLive
  <2>2. Contents(p) = {C(evs[i]) : i \in Alive(p)}
    BY <1>1, ContentsOfLive DEF evs
  <2> HIDE DEF C
  <2>3. {C(q.events_[j]) : j \in Alive(q)} = {C(evs[i]) : i \in Alive(p)} \cup {C(e)}
    BY <1>7, <1>8, <1>9
  <2> QED
    BY <2>1, <2>2, <2>3 DEF C
<1> QED
  BY <1>6, <1>10, <1>11, <1>12, <1>13 DEF Agree, q

(* Two live events have different identifiers.                              *)
LEMMA LiveIdsDiffer ==
  ASSUME NEW p, NEW V, Agree(p, V), NEW i \in Alive(p), NEW j \in Alive(p),
         p.events_[i].id = p.events_[j].id
  PROVE  i = j
<1>1. p.event_ids_[i] = p.event_ids_[j]
  BY TypedFields DEF Agree
<1>2. /\ i \in 1..Len(p.event_ids_) /\ j \in 1..Len(p.event_ids_)
      /\ p.event_ids_[i] \in Nat /\ p.event_ids_[j] \in Nat
  BY TypedFields DEF Agree, Alive
<1>3. ~(i < j) /\ ~(j < i)
  BY <1>1, <1>2 DEF Agree, Sorted
<1> QED
  BY <1>2, <1>3

(* A rewrite of a live event finds it.                                      *)
LEMMA RewriteFindsLive ==
  ASSUME NEW p, NEW V, Agree(p, V), NEW i \in Alive(p), NEW e, e.id = p.events_[i].id
  PROVE  /\ Positions(p, e) = {i}
         /\ IsRewrite(p, e) <=> e.rewrite
<1> DEFINE ids == p.event_ids_
           n == Len(ids)
<1>1. /\ ids \in Seq(Nat) /\ n \in Nat /\ DOMAIN ids = 1..n
      /\ \A j \in 1..n : ids[j] \in Nat
      /\ e.id \in Nat /\ e.id * 2 = ids[i]
  BY TypedFields DEF Agree, Data
<1>2. i \in 1..n
  BY DEF Alive
<1>3. \A j \in 1..n : ids[j] = ids[i] => j = i
  <2> SUFFICES ASSUME NEW j \in 1..n, ids[j] = ids[i] PROVE j = i
    OBVIOUS
  <2>0. \A a, b \in 1..n : a < b => ids[a] < ids[b]
    BY DEF Agree, Sorted
  <2> HIDE DEF ids, n
  <2>1. ~(i < j) /\ ~(j < i)
    BY <1>1, <1>2, <2>0
  <2> QED
    BY <1>1, <1>2, <2>1
<1>4. Positions(p, e) = {i}
  BY <1>1, <1>2, <1>3 DEF Positions
<1>5. ids # <<>> /\ Last(ids) >= ids[i]
  <2>1. n >= 1 /\ n \in 1..n
    BY <1>1, <1>2
  <2>2. i = n \/ i < n
    BY <1>1, <1>2
  <2>3. i < n => ids[i] < ids[n]
    BY <1>2, <2>1 DEF Agree, Sorted
  <2>4. ids[n] >= ids[i]
    BY <1>1, <1>2, <2>1, <2>2, <2>3
  <2> QED
    BY <1>1, <2>1, <2>4 DEF Last
<1>6. IsRewrite(p, e) <=> e.rewrite
  BY <1>1, <1>5 DEF IsRewrite
<1> QED
  BY <1>4, <1>6

(* A live event gets new contents.                                          *)
LEMMA RewrittenData ==
  ASSUME NEW p, NEW V, Agree(p, V), NEW i \in Alive(p), NEW e \in Data(V),
         e.id = p.events_[i].id
  PROVE  /\ Agree(Rewritten(p, e), V)
         /\ Contents(Rewritten(p, e)) = {c \in Contents(p) : c[1] # e.id} \cup {<<e.id, e.val>>}
         /\ Rewritten(p, e).last_event_id_ = p.last_event_id_
<1> DEFINE q == Rewritten(p, e)
           evs == p.events_
           n == Len(p.event_ids_)
<1>1. Typed(p, V) /\ Counted(p) /\ Sorted(p)
  BY DEF Agree
<1>2. /\ evs \in Seq(Holdable(V)) /\ Len(evs) = n /\ n \in Nat /\ DOMAIN evs = 1..n
      /\ p \in Processors(Holdable(V)) /\ i \in 1..n
      /\ \A j \in Alive(p) : evs[j] \in Data(V) /\ evs[j].id * 2 = p.event_ids_[j]
  BY <1>1, TypedFields DEF Typed, Alive
<1>3. e \in Holdable(V) /\ e.type = "data"
  BY DEF Data, Holdable
<1> DEFINE new == [evs EXCEPT ![i] = e]
<1>4. /\ new \in Seq(Holdable(V)) /\ Len(new) = n
      /\ \A j \in 1..n : new[j] = IF j = i THEN e ELSE evs[j]
  BY <1>2, <1>3
<1>5. q = [p EXCEPT !.events_ = new]
  <2>1. (CHOOSE j \in Positions(p, e) : TRUE) = i
    BY RewriteFindsLive
  <2> QED
    BY <1>2, <1>3, <2>1 DEF Rewritten, Processors
<1> HIDE DEF q, evs, n, new
<1>6. /\ q.events_ = new /\ q.event_ids_ = p.event_ids_
      /\ q.total_events_ = p.total_events_ /\ q.empty_events_ = p.empty_events_
      /\ q.last_event_id_ = p.last_event_id_
      /\ q.total_raw_events_size_ = p.total_raw_events_size_
      /\ q \in Processors(Holdable(V))
  BY <1>2, <1>4, <1>5 DEF Processors
<1>7. Alive(q) = Alive(p) /\ Deleted(q) = Deleted(p)
  BY <1>6 DEF Alive, Deleted
<1>8. Counted(q) /\ Sorted(q)
  BY <1>1, <1>6, <1>7 DEF Counted, Sorted
<1>9. \A j \in Alive(p) : j \in 1..n
  BY DEF Alive, n
<1>10. Typed(q, V)
  <2>1. \A j \in Alive(p) : new[j].type = "data" /\ new[j].id * 2 = p.event_ids_[j]
    <3>1. \A j \in Alive(p) : evs[j].type = "data" /\ evs[j].id * 2 = p.event_ids_[j]
      BY <1>2 DEF Data
    <3>2. e.id * 2 = p.event_ids_[i]
      BY <1>2 DEF evs
    <3> QED
      BY <1>3, <1>4, <1>9, <3>1, <3>2
  <2> QED
    BY <1>4, <1>6, <1>7, <2>1 DEF Typed, n
<1>11. Contents(q) = {c \in Contents(p) : c[1] # e.id} \cup {<<e.id, e.val>>}
  <2> DEFINE C(x) == <<x.id, x.val>>
             Others == {C(evs[j]) : j \in Alive(p) \ {i}}
  <2>1. Contents(q) = {C(new[j]) : j \in Alive(p)}
    BY <1>6, <1>7, <1>10, ContentsOfLive
  <2>2. Contents(p) = {C(evs[j]) : j \in Alive(p)}
    BY <1>1, ContentsOfLive DEF evs
  <2>3. ASSUME NEW j \in Alive(p)
        PROVE  C(evs[j])[1] # e.id <=> j # i
    BY LiveIdsDiffer DEF evs
  <2> HIDE DEF C
  <2>4. {C(new[j]) : j \in Alive(p)} = Others \cup {C(e)}
    BY <1>4, <1>9
  <2>5. {c \in Contents(p) : c[1] # e.id} = Others
    BY <2>2, <2>3
  <2> QED
    BY <2>1, <2>4, <2>5 DEF C
<1> QED
  BY <1>6, <1>8, <1>10, <1>11 DEF Agree, q

(* A live event is erased: it stays as a tombstone.                         *)
LEMMA RewrittenEmpty ==
  ASSUME NEW p, NEW V, Agree(p, V), NEW i \in Alive(p), NEW e, e.type = "empty",
         e.id = p.events_[i].id
  PROVE  /\ Agree(Rewritten(p, e), V)
         /\ Contents(Rewritten(p, e)) = {c \in Contents(p) : c[1] # e.id}
         /\ Rewritten(p, e).last_event_id_ = p.last_event_id_
<1> DEFINE q == Rewritten(p, e)
           ids == p.event_ids_
           evs == p.events_
           n == Len(ids)
<1>1. Typed(p, V) /\ Counted(p) /\ Sorted(p)
  BY DEF Agree
<1>2. /\ ids \in Seq(Nat) /\ DOMAIN ids = 1..n /\ \A j \in 1..n : ids[j] \in Nat
      /\ evs \in Seq(Holdable(V)) /\ Len(evs) = n /\ n \in Nat /\ DOMAIN evs = 1..n
      /\ p.empty_events_ \in Nat /\ p.total_raw_events_size_ \in Nat /\ p.last_event_id_ \in Nat
      /\ p \in Processors(Holdable(V)) /\ i \in 1..n /\ ~IsDeleted(ids[i])
      /\ \A j \in Alive(p) : evs[j] \in Data(V) /\ evs[j].id * 2 = ids[j]
  BY <1>1, TypedFields DEF Typed, Alive
<1>3. DeletedEvent \in Holdable(V)
  BY DEF Holdable
<1> DEFINE new == [evs EXCEPT ![i] = DeletedEvent]
           marked == [ids EXCEPT ![i] = ids[i] + 1]
<1>4. /\ new \in Seq(Holdable(V)) /\ Len(new) = n
      /\ \A j \in 1..n : new[j] = IF j = i THEN DeletedEvent ELSE evs[j]
  BY <1>2, <1>3
<1>5. /\ marked \in Seq(Nat) /\ Len(marked) = n
      /\ \A j \in 1..n : marked[j] = IF j = i THEN ids[j] + 1 ELSE ids[j]
  BY <1>2
<1> DEFINE x == p.empty_events_ + 1
           y == p.total_raw_events_size_ - 1
<1>6. q = [p EXCEPT !.event_ids_ = marked, !.events_ = new, !.empty_events_ = x,
                    !.total_raw_events_size_ = y]
  <2>1. (CHOOSE j \in Positions(p, e) : TRUE) = i
    BY RewriteFindsLive
  <2> QED
    BY <1>2, <2>1 DEF Rewritten, Processors
<1> HIDE DEF q, ids, evs, n, new, marked
<1>7. /\ IsFiniteSet(Deleted(p)) /\ i \notin Deleted(p)
      /\ Cardinality(Deleted(p)) \in Nat
      /\ Cardinality(Deleted(p) \cup {i}) = Cardinality(Deleted(p)) + 1
  <2>1. IsFiniteSet(Deleted(p)) /\ Cardinality(Deleted(p)) \in Nat
    BY <1>2, AliveAndDeleted DEF ids
  <2>2. i \notin Deleted(p)
    BY <1>2 DEF Deleted, ids
  <2> QED
    BY <2>1, <2>2, FS_AddElement
<1>8. /\ p.total_events_ = n
      /\ p.empty_events_ = Cardinality(Deleted(p))
      /\ p.total_raw_events_size_ = n - Cardinality(Deleted(p))
  BY <1>1 DEF Counted, n, ids
<1>9. y \in Nat /\ x \in Nat
  <2>1. i \in Alive(p) /\ IsFiniteSet(Alive(p)) /\ Cardinality(Alive(p)) \in Nat
    BY <1>2, AliveAndDeleted DEF ids
  <2>2. Cardinality(Alive(p)) # 0
    BY <2>1, FS_EmptySet
  <2>3. p.total_raw_events_size_ = Cardinality(Alive(p))
    BY <1>2, <1>8, AliveAndDeleted DEF ids, n
  <2> QED
    BY <1>2, <2>1, <2>2, <2>3
<1> HIDE DEF x, y
<1>10. /\ q.events_ = new /\ q.event_ids_ = marked
       /\ q.total_events_ = p.total_events_ /\ q.empty_events_ = x
       /\ q.last_event_id_ = p.last_event_id_
       /\ q.total_raw_events_size_ = y
       /\ q \in Processors(Holdable(V))
  BY <1>2, <1>4, <1>5, <1>6, <1>9 DEF Processors
<1>11. IsDeleted(ids[i] + 1)
  BY <1>2, Parity
<1>12. Alive(q) = Alive(p) \ {i} /\ Deleted(q) = Deleted(p) \cup {i}
  <2>1. Len(q.event_ids_) = n
    BY <1>5, <1>10
  <2>2. \A j \in 1..n : IsDeleted(marked[j]) <=> j = i \/ IsDeleted(ids[j])
    BY <1>5, <1>11
  <2> QED
    BY <1>2, <1>10, <2>1, <2>2 DEF Alive, Deleted, n, ids
<1>13. Counted(q)
  BY <1>2, <1>5, <1>7, <1>8, <1>10, <1>12 DEF Counted, x, y
<1>14. Sorted(q)
  <2>1. ASSUME NEW a \in 1..n, NEW b \in 1..n, a < b
        PROVE  /\ marked[a] < marked[b]
               /\ ~IsDeleted(marked[a]) => marked[a] + 1 < marked[b]
    <3>1. ids[a] < ids[b] /\ (~IsDeleted(ids[a]) => ids[a] + 1 < ids[b])
      BY <1>1, <2>1 DEF Sorted, ids, n
    <3>2. CASE a = i
      BY <1>2, <1>5, <1>11, <2>1, <3>1, <3>2
    <3>3. CASE b = i
      BY <1>2, <1>5, <2>1, <3>1, <3>3
    <3>4. CASE a # i /\ b # i
      BY <1>5, <3>1, <3>4
    <3> QED
      BY <3>2, <3>3, <3>4
  <2>2. ASSUME NEW a \in 1..n
        PROVE  1 < marked[a] /\ marked[a] <= p.last_event_id_ * 2 + 1
    <3>1. 1 < ids[a] /\ ids[a] <= p.last_event_id_ * 2 + 1
      BY <1>1 DEF Sorted, ids, n
    <3>2. CASE a # i
      BY <1>5, <3>1, <3>2
    <3>3. CASE a = i
      <4>1. ids[a] # p.last_event_id_ * 2 + 1
        <5>0. p.last_event_id_ \in Nat
          BY <1>2
        <5>1. p.last_event_id_ * 2 \in Nat /\ ~IsDeleted(p.last_event_id_ * 2)
          BY <5>0, Parity
        <5>2. IsDeleted(p.last_event_id_ * 2 + 1)
          BY <5>1, Parity
        <5> QED
          BY <1>2, <3>3, <5>2
      <4> DEFINE m == p.last_event_id_ * 2
      <4>2. m \in Nat
        BY <1>2
      <4> HIDE DEF m
      <4>3. ids[a] \in Nat /\ 1 < ids[a] /\ ids[a] <= m + 1 /\ ids[a] # m + 1 /\ marked[a] = ids[a] + 1
        BY <1>2, <1>5, <3>1, <3>3, <4>1 DEF m
      <4>4. 1 < marked[a] /\ marked[a] <= m + 1
        BY <4>2, <4>3
      <4> QED
        BY <4>4 DEF m
    <3> QED
      BY <3>2, <3>3
  <2> QED
    BY <1>5, <1>10, <2>1, <2>2 DEF Sorted
<1>15. \A j \in Alive(p) : j \in 1..n
  BY DEF Alive, n, ids
<1>16. Typed(q, V)
  <2>1. \A j \in Alive(p) \ {i} : new[j].type = "data" /\ new[j].id * 2 = marked[j]
    <3>1. \A j \in Alive(p) : evs[j].type = "data" /\ evs[j].id * 2 = ids[j]
      BY <1>2 DEF Data
    <3> QED
      BY <1>4, <1>5, <1>15, <3>1
  <2> QED
    BY <1>4, <1>5, <1>10, <1>12, <2>1 DEF Typed
<1>17. Contents(q) = {c \in Contents(p) : c[1] # e.id}
  <2> DEFINE C(z) == <<z.id, z.val>>
             Others == {C(evs[j]) : j \in Alive(p) \ {i}}
  <2>1. Contents(q) = {C(new[j]) : j \in Alive(p) \ {i}}
    BY <1>10, <1>12, <1>16, ContentsOfLive
  <2>2. Contents(p) = {C(evs[j]) : j \in Alive(p)}
    BY <1>1, ContentsOfLive DEF evs
  <2>3. ASSUME NEW j \in Alive(p)
        PROVE  C(evs[j])[1] # e.id <=> j # i
    BY LiveIdsDiffer DEF evs
  <2> HIDE DEF C
  <2>4. {C(new[j]) : j \in Alive(p) \ {i}} = Others
    BY <1>4, <1>15
  <2>5. {c \in Contents(p) : c[1] # e.id} = Others
    BY <2>2, <2>3
  <2> QED
    BY <2>1, <2>4, <2>5
<1> QED
  BY <1>10, <1>13, <1>14, <1>16, <1>17 DEF Agree, q

(* do_event of a new event, of a rewrite and of an erase: none is refused,  *)
(* and Contents changes as a map would.                                     *)
LEMMA DoEventNew ==
  ASSUME NEW p, NEW V, Agree(p, V), NEW e \in Data(V), e.id > p.last_event_id_
  PROVE  /\ ~Refused(p, e)
         /\ Agree(do_event(p, e), V)
         /\ Contents(do_event(p, e)) = Contents(p) \cup {<<e.id, e.val>>}
         /\ do_event(p, e).last_event_id_ = e.id
<1> DEFINE ids == p.event_ids_
           n == Len(ids)
<1>1. /\ ids \in Seq(Nat) /\ n \in Nat /\ \A j \in 1..n : ids[j] \in Nat
      /\ p.last_event_id_ \in Nat
  BY TypedFields DEF Agree
<1>2. e.id \in Nat /\ e.type = "data"
  BY DEF Data
<1>3. \A j \in 1..n : ids[j] <= p.last_event_id_ * 2 + 1
  BY DEF Agree, Sorted
<1>4. ids # <<>> => ~(Last(ids) >= e.id * 2)
  <2> SUFFICES ASSUME ids # <<>> PROVE ~(Last(ids) >= e.id * 2)
    OBVIOUS
  <2>1. n \in 1..n /\ Last(ids) = ids[n]
    BY <1>1 DEF Last
  <2> QED
    BY <1>1, <1>2, <1>3, <2>1
<1>5. ~IsRewrite(p, e) /\ ~Refused(p, e)
  BY <1>2, <1>4 DEF IsRewrite, Refused
<1>6. do_event(p, e) = MaybeCompactify(Appended(p, e))
  BY <1>2, <1>5 DEF do_event
<1> QED
  BY <1>5, <1>6, AppendedProperties, MaybeCompactifyProperties

LEMMA DoEventRewrite ==
  ASSUME NEW p, NEW V, Agree(p, V), NEW i \in Alive(p), NEW e \in Data(V), e.rewrite,
         e.id = p.events_[i].id
  PROVE  /\ ~Refused(p, e)
         /\ Agree(do_event(p, e), V)
         /\ Contents(do_event(p, e)) = {c \in Contents(p) : c[1] # e.id} \cup {<<e.id, e.val>>}
         /\ do_event(p, e).last_event_id_ = p.last_event_id_
<1>1. IsRewrite(p, e) /\ Positions(p, e) = {i}
  BY RewriteFindsLive
<1>2. do_event(p, e) = MaybeCompactify(Rewritten(p, e)) /\ ~Refused(p, e)
  BY <1>1 DEF do_event, Refused
<1> QED
  BY <1>2, RewrittenData, MaybeCompactifyProperties

LEMMA DoEventErase ==
  ASSUME NEW p, NEW V, Agree(p, V), NEW i \in Alive(p), NEW e, e.rewrite, e.type = "empty",
         e.id = p.events_[i].id
  PROVE  /\ ~Refused(p, e)
         /\ Agree(do_event(p, e), V)
         /\ Contents(do_event(p, e)) = {c \in Contents(p) : c[1] # e.id}
         /\ do_event(p, e).last_event_id_ = p.last_event_id_
<1>1. IsRewrite(p, e) /\ Positions(p, e) = {i}
  BY RewriteFindsLive
<1>2. do_event(p, e) = MaybeCompactify(Rewritten(p, e)) /\ ~Refused(p, e)
  BY <1>1 DEF do_event, Refused
<1> QED
  BY <1>2, RewrittenEmpty, MaybeCompactifyProperties

(* An identifier that Contents shows belongs to a live event.               *)
LEMMA LiveOfContents ==
  ASSUME NEW p, NEW V, Agree(p, V), NEW c \in Contents(p)
  PROVE  \E i \in Alive(p) : p.events_[i].id = c[1] /\ p.events_[i].val = c[2]
<1>1. PICK i \in Alive(p) : c = <<p.events_[i].id, p.events_[i].val>>
  BY ContentsOfLive DEF Agree
<1> QED
  BY <1>1

LEMMA EmptyAgrees ==
  ASSUME NEW V
  PROVE  /\ Agree(EmptyProcessor, V)
         /\ Contents(EmptyProcessor) = {}
         /\ EmptyProcessor.last_event_id_ = 0
<1> DEFINE p == EmptyProcessor
<1>1. /\ p.event_ids_ = <<>> /\ p.events_ = <<>> /\ p.total_events_ = 0 /\ p.empty_events_ = 0
      /\ p.last_event_id_ = 0 /\ p.total_raw_events_size_ = 0
      /\ p \in Processors(Holdable(V))
  BY DEF EmptyProcessor, Processors
<1> HIDE DEF p
<1>2. Alive(p) = {} /\ Deleted(p) = {}
  BY <1>1 DEF Alive, Deleted
<1>3. Typed(p, V)
  BY <1>1, <1>2 DEF Typed
<1>4. Counted(p)
  BY <1>1, <1>2, FS_EmptySet DEF Counted
<1>5. Sorted(p)
  BY <1>1 DEF Sorted
<1>6. Contents(p) = {}
  BY <1>2, <1>3, ContentsOfLive
<1> QED
  BY <1>1, <1>3, <1>4, <1>5, <1>6 DEF Agree, p

-----------------------------------------------------------------------------
(* Replay: a processor is fed with one event after the other.               *)

Fed(events, i, before) == IF i = 0 THEN EmptyProcessor ELSE do_event(before, events[i])

LEMMA FedExists ==
  ASSUME NEW events, NEW n \in Nat
  PROVE  \E g : g = [i \in 0..n |-> Fed(events, i, g[i - 1])]
<1> DEFINE Bad == {k \in Nat : ~ \E g : g = [i \in 0..k |-> Fed(events, i, g[i - 1])]}
<1>1. SUFFICES ASSUME Bad # {} PROVE FALSE
  OBVIOUS
<1>2. PICK k \in Bad : \A y \in Bad : k <= y
  BY <1>1, LeastNumber
<1>3. CASE k = 0
  <2> DEFINE g == [i \in 0..0 |-> EmptyProcessor]
  <2>1. g = [i \in 0..0 |-> Fed(events, i, g[i - 1])]
    BY DEF Fed
  <2> QED
    BY <1>2, <1>3, <2>1
<1>4. CASE k # 0
  <2>1. k - 1 \in Nat /\ k - 1 \notin Bad
    BY <1>2, <1>4
  <2>2. PICK g : g = [i \in 0..(k - 1) |-> Fed(events, i, g[i - 1])]
    BY <2>1
  <2> DEFINE h == [i \in 0..k |-> IF i = k THEN Fed(events, k, g[k - 1]) ELSE g[i]]
  <2>3. ASSUME NEW i \in 0..k
        PROVE  h[i] = Fed(events, i, h[i - 1])
    <3>1. CASE i = k
      BY <3>1, <1>4
    <3>2. CASE i # k /\ i # 0
      <4>1. i \in 0..(k - 1) /\ i - 1 \in 0..k /\ i - 1 # k
        BY <3>2
      <4> QED
        BY <4>1, <2>2
    <3>3. CASE i # k /\ i = 0
      <4>1. i \in 0..(k - 1)
        BY <3>3
      <4>2. h[i] = Fed(events, i, g[i - 1])
        BY <3>3, <4>1, <2>2
      <4> QED
        BY <4>2, <3>3 DEF Fed
    <3> QED
      BY <3>1, <3>2, <3>3
  <2>4. h = [i \in 0..k |-> Fed(events, i, h[i - 1])]
    BY <2>3
  <2> QED
    BY <1>2, <2>4
<1> QED
  BY <1>3, <1>4

(* Two functions that follow the same events agree.                         *)
Follows(f, events, n) == \A i \in 0..n : f[i] = Fed(events, i, f[i - 1])

SameUpTo(s, t, n) == \A i \in 1..n : s[i] = t[i]

LEMMA FedUnique ==
  ASSUME NEW events, NEW other, NEW n \in Nat, NEW f, NEW g,
         Follows(f, events, n), Follows(g, other, n), SameUpTo(events, other, n)
  PROVE  f[n] = g[n]
<1> USE DEF Follows, SameUpTo
<1> DEFINE Bad == {k \in 0..n : f[k] # g[k]}
<1>1. SUFFICES ASSUME Bad # {} PROVE FALSE
  OBVIOUS
<1>2. PICK k \in Bad : \A y \in Bad : k <= y
  <2>1. Bad \subseteq Nat
    OBVIOUS
  <2> QED
    BY <1>1, <2>1, LeastNumber
<1>3. CASE k = 0
  BY <1>2, <1>3 DEF Fed
<1>4. CASE k # 0
  <2>1. k - 1 \in 0..n /\ k \in 1..n /\ k - 1 \notin Bad
    BY <1>2, <1>4
  <2>2. f[k - 1] = g[k - 1]
    BY <2>1
  <2> QED
    BY <1>2, <1>4, <2>1, <2>2 DEF Fed
<1> QED
  BY <1>3, <1>4

(* Replay of a prefix, and of the prefix that is one event longer.          *)
LEMMA ReplayProperties ==
  ASSUME NEW E, NEW events \in Seq(E)
  PROVE  /\ Replay(SubSeq(events, 1, 0)) = EmptyProcessor
         /\ Replay(SubSeq(events, 1, Len(events))) = Replay(events)
         /\ \A n \in 1..Len(events) :
              Replay(SubSeq(events, 1, n)) = do_event(Replay(SubSeq(events, 1, n - 1)), events[n])
<1> DEFINE N == Len(events)
           Prefix(n) == SubSeq(events, 1, n)
           F(s) == CHOOSE g : g = [i \in 0..Len(s) |-> Fed(s, i, g[i - 1])]
<1>1. ASSUME NEW s, Len(s) \in Nat
      PROVE  /\ Replay(s) = F(s)[Len(s)]
             /\ F(s) = [i \in 0..Len(s) |-> Fed(s, i, F(s)[i - 1])]
  <2>1. Replay(s) = F(s)[Len(s)]
    BY DEF Replay, Fed
  <2>2. F(s) = [i \in 0..Len(s) |-> Fed(s, i, F(s)[i - 1])]
    BY <1>1, FedExists
  <2> QED
    BY <2>1, <2>2
<1>2. N \in Nat
  OBVIOUS
<1>3. \A n \in 0..N : Len(Prefix(n)) = n /\ \A i \in 1..n : Prefix(n)[i] = events[i]
  OBVIOUS
<1> HIDE DEF F, Prefix
<1>4. \A n \in 0..N : \A i \in 0..n : F(Prefix(n))[i] = Fed(Prefix(n), i, F(Prefix(n))[i - 1])
  BY <1>1, <1>2, <1>3
<1>5. \A n \in 0..N : Replay(Prefix(n)) = F(Prefix(n))[n]
  BY <1>1, <1>2, <1>3
<1>6. Replay(Prefix(0)) = EmptyProcessor
  BY <1>2, <1>4, <1>5 DEF Fed
<1>7. ASSUME NEW n \in 1..N
      PROVE  Replay(Prefix(n)) = do_event(Replay(Prefix(n - 1)), events[n])
  <2>1. n \in 0..N /\ n - 1 \in 0..N /\ n \in Nat /\ n - 1 \in Nat /\ n # 0 /\ n \in 0..n
        /\ n - 1 \in 0..n /\ n \in 1..n
    BY <1>2
  <2>2. Replay(Prefix(n)) = Fed(Prefix(n), n, F(Prefix(n))[n - 1])
    BY <1>4, <1>5, <2>1
  <2>3. F(Prefix(n))[n - 1] = F(Prefix(n - 1))[n - 1]
    <3> DEFINE m == n - 1
               x == Prefix(n)
               y == Prefix(n - 1)
               f == F(x)
               g == F(y)
    <3>1. m \in Nat
      BY <2>1
    <3>2. Follows(f, x, m)
      BY <1>4, <2>1 DEF Follows
    <3>3. Follows(g, y, m)
      BY <1>4, <2>1 DEF Follows
    <3>4. SameUpTo(x, y, m)
      BY <1>3, <2>1 DEF SameUpTo
    <3> HIDE DEF m, x, y, f, g
    <3>5. f[m] = g[m]
      BY <3>1, <3>2, <3>3, <3>4, FedUnique
    <3> QED
      BY <3>5 DEF m, x, y, f, g
  <2>4. Prefix(n)[n] = events[n]
    BY <1>3, <2>1
  <2> QED
    BY <1>5, <2>1, <2>2, <2>3, <2>4 DEF Fed
<1>8. SubSeq(events, 1, N) = events
  OBVIOUS
<1> QED
  BY <1>6, <1>7, <1>8 DEF Prefix

-----------------------------------------------------------------------------
(* Regeneration: the live events, written to a new binlog.                  *)

Increasing(events) ==
  /\ \A i \in 1..Len(events) : events[i].id > 0
  /\ \A i, j \in 1..Len(events) : i < j => events[i].id < events[j].id

(* for_each visits events with increasing identifiers, as its LOG_CHECK     *)
(* demands, and visits each live one once.                                  *)
LEMMA ForEachIncreases ==
  ASSUME NEW p, NEW V, Agree(p, V)
  PROVE  /\ for_each(p) \in Seq(Data(V))
         /\ Increasing(for_each(p))
         /\ Contents(p) = {<<for_each(p)[j].id, for_each(p)[j].val>> : j \in 1..Len(for_each(p))}
         /\ Len(for_each(p)) = Cardinality(Alive(p))
<1> DEFINE kept == AlivePositions(p)
           s == for_each(p)
           n == Len(kept)
           ids == p.event_ids_
<1>1. Typed(p, V) /\ Sorted(p)
  BY DEF Agree
<1>2. /\ kept \in Seq(Nat)
      /\ \A j \in DOMAIN kept : kept[j] \in Alive(p)
      /\ \A i, j \in DOMAIN kept : i < j => kept[i] < kept[j]
      /\ n = Cardinality(Alive(p))
  BY <1>1, TypedFields, AlivePositionsProperties
<1>3. n \in Nat /\ DOMAIN kept = 1..n
  BY <1>2
<1>4. s \in Seq(Holdable(V)) /\ Len(s) = n /\ \A j \in 1..n : s[j] = p.events_[kept[j]]
  BY <1>1, ForEachProperties
<1> HIDE DEF kept, s, n
<1>5. \A j \in 1..n : s[j] \in Data(V) /\ s[j].id * 2 = ids[kept[j]] /\ kept[j] \in 1..Len(ids)
  <2>1. \A i \in Alive(p) : p.events_[i] \in Data(V) /\ p.events_[i].id * 2 = ids[i]
    BY <1>1, TypedFields
  <2>2. \A i \in Alive(p) : i \in 1..Len(ids)
    BY DEF Alive
  <2> QED
    BY <1>2, <1>3, <1>4, <2>1, <2>2
<1>6. s \in Seq(Data(V))
  <2>1. s = [j \in 1..n |-> s[j]]
    BY <1>3, <1>4
  <2> QED
    BY <1>3, <1>5, <2>1
<1>7. \A j \in 1..n : s[j].id \in Nat
  BY <1>5 DEF Data
<1>8. \A k \in 1..Len(ids) : ids[k] \in Nat /\ 1 < ids[k]
  BY <1>1, TypedFields DEF Sorted
<1>9. ASSUME NEW j \in 1..n
      PROVE  s[j].id > 0
  BY <1>5, <1>7, <1>8
<1>10. ASSUME NEW i \in 1..n, NEW j \in 1..n, i < j
       PROVE  s[i].id < s[j].id
  <2>1. kept[i] < kept[j]
    BY <1>2, <1>3, <1>10
  <2>2. ids[kept[i]] < ids[kept[j]]
    BY <1>1, <1>5, <2>1 DEF Sorted
  <2> QED
    BY <1>5, <1>7, <2>2
<1>11. Increasing(s)
  BY <1>4, <1>9, <1>10 DEF Increasing
<1>12. Contents(p) = {<<s[j].id, s[j].val>> : j \in 1..n}
  <2>1. DOMAIN s = 1..n
    BY <1>3, <1>4
  <2> QED
    BY <2>1 DEF Contents, s
<1> QED
  BY <1>2, <1>4, <1>6, <1>11, <1>12 DEF s

(* A new processor accepts them all and holds the same events, whatever     *)
(* their Rewrite flags are.                                                 *)
LEMMA ReplayIncreasing ==
  ASSUME NEW V, NEW events \in Seq(Data(V)), Increasing(events)
  PROVE  /\ \A i \in 1..Len(events) : ~Refused(Replay(SubSeq(events, 1, i - 1)), events[i])
         /\ Contents(Replay(events)) = {<<events[j].id, events[j].val>> : j \in 1..Len(events)}
<1> DEFINE N == Len(events)
           R(i) == Replay(SubSeq(events, 1, i))
           C(e) == <<e.id, e.val>>
           Good(i) == /\ Agree(R(i), V)
                      /\ R(i).last_event_id_ = IF i = 0 THEN 0 ELSE events[i].id
                      /\ Contents(R(i)) = {C(events[j]) : j \in 1..i}
           Bad == {i \in 0..N : ~Good(i)}
<1>1. N \in Nat /\ \A i \in 1..N : events[i] \in Data(V) /\ events[i].id \in Nat
  <2>1. N \in Nat /\ \A i \in 1..N : events[i] \in Data(V)
    OBVIOUS
  <2>2. \A e \in Data(V) : e.id \in Nat
    BY DEF Data
  <2> QED
    BY <2>1, <2>2
<1>2. R(0) = EmptyProcessor /\ R(N) = Replay(events)
      /\ \A n \in 1..N : R(n) = do_event(R(n - 1), events[n])
  BY ReplayProperties
<1>3. /\ \A i \in 1..N : events[i].id > 0
      /\ \A i, j \in 1..N : i < j => events[i].id < events[j].id
  BY DEF Increasing
<1> HIDE DEF R, N, C
<1>4. ASSUME NEW n \in 1..N, Good(n - 1)
      PROVE  Good(n) /\ ~Refused(R(n - 1), events[n])
  <2>1. n \in Nat /\ n - 1 \in Nat
    BY <1>1
  <2>2. events[n].id > R(n - 1).last_event_id_
    <3>1. CASE n - 1 = 0
      BY <1>3, <1>4, <3>1
    <3>2. CASE n - 1 # 0
      <4>1. n - 1 \in 1..N /\ n - 1 < n
        BY <1>1, <2>1, <3>2
      <4>2. events[n - 1].id < events[n].id
        BY <1>3, <4>1
      <4> QED
        BY <1>1, <1>4, <3>2, <4>1, <4>2
    <3> QED
      BY <3>1, <3>2
  <2>3. events[n] \in Data(V)
    BY <1>1
  <2> DEFINE p == R(n - 1)
             e == events[n]
  <2>4. Agree(p, V) /\ Contents(p) = {C(events[j]) : j \in 1..(n - 1)} /\ e.id > p.last_event_id_
    BY <1>4, <2>2
  <2>5. R(n) = do_event(p, e)
    BY <1>2
  <2> HIDE DEF p, e, Good
  <2>6. e \in Data(V)
    BY <2>3 DEF e
  <2>7. /\ ~Refused(p, e) /\ Agree(R(n), V) /\ R(n).last_event_id_ = e.id
        /\ Contents(R(n)) = Contents(p) \cup {C(e)}
    BY <2>4, <2>5, <2>6, DoEventNew DEF C
  <2>8. 1..n = (1..(n - 1)) \cup {n}
    BY <2>1
  <2>9. {C(events[j]) : j \in 1..n} = {C(events[j]) : j \in 1..(n - 1)} \cup {C(e)}
    BY <2>8 DEF e
  <2>10. n # 0
    BY <1>1
  <2> QED
    BY <2>4, <2>7, <2>9, <2>10 DEF Good, p, e
<1>5. Good(0)
  <2>1. Agree(R(0), V) /\ Contents(R(0)) = {} /\ R(0).last_event_id_ = 0
    BY <1>2, EmptyAgrees
  <2>2. {C(events[j]) : j \in 1..0} = {}
    OBVIOUS
  <2> QED
    BY <2>1, <2>2
<1> HIDE DEF Good
<1>6. Bad = {}
  <2>1. SUFFICES ASSUME Bad # {} PROVE FALSE
    OBVIOUS
  <2>2. Bad \subseteq Nat
    BY <1>1
  <2>3. PICK k \in Bad : \A y \in Bad : k <= y
    BY <2>1, <2>2, LeastNumber
  <2>4. k # 0
    BY <1>5, <2>3
  <2>5. k \in 1..N /\ k - 1 \in 0..N /\ k - 1 \notin Bad
    BY <1>1, <2>3, <2>4
  <2> QED
    BY <1>4, <2>3, <2>5
<1>7. \A i \in 0..N : Good(i)
  BY <1>6
<1>8. \A i \in 1..N : ~Refused(R(i - 1), events[i])
  <2> SUFFICES ASSUME NEW i \in 1..N PROVE ~Refused(R(i - 1), events[i])
    OBVIOUS
  <2>1. i - 1 \in 0..N
    BY <1>1
  <2> QED
    BY <1>4, <1>7, <2>1
<1>9. Contents(R(N)) = {C(events[j]) : j \in 1..N}
  BY <1>1, <1>7 DEF Good
<1> QED
  BY <1>2, <1>8, <1>9 DEF R, N, C
=============================================================================
