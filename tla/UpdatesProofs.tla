--------------------------- MODULE UpdatesProofs ---------------------------
(***************************************************************************)
(* Proofs about what the server sends: UpdatesManager, for every sequence  *)
(* of updates, any number of faults and restarts and every limit; and      *)
(* DuplicateChecker, for every max_size and every finite set of            *)
(* identifiers.                                                            *)
(***************************************************************************)
EXTENDS UpdatesManager, DuplicateChecker, FiniteSetTheorems, FunctionTheorems, TLAPS

(* The lemmas on loops and orders; CompactMin does not matter for them.     *)
Lemmas == INSTANCE BinlogLemmas WITH CompactMin <- 1

-----------------------------------------------------------------------------
(* The inductive invariant.                                                 *)
Fields ==
  [pts : Int, accumulated_pts : Int, accumulated_count : Int,
   pending : SUBSET Updates, postponed : SUBSET Updates, running : BOOLEAN,
   gap : BOOLEAN, min_gap : BOOLEAN, retry : BOOLEAN,
   skipping : BOOLEAN, min_postponed : Int, last_fetched : Int,
   ask : {"none", "getState", "getDifference"}, fetch : SUBSET Int, saves : SUBSET Int,
   at : Int, misapplied : SUBSET Updates, checks : BOOLEAN]

Reached(pts, n) == \E k \in 0..n : pts = Pts[k]

InTurn(u, n) ==
  /\ u.misapplied = {} /\ u.at = u.pts /\ u.checks
  /\ u.pts = -1 \/ Reached(u.pts, n)
  /\ \A pts \in u.saves : pts = -1 \/ Reached(pts, n)

Counting(u) ==
  /\ u.accumulated_count = Total(u.pending)
  /\ IF u.pending = {} THEN u.accumulated_pts = -1
     ELSE \E m \in u.pending : u.accumulated_pts = Pts[m] /\ \A x \in u.pending : x <= m

Sane(u, n) ==
  /\ u \in Fields /\ InTurn(u, n) /\ Counting(u)
  /\ u.pending \subseteq 1..n /\ u.postponed \subseteq 1..n
  /\ \A x \in u.pending : u.pts <= Pts[x - 1]
  /\ u.running \/ u.pts = -1 => u.pending = {}
  /\ u.skipping => u.postponed = {}

Watched(u) == u.pending # {} \/ u.postponed # {} => u.gap \/ u.retry \/ u.running

(* The updates of a difference, and the pts it ends with.                   *)
IsDifference(pts, updates, from, n) ==
  \E upto \in 0..n : pts = Pts[upto] /\ Pts[upto] > from /\ updates = {x \in 1..upto : Pts[x] > from}

(* The query in flight, or its answer, is for the state of the client.      *)
RequestFits(q, u, n) ==
  /\ q.type \in {"none", "getState", "getDifference", "updates_state", "differenceEmpty", "difference",
                  "differenceSlice", "differenceTooLong", "invalid_poll", "error"}
  /\ u.running <=> q.type # "none"
  /\ q.type \in {"getState", "updates_state"} => u.pts = -1
  /\ q.type \in {"getDifference", "differenceEmpty", "difference", "differenceSlice", "differenceTooLong", "invalid_poll"}
       => u.pts # -1
  /\ q.type = "getDifference" => q.pts = u.pts
  /\ q.type = "updates_state" => Reached(q.pts, n)
  /\ q.type \in {"difference", "differenceSlice", "differenceTooLong"} =>
       IsDifference(q.pts, q.updates, u.pts, n)

IInv ==
  /\ server \in 0..Len(Counts)
  /\ Sane(um, server) /\ Watched(um) /\ um.ask = "none" /\ um.fetch = {}
  /\ pushed \subseteq 1..server
  /\ \A x \in pushed : x \notin um.pending /\ x \notin um.postponed
  /\ fetches \subseteq Int
  /\ RequestFits(request, um, server)

-----------------------------------------------------------------------------
(* Loops.                                                                   *)
N == Len(Counts)

LEMMA CountsAreNumbers == N \in Nat /\ Updates = 1..N /\ \A x \in 1..N : Counts[x] \in Nat
BY UpdatesAssumption DEF N, Updates

(* The bodies of the loops: what step i makes of y.                         *)
Step(loop_, a, i, y) ==
  CASE loop_ = "pts"       -> y + Counts[i]
    [] loop_ = "sum"       -> IF i \in a THEN y + Counts[i] ELSE y
    [] loop_ = "apply"     -> IF i \in a THEN Apply(y, i) ELSE y
    [] loop_ = "pending"   -> IF IsNext(y, i) THEN ApplyFirst(y, i) ELSE y
    [] loop_ = "postponed" -> ApplyPrefix(y)
    [] loop_ = "add"       -> IF i \in a.xs THEN add_pending_pts_update(y, i, i \in a.bad) ELSE y

(* h: the values of n steps that begin with z.                              *)
Run(h, loop_, a, z, n) == h = [i \in 0..n |-> IF i = 0 THEN z ELSE Step(loop_, a, i, h[i - 1])]

LEMMA StepsExist ==
  ASSUME NEW loop_, NEW a, NEW z, NEW n \in Nat
  PROVE  \E h : Run(h, loop_, a, z, n)
<1> USE DEF Run
<1> DEFINE Is(h, k) == Run(h, loop_, a, z, k)
           Bad == {k \in Nat : ~ \E h : Is(h, k)}
<1>1. SUFFICES ASSUME Bad # {} PROVE FALSE
  OBVIOUS
<1>2. PICK k \in Bad : \A y \in Bad : k <= y
  BY <1>1, Lemmas!LeastNumber
<1>3. CASE k = 0
  <2> DEFINE g == [i \in 0..0 |-> z]
  <2>1. g = [i \in 0..0 |-> IF i = 0 THEN z ELSE Step(loop_, a, i, g[i - 1])]
    OBVIOUS
  <2> QED
    BY <1>2, <1>3, <2>1
<1>4. CASE k # 0
  <2>1. k - 1 \in Nat /\ k - 1 \notin Bad
    BY <1>2, <1>4, SMTT(20)
  <2>2. PICK g : Is(g, k - 1)
    BY <2>1
  <2> DEFINE h == [i \in 0..k |-> IF i = k THEN Step(loop_, a, k, g[k - 1]) ELSE g[i]]
  <2>3. ASSUME NEW i \in 0..k
        PROVE  h[i] = IF i = 0 THEN z ELSE Step(loop_, a, i, h[i - 1])
    <3>1. CASE i = k
      BY <3>1, <1>4
    <3>2. CASE i # k /\ i # 0
      <4>1. i \in 0..(k - 1) /\ i - 1 \in 0..k /\ i - 1 # k
        BY <3>2
      <4> QED
        BY <4>1, <2>2, <3>2
    <3>3. CASE i # k /\ i = 0
      <4>1. i \in 0..(k - 1)
        BY <3>3
      <4> QED
        BY <4>1, <2>2, <3>3
    <3> QED
      BY <3>1, <3>2, <3>3
  <2>4. Is(h, k)
    BY <2>3
  <2> QED
    BY <1>2, <2>4
<1> QED
  BY <1>3, <1>4

(* What a loop computes, step by step.                                      *)
LEMMA RunValues ==
  ASSUME NEW h, NEW loop_, NEW a, NEW z, NEW n \in Nat, Run(h, loop_, a, z, n)
  PROVE  h[0] = z /\ \A i \in 1..n : h[i] = Step(loop_, a, i, h[i - 1])
BY DEF Run

-----------------------------------------------------------------------------
(* The pts of the updates.                                                  *)
LEMMA PtsValues ==
  /\ Pts[0] = StartPts /\ StartPts \in Nat \ {0}
  /\ \A x \in 1..N : Pts[x] = Pts[x - 1] + Counts[x]
<1> DEFINE Is(h) == h = [x \in 0..N |-> IF x = 0 THEN StartPts ELSE h[x - 1] + Counts[x]]
<1>1. PICK g : Run(g, "pts", 0, StartPts, N)
  BY StepsExist, CountsAreNumbers
<1>2. \A h : Is(h) <=> Run(h, "pts", 0, StartPts, N)
  BY DEF Run, Step
<1>3. PICK h : h = (CHOOSE f : Is(f))
  OBVIOUS
<1>4. Run(h, "pts", 0, StartPts, N)
  BY <1>1, <1>2, <1>3
<1>5. Pts = (CHOOSE f : Is(f))
  BY DEF Pts, N
<1> HIDE DEF Is
<1>6. Pts[0] = StartPts /\ \A x \in 1..N : Pts[x] = Step("pts", 0, x, Pts[x - 1])
  BY <1>3, <1>4, <1>5, RunValues, CountsAreNumbers, ZenonT(40)
<1> QED
  BY <1>6, UpdatesAssumption DEF Step

LEMMA PtsNumbers == \A x \in 0..N : Pts[x] \in Nat /\ Pts[x] >= 1
<1> DEFINE S == {x \in 0..N : Pts[x] \in Nat /\ Pts[x] >= 1}
<1>1. 0 \in S
  BY PtsValues, CountsAreNumbers
<1>2. ASSUME NEW i \in 1..N, i - 1 \in S PROVE i \in S
  <2>1. Pts[i] = Pts[i - 1] + Counts[i] /\ Counts[i] \in Nat /\ i \in 0..N
    BY PtsValues, CountsAreNumbers
  <2> QED
    BY <1>2, <2>1
<1>3. \A x \in 0..N : x \in S
  <2> HIDE DEF S
  <2> QED
    BY <1>1, <1>2, CountsAreNumbers, Lemmas!StepInduction
<1> QED
  BY <1>3

LEMMA PtsMonotone == \A x, y \in 0..N : x <= y => Pts[x] <= Pts[y]
<1> SUFFICES ASSUME NEW x \in 0..N PROVE \A y \in 0..N : x <= y => Pts[x] <= Pts[y]
  OBVIOUS
<1> DEFINE S == {y \in 0..N : x <= y => Pts[x] <= Pts[y]}
<1>1. 0 \in S
  BY CountsAreNumbers, PtsNumbers
<1>2. \A i \in 1..N : i - 1 \in S => i \in S
  <2> SUFFICES ASSUME NEW i \in 1..N, i - 1 \in S, x <= i PROVE Pts[x] <= Pts[i]
    BY CountsAreNumbers
  <2>1. CASE x = i
    BY <2>1, PtsNumbers, CountsAreNumbers
  <2>2. CASE x # i
    <3>1. x <= i - 1 /\ i - 1 \in 0..N
      BY <2>2, CountsAreNumbers
    <3>2. Pts[x] <= Pts[i - 1]
      BY <3>1
    <3>3. Pts[i] = Pts[i - 1] + Counts[i] /\ Counts[i] \in Nat
      BY PtsValues, CountsAreNumbers
    <3>4. Pts[x] \in Nat /\ Pts[i - 1] \in Nat
      BY <3>1, PtsNumbers
    <3> QED
      BY <3>2, <3>3, <3>4
  <2> QED
    BY <2>1, <2>2
<1>3. \A y \in 0..N : y \in S
  <2> HIDE DEF S
  <2> QED
    BY <1>1, <1>2, CountsAreNumbers, Lemmas!StepInduction
<1> QED
  BY <1>3

(* The pts before and after an update.                                      *)
LEMMA PtsStep ==
  ASSUME NEW x \in 1..N
  PROVE  /\ x - 1 \in 0..N /\ x \in 0..N /\ Counts[x] \in Nat
         /\ Pts[x - 1] \in Nat /\ Pts[x - 1] >= 1 /\ Pts[x] \in Nat /\ Pts[x] >= 1
         /\ Pts[x] = Pts[x - 1] + Counts[x] /\ Pts[x] - Counts[x] = Pts[x - 1]
<1>1. x - 1 \in 0..N /\ x \in 0..N /\ Counts[x] \in Nat
  BY CountsAreNumbers
<1>2. Pts[x - 1] \in Nat /\ Pts[x - 1] >= 1 /\ Pts[x] \in Nat /\ Pts[x] >= 1
  BY <1>1, PtsNumbers
<1>3. Pts[x] = Pts[x - 1] + Counts[x]
  BY PtsValues
<1> QED
  BY <1>1, <1>2, <1>3

(* A larger pts is that of a later update.                                  *)
LEMMA PtsOrder ==
  ASSUME NEW k \in 0..N, NEW x \in 1..N, Pts[k] < Pts[x]
  PROVE  k < x /\ Pts[k] <= Pts[x - 1]
<1>1. x - 1 \in 0..N /\ x \in 0..N
  BY CountsAreNumbers
<1>2. Pts[k] \in Nat /\ Pts[x] \in Nat
  BY <1>1, PtsNumbers
<1>3. ~(x <= k)
  BY <1>1, <1>2, PtsMonotone
<1>4. k <= x - 1
  BY <1>1, <1>3, CountsAreNumbers
<1> QED
  BY <1>1, <1>3, <1>4, PtsMonotone, CountsAreNumbers

-----------------------------------------------------------------------------
(* The sum of counts.                                                       *)
IsSum(h, xs) ==
  /\ h[0] = 0
  /\ \A x \in 1..N : h[x] = IF x \in xs THEN h[x - 1] + Counts[x] ELSE h[x - 1]

LEMMA SumExists ==
  ASSUME NEW xs
  PROVE  \E h : IsSum(h, xs) /\ Total(xs) = h[N]
<1> DEFINE Is(h) == h = [x \in 0..N |-> IF x = 0 THEN 0 ELSE IF x \in xs THEN h[x - 1] + Counts[x] ELSE h[x - 1]]
<1>1. PICK g : Run(g, "sum", xs, 0, N)
  BY StepsExist, CountsAreNumbers
<1>2. \A h : Is(h) <=> Run(h, "sum", xs, 0, N)
  BY DEF Run, Step
<1>3. PICK h : h = (CHOOSE f : Is(f))
  OBVIOUS
<1>4. Run(h, "sum", xs, 0, N)
  BY <1>1, <1>2, <1>3
<1>5. Total(xs) = (CHOOSE f : Is(f))[N]
  BY DEF Total, N
<1> HIDE DEF Is
<1>6. h[0] = 0 /\ \A x \in 1..N : h[x] = Step("sum", xs, x, h[x - 1])
  BY <1>4, RunValues, CountsAreNumbers
<1>7. IsSum(h, xs)
  BY <1>6 DEF IsSum, Step
<1> QED
  BY <1>3, <1>5, <1>7

LEMMA SumNumbers ==
  ASSUME NEW xs, NEW h, IsSum(h, xs)
  PROVE  \A x \in 0..N : h[x] \in Nat
<1> DEFINE S == {x \in 0..N : h[x] \in Nat}
<1>1. 0 \in S
  BY CountsAreNumbers DEF IsSum
<1>2. ASSUME NEW i \in 1..N, i - 1 \in S PROVE i \in S
  <2>1. h[i] = (IF i \in xs THEN h[i - 1] + Counts[i] ELSE h[i - 1]) /\ Counts[i] \in Nat /\ i \in 0..N
    BY PtsStep DEF IsSum
  <2> QED
    BY <1>2, <2>1
<1>3. \A x \in 0..N : x \in S
  <2> HIDE DEF S
  <2> QED
    BY <1>1, <1>2, CountsAreNumbers, Lemmas!StepInduction
<1> QED
  BY <1>3

LEMMA TotalNumber ==
  ASSUME NEW xs
  PROVE  Total(xs) \in Nat
BY SumExists, SumNumbers, CountsAreNumbers

LEMMA TotalOfNone == Total({}) = 0
<1>1. PICK h : IsSum(h, {}) /\ Total({}) = h[N]
  BY SumExists
<1> DEFINE S == {x \in 0..N : h[x] = 0}
<1>2. 0 \in S
  BY <1>1, CountsAreNumbers DEF IsSum
<1>3. ASSUME NEW i \in 1..N, i - 1 \in S PROVE i \in S
  BY <1>1, <1>3, PtsStep DEF IsSum
<1>4. \A x \in 0..N : x \in S
  <2> HIDE DEF S
  <2> QED
    BY <1>2, <1>3, CountsAreNumbers, Lemmas!StepInduction
<1> QED
  BY <1>1, <1>4, CountsAreNumbers

LEMMA TotalWithOneMore ==
  ASSUME NEW xs, NEW z \in 1..N, z \notin xs
  PROVE  Total(xs \cup {z}) = Total(xs) + Counts[z]
<1>1. PICK h : IsSum(h, xs) /\ Total(xs) = h[N]
  BY SumExists
<1>2. PICK g : IsSum(g, xs \cup {z}) /\ Total(xs \cup {z}) = g[N]
  BY SumExists
<1> DEFINE S == {x \in 0..N : g[x] = IF x < z THEN h[x] ELSE h[x] + Counts[z]}
<1>3. 0 \in S
  BY <1>1, <1>2, CountsAreNumbers DEF IsSum
<1>4. ASSUME NEW i \in 1..N, i - 1 \in S PROVE i \in S
  <2>1. i - 1 \in 0..N /\ i \in 0..N /\ Counts[i] \in Nat /\ Counts[z] \in Nat
    BY PtsStep
  <2>2. h[i - 1] \in Nat
    BY <1>1, <2>1, SumNumbers
  <2>3. h[i] = IF i \in xs THEN h[i - 1] + Counts[i] ELSE h[i - 1]
    BY <1>1 DEF IsSum
  <2>4. g[i] = IF i \in xs \cup {z} THEN g[i - 1] + Counts[i] ELSE g[i - 1]
    BY <1>2 DEF IsSum
  <2>5. g[i - 1] = IF i - 1 < z THEN h[i - 1] ELSE h[i - 1] + Counts[z]
    BY <1>4
  <2>6. CASE i = z
    BY <2>1, <2>2, <2>3, <2>4, <2>5, <2>6
  <2>7. CASE i # z /\ i \in xs
    BY <2>1, <2>2, <2>3, <2>4, <2>5, <2>7
  <2>8. CASE i # z /\ i \notin xs
    BY <2>1, <2>2, <2>3, <2>4, <2>5, <2>8
  <2> QED
    BY <2>6, <2>7, <2>8
<1>5. \A x \in 0..N : x \in S
  <2> HIDE DEF S
  <2> QED
    BY <1>3, <1>4, CountsAreNumbers, Lemmas!StepInduction
<1> QED
  BY <1>1, <1>2, <1>5, CountsAreNumbers

(* Updates between the k-th and the m-th cannot count for more than the pts *)
(* moves there, and if they count for all of that, only updates that count  *)
(* for nothing are missing.  This is why process_all_pending_pts_updates    *)
(* may apply everything when the sum fits.                                  *)
LEMMA TotalCovers ==
  ASSUME NEW k \in 0..N, NEW m \in k..N, NEW xs, xs \subseteq (k + 1)..m
  PROVE  /\ Total(xs) <= Pts[m] - Pts[k]
         /\ Total(xs) = Pts[m] - Pts[k] => \A x \in (k + 1)..m : x \notin xs => Counts[x] = 0
<1> USE CountsAreNumbers
<1>1. PICK h : IsSum(h, xs) /\ Total(xs) = h[N]
  BY SumExists
<1>0. ASSUME NEW i \in 1..N
      PROVE  /\ i - 1 \in 0..N /\ i \in 0..N /\ h[i] \in Nat /\ h[i - 1] \in Nat /\ Counts[i] \in Nat
             /\ Pts[i] \in Nat /\ Pts[i - 1] \in Nat /\ Pts[i] = Pts[i - 1] + Counts[i]
             /\ h[i] = IF i \in xs THEN h[i - 1] + Counts[i] ELSE h[i - 1]
  BY <1>1, PtsStep, SumNumbers DEF IsSum
<1>a. ASSUME NEW i \in 1..N
      PROVE  /\ Pts[i] - h[i] \in Int /\ Pts[i - 1] - h[i - 1] \in Int
             /\ Pts[i - 1] - h[i - 1] <= Pts[i] - h[i]
             /\ i \notin xs => Pts[i] - h[i] = Pts[i - 1] - h[i - 1] + Counts[i]
  <2>1. /\ h[i] \in Nat /\ h[i - 1] \in Nat /\ Counts[i] \in Nat /\ Pts[i] \in Nat /\ Pts[i - 1] \in Nat
        /\ Pts[i] = Pts[i - 1] + Counts[i]
    BY <1>0
  <2>2. h[i] = IF i \in xs THEN h[i - 1] + Counts[i] ELSE h[i - 1]
    BY <1>0
  <2>3. CASE i \in xs
    <3>1. h[i] = h[i - 1] + Counts[i]
      BY <2>2, <2>3
    <3> QED
      BY <2>1, <2>3, <3>1, SMTT(20)
  <2>4. CASE i \notin xs
    BY <2>1, <2>2, <2>4
  <2> QED
    BY <2>3, <2>4
<1>2. h[k] = 0
  <2> DEFINE S == {x \in 0..N : x <= k => h[x] = 0}
  <2>1. 0 \in S
    BY <1>1 DEF IsSum
  <2>2. ASSUME NEW i \in 1..N, i - 1 \in S PROVE i \in S
    <3>1. i <= k => i \notin xs
      OBVIOUS
    <3> QED
      BY <1>0, <2>2, <3>1
  <2>3. \A x \in 0..N : x \in S
    <3> HIDE DEF S
    <3> QED
      BY <2>1, <2>2, Lemmas!StepInduction
  <2> QED
    BY <2>3
<1>3. h[N] = h[m]
  <2> DEFINE S == {x \in 0..N : x >= m => h[x] = h[m]}
  <2>1. 0 \in S
    OBVIOUS
  <2>2. ASSUME NEW i \in 1..N, i - 1 \in S PROVE i \in S
    <3>1. i > m => i \notin xs /\ i - 1 >= m
      OBVIOUS
    <3> QED
      BY <1>0, <2>2, <3>1
  <2>3. \A x \in 0..N : x \in S
    <3> HIDE DEF S
    <3> QED
      BY <2>1, <2>2, Lemmas!StepInduction
  <2> QED
    BY <2>3
<1>4. ASSUME NEW j \in k..m
      PROVE  Pts[j] - h[j] <= Pts[m] - h[m]
  <2> DEFINE S == {x \in 0..N : x >= j => Pts[j] - h[j] <= Pts[x] - h[x]}
  <2>0. j \in 0..N /\ m \in 0..N
    OBVIOUS
  <2>1. 0 \in S
    BY <2>0, <1>1, SumNumbers, PtsNumbers
  <2>2. ASSUME NEW i \in 1..N, i - 1 \in S PROVE i \in S
    <3>1. Pts[j] \in Nat /\ h[j] \in Nat
      BY <2>0, <1>1, SumNumbers, PtsNumbers
    <3>2. CASE i = j
      BY <3>1, <3>2, <1>0
    <3>3. CASE i # j
      <4>1. i >= j => i - 1 >= j
        BY <3>3
      <4> QED
        BY <1>a, <2>2, <3>1, <4>1
    <3> QED
      BY <3>2, <3>3
  <2>3. \A x \in 0..N : x \in S
    <3> HIDE DEF S
    <3> QED
      BY <2>1, <2>2, Lemmas!StepInduction
  <2> QED
    BY <2>0, <2>3
<1>5. Pts[k] \in Nat /\ Pts[m] \in Nat /\ h[m] \in Nat /\ k \in k..m /\ m \in 0..N
  BY <1>1, SumNumbers, PtsNumbers
<1>6. Total(xs) <= Pts[m] - Pts[k]
  BY <1>1, <1>2, <1>3, <1>4, <1>5
<1>7. ASSUME Total(xs) = Pts[m] - Pts[k], NEW x \in (k + 1)..m, x \notin xs
      PROVE  Counts[x] = 0
  <2>1. x \in 1..N /\ x - 1 \in k..m /\ x \in k..m
    OBVIOUS
  <2>2. Pts[x] - h[x] <= Pts[m] - h[m]
    BY <2>1, <1>4
  <2>3. \A j \in k..m : Pts[k] - h[k] <= Pts[j] - h[j]
    <3> DEFINE S == {j \in 0..N : j \in k..m => Pts[k] - h[k] <= Pts[j] - h[j]}
    <3>1. 0 \in S
      BY <1>5, <1>2
    <3>2. ASSUME NEW i \in 1..N, i - 1 \in S PROVE i \in S
      <4>1. CASE i = k
        BY <4>1, <1>0, <1>2
      <4>2. CASE i # k
        <5>1. i \in k..m => i - 1 \in k..m
          BY <4>2
        <5> QED
          BY <1>a, <3>2, <5>1, <1>2, <1>5
      <4> QED
        BY <4>1, <4>2
    <3>3. \A j \in 0..N : j \in S
      <4> HIDE DEF S
      <4> QED
        BY <3>1, <3>2, Lemmas!StepInduction
    <3> QED
      BY <3>3
  <2>4. Pts[k] - h[k] <= Pts[x - 1] - h[x - 1]
    BY <2>1, <2>3
  <2>5. Counts[x] \in Nat /\ Pts[x] - h[x] = Pts[x - 1] - h[x - 1] + Counts[x] /\ Pts[x - 1] - h[x - 1] \in Int
    BY <1>a, <1>7, <2>1
  <2>6. h[m] = Pts[m] - Pts[k]
    BY <1>1, <1>3, <1>7
  <2> QED
    BY <1>2, <1>5, <2>2, <2>4, <2>5, <2>6, SMTT(20)
<1> QED
  BY <1>6, <1>7

-----------------------------------------------------------------------------
(* Updates that cover what the pts moves by are applied in their turn.      *)
LEMMA ApplyRun ==
  ASSUME NEW u, NEW xs
  PROVE  \E h : /\ h[0] = u /\ ApplyAll(u, xs) = h[N]
                /\ \A x \in 1..N : h[x] = IF x \in xs THEN Apply(h[x - 1], x) ELSE h[x - 1]
<1> DEFINE Is(h) == h = [x \in 0..N |-> IF x = 0 THEN u ELSE IF x \in xs THEN Apply(h[x - 1], x) ELSE h[x - 1]]
<1>1. PICK g : Run(g, "apply", xs, u, N)
  BY StepsExist, CountsAreNumbers
<1>2. \A h : Is(h) <=> Run(h, "apply", xs, u, N)
  BY DEF Run, Step
<1>3. PICK h : h = (CHOOSE f : Is(f))
  OBVIOUS
<1>4. Run(h, "apply", xs, u, N)
  BY <1>1, <1>2, <1>3
<1>5. ApplyAll(u, xs) = (CHOOSE f : Is(f))[N]
  BY DEF ApplyAll, N
<1> HIDE DEF Is
<1>6. h[0] = u /\ \A x \in 1..N : h[x] = Step("apply", xs, x, h[x - 1])
  BY <1>4, RunValues, CountsAreNumbers
<1>7. \A x \in 1..N : h[x] = IF x \in xs THEN Apply(h[x - 1], x) ELSE h[x - 1]
  BY <1>6 DEF Step
<1> QED
  BY <1>3, <1>5, <1>6, <1>7, ZenonT(40)

LEMMA Covering ==
  ASSUME NEW u \in Fields, NEW k \in 0..N, NEW m \in k..N, NEW xs, xs \subseteq (k + 1)..m,
         \A x \in (k + 1)..m : x \notin xs => Counts[x] = 0, u.at = Pts[k]
  PROVE  ApplyAll(u, xs) = [u EXCEPT !.at = Pts[m]]
<1> USE CountsAreNumbers
<1>1. PICK h : /\ h[0] = u /\ ApplyAll(u, xs) = h[N]
               /\ \A x \in 1..N : h[x] = IF x \in xs THEN Apply(h[x - 1], x) ELSE h[x - 1]
  BY ApplyRun, SMTT(20)
<1> DEFINE Place(x) == IF x <= k THEN k ELSE IF x <= m THEN x ELSE m
           S == {x \in 0..N : h[x] = [u EXCEPT !.at = Pts[Place(x)]]}
<1>2. 0 \in S
  <2>1. u = [u EXCEPT !.at = Pts[k]]
    BY DEF Fields
  <2> QED
    BY <1>1, <2>1
<1>3. ASSUME NEW i \in 1..N, i - 1 \in S PROVE i \in S
  <2>1. h[i] = IF i \in xs THEN Apply(h[i - 1], i) ELSE h[i - 1]
    BY <1>1
  <2>2. h[i - 1] = [u EXCEPT !.at = Pts[Place(i - 1)]]
    BY <1>3
  <2>3. CASE i \notin (k + 1)..m
    <3>1. i \notin xs /\ Place(i) = Place(i - 1)
      BY <2>3
    <3> QED
      BY <2>1, <2>2, <3>1
  <2>4. CASE i \in (k + 1)..m
    <3>1. Place(i - 1) = i - 1 /\ Place(i) = i
      BY <2>4
    <3>2. CASE i \in xs
      <4>1. h[i - 1].at = Pts[i - 1]
        BY <2>2, <3>1 DEF Fields
      <4>2. h[i] = [h[i - 1] EXCEPT !.at = Pts[i]]
        BY <2>1, <3>2, <4>1 DEF Apply
      <4>3. h[i] = [u EXCEPT !.at = Pts[i]]
        BY <2>2, <4>2 DEF Fields
      <4> QED
        BY <3>1, <4>3
    <3>3. CASE i \notin xs
      <4>1. Pts[i] = Pts[i - 1]
        <5>1. Counts[i] = 0
          BY <2>4, <3>3
        <5> QED
          BY <5>1, PtsStep
      <4> QED
        BY <2>1, <2>2, <3>1, <3>3, <4>1
    <3> QED
      BY <3>2, <3>3
  <2> QED
    BY <2>3, <2>4
<1>4. \A x \in 0..N : x \in S
  <2> HIDE DEF S
  <2> QED
    BY <1>2, <1>3, Lemmas!StepInduction
<1>5. h[N] = [u EXCEPT !.at = Pts[Place(N)]] /\ Place(N) = m
  <2>1. N \in 0..N
    OBVIOUS
  <2>2. Place(N) = m
    OBVIOUS
  <2> QED
    BY <1>4, <2>1, <2>2
<1> QED
  BY <1>1, <1>5

-----------------------------------------------------------------------------
(* The first position that has a pts that was reached.                      *)
LEMMA FirstPosition ==
  ASSUME NEW n \in 0..N, NEW pts, Reached(pts, n)
  PROVE  \E k \in 0..n : k \in 0..N /\ pts = Pts[k] /\ \A x \in 0..N : Pts[x] >= pts => x >= k
<1> USE CountsAreNumbers
<1> DEFINE S == {k \in 0..n : pts = Pts[k]}
<1>1. S # {} /\ S \subseteq Nat
  BY DEF Reached
<1>2. PICK k \in S : \A y \in S : k <= y
  BY <1>1, Lemmas!LeastNumber
<1>3. ASSUME NEW x \in 0..N, Pts[x] >= pts, x < k PROVE FALSE
  <2>1. Pts[x] <= Pts[k]
    BY <1>2, <1>3, PtsMonotone
  <2>2. Pts[x] \in Nat /\ Pts[k] \in Nat
    BY <1>2, PtsNumbers
  <2>3. Pts[x] = pts
    BY <1>2, <1>3, <2>1, <2>2
  <2>4. x \in S
    BY <1>2, <1>3, <2>3
  <2> QED
    BY <1>2, <1>3, <2>4
<1> QED
  BY <1>2, <1>3

LEMMA ReachedNumber ==
  ASSUME NEW n \in 0..N, NEW pts, Reached(pts, n)
  PROVE  pts \in Nat /\ pts >= 1
BY PtsNumbers, CountsAreNumbers DEF Reached

LEMMA ReachedLater ==
  ASSUME NEW n \in 0..N, NEW m \in n..N, NEW pts, Reached(pts, n)
  PROVE  Reached(pts, m)
BY CountsAreNumbers DEF Reached

(* Updates xs, of which the last is m, that sum up to the distance from the *)
(* pts, are applied in their turn.                                          *)
LEMMA ApplySum ==
  ASSUME NEW u \in Fields, NEW n \in 0..N, Reached(u.pts, n), u.at = u.pts,
         NEW xs, xs \subseteq 1..n, NEW m \in xs, \A x \in xs : x <= m /\ u.pts <= Pts[x - 1],
         u.pts = Pts[m] - Total(xs),
         NEW ys, ys \subseteq xs, \A x \in xs : x \notin ys => Counts[x] = 0
  PROVE  ApplyAll(u, ys) = [u EXCEPT !.at = Pts[m]]
<1> USE CountsAreNumbers
<1>1. PICK k \in 0..n : k \in 0..N /\ u.pts = Pts[k] /\ \A x \in 0..N : Pts[x] >= u.pts => x >= k
  BY FirstPosition
<1>2. xs \subseteq (k + 1)..m
  <2> SUFFICES ASSUME NEW x \in xs PROVE x \in (k + 1)..m
    OBVIOUS
  <2>1. x \in 1..n /\ x <= m /\ x - 1 \in 0..N /\ u.pts <= Pts[x - 1]
    OBVIOUS
  <2>2. Pts[x - 1] \in Nat /\ u.pts \in Nat
    BY <1>1, <2>1, PtsNumbers
  <2>3. x - 1 >= k
    BY <1>1, <2>1, <2>2
  <2> QED
    BY <1>1, <2>1, <2>3
<1>3. m \in k..N
  <2>1. m \in (k + 1)..m /\ m \in 1..n
    BY <1>2
  <2> QED
    BY <2>1
<1>4. Total(xs) = Pts[m] - Pts[k]
  <2>1. Total(xs) \in Nat /\ Pts[m] \in Nat /\ Pts[k] \in Nat
    BY <1>1, <1>3, TotalNumber, PtsNumbers
  <2> QED
    BY <1>1, <2>1
<1>5. \A x \in (k + 1)..m : x \notin xs => Counts[x] = 0
  BY <1>1, <1>2, <1>3, <1>4, TotalCovers
<1>6. ys \subseteq (k + 1)..m /\ \A x \in (k + 1)..m : x \notin ys => Counts[x] = 0
  BY <1>2, <1>5
<1> QED
  BY <1>1, <1>3, <1>6, Covering, SMTT(20)

(* Assignments to several fields.                                           *)
LEMMA DropTyped ==
  ASSUME NEW u \in Fields
  PROVE  drop_all_pending_pts_updates(u) \in Fields
<1> DEFINE count == 0
           pts == -1
           gap == FALSE
           P == {}
<1>1. count \in Int /\ pts \in Int /\ gap \in BOOLEAN /\ P \in SUBSET Updates
  OBVIOUS
<1>2. drop_all_pending_pts_updates(u) = [u EXCEPT !.accumulated_count = count, !.accumulated_pts = pts,
                                                  !.gap = gap, !.min_gap = gap, !.pending = P]
  BY DEF drop_all_pending_pts_updates
<1> HIDE DEF count, pts, gap, P
<1> QED
  BY <1>1, <1>2, ZenonT(40) DEF Fields

LEMMA AssignCounted ==
  ASSUME NEW u \in Fields, NEW count \in Int, NEW checks \in BOOLEAN, NEW P \in SUBSET Updates
  PROVE  [u EXCEPT !.pending = P, !.accumulated_count = count, !.checks = checks] \in Fields
BY DEF Fields

LEMMA AssignAt ==
  ASSUME NEW u \in Fields, NEW at \in Int
  PROVE  [u EXCEPT !.at = at] \in Fields
BY DEF Fields

(* set_pts, when the value is larger.                                       *)
LEMMA SetPts ==
  ASSUME NEW u \in Fields, NEW pts \in Int, pts > u.pts
  PROVE  set_pts(u, pts) = [u EXCEPT !.pts = pts, !.saves = @ \cup {pts}] /\ set_pts(u, pts) \in Fields
<1>1. set_pts(u, pts) = [u EXCEPT !.pts = pts, !.saves = @ \cup {pts}]
  BY DEF set_pts
<1>2. [u EXCEPT !.pts = pts, !.saves = @ \cup {pts}] \in Fields
  BY DEF Fields
<1> QED
  BY <1>1, <1>2

(* What the operations on pending updates leave alone.                      *)
SameRest(u, r) ==
  /\ r.running = u.running /\ r.retry = u.retry /\ r.skipping = u.skipping
  /\ r.ask = u.ask /\ r.fetch = u.fetch

(* process_all_pending_pts_updates.                                         *)
LEMMA ProcessAllKeeps ==
  ASSUME NEW n \in 0..N, NEW u, Sane(u, n), u.pending # {}, u.pts = u.accumulated_pts - u.accumulated_count,
         u.pts < u.accumulated_pts
  PROVE  LET r == process_all_pending_pts_updates(u)
         IN  /\ Sane(r, n) /\ SameRest(u, r) /\ r.pts = u.accumulated_pts
             /\ r.pending = {} /\ r.postponed = u.postponed
<1> USE CountsAreNumbers
<1>1. PICK m \in u.pending : u.accumulated_pts = Pts[m] /\ \A x \in u.pending : x <= m
  BY DEF Sane, Counting
<1>2. u \in Fields /\ u.pts # -1 /\ Reached(u.pts, n) /\ u.at = u.pts /\ u.pending \subseteq 1..n /\ m \in 1..n
      /\ u.accumulated_count = Total(u.pending) /\ (\A x \in u.pending : u.pts <= Pts[x - 1])
  BY <1>1 DEF Sane, InTurn, Counting
<1>3. ApplyAll(u, u.pending) = [u EXCEPT !.at = Pts[m]]
  BY <1>1, <1>2, ApplySum, SMTT(20)
<1> DEFINE v == [u EXCEPT !.at = Pts[m]]
           w == [v EXCEPT !.pts = Pts[m], !.saves = @ \cup {Pts[m]}]
           r == drop_all_pending_pts_updates(w)
<1>4. Pts[m] \in Int /\ Pts[m] > u.pts
  BY <1>1, <1>2, PtsNumbers
<1>5. v \in Fields /\ v.pts = u.pts
  BY <1>2, <1>4 DEF Fields
<1>6. set_pts(v, Pts[m]) = w /\ w \in Fields
  BY <1>4, <1>5, SetPts
<1>7. process_all_pending_pts_updates(u) = r
  BY <1>1, <1>3, <1>6 DEF process_all_pending_pts_updates
<1>8. r \in Fields
  BY <1>6, DropTyped
<1>9. /\ r.pending = {} /\ r.accumulated_pts = -1 /\ r.accumulated_count = 0 /\ r.pts = Pts[m] /\ r.at = Pts[m]
      /\ r.saves = u.saves \cup {Pts[m]} /\ r.misapplied = u.misapplied /\ r.checks = u.checks
      /\ r.postponed = u.postponed /\ SameRest(u, r)
  BY <1>2, <1>5, <1>6 DEF drop_all_pending_pts_updates, Fields, SameRest
<1>10. Reached(Pts[m], n)
  BY <1>2 DEF Reached
<1>11. InTurn(r, n)
  BY <1>9, <1>10 DEF InTurn, Sane
<1>12. Sane(r, n)
  <2> HIDE DEF r
  <2>1. Counting(r)
    BY <1>9, TotalOfNone DEF Counting
  <2>2. Pts[m] # -1
    BY <1>2, PtsNumbers
  <2> QED
    BY <1>8, <1>9, <1>11, <2>1, <2>2 DEF Sane, SameRest
<1> QED
  BY <1>1, <1>7, <1>9, <1>12

(* One round of process_pending_pts_updates.                                *)
Gapped(u, n) ==
  Sane(u, n) /\ u.pending # {} /\ u.pts < u.accumulated_pts - u.accumulated_count

Narrows(u, r) ==
  /\ SameRest(u, r) /\ r.pending \subseteq u.pending /\ r.postponed = u.postponed
  /\ r.pts >= u.pts /\ r.gap = u.gap /\ r.min_gap = u.min_gap

LEMMA ApplyFirstKeeps ==
  ASSUME NEW n \in 0..N, NEW u, Gapped(u, n), NEW x \in 1..N, IsNext(u, x)
  PROVE  LET r == ApplyFirst(u, x)
         IN  Gapped(r, n) /\ Narrows(u, r) /\ r.pts = Pts[x]
<1> USE CountsAreNumbers
<1> DEFINE c == Counts[x]
<1>1. PICK m \in u.pending : u.accumulated_pts = Pts[m] /\ \A y \in u.pending : y <= m
  BY DEF Gapped, Sane, Counting
<1>2. /\ u \in Fields /\ u.pts # -1 /\ Reached(u.pts, n) /\ u.at = u.pts /\ u.pending \subseteq 1..n /\ m \in 1..n
      /\ u.accumulated_count = Total(u.pending) /\ x \in u.pending /\ x \in 1..n
      /\ u.pts < Pts[m] - u.accumulated_count
      /\ (\A y \in u.pending : x <= y)
  BY <1>1 DEF Gapped, Sane, InTurn, Counting, IsNext
<1>3. /\ c \in Nat /\ Pts[x - 1] \in Nat /\ Pts[x] \in Nat /\ Pts[x] = Pts[x - 1] + c /\ u.pts = Pts[x - 1]
      /\ Pts[m] \in Nat /\ Pts[x] <= Pts[m] /\ Total(u.pending) \in Nat
  <2>1. u.pts = Pts[x] - c /\ m \in 0..N /\ x \in 0..N /\ x <= m
    BY <1>2 DEF IsNext
  <2> QED
    BY <2>1, PtsStep, PtsNumbers, PtsMonotone, TotalNumber
<1> DEFINE left == u.pending \ {x}
<1>4. Total(u.pending) = Total(left) + c /\ Total(left) \in Nat
  <2>1. u.pending = left \cup {x} /\ x \notin left
    BY <1>2
  <2> QED
    BY <2>1, TotalWithOneMore, TotalNumber
<1>5. m # x
  <2> SUFFICES ASSUME m = x PROVE FALSE
    OBVIOUS
  <2>1. left = {}
    BY <1>1, <1>2
  <2>2. Total(left) = 0
    BY <2>1, TotalOfNone
  <2> QED
    BY <1>2, <1>3, <1>4, <2>2
<1>6. m \in left /\ \A y \in left : y <= m
  BY <1>1, <1>5
<1>7. \A y \in left : y \in 1..n /\ Pts[x] <= Pts[y - 1]
  <2> SUFFICES ASSUME NEW y \in left PROVE y \in 1..n /\ Pts[x] <= Pts[y - 1]
    OBVIOUS
  <2>1. y \in 1..n /\ x <= y - 1 /\ y - 1 \in 0..N /\ x \in 0..N
    BY <1>2
  <2> QED
    BY <2>1, PtsMonotone
<1> DEFINE r == ApplyFirst(u, x)
<1>8. Reached(Pts[x], n)
  BY <1>2 DEF Reached
<1>9. /\ r \in Fields
      /\ r.pending = left /\ r.accumulated_pts = Pts[m] /\ r.accumulated_count = Total(left)
      /\ r.pts = Pts[x] /\ r.at = Pts[x] /\ r.saves \subseteq u.saves \cup {Pts[x]}
      /\ r.misapplied = u.misapplied /\ r.checks /\ r.postponed = u.postponed
      /\ SameRest(u, r) /\ r.gap = u.gap /\ r.min_gap = u.min_gap
  <2>1. CASE c = 0
    <3>1. r = [u EXCEPT !.pending = left] /\ left \subseteq Updates
      BY <1>2, <2>1 DEF ApplyFirst, Fields
    <3>2. u.checks
      BY DEF Gapped, Sane, InTurn
    <3>3. r \in Fields
      <4> HIDE DEF r, left
      <4> QED
        BY <1>2, <3>1 DEF Fields
    <3>4. Total(left) = u.accumulated_count /\ Pts[x] = u.pts
      BY <1>2, <1>3, <1>4, <2>1
    <3> HIDE DEF r, left
    <3>5. /\ r.pending = left /\ r.accumulated_pts = u.accumulated_pts /\ r.accumulated_count = u.accumulated_count
          /\ r.pts = u.pts /\ r.at = u.at /\ r.saves = u.saves
          /\ r.misapplied = u.misapplied /\ r.checks = u.checks /\ r.postponed = u.postponed
          /\ SameRest(u, r) /\ r.gap = u.gap /\ r.min_gap = u.min_gap
      BY <1>2, <3>1 DEF Fields, SameRest
    <3> QED
      BY <1>1, <1>2, <3>2, <3>3, <3>4, <3>5
  <2>2. CASE c # 0
    <3> DEFINE v == [u EXCEPT !.at = Pts[x]]
               w == [v EXCEPT !.pts = Pts[x], !.saves = @ \cup {Pts[x]}]
    <3>0. Apply(u, x) = v
      BY <1>2, <1>3 DEF Apply
    <3>1. v \in Fields /\ v.pts = u.pts
      <4>1. Pts[x] \in Int
        BY <1>3
      <4>2. v.pts = u.pts
        BY <1>2 DEF Fields
      <4> QED
        BY <1>2, <4>1, <4>2, AssignAt
    <3>2. set_pts(v, Pts[x]) = w /\ w \in Fields
      <4>1. Pts[x] \in Int /\ Pts[x] > v.pts
        BY <1>3, <2>2, <3>1
      <4> HIDE DEF v
      <4> QED
        BY <3>1, <4>1, SetPts
    <3>3. r = [w EXCEPT !.pending = @ \ {x}, !.accumulated_count = @ - c,
                        !.checks = @ /\ Pts[x] <= u.accumulated_pts /\ u.accumulated_count >= c]
      BY <2>2, <3>0, <3>2 DEF ApplyFirst
    <3>4. Pts[x] <= u.accumulated_pts /\ u.accumulated_count >= c /\ u.checks
      BY <1>1, <1>2, <1>3, <1>4 DEF Gapped, Sane, InTurn
    <3>5. /\ w.pending = u.pending /\ w.accumulated_count = u.accumulated_count /\ w.accumulated_pts = u.accumulated_pts
          /\ w.checks = u.checks /\ w.pts = Pts[x] /\ w.at = Pts[x] /\ w.saves = u.saves \cup {Pts[x]}
          /\ w.misapplied = u.misapplied /\ w.postponed = u.postponed
          /\ SameRest(u, w) /\ w.gap = u.gap /\ w.min_gap = u.min_gap
      BY <1>2 DEF Fields, SameRest
    <3> HIDE DEF w, r
    <3>6. r = [w EXCEPT !.pending = left, !.accumulated_count = Total(left), !.checks = TRUE]
      <4>1. w.pending \ {x} = left /\ w.accumulated_count - c = Total(left)
        BY <1>2, <1>3, <1>4, <3>5
      <4>2. (w.checks /\ Pts[x] <= u.accumulated_pts /\ u.accumulated_count >= c) = TRUE
        BY <3>4, <3>5
      <4> HIDE DEF left, c
      <4> QED
        BY <3>2, <3>3, <4>1, <4>2 DEF Fields
    <3>7. left \subseteq Updates
      BY <1>2
    <3> HIDE DEF left
    <3>8. r \in Fields
      <4> DEFINE yes == TRUE
      <4>1. yes \in BOOLEAN /\ Total(left) \in Int
        BY <1>4
      <4>2. r = [w EXCEPT !.pending = left, !.accumulated_count = Total(left), !.checks = yes]
        BY <3>6
      <4> HIDE DEF yes
      <4> QED
        BY <3>2, <3>7, <4>1, <4>2, AssignCounted
    <3>9. /\ r.pending = left /\ r.accumulated_pts = w.accumulated_pts /\ r.accumulated_count = Total(left)
          /\ r.pts = w.pts /\ r.at = w.at /\ r.saves = w.saves
          /\ r.misapplied = w.misapplied /\ r.checks /\ r.postponed = w.postponed
          /\ SameRest(w, r) /\ r.gap = w.gap /\ r.min_gap = w.min_gap
      BY <3>2, <3>6 DEF Fields, SameRest
    <3> QED
      BY <1>1, <3>5, <3>8, <3>9 DEF SameRest
  <2> QED
    BY <2>1, <2>2
<1> HIDE DEF r, left
<1>10. InTurn(r, n)
  BY <1>8, <1>9 DEF InTurn, Gapped, Sane
<1>11. Counting(r)
  BY <1>6, <1>9 DEF Counting
<1>12. Sane(r, n)
  <2>1. r.pending \subseteq 1..n /\ (\A y \in r.pending : r.pts <= Pts[y - 1]) /\ r.pts # -1 /\ ~r.running
    <3>1. ~r.running
      BY <1>2, <1>9 DEF Gapped, Sane, SameRest
    <3>2. r.pending \subseteq 1..n
      BY <1>7, <1>9
    <3> QED
      BY <1>3, <1>7, <1>9, <3>1, <3>2
  <2> QED
    BY <1>9, <1>10, <1>11, <2>1 DEF Sane, Gapped, SameRest
<1>13. r.pending # {} /\ r.pts < r.accumulated_pts - r.accumulated_count
  <2>1. Total(u.pending) = Total(left) + c /\ u.pts < Pts[m] - Total(u.pending) /\ Pts[x] = u.pts + c
    BY <1>2, <1>3, <1>4
  <2>2. Total(left) \in Nat /\ c \in Nat /\ u.pts \in Nat /\ Pts[m] \in Nat
    BY <1>3, <1>4
  <2>3. Pts[x] < Pts[m] - Total(left)
    <3> HIDE DEF c
    <3> QED
      BY <2>1, <2>2
  <2> QED
    BY <1>6, <1>9, <2>3
<1>14. r.pending \subseteq u.pending
  BY <1>9 DEF left
<1> QED
  BY <1>3, <1>9, <1>12, <1>13, <1>14 DEF Gapped, Narrows, r

LEMMA PendingRun ==
  ASSUME NEW u
  PROVE  \E h : /\ h[0] = u /\ ApplyPending(u) = h[N]
                /\ \A x \in 1..N : h[x] = IF IsNext(h[x - 1], x) THEN ApplyFirst(h[x - 1], x) ELSE h[x - 1]
<1> DEFINE Is(h) == h = [x \in 0..N |-> IF x = 0 THEN u ELSE IF IsNext(h[x - 1], x) THEN ApplyFirst(h[x - 1], x) ELSE h[x - 1]]
<1>1. PICK g : Run(g, "pending", 0, u, N)
  BY StepsExist, CountsAreNumbers
<1>2. \A h : Is(h) <=> Run(h, "pending", 0, u, N)
  BY DEF Run, Step
<1>3. PICK h : h = (CHOOSE f : Is(f))
  OBVIOUS
<1>4. Run(h, "pending", 0, u, N)
  BY <1>1, <1>2, <1>3
<1>5. ApplyPending(u) = (CHOOSE f : Is(f))[N]
  BY DEF ApplyPending, N
<1> HIDE DEF Is
<1>6. h[0] = u /\ \A x \in 1..N : h[x] = Step("pending", 0, x, h[x - 1])
  BY <1>4, RunValues, CountsAreNumbers
<1>7. \A x \in 1..N : h[x] = IF IsNext(h[x - 1], x) THEN ApplyFirst(h[x - 1], x) ELSE h[x - 1]
  BY <1>6 DEF Step
<1> WITNESS h
<1> QED
  BY <1>3, <1>5, <1>6, <1>7

(* The loop keeps the gap; an update that was next is applied.              *)
LEMMA ApplyPendingKeeps ==
  ASSUME NEW n \in 0..N, NEW u, Gapped(u, n)
  PROVE  LET r == ApplyPending(u)
         IN  /\ Gapped(r, n) /\ Narrows(u, r)
             /\ \A z \in 1..N : IsNext(u, z) => r.pts >= Pts[z]
<1> USE CountsAreNumbers
<1>1. PICK h : /\ h[0] = u /\ ApplyPending(u) = h[N]
               /\ \A x \in 1..N : h[x] = IF IsNext(h[x - 1], x) THEN ApplyFirst(h[x - 1], x) ELSE h[x - 1]
  BY PendingRun
<1> DEFINE Fine(x) == Gapped(h[x], n) /\ Narrows(u, h[x])
           S == {x \in 0..N : Fine(x)}
<1>2. 0 \in S
  <2>1. u.pts \in Int
    BY DEF Gapped, Sane, Fields
  <2> QED
    BY <1>1, <2>1 DEF Narrows, SameRest
<1>3. ASSUME NEW i \in 1..N, i - 1 \in S PROVE i \in S
  <2>1. CASE ~IsNext(h[i - 1], i)
    BY <1>1, <1>3, <2>1
  <2>2. CASE IsNext(h[i - 1], i)
    <3>1. h[i] = ApplyFirst(h[i - 1], i)
      BY <1>1, <2>2
    <3>2. Gapped(h[i - 1], n) /\ Narrows(u, h[i - 1])
      BY <1>3
    <3>3. Gapped(h[i], n) /\ Narrows(h[i - 1], h[i])
      BY <2>2, <3>1, <3>2, ApplyFirstKeeps
    <3>4. u.pts \in Int /\ h[i - 1].pts \in Int /\ h[i].pts \in Int
      BY <3>2, <3>3 DEF Gapped, Sane, Fields
    <3> QED
      BY <3>2, <3>3, <3>4 DEF Narrows, SameRest
  <2> QED
    BY <2>1, <2>2
<1>4. \A x \in 0..N : x \in S
  <2> HIDE DEF S
  <2> QED
    BY <1>2, <1>3, Lemmas!StepInduction
<1>5. ASSUME NEW z \in 1..N, IsNext(u, z) PROVE h[N].pts >= Pts[z]
  <2> DEFINE T == {x \in 0..N : IF x < z THEN h[x] = u ELSE h[x].pts >= Pts[z]}
  <2>1. 0 \in T
    BY <1>1
  <2>2. ASSUME NEW i \in 1..N, i - 1 \in T PROVE i \in T
    <3>0. h[i] = IF IsNext(h[i - 1], i) THEN ApplyFirst(h[i - 1], i) ELSE h[i - 1]
      BY <1>1
    <3>1. CASE i < z
      <4>1. h[i - 1] = u
        BY <2>2, <3>1
      <4>2. ~IsNext(u, i)
        BY <1>5, <3>1 DEF IsNext
      <4> QED
        BY <3>0, <3>1, <4>1, <4>2
    <3>2. CASE i = z
      <4>1. h[i - 1] = u
        BY <2>2, <3>2
      <4>2. h[i] = ApplyFirst(u, z)
        BY <1>5, <3>0, <3>2, <4>1
      <4>3. h[i].pts = Pts[z]
        BY <1>5, <4>2, ApplyFirstKeeps
      <4> QED
        BY <3>2, <4>3, PtsStep
    <3>3. CASE i > z
      <4>1. h[i - 1].pts >= Pts[z] /\ i - 1 \in 0..N
        BY <2>2, <3>3
      <4>2. Gapped(h[i - 1], n) /\ h[i - 1].pts \in Int /\ Gapped(h[i], n) /\ h[i].pts \in Int
        <5>1. Gapped(h[i - 1], n) /\ Gapped(h[i], n)
          BY <1>4, <4>1
        <5> QED
          BY <5>1 DEF Gapped, Sane, Fields
      <4>3. h[i].pts >= h[i - 1].pts
        <5>1. CASE IsNext(h[i - 1], i)
          BY <3>0, <4>2, <5>1, ApplyFirstKeeps DEF Narrows
        <5> QED
          BY <3>0, <4>2, <5>1
      <4>4. Pts[z] \in Int
        BY PtsStep
      <4> QED
        BY <3>3, <4>1, <4>2, <4>3, <4>4
    <3> QED
      BY <3>1, <3>2, <3>3
  <2>3. \A x \in 0..N : x \in T
    <3> HIDE DEF T
    <3> QED
      BY <2>1, <2>2, Lemmas!StepInduction
  <2> QED
    BY <2>3
<1>6. N \in 0..N
  OBVIOUS
<1>7. Fine(N)
  BY <1>4, <1>6
<1> QED
  BY <1>1, <1>5, <1>7

(* set_pts_gap_timeout.                                                     *)
LEMMA GapTimeout ==
  ASSUME NEW u \in Fields, NEW long \in BOOLEAN
  PROVE  LET r == set_pts_gap_timeout(u, long)
         IN  /\ r \in Fields /\ r.gap
             /\ r.pending = u.pending /\ r.postponed = u.postponed /\ r.pts = u.pts /\ r.at = u.at
             /\ r.accumulated_pts = u.accumulated_pts /\ r.accumulated_count = u.accumulated_count
             /\ r.saves = u.saves /\ r.misapplied = u.misapplied /\ r.checks = u.checks
             /\ SameRest(u, r)
<1> DEFINE r == set_pts_gap_timeout(u, long)
           yes == TRUE
           g == u.min_gap \/ long
<1>1. r = [u EXCEPT !.gap = yes, !.min_gap = g]
  BY DEF set_pts_gap_timeout, Fields
<1>2. yes \in BOOLEAN /\ g \in BOOLEAN /\ yes
  OBVIOUS
<1> HIDE DEF yes, g, r
<1>3. r \in Fields /\ r.gap
  BY <1>1, <1>2 DEF Fields
<1>4. /\ r.pending = u.pending /\ r.postponed = u.postponed /\ r.pts = u.pts /\ r.at = u.at
      /\ r.accumulated_pts = u.accumulated_pts /\ r.accumulated_count = u.accumulated_count
      /\ r.saves = u.saves /\ r.misapplied = u.misapplied /\ r.checks = u.checks
      /\ SameRest(u, r)
  BY <1>1, <1>2 DEF Fields, SameRest
<1> QED
  BY <1>3, <1>4 DEF r

LEMMA GapTimeoutKeeps ==
  ASSUME NEW n, NEW u, Sane(u, n), NEW long \in BOOLEAN
  PROVE  LET r == set_pts_gap_timeout(u, long)
         IN  Sane(r, n) /\ Watched(r) /\ SameRest(u, r) /\ r.pending = u.pending /\ r.postponed = u.postponed /\ r.pts = u.pts
<1> DEFINE r == set_pts_gap_timeout(u, long)
<1>0. u \in Fields
  BY DEF Sane
<1>1. /\ r \in Fields /\ r.gap
      /\ r.pending = u.pending /\ r.postponed = u.postponed /\ r.pts = u.pts /\ r.at = u.at
      /\ r.accumulated_pts = u.accumulated_pts /\ r.accumulated_count = u.accumulated_count
      /\ r.saves = u.saves /\ r.misapplied = u.misapplied /\ r.checks = u.checks
      /\ SameRest(u, r)
  BY <1>0, GapTimeout
<1> HIDE DEF r
<1>2. InTurn(r, n)
  BY <1>1 DEF Sane, InTurn
<1>3. Counting(r)
  BY <1>1 DEF Sane, Counting
<1> QED
  BY <1>1, <1>2, <1>3 DEF Sane, SameRest, Watched, r

(* postpone_pts_update.                                                     *)
LEMMA PostponeKeeps ==
  ASSUME NEW n, NEW u, Sane(u, n), NEW x \in 1..n, x \in Updates
  PROVE  LET r == postpone_pts_update(u, x)
         IN  /\ Sane(r, n) /\ SameRest(u, r) /\ r.gap = u.gap
             /\ r.pending = u.pending /\ r.postponed \subseteq u.postponed \cup {x} /\ r.pts = u.pts
<1> DEFINE r == postpone_pts_update(u, x)
<1>1. CASE u.skipping \/ (Counts[x] > 1 /\ SingleSession)
  <2>1. r = u
    BY <1>1 DEF postpone_pts_update
  <2> QED
    BY <2>1 DEF SameRest
<1>2. CASE ~(u.skipping \/ (Counts[x] > 1 /\ SingleSession))
  <2> DEFINE P == u.postponed \cup {x}
  <2>0. u \in Fields /\ ~u.skipping
    BY <1>2 DEF Sane
  <2>1. r = [u EXCEPT !.postponed = P] /\ P \in SUBSET Updates
    BY <1>2, <2>0 DEF postpone_pts_update, Fields
  <2>a. P \subseteq 1..n
    BY DEF Sane
  <2> HIDE DEF P, r
  <2>2. r \in Fields
    BY <2>0, <2>1 DEF Fields
  <2>3. /\ r.pending = u.pending /\ r.postponed = P /\ r.pts = u.pts /\ r.at = u.at
        /\ r.accumulated_pts = u.accumulated_pts /\ r.accumulated_count = u.accumulated_count
        /\ r.saves = u.saves /\ r.misapplied = u.misapplied /\ r.checks = u.checks
        /\ SameRest(u, r) /\ r.gap = u.gap
    BY <2>0, <2>1 DEF Fields, SameRest
  <2>4. InTurn(r, n)
    BY <2>3 DEF Sane, InTurn
  <2>5. Counting(r)
    BY <2>3 DEF Sane, Counting
  <2>6. Sane(r, n)
    BY <2>0, <2>a, <2>2, <2>3, <2>4, <2>5 DEF Sane, SameRest
  <2> QED
    BY <2>3, <2>6 DEF r, P
<1> QED
  BY <1>1, <1>2

(* process_pending_pts_updates.                                             *)
LEMMA ProcessPendingKeeps ==
  ASSUME NEW n \in 0..N, NEW u, Gapped(u, n)
  PROVE  LET r == process_pending_pts_updates(u)
         IN  /\ Sane(r, n) /\ Watched(r) /\ SameRest(u, r) /\ r.pending \subseteq u.pending /\ r.postponed = u.postponed
             /\ r.pts >= u.pts /\ \A z \in 1..N : IsNext(u, z) => r.pts >= Pts[z]
<1> DEFINE v == ApplyPending(u)
           no == FALSE
           w == [v EXCEPT !.gap = no, !.min_gap = no]
           r == process_pending_pts_updates(u)
<1>1. /\ Gapped(v, n) /\ Narrows(u, v) /\ \A z \in 1..N : IsNext(u, z) => v.pts >= Pts[z]
  BY ApplyPendingKeeps
<1>2. r = IF v = u THEN GapLeft(u) ELSE GapLeft(w)
  BY DEF process_pending_pts_updates
<1>3. no \in BOOLEAN
  OBVIOUS
<1>4. v \in Fields /\ Sane(v, n) /\ v.pending # {}
  BY <1>1 DEF Gapped, Sane
<1> HIDE DEF v, no
<1>5. w \in Fields
  BY <1>3, <1>4 DEF Fields
<1>6. /\ w.pending = v.pending /\ w.postponed = v.postponed /\ w.pts = v.pts /\ w.at = v.at
      /\ w.accumulated_pts = v.accumulated_pts /\ w.accumulated_count = v.accumulated_count
      /\ w.saves = v.saves /\ w.misapplied = v.misapplied /\ w.checks = v.checks
      /\ SameRest(v, w)
  BY <1>4 DEF Fields, SameRest
<1> HIDE DEF w
<1>7. Sane(w, n)
  <2>1. InTurn(w, n)
    BY <1>4, <1>6 DEF Sane, InTurn
  <2>2. Counting(w)
    BY <1>4, <1>6 DEF Sane, Counting
  <2> QED
    BY <1>4, <1>5, <1>6, <2>1, <2>2 DEF Sane, SameRest
<1>8. ASSUME NEW y, Sane(y, n), y.pending = v.pending, y.postponed = v.postponed, y.pts = v.pts, SameRest(v, y), r = GapLeft(y)
      PROVE  Sane(r, n) /\ Watched(r) /\ SameRest(v, r) /\ r.pending = v.pending /\ r.postponed = v.postponed /\ r.pts = v.pts
  <2>1. r = set_pts_gap_timeout(y, TRUE)
    BY <1>4, <1>8 DEF GapLeft
  <2> HIDE DEF r
  <2>2. /\ Sane(r, n) /\ Watched(r) /\ SameRest(y, r) /\ r.pending = y.pending /\ r.postponed = y.postponed /\ r.pts = y.pts
    BY <1>8, <2>1, GapTimeoutKeeps
  <2> QED
    BY <1>8, <2>2 DEF SameRest
<1>9. Sane(r, n) /\ Watched(r) /\ SameRest(v, r) /\ r.pending = v.pending /\ r.postponed = v.postponed /\ r.pts = v.pts
  <2>1. CASE v = u
    <3>1. r = GapLeft(v)
      BY <1>2, <2>1
    <3>2. SameRest(v, v)
      BY DEF SameRest
    <3> HIDE DEF r
    <3> QED
      BY <1>4, <1>8, <3>1, <3>2
  <2>2. CASE v # u
    <3>1. r = GapLeft(w)
      BY <1>2, <2>2
    <3> HIDE DEF r
    <3> QED
      BY <1>6, <1>7, <1>8, <3>1
  <2> QED
    BY <2>1, <2>2
<1> HIDE DEF r
<1> QED
  BY <1>1, <1>9 DEF Narrows, SameRest, r

(* Waiting updates never count for more than there is between the pts and   *)
(* the last of them, so the warning branches of add_pending_pts_update are  *)
(* not reached.                                                             *)
LEMMA SumFits ==
  ASSUME NEW n \in 0..N, NEW u, Sane(u, n), u.pending # {}
  PROVE  u.pts <= u.accumulated_pts - u.accumulated_count /\ u.accumulated_pts \in Nat /\ u.accumulated_count \in Nat
<1> USE CountsAreNumbers
<1>1. PICK m \in u.pending : u.accumulated_pts = Pts[m] /\ \A y \in u.pending : y <= m
  BY DEF Sane, Counting
<1>2. /\ u.pts # -1 /\ Reached(u.pts, n) /\ u.pending \subseteq 1..n /\ m \in 1..n
      /\ u.accumulated_count = Total(u.pending) /\ (\A y \in u.pending : u.pts <= Pts[y - 1])
  BY <1>1 DEF Sane, InTurn, Counting
<1>3. PICK k \in 0..n : k \in 0..N /\ u.pts = Pts[k] /\ \A x \in 0..N : Pts[x] >= u.pts => x >= k
  BY <1>2, FirstPosition
<1>4. ASSUME NEW y \in u.pending PROVE y \in (k + 1)..m
  <2>1. y \in 1..n /\ y <= m /\ y - 1 \in 0..N /\ u.pts <= Pts[y - 1]
    BY <1>1, <1>2
  <2>2. Pts[y - 1] \in Nat /\ u.pts \in Nat
    BY <1>3, <2>1, PtsNumbers
  <2>3. y - 1 >= k
    BY <1>3, <2>1, <2>2
  <2> QED
    BY <1>3, <2>1, <2>3
<1>5. m \in k..N /\ u.pending \subseteq (k + 1)..m
  <2>1. m \in (k + 1)..m
    BY <1>4
  <2> QED
    BY <1>2, <1>3, <1>4, <2>1
<1>6. Total(u.pending) <= Pts[m] - Pts[k]
  BY <1>3, <1>5, TotalCovers
<1>7. Total(u.pending) \in Nat /\ Pts[m] \in Nat /\ Pts[k] \in Nat
  BY <1>2, <1>3, TotalNumber, PtsNumbers
<1> QED
  BY <1>1, <1>2, <1>3, <1>6, <1>7

(* The beginning of add_pending_pts_update: the update is counted in.       *)
CountedIn(u, x) ==
  [u EXCEPT !.accumulated_count = @ + Counts[x],
            !.accumulated_pts = IF Pts[x] > @ THEN Pts[x] ELSE @]

WithUpdate(u, x) == [CountedIn(u, x) EXCEPT !.pending = @ \cup {x}]

LEMMA CountedInKeeps ==
  ASSUME NEW n \in 0..N, NEW u, Sane(u, n), NEW x \in 1..n, x \notin u.pending,
         ~u.running, u.pts # -1, u.pts <= Pts[x - 1]
  PROVE  LET w == CountedIn(u, x)
             v == WithUpdate(u, x)
         IN  /\ w \in Fields /\ w.pending = u.pending /\ w.pts = u.pts /\ w.at = u.at /\ w.gap = u.gap
             /\ w.accumulated_pts = v.accumulated_pts /\ w.accumulated_count = v.accumulated_count
             /\ w.saves = u.saves /\ w.misapplied = u.misapplied /\ w.checks = u.checks
             /\ w.postponed = u.postponed /\ SameRest(u, w)
             /\ Sane(v, n) /\ v.pending = u.pending \cup {x} /\ v.postponed = u.postponed /\ SameRest(u, v)
             /\ v.pts = u.pts /\ v.accumulated_pts >= Pts[x]
             /\ u.pending = {} => w.accumulated_pts = Pts[x] /\ w.accumulated_count = Counts[x]
<1> USE CountsAreNumbers
<1> DEFINE count == u.accumulated_count + Counts[x]
           top == IF Pts[x] > u.accumulated_pts THEN Pts[x] ELSE u.accumulated_pts
           P == u.pending \cup {x}
           w == CountedIn(u, x)
           v == WithUpdate(u, x)
<1>1. x \in 1..N /\ Counts[x] \in Nat /\ Pts[x] \in Nat /\ x \in Updates
  BY PtsStep
<1>2. u \in Fields /\ u.accumulated_count \in Int /\ u.accumulated_pts \in Int /\ u.pending \subseteq Updates
  BY DEF Sane, Fields
<1>3. count \in Int /\ top \in Int /\ P \in SUBSET Updates
  BY <1>1, <1>2
<1>4. w = [u EXCEPT !.accumulated_count = count, !.accumulated_pts = top]
  BY <1>2 DEF CountedIn, Fields
<1>5. v = [w EXCEPT !.pending = w.pending \cup {x}]
  BY DEF WithUpdate
<1>6. count = Total(P)
  BY <1>1, <1>2, TotalWithOneMore DEF Sane, Counting
<1>7. P \subseteq 1..n /\ P # {} /\ \A y \in P : u.pts <= Pts[y - 1]
  BY DEF Sane
<1>8. \E m \in P : top = Pts[m] /\ \A y \in P : y <= m
  <2>1. CASE u.pending = {}
    <3>1. u.accumulated_pts = -1
      BY <2>1 DEF Sane, Counting
    <3> QED
      BY <1>1, <2>1, <3>1
  <2>2. CASE u.pending # {}
    <3>1. PICK m \in u.pending : u.accumulated_pts = Pts[m] /\ \A y \in u.pending : y <= m
      BY <2>2 DEF Sane, Counting
    <3>2. m \in 1..n /\ m \in 0..N /\ Pts[m] \in Nat /\ \A y \in u.pending : y \in Nat
      BY <3>1, PtsNumbers DEF Sane
    <3>3. CASE x > m
      <4>1. Pts[m] <= Pts[x]
        BY <1>1, <3>2, <3>3, PtsMonotone
      <4>2. top = Pts[x]
        BY <1>1, <3>1, <3>2, <4>1
      <4>3. \A y \in P : y <= x
        BY <3>1, <3>2, <3>3
      <4> HIDE DEF top
      <4> QED
        BY <4>2, <4>3
    <3>4. CASE x <= m
      <4>1. Pts[x] <= Pts[m]
        BY <1>1, <3>2, <3>4, PtsMonotone
      <4>2. top = Pts[m]
        BY <1>1, <3>1, <3>2, <4>1
      <4>3. \A y \in P : y <= m
        BY <3>1, <3>2, <3>4
      <4> HIDE DEF top
      <4> QED
        BY <3>1, <4>2, <4>3
    <3> QED
      BY <3>2, <3>3, <3>4
  <2> QED
    BY <2>1, <2>2
<1>9. u.pending = {} => top = Pts[x] /\ count = Counts[x]
  <2> SUFFICES ASSUME u.pending = {} PROVE top = Pts[x] /\ count = Counts[x]
    OBVIOUS
  <2>1. u.accumulated_pts = -1 /\ u.accumulated_count = 0
    BY TotalOfNone DEF Sane, Counting
  <2> QED
    BY <1>1, <2>1
<1>10. top >= Pts[x]
  BY <1>1, <1>2
<1> HIDE DEF count, top
<1>11. /\ w \in Fields
  BY <1>2, <1>3, <1>4 DEF Fields
<1>12. /\ w.pending = u.pending /\ w.pts = u.pts /\ w.at = u.at /\ w.gap = u.gap
       /\ w.accumulated_pts = top /\ w.accumulated_count = count
       /\ w.saves = u.saves /\ w.misapplied = u.misapplied /\ w.checks = u.checks
       /\ w.postponed = u.postponed /\ SameRest(u, w)
  BY <1>2, <1>3, <1>4 DEF Fields, SameRest
<1> HIDE DEF w
<1>13. v = [w EXCEPT !.pending = P]
  BY <1>5, <1>12
<1> HIDE DEF P, v
<1>14. /\ v \in Fields
       /\ v.pending = P /\ v.pts = w.pts /\ v.at = w.at /\ v.gap = w.gap
       /\ v.accumulated_pts = w.accumulated_pts /\ v.accumulated_count = w.accumulated_count
       /\ v.saves = w.saves /\ v.misapplied = w.misapplied /\ v.checks = w.checks
       /\ v.postponed = w.postponed /\ SameRest(w, v)
  BY <1>3, <1>11, <1>13 DEF Fields, SameRest
<1>15. Sane(v, n)
  <2>1. InTurn(v, n)
    BY <1>12, <1>14 DEF Sane, InTurn
  <2>2. Counting(v)
    BY <1>6, <1>7, <1>8, <1>12, <1>14 DEF Counting
  <2>3. ~v.running /\ v.pts # -1 /\ v.pts = u.pts /\ v.skipping = u.skipping /\ v.postponed = u.postponed
    BY <1>12, <1>14 DEF SameRest
  <2>4. u.postponed \subseteq 1..n /\ (u.skipping => u.postponed = {})
    BY DEF Sane
  <2> QED
    BY <1>7, <1>14, <2>1, <2>2, <2>3, <2>4 DEF Sane
<1>16. SameRest(u, v)
  BY <1>12, <1>14 DEF SameRest
<1> QED
  BY <1>9, <1>10, <1>11, <1>12, <1>14, <1>15, <1>16 DEF P, v, w

(* The fast path.                                                           *)
LEMMA FastPathKeeps ==
  ASSUME NEW n \in 0..N, NEW u, Sane(u, n), NEW x \in 1..n, u.pending = {},
         ~u.running, u.pts # -1, u.pts = Pts[x - 1], u.pts < Pts[x], u.postponed = {}
  PROVE  LET w == CountedIn(u, x)
             r == [set_pts(Apply(w, x), w.accumulated_pts) EXCEPT !.accumulated_count = 0, !.accumulated_pts = -1]
         IN  /\ Sane(r, n) /\ Watched(r) /\ SameRest(u, r) /\ r.pending = {} /\ r.postponed = {}
             /\ r.pts = Pts[x]
<1> USE CountsAreNumbers
<1> DEFINE w == CountedIn(u, x)
           a == [w EXCEPT !.at = Pts[x]]
           b == [a EXCEPT !.pts = Pts[x], !.saves = @ \cup {Pts[x]}]
           zero == 0
           minus == -1
           r == [b EXCEPT !.accumulated_count = zero, !.accumulated_pts = minus]
<1>1. /\ w \in Fields /\ w.pending = u.pending /\ w.pts = u.pts /\ w.at = u.at
      /\ w.accumulated_pts = Pts[x]
      /\ w.saves = u.saves /\ w.misapplied = u.misapplied /\ w.checks = u.checks
      /\ w.postponed = u.postponed /\ SameRest(u, w)
  <2>1. Pts[x - 1] \in Nat /\ x \notin u.pending /\ u.pts <= Pts[x - 1]
    BY PtsStep
  <2> QED
    BY <2>1, CountedInKeeps
<1> HIDE DEF w
<1>2. Pts[x] \in Int /\ Pts[x] > w.pts /\ w.at = Pts[x - 1]
  BY <1>1, PtsStep DEF Sane, InTurn
<1>3. Apply(w, x) = a /\ a \in Fields /\ a.pts = w.pts
  <2>1. Apply(w, x) = a
    BY <1>2 DEF Apply
  <2>2. a \in Fields
    BY <1>1, <1>2, AssignAt
  <2> QED
    BY <1>1, <2>1, <2>2 DEF Fields
<1>4. /\ a.pending = w.pending /\ a.at = Pts[x] /\ a.saves = w.saves /\ a.misapplied = w.misapplied
      /\ a.checks = w.checks /\ a.postponed = w.postponed /\ SameRest(w, a)
  BY <1>1 DEF Fields, SameRest
<1> HIDE DEF a
<1>5. set_pts(a, Pts[x]) = b /\ b \in Fields
  BY <1>2, <1>3, SetPts
<1>6. /\ b.pending = a.pending /\ b.at = a.at /\ b.pts = Pts[x] /\ b.saves = a.saves \cup {Pts[x]} /\ b.misapplied = a.misapplied
      /\ b.checks = a.checks /\ b.postponed = a.postponed /\ SameRest(a, b)
  BY <1>3 DEF Fields, SameRest
<1>7. zero \in Int /\ minus \in Int /\ zero = 0 /\ minus = -1
  OBVIOUS
<1> HIDE DEF b, zero, minus
<1>8. /\ r \in Fields
      /\ r.pending = b.pending /\ r.at = b.at /\ r.pts = b.pts /\ r.saves = b.saves /\ r.misapplied = b.misapplied
      /\ r.checks = b.checks /\ r.postponed = b.postponed /\ SameRest(b, r)
      /\ r.accumulated_count = zero /\ r.accumulated_pts = minus
  BY <1>5, <1>7, ZenonT(40) DEF Fields, SameRest
<1> HIDE DEF r
<1>9. Sane(r, n)
  <2>1. InTurn(r, n)
    <3>1. Reached(Pts[x], n)
      BY DEF Reached
    <3> QED
      BY <3>1, <1>1, <1>4, <1>6, <1>8 DEF Sane, InTurn
  <2>2. Counting(r)
    BY <1>1, <1>4, <1>6, <1>7, <1>8, TotalOfNone DEF Counting
  <2>3. r.pts # -1
    BY <1>6, <1>8, PtsStep
  <2> QED
    BY <2>1, <2>2, <2>3, <1>1, <1>4, <1>6, <1>8 DEF Sane
<1>10. SameRest(u, r)
  BY <1>1, <1>4, <1>6, <1>8 DEF SameRest
<1>11. r = [set_pts(Apply(w, x), w.accumulated_pts) EXCEPT !.accumulated_count = 0, !.accumulated_pts = -1]
  BY <1>1, <1>3, <1>5, <1>7 DEF r
<1> QED
  BY <1>1, <1>4, <1>6, <1>8, <1>9, <1>10, <1>11 DEF Watched, w

(* What add_pending_pts_update does to r, given u and the update x.         *)
Adds(u, r, x, n) ==
  /\ Sane(r, n) /\ Watched(r) /\ SameRest(u, r)
  /\ r.pending \subseteq u.pending \cup {x} /\ r.postponed \subseteq u.postponed \cup {x}
  /\ u.running => r.pts = u.pts
  /\ r.pts >= u.pts

LEMMA CountedKeeps ==
  ASSUME NEW n \in 0..N, NEW u, Sane(u, n), NEW x \in 1..n, x \notin u.pending,
         ~u.running, u.pts # -1, u.pts <= Pts[x - 1], u.pts < Pts[x], u.postponed = {}
  PROVE  LET r == Counted(CountedIn(u, x), x)
         IN  /\ Adds(u, r, x, n) /\ r.postponed = {}
             /\ u.pts = Pts[x - 1] /\ (\A y \in u.pending : x <= y) => r.pts >= Pts[x]
<1> USE CountsAreNumbers
<1> DEFINE w == CountedIn(u, x)
           v == WithUpdate(u, x)
           r == Counted(w, x)
           start == w.accumulated_pts - w.accumulated_count
<1>1. /\ w \in Fields /\ w.pending = u.pending /\ w.pts = u.pts /\ w.gap = u.gap
      /\ w.accumulated_pts = v.accumulated_pts /\ w.accumulated_count = v.accumulated_count
      /\ Sane(v, n) /\ v.pending = u.pending \cup {x} /\ v.postponed = u.postponed /\ SameRest(u, v)
      /\ v.pts = u.pts /\ v.accumulated_pts >= Pts[x]
      /\ u.pending = {} => w.accumulated_pts = Pts[x] /\ w.accumulated_count = Counts[x]
  BY CountedInKeeps
<1>2. x \in 1..N /\ Pts[x] \in Nat /\ Pts[x - 1] \in Nat /\ Counts[x] \in Nat /\ Pts[x] = Pts[x - 1] + Counts[x]
      /\ Pts[x] - Counts[x] = Pts[x - 1]
  BY PtsStep
<1>3. u.pts <= start /\ start \in Int /\ u.pts \in Int /\ v.accumulated_pts \in Nat /\ v.accumulated_count \in Nat
  <2>1. v.pending # {}
    BY <1>1
  <2>2. v.pts <= v.accumulated_pts - v.accumulated_count /\ v.accumulated_pts \in Nat /\ v.accumulated_count \in Nat
    BY <1>1, <2>1, SumFits
  <2>3. u.pts \in Int
    BY DEF Sane, Fields
  <2> QED
    BY <1>1, <2>2, <2>3
<1>4. v = [w EXCEPT !.pending = @ \cup {x}]
  BY DEF WithUpdate
<1> HIDE DEF v
<1>5. r = CASE w.pts > start -> set_pts_gap_timeout(postpone_pts_update(w, x), FALSE)
            [] w.pts = start /\ w.pending = {} /\ ~w.gap ->
                 IF Counts[x] = 0 THEN w
                 ELSE [set_pts(Apply(w, x), w.accumulated_pts) EXCEPT
                         !.accumulated_count = 0, !.accumulated_pts = -1]
            [] w.pts < start /\ w.pts = Pts[x] - Counts[x] -> process_pending_pts_updates(v)
            [] w.pts < start /\ w.pts # Pts[x] - Counts[x] -> set_pts_gap_timeout(v, TRUE)
            [] OTHER -> process_all_pending_pts_updates(v)
  BY <1>4 DEF Counted
<1> HIDE DEF r
<1>6. CASE u.pts = start /\ u.pending = {} /\ ~u.gap
  <2>1. u.pts = Pts[x - 1]
    BY <1>1, <1>2, <1>3, <1>6
  <2>2. Counts[x] # 0
    BY <1>2, <1>3, <2>1
  <2>3. r = [set_pts(Apply(w, x), w.accumulated_pts) EXCEPT !.accumulated_count = 0, !.accumulated_pts = -1]
    <3>1. ~(w.pts > start) /\ w.pts = start /\ w.pending = {} /\ ~w.gap /\ ~(w.pts < start)
      BY <1>1, <1>3, <1>6
    <3> QED
      BY <1>5, <2>2, <3>1, Zenon
  <2>4. /\ Sane(r, n) /\ Watched(r) /\ SameRest(u, r) /\ r.pending = {} /\ r.postponed = {} /\ r.pts = Pts[x]
    BY <1>6, <2>1, <2>3, FastPathKeeps, ZenonT(40)
  <2> QED
    BY <1>2, <1>3, <2>4 DEF Adds, r
<1>7. CASE u.pts < start /\ u.pts = Pts[x - 1]
  <2>1. r = process_pending_pts_updates(v)
    <3>1. ~(w.pts > start) /\ w.pts # start /\ w.pts < start /\ w.pts = Pts[x] - Counts[x]
      BY <1>1, <1>2, <1>3, <1>7
    <3> QED
      BY <1>5, <3>1, Zenon
  <2>2. Gapped(v, n)
    BY <1>1, <1>7 DEF Gapped
  <2>3. /\ Sane(r, n) /\ Watched(r) /\ SameRest(v, r) /\ r.pending \subseteq v.pending /\ r.postponed = v.postponed
        /\ r.pts >= v.pts /\ \A z \in 1..N : IsNext(v, z) => r.pts >= Pts[z]
    BY <2>1, <2>2, ProcessPendingKeeps
  <2>4. (\A y \in u.pending : x <= y) => IsNext(v, x)
    BY <1>1, <1>2, <1>7 DEF IsNext
  <2>5. SameRest(u, r)
    BY <1>1, <2>3 DEF SameRest
  <2> QED
    BY <1>1, <1>2, <2>3, <2>4, <2>5 DEF Adds, r
<1>8. CASE u.pts < start /\ u.pts # Pts[x - 1]
  <2>1. r = set_pts_gap_timeout(v, TRUE)
    <3>1. ~(w.pts > start) /\ w.pts # start /\ w.pts < start /\ w.pts # Pts[x] - Counts[x]
      BY <1>1, <1>2, <1>3, <1>8, SMTT(40)
    <3> QED
      BY <1>5, <3>1, Zenon
  <2>2. Sane(r, n) /\ Watched(r) /\ SameRest(v, r) /\ r.pending = v.pending /\ r.postponed = v.postponed /\ r.pts = v.pts
    BY <1>1, <2>1, GapTimeoutKeeps
  <2>3. SameRest(u, r)
    BY <1>1, <2>2 DEF SameRest
  <2> QED
    BY <1>1, <1>3, <1>8, <2>2, <2>3 DEF Adds, r
<1>9. CASE u.pts = start /\ ~(u.pending = {} /\ ~u.gap)
  <2>1. r = process_all_pending_pts_updates(v)
    <3>1. ~(w.pts > start) /\ ~(w.pending = {} /\ ~w.gap) /\ ~(w.pts < start)
      BY <1>1, <1>3, <1>9
    <3> QED
      BY <1>5, <3>1, Zenon
  <2>2. v.pts = v.accumulated_pts - v.accumulated_count /\ v.pts < v.accumulated_pts /\ v.pending # {}
    BY <1>1, <1>2, <1>3, <1>9
  <2>3. /\ Sane(r, n) /\ SameRest(v, r) /\ r.pts = v.accumulated_pts /\ r.pending = {} /\ r.postponed = v.postponed
    BY <1>1, <2>1, <2>2, ProcessAllKeeps
  <2>4. SameRest(u, r)
    BY <1>1, <2>3 DEF SameRest
  <2>5. r.pts >= u.pts /\ r.pts >= Pts[x]
    BY <1>1, <1>2, <1>3, <2>2, <2>3
  <2> QED
    BY <1>1, <2>3, <2>4, <2>5 DEF Adds, Watched, r
<1> QED
  BY <1>3, <1>6, <1>7, <1>8, <1>9

LEMMA AddKeeps ==
  ASSUME NEW n \in 0..N, NEW u, Sane(u, n), Watched(u), NEW x \in 1..n, x \notin u.pending,
         u.running \/ u.pts # -1, NEW bad \in BOOLEAN
  PROVE  LET r == add_pending_pts_update(u, x, bad)
         IN  /\ Adds(u, r, x, n)
             /\ ~u.running /\ u.postponed = {} /\ ~bad /\ u.pts = Pts[x - 1] /\ Counts[x] > 0
                  /\ (\A y \in u.pending : x <= y) => r.pts >= Pts[x] /\ r.postponed = {}
<1> USE CountsAreNumbers
<1> DEFINE r == add_pending_pts_update(u, x, bad)
           p == postpone_pts_update(u, x)
<1>1. x \in 1..N /\ x \in Updates /\ Pts[x] \in Nat /\ Pts[x - 1] \in Nat /\ Counts[x] \in Nat
      /\ Pts[x] = Pts[x - 1] + Counts[x] /\ Pts[x] - Counts[x] = Pts[x - 1]
  BY PtsStep, SMTT(20)
<1>2. u.pts \in Int /\ u \in Fields
  BY DEF Sane, Fields
<1>3. /\ Sane(p, n) /\ SameRest(u, p) /\ p.gap = u.gap
      /\ p.pending = u.pending /\ p.postponed \subseteq u.postponed \cup {x} /\ p.pts = u.pts
  BY <1>1, PostponeKeeps
<1>4. r = CASE Pts[x] <= u.pts -> u
            [] Pts[x] > u.pts /\ (u.running \/ u.postponed # {}) -> p
            [] Pts[x] > u.pts /\ ~u.running /\ u.postponed = {} /\ (bad \/ u.pts > Pts[x] - Counts[x]) ->
                 set_pts_gap_timeout(p, FALSE)
            [] OTHER -> Counted(CountedIn(u, x), x)
  BY DEF add_pending_pts_update, CountedIn
<1> HIDE DEF r, p
<1>5. CASE Pts[x] <= u.pts
  <2>1. r = u
    <3>1. Pts[x] <= u.pts /\ ~(Pts[x] > u.pts)
      BY <1>1, <1>2, <1>5
    <3> QED
      BY <1>4, <1>5, <3>1, Zenon
  <2>2. ~(u.pts = Pts[x - 1] /\ Counts[x] > 0)
    BY <1>1, <1>2, <1>5
  <2> QED
    BY <1>2, <2>1, <2>2 DEF Adds, SameRest, r
<1>6. CASE Pts[x] > u.pts /\ (u.running \/ u.postponed # {})
  <2>1. r = p
    <3>1. Pts[x] > u.pts /\ ~(Pts[x] <= u.pts)
      BY <1>1, <1>2, <1>6
    <3> QED
      BY <1>4, <1>6, <3>1, Zenon
  <2>2. Watched(p)
    BY <1>3, <1>6 DEF Watched, SameRest
  <2> QED
    BY <1>2, <1>3, <1>6, <2>1, <2>2 DEF Adds, r
<1>7. CASE Pts[x] > u.pts /\ ~u.running /\ u.postponed = {} /\ (bad \/ u.pts > Pts[x - 1])
  <2>1. r = set_pts_gap_timeout(p, FALSE)
    <3>1. Pts[x] > u.pts /\ ~(Pts[x] <= u.pts) /\ (bad \/ u.pts > Pts[x] - Counts[x])
      <4>1. Pts[x] > u.pts /\ ~(Pts[x] <= u.pts)
        BY <1>1, <1>2, <1>7
      <4>2. CASE bad
        BY <4>1, <4>2
      <4>3. CASE u.pts > Pts[x - 1]
        BY <1>1, <4>1, <4>3
      <4> QED
        BY <1>7, <4>2, <4>3
    <3> QED
      BY <1>4, <1>7, <3>1, Zenon
  <2>2. Sane(r, n) /\ Watched(r) /\ SameRest(p, r) /\ r.pending = p.pending /\ r.postponed = p.postponed /\ r.pts = p.pts
    BY <1>3, <2>1, GapTimeoutKeeps
  <2>3. SameRest(u, r)
    BY <1>3, <2>2 DEF SameRest
  <2>4. bad \/ u.pts # Pts[x - 1]
    BY <1>1, <1>2, <1>7
  <2> QED
    BY <1>2, <1>3, <2>2, <2>3, <2>4 DEF Adds, r
<1>8. CASE Pts[x] > u.pts /\ ~u.running /\ u.postponed = {} /\ ~(bad \/ u.pts > Pts[x - 1])
  <2>1. r = Counted(CountedIn(u, x), x)
    <3>1. Pts[x] > u.pts /\ ~(Pts[x] <= u.pts) /\ ~(bad \/ u.pts > Pts[x] - Counts[x])
      BY <1>1, <1>2, <1>8
    <3> QED
      BY <1>4, <1>8, <3>1, Zenon
  <2>2. u.pts <= Pts[x - 1] /\ u.pts < Pts[x] /\ u.pts # -1
    BY <1>1, <1>2, <1>8
  <2>3. /\ Adds(u, r, x, n) /\ r.postponed = {}
        /\ u.pts = Pts[x - 1] /\ (\A y \in u.pending : x <= y) => r.pts >= Pts[x]
    BY <1>8, <2>1, <2>2, CountedKeeps
  <2> QED
    BY <2>3 DEF r
<1> QED
  BY <1>1, <1>2, <1>5, <1>6, <1>7, <1>8

LEMMA AddRun ==
  ASSUME NEW u, NEW xs, NEW bad
  PROVE  \E h : /\ h[0] = u /\ AddAll(u, xs, bad) = h[N]
                /\ \A x \in 1..N : h[x] = IF x \in xs THEN add_pending_pts_update(h[x - 1], x, x \in bad) ELSE h[x - 1]
<1> DEFINE Is(h) == h = [x \in 0..N |->
             IF x = 0 THEN u ELSE IF x \in xs THEN add_pending_pts_update(h[x - 1], x, x \in bad) ELSE h[x - 1]]
           a == [xs |-> xs, bad |-> bad]
<1>1. PICK g : Run(g, "add", a, u, N)
  BY StepsExist, CountsAreNumbers
<1>2. \A h : Is(h) <=> Run(h, "add", a, u, N)
  BY DEF Run, Step
<1>3. PICK h : h = (CHOOSE f : Is(f))
  OBVIOUS
<1>4. Run(h, "add", a, u, N)
  BY <1>1, <1>2, <1>3
<1>5. AddAll(u, xs, bad) = (CHOOSE f : Is(f))[N]
  BY DEF AddAll, N
<1> HIDE DEF Is
<1>6. h[0] = u /\ \A x \in 1..N : h[x] = Step("add", a, x, h[x - 1])
  BY <1>4, RunValues, CountsAreNumbers
<1>7. \A x \in 1..N : h[x] = IF x \in xs THEN add_pending_pts_update(h[x - 1], x, x \in bad) ELSE h[x - 1]
  BY <1>6 DEF Step
<1> QED
  BY <1>3, <1>5, <1>6, <1>7, ZenonT(40)

(* The postponed updates are added again, in order.                         *)
LEMMA AddAllKeeps ==
  ASSUME NEW n \in 0..N, NEW u, Sane(u, n), u.pending = {}, u.postponed = {}, u.pts # -1,
         NEW xs, xs \subseteq 1..n, NEW bad
  PROVE  LET r == AddAll(u, xs, bad)
         IN  Sane(r, n) /\ Watched(r) /\ SameRest(u, r) /\ r.pending \subseteq xs /\ r.postponed \subseteq xs /\ r.pts >= u.pts
<1> USE CountsAreNumbers
<1>1. PICK h : /\ h[0] = u /\ AddAll(u, xs, bad) = h[N]
               /\ \A x \in 1..N : h[x] = IF x \in xs THEN add_pending_pts_update(h[x - 1], x, x \in bad) ELSE h[x - 1]
  BY AddRun
<1> DEFINE Fine(x) ==
             /\ Sane(h[x], n) /\ Watched(h[x]) /\ SameRest(u, h[x]) /\ h[x].pts >= u.pts
             /\ h[x].pending \subseteq {y \in xs : y <= x} /\ h[x].postponed \subseteq {y \in xs : y <= x}
           S == {x \in 0..N : Fine(x)}
<1>0. u.pts \in Int /\ u.pts >= 1
  <2>1. Reached(u.pts, n)
    BY DEF Sane, InTurn
  <2> QED
    BY <2>1, ReachedNumber
<1>2. 0 \in S
  BY <1>0, <1>1 DEF Watched, SameRest
<1>3. ASSUME NEW i \in 1..N, i - 1 \in S PROVE i \in S
  <2>1. Fine(i - 1)
    BY <1>3
  <2>2. {y \in xs : y <= i - 1} \subseteq {y \in xs : y <= i}
    <3> SUFFICES ASSUME NEW y \in xs, y <= i - 1 PROVE y <= i
      OBVIOUS
    <3>1. y \in 1..n
      OBVIOUS
    <3> QED
      BY <3>1
  <2>3. CASE i \notin xs
    <3>1. h[i] = h[i - 1]
      BY <1>1, <2>3
    <3> QED
      BY <2>1, <2>2, <3>1
  <2>4. CASE i \in xs
    <3> DEFINE refused == i \in bad
    <3>1. h[i] = add_pending_pts_update(h[i - 1], i, refused) /\ refused \in BOOLEAN
      BY <1>1, <2>4
    <3> HIDE DEF refused
    <3>2. i \in 1..n /\ i \notin h[i - 1].pending /\ h[i - 1].pts # -1
      <4>1. h[i - 1].pts \in Int
        BY <2>1 DEF Sane, Fields
      <4> QED
        BY <1>0, <2>1, <2>4, <4>1
    <3>3. Adds(h[i - 1], h[i], i, n)
      BY <2>1, <3>1, <3>2, AddKeeps
    <3>4. h[i].pts \in Int /\ h[i - 1].pts \in Int
      BY <2>1, <3>3 DEF Adds, Sane, Fields
    <3>5. SameRest(u, h[i]) /\ h[i].pts >= u.pts
      BY <1>0, <2>1, <3>3, <3>4 DEF Adds, SameRest
    <3>6. h[i].pending \subseteq {y \in xs : y <= i} /\ h[i].postponed \subseteq {y \in xs : y <= i}
      <4> DEFINE before == {y \in xs : y <= i - 1}
                 upto == {y \in xs : y <= i}
      <4>1. i \in upto /\ before \subseteq upto
        BY <2>2, <2>4
      <4>2. h[i - 1].pending \subseteq before /\ h[i - 1].postponed \subseteq before
        BY <2>1
      <4>3. h[i].pending \subseteq h[i - 1].pending \cup {i} /\ h[i].postponed \subseteq h[i - 1].postponed \cup {i}
        BY <3>3 DEF Adds
      <4> HIDE DEF before, upto
      <4>4. h[i].pending \subseteq upto /\ h[i].postponed \subseteq upto
        BY <4>1, <4>2, <4>3
      <4> QED
        BY <4>4 DEF upto
    <3> QED
      BY <3>3, <3>5, <3>6 DEF Adds
  <2> QED
    BY <2>3, <2>4
<1>4. \A x \in 0..N : x \in S
  <2> HIDE DEF S
  <2> QED
    BY <1>2, <1>3, Lemmas!StepInduction
<1>5. Fine(N)
  <2>1. N \in 0..N
    OBVIOUS
  <2> QED
    BY <1>4, <2>1
<1> QED
  BY <1>1, <1>5

-----------------------------------------------------------------------------
(* The operations of getDifference.                                         *)

(* What was waiting is postponed or dropped, and a query is sent.           *)
Begins(u, r, ask, n) ==
  /\ Sane(r, n) /\ r.running /\ r.ask = ask /\ r.pts = u.pts /\ r.fetch = u.fetch
  /\ r.pending = {} /\ r.postponed \subseteq u.pending \cup u.postponed

LEMMA BeforeGetDifference ==
  ASSUME NEW n \in 0..N, NEW u, Sane(u, n)
  PROVE  LET r == before_get_difference(u)
         IN  /\ Sane(r, n) /\ SameRest(u, r) /\ r.pts = u.pts /\ r.pending = {} /\ r.accumulated_pts = -1
             /\ r.postponed \subseteq u.pending \cup u.postponed
<1> DEFINE P == u.postponed \cup (IF u.skipping THEN {} ELSE u.pending)
           v == [u EXCEPT !.postponed = P]
           r == before_get_difference(u)
<1>1. u \in Fields /\ P \in SUBSET Updates /\ P \subseteq 1..n /\ P \subseteq u.pending \cup u.postponed
      /\ (u.skipping => P = {})
  BY DEF Sane, Fields
<1>2. r = drop_all_pending_pts_updates(v)
  BY DEF before_get_difference
<1> HIDE DEF P
<1>3. v \in Fields
  BY <1>1 DEF Fields
<1>4. /\ v.postponed = P /\ v.pts = u.pts /\ v.at = u.at /\ v.saves = u.saves
      /\ v.misapplied = u.misapplied /\ v.checks = u.checks /\ SameRest(u, v)
  BY <1>1 DEF Fields, SameRest
<1> HIDE DEF v
<1>5. r \in Fields
  BY <1>2, <1>3, DropTyped
<1>6. /\ r.pending = {} /\ r.accumulated_pts = -1 /\ r.accumulated_count = 0
      /\ r.postponed = v.postponed /\ r.pts = v.pts /\ r.at = v.at /\ r.saves = v.saves
      /\ r.misapplied = v.misapplied /\ r.checks = v.checks /\ SameRest(v, r)
  BY <1>2, <1>3 DEF Fields, SameRest, drop_all_pending_pts_updates
<1> HIDE DEF r
<1>7. SameRest(u, r)
  BY <1>4, <1>6 DEF SameRest
<1>8. InTurn(r, n)
  BY <1>4, <1>6 DEF Sane, InTurn
<1>9. Counting(r)
  BY <1>6, TotalOfNone DEF Counting
<1>10. Sane(r, n)
  BY <1>1, <1>4, <1>5, <1>6, <1>7, <1>8, <1>9 DEF Sane, SameRest
<1> QED
  BY <1>1, <1>4, <1>6, <1>7, <1>10 DEF r

LEMMA RunGetDifference ==
  ASSUME NEW n \in 0..N, NEW u, Sane(u, n), ~u.running, u.pts # -1, NEW is_recursive \in BOOLEAN
  PROVE  Begins(u, run_get_difference(u, is_recursive), "getDifference", n)
<1> DEFINE b == before_get_difference(u)
           yes == TRUE
           ask == "getDifference"
           ok == b.checks /\ ~u.running /\ u.pts # -1
           min == IF is_recursive THEN b.min_postponed ELSE 0
           r == [b EXCEPT !.running = yes, !.ask = ask, !.checks = ok, !.min_postponed = min]
<1>1. /\ Sane(b, n) /\ SameRest(u, b) /\ b.pts = u.pts /\ b.pending = {} /\ b.accumulated_pts = -1
      /\ b.postponed \subseteq u.pending \cup u.postponed
  BY BeforeGetDifference
<1>2. run_get_difference(u, is_recursive) = r
  BY DEF run_get_difference
<1> HIDE DEF b
<1>3. b \in Fields /\ b.checks /\ b.min_postponed \in Int
  BY <1>1 DEF Sane, InTurn, Fields
<1>4. yes \in BOOLEAN /\ ask \in {"none", "getState", "getDifference"} /\ min \in Int
  BY <1>3
<1>5. ok \in BOOLEAN /\ ok
  BY <1>3
<1> HIDE DEF yes, ask, ok, min
<1>6. r \in Fields
  BY <1>3, <1>4, <1>5 DEF Fields
<1>7. /\ r.running = yes /\ r.ask = ask /\ r.checks = ok
      /\ r.pending = b.pending /\ r.accumulated_pts = b.accumulated_pts /\ r.accumulated_count = b.accumulated_count
      /\ r.postponed = b.postponed /\ r.pts = b.pts /\ r.at = b.at /\ r.saves = b.saves
      /\ r.misapplied = b.misapplied /\ r.fetch = b.fetch /\ r.skipping = b.skipping
  BY <1>3 DEF Fields
<1> HIDE DEF r
<1>8. InTurn(r, n)
  BY <1>1, <1>5, <1>7 DEF Sane, InTurn
<1>9. Counting(r)
  BY <1>1, <1>7 DEF Sane, Counting
<1>10. Sane(r, n)
  BY <1>1, <1>6, <1>7, <1>8, <1>9 DEF Sane
<1>11. r.running /\ r.ask = "getDifference"
  BY <1>7 DEF yes, ask
<1> QED
  BY <1>1, <1>2, <1>7, <1>10, <1>11 DEF Begins, SameRest

LEMMA InitState ==
  ASSUME NEW n \in 0..N, NEW u, Sane(u, n), ~u.running
  PROVE  Begins(u, init_state(u), IF u.pts = -1 THEN "getState" ELSE "getDifference", n)
<1>1. CASE u.pts # -1
  <2>1. init_state(u) = run_get_difference(u, FALSE)
    BY <1>1, Zenon DEF init_state
  <2> QED
    BY <1>1, <2>1, RunGetDifference
<1>2. CASE u.pts = -1
  <2> DEFINE b == before_get_difference(u)
             yes == TRUE
             ask == "getState"
             r == [b EXCEPT !.running = yes, !.ask = ask]
  <2>1. init_state(u) = r
    BY <1>2, Zenon DEF init_state
  <2>2. /\ Sane(b, n) /\ SameRest(u, b) /\ b.pts = u.pts /\ b.pending = {} /\ b.accumulated_pts = -1
        /\ b.postponed \subseteq u.pending \cup u.postponed
    BY BeforeGetDifference
  <2> HIDE DEF b
  <2>3. b \in Fields
    BY <2>2 DEF Sane
  <2>4. yes \in BOOLEAN /\ ask \in {"none", "getState", "getDifference"}
    OBVIOUS
  <2> HIDE DEF yes, ask
  <2>5. r \in Fields
    BY <2>3, <2>4 DEF Fields
  <2>6. /\ r.running = yes /\ r.ask = ask /\ r.checks = b.checks
        /\ r.pending = b.pending /\ r.accumulated_pts = b.accumulated_pts /\ r.accumulated_count = b.accumulated_count
        /\ r.postponed = b.postponed /\ r.pts = b.pts /\ r.at = b.at /\ r.saves = b.saves
        /\ r.misapplied = b.misapplied /\ r.fetch = b.fetch /\ r.skipping = b.skipping
    BY <2>3 DEF Fields
  <2> HIDE DEF r
  <2>7. InTurn(r, n)
    BY <2>2, <2>6 DEF Sane, InTurn
  <2>8. Counting(r)
    BY <2>2, <2>6 DEF Sane, Counting
  <2>9. Sane(r, n)
    BY <2>2, <2>5, <2>6, <2>7, <2>8 DEF Sane
  <2>10. r.running /\ r.ask = "getState"
    BY <2>6 DEF yes, ask
  <2> QED
    BY <1>2, <2>1, <2>2, <2>6, <2>9, <2>10 DEF Begins, SameRest
<1> QED
  BY <1>1, <1>2

LEMMA GetDifference ==
  ASSUME NEW n \in 0..N, NEW u, Sane(u, n)
  PROVE  IF u.running THEN get_difference(u) = u
         ELSE Begins(u, get_difference(u), IF u.pts = -1 THEN "getState" ELSE "getDifference", n)
<1>1. CASE u.running
  <2>1. get_difference(u) = u
    <3>1. CASE u.pts = -1
      <4>1. get_difference(u) = init_state(u)
        BY <3>1, Zenon DEF get_difference
      <4>2. init_state(u) = u
        BY <1>1, <3>1, Zenon DEF init_state
      <4> QED
        BY <4>1, <4>2
    <3>2. CASE u.pts # -1
      BY <1>1, <3>2, Zenon DEF get_difference
    <3> QED
      BY <3>1, <3>2
  <2> QED
    BY <1>1, <2>1
<1>2. CASE ~u.running
  <2>1. get_difference(u) = init_state(u)
    <3>1. CASE u.pts = -1
      BY <3>1, Zenon DEF get_difference
    <3>2. CASE u.pts # -1
      <4>1. get_difference(u) = run_get_difference(u, FALSE)
        BY <1>2, <3>2, Zenon DEF get_difference
      <4>2. init_state(u) = run_get_difference(u, FALSE)
        BY <3>2, Zenon DEF init_state
      <4> QED
        BY <4>1, <4>2
    <3> QED
      BY <3>1, <3>2
  <2> QED
    BY <1>2, <2>1, InitState
<1> QED
  BY <1>1, <1>2

(* after_get_difference.                                                    *)
LEMMA AfterGetDifference ==
  ASSUME NEW n \in 0..N, NEW u, Sane(u, n), u.pending = {}, u.pts # -1, NEW bad
  PROVE  LET r == after_get_difference(u, bad)
         IN  /\ Sane(r, n) /\ Watched(r) /\ r.running = u.running /\ r.ask = u.ask /\ r.fetch = u.fetch
             /\ r.pending \subseteq u.postponed /\ r.postponed \subseteq u.postponed /\ r.pts >= u.pts
<1> DEFINE no == FALSE
           none == {}
           v == [u EXCEPT !.retry = no, !.skipping = no, !.postponed = none]
<1>1. u \in Fields
  BY DEF Sane
<1>2. no \in BOOLEAN /\ ~no /\ none \in SUBSET Updates /\ none = {}
  OBVIOUS
<1>3. after_get_difference(u, bad) = AddAll(v, u.postponed, bad)
  BY DEF after_get_difference
<1> HIDE DEF no, none
<1>4. v \in Fields
  BY <1>1, <1>2 DEF Fields
<1>5. /\ v.retry = no /\ v.skipping = no /\ v.postponed = none /\ v.running = u.running /\ v.ask = u.ask
      /\ v.fetch = u.fetch /\ v.pending = u.pending /\ v.accumulated_pts = u.accumulated_pts
      /\ v.accumulated_count = u.accumulated_count /\ v.pts = u.pts /\ v.at = u.at /\ v.saves = u.saves
      /\ v.misapplied = u.misapplied /\ v.checks = u.checks
  BY <1>1 DEF Fields
<1> HIDE DEF v
<1>6. Sane(v, n)
  <2>1. InTurn(v, n)
    BY <1>5 DEF Sane, InTurn
  <2>2. Counting(v)
    BY <1>5 DEF Sane, Counting
  <2> QED
    BY <1>2, <1>4, <1>5, <2>1, <2>2 DEF Sane
<1> DEFINE r == AddAll(v, u.postponed, bad)
<1>7. Sane(r, n) /\ Watched(r) /\ SameRest(v, r) /\ r.pending \subseteq u.postponed /\ r.postponed \subseteq u.postponed /\ r.pts >= v.pts
  <2>1. u.postponed \subseteq 1..n
    BY DEF Sane
  <2>2. v.pending = {} /\ v.postponed = {} /\ v.pts # -1
    BY <1>2, <1>5
  <2> QED
    BY <1>6, <2>1, <2>2, AddAllKeeps
<1> QED
  BY <1>3, <1>5, <1>7 DEF SameRest

LEMMA TakeDifferenceKeeps ==
  ASSUME NEW n \in 0..N, NEW u, Sane(u, n), u.pending = {}, u.pts # -1,
         NEW answer, IsDifference(answer.pts, answer.updates, u.pts, n)
  PROVE  LET r == TakeDifference(u, answer)
         IN  Sane(r, n) /\ SameRest(u, r) /\ r.pts = answer.pts /\ r.pending = {} /\ r.postponed = u.postponed
<1> USE CountsAreNumbers
<1>1. PICK upto \in 0..n : answer.pts = Pts[upto] /\ Pts[upto] > u.pts /\ answer.updates = {x \in 1..upto : Pts[x] > u.pts}
  BY DEF IsDifference
<1>2. u \in Fields /\ Reached(u.pts, n) /\ u.at = u.pts /\ u.checks /\ u.accumulated_pts = -1
  BY DEF Sane, InTurn, Counting
<1>3. PICK k \in 0..n : k \in 0..N /\ u.pts = Pts[k] /\ \A x \in 0..N : Pts[x] >= u.pts => x >= k
  BY <1>2, FirstPosition
<1>4. upto \in 0..N /\ Pts[upto] \in Nat /\ Pts[k] \in Nat /\ upto >= k
  BY <1>1, <1>3, PtsNumbers
<1>5. ASSUME NEW x \in answer.updates PROVE x \in (k + 1)..upto
  <2>1. x \in 1..N /\ Pts[k] < Pts[x] /\ x <= upto
    BY <1>1, <1>3, <1>4, <1>5, PtsStep
  <2>2. k < x
    BY <1>3, <2>1, PtsOrder
  <2> QED
    BY <1>3, <1>4, <2>1, <2>2
<1>6. ASSUME NEW x \in (k + 1)..upto, x \notin answer.updates PROVE Counts[x] = 0
  <2>1. x \in 1..N /\ x \in 1..upto /\ x - 1 \in 0..N /\ k <= x - 1
    BY <1>3, <1>4
  <2>2. Pts[x] \in Nat /\ Pts[x - 1] \in Nat /\ Counts[x] \in Nat /\ Pts[x] = Pts[x - 1] + Counts[x]
    BY <2>1, PtsStep
  <2>3. ~(Pts[x] > u.pts)
    BY <1>1, <1>6, <2>1
  <2>4. Pts[k] <= Pts[x - 1]
    BY <1>3, <2>1, PtsMonotone
  <2> QED
    BY <1>3, <1>4, <2>2, <2>3, <2>4, SMTT(20)
<1> DEFINE a == [u EXCEPT !.at = Pts[upto]]
           ok == a.checks /\ u.pending = {} /\ u.accumulated_pts = -1
           b == [a EXCEPT !.checks = ok]
           c == [b EXCEPT !.pts = Pts[upto], !.saves = @ \cup {Pts[upto]}]
<1>7. ApplyAll(u, answer.updates) = a
  <2>1. upto \in k..N /\ answer.updates \subseteq (k + 1)..upto
    BY <1>4, <1>5
  <2> QED
    BY <1>2, <1>3, <1>6, <2>1, Covering
<1>8. TakeDifference(u, answer) = set_pts(b, Pts[upto])
  BY <1>1, <1>7 DEF TakeDifference
<1>9. a \in Fields
  BY <1>2, <1>4, AssignAt
<1>10. /\ a.pts = u.pts /\ a.at = Pts[upto] /\ a.checks = u.checks /\ a.saves = u.saves /\ a.misapplied = u.misapplied
       /\ a.pending = u.pending /\ a.accumulated_pts = u.accumulated_pts /\ a.accumulated_count = u.accumulated_count
       /\ a.postponed = u.postponed /\ SameRest(u, a)
  BY <1>2 DEF Fields, SameRest
<1> HIDE DEF a
<1>11. ok \in BOOLEAN /\ ok
  BY <1>2, <1>10
<1> HIDE DEF ok
<1>12. b \in Fields
  BY <1>9, <1>11 DEF Fields
<1>13. /\ b.pts = a.pts /\ b.at = a.at /\ b.checks = ok /\ b.saves = a.saves /\ b.misapplied = a.misapplied
       /\ b.pending = a.pending /\ b.accumulated_pts = a.accumulated_pts /\ b.accumulated_count = a.accumulated_count
       /\ b.postponed = a.postponed /\ SameRest(a, b)
  BY <1>9 DEF Fields, SameRest
<1> HIDE DEF b
<1>14. set_pts(b, Pts[upto]) = c /\ c \in Fields
  <2>1. Pts[upto] \in Int /\ Pts[upto] > b.pts
    BY <1>1, <1>4, <1>10, <1>13
  <2> QED
    BY <1>12, <2>1, SetPts
<1>15. /\ c.pts = Pts[upto] /\ c.at = b.at /\ c.checks = b.checks /\ c.saves = b.saves \cup {Pts[upto]} /\ c.misapplied = b.misapplied
       /\ c.pending = b.pending /\ c.accumulated_pts = b.accumulated_pts /\ c.accumulated_count = b.accumulated_count
       /\ c.postponed = b.postponed /\ SameRest(b, c)
  BY <1>12 DEF Fields, SameRest
<1> HIDE DEF c
<1>16. SameRest(u, c)
  BY <1>10, <1>13, <1>15 DEF SameRest
<1>17. InTurn(c, n)
  <2>1. Reached(Pts[upto], n)
    BY DEF Reached
  <2> QED
    BY <1>10, <1>11, <1>13, <1>15, <2>1 DEF Sane, InTurn
<1>18. Counting(c)
  BY <1>10, <1>13, <1>15 DEF Sane, Counting
<1>19. Sane(c, n)
  BY <1>4, <1>10, <1>13, <1>14, <1>15, <1>16, <1>17, <1>18 DEF Sane, SameRest
<1> QED
  BY <1>1, <1>8, <1>10, <1>13, <1>14, <1>15, <1>16, <1>19

(* process_postponed_pts_updates.                                           *)
Shortens(u, r, n) ==
  /\ Sane(r, n) /\ SameRest(u, r) /\ r.pts # -1 /\ r.pending = {} /\ r.postponed \subseteq u.postponed

LEMMA ApplyPrefixKeeps ==
  ASSUME NEW n \in 0..N, NEW u, Sane(u, n), u.pending = {}, u.pts # -1
  PROVE  Shortens(u, ApplyPrefix(u), n)
<1> USE CountsAreNumbers
<1> DEFINE left == Later(u)
           ready == Applicable(u.pts, left)
<1>1. CASE ready = {}
  <2>1. ApplyPrefix(u) = u
    BY <1>1 DEF ApplyPrefix
  <2> QED
    BY <2>1 DEF Shortens, SameRest
<1>2. CASE ready # {}
  <2>1. PICK last : last = (CHOOSE x \in ready : TRUE)
    OBVIOUS
  <2>2. last \in ready
    BY <1>2, <2>1
  <2> DEFINE prefix == UpTo(left, last)
             ys == {x \in prefix : Counts[x] > 0}
             a == [u EXCEPT !.at = Pts[last]]
             P == left \ prefix
             end == Pts[last]
             r == [a EXCEPT !.postponed = P, !.pts = end]
  <2>3. ApplyPrefix(u) = [ApplyAll(u, ys) EXCEPT !.postponed = P, !.pts = Pts[last]]
    BY <1>2, <2>1 DEF ApplyPrefix
  <2>4. u \in Fields /\ Reached(u.pts, n) /\ u.at = u.pts /\ u.postponed \subseteq 1..n
    BY DEF Sane, InTurn
  <2>5. left \subseteq u.postponed /\ \A x \in left : Pts[x] > u.pts
    BY DEF Later
  <2>6. last \in left /\ u.pts = Pts[last] - Total(prefix)
    BY <2>2 DEF Applicable
  <2>7. prefix \subseteq left /\ last \in prefix /\ \A x \in prefix : x <= last
    <3>1. last <= last
      BY <2>4, <2>5, <2>6
    <3> QED
      BY <2>6, <3>1 DEF UpTo
  <2>8. PICK k \in 0..n : u.pts = Pts[k]
    BY <2>4 DEF Reached
  <2>9. \A x \in prefix : u.pts <= Pts[x - 1]
    <3> SUFFICES ASSUME NEW x \in prefix PROVE u.pts <= Pts[x - 1]
      OBVIOUS
    <3>1. x \in 1..N /\ k \in 0..N /\ Pts[x] > u.pts
      BY <2>4, <2>5, <2>7
    <3>2. Pts[k] < Pts[x]
      BY <2>8, <3>1, PtsNumbers
    <3> QED
      BY <2>8, <3>1, <3>2, PtsOrder
  <2>10. prefix \subseteq 1..n
    BY <2>4, <2>5, <2>7
  <2>11. \A x \in prefix : x \notin ys => Counts[x] = 0
    <3> SUFFICES ASSUME NEW x \in prefix, x \notin ys PROVE Counts[x] = 0
      OBVIOUS
    <3>1. ~(Counts[x] > 0) /\ Counts[x] \in Nat
      BY <2>10
    <3> QED
      BY <3>1
  <2>12. ys \subseteq prefix
    OBVIOUS
  <2> HIDE DEF ys, left, prefix
  <2>13. ApplyAll(u, ys) = a
    BY <2>4, <2>6, <2>7, <2>9, <2>10, <2>11, <2>12, ApplySum
  <2>14. last \in 1..n /\ Pts[last] \in Nat /\ Pts[last] # -1 /\ Reached(Pts[last], n)
    BY <2>7, <2>10, PtsNumbers DEF Reached
  <2>15. P \subseteq u.postponed /\ P \in SUBSET Updates
    BY <2>4, <2>5
  <2>16. a \in Fields
    BY <2>4, <2>14, AssignAt
  <2>17. /\ a.at = Pts[last] /\ a.checks = u.checks /\ a.saves = u.saves /\ a.misapplied = u.misapplied
         /\ a.pending = u.pending /\ a.accumulated_pts = u.accumulated_pts /\ a.accumulated_count = u.accumulated_count
         /\ SameRest(u, a)
    BY <2>4 DEF Fields, SameRest
  <2>25. end \in Int /\ end = Pts[last]
    BY <2>14
  <2> HIDE DEF a, P, end
  <2>18. r \in Fields
    BY <2>15, <2>16, <2>25 DEF Fields
  <2>19. /\ r.at = a.at /\ r.checks = a.checks /\ r.saves = a.saves /\ r.misapplied = a.misapplied
         /\ r.pending = a.pending /\ r.accumulated_pts = a.accumulated_pts /\ r.accumulated_count = a.accumulated_count
         /\ r.postponed = P /\ r.pts = Pts[last] /\ SameRest(a, r)
    BY <2>16, <2>25 DEF Fields, SameRest
  <2> HIDE DEF r
  <2>20. SameRest(u, r)
    BY <2>17, <2>19 DEF SameRest
  <2>21. InTurn(r, n)
    BY <2>14, <2>17, <2>19 DEF Sane, InTurn
  <2>22. Counting(r)
    BY <2>17, <2>19 DEF Sane, Counting
  <2>23. Sane(r, n)
    BY <2>4, <2>14, <2>15, <2>17, <2>18, <2>19, <2>20, <2>21, <2>22 DEF Sane, SameRest
  <2>24. ApplyPrefix(u) = r
    BY <2>3, <2>13 DEF r, end
  <2> QED
    BY <2>14, <2>15, <2>17, <2>19, <2>20, <2>23, <2>24 DEF Shortens
<1> QED
  BY <1>1, <1>2

LEMMA PostponedRun ==
  ASSUME NEW u, NEW rounds \in Nat
  PROVE  \E h : /\ h[0] = u /\ ApplyPostponed(u, rounds) = [h[rounds] EXCEPT !.postponed = Later(h[rounds])]
                /\ \A i \in 1..rounds : h[i] = ApplyPrefix(h[i - 1])
<1> DEFINE Is(h) == h = [i \in 0..rounds |-> IF i = 0 THEN u ELSE ApplyPrefix(h[i - 1])]
<1>1. PICK g : Run(g, "postponed", 0, u, rounds)
  BY StepsExist
<1>2. \A h : Is(h) <=> Run(h, "postponed", 0, u, rounds)
  BY DEF Run, Step
<1>3. PICK h : h = (CHOOSE f : Is(f))
  OBVIOUS
<1>4. Run(h, "postponed", 0, u, rounds)
  BY <1>1, <1>2, <1>3
<1>5. ApplyPostponed(u, rounds) = [(CHOOSE f : Is(f))[rounds] EXCEPT !.postponed = Later((CHOOSE f : Is(f))[rounds])]
  BY DEF ApplyPostponed
<1> HIDE DEF Is
<1>6. h[0] = u /\ \A i \in 1..rounds : h[i] = Step("postponed", 0, i, h[i - 1])
  BY <1>4, RunValues
<1>7. \A i \in 1..rounds : h[i] = ApplyPrefix(h[i - 1])
  BY <1>6 DEF Step
<1> QED
  BY <1>3, <1>5, <1>6, <1>7

LEMMA ProcessPostponedKeeps ==
  ASSUME NEW n \in 0..N, NEW u, Sane(u, n), u.pending = {}, u.pts # -1, NEW rounds \in Nat
  PROVE  Shortens(u, process_postponed_pts_updates(u, rounds), n)
<1>1. PICK h : /\ h[0] = u /\ ApplyPostponed(u, rounds) = [h[rounds] EXCEPT !.postponed = Later(h[rounds])]
               /\ \A i \in 1..rounds : h[i] = ApplyPrefix(h[i - 1])
  BY PostponedRun
<1> DEFINE S == {i \in 0..rounds : Shortens(u, h[i], n)}
<1>2. 0 \in S
  BY <1>1 DEF Shortens, SameRest
<1>3. ASSUME NEW i \in 1..rounds, i - 1 \in S PROVE i \in S
  <2>1. Shortens(u, h[i - 1], n) /\ h[i] = ApplyPrefix(h[i - 1])
    BY <1>1, <1>3
  <2>2. Shortens(h[i - 1], h[i], n)
    BY <2>1, ApplyPrefixKeeps DEF Shortens
  <2>3. Shortens(u, h[i], n)
    BY <2>1, <2>2 DEF Shortens, SameRest
  <2> QED
    BY <2>3
<1>4. \A i \in 0..rounds : i \in S
  <2> HIDE DEF S
  <2> QED
    BY <1>2, <1>3, Lemmas!StepInduction
<1> DEFINE a == h[rounds]
           P == Later(a)
           b == [a EXCEPT !.postponed = P]
           saves == b.saves \cup {b.pts}
           c == [b EXCEPT !.saves = saves]
<1>5. Shortens(u, a, n)
  <2>1. rounds \in 0..rounds
    OBVIOUS
  <2> QED
    BY <1>4, <2>1
<1>6. process_postponed_pts_updates(u, rounds) = c
  BY <1>1 DEF process_postponed_pts_updates
<1> HIDE DEF a
<1>7. a \in Fields /\ P \subseteq a.postponed /\ P \in SUBSET Updates
  <2>1. a \in Fields
    BY <1>5 DEF Shortens, Sane
  <2>2. a.postponed \in SUBSET Updates
    BY <2>1 DEF Fields
  <2> QED
    BY <2>1, <2>2 DEF Later
<1> HIDE DEF P
<1>8. b \in Fields
  BY <1>7 DEF Fields
<1>9. /\ b.pts = a.pts /\ b.at = a.at /\ b.checks = a.checks /\ b.saves = a.saves /\ b.misapplied = a.misapplied
      /\ b.pending = a.pending /\ b.accumulated_pts = a.accumulated_pts /\ b.accumulated_count = a.accumulated_count
      /\ b.postponed = P /\ SameRest(a, b)
  BY <1>7 DEF Fields, SameRest
<1> HIDE DEF b
<1>10. saves \in SUBSET Int /\ saves = a.saves \cup {a.pts}
  BY <1>8, <1>9 DEF Fields
<1> HIDE DEF saves
<1>11. c \in Fields
  BY <1>8, <1>10 DEF Fields
<1>12. /\ c.pts = b.pts /\ c.at = b.at /\ c.checks = b.checks /\ c.saves = saves /\ c.misapplied = b.misapplied
       /\ c.pending = b.pending /\ c.accumulated_pts = b.accumulated_pts /\ c.accumulated_count = b.accumulated_count
       /\ c.postponed = b.postponed /\ SameRest(b, c)
  BY <1>8 DEF Fields, SameRest
<1> HIDE DEF c
<1>13. Sane(a, n) /\ a.pts # -1 /\ a.pending = {} /\ a.postponed \subseteq u.postponed /\ SameRest(u, a)
  BY <1>5 DEF Shortens
<1>14. InTurn(c, n)
  BY <1>9, <1>10, <1>12, <1>13 DEF Sane, InTurn
<1>15. Counting(c)
  BY <1>9, <1>12, <1>13 DEF Sane, Counting
<1>16. SameRest(u, c)
  BY <1>9, <1>12, <1>13 DEF SameRest
<1>17. Sane(c, n)
  <2>1. c.postponed \subseteq a.postponed
    BY <1>7, <1>9, <1>12
  <2>2. c.skipping = a.skipping /\ c.pts # -1 /\ c.pending = {}
    BY <1>9, <1>12, <1>13 DEF SameRest
  <2> QED
    BY <1>11, <1>13, <1>14, <1>15, <2>1, <2>2 DEF Sane
<1> QED
  BY <1>6, <1>7, <1>9, <1>12, <1>13, <1>16, <1>17 DEF Shortens

-----------------------------------------------------------------------------
(* The end of a handler.                                                    *)

(* The fields that Sane speaks of, running aside.                           *)
SameCore(u, v) ==
  /\ v.pts = u.pts /\ v.at = u.at /\ v.saves = u.saves /\ v.misapplied = u.misapplied /\ v.checks = u.checks
  /\ v.pending = u.pending /\ v.postponed = u.postponed /\ (v.skipping => u.skipping)
  /\ v.accumulated_pts = u.accumulated_pts /\ v.accumulated_count = u.accumulated_count

LEMMA SameCoreKeeps ==
  ASSUME NEW n, NEW u, Sane(u, n), NEW v \in Fields, SameCore(u, v), v.running => u.running
  PROVE  Sane(v, n)
<1>1. InTurn(v, n)
  BY DEF Sane, InTurn, SameCore
<1>2. Counting(v)
  BY DEF Sane, Counting, SameCore
<1> QED
  BY <1>1, <1>2 DEF Sane, SameCore

(* can_postpone_updates becomes true.                                       *)
LEMMA EndSkippingKeeps ==
  ASSUME NEW u \in Fields
  PROVE  LET r == EndSkipping(u)
         IN  /\ r \in Fields /\ SameCore(u, r) /\ r.running = u.running /\ r.ask = u.ask
             /\ r.gap = u.gap /\ r.retry = u.retry /\ r.fetch = u.fetch
<1> DEFINE no == FALSE
           r == [u EXCEPT !.skipping = no]
<1>1. no \in BOOLEAN /\ ~no
  OBVIOUS
<1>2. EndSkipping(u) = r
  BY DEF EndSkipping
<1> HIDE DEF no
<1>3. r \in Fields /\ ~r.skipping
  BY <1>1 DEF Fields
<1>4. /\ SameCore(u, r) /\ r.running = u.running /\ r.ask = u.ask
      /\ r.gap = u.gap /\ r.retry = u.retry /\ r.fetch = u.fetch
  BY <1>3 DEF Fields, SameCore
<1> QED
  BY <1>2, <1>3, <1>4

LEMMA RequestSame ==
  ASSUME NEW q, NEW n, NEW u \in Fields, NEW r \in Fields, RequestFits(q, u, n),
         r.running = u.running, u.running => r.pts = u.pts
  PROVE  RequestFits(q, r, n)
BY DEF RequestFits

LEMMA RequestNew ==
  ASSUME NEW n, NEW u \in Fields, NEW ask, NEW q, u.running, q = [type |-> ask, pts |-> u.pts],
         (ask = "getState" /\ u.pts = -1) \/ (ask = "getDifference" /\ u.pts # -1)
  PROVE  RequestFits(q, u, n)
BY DEF RequestFits

LEMMA RequestNone ==
  ASSUME NEW n, NEW u \in Fields, ~u.running
  PROVE  RequestFits(NoRequest, u, n)
BY DEF RequestFits, NoRequest

LEMMA SentKeeps ==
  ASSUME NEW u, server \in 0..N, server' = server, Sane(u, server), Watched(u),
         um' = [u EXCEPT !.ask = "none", !.fetch = {}],
         fetches \subseteq Int, fetches' = fetches \cup u.fetch,
         pushed' \subseteq 1..server, \A x \in pushed' : x \notin u.pending /\ x \notin u.postponed,
         RequestFits(request', u, server)
  PROVE  IInv'
<1> DEFINE none == "none"
           no == {}
           v == [u EXCEPT !.ask = none, !.fetch = no]
<1>1. u \in Fields /\ fetches' \subseteq Int
  <2>1. u \in Fields
    BY DEF Sane
  <2>2. u.fetch \subseteq Int
    BY <2>1 DEF Fields
  <2> QED
    BY <2>1, <2>2
<1>2. none \in {"none", "getState", "getDifference"} /\ no \in SUBSET Int
  OBVIOUS
<1>3. um' = v
  OBVIOUS
<1> HIDE DEF none, no
<1>4. v \in Fields
  BY <1>1, <1>2 DEF Fields
<1>5. /\ SameCore(u, v) /\ v.running = u.running /\ v.gap = u.gap /\ v.retry = u.retry
      /\ v.ask = none /\ v.fetch = no
  BY <1>1 DEF Fields, SameCore
<1> HIDE DEF v
<1>6. Sane(v, server)
  BY <1>4, <1>5, SameCoreKeeps
<1>7. Watched(v)
  BY <1>5 DEF Watched, SameCore
<1>8. RequestFits(request', v, server)
  BY <1>1, <1>4, <1>5, RequestSame DEF SameCore
<1>9. v.ask = "none" /\ v.fetch = {}
  BY <1>5 DEF none, no
<1>10. \A x \in pushed' : x \notin v.pending /\ x \notin v.postponed
  BY <1>5 DEF SameCore
<1>11. Sane(um', server') /\ Watched(um') /\ RequestFits(request', um', server')
  BY <1>3, <1>6, <1>7, <1>8
<1> QED
  BY <1>1, <1>3, <1>9, <1>10, <1>11 DEF IInv, N

(* Has a handler that ends with u sent no query, or one that fits?          *)
SendsRight(u) ==
  \/ u.ask = "getState" /\ u.pts = -1 /\ u.running
  \/ u.ask = "getDifference" /\ u.pts # -1 /\ u.running

LEMMA HandledKeeps ==
  ASSUME IInv, NEW u, Handled(u), UNCHANGED server, Sane(u, server), Watched(u),
         pushed' \subseteq pushed, \A x \in pushed' : x \notin u.pending /\ x \notin u.postponed,
         \/ SendsRight(u)
         \/ u.ask = "none" /\ u.running = um.running /\ (um.running => u.pts = um.pts)
  PROVE  IInv'
<1>1. u \in Fields /\ um \in Fields
  BY DEF IInv, Sane
<1>2. RequestFits(request', u, server)
  <2>1. CASE SendsRight(u)
    <3>1. u.ask # "none"
      BY <2>1 DEF SendsRight
    <3>2. request' = [type |-> u.ask, pts |-> u.pts]
      BY <3>1, Zenon DEF Handled
    <3> QED
      BY <1>1, <2>1, <3>2, RequestNew DEF SendsRight
  <2>2. CASE u.ask = "none" /\ u.running = um.running /\ (um.running => u.pts = um.pts)
    <3>1. request' = request
      BY <2>2, Zenon DEF Handled
    <3> QED
      BY <1>1, <2>2, <3>1, RequestSame DEF IInv
  <2> QED
    BY <2>1, <2>2
<1> QED
  BY <1>2, SentKeeps DEF IInv, Handled, N

LEMMA ConsumedKeeps ==
  ASSUME IInv, NEW u, Consumed(u), UNCHANGED server, Sane(u, server), Watched(u),
         pushed' = pushed, u.pending \cup u.postponed \subseteq um.pending \cup um.postponed,
         SendsRight(u) \/ (u.ask = "none" /\ ~u.running)
  PROVE  IInv'
<1>1. u \in Fields /\ um \in Fields
  BY DEF IInv, Sane
<1>2. RequestFits(request', u, server)
  <2>1. CASE SendsRight(u)
    <3>1. u.ask # "none"
      BY <2>1 DEF SendsRight
    <3>2. request' = [type |-> u.ask, pts |-> u.pts]
      BY <3>1, Zenon DEF Consumed
    <3> QED
      BY <1>1, <2>1, <3>2, RequestNew DEF SendsRight
  <2>2. CASE u.ask = "none" /\ ~u.running
    <3>1. request' = NoRequest
      BY <2>2, Zenon DEF Consumed
    <3> QED
      BY <1>1, <2>2, <3>1, RequestNone
  <2> QED
    BY <2>1, <2>2
<1>3. \A x \in pushed' : x \notin u.pending /\ x \notin u.postponed
  BY DEF IInv
<1> QED
  BY <1>2, <1>3, SentKeeps DEF IInv, Consumed, N

(* A difference that is begun is a query that fits.                         *)
LEMMA BeginsRight ==
  ASSUME NEW n, NEW u, NEW r, Begins(u, r, IF u.pts = -1 THEN "getState" ELSE "getDifference", n)
  PROVE  SendsRight(r) /\ Sane(r, n) /\ Watched(r) /\ r.pending \cup r.postponed \subseteq u.pending \cup u.postponed
BY DEF Begins, SendsRight, Watched

(* updates_differenceSlice.                                                 *)
LEMMA SliceKeeps ==
  ASSUME NEW n \in 0..N, NEW u, Sane(u, n), u.pending = {}, u.pts # -1, ~u.running, u.ask = "none",
         NEW answer, IsDifference(answer.pts, answer.updates, u.pts, n),
         NEW same_date \in BOOLEAN, NEW rounds \in Nat, NEW bad
  PROVE  LET r == on_slice(u, answer, same_date, rounds, bad)
         IN  /\ Sane(r, n) /\ Watched(r) /\ r.pending \cup r.postponed \subseteq u.postponed
             /\ SendsRight(r) \/ (r.ask = "none" /\ ~r.running)
<1> DEFINE t == TakeDifference(u, answer)
           v == process_postponed_pts_updates(t, rounds)
           stop == same_date /\ (v.pts = u.pts \/ (v.min_postponed # 0 /\ v.pts >= v.min_postponed))
           r == on_slice(u, answer, same_date, rounds, bad)
<1>0. r = IF stop THEN after_get_difference(v, bad) ELSE run_get_difference(v, TRUE)
  BY DEF on_slice
<1>1. Sane(t, n) /\ SameRest(u, t) /\ t.pts = answer.pts /\ t.pending = {} /\ t.postponed = u.postponed
  BY TakeDifferenceKeeps
<1>2. t.pts # -1
  BY <1>1, ReachedNumber DEF IsDifference, Reached
<1> HIDE DEF t
<1>3. Shortens(t, v, n)
  BY <1>1, <1>2, ProcessPostponedKeeps
<1> HIDE DEF v
<1>4. /\ Sane(v, n) /\ v.pts # -1 /\ v.pending = {} /\ v.postponed \subseteq u.postponed
      /\ v.running = u.running /\ v.ask = "none"
  BY <1>1, <1>3 DEF Shortens, SameRest
<1> HIDE DEF r, stop
<1>5. CASE stop
  <2>1. r = after_get_difference(v, bad)
    BY <1>0, <1>5
  <2>2. /\ Sane(r, n) /\ Watched(r) /\ r.running = v.running /\ r.ask = v.ask
        /\ r.pending \subseteq v.postponed /\ r.postponed \subseteq v.postponed
    BY <1>4, <2>1, AfterGetDifference
  <2> QED
    BY <1>4, <2>2 DEF r
<1>6. CASE ~stop
  <2>1. r = run_get_difference(v, TRUE)
    BY <1>0, <1>6
  <2>2. Begins(v, r, "getDifference", n)
    BY <1>4, <2>1, RunGetDifference
  <2>3. SendsRight(r) /\ Sane(r, n) /\ Watched(r) /\ r.pending \cup r.postponed \subseteq v.pending \cup v.postponed
    BY <1>4, <2>2, BeginsRight
  <2> QED
    BY <1>4, <2>3 DEF r
<1> QED
  BY <1>5, <1>6

-----------------------------------------------------------------------------
(* The steps keep the invariant.                                            *)

LEMMA FreshSane ==
  ASSUME NEW n \in 0..N, NEW pts, pts = -1 \/ Reached(pts, n), NEW skipping \in BOOLEAN
  PROVE  Sane(Fresh(pts, skipping), n)
<1> DEFINE u == Fresh(pts, skipping)
<1>1. pts \in Int
  BY ReachedNumber
<1>2. u \in Fields
  BY <1>1 DEF Fresh, Fields
<1>3. /\ u.pts = pts /\ u.at = pts /\ u.saves = {pts} /\ u.misapplied = {} /\ u.checks
      /\ u.pending = {} /\ u.postponed = {} /\ u.accumulated_pts = -1 /\ u.accumulated_count = 0
  BY DEF Fresh
<1> HIDE DEF u
<1>4. InTurn(u, n)
  BY <1>3 DEF InTurn
<1>5. Counting(u)
  BY <1>3, TotalOfNone DEF Counting
<1>6. Sane(u, n)
  BY <1>2, <1>3, <1>4, <1>5 DEF Sane
<1> QED
  BY <1>6 DEF u

(* A process begins with a query for the state or the difference.           *)
LEMMA StartKeeps ==
  ASSUME NEW n \in 0..N, NEW pts, pts = -1 \/ Reached(pts, n), NEW skipping \in BOOLEAN
  PROVE  LET u == init_state(Fresh(pts, skipping))
             v == [u EXCEPT !.ask = "none"]
         IN  /\ Sane(v, n) /\ Watched(v) /\ v.ask = "none" /\ v.fetch = {}
             /\ RequestFits([type |-> u.ask, pts |-> u.pts], v, n)
<1> DEFINE f == Fresh(pts, skipping)
           u == init_state(f)
           none == "none"
           v == [u EXCEPT !.ask = none]
<1>1. Sane(f, n)
  BY FreshSane
<1>2. ~f.running /\ f.pts = pts /\ f.fetch = {}
  BY DEF Fresh
<1> HIDE DEF f
<1>3. Begins(f, u, IF f.pts = -1 THEN "getState" ELSE "getDifference", n)
  BY <1>1, <1>2, InitState
<1> HIDE DEF u
<1>4. SendsRight(u) /\ Sane(u, n) /\ u.fetch = {} /\ u.running
  BY <1>2, <1>3, BeginsRight DEF Begins
<1>5. u \in Fields /\ none \in {"none", "getState", "getDifference"}
  BY <1>4 DEF Sane
<1> HIDE DEF none
<1>6. v \in Fields
  BY <1>5 DEF Fields
<1>7. SameCore(u, v) /\ v.running = u.running /\ v.ask = none /\ v.fetch = u.fetch
  BY <1>5 DEF Fields, SameCore
<1> HIDE DEF v
<1>8. Sane(v, n) /\ Watched(v)
  BY <1>4, <1>6, <1>7, SameCoreKeeps DEF Watched
<1>9. RequestFits([type |-> u.ask, pts |-> u.pts], v, n)
  <2>1. RequestFits([type |-> u.ask, pts |-> u.pts], u, n)
    BY <1>4, <1>5, RequestNew DEF SendsRight
  <2> QED
    BY <1>5, <1>6, <1>7, <2>1, RequestSame DEF SameCore
<1> QED
  BY <1>4, <1>7, <1>8, <1>9 DEF u, v, f, none

LEMMA InitKeeps == Init => IInv
<1> SUFFICES ASSUME Init PROVE IInv
  OBVIOUS
<1> DEFINE u == init_state(Fresh(-1, FALSE))
<1>0. server \in 0..N /\ server = 0
  BY CountsAreNumbers DEF Init
<1>1. /\ Sane(um, server) /\ Watched(um) /\ um.ask = "none" /\ um.fetch = {}
      /\ RequestFits(request, um, server)
  <2>1. um = [u EXCEPT !.ask = "none"] /\ request = [type |-> u.ask, pts |-> u.pts]
    BY DEF Init
  <2> QED
    BY <1>0, <2>1, StartKeeps
<1> QED
  BY <1>0, <1>1 DEF IInv, Init, N

LEMMA RestartKeeps == IInv /\ Restart => IInv'
<1> SUFFICES ASSUME IInv, Restart PROVE IInv'
  OBVIOUS
<1>1. PICK pts \in um.saves, bot \in Bots :
        LET u == init_state(Fresh(pts, bot))
        IN  /\ um' = [u EXCEPT !.ask = "none"]
            /\ request' = [type |-> u.ask, pts |-> u.pts]
  BY DEF Restart
<1>2. server \in 0..N /\ (pts = -1 \/ Reached(pts, server)) /\ bot \in BOOLEAN
  BY UpdatesAssumption DEF IInv, Sane, InTurn, N
<1>3. /\ Sane(um', server) /\ Watched(um') /\ um'.ask = "none" /\ um'.fetch = {}
      /\ RequestFits(request', um', server)
  BY <1>1, <1>2, StartKeeps
<1>4. server' = server /\ pushed' = {} /\ fetches' = {}
  BY DEF Restart
<1> QED
  BY <1>2, <1>3, <1>4 DEF IInv, N

(* Happen: what the server has grows.                                       *)
LEMMA SaneLater ==
  ASSUME NEW n \in 0..N, NEW m \in n..N, NEW u, Sane(u, n)
  PROVE  Sane(u, m)
<1> USE CountsAreNumbers
<1>1. InTurn(u, m)
  BY ReachedLater DEF Sane, InTurn
<1>2. 1..n \subseteq 1..m
  OBVIOUS
<1> QED
  BY <1>1, <1>2 DEF Sane

LEMMA RequestLater ==
  ASSUME NEW n \in 0..N, NEW m \in n..N, NEW q, NEW u, RequestFits(q, u, n)
  PROVE  RequestFits(q, u, m)
<1> USE CountsAreNumbers
<1>1. 0..n \subseteq 0..m
  OBVIOUS
<1>2. Reached(q.pts, n) => Reached(q.pts, m)
  BY <1>1 DEF Reached
<1>3. IsDifference(q.pts, q.updates, u.pts, n) => IsDifference(q.pts, q.updates, u.pts, m)
  BY <1>1 DEF IsDifference
<1> QED
  BY <1>2, <1>3 DEF RequestFits

LEMMA HappenKeeps == IInv /\ Happen => IInv'
<1> SUFFICES ASSUME IInv, Happen PROVE IInv'
  OBVIOUS
<1> USE CountsAreNumbers
<1>1. server \in 0..N /\ server' \in server..N /\ server' = server + 1 /\ server' \in 0..N
  BY DEF IInv, Happen, N
<1>2. um' = um /\ request' = request /\ fetches' = fetches
  BY DEF Happen
<1>3. Sane(um', server') /\ Watched(um')
  BY <1>1, <1>2, SaneLater DEF IInv
<1>4. RequestFits(request', um', server')
  BY <1>1, <1>2, RequestLater DEF IInv
<1>5. pushed' \subseteq 1..server'
  <2>1. pushed' = pushed \cup {server + 1} /\ pushed \subseteq 1..server
    BY DEF IInv, Happen
  <2>2. 1..server \subseteq 1..server' /\ server + 1 \in 1..server'
    BY <1>1
  <2> QED
    BY <2>1, <2>2
<1>6. \A x \in pushed' : x \notin um'.pending /\ x \notin um'.postponed
  <2>1. server + 1 \notin 1..server
    BY <1>1
  <2>2. um.pending \subseteq 1..server /\ um.postponed \subseteq 1..server
    BY DEF IInv, Sane
  <2> QED
    BY <1>2, <2>1, <2>2 DEF IInv, Happen
<1> QED
  BY <1>1, <1>2, <1>3, <1>4, <1>5, <1>6 DEF IInv, N

LEMMA LoseKeeps ==
  ASSUME IInv, NEW x \in pushed, Lose(x)
  PROVE  IInv'
<1>1. um' = um /\ server' = server /\ request' = request /\ fetches' = fetches /\ pushed' \subseteq pushed
  BY DEF Lose
<1> QED
  BY <1>1 DEF IInv

LEMMA FetchFailsKeeps ==
  ASSUME IInv, NEW pts \in fetches, FetchFails(pts)
  PROVE  IInv'
<1>1. um' = um /\ server' = server /\ request' = request /\ fetches' \subseteq fetches /\ pushed' = pushed
  BY DEF FetchFails
<1> QED
  BY <1>1 DEF IInv

(* The server's answers fit the query.                                      *)
LEMMA AnswerFits ==
  ASSUME NEW n \in 0..N, NEW u \in Fields, NEW q, RequestFits(q, u, n), q.type = "getDifference",
         NEW type \in {"difference", "differenceSlice", "differenceTooLong"},
         NEW upto \in 0..n, Pts[upto] > q.pts,
         NEW a, a = [type |-> type, pts |-> Pts[upto], updates |-> {x \in 1..upto : Pts[x] > q.pts}]
  PROVE  RequestFits(a, u, n)
<1>1. u.running /\ u.pts # -1 /\ q.pts = u.pts
  BY DEF RequestFits
<1>2. a.type = type /\ a.pts = Pts[upto] /\ a.updates = {x \in 1..upto : Pts[x] > u.pts}
  BY <1>1
<1>3. IsDifference(a.pts, a.updates, u.pts, n)
  BY <1>1, <1>2 DEF IsDifference
<1> QED
  BY <1>1, <1>2, <1>3 DEF RequestFits

LEMMA AnswerEmptyFits ==
  ASSUME NEW n, NEW u \in Fields, NEW q, RequestFits(q, u, n), NEW a,
         \/ q.type \in {"getState", "getDifference"} /\ a = [type |-> "error"]
         \/ q.type = "getDifference" /\ a = [type |-> "differenceEmpty"]
         \/ q.type = "getDifference" /\ a = [type |-> "invalid_poll"]
  PROVE  RequestFits(a, u, n)
<1>1. u.running /\ (q.type = "getDifference" => u.pts # -1)
  BY DEF RequestFits
<1> QED
  BY <1>1 DEF RequestFits

LEMMA AnswerStateFits ==
  ASSUME NEW n \in 0..N, NEW u \in Fields, NEW q, RequestFits(q, u, n), q.type = "getState", NEW ys,
         NEW a, a = [type |-> "updates_state", pts |-> Pts[n], updates |-> ys]
  PROVE  RequestFits(a, u, n)
<1>1. u.running /\ u.pts = -1
  BY DEF RequestFits
<1>2. Reached(Pts[n], n)
  BY CountsAreNumbers DEF Reached
<1>3. a.type = "updates_state" /\ a.pts = Pts[n]
  OBVIOUS
<1> QED
  BY <1>1, <1>2, <1>3 DEF RequestFits

LEMMA AnswersKeep == IInv /\ (AnswerOk \/ AnswerBadly) => IInv'
<1> SUFFICES ASSUME IInv, AnswerOk \/ AnswerBadly PROVE IInv'
  OBVIOUS
<1> USE CountsAreNumbers
<1>1. um' = um /\ server' = server /\ pushed' = pushed /\ fetches' = fetches
  BY DEF AnswerOk, AnswerBadly
<1>2. um \in Fields /\ server \in 0..N /\ RequestFits(request, um, server)
  BY DEF IInv, Sane, N
<1>3. RequestFits(request', um, server)
  <2>1. CASE request.type = "getState" /\ request' = Answer("updates_state", server)
    BY <1>2, <2>1, AnswerStateFits DEF Answer
  <2>2. CASE request.type = "getDifference" /\ Pts[server] > request.pts
             /\ request' \in {Answer("difference", server), Answer("differenceTooLong", server)}
    <3>1. server \in 0..server
      BY <1>2
    <3> QED
      BY <1>2, <2>2, <3>1, AnswerFits DEF Answer
  <2>3. CASE request.type = "getDifference"
             /\ \E upto \in 1..(server - 1) : Pts[upto] > request.pts /\ request' = Answer("differenceSlice", upto)
    <3>1. PICK upto \in 1..(server - 1) : Pts[upto] > request.pts /\ request' = Answer("differenceSlice", upto)
      BY <2>3
    <3>2. upto \in 0..server
      BY <1>2
    <3> QED
      BY <1>2, <2>3, <3>1, <3>2, AnswerFits DEF Answer
  <2>4. CASE \/ request.type \in {"getState", "getDifference"} /\ request' = [type |-> "error"]
             \/ request.type = "getDifference" /\ request' = [type |-> "differenceEmpty"]
             \/ request.type = "getDifference" /\ request' = [type |-> "invalid_poll"]
    BY <1>2, <2>4, AnswerEmptyFits
  <2> QED
    BY <2>1, <2>2, <2>3, <2>4 DEF AnswerOk, AnswerBadly
<1> QED
  BY <1>1, <1>3 DEF IInv

(* The handlers that ask for the difference.                                *)
LEMMA AsksKeep ==
  ASSUME IInv, NEW v, Sane(v, server), v.running = um.running, v.pts = um.pts, v.ask = "none",
         v.pending = um.pending, v.postponed = um.postponed,
         Handled(get_difference(v)), pushed' \subseteq pushed, UNCHANGED server
  PROVE  IInv'
<1> DEFINE u == get_difference(v)
<1>0. server \in 0..N
  BY DEF IInv, N
<1>1. CASE v.running
  <2>1. u = v
    BY <1>0, <1>1, GetDifference
  <2>2. Watched(v)
    BY <1>1 DEF Watched
  <2>3. \A x \in pushed' : x \notin v.pending /\ x \notin v.postponed
    BY DEF IInv
  <2> QED
    BY <2>1, <2>2, <2>3, HandledKeeps
<1>2. CASE ~v.running
  <2>1. Begins(v, u, IF v.pts = -1 THEN "getState" ELSE "getDifference", server)
    BY <1>0, <1>2, GetDifference
  <2> HIDE DEF u
  <2>2. SendsRight(u) /\ Sane(u, server) /\ Watched(u) /\ u.pending \cup u.postponed \subseteq v.pending \cup v.postponed
    BY <2>1, BeginsRight
  <2>3. \A x \in pushed' : x \notin u.pending /\ x \notin u.postponed
    BY <2>2 DEF IInv
  <2>4. Handled(u)
    BY DEF u
  <2> QED
    BY <2>2, <2>3, <2>4, HandledKeeps
<1> QED
  BY <1>1, <1>2

LEMMA AsksForDifferenceKeeps ==
  ASSUME IInv,
         \/ on_updates_too_long
         \/ \E x \in pushed : on_unacceptable_update(x)
  PROVE  IInv'
<1>1. Handled(get_difference(um)) /\ pushed' \subseteq pushed /\ server' = server
  BY DEF on_updates_too_long, on_unacceptable_update
<1> QED
  BY <1>1, AsksKeep DEF IInv

LEMMA TimersKeep ==
  ASSUME IInv, fill_pts_gap \/ fill_get_difference_gap
  PROVE  IInv'
<1> DEFINE no == FALSE
           a == [um EXCEPT !.gap = no]
           b == [um EXCEPT !.retry = no]
<1>1. um \in Fields /\ no \in BOOLEAN /\ Sane(um, server) /\ um.ask = "none"
  BY DEF IInv, Sane
<1>2. Handled(get_difference(a)) \/ Handled(get_difference(b))
  BY DEF fill_pts_gap, fill_get_difference_gap
<1>3. server' = server /\ pushed' = pushed
  BY DEF fill_pts_gap, fill_get_difference_gap
<1> HIDE DEF no
<1>4. a \in Fields /\ SameCore(um, a) /\ a.running = um.running /\ a.ask = um.ask
  BY <1>1 DEF Fields, SameCore
<1>5. b \in Fields /\ SameCore(um, b) /\ b.running = um.running /\ b.ask = um.ask
  BY <1>1 DEF Fields, SameCore
<1> HIDE DEF a, b
<1>6. Sane(a, server) /\ Sane(b, server)
  BY <1>1, <1>4, <1>5, SameCoreKeeps
<1> QED
  BY <1>1, <1>2, <1>3, <1>4, <1>5, <1>6, AsksKeep DEF SameCore

(* The handlers of answers.                                                 *)
LEMMA StopsRunning ==
  ASSUME NEW n, NEW u, Sane(u, n)
  PROVE  LET v == [u EXCEPT !.running = FALSE]
         IN  Sane(v, n) /\ SameCore(u, v) /\ ~v.running /\ v.ask = u.ask
<1> DEFINE no == FALSE
           v == [u EXCEPT !.running = no]
<1>1. u \in Fields /\ no \in BOOLEAN /\ ~no
  BY DEF Sane
<1> HIDE DEF no
<1>2. v \in Fields /\ SameCore(u, v) /\ v.running = no /\ v.ask = u.ask
  BY <1>1 DEF Fields, SameCore
<1> HIDE DEF v
<1>3. Sane(v, n)
  BY <1>1, <1>2, SameCoreKeeps
<1> QED
  BY <1>1, <1>2, <1>3 DEF v, no

(* The client takes over the server's pts without the updates.              *)
LEMMA JumpKeeps ==
  ASSUME NEW n \in 0..N, NEW u, Sane(u, n), u.pending = {}, NEW pts, Reached(pts, n), pts > u.pts
  PROVE  LET v == [set_pts(u, pts) EXCEPT !.at = pts]
         IN  Sane(v, n) /\ SameRest(u, v) /\ v.pts = pts /\ v.pending = {} /\ v.postponed = u.postponed
<1> DEFINE c == [u EXCEPT !.pts = pts, !.saves = @ \cup {pts}]
           v == [c EXCEPT !.at = pts]
<1>1. u \in Fields /\ pts \in Int /\ pts # -1
  BY ReachedNumber DEF Sane
<1>2. set_pts(u, pts) = c /\ c \in Fields
  BY <1>1, SetPts
<1>3. /\ c.pts = pts /\ c.checks = u.checks /\ c.saves = u.saves \cup {pts} /\ c.misapplied = u.misapplied
      /\ c.pending = u.pending /\ c.accumulated_pts = u.accumulated_pts /\ c.accumulated_count = u.accumulated_count
      /\ c.postponed = u.postponed /\ SameRest(u, c)
  BY <1>1 DEF Fields, SameRest
<1>4. [set_pts(u, pts) EXCEPT !.at = pts] = v
  BY <1>2
<1> HIDE DEF c
<1>5. v \in Fields
  BY <1>1, <1>2, AssignAt
<1>6. /\ v.pts = c.pts /\ v.at = pts /\ v.checks = c.checks /\ v.saves = c.saves /\ v.misapplied = c.misapplied
      /\ v.pending = c.pending /\ v.accumulated_pts = c.accumulated_pts /\ v.accumulated_count = c.accumulated_count
      /\ v.postponed = c.postponed /\ SameRest(c, v)
  BY <1>2 DEF Fields, SameRest
<1> HIDE DEF v
<1>7. SameRest(u, v)
  BY <1>3, <1>6 DEF SameRest
<1>8. InTurn(v, n)
  BY <1>3, <1>6 DEF Sane, InTurn
<1>9. Counting(v)
  BY <1>3, <1>6 DEF Sane, Counting
<1>10. Sane(v, n)
  BY <1>1, <1>3, <1>5, <1>6, <1>7, <1>8, <1>9 DEF Sane, SameRest
<1> QED
  BY <1>3, <1>4, <1>6, <1>7, <1>10

LEMMA FailedKeeps == IInv /\ on_failed_get_difference => IInv'
<1> SUFFICES ASSUME IInv, on_failed_get_difference PROVE IInv'
  OBVIOUS
<1> DEFINE no == FALSE
           yes == TRUE
           u == [um EXCEPT !.running = no, !.retry = yes]
<1>1. um \in Fields /\ Sane(um, server) /\ um.ask = "none" /\ no \in BOOLEAN /\ yes \in BOOLEAN /\ ~no /\ yes
  BY DEF IInv, Sane
<1>2. Consumed(u) /\ server' = server /\ pushed' = pushed
  BY DEF on_failed_get_difference, Failed
<1> HIDE DEF no, yes
<1>3. u \in Fields
  BY <1>1 DEF Fields
<1>4. SameCore(um, u) /\ u.running = no /\ u.retry = yes /\ u.ask = um.ask
  BY <1>1 DEF Fields, SameCore
<1> HIDE DEF u
<1>5. Sane(u, server) /\ Watched(u)
  BY <1>1, <1>3, <1>4, SameCoreKeeps DEF Watched
<1>6. u.pending \cup u.postponed \subseteq um.pending \cup um.postponed /\ u.ask = "none" /\ ~u.running
  BY <1>1, <1>4 DEF SameCore
<1> QED
  BY <1>2, <1>5, <1>6, ConsumedKeeps

(* A complete difference ends with the postponed updates added again.       *)
LEMMA CompletesKeep ==
  ASSUME IInv, NEW u, NEW bad, Sane(u, server), u.pending = {}, u.pts # -1, ~u.running, u.ask = "none",
         u.postponed = um.postponed, Consumed(after_get_difference(u, bad)), UNCHANGED <<server, pushed>>
  PROVE  IInv'
<1> DEFINE r == after_get_difference(u, bad)
<1>0. server \in 0..N
  BY DEF IInv, N
<1>1. /\ Sane(r, server) /\ Watched(r) /\ r.running = u.running /\ r.ask = u.ask
      /\ r.pending \subseteq u.postponed /\ r.postponed \subseteq u.postponed
  BY <1>0, AfterGetDifference
<1>2. Consumed(r)
  OBVIOUS
<1> HIDE DEF r
<1>3. r.pending \cup r.postponed \subseteq um.pending \cup um.postponed /\ r.ask = "none" /\ ~r.running
  BY <1>1
<1> QED
  BY <1>1, <1>2, <1>3, ConsumedKeeps

LEMMA StateKeeps == IInv /\ on_get_updates_state => IInv'
<1> SUFFICES ASSUME IInv, on_get_updates_state PROVE IInv'
  OBVIOUS
<1> DEFINE pts == request.pts
           no == FALSE
           v == [set_pts(um, pts) EXCEPT !.at = pts]
           s == [v EXCEPT !.running = no]
           u == [set_pts(um, request.pts) EXCEPT !.at = request.pts, !.running = FALSE]
<1>0. server \in 0..N /\ server' = server /\ pushed' = pushed /\ Consumed(after_get_difference(u, {}))
  BY DEF IInv, N, on_get_updates_state
<1>1. Sane(um, server) /\ um.pts = -1 /\ um.pending = {} /\ Reached(pts, server) /\ um.ask = "none"
  BY DEF IInv, Sane, RequestFits, on_get_updates_state
<1>2. pts > um.pts /\ pts # -1
  BY <1>0, <1>1, ReachedNumber
<1>3. u = s
  OBVIOUS
<1> HIDE DEF pts
<1>4. Sane(v, server) /\ SameRest(um, v) /\ v.pts = pts /\ v.pending = {} /\ v.postponed = um.postponed
  BY <1>0, <1>1, <1>2, JumpKeeps
<1> HIDE DEF v
<1>5. Sane(s, server) /\ SameCore(v, s) /\ ~s.running /\ s.ask = v.ask
  BY <1>4, StopsRunning
<1> HIDE DEF s, u
<1>6. Sane(s, server) /\ s.pending = {} /\ s.pts # -1 /\ ~s.running /\ s.ask = "none" /\ s.postponed = um.postponed
  BY <1>1, <1>2, <1>4, <1>5 DEF SameCore, SameRest
<1>7. Consumed(after_get_difference(s, {}))
  BY <1>0, <1>3
<1> QED
  BY <1>0, <1>6, <1>7, CompletesKeep

LEMMA GetDifferenceKeeps == IInv /\ on_get_difference => IInv'
<1> SUFFICES ASSUME IInv, on_get_difference PROVE IInv'
  OBVIOUS
<1> USE CountsAreNumbers
<1> DEFINE u == [um EXCEPT !.running = FALSE]
           type == request.type
<1>0. server \in 0..N /\ server' = server /\ pushed' = pushed
  BY DEF IInv, N, on_get_difference
<1>1. \/ type = "differenceEmpty" /\ \E bad \in Refusals : Consumed(after_get_difference(u, bad))
      \/ type = "difference"
         /\ \E bad \in Refusals : Consumed(after_get_difference(TakeDifference(u, request), bad))
      \/ type = "differenceSlice"
         /\ \E bad \in Refusals, same_date \in BOOLEAN, rounds \in 0..Cardinality(um.postponed) :
              Consumed(on_slice(u, request, same_date, rounds, bad))
      \/ type = "differenceTooLong"
         /\ Consumed(get_difference([set_pts(u, request.pts) EXCEPT !.at = request.pts]))
      \/ type = "invalid_poll" /\ Consumed(run_get_difference(u, TRUE))
  BY DEF on_get_difference
<1>2. Sane(um, server) /\ um.ask = "none" /\ RequestFits(request, um, server)
  BY DEF IInv
<1>3. um.running /\ um.pts # -1 /\ um.pending = {}
  BY <1>1, <1>2 DEF RequestFits, Sane
<1>4. type \in {"difference", "differenceSlice", "differenceTooLong"} =>
        IsDifference(request.pts, request.updates, um.pts, server)
  BY <1>2 DEF RequestFits
<1>5. Sane(u, server) /\ SameCore(um, u) /\ ~u.running /\ u.ask = um.ask
  BY <1>2, StopsRunning
<1> HIDE DEF u, type
<1>6. u.pending = {} /\ u.pts # -1 /\ u.pts = um.pts /\ u.postponed = um.postponed /\ u.ask = "none"
  BY <1>2, <1>3, <1>5 DEF SameCore
<1>7. CASE type = "differenceEmpty" /\ \E bad \in Refusals : Consumed(after_get_difference(u, bad))
  BY <1>0, <1>5, <1>6, <1>7, CompletesKeep
<1>8. CASE type = "difference"
           /\ \E bad \in Refusals : Consumed(after_get_difference(TakeDifference(u, request), bad))
  <2> DEFINE t == TakeDifference(u, request)
  <2>1. Sane(t, server) /\ SameRest(u, t) /\ t.pts = request.pts /\ t.pending = {} /\ t.postponed = u.postponed
    BY <1>0, <1>4, <1>5, <1>6, <1>8, TakeDifferenceKeeps
  <2>2. PICK bad \in Refusals : Consumed(after_get_difference(t, bad))
    BY <1>8
  <2> HIDE DEF t
  <2>3. t.pts # -1
    <3>1. Reached(request.pts, server)
      BY <1>4, <1>8 DEF IsDifference, Reached
    <3>2. request.pts \in Nat
      BY <1>0, <3>1, ReachedNumber
    <3> QED
      BY <2>1, <3>2
  <2>4. ~t.running /\ t.ask = "none" /\ t.postponed = um.postponed
    BY <1>5, <1>6, <2>1 DEF SameRest
  <2> QED
    BY <1>0, <2>1, <2>2, <2>3, <2>4, CompletesKeep
<1>9. CASE type = "differenceSlice"
           /\ \E bad \in Refusals, same_date \in BOOLEAN, rounds \in 0..Cardinality(um.postponed) :
                Consumed(on_slice(u, request, same_date, rounds, bad))
  <2>1. PICK bad \in Refusals, same_date \in BOOLEAN, rounds \in 0..Cardinality(um.postponed) :
          Consumed(on_slice(u, request, same_date, rounds, bad))
    BY <1>9
  <2>2. rounds \in Nat
    <3>1. IsFiniteSet(um.postponed)
      <4>1. um.postponed \subseteq 1..server
        BY <1>2 DEF Sane
      <4>2. IsFiniteSet(1..server)
        BY <1>0, FS_Interval
      <4> QED
        BY <4>1, <4>2, FS_Subset
    <3>2. Cardinality(um.postponed) \in Nat
      BY <3>1, FS_CardinalityType
    <3> QED
      BY <3>2
  <2> DEFINE r == on_slice(u, request, same_date, rounds, bad)
  <2>3. /\ Sane(r, server) /\ Watched(r) /\ r.pending \cup r.postponed \subseteq u.postponed
        /\ SendsRight(r) \/ (r.ask = "none" /\ ~r.running)
    BY <1>0, <1>4, <1>5, <1>6, <1>9, <2>2, SliceKeeps
  <2>4. Consumed(r)
    BY <2>1
  <2> HIDE DEF r
  <2>5. r.pending \cup r.postponed \subseteq um.pending \cup um.postponed
    BY <1>6, <2>3
  <2> QED
    BY <1>0, <2>3, <2>4, <2>5, ConsumedKeeps
<1>10. CASE type = "differenceTooLong"
            /\ Consumed(get_difference([set_pts(u, request.pts) EXCEPT !.at = request.pts]))
  <2> DEFINE pts == request.pts
             v == [set_pts(u, pts) EXCEPT !.at = pts]
             r == get_difference(v)
  <2>1. Reached(pts, server) /\ pts > u.pts
    BY <1>4, <1>6, <1>10 DEF IsDifference, Reached
  <2>2. Consumed(r)
    BY <1>10
  <2> HIDE DEF pts
  <2>3. Sane(v, server) /\ SameRest(u, v) /\ v.pts = pts /\ v.pending = {} /\ v.postponed = u.postponed
    BY <1>0, <1>5, <1>6, <2>1, JumpKeeps
  <2> HIDE DEF v
  <2>4. ~v.running
    BY <1>5, <2>3 DEF SameRest
  <2>5. Begins(v, r, IF v.pts = -1 THEN "getState" ELSE "getDifference", server)
    BY <1>0, <2>3, <2>4, GetDifference
  <2> HIDE DEF r
  <2>6. SendsRight(r) /\ Sane(r, server) /\ Watched(r) /\ r.pending \cup r.postponed \subseteq v.pending \cup v.postponed
    BY <2>5, BeginsRight
  <2>7. r.pending \cup r.postponed \subseteq um.pending \cup um.postponed
    BY <1>6, <2>3, <2>6
  <2> QED
    BY <1>0, <2>2, <2>6, <2>7, ConsumedKeeps
<1>11. CASE type = "invalid_poll" /\ Consumed(run_get_difference(u, TRUE))
  <2> DEFINE r == run_get_difference(u, TRUE)
  <2>1. Begins(u, r, "getDifference", server)
    BY <1>0, <1>5, <1>6, RunGetDifference
  <2>2. Consumed(r)
    BY <1>11
  <2> HIDE DEF r
  <2>3. SendsRight(r) /\ Sane(r, server) /\ Watched(r) /\ r.pending \cup r.postponed \subseteq u.pending \cup u.postponed
    BY <1>6, <2>1, BeginsRight
  <2>4. r.pending \cup r.postponed \subseteq um.pending \cup um.postponed
    BY <1>6, <2>3
  <2> QED
    BY <1>0, <2>2, <2>3, <2>4, ConsumedKeeps
<1> QED
  BY <1>1, <1>7, <1>8, <1>9, <1>10, <1>11

(* repair_pts_gap.                                                          *)
LEMMA RepairKeeps == IInv /\ repair_pts_gap => IInv'
<1> SUFFICES ASSUME IInv, repair_pts_gap PROVE IInv'
  OBVIOUS
<1> DEFINE pts == um.pts + 1
           no == FALSE
           one == {pts}
           a == [um EXCEPT !.min_gap = no]
           b == [a EXCEPT !.last_fetched = pts, !.fetch = one]
<1>1. um \in Fields /\ Sane(um, server) /\ Watched(um) /\ um.ask = "none"
  BY DEF IInv, Sane
<1>2. no \in BOOLEAN /\ pts \in Int /\ one \in SUBSET Int
  BY <1>1 DEF Fields
<1>3. PICK u : Handled(u) /\ (u = a \/ u = b)
  BY DEF repair_pts_gap
<1>4. server' = server /\ pushed' = pushed
  BY DEF repair_pts_gap
<1> HIDE DEF no, pts, one
<1>5. a \in Fields /\ SameCore(um, a) /\ a.running = um.running /\ a.ask = um.ask /\ a.gap = um.gap /\ a.retry = um.retry
  BY <1>1, <1>2 DEF Fields, SameCore
<1> HIDE DEF a
<1>6. b \in Fields
  BY <1>2, <1>5 DEF Fields
<1>7. SameCore(a, b) /\ b.running = a.running /\ b.ask = a.ask /\ b.gap = a.gap /\ b.retry = a.retry
  BY <1>5 DEF Fields, SameCore
<1> HIDE DEF b
<1>8. u \in Fields /\ SameCore(um, u) /\ u.running = um.running /\ u.ask = um.ask /\ u.gap = um.gap /\ u.retry = um.retry
  BY <1>3, <1>5, <1>6, <1>7 DEF SameCore
<1>9. Sane(u, server) /\ Watched(u)
  BY <1>1, <1>8, SameCoreKeeps DEF Watched, SameCore
<1>10. \A x \in pushed' : x \notin u.pending /\ x \notin u.postponed
  BY <1>4, <1>8 DEF IInv, SameCore
<1> QED
  BY <1>1, <1>3, <1>4, <1>8, <1>9, <1>10, HandledKeeps DEF SameCore

(* on_pending_updates.                                                      *)
LEMMA PushKeeps ==
  ASSUME IInv, NEW x \in pushed, on_pending_updates(x)
  PROVE  IInv'
<1> USE CountsAreNumbers
<1> DEFINE s == Started(um)
           min == Pts[x]
           late == s.running /\ ~s.skipping /\ (s.min_postponed = 0 \/ Pts[x] < s.min_postponed)
           w == MinPostponed(s, x)
<1>0. /\ server \in 0..N /\ server' = server /\ pushed' = pushed \ {x}
      /\ x \in 1..server /\ x \in 1..N
  <2>1. server' = server /\ pushed' = pushed \ {x}
    BY Zenon DEF on_pending_updates
  <2>2. server \in 0..N /\ x \in 1..server
    BY DEF IInv, N
  <2> QED
    BY <2>1, <2>2
<1>1. PICK v \in {w, EndSkipping(w)} : Handled(add_pending_pts_update(v, x, FALSE))
  BY DEF on_pending_updates
<1> DEFINE r == add_pending_pts_update(v, x, FALSE)
<1>2. Sane(um, server) /\ Watched(um) /\ um.ask = "none" /\ x \notin um.pending
  BY DEF IInv
<1>3. /\ Sane(s, server) /\ Watched(s) /\ s.pending \cup s.postponed \subseteq um.pending \cup um.postponed
      /\ s.running \/ s.pts # -1
      /\ s.pts = um.pts
      /\ \/ SendsRight(s)
         \/ s.ask = "none" /\ s.running = um.running /\ s.pts = um.pts
  <2>1. CASE um.pts # -1 \/ um.running
    <3>1. s = um
      BY <2>1, <1>2, Zenon DEF Started, init_state
    <3> QED
      BY <1>2, <2>1, <3>1
  <2>2. CASE um.pts = -1 /\ ~um.running
    <3>1. s = init_state(um)
      BY <2>2 DEF Started
    <3>2. Begins(um, s, IF um.pts = -1 THEN "getState" ELSE "getDifference", server)
      BY <1>0, <1>2, <2>2, <3>1, InitState
    <3> QED
      BY <2>2, <3>2, BeginsRight DEF Begins, SendsRight
  <2> QED
    BY <2>1, <2>2
<1> HIDE DEF s
<1>4. s \in Fields /\ min \in Int
  BY <1>0, <1>3, PtsStep DEF Sane
<1>5. w = IF late THEN [s EXCEPT !.min_postponed = min] ELSE s
  BY DEF MinPostponed
<1> HIDE DEF min, late, w
<1>6. v \in Fields /\ SameCore(s, v) /\ v.running = s.running /\ v.ask = s.ask /\ v.gap = s.gap /\ v.retry = s.retry
  <2>1. w \in Fields /\ SameCore(s, w) /\ w.running = s.running /\ w.ask = s.ask /\ w.gap = s.gap /\ w.retry = s.retry
    BY <1>4, <1>5 DEF Fields, SameCore
  <2>2. CASE v = w
    BY <2>1, <2>2
  <2>3. CASE v = EndSkipping(w)
    <3>1. /\ v \in Fields /\ SameCore(w, v) /\ v.running = w.running /\ v.ask = w.ask
          /\ v.gap = w.gap /\ v.retry = w.retry
      BY <2>1, <2>3, EndSkippingKeeps
    <3> QED
      BY <2>1, <3>1 DEF SameCore
  <2> QED
    BY <1>1, <2>2, <2>3
<1>7. Sane(v, server) /\ Watched(v)
  BY <1>3, <1>6, SameCoreKeeps DEF Watched, SameCore
<1>8. x \notin v.pending /\ (v.running \/ v.pts # -1)
  <2>1. x \notin um.pending /\ x \notin um.postponed
    BY DEF IInv
  <2> QED
    BY <1>3, <1>6, <2>1 DEF SameCore
<1>9. Adds(v, r, x, server)
  BY <1>0, <1>7, <1>8, AddKeeps
<1>13. Handled(r)
  BY <1>1
<1> HIDE DEF r
<1>10. \A y \in pushed' : y \notin r.pending /\ y \notin r.postponed
  <2> SUFFICES ASSUME NEW y \in pushed' PROVE y \notin r.pending /\ y \notin r.postponed
    OBVIOUS
  <2>1. y # x /\ y \notin um.pending /\ y \notin um.postponed
    BY <1>0 DEF IInv
  <2> QED
    BY <1>3, <1>6, <1>9, <2>1 DEF Adds, SameCore
<1>11. \/ SendsRight(r)
       \/ r.ask = "none" /\ r.running = um.running /\ (um.running => r.pts = um.pts)
  BY <1>3, <1>6, <1>9 DEF Adds, SameRest, SameCore, SendsRight
<1>12. Sane(r, server) /\ Watched(r) /\ pushed' \subseteq pushed
  BY <1>0, <1>9 DEF Adds
<1> QED
  BY <1>0, <1>10, <1>11, <1>12, <1>13, HandledKeeps

(* on_get_pts_update: the update that was fetched is applied at once, so it *)
(* does not wait together with the push of it that may still come.          *)
LEMMA FetchedKeeps ==
  ASSUME IInv, NEW pts \in fetches, on_get_pts_update(pts)
  PROVE  IInv'
<1> USE CountsAreNumbers
<1> DEFINE found == {x \in 1..server : Pts[x] = pts /\ Counts[x] = 1}
           x == Min(found)
           first == Min(um.pending)
           r == add_pending_pts_update(um, x, FALSE)
<1>0. server \in 0..N /\ server' = server /\ pushed' = pushed /\ request' = request /\ fetches' \subseteq Int
  BY DEF IInv, N, on_get_pts_update
<1>1. um' = IF CanTake(um, pts) /\ found # {} THEN r ELSE um
  BY DEF on_get_pts_update
<1>2. Sane(um, server) /\ Watched(um) /\ um \in Fields /\ um.pending \subseteq 1..server
  BY DEF IInv, Sane
<1>3. CASE ~(CanTake(um, pts) /\ found # {})
  <2>1. um' = um
    BY <1>1, <1>3
  <2> QED
    BY <1>0, <2>1 DEF IInv
<1>4. CASE CanTake(um, pts) /\ found # {}
  <2>0. um' = r
    BY <1>1, <1>4
  <2>1. ~um.running /\ um.postponed = {} /\ um.pending # {} /\ um.pts = pts - 1 /\ Pts[first] = pts + Counts[first]
    BY <1>4 DEF CanTake, MissesOne
  <2>2. x \in found
    <3>1. found \subseteq Nat /\ found # {}
      BY <1>4
    <3> HIDE DEF found
    <3>2. PICK y \in found : \A z \in found : y <= z
      BY <3>1, Lemmas!LeastNumber
    <3> QED
      BY <3>2 DEF Min
  <2>3. first \in um.pending /\ \A y \in um.pending : first <= y
    <3>1. um.pending \subseteq Nat
      BY <1>2
    <3>2. PICK y \in um.pending : \A z \in um.pending : y <= z
      BY <2>1, <3>1, Lemmas!LeastNumber
    <3> QED
      BY <3>2 DEF Min
  <2>4. x \in 1..server /\ x \in 1..N /\ Pts[x] = pts /\ Counts[x] = 1
    BY <1>0, <2>2
  <2> HIDE DEF x, first
  <2>5. first \in 1..server /\ first \in 1..N
    BY <1>0, <1>2, <2>3
  <2>6. Pts[x] \in Nat /\ Pts[x - 1] \in Nat /\ Pts[x] = Pts[x - 1] + Counts[x] /\ x \in 0..N
    BY <2>4, PtsStep
  <2>7. um.pts = Pts[x - 1] /\ um.pts # -1 /\ um.pts \in Nat /\ Pts[x] = um.pts + 1
    BY <2>1, <2>4, <2>6
  <2>8. x < first
    <3>1. Pts[first] \in Nat /\ Pts[first - 1] \in Nat /\ Counts[first] \in Nat
          /\ Pts[first] = Pts[first - 1] + Counts[first] /\ first - 1 \in 0..N
      BY <2>5, PtsStep
    <3>2. Pts[first - 1] = pts
      BY <2>1, <2>4, <2>6, <3>1, SMTT(40)
    <3>3. x - 1 \in 0..N /\ Pts[x - 1] < Pts[first - 1]
      <4>1. x - 1 \in 0..N
        BY <2>4, PtsStep
      <4>2. Pts[x - 1] < Pts[x]
        BY <2>4, <2>6
      <4> QED
        BY <2>4, <3>2, <4>1, <4>2
    <3>4. ~(first - 1 <= x - 1)
      <4> SUFFICES ASSUME first - 1 <= x - 1 PROVE FALSE
        OBVIOUS
      <4>1. Pts[first - 1] <= Pts[x - 1]
        BY <3>1, <3>3, PtsMonotone
      <4> QED
        BY <2>6, <3>1, <3>3, <4>1
    <3> QED
      BY <2>4, <2>5, <3>4
  <2>9. x \notin um.pending /\ \A y \in um.pending : x <= y
    <3> SUFFICES ASSUME NEW y \in um.pending PROVE x # y /\ x <= y
      OBVIOUS
    <3>1. first <= y /\ y \in 1..server
      BY <1>2, <2>3
    <3> QED
      BY <1>0, <2>4, <2>5, <2>8, <3>1
  <2>10. Adds(um, r, x, server) /\ r.pts >= Pts[x] /\ r.postponed = {}
    <3> DEFINE bad == FALSE
    <3>1. bad \in BOOLEAN /\ ~bad /\ Counts[x] > 0
      BY <2>4
    <3>2. r = add_pending_pts_update(um, x, bad)
      OBVIOUS
    <3> HIDE DEF r, bad
    <3>3. Adds(um, r, x, server)
          /\ (~um.running /\ um.postponed = {} /\ ~bad /\ um.pts = Pts[x - 1] /\ Counts[x] > 0
               /\ (\A y \in um.pending : x <= y) => r.pts >= Pts[x] /\ r.postponed = {})
      BY <1>0, <1>2, <2>4, <2>7, <2>9, <3>1, <3>2, AddKeeps
    <3> QED
      BY <2>1, <2>7, <2>9, <3>1, <3>3
  <2> HIDE DEF r
  <2>11. Sane(r, server) /\ Watched(r) /\ SameRest(um, r) /\ r.pending \subseteq um.pending \cup {x}
    BY <2>10 DEF Adds
  <2>12. x \notin r.pending
    <3>1. r \in Fields /\ \A y \in r.pending : r.pts <= Pts[y - 1]
      BY <2>11 DEF Sane
    <3>2. r.pts \in Int
      BY <3>1 DEF Fields
    <3> QED
      BY <2>4, <2>6, <2>10, <3>1, <3>2
  <2>13. \A y \in pushed' : y \notin r.pending /\ y \notin r.postponed
    BY <1>0, <2>10, <2>11, <2>12 DEF IInv
  <2>14. RequestFits(request, r, server)
    <3>1. r \in Fields /\ r.running = um.running
      BY <2>11 DEF Sane, SameRest
    <3> QED
      BY <1>2, <2>1, <3>1, RequestSame DEF IInv
  <2>15. r.ask = "none" /\ r.fetch = {}
    BY <2>11 DEF IInv, SameRest
  <2> QED
    BY <1>0, <2>0, <2>11, <2>13, <2>14, <2>15 DEF IInv, N
<1> QED
  BY <1>3, <1>4

LEMMA SkipOthersKeeps == IInv /\ SkipOthers => IInv'
<1> SUFFICES ASSUME IInv, SkipOthers PROVE IInv'
  OBVIOUS
<1>1. Sane(um, server) /\ Watched(um) /\ um \in Fields /\ RequestFits(request, um, server)
  BY DEF IInv, Sane
<1>2. /\ um' \in Fields /\ SameCore(um, um') /\ um'.running = um.running /\ um'.ask = um.ask
      /\ um'.gap = um.gap /\ um'.retry = um.retry /\ um'.fetch = um.fetch
  BY <1>1, EndSkippingKeeps DEF SkipOthers
<1>3. Sane(um', server) /\ Watched(um') /\ um'.pts = um.pts
  BY <1>1, <1>2, SameCoreKeeps DEF Watched, SameCore
<1>4. RequestFits(request, um', server)
  BY <1>1, <1>2, <1>3, RequestSame
<1>5. UNCHANGED <<server, pushed, request, fetches>>
  BY DEF SkipOthers
<1> QED
  BY <1>2, <1>3, <1>4, <1>5 DEF IInv, SameCore

LEMMA NextKeeps == IInv /\ [Next]_vars => IInv'
<1> SUFFICES ASSUME IInv, [Next]_vars PROVE IInv'
  OBVIOUS
<1>1. CASE Deliver
  BY <1>1, PushKeeps DEF Deliver
<1>2. CASE \E x \in pushed : Lose(x)
  BY <1>2, LoseKeeps
<1>3. CASE on_updates_too_long \/ \E x \in pushed : on_unacceptable_update(x)
  BY <1>3, AsksForDifferenceKeeps
<1>4. CASE \E pts \in fetches : FetchFails(pts)
  BY <1>4, FetchFailsKeeps
<1>5. CASE \E pts \in fetches : on_get_pts_update(pts)
  BY <1>5, FetchedKeeps
<1>6. CASE Happen
  BY <1>6, HappenKeeps
<1>7. CASE AnswerOk \/ AnswerBadly
  BY <1>7, AnswersKeep
<1>8. CASE repair_pts_gap
  BY <1>8, RepairKeeps
<1>9. CASE Restart
  BY <1>9, RestartKeeps
<1>10. CASE on_failed_get_difference
  BY <1>10, FailedKeeps
<1>11. CASE on_get_updates_state
  BY <1>11, StateKeeps
<1>12. CASE on_get_difference
  BY <1>12, GetDifferenceKeeps
<1>13. CASE fill_pts_gap \/ fill_get_difference_gap
  BY <1>13, TimersKeep
<1>14. CASE UNCHANGED vars
  BY <1>14 DEF IInv, vars
<1>15. CASE SkipOthers
  BY <1>15, SkipOthersKeeps
<1> QED
  BY <1>1, <1>2, <1>3, <1>4, <1>5, <1>6, <1>7, <1>8, <1>9, <1>10, <1>11, <1>12, <1>13, <1>14, <1>15
  DEF Next, Environment

(* The invariant of UpdatesManager holds, whatever is pushed, lost, fetched *)
(* or postponed, and wherever the process is restarted.                     *)
THEOREM UpdatesInvariance == Spec => []IInv
<1>1. Init => IInv
  BY InitKeeps
<1>2. IInv /\ [Next]_vars => IInv'
  BY NextKeeps
<1> QED
  BY <1>1, <1>2, PTL DEF Spec

(* Every update is applied once and in its turn, and the pts says exactly   *)
(* what has been applied, in add_pending_pts_update,                        *)
(* process_all_pending_pts_updates, process_pending_pts_updates,            *)
(* process_postponed_pts_updates and on_get_difference.                     *)
THEOREM StateMatchesPtsHolds == Spec => []StateMatchesPts
<1>1. IInv => StateMatchesPts
  BY DEF IInv, Sane, InTurn, StateMatchesPts
<1> QED
  BY <1>1, UpdatesInvariance, PTL

(* An update that waits has a timer or a query, accumulated_pts_count_ is   *)
(* the sum of the pending updates, and no CHECK of run_get_difference,      *)
(* process_pending_pts_updates or process_pts_update fails.                 *)
THEOREM PendingAgreesHolds == Spec => []PendingAgrees
<1>1. IInv => PendingAgrees
  BY DEF IInv, Sane, InTurn, Counting, Watched, PendingAgrees, WaitingIsWatched, AccumulatedAgree
<1> QED
  BY <1>1, UpdatesInvariance, PTL

-----------------------------------------------------------------------------
(* DuplicateChecker.                                                        *)

Increasing(s) == \A i, j \in 1..Len(s) : i < j => s[i] < s[j]

(* The assumption, without finiteness.                                      *)
LEMMA CheckerConstants == Ids \subseteq Nat /\ MaxSize \in Nat /\ MaxSize > 0
BY CheckerAssumption

LEMMA ElementsAreIds ==
  ASSUME NEW s \in Seq(Ids)
  PROVE  \A i \in 1..Len(s) : s[i] \in Ids /\ s[i] \in Nat
<1>1. \A i \in 1..Len(s) : s[i] \in Ids
  OBVIOUS
<1> QED
  BY <1>1, CheckerConstants

USE CheckerConstants

(* Forgetting the first half keeps the order; what is forgotten is below    *)
(* what is kept.                                                            *)
LEMMA CompactedProperties ==
  ASSUME NEW s \in Seq(Ids), Len(s) <= 2 * MaxSize, Increasing(s)
  PROVE  LET c == Compacted(s)
         IN  /\ c \in Seq(Ids) /\ Len(c) < 2 * MaxSize /\ Increasing(c)
             /\ \A i \in 1..Len(c) : \E j \in 1..Len(s) : c[i] = s[j]
             /\ \A j \in 1..Len(s) :
                  (\E i \in 1..Len(c) : c[i] = s[j]) \/ IsVeryOld(c, s[j])
             /\ \A id \in Ids : IsVeryOld(s, id) => IsVeryOld(c, id)
<1> DEFINE c == Compacted(s)
<1>1. CASE Len(s) # 2 * MaxSize
  <2>1. c = s
    BY <1>1 DEF Compacted
  <2> QED
    BY <1>1, <2>1
<1>2. CASE Len(s) = 2 * MaxSize
  <2>1. c = SubSeq(s, MaxSize + 1, 2 * MaxSize)
    BY <1>2 DEF Compacted
  <2>2. c \in Seq(Ids) /\ Len(c) = MaxSize /\ \A i \in 1..MaxSize : c[i] = s[MaxSize + i]
    <3>1. MaxSize \in Nat /\ MaxSize + 1 \in 1..(Len(s) + 1) /\ 2 * MaxSize \in 0..Len(s)
      BY <1>2, CheckerConstants
    <3>2. /\ SubSeq(s, MaxSize + 1, 2 * MaxSize) \in Seq(Ids)
          /\ Len(SubSeq(s, MaxSize + 1, 2 * MaxSize)) = MaxSize
      BY <3>1
    <3>3. \A i \in 1..MaxSize : SubSeq(s, MaxSize + 1, 2 * MaxSize)[i] = s[MaxSize + i]
      BY <3>1
    <3> QED
      BY <2>1, <3>2, <3>3
  <2>3. Increasing(c)
    BY <1>2, <2>2 DEF Increasing
  <2>4. \A i \in 1..Len(c) : \E j \in 1..Len(s) : c[i] = s[j]
    BY <1>2, <2>2
  <2>5. ASSUME NEW j \in 1..Len(s)
        PROVE  (\E i \in 1..Len(c) : c[i] = s[j]) \/ IsVeryOld(c, s[j])
    <3>1. CASE j <= MaxSize
      <4>1. s[j] < s[MaxSize + 1]
        BY <1>2, <3>1 DEF Increasing
      <4> QED
        BY <1>2, <2>2, <4>1 DEF IsVeryOld
    <3>2. CASE j > MaxSize
      <4>1. j - MaxSize \in 1..MaxSize /\ MaxSize + (j - MaxSize) = j
        BY <1>2, <3>2
      <4>2. c[j - MaxSize] = s[j]
        BY <2>2, <4>1
      <4> QED
        BY <2>2, <4>1, <4>2
    <3> QED
      BY <3>1, <3>2
  <2>6. ASSUME NEW id \in Ids, IsVeryOld(s, id)
        PROVE  IsVeryOld(c, id)
    <3>1. s[1] < s[MaxSize + 1]
      BY <1>2 DEF Increasing
    <3>2. s[1] \in Nat /\ s[MaxSize + 1] \in Nat /\ id \in Nat
      <4>1. 1 \in 1..Len(s) /\ MaxSize + 1 \in 1..Len(s)
        BY <1>2
      <4> QED
        BY <4>1, ElementsAreIds
    <3>3. c[1] = s[MaxSize + 1]
      BY <2>2
    <3>4. id < c[1]
      BY <2>6, <3>1, <3>2, <3>3 DEF IsVeryOld
    <3> QED
      BY <2>2, <3>4 DEF IsVeryOld
  <2> QED
    BY <2>2, <2>3, <2>4, <2>5, <2>6
<1> QED
  BY <1>1, <1>2

(* std::lower_bound finds a cell when the identifier is not above all.      *)
LEMMA LowerBoundProperties ==
  ASSUME NEW s \in Seq(Ids), Increasing(s), NEW id \in Ids, ~IsNewest(s, id)
  PROVE  LET k == LowerBound(s, id)
         IN  /\ k \in 1..Len(s) /\ s[k] >= id
             /\ \A j \in 1..(k - 1) : s[j] < id
<1> DEFINE S == {k \in 1..Len(s) : s[k] >= id}
<1>1. Len(s) \in S
  <2>1. Len(s) \in 1..Len(s) /\ s[Len(s)] \in Nat /\ id \in Nat
    <3>1. Len(s) \in 1..Len(s)
      BY DEF IsNewest
    <3> QED
      BY <3>1, ElementsAreIds
  <2> QED
    BY <2>1 DEF IsNewest
<1>2. S \subseteq Nat /\ S # {}
  BY <1>1
<1>3. PICK k \in S : \A y \in S : k <= y
  BY <1>2, Lemmas!LeastNumber
<1>4. \A j \in 1..(k - 1) : s[j] < id
  <2> SUFFICES ASSUME NEW j \in 1..(k - 1)
               PROVE  s[j] < id
    OBVIOUS
  <2>1. j \in 1..Len(s) /\ s[j] \in Nat /\ id \in Nat /\ k \in Nat /\ j < k
    <3>1. j \in 1..Len(s) /\ k \in Nat /\ j < k
      OBVIOUS
    <3> QED
      BY <3>1, ElementsAreIds
  <2>2. j \notin S
    BY <1>3, <2>1
  <2> QED
    BY <2>1, <2>2
<1>5. k \in 1..Len(s) /\ s[k] >= id
  OBVIOUS
<1> QED
  BY <1>4, <1>5 DEF LowerBound

(* Inserting at the lower bound keeps the order.                            *)
LEMMA InsertedProperties ==
  ASSUME NEW s \in Seq(Ids), Increasing(s), NEW id \in Ids, ~IsNewest(s, id),
         s[LowerBound(s, id)] # id
  PROVE  LET k == LowerBound(s, id)
             t == Inserted(s, k, id)
         IN  /\ t \in Seq(Ids) /\ Len(t) = Len(s) + 1 /\ Increasing(t)
             /\ t[k] = id /\ k \in 1..Len(t)
             /\ \A i \in 1..Len(s) : \E j \in 1..Len(t) : t[j] = s[i]
             /\ \A j \in 1..Len(t) : t[j] = id \/ \E i \in 1..Len(s) : t[j] = s[i]
             /\ k > 1 => t[1] = s[1]
<1> DEFINE k == LowerBound(s, id)
           t == Inserted(s, k, id)
<1>1. k \in 1..Len(s) /\ s[k] >= id /\ \A j \in 1..(k - 1) : s[j] < id
  BY LowerBoundProperties
<1> HIDE DEF k
<1>2. id \in Nat /\ \A i \in 1..Len(s) : s[i] \in Nat /\ s[i] \in Ids
  BY ElementsAreIds
<1>3. s[k] > id
  BY <1>1, <1>2 DEF k
<1>4. \A i \in k..Len(s) : s[i] > id
  BY <1>1, <1>2, <1>3 DEF Increasing
<1>5. /\ t \in Seq(Ids) /\ Len(t) = Len(s) + 1
      /\ \A i \in 1..(Len(s) + 1) :
           t[i] = IF i < k THEN s[i] ELSE IF i = k THEN id ELSE s[i - 1]
  BY <1>1, <1>2 DEF Inserted
<1> HIDE DEF t
<1>6. Increasing(t)
  <2> SUFFICES ASSUME NEW i \in 1..(Len(s) + 1), NEW j \in 1..(Len(s) + 1), i < j
               PROVE  t[i] < t[j]
    BY <1>5 DEF Increasing
  <2>1. CASE j < k
    <3>1. t[i] = s[i] /\ t[j] = s[j] /\ i \in 1..Len(s) /\ j \in 1..Len(s)
      BY <1>1, <1>5, <2>1
    <3> QED
      BY <3>1 DEF Increasing
  <2>2. CASE j = k
    BY <1>1, <1>5, <2>2, SMTT(40)
  <2>3. CASE j > k /\ i < k
    <3>1. t[i] = s[i] /\ t[j] = s[j - 1] /\ i \in 1..Len(s) /\ j - 1 \in 1..Len(s) /\ i < j - 1
      BY <1>1, <1>5, <2>3
    <3> QED
      BY <3>1 DEF Increasing
  <2>4. CASE j > k /\ i = k
    <3>1. t[i] = id /\ t[j] = s[j - 1] /\ j - 1 \in k..Len(s)
      BY <1>1, <1>5, <2>4
    <3> QED
      BY <1>4, <1>1, <1>2, <3>1
  <2>5. CASE j > k /\ i > k
    <3>1. t[i] = s[i - 1] /\ t[j] = s[j - 1] /\ i - 1 \in 1..Len(s) /\ j - 1 \in 1..Len(s)
      BY <1>1, <1>5, <2>5
    <3> QED
      BY <3>1 DEF Increasing
  <2> QED
    BY <1>1, <2>1, <2>2, <2>3, <2>4, <2>5
<1>7. \A i \in 1..Len(s) : \E j \in 1..Len(t) : t[j] = s[i]
  <2> SUFFICES ASSUME NEW i \in 1..Len(s)
               PROVE  \E j \in 1..Len(t) : t[j] = s[i]
    OBVIOUS
  <2>1. CASE i < k
    <3>1. i \in 1..Len(t) /\ t[i] = s[i]
      BY <1>1, <1>5, <2>1
    <3> QED
      BY <3>1
  <2>2. CASE i >= k
    <3>1. i + 1 \in 1..Len(t) /\ t[i + 1] = s[i]
      BY <1>1, <1>5, <2>2
    <3> QED
      BY <3>1
  <2> QED
    BY <1>1, <2>1, <2>2
<1>8. \A j \in 1..Len(t) : t[j] = id \/ \E i \in 1..Len(s) : t[j] = s[i]
  <2> SUFFICES ASSUME NEW j \in 1..Len(t), t[j] # id
               PROVE  \E i \in 1..Len(s) : t[j] = s[i]
    OBVIOUS
  <2>1. CASE j < k
    BY <1>1, <1>5, <2>1
  <2>2. CASE j > k
    <3>1. j - 1 \in 1..Len(s) /\ t[j] = s[j - 1]
      BY <1>1, <1>5, <2>2
    <3> QED
      BY <3>1
  <2>3. j # k
    BY <1>1, <1>5
  <2> QED
    BY <1>1, <1>5, <2>1, <2>2, <2>3
<1>9. t[k] = id /\ k \in 1..Len(t) /\ (k > 1 => t[1] = s[1])
  BY <1>1, <1>5
<1> QED
  BY <1>5, <1>6, <1>7, <1>8, <1>9 DEF k, t

(* An array of at least MaxSize identifiers above id names as many newer    *)
(* ones.                                                                    *)
LEMMA EnoughNewer ==
  ASSUME NEW c \in Seq(Ids), Increasing(c), Len(c) >= MaxSize, NEW id \in Ids, id < c[1],
         NEW f \in [Ids -> Nat], \A i \in 1..Len(c) : f[c[i]] = 1
  PROVE  Cardinality({x \in Ids : f[x] >= 1 /\ x > id}) >= MaxSize
<1> DEFINE T == {x \in Ids : f[x] >= 1 /\ x > id}
           g == [i \in 1..MaxSize |-> c[i]]
<1>1. \A i \in 1..MaxSize : i \in 1..Len(c) /\ c[i] \in Ids /\ c[i] \in Nat /\ id \in Nat
  <2>1. \A i \in 1..MaxSize : i \in 1..Len(c)
    OBVIOUS
  <2> QED
    BY <2>1, ElementsAreIds
<1>2. \A i \in 1..MaxSize : c[i] >= c[1]
  BY <1>1 DEF Increasing
<1>3. \A i \in 1..MaxSize : c[i] \in T
  BY <1>1, <1>2
<1>4. \A i, j \in 1..MaxSize : c[i] = c[j] => i = j
  BY <1>1 DEF Increasing
<1>5. g \in Injection(1..MaxSize, T)
  BY <1>3, <1>4 DEF Injection, IsInjective
<1>6. IsFiniteSet(T)
  BY FS_Subset, CheckerAssumption
<1>7. Cardinality(1..MaxSize) <= Cardinality(T)
  BY <1>5, <1>6, FS_Injection
<1>8. Cardinality(1..MaxSize) = MaxSize
  BY FS_Interval
<1>9. Cardinality(T) \in Nat
  BY <1>6, FS_CardinalityType
<1> QED
  BY <1>7, <1>8, <1>9

LEMMA CheckerInitKeeps == CheckerInit => CheckerIInv
<1> SUFFICES ASSUME CheckerInit
             PROVE  CheckerIInv
  OBVIOUS
<1>1. saved = <<>> /\ times = [id \in Ids |-> 0] /\ result.code = -1
  BY DEF CheckerInit
<1>2. Len(saved) = 0 /\ saved \in Seq(Ids)
  BY <1>1
<1>3. ArraySorted
  BY <1>2 DEF ArraySorted
<1>4. times \in [Ids -> Nat] /\ \A id \in Ids : times[id] = 0
  BY <1>1
<1> QED
  BY <1>1, <1>2, <1>3, <1>4 DEF CheckerIInv, AcceptedOnce, RefusesOnlyOld

(* A call keeps the invariant: an identifier that is accepted was neither   *)
(* in the array nor below a long one, so it was never accepted before.      *)
LEMMA CheckKeeps ==
  ASSUME CheckerIInv, NEW id \in Ids, check(id)
  PROVE  CheckerIInv'
<1> DEFINE c    == Compacted(saved)
           code == Verdict(c, id)
<1>1. /\ saved \in Seq(Ids) /\ Len(saved) <= 2 * MaxSize /\ Increasing(saved)
      /\ times \in [Ids -> Nat] /\ \A x \in Ids : times[x] <= 1
      /\ \A i \in 1..Len(saved) : times[saved[i]] = 1
      /\ \A x \in Ids : times[x] = 1 => Known(x) \/ IsVeryOld(saved, x)
  BY DEF CheckerIInv, ArraySorted, AcceptedOnce, Increasing
<1>2. /\ c \in Seq(Ids) /\ Len(c) < 2 * MaxSize /\ Increasing(c)
      /\ \A i \in 1..Len(c) : \E j \in 1..Len(saved) : c[i] = saved[j]
      /\ \A j \in 1..Len(saved) :
           (\E i \in 1..Len(c) : c[i] = saved[j]) \/ IsVeryOld(c, saved[j])
      /\ \A x \in Ids : IsVeryOld(saved, x) => IsVeryOld(c, x)
  BY <1>1, CompactedProperties
<1>3. /\ result' = [code |-> code, id |-> id]
      /\ code # 0 => saved' = c
      /\ code = 0 /\ IsNewest(c, id) => saved' = Append(c, id)
      /\ code = 0 /\ ~IsNewest(c, id) => saved' = Inserted(c, LowerBound(c, id), id)
      /\ times' = [times EXCEPT ![id] = IF code = 0 THEN @ + 1 ELSE @]
  BY DEF check
<1>4. result'.code = code /\ result'.id = id
  BY <1>3
<1> HIDE DEF c, code
<1>5. \A i \in 1..Len(c) : times[c[i]] = 1 /\ c[i] \in Ids /\ c[i] \in Nat
  BY <1>1, <1>2, ElementsAreIds
<1>6. \A x \in Ids : times[x] = 1 => (\E i \in 1..Len(c) : c[i] = x) \/ IsVeryOld(c, x)
  <2> SUFFICES ASSUME NEW x \in Ids, times[x] = 1
               PROVE  (\E i \in 1..Len(c) : c[i] = x) \/ IsVeryOld(c, x)
    OBVIOUS
  <2>1. CASE IsVeryOld(saved, x)
    BY <1>2, <2>1
  <2>2. CASE Known(x)
    <3>1. PICK j \in 1..Len(saved) : saved[j] = x
      BY <2>2 DEF Known
    <3> QED
      BY <1>2, <3>1
  <2> QED
    BY <1>1, <2>1, <2>2
<1>7. id \in Nat
  OBVIOUS
<1>8. CASE code = 0
  <2>1. IsNewest(c, id) \/ (~IsVeryOld(c, id) /\ c[LowerBound(c, id)] # id)
    BY <1>8 DEF code, Verdict
  <2>2. times' = [times EXCEPT ![id] = times[id] + 1]
    BY <1>1, <1>3, <1>8
  <2>3. times[id] # 1 /\ \A i \in 1..Len(c) : c[i] # id
    <3>1. CASE IsNewest(c, id)
      <4>1. \A i \in 1..Len(c) : c[i] < id
        <5> SUFFICES ASSUME NEW i \in 1..Len(c)
                     PROVE  c[i] < id
          OBVIOUS
        <5>1. Len(c) \in 1..Len(c) /\ c[Len(c)] < id /\ c[Len(c)] \in Nat
          <6>1. Len(c) \in 1..Len(c) /\ c # <<>>
            BY <1>2
          <6> QED
            BY <3>1, <1>5, <1>7, <6>1 DEF IsNewest
        <5>2. i = Len(c) \/ c[i] < c[Len(c)]
          BY <1>2, <5>1 DEF Increasing
        <5> QED
          BY <5>1, <5>2, <1>5, <1>7
      <4>2. ~IsVeryOld(c, id)
        <5>1. CASE Len(c) >= MaxSize
          <6>1. 1 \in 1..Len(c)
            BY <1>2, <5>1
          <6>2. c[1] < id /\ c[1] \in Nat
            BY <6>1, <4>1, <1>5
          <6> QED
            BY <6>2, <1>7 DEF IsVeryOld
        <5> QED
          BY <5>1 DEF IsVeryOld
      <4> QED
        BY <1>6, <1>5, <1>7, <4>1, <4>2
    <3>2. CASE ~IsNewest(c, id)
      <4> DEFINE k == LowerBound(c, id)
      <4>1. k \in 1..Len(c) /\ c[k] >= id /\ \A j \in 1..(k - 1) : c[j] < id
        BY <1>2, <3>2, LowerBoundProperties
      <4>2. c[k] # id
        BY <2>1, <3>2
      <4> HIDE DEF k
      <4>3. \A i \in 1..Len(c) : c[i] # id
        <5> SUFFICES ASSUME NEW i \in 1..Len(c)
                     PROVE  c[i] # id
          OBVIOUS
        <5>1. CASE i < k
          BY <4>1, <5>1, <1>5, <1>7
        <5>2. CASE i = k
          BY <4>2, <5>2
        <5>3. CASE i > k
          <6>1. c[k] < c[i]
            BY <1>2, <4>1, <5>3 DEF Increasing
          <6> QED
            BY <4>1, <6>1, <1>5, <1>7
        <5> QED
          BY <4>1, <5>1, <5>2, <5>3
      <4> QED
        BY <1>6, <2>1, <3>2, <4>3
    <3> QED
      BY <3>1, <3>2
  <2>4. times[id] = 0
    BY <1>1, <2>3
  <2>5. /\ times' \in [Ids -> Nat] /\ times'[id] = 1
        /\ \A x \in Ids : x # id => times'[x] = times[x]
    BY <1>1, <2>2, <2>4
  <2>6. /\ saved' \in Seq(Ids) /\ Len(saved') = Len(c) + 1 /\ Increasing(saved')
        /\ \E j \in 1..Len(saved') : saved'[j] = id
        /\ \A i \in 1..Len(c) : \E j \in 1..Len(saved') : saved'[j] = c[i]
        /\ \A j \in 1..Len(saved') : saved'[j] = id \/ \E i \in 1..Len(c) : saved'[j] = c[i]
        /\ \A x \in Ids : IsVeryOld(c, x) => IsVeryOld(saved', x)
    <3>1. CASE IsNewest(c, id)
      <4>1. saved' = Append(c, id)
        BY <1>3, <1>8, <3>1
      <4>2. /\ saved' \in Seq(Ids) /\ Len(saved') = Len(c) + 1 /\ saved'[Len(c) + 1] = id
            /\ \A i \in 1..Len(c) : saved'[i] = c[i]
        BY <1>2, <4>1
      <4>3. \A i \in 1..Len(c) : c[i] < id
        <5> SUFFICES ASSUME NEW i \in 1..Len(c)
                     PROVE  c[i] < id
          OBVIOUS
        <5>1. Len(c) \in 1..Len(c) /\ c # <<>>
          BY <1>2
        <5>2. c[Len(c)] < id /\ c[Len(c)] \in Nat
          BY <3>1, <1>5, <1>7, <5>1 DEF IsNewest
        <5>3. i = Len(c) \/ c[i] < c[Len(c)]
          BY <1>2, <5>1 DEF Increasing
        <5> QED
          BY <5>2, <5>3, <1>5, <1>7
      <4>4. Increasing(saved')
        <5> SUFFICES ASSUME NEW i \in 1..(Len(c) + 1), NEW j \in 1..(Len(c) + 1), i < j
                     PROVE  saved'[i] < saved'[j]
          BY <4>2 DEF Increasing
        <5>1. Len(c) \in Nat
          BY <1>2
        <5>2. i \in 1..Len(c) /\ (j \in 1..Len(c) \/ j = Len(c) + 1)
          BY <5>1
        <5> QED
          BY <1>2, <4>2, <4>3, <5>2 DEF Increasing
      <4>5. \A x \in Ids : IsVeryOld(c, x) => IsVeryOld(saved', x)
        BY <1>2, <4>2, SMTT(40) DEF IsVeryOld
      <4>6. Len(c) + 1 \in 1..Len(saved') /\ \A i \in 1..Len(c) : i \in 1..Len(saved')
        BY <1>2, <4>2
      <4>7. \A j \in 1..Len(saved') : j = Len(c) + 1 \/ j \in 1..Len(c)
        BY <1>2, <4>2
      <4> QED
        BY <4>2, <4>4, <4>5, <4>6, <4>7
    <3>2. CASE ~IsNewest(c, id)
      <4> DEFINE k == LowerBound(c, id)
                 t == Inserted(c, k, id)
      <4>1. c[k] # id /\ ~IsVeryOld(c, id) /\ saved' = t
        BY <1>3, <1>8, <2>1, <3>2
      <4>2. /\ t \in Seq(Ids) /\ Len(t) = Len(c) + 1 /\ Increasing(t)
            /\ t[k] = id /\ k \in 1..Len(t)
            /\ \A i \in 1..Len(c) : \E j \in 1..Len(t) : t[j] = c[i]
            /\ \A j \in 1..Len(t) : t[j] = id \/ \E i \in 1..Len(c) : t[j] = c[i]
            /\ k > 1 => t[1] = c[1]
        BY <1>2, <3>2, <4>1, InsertedProperties
      <4>3. k \in 1..Len(c) /\ c[k] >= id
        BY <1>2, <3>2, LowerBoundProperties
      <4> HIDE DEF k, t
      <4>4. ASSUME NEW x \in Ids, IsVeryOld(c, x)
            PROVE  IsVeryOld(t, x)
        <5>1. Len(c) >= MaxSize /\ x < c[1] /\ Len(t) >= MaxSize /\ x \in Nat
          BY <1>2, <4>2, <4>4 DEF IsVeryOld
        <5>2. CASE k > 1
          BY <4>2, <5>1, <5>2 DEF IsVeryOld
        <5>3. CASE k = 1
          <6>1. c[1] >= id /\ c[1] # id /\ t[1] = id
            BY <4>1, <4>2, <4>3, <5>3
          <6>2. 1 \in 1..Len(c)
            BY <4>3, <5>3
          <6>3. id < c[1]
            BY <6>1, <6>2, <1>5, <1>7
          <6> QED
            BY <6>3, <4>1, <5>1 DEF IsVeryOld
        <5> QED
          BY <4>3, <5>2, <5>3
      <4> QED
        BY <4>1, <4>2, <4>4
    <3> QED
      BY <3>1, <3>2
  <2>7. ArraySorted'
    BY <1>2, <2>6 DEF ArraySorted, Increasing
  <2>8. AcceptedOnce'
    BY <1>1, <2>5 DEF AcceptedOnce
  <2>9. \A i \in 1..Len(saved') : times'[saved'[i]] = 1
    <3> SUFFICES ASSUME NEW i \in 1..Len(saved')
                 PROVE  times'[saved'[i]] = 1
      OBVIOUS
    <3>1. CASE saved'[i] = id
      BY <2>5, <3>1
    <3>2. CASE saved'[i] # id
      <4>1. PICK j \in 1..Len(c) : saved'[i] = c[j]
        BY <2>6, <3>2
      <4>2. c[j] \in Ids /\ c[j] # id /\ times[c[j]] = 1
        BY <1>5, <3>2, <4>1
      <4> QED
        BY <2>5, <4>1, <4>2
    <3> QED
      BY <3>1, <3>2
  <2>10. \A x \in Ids : times'[x] = 1 =>
             (\E i \in 1..Len(saved') : saved'[i] = x) \/ IsVeryOld(saved', x)
    <3> SUFFICES ASSUME NEW x \in Ids, times'[x] = 1
                 PROVE  (\E i \in 1..Len(saved') : saved'[i] = x) \/ IsVeryOld(saved', x)
      OBVIOUS
    <3>1. CASE x = id
      BY <2>6, <3>1
    <3>2. CASE x # id
      <4>1. (\E i \in 1..Len(c) : c[i] = x) \/ IsVeryOld(c, x)
        BY <1>6, <2>5, <3>2
      <4> QED
        BY <2>6, <4>1
    <3> QED
      BY <3>1, <3>2
  <2>11. RefusesOnlyOld'
    BY <1>4, <1>8 DEF RefusesOnlyOld
  <2> QED
    BY <2>5, <2>7, <2>8, <2>9, <2>10, <2>11 DEF CheckerIInv, Known
<1>9. CASE code # 0
  <2>1. saved' = c /\ times' = times
    BY <1>1, <1>3, <1>9
  <2>2. ArraySorted'
    BY <1>2, <2>1 DEF ArraySorted, Increasing
  <2>3. AcceptedOnce'
    BY <1>1, <2>1 DEF AcceptedOnce
  <2>4. RefusesOnlyOld'
    <3>1. CASE IsVeryOld(c, id)
      <4>1. Len(c) >= MaxSize /\ id < c[1]
        BY <3>1 DEF IsVeryOld
      <4>2. Cardinality({x \in Ids : times[x] >= 1 /\ x > id}) >= MaxSize
        BY <1>1, <1>2, <1>5, <4>1, EnoughNewer
      <4> QED
        BY <1>4, <2>1, <4>2 DEF RefusesOnlyOld
    <3>2. CASE ~IsVeryOld(c, id)
      <4>1. ~IsNewest(c, id) /\ c[LowerBound(c, id)] = id
        BY <1>9, <3>2 DEF code, Verdict
      <4>2. LowerBound(c, id) \in 1..Len(c)
        BY <1>2, <4>1, LowerBoundProperties
      <4>3. times[id] = 1
        BY <1>5, <4>1, <4>2
      <4> QED
        BY <1>4, <2>1, <4>3 DEF RefusesOnlyOld
    <3> QED
      BY <3>1, <3>2
  <2> QED
    BY <1>1, <1>5, <1>6, <2>1, <2>2, <2>3, <2>4 DEF CheckerIInv, Known
<1> QED
  BY <1>8, <1>9

(* The array and the history keep the inductive invariant in every run of   *)
(* check_message_id_duplicates.                                             *)
THEOREM CheckerInvariance == CheckerSpec => []CheckerIInv
<1>1. CheckerIInv /\ [CheckerNext]_checker_vars => CheckerIInv'
  <2> SUFFICES ASSUME CheckerIInv, [CheckerNext]_checker_vars
               PROVE  CheckerIInv'
    OBVIOUS
  <2>1. CASE CheckerNext
    BY <2>1, CheckKeeps DEF CheckerNext
  <2>2. CASE UNCHANGED checker_vars
    BY <2>2 DEF checker_vars, CheckerIInv, ArraySorted, AcceptedOnce, RefusesOnlyOld, Known, IsVeryOld
  <2> QED
    BY <2>1, <2>2
<1> QED
  BY <1>1, CheckerInitKeeps, PTL DEF CheckerSpec

(* lower_bound and copy_backward work on a sorted array and stay inside it. *)
THEOREM ArrayInOrder == CheckerSpec => []ArraySorted
<1>1. CheckerIInv => ArraySorted
  BY DEF CheckerIInv
<1> QED
  BY <1>1, CheckerInvariance, PTL

(* No message of the server is accepted twice, in whatever order messages   *)
(* arrive and for every max_size.                                           *)
THEOREM NoDuplicates == CheckerSpec => []AcceptedOnce
<1>1. CheckerIInv => AcceptedOnce
  BY DEF CheckerIInv
<1> QED
  BY <1>1, CheckerInvariance, PTL

(* A message that was never accepted is refused only if max_size accepted   *)
(* ones are newer.                                                          *)
THEOREM RefusedAreOld == CheckerSpec => []RefusesOnlyOld
<1>1. CheckerIInv => RefusesOnlyOld
  BY DEF CheckerIInv
<1> QED
  BY <1>1, CheckerInvariance, PTL
=============================================================================
