-------------------- MODULE MultiSequenceDispatcherProofs --------------------
(***************************************************************************)
(* Proofs about ChainScheduler and MultiSequenceDispatcher, for every set  *)
(* of chains, limit of active tasks and number of queries and faults.      *)
(***************************************************************************)
EXTENDS MultiSequenceDispatcher, FiniteSetTheorems, SequenceTheorems, TLAPS

(* The lemmas on loops and orders; CompactMin does not matter for them.     *)
Lemmas == INSTANCE BinlogLemmas WITH CompactMin <- 1

-----------------------------------------------------------------------------
(* The inductive invariant.                                                 *)

(* The types of the fields.                                                 *)
Generations == UNION {[C -> Nat] : C \in SUBSET ChainIds}

Task == [state : {"Pending", "Active", "Paused", "Erased"}, chains : Seq(ChainIds), generation : Generations]

ChainInfo == [chain : Seq(Nat), active_tasks : Int, generation : Nat]

Query == [place : {"node", "session", "sent", "delayer", "mailbox", "callback", "done"},
          state : {"Query", "OK", "Error", "ResendInvokeAfter"}, chains : Seq(ChainIds),
          callback : Callbacks, tl_constructor : Constructors, node_timeout : Nat,
          total_timeout_ : Nat, last_timeout_ : Nat, message_id : Nat, invoke_after : SUBSET Nat]

State == [tasks_ : Seq(Task), chains_ : [ChainIds -> ChainInfo], limited_tasks_ : [ChainIds -> Nat],
          pending_tasks_ : Seq(Nat), failed : BOOLEAN, query : Seq(Query)]

(* A chain as sets: its tasks, those that are active, their generations.    *)
Members(s, c) == ToSet(s.chains_[c].chain)

Working(s, c) == {t \in Members(s, c) : s.tasks_[t].state = "Active"}

Gens(s, c) == [t \in Members(s, c) |-> s.tasks_[t].generation[c]]

(* The member before t, if there is one, and the one behind it.             *)
Pred(S, t) == {p \in S : p < t /\ \A q \in S : q < t => q <= p}

Succ(S, t) == {u \in S : t < u /\ \A q \in S : t < q => u <= q}

(* The tasks S of a chain, A of them active, with generations g, and the    *)
(* generation and the counter of the chain: a task that is not active has   *)
(* an older generation, and so have all behind it.                          *)
ChainGood(S, A, g, generation, active) ==
  /\ S \subseteq Nat /\ IsFiniteSet(S) /\ A \subseteq S /\ g \in [S -> Nat]
  /\ generation \in Nat \ {0} /\ active = Cardinality(A) /\ active <= MaxActive
  /\ \A t \in S : g[t] <= generation /\ (t \notin A => g[t] < generation)
  /\ \A p, t \in S : p < t => g[t] <= g[p]

ChainGoodIn(s, c) ==
  ChainGood(Members(s, c), Working(s, c), Gens(s, c), s.chains_[c].generation, s.chains_[c].active_tasks)

TaskGood(s, t) ==
  /\ s.tasks_[t].state \in {"Pending", "Active", "Paused"}
  /\ Chains(s, t) # <<>> /\ IsInjective(Chains(s, t))
  /\ DOMAIN s.tasks_[t].generation = InChain(s, t)

Increasing(l) == \A i, j \in DOMAIN l : i < j => l[i] < l[j]

ListGood(s, c) ==
  /\ Increasing(s.chains_[c].chain)
  /\ Members(s, c) = {t \in Alive(s) : c \in InChain(s, t)}

PendingGood(s) ==
  /\ IsInjective(s.pending_tasks_)
  /\ \A t \in ToSet(s.pending_tasks_) : t \in Alive(s) /\ s.tasks_[t].state = "Active"

SchedulerGood(s) ==
  /\ s \in State
  /\ \A t \in Alive(s) : TaskGood(s, t)
  /\ \A c \in ChainIds : ListGood(s, c)
  /\ \A c \in ChainIds : ChainGoodIn(s, c)
  /\ \A c \in ChainIds : s.limited_tasks_[c] = 0 \/ s.limited_tasks_[c] \in Members(s, c)
  /\ PendingGood(s)
  /\ ~s.failed

(* Why a task that waits is not started.                                    *)
Held(s, t, c) ==
  \/ Verdict(s, t, c) = "wait"
  \/ Verdict(s, t, c) = "limited" /\ s.limited_tasks_[c] = t

Waiting(s) == {t \in Alive(s) : s.tasks_[t].state = "Pending"}

Reasons(s, todo) == \A t \in Waiting(s) \ ToSet(todo) : \E c \in InChain(s, t) : Held(s, t, c)

(* The query of a task is with its node while the task waits.               *)
Placed(s, X) ==
  /\ DOMAIN s.query = DOMAIN s.tasks_
  /\ \A t \in DOMAIN s.tasks_ : t \in Alive(s) <=> s.query[t].place # "done"
  /\ \A t \in Alive(s) : s.query[t].chains = Chains(s, t)
  /\ \A t \in Alive(s) \ X :
       s.query[t].place = "node" <=> t \in Waiting(s) \/ t \in ToSet(s.pending_tasks_)
  /\ \A t \in X : t \notin ToSet(s.pending_tasks_)

(* p is in chain c before t.                                                *)
Earlier(query, p, t, c) ==
  p \in DOMAIN query /\ p < t /\ c \in ToSet(query[p].chains) /\ c \in ToSet(query[t].chains)

(* What a query that has left the dispatcher waits for: each one before it  *)
(* in a chain is done, or is waited for directly or through one between.    *)
InFlight == {"session", "sent", "delayer"}

Follows(query, t) ==
  /\ query[t].invoke_after \subseteq DOMAIN query
  /\ \A c \in ChainIds, p \in DOMAIN query :
       Earlier(query, p, t, c) =>
         query[p].place = "done" \/ \E u \in query[t].invoke_after : p <= u /\ Earlier(query, u, t, c)

Ordered(query) == \A t \in DOMAIN query : query[t].place \in InFlight => Follows(query, t)

Half(s, X) == SchedulerGood(s) /\ Reasons(s, <<>>) /\ Placed(s, X) /\ Ordered(s.query)

(* The dispatcher between two handlers.                                     *)
Good(s) == Half(s, {}) /\ s.pending_tasks_ = <<>>

(* The messages and the queries agree.                                      *)
Message == [task : Nat, after : SUBSET Nat, verdict : {"none", "OK", "Error", "Flood", "ResendInvokeAfter", "Lost"}]

MessagesTyped ==
  /\ messages \in Seq(Message)
  /\ \A m \in DOMAIN messages : messages[m].task \in DOMAIN d.query /\ messages[m].after \subseteq DOMAIN messages

SentAgrees ==
  \A t \in DOMAIN d.query :
    IF d.query[t].place = "sent"
      THEN d.query[t].message_id \in DOMAIN messages /\ messages[d.query[t].message_id].task = t
      ELSE d.query[t].message_id = 0

(* A query that is over, or was executed at least once.                     *)
Settled(p) ==
  d.query[p].place = "done" \/ \E m \in DOMAIN messages : messages[m].task = p /\ messages[m].verdict = "OK"

(* What the server waits for, and what it has done.                         *)
MessageFollows(m) ==
  \A c \in ChainIds, p \in DOMAIN d.query :
    Earlier(d.query, p, messages[m].task, c) =>
      \/ d.query[p].place = "done"
      \/ \E a \in messages[m].after :
           p <= messages[a].task /\ Earlier(d.query, messages[a].task, messages[m].task, c)

ServerOrder ==
  \A m \in DOMAIN messages :
    /\ messages[m].verdict = "none" => MessageFollows(m)
    /\ messages[m].verdict = "OK" =>
         \A c \in ChainIds, p \in DOMAIN d.query : Earlier(d.query, p, messages[m].task, c) => Settled(p)

ExecutedAgrees ==
  /\ executed \in Seq(Nat)
  /\ \A m \in DOMAIN messages : messages[m].verdict = "OK" => \E i \in DOMAIN executed : executed[i] = messages[m].task

MessagesGood == MessagesTyped /\ SentAgrees /\ ServerOrder /\ ExecutedAgrees

DispatcherInvariant == Good(d) /\ MessagesGood

-----------------------------------------------------------------------------
(* Loops: each one is a function that is defined by its own values.         *)

(* Induction over the steps of a loop.                                      *)
LEMMA StepInduction ==
  ASSUME NEW n \in Nat, NEW S, 0 \in S, \A i \in 1..n : i - 1 \in S => i \in S
  PROVE  \A i \in 0..n : i \in S
<1> DEFINE Bad == {i \in 0..n : i \notin S}
<1>1. SUFFICES ASSUME Bad # {} PROVE FALSE
  OBVIOUS
<1>2. Bad \subseteq Nat
  OBVIOUS
<1>3. PICK k \in Bad : \A y \in Bad : k <= y
  BY <1>1, <1>2, Lemmas!LeastNumber
<1>4. k # 0 /\ k \in 1..n
  BY <1>3
<1>5. k - 1 \in 0..n /\ k - 1 \notin Bad
  BY <1>3, <1>4
<1> QED
  BY <1>3, <1>4, <1>5

(* The bodies of the loops: what step i makes of x.                         *)
Step(loop_, a, i, x) ==
  CASE loop_ = "try"     -> IF x.todo = <<>> THEN x ELSE TryFirst(x)
    [] loop_ = "flush"   -> FlushOne(x)
    [] loop_ = "flatten" -> IF i = 1 THEN a[i] ELSE x \o a[i]
    [] loop_ = "visit"   -> IF a[i] \in ToSet(x) THEN x ELSE Append(x, a[i])
    [] loop_ = "add"     ->
         IF for_each_dependent(a.s, a.t)[i] \in Delayed(a.s, a.t)
           THEN [x EXCEPT !.query[for_each_dependent(a.s, a.t)[i]].node_timeout = @ + a.s.query[a.t].last_timeout_]
           ELSE x
    [] loop_ = "check"   ->
         IF for_each_dependent(a.s, a.t)[i] \in Delayed(a.s, a.t)
           THEN CheckDependent(x, for_each_dependent(a.s, a.t)[i])
           ELSE x

(* h: the values of n steps that begin with z.                              *)
Run(h, loop_, a, z, n) == h = [i \in 0..n |-> IF i = 0 THEN z ELSE Step(loop_, a, i, h[i - 1])]

LEMMA StepsExist ==
  ASSUME NEW loop_, NEW a, NEW z, NEW n \in Nat
  PROVE  \E h : Run(h, loop_, a, z, n)
<1> USE DEF Run
<1> DEFINE Is(h, k) == Run(h, loop_, a, z, k)
           Bad == {k \in Nat : ~ \E h : Is(h, k)}
<1>1. SUFFICES ASSUME Bad # {} PROVE FALSE
  OBVIOUS
<1>0. Bad \subseteq Nat
  OBVIOUS
<1>2. PICK k \in Bad : \A y \in Bad : k <= y
  <2> HIDE DEF Bad
  <2> QED
    BY <1>0, <1>1, Lemmas!LeastNumber
<1>3. CASE k = 0
  <2> DEFINE g == [i \in 0..0 |-> z]
  <2>1. g = [i \in 0..0 |-> IF i = 0 THEN z ELSE Step(loop_, a, i, g[i - 1])]
    OBVIOUS
  <2> QED
    BY <1>2, <1>3, <2>1
<1>4. CASE k # 0
  <2>1. k - 1 \in Nat /\ k - 1 \notin Bad
    <3> HIDE DEF Bad
    <3>1. k \in Nat /\ k - 1 \in Nat /\ ~(k <= k - 1)
      BY <1>0, <1>2, <1>4
    <3> QED
      BY <3>1, <1>2
  <2>2. PICK g : Is(g, k - 1)
    BY <2>1
  <2> DEFINE h == [i \in 0..k |-> IF i = k THEN Step(loop_, a, k, g[k - 1]) ELSE g[i]]
  <2>3. ASSUME NEW i \in 0..k
        PROVE  h[i] = IF i = 0 THEN z ELSE Step(loop_, a, i, h[i - 1])
    <3>1. CASE i = k
      BY <3>1, <1>4
    <3>2. CASE i # k /\ i # 0
      <4>1. i \in 0..(k - 1) /\ i - 1 \in 0..k /\ i - 1 # k
        BY <3>2
      <4> QED
        BY <4>1, <2>2, <3>2
    <3>3. CASE i # k /\ i = 0
      <4>1. i \in 0..(k - 1)
        BY <3>3
      <4> QED
        BY <4>1, <2>2, <3>3
    <3> QED
      BY <3>1, <3>2, <3>3
  <2>4. Is(h, k)
    BY <2>3
  <2> QED
    BY <1>2, <2>4
<1> QED
  BY <1>3, <1>4

(* What a loop computes, step by step.                                      *)
LEMMA RunValues ==
  ASSUME NEW h, NEW loop_, NEW a, NEW z, NEW n \in Nat, Run(h, loop_, a, z, n)
  PROVE  h[0] = z /\ \A i \in 1..n : h[i] = Step(loop_, a, i, h[i - 1])
BY DEF Run

(* The number of attempts of try_start_tasks.                               *)
MaxTries(s, todo) == Len(todo) + Len(s.tasks_) * Cardinality(ChainIds)

(* try_start_tasks.                                                         *)
LEMMA TryRun ==
  ASSUME NEW s, NEW todo, MaxTries(s, todo) \in Nat
  PROVE  \E h : Run(h, "try", 0, [s |-> s, todo |-> todo], MaxTries(s, todo)) /\ try_start_tasks(s, todo) = h[MaxTries(s, todo)].s
<1> DEFINE n == MaxTries(s, todo)
           z == [s |-> s, todo |-> todo]
           Is(h) == h = [i \in 0..n |->
             IF i = 0 THEN z ELSE IF h[i - 1].todo = <<>> THEN h[i - 1] ELSE TryFirst(h[i - 1])]
<1>1. PICK g : Run(g, "try", 0, z, n)
  BY StepsExist
<1>2. \A h : Is(h) <=> Run(h, "try", 0, z, n)
  BY DEF Run, Step
<1>3. PICK h : h = (CHOOSE f : Is(f))
  OBVIOUS
<1>4. Run(h, "try", 0, z, n)
  BY <1>1, <1>2, <1>3
<1>5. try_start_tasks(s, todo) = (CHOOSE f : Is(f))[MaxTries(s, todo)].s
  BY DEF try_start_tasks, MaxTries
<1> HIDE DEF Is
<1> QED
  BY <1>3, <1>4, <1>5

(* loop.                                                                    *)
LEMMA FlushRun ==
  ASSUME NEW s, Len(s.pending_tasks_) \in Nat
  PROVE  \E h : Run(h, "flush", 0, s, Len(s.pending_tasks_)) /\ loop(s) = h[Len(s.pending_tasks_)]
<1> DEFINE n == Len(s.pending_tasks_)
           z == s
           Is(h) == h = [i \in 0..n |-> IF i = 0 THEN z ELSE FlushOne(h[i - 1])]
<1>1. PICK g : Run(g, "flush", 0, z, n)
  BY StepsExist
<1>2. \A h : Is(h) <=> Run(h, "flush", 0, z, n)
  BY DEF Run, Step
<1>3. PICK h : h = (CHOOSE f : Is(f))
  OBVIOUS
<1>4. Run(h, "flush", 0, z, n)
  BY <1>1, <1>2, <1>3
<1>5. loop(s) = (CHOOSE f : Is(f))[Len(s.pending_tasks_)]
  BY DEF loop
<1> HIDE DEF Is
<1> QED
  BY <1>3, <1>4, <1>5

(* The tasks that for_each_dependent goes through, with repetitions.        *)
Behind(s, c, t) == SubSeq(s.chains_[c].chain, Position(s, c, t), Len(s.chains_[c].chain))

AllBehind(s, t) == FlattenSeq([k \in DOMAIN Chains(s, t) |-> Behind(s, Chains(s, t)[k], t)])

(* for_each_dependent.                                                      *)
LEMMA VisitRun ==
  ASSUME NEW s, NEW t, Len(AllBehind(s, t)) \in Nat
  PROVE  \E h : /\ Run(h, "visit", AllBehind(s, t), <<>>, Len(AllBehind(s, t)))
               /\ for_each_dependent(s, t) = h[Len(AllBehind(s, t))]
<1> DEFINE n == Len(AllBehind(s, t))
           z == <<>>
           Is(h) == h = [i \in 0..n |->
             IF i = 0 THEN <<>>
             ELSE IF AllBehind(s, t)[i] \in ToSet(h[i - 1]) THEN h[i - 1] ELSE Append(h[i - 1], AllBehind(s, t)[i])]
<1>1. PICK g : Run(g, "visit", AllBehind(s, t), z, n)
  BY StepsExist
<1>2. \A h : Is(h) <=> Run(h, "visit", AllBehind(s, t), z, n)
  BY DEF Run, Step
<1>3. PICK h : h = (CHOOSE f : Is(f))
  OBVIOUS
<1>4. Run(h, "visit", AllBehind(s, t), z, n)
  BY <1>1, <1>2, <1>3
<1>5. for_each_dependent(s, t) = (CHOOSE f : Is(f))[Len(AllBehind(s, t))]
  BY DEF for_each_dependent, AllBehind, Behind
<1> HIDE DEF Is
<1> QED
  BY <1>3, <1>4, <1>5

(* The two loops of on_result over the dependent tasks.                     *)
LEMMA AddRun ==
  ASSUME NEW s, NEW t, Len(for_each_dependent(s, t)) \in Nat
  PROVE  \E h : /\ Run(h, "add", [s |-> s, t |-> t], [s EXCEPT !.query[t].last_timeout_ = 0], Len(for_each_dependent(s, t)))
               /\ AddTimeouts(s, t) = h[Len(for_each_dependent(s, t))]
<1> DEFINE n == Len(for_each_dependent(s, t))
           z == [s EXCEPT !.query[t].last_timeout_ = 0]
           Is(h) == h = [i \in 0..n |->
             IF i = 0 THEN z
             ELSE IF for_each_dependent(s, t)[i] \in Delayed(s, t)
               THEN [h[i - 1] EXCEPT !.query[for_each_dependent(s, t)[i]].node_timeout = @ + s.query[t].last_timeout_]
             ELSE h[i - 1]]
<1>1. PICK g : Run(g, "add", [s |-> s, t |-> t], z, n)
  BY StepsExist
<1>2. \A h : Is(h) <=> Run(h, "add", [s |-> s, t |-> t], z, n)
  BY DEF Run, Step
<1>3. PICK h : h = (CHOOSE f : Is(f))
  OBVIOUS
<1>4. Run(h, "add", [s |-> s, t |-> t], z, n)
  BY <1>1, <1>2, <1>3
<1>5. AddTimeouts(s, t) = (CHOOSE f : Is(f))[Len(for_each_dependent(s, t))]
  BY DEF AddTimeouts
<1> HIDE DEF Is
<1> QED
  BY <1>3, <1>4, <1>5

LEMMA CheckRun ==
  ASSUME NEW s, NEW t, Len(for_each_dependent(s, t)) \in Nat, s.query[t].last_timeout_ # 0
  PROVE  \E h : /\ Run(h, "check", [s |-> s, t |-> t], AddTimeouts(s, t), Len(for_each_dependent(s, t)))
               /\ CheckDependents(s, t) = h[Len(for_each_dependent(s, t))]
<1> DEFINE n == Len(for_each_dependent(s, t))
           z == AddTimeouts(s, t)
           Is(h) == h = [i \in 0..n |->
             IF i = 0 THEN z
             ELSE IF for_each_dependent(s, t)[i] \in Delayed(s, t) THEN CheckDependent(h[i - 1], for_each_dependent(s, t)[i])
             ELSE h[i - 1]]
<1>1. PICK g : Run(g, "check", [s |-> s, t |-> t], z, n)
  BY StepsExist
<1>2. \A h : Is(h) <=> Run(h, "check", [s |-> s, t |-> t], z, n)
  BY DEF Run, Step
<1>3. PICK h : h = (CHOOSE f : Is(f))
  OBVIOUS
<1>4. Run(h, "check", [s |-> s, t |-> t], z, n)
  BY <1>1, <1>2, <1>3
<1>5. CheckDependents(s, t) = (CHOOSE f : Is(f))[Len(for_each_dependent(s, t))]
  BY DEF CheckDependents
<1> HIDE DEF Is
<1> QED
  BY <1>3, <1>4, <1>5

(* FlattenSeq, which begins with the first sequence.                        *)
LEMMA FlattenRun ==
  ASSUME NEW seqs, Len(seqs) \in Nat \ {0}
  PROVE  \E h : Run(h, "flatten", seqs, <<>>, Len(seqs)) /\ FlattenSeq(seqs) = h[Len(seqs)]
<1> DEFINE n == Len(seqs)
           Is(h) == h = [i \in 1..n |-> IF i = 1 THEN seqs[i] ELSE h[i - 1] \o seqs[i]]
<1>1. PICK g : Run(g, "flatten", seqs, <<>>, n)
  BY StepsExist
<1>2. Is([i \in 1..n |-> g[i]])
  <2> DEFINE f == [i \in 1..n |-> g[i]]
  <2>1. ASSUME NEW i \in 1..n
        PROVE  f[i] = IF i = 1 THEN seqs[i] ELSE f[i - 1] \o seqs[i]
    <3>0. g[i] = Step("flatten", seqs, i, g[i - 1])
      BY <1>1, RunValues
    <3>1. g[i] = IF i = 1 THEN seqs[i] ELSE g[i - 1] \o seqs[i]
      BY <3>0 DEF Step
    <3>2. i # 1 => i - 1 \in 1..n
      OBVIOUS
    <3> QED
      BY <3>1, <3>2
  <2> QED
    BY <2>1
<1>3. PICK f : f = (CHOOSE h : Is(h))
  OBVIOUS
<1>4. Is(f)
  BY <1>2, <1>3
<1> DEFINE h == [i \in 0..n |-> IF i = 0 THEN <<>> ELSE f[i]]
<1>5. Run(h, "flatten", seqs, <<>>, n)
  <2>1. ASSUME NEW i \in 0..n
        PROVE  h[i] = IF i = 0 THEN <<>> ELSE Step("flatten", seqs, i, h[i - 1])
    <3>1. CASE i = 0
      BY <3>1
    <3>2. CASE i = 1
      BY <3>2, <1>4 DEF Step
    <3>3. CASE i \in 2..n
      <4>1. i - 1 \in 0..n /\ i - 1 # 0 /\ i # 1 /\ i # 0 /\ i \in 1..n
        BY <3>3
      <4>2. f[i] = f[i - 1] \o seqs[i]
        BY <4>1, <1>4
      <4> QED
        BY <4>1, <4>2 DEF Step
    <3> QED
      BY <3>1, <3>2, <3>3
  <2> QED
    BY <2>1 DEF Run
<1>6. FlattenSeq(seqs) = f[n] /\ h[n] = f[n]
  BY <1>3 DEF FlattenSeq
<1> HIDE DEF Is, h
<1> QED
  BY <1>5, <1>6

-----------------------------------------------------------------------------
(* Sequences and the sets of their elements.                                *)

LEMMA ToSetConcat ==
  ASSUME NEW S, NEW a \in Seq(S), NEW b \in Seq(S)
  PROVE  ToSet(a \o b) = ToSet(a) \cup ToSet(b) /\ ToSet(a) \subseteq S
<1>1. /\ Len(a) \in Nat /\ Len(b) \in Nat /\ DOMAIN a = 1..Len(a) /\ DOMAIN b = 1..Len(b)
      /\ DOMAIN (a \o b) = 1..(Len(a) + Len(b))
  OBVIOUS
<1>2. \A i \in 1..(Len(a) + Len(b)) : (a \o b)[i] = IF i <= Len(a) THEN a[i] ELSE b[i - Len(a)]
  OBVIOUS
<1>3. ASSUME NEW x \in ToSet(a \o b) PROVE x \in ToSet(a) \cup ToSet(b)
  <2>1. PICK i \in 1..(Len(a) + Len(b)) : x = (a \o b)[i]
    BY <1>1, <1>3 DEF ToSet
  <2>2. CASE i <= Len(a)
    BY <2>1, <2>2, <1>1, <1>2 DEF ToSet
  <2>3. CASE ~(i <= Len(a))
    <3>1. i - Len(a) \in 1..Len(b) /\ x = b[i - Len(a)]
      BY <2>1, <2>3, <1>1, <1>2
    <3> QED
      BY <3>1, <1>1 DEF ToSet
  <2> QED
    BY <2>2, <2>3
<1>4. ASSUME NEW x \in ToSet(a) PROVE x \in ToSet(a \o b)
  <2>1. PICK i \in 1..Len(a) : x = a[i]
    BY <1>1 DEF ToSet
  <2>2. i \in 1..(Len(a) + Len(b)) /\ (a \o b)[i] = x
    BY <2>1, <1>1, <1>2
  <2> QED
    BY <2>2, <1>1 DEF ToSet
<1>5. ASSUME NEW x \in ToSet(b) PROVE x \in ToSet(a \o b)
  <2>1. PICK i \in 1..Len(b) : x = b[i]
    BY <1>1 DEF ToSet
  <2>2. i + Len(a) \in 1..(Len(a) + Len(b)) /\ ~(i + Len(a) <= Len(a)) /\ i + Len(a) - Len(a) = i
    BY <1>1
  <2>3. (a \o b)[i + Len(a)] = x
    BY <2>1, <2>2, <1>2
  <2> QED
    BY <2>2, <2>3, <1>1 DEF ToSet
<1>6. ToSet(a) \subseteq S
  BY DEF ToSet
<1> QED
  BY <1>3, <1>4, <1>5, <1>6

LEMMA ToSetSmall == ToSet(<<>>) = {} /\ \A x : ToSet(<<x>>) = {x}
BY DEF ToSet

LEMMA ToSetAppend ==
  ASSUME NEW S, NEW a \in Seq(S), NEW x \in S
  PROVE  ToSet(Append(a, x)) = ToSet(a) \cup {x}
<1>1. PICK b : b = <<x>>
  OBVIOUS
<1>2. b \in Seq(S) /\ Append(a, x) = a \o b
  BY <1>1
<1>3. ToSet(a \o b) = ToSet(a) \cup ToSet(b)
  BY <1>2, ToSetConcat
<1>4. ToSet(b) = {x}
  BY <1>1, ToSetSmall
<1> QED
  BY <1>2, <1>3, <1>4

LEMMA ToSetHead ==
  ASSUME NEW S, NEW a \in Seq(S), a # <<>>
  PROVE  /\ Head(a) \in S /\ Tail(a) \in Seq(S) /\ ToSet(a) = {Head(a)} \cup ToSet(Tail(a))
         /\ Len(a) \in Nat \ {0} /\ Len(Tail(a)) = Len(a) - 1
<1>1. PICK b, c : b = <<Head(a)>> /\ c = Tail(a)
  OBVIOUS
<1>2. b \in Seq(S) /\ c \in Seq(S) /\ a = b \o c
  BY <1>1
<1>3. ToSet(b \o c) = ToSet(b) \cup ToSet(c)
  BY <1>2, ToSetConcat
<1>4. ToSet(b) = {Head(a)}
  BY <1>1, ToSetSmall
<1>5. ToSet(a) = {Head(a)} \cup ToSet(Tail(a))
  BY <1>1, <1>2, <1>3, <1>4
<1>6. Head(a) \in S /\ Tail(a) \in Seq(S) /\ Len(a) \in Nat \ {0} /\ Len(Tail(a)) = Len(a) - 1
  OBVIOUS
<1> QED
  BY <1>5, <1>6

(* FlattenSeq has the elements of the sequences.                            *)
LEMMA FlattenProperties ==
  ASSUME NEW S, NEW seqs \in Seq(Seq(S))
  PROVE  /\ FlattenSeq(seqs) \in Seq(S)
         /\ ToSet(FlattenSeq(seqs)) = UNION {ToSet(seqs[k]) : k \in DOMAIN seqs}
         /\ (\A k \in DOMAIN seqs : Len(seqs[k]) <= 1) => Len(FlattenSeq(seqs)) <= Len(seqs)
<1> DEFINE n == Len(seqs)
           Short == \A k \in DOMAIN seqs : Len(seqs[k]) <= 1
           Elements(i) == UNION {ToSet(seqs[k]) : k \in 1..i}
<1>0. n \in Nat /\ DOMAIN seqs = 1..n /\ \A k \in 1..n : seqs[k] \in Seq(S)
  OBVIOUS
<1>1. CASE n = 0
  <2>1. seqs = <<>> /\ FlattenSeq(seqs) = <<>>
    BY <1>1 DEF FlattenSeq
  <2>2. FlattenSeq(seqs) \in Seq(S) /\ Len(FlattenSeq(seqs)) <= Len(seqs)
    <3>1. Len(FlattenSeq(seqs)) = Len(seqs)
      BY <2>1
    <3>2. <<>> \in Seq(S)
      OBVIOUS
    <3>3. FlattenSeq(seqs) \in Seq(S)
      BY <3>2, <2>1, Zenon
    <3> QED
      BY <3>1, <3>3, <1>0
  <2>4. ToSet(FlattenSeq(seqs)) = {}
    BY <2>1, ToSetSmall
  <2>3. UNION {ToSet(seqs[k]) : k \in DOMAIN seqs} = {}
    BY <1>0, <1>1
  <2> QED
    BY <2>2, <2>3, <2>4
<1>2. CASE n # 0
  <2>1. PICK h : Run(h, "flatten", seqs, <<>>, n) /\ FlattenSeq(seqs) = h[n]
    BY <1>0, <1>2, FlattenRun
  <2>2. h[0] = <<>> /\ \A i \in 1..n : h[i] = Step("flatten", seqs, i, h[i - 1])
    BY <2>1, <1>0, RunValues
  <2>3. \A i \in 1..n : h[i] = IF i = 1 THEN seqs[i] ELSE h[i - 1] \o seqs[i]
    BY <2>2 DEF Step
  <2> DEFINE P(i) == h[i] \in Seq(S) /\ ToSet(h[i]) = Elements(i) /\ (Short => Len(h[i]) <= i)
             Ok == {i \in 0..n : P(i)}
  <2>4. 0 \in Ok
    <3>1. Elements(0) = {}
      OBVIOUS
    <3>2. h[0] \in Seq(S) /\ Len(h[0]) <= 0
      BY <2>2
    <3>3. ToSet(h[0]) = {}
      BY <2>2, ToSetSmall
    <3>4. 0 \in 0..n
      BY <1>0
    <3> HIDE DEF Elements, Short, n
    <3> QED
      BY <3>1, <3>2, <3>3, <3>4
  <2>5. ASSUME NEW i \in 1..n, i - 1 \in Ok PROVE i \in Ok
    <3>1. Elements(i) = Elements(i - 1) \cup ToSet(seqs[i])
      <4>1. 1..i = (1..(i - 1)) \cup {i}
        BY <1>0
      <4> QED
        BY <4>1
    <3>2. h[i] = h[i - 1] \o seqs[i]
      <4>1. CASE i = 1
        <5>1. h[i - 1] = <<>> /\ seqs[i] \in Seq(S)
          BY <4>1, <2>2, <1>0
        <5> QED
          BY <5>1, <2>3, <4>1
      <4> QED
        BY <4>1, <2>3
    <3>3. h[i - 1] \in Seq(S) /\ seqs[i] \in Seq(S) /\ ToSet(h[i - 1]) = Elements(i - 1)
      BY <2>5, <1>0
    <3>4. ToSet(h[i]) = Elements(i)
      <4>1. ToSet(h[i - 1] \o seqs[i]) = ToSet(h[i - 1]) \cup ToSet(seqs[i])
        BY <3>3, ToSetConcat
      <4> HIDE DEF Elements
      <4> QED
        BY <4>1, <3>1, <3>2, <3>3
    <3>5. h[i] \in Seq(S)
      BY <3>2, <3>3
    <3>6. ASSUME Short PROVE Len(h[i]) <= i
      <4>1. /\ Len(h[i - 1]) \in Nat /\ Len(seqs[i]) \in Nat /\ Len(h[i]) = Len(h[i - 1]) + Len(seqs[i])
            /\ Len(h[i - 1]) <= i - 1 /\ Len(seqs[i]) <= 1
        BY <3>2, <3>3, <3>6, <2>5, <1>0
      <4> QED
        BY <4>1, <1>0
    <3> HIDE DEF Elements, Short
    <3> QED
      BY <3>4, <3>5, <3>6
  <2> HIDE DEF P
  <2>6. n \in Ok
    <3> HIDE DEF Ok
    <3>1. \A i \in 1..n : i - 1 \in Ok => i \in Ok
      BY <2>5
    <3> HIDE DEF n
    <3>2. \A i \in 0..n : i \in Ok
      BY <2>4, <3>1, <1>0, StepInduction
    <3> QED
      BY <3>2, <1>0
  <2> QED
    BY <2>6, <2>1, <1>0 DEF P
<1> QED
  BY <1>1, <1>2

-----------------------------------------------------------------------------
(* One chain, as sets.                                                      *)

(* Whether the task before t, if there is one, was started.                 *)
AtFront(S, g, generation, t) == \A p \in Pred(S, t) : g[p] = generation

LEMMA PredExists ==
  ASSUME NEW S, S \subseteq Nat, NEW t \in Nat, NEW q \in S, q < t
  PROVE  \E p \in Pred(S, t) : q <= p
<1> DEFINE D == {t - x : x \in {y \in S : y < t}}
<1>1. D \subseteq Nat /\ t - q \in D
  OBVIOUS
<1>2. PICK e \in D : \A y \in D : e <= y
  BY <1>1, Lemmas!LeastNumber
<1>3. PICK p \in S : p < t /\ e = t - p
  OBVIOUS
<1>4. ASSUME NEW r \in S, r < t PROVE r <= p
  <2>1. t - r \in D
    BY <1>4
  <2>2. e <= t - r /\ r \in Nat /\ p \in Nat
    BY <2>1, <1>2
  <2> QED
    BY <2>2, <1>3
<1> QED
  BY <1>3, <1>4 DEF Pred

(* All before a task whose predecessor was started have been started too.   *)
LEMMA BeforeFront ==
  ASSUME NEW S, NEW A, NEW g, NEW generation, NEW active, ChainGood(S, A, g, generation, active),
         NEW t \in S, AtFront(S, g, generation, t), NEW q \in S, q < t
  PROVE  g[q] = generation
<1>1. PICK p \in Pred(S, t) : q <= p
  BY PredExists DEF ChainGood
<1>2. p \in S /\ g[p] = generation
  BY <1>1 DEF AtFront, Pred
<1>3. g[p] <= g[q] \/ p = q
  BY <1>1, <1>2 DEF ChainGood
<1>4. g[q] \in Nat /\ g[p] \in Nat /\ g[q] <= generation /\ generation \in Nat
  BY <1>2 DEF ChainGood
<1> QED
  BY <1>2, <1>3, <1>4

(* There is at most one task that is not active and could be started.       *)
LEMMA OneFront ==
  ASSUME NEW S, NEW A, NEW g, NEW generation, NEW active, ChainGood(S, A, g, generation, active),
         NEW t \in S \ A, NEW u \in S \ A, AtFront(S, g, generation, t), AtFront(S, g, generation, u)
  PROVE  t = u
<1>1. /\ t \in Nat /\ u \in Nat /\ g[t] \in Nat /\ g[u] \in Nat /\ generation \in Nat
      /\ g[t] < generation /\ g[u] < generation
  BY DEF ChainGood
<1>2. t < u => g[t] = generation
  BY BeforeFront
<1>3. u < t => g[u] = generation
  BY BeforeFront
<1> QED
  BY <1>1, <1>2, <1>3

(* do_start_task.                                                           *)
LEMMA ChainStart ==
  ASSUME NEW S, NEW A, NEW g, NEW generation, NEW active, ChainGood(S, A, g, generation, active),
         NEW t \in S \ A, AtFront(S, g, generation, t), ~(active >= MaxActive)
  PROVE  /\ ChainGood(S, A \cup {t}, [g EXCEPT ![t] = generation], generation, active + 1)
         /\ \A u \in S \ A : u # t => ~AtFront(S, g, generation, u)
         /\ \A u \in S \ A : u # t =>
              ~AtFront(S, [g EXCEPT ![t] = generation], generation, u) \/ u \in Succ(S, t)
<1> DEFINE h == [g EXCEPT ![t] = generation]
<1>0. /\ S \subseteq Nat /\ IsFiniteSet(S) /\ A \subseteq S /\ g \in [S -> Nat]
      /\ generation \in Nat \ {0} /\ active = Cardinality(A) /\ active <= MaxActive
      /\ \A x \in S : g[x] <= generation /\ (x \notin A => g[x] < generation)
      /\ \A p, x \in S : p < x => g[x] <= g[p]
  BY DEF ChainGood
<1>1. ChainGood(S, A \cup {t}, h, generation, active + 1)
  <2>1. IsFiniteSet(A) /\ Cardinality(A) \in Nat
    BY <1>0, FS_Subset, FS_CardinalityType
  <2>2. Cardinality(A \cup {t}) = Cardinality(A) + 1
    BY <2>1, FS_AddElement
  <2>3. active + 1 = Cardinality(A \cup {t}) /\ active + 1 <= MaxActive
    BY <2>1, <2>2, <1>0, ChainSchedulerAssumption
  <2>4. h \in [S -> Nat] /\ \A x \in S : h[x] = IF x = t THEN generation ELSE g[x]
    BY <1>0
  <2>5. \A x \in S : h[x] <= generation /\ (x \notin A \cup {t} => h[x] < generation)
    BY <2>4, <1>0
  <2>6. ASSUME NEW p \in S, NEW x \in S, p < x PROVE h[x] <= h[p]
    <3>1. g[x] \in Nat /\ g[p] \in Nat /\ g[x] <= g[p] /\ g[x] <= generation /\ generation \in Nat
      BY <1>0, <2>6
    <3>2. CASE x = t
      <4>1. g[p] = generation
        BY <3>2, <2>6, BeforeFront
      <4>2. p # t /\ h[p] = g[p] /\ h[x] = generation
        BY <3>2, <2>4, <2>6, <1>0
      <4> QED
        BY <4>1, <4>2, <3>1
    <3>3. CASE x # t
      BY <3>3, <3>1, <2>4
    <3> QED
      BY <3>2, <3>3
  <2> HIDE DEF h
  <2> QED
    BY <1>0, <2>3, <2>4, <2>5, <2>6 DEF ChainGood
<1>2. ASSUME NEW u \in S \ A, u # t PROVE ~AtFront(S, g, generation, u)
  BY <1>2, OneFront
<1>3. ASSUME NEW u \in S \ A, u # t PROVE ~AtFront(S, h, generation, u) \/ u \in Succ(S, t)
  <2>1. PICK p \in Pred(S, u) : g[p] # generation
    BY <1>2, <1>3 DEF AtFront
  <2>2. p \in S /\ p < u /\ \A q \in S : q < u => q <= p
    BY <2>1 DEF Pred
  <2>3. CASE p # t
    <3>1. h[p] = g[p]
      BY <2>2, <2>3, <1>0
    <3> QED
      BY <3>1, <2>1 DEF AtFront
  <2>4. CASE p = t
    <3>1. ASSUME NEW q \in S, t < q PROVE u <= q
      <4>1. q \in Nat /\ u \in Nat /\ t \in Nat
        BY <1>0
      <4>2. q < u => q <= t
        BY <2>2, <2>4
      <4> QED
        BY <4>1, <4>2, <3>1
    <3> QED
      BY <3>1, <2>2, <2>4 DEF Succ
  <2> QED
    BY <2>3, <2>4
<1> QED
  BY <1>1, <1>2, <1>3

(* inactivate_task of an active task that failed: the tasks behind it wait  *)
(* until it is started again.                                               *)
LEMMA ChainStop ==
  ASSUME NEW S, NEW A, NEW g, NEW generation, NEW active, ChainGood(S, A, g, generation, active), NEW t \in A
  PROVE  LET new == IF g[t] >= generation THEN g[t] + 1 ELSE generation
         IN  /\ ChainGood(S, A \ {t}, g, new, active - 1)
             /\ \A u : ~AtFront(S, g, generation, u) => ~AtFront(S, g, new, u)
<1> DEFINE new == IF g[t] >= generation THEN g[t] + 1 ELSE generation
<1>0. /\ S \subseteq Nat /\ IsFiniteSet(S) /\ A \subseteq S /\ g \in [S -> Nat]
      /\ generation \in Nat \ {0} /\ active = Cardinality(A) /\ active <= MaxActive
      /\ \A x \in S : g[x] <= generation /\ (x \notin A => g[x] < generation)
      /\ \A p, x \in S : p < x => g[x] <= g[p]
  BY DEF ChainGood
<1>1. IsFiniteSet(A) /\ Cardinality(A) \in Nat
  BY <1>0, FS_Subset, FS_CardinalityType
<1>2. Cardinality(A \ {t}) = Cardinality(A) - 1
  BY <1>1, FS_RemoveElement
<1>3. g[t] \in Nat /\ t \in S /\ g[t] <= generation
  BY <1>0
<1>4. new \in Nat \ {0} /\ generation <= new /\ g[t] < new
  BY <1>3, <1>0
<1> HIDE DEF new
<1>5. \A x \in S : g[x] <= new /\ (x \notin A \ {t} => g[x] < new)
  BY <1>0, <1>4
<1>6. active - 1 = Cardinality(A \ {t}) /\ active - 1 <= MaxActive
  BY <1>0, <1>1, <1>2, ChainSchedulerAssumption
<1>7. ChainGood(S, A \ {t}, g, new, active - 1)
  BY <1>0, <1>4, <1>5, <1>6 DEF ChainGood
<1>8. ASSUME NEW u, ~AtFront(S, g, generation, u) PROVE ~AtFront(S, g, new, u)
  <2>1. PICK p \in Pred(S, u) : g[p] # generation
    BY <1>8 DEF AtFront
  <2>2. p \in S
    BY DEF Pred
  <2>3. g[p] \in Nat /\ g[p] <= generation
    BY <2>2, <1>0
  <2>4. g[p] # new
    BY <2>1, <2>3, <1>4, <1>0
  <2> QED
    BY <2>1, <2>4 DEF AtFront
<1> QED
  BY <1>7, <1>8 DEF new

(* finish_task.                                                             *)
LEMMA ChainRemove ==
  ASSUME NEW S, NEW A, NEW g, NEW generation, NEW active, ChainGood(S, A, g, generation, active), NEW t \in S
  PROVE  LET h == [x \in S \ {t} |-> g[x]]
         IN  /\ ChainGood(S \ {t}, A \ {t}, h, generation, IF t \in A THEN active - 1 ELSE active)
             /\ \A u \in S : u # t /\ ~AtFront(S, g, generation, u) =>
                  ~AtFront(S \ {t}, h, generation, u) \/ u \in Succ(S, t)
<1> DEFINE h == [x \in S \ {t} |-> g[x]]
           count == IF t \in A THEN active - 1 ELSE active
<1>0. /\ S \subseteq Nat /\ IsFiniteSet(S) /\ A \subseteq S /\ g \in [S -> Nat]
      /\ generation \in Nat \ {0} /\ active = Cardinality(A) /\ active <= MaxActive
      /\ \A x \in S : g[x] <= generation /\ (x \notin A => g[x] < generation)
      /\ \A p, x \in S : p < x => g[x] <= g[p]
  BY DEF ChainGood
<1>1. IsFiniteSet(A) /\ Cardinality(A) \in Nat
  BY <1>0, FS_Subset, FS_CardinalityType
<1>2. Cardinality(A \ {t}) = IF t \in A THEN Cardinality(A) - 1 ELSE Cardinality(A)
  BY <1>1, FS_RemoveElement
<1>3. count = Cardinality(A \ {t}) /\ count <= MaxActive
  BY <1>0, <1>1, <1>2, ChainSchedulerAssumption
<1>4. IsFiniteSet(S \ {t}) /\ h \in [S \ {t} -> Nat] /\ \A x \in S \ {t} : h[x] = g[x]
  BY <1>0, FS_RemoveElement
<1> HIDE DEF h, count
<1>5. ChainGood(S \ {t}, A \ {t}, h, generation, count)
  BY <1>0, <1>3, <1>4 DEF ChainGood
<1>6. ASSUME NEW u \in S, u # t, ~AtFront(S, g, generation, u)
      PROVE  ~AtFront(S \ {t}, h, generation, u) \/ u \in Succ(S, t)
  <2>1. PICK p \in Pred(S, u) : g[p] # generation
    BY <1>6 DEF AtFront
  <2>2. p \in S /\ p < u /\ \A q \in S : q < u => q <= p
    BY <2>1 DEF Pred
  <2>3. CASE p # t
    <3>1. h[p] = g[p] /\ p \in Pred(S \ {t}, u)
      BY <2>2, <2>3, <1>4 DEF Pred
    <3> QED
      BY <3>1, <2>1 DEF AtFront
  <2>4. CASE p = t
    <3>1. ASSUME NEW q \in S, t < q PROVE u <= q
      <4>1. q \in Nat /\ u \in Nat /\ t \in Nat
        BY <1>0
      <4>2. q < u => q <= t
        BY <2>2, <2>4
      <4> QED
        BY <4>1, <4>2, <3>1
    <3> QED
      BY <3>1, <2>2, <2>4 DEF Succ
  <2> QED
    BY <2>3, <2>4
<1> QED
  BY <1>5, <1>6 DEF h, count

(* create_task.                                                             *)
LEMMA ChainAdd ==
  ASSUME NEW S, NEW A, NEW g, NEW generation, NEW active, ChainGood(S, A, g, generation, active),
         NEW t \in Nat, \A x \in S : x < t,
         NEW h, h \in [S \cup {t} -> Nat], h[t] = 0, \A x \in S : h[x] = g[x]
  PROVE  /\ ChainGood(S \cup {t}, A, h, generation, active)
         /\ \A u \in S : ~AtFront(S, g, generation, u) => ~AtFront(S \cup {t}, h, generation, u)
<1>0. /\ S \subseteq Nat /\ IsFiniteSet(S) /\ A \subseteq S /\ g \in [S -> Nat]
      /\ generation \in Nat \ {0} /\ active = Cardinality(A) /\ active <= MaxActive
      /\ \A x \in S : g[x] <= generation /\ (x \notin A => g[x] < generation)
      /\ \A p, x \in S : p < x => g[x] <= g[p]
  BY DEF ChainGood
<1>1. t \notin S
  BY <1>0
<1>2. /\ IsFiniteSet(S \cup {t}) /\ h \in [S \cup {t} -> Nat] /\ h[t] = 0
      /\ \A x \in S : h[x] = g[x]
  BY <1>0, <1>1, FS_AddElement
<1>3. ASSUME NEW p \in S \cup {t}, NEW x \in S \cup {t}, p < x PROVE h[x] <= h[p]
  <2>1. h[p] \in Nat /\ h[x] \in Nat
    BY <1>2
  <2>2. CASE x = t
    BY <2>1, <2>2, <1>2
  <2>3. CASE x # t
    <3>1. x \in S /\ p \in S
      <4>1. x \in S /\ x < t /\ x \in Nat /\ p \in Nat
        BY <2>3, <1>0
      <4> QED
        BY <4>1, <1>3
    <3> QED
      BY <3>1, <1>0, <1>2, <1>3
  <2> QED
    BY <2>2, <2>3
<1>4. \A x \in S \cup {t} : h[x] <= generation /\ (x \notin A => h[x] < generation)
  BY <1>0, <1>2
<1>5. ChainGood(S \cup {t}, A, h, generation, active)
  BY <1>0, <1>2, <1>3, <1>4 DEF ChainGood
<1>6. ASSUME NEW u \in S, ~AtFront(S, g, generation, u) PROVE ~AtFront(S \cup {t}, h, generation, u)
  <2>1. PICK p \in Pred(S, u) : g[p] # generation
    BY <1>6 DEF AtFront
  <2>2. p \in S /\ p < u /\ \A q \in S : q < u => q <= p
    BY <2>1 DEF Pred
  <2>3. u < t /\ u \in Nat
    BY <1>0
  <2>4. p \in Pred(S \cup {t}, u) /\ h[p] = g[p]
    BY <2>2, <2>3, <1>2 DEF Pred
  <2> QED
    BY <2>4, <2>1 DEF AtFront
<1> QED
  BY <1>5, <1>6

-----------------------------------------------------------------------------
(* The list of a chain and its set of tasks.                                *)

LEMMA PositionProperties ==
  ASSUME NEW s, NEW c, s.chains_[c].chain \in Seq(Nat), Increasing(s.chains_[c].chain), NEW t \in Members(s, c)
  PROVE  LET l == s.chains_[c].chain
             i == Position(s, c, t)
         IN  /\ i \in 1..Len(l) /\ l[i] = t /\ t \in Nat
             /\ \A j \in 1..Len(l) : (l[j] < t <=> j < i) /\ (t < l[j] <=> i < j)
<1>1. PICK l : l = s.chains_[c].chain
  OBVIOUS
<1>2. l \in Seq(Nat) /\ Increasing(l) /\ Len(l) \in Nat /\ DOMAIN l = 1..Len(l)
  BY <1>1
<1>3. PICK i : i = Position(s, c, t)
  OBVIOUS
<1>4. i \in 1..Len(l) /\ l[i] = t
  <2>1. \E j \in DOMAIN l : l[j] = t
    BY <1>1 DEF Members, ToSet
  <2> QED
    BY <2>1, <1>1, <1>2, <1>3 DEF Position
<1>5. t \in Nat /\ \A j \in 1..Len(l) : l[j] \in Nat
  BY <1>2, <1>4
<1>6. \A j \in 1..Len(l) : (j < i => l[j] < t) /\ (i < j => t < l[j])
  BY <1>2, <1>4 DEF Increasing
<1>7. \A j \in 1..Len(l) : (l[j] < t <=> j < i) /\ (t < l[j] <=> i < j)
  BY <1>2, <1>4, <1>5, <1>6
<1> QED
  BY <1>1, <1>3, <1>4, <1>5, <1>7

LEMMA ParentIs ==
  ASSUME NEW s, NEW c, s.chains_[c].chain \in Seq(Nat), Increasing(s.chains_[c].chain), NEW t \in Members(s, c)
  PROVE  get_parent(s, c, t) = Pred(Members(s, c), t)
<1>1. PICK l, i : l = s.chains_[c].chain /\ i = Position(s, c, t)
  OBVIOUS
<1>2. l \in Seq(Nat) /\ Increasing(l) /\ Len(l) \in Nat /\ DOMAIN l = 1..Len(l) /\ \A j \in 1..Len(l) : l[j] \in Nat
  BY <1>1
<1>3. /\ i \in 1..Len(l) /\ l[i] = t /\ t \in Nat
      /\ \A j \in 1..Len(l) : (l[j] < t <=> j < i) /\ (t < l[j] <=> i < j)
  BY <1>1, PositionProperties
<1>4. get_parent(s, c, t) = IF i = 1 THEN {} ELSE {l[i - 1]}
  BY <1>1 DEF get_parent
<1>5. Members(s, c) = {l[j] : j \in 1..Len(l)}
  BY <1>1, <1>2 DEF Members, ToSet
<1>6. CASE i = 1
  <2>1. \A q \in Members(s, c) : ~(q < t)
    BY <1>5, <1>3, <1>6
  <2> QED
    BY <2>1, <1>4, <1>6 DEF Pred
<1>7. CASE i # 1
  <2>1. i - 1 \in 1..Len(l) /\ l[i - 1] < t /\ l[i - 1] \in Members(s, c) /\ l[i - 1] \in Nat
    BY <1>2, <1>3, <1>5, <1>7
  <2>2. ASSUME NEW q \in Members(s, c), q < t PROVE q <= l[i - 1]
    <3>1. PICK j \in 1..Len(l) : q = l[j]
      BY <1>5
    <3>2. j < i /\ (j = i - 1 \/ j < i - 1)
      BY <3>1, <1>3, <2>2
    <3>3. j < i - 1 => l[j] < l[i - 1]
      BY <2>1, <1>2 DEF Increasing
    <3> QED
      BY <3>1, <3>2, <3>3, <1>2, <2>1
  <2>3. Pred(Members(s, c), t) \subseteq {l[i - 1]}
    <3> SUFFICES ASSUME NEW p \in Pred(Members(s, c), t) PROVE p = l[i - 1]
      OBVIOUS
    <3>1. p \in Members(s, c) /\ p < t /\ l[i - 1] <= p /\ p \in Nat
      BY <2>1, <1>5, <1>2 DEF Pred
    <3> QED
      BY <3>1, <2>1, <2>2
  <2>4. l[i - 1] \in Pred(Members(s, c), t)
    BY <2>1, <2>2 DEF Pred
  <2> QED
    BY <2>3, <2>4, <1>4, <1>7
<1> QED
  BY <1>6, <1>7

LEMMA ChildIs ==
  ASSUME NEW s, NEW c, s.chains_[c].chain \in Seq(Nat), Increasing(s.chains_[c].chain), NEW t \in Members(s, c)
  PROVE  /\ get_child(s, c, t) \in Seq(Nat) /\ Len(get_child(s, c, t)) <= 1
         /\ ToSet(get_child(s, c, t)) = Succ(Members(s, c), t)
<1>1. PICK l, i : l = s.chains_[c].chain /\ i = Position(s, c, t)
  OBVIOUS
<1>2. l \in Seq(Nat) /\ Increasing(l) /\ Len(l) \in Nat /\ DOMAIN l = 1..Len(l) /\ \A j \in 1..Len(l) : l[j] \in Nat
  BY <1>1
<1>3. /\ i \in 1..Len(l) /\ l[i] = t /\ t \in Nat
      /\ \A j \in 1..Len(l) : (l[j] < t <=> j < i) /\ (t < l[j] <=> i < j)
  BY <1>1, PositionProperties
<1>4. get_child(s, c, t) = IF i = Len(l) THEN <<>> ELSE <<l[i + 1]>>
  BY <1>1 DEF get_child
<1>5. Members(s, c) = {l[j] : j \in 1..Len(l)}
  BY <1>1, <1>2 DEF Members, ToSet
<1>6. CASE i = Len(l)
  <2>1. \A q \in Members(s, c) : ~(t < q)
    BY <1>2, <1>5, <1>3, <1>6
  <2>2. Succ(Members(s, c), t) = {}
    BY <2>1 DEF Succ
  <2>3. get_child(s, c, t) = <<>> /\ <<>> \in Seq(Nat) /\ Len(<<>>) <= 1
    BY <1>4, <1>6
  <2> QED
    BY <2>2, <2>3, ToSetSmall, Zenon
<1>7. CASE i # Len(l)
  <2>0. i + 1 \in 1..Len(l) /\ i < i + 1
    <3>1. Len(l) \in Nat /\ i \in 1..Len(l)
      BY <1>2, <1>3
    <3> QED
      BY <3>1, <1>7
  <2>1. i + 1 \in 1..Len(l) /\ t < l[i + 1] /\ l[i + 1] \in Members(s, c) /\ l[i + 1] \in Nat
    BY <2>0, <1>2, <1>3, <1>5
  <2>2. ASSUME NEW q \in Members(s, c), t < q PROVE l[i + 1] <= q
    <3>1. PICK j \in 1..Len(l) : q = l[j]
      BY <1>5
    <3>2. i < j /\ (j = i + 1 \/ i + 1 < j)
      BY <3>1, <1>3, <2>2
    <3>3. i + 1 < j => l[i + 1] < l[j]
      BY <2>1, <1>2 DEF Increasing
    <3> QED
      BY <3>1, <3>2, <3>3, <1>2, <2>1
  <2>3. Succ(Members(s, c), t) \subseteq {l[i + 1]}
    <3> SUFFICES ASSUME NEW p \in Succ(Members(s, c), t) PROVE p = l[i + 1]
      OBVIOUS
    <3>1. p \in Members(s, c) /\ t < p /\ p <= l[i + 1] /\ p \in Nat
      BY <2>1, <1>5, <1>2 DEF Succ
    <3> QED
      BY <3>1, <2>1, <2>2
  <2>4. l[i + 1] \in Succ(Members(s, c), t)
    BY <2>1, <2>2 DEF Succ
  <2>5. get_child(s, c, t) = <<l[i + 1]>>
    BY <1>4, <1>7
  <2>6. <<l[i + 1]>> \in Seq(Nat) /\ Len(<<l[i + 1]>>) <= 1
    BY <2>1
  <2>7. ToSet(<<l[i + 1]>>) = {l[i + 1]}
    BY ToSetSmall
  <2>8. Succ(Members(s, c), t) = {l[i + 1]}
    BY <2>3, <2>4
  <2> QED
    BY <2>5, <2>6, <2>7, <2>8, Zenon
<1> QED
  BY <1>6, <1>7

LEMMA FirstIs ==
  ASSUME NEW s, NEW c, s.chains_[c].chain \in Seq(Nat)
  PROVE  get_first(s, c) \in Seq(Nat) /\ Len(get_first(s, c)) \in Nat /\ ToSet(get_first(s, c)) \subseteq Members(s, c)
<1>1. PICK l : l = s.chains_[c].chain
  OBVIOUS
<1>2. l \in Seq(Nat)
  BY <1>1
<1>3. CASE l = <<>>
  <2>1. get_first(s, c) = <<>> /\ <<>> \in Seq(Nat)
    BY <1>1, <1>3 DEF get_first
  <2> QED
    BY <2>1, ToSetSmall
<1>4. CASE l # <<>>
  <2>1. get_first(s, c) = <<l[1]>> /\ l[1] \in Nat /\ l[1] \in Members(s, c)
    BY <1>1, <1>2, <1>4 DEF get_first, Members, ToSet
  <2>2. <<l[1]>> \in Seq(Nat) /\ Len(<<l[1]>>) \in Nat
    BY <2>1
  <2>3. ToSet(<<l[1]>>) = {l[1]}
    BY ToSetSmall
  <2> QED
    BY <2>1, <2>2, <2>3, Zenon
<1> QED
  BY <1>3, <1>4

LEMMA AddToList ==
  ASSUME NEW l \in Seq(Nat), Increasing(l), NEW t \in Nat, \A x \in ToSet(l) : x < t
  PROVE  Append(l, t) \in Seq(Nat) /\ Increasing(Append(l, t)) /\ ToSet(Append(l, t)) = ToSet(l) \cup {t}
<1>1. Append(l, t) \in Seq(Nat) /\ Len(l) \in Nat /\ DOMAIN Append(l, t) = 1..(Len(l) + 1) /\ DOMAIN l = 1..Len(l)
  OBVIOUS
<1>2. \A i \in 1..(Len(l) + 1) : Append(l, t)[i] = IF i = Len(l) + 1 THEN t ELSE l[i]
  OBVIOUS
<1>3. \A i \in 1..Len(l) : l[i] < t
  BY <1>1 DEF ToSet
<1>4. Increasing(Append(l, t))
  BY <1>1, <1>2, <1>3 DEF Increasing
<1> QED
  BY <1>1, <1>4, ToSetAppend

LEMMA RemoveFromList ==
  ASSUME NEW l \in Seq(Nat), Increasing(l), NEW i \in 1..Len(l)
  PROVE  /\ RemoveAt(l, i) \in Seq(Nat) /\ Increasing(RemoveAt(l, i))
         /\ ToSet(RemoveAt(l, i)) = ToSet(l) \ {l[i]}
         /\ RemoveAt(l, i) = <<>> <=> ToSet(l) = {l[i]}
<1> DEFINE a == SubSeq(l, 1, i - 1)
           b == SubSeq(l, i + 1, Len(l))
           r == RemoveAt(l, i)
           n == Len(l)
<1>0. n \in Nat /\ DOMAIN l = 1..n /\ \A j \in 1..n : l[j] \in Nat
  OBVIOUS
<1>1. a \in Seq(Nat) /\ Len(a) = i - 1 /\ \A j \in 1..(i - 1) : a[j] = l[j]
  OBVIOUS
<1>2. b \in Seq(Nat) /\ Len(b) = n - i /\ \A j \in 1..(n - i) : b[j] = l[i + j]
  OBVIOUS
<1>3. r = a \o b
  BY DEF RemoveAt
<1> HIDE DEF a, b, n, r
<1>4. /\ r \in Seq(Nat) /\ Len(r) = n - 1 /\ DOMAIN r = 1..(n - 1)
      /\ \A j \in 1..(n - 1) : r[j] = IF j <= i - 1 THEN a[j] ELSE b[j - (i - 1)]
  <2>1. /\ a \o b \in Seq(Nat) /\ Len(a \o b) = Len(a) + Len(b)
        /\ \A j \in 1..(Len(a) + Len(b)) : (a \o b)[j] = IF j <= Len(a) THEN a[j] ELSE b[j - Len(a)]
    BY <1>1, <1>2, ConcatProperties
  <2>2. Len(a) + Len(b) = n - 1
    BY <1>0, <1>1, <1>2 DEF n
  <2>3. r \in Seq(Nat) /\ Len(r) = n - 1
    BY <2>1, <2>2, <1>3
  <2>4. \A j \in 1..(n - 1) : r[j] = IF j <= i - 1 THEN a[j] ELSE b[j - (i - 1)]
    BY <2>1, <2>2, <1>1, <1>3
  <2> QED
    BY <2>3, <2>4
<1>5. ASSUME NEW j \in 1..(n - 1) PROVE r[j] = IF j < i THEN l[j] ELSE l[j + 1]
  <2>1. CASE j < i
    <3>1. j <= i - 1 /\ j \in 1..(i - 1)
      BY <2>1, <1>0 DEF n
    <3> QED
      BY <3>1, <2>1, <1>4, <1>1
  <2>2. CASE ~(j < i)
    <3>1. j - (i - 1) \in 1..(n - i) /\ i + (j - (i - 1)) = j + 1 /\ ~(j <= i - 1)
      BY <2>2, <1>0 DEF n
    <3> QED
      BY <3>1, <2>2, <1>2, <1>4
  <2> QED
    BY <2>1, <2>2
<1> HIDE DEF n, r
<1>6. Increasing(r)
  <2> SUFFICES ASSUME NEW j \in 1..(n - 1), NEW k \in 1..(n - 1), j < k PROVE r[j] < r[k]
    BY <1>4 DEF Increasing
  <2> DEFINE J == IF j < i THEN j ELSE j + 1
             K == IF k < i THEN k ELSE k + 1
  <2>1. J \in 1..n /\ K \in 1..n /\ J < K
    BY <1>0 DEF n
  <2>2. r[j] = l[J] /\ r[k] = l[K]
    BY <1>5
  <2>3. l[J] < l[K]
    <3> HIDE DEF J, K
    <3> QED
      BY <2>1, <1>0 DEF Increasing
  <2> QED
    BY <2>2, <2>3
<1>7. ASSUME NEW x \in ToSet(r) PROVE x \in ToSet(l) \ {l[i]}
  <2>1. PICK j \in 1..(n - 1) : x = r[j]
    BY <1>4 DEF ToSet
  <2> DEFINE J == IF j < i THEN j ELSE j + 1
  <2>2. J \in 1..n /\ J # i /\ x = l[J]
    BY <2>1, <1>5, <1>0 DEF n
  <2>3. l[J] # l[i]
    <3>1. J < i \/ i < J
      BY <2>2, <1>0 DEF n
    <3> HIDE DEF J
    <3> QED
      BY <3>1, <2>2, <1>0, SMTT(40) DEF Increasing, n
  <2> HIDE DEF J
  <2> QED
    BY <2>2, <2>3, <1>0 DEF ToSet
<1>8. ASSUME NEW x \in ToSet(l), x # l[i] PROVE x \in ToSet(r)
  <2>1. PICK j \in 1..n : x = l[j]
    BY <1>0 DEF ToSet
  <2>2. j # i
    BY <2>1, <1>8
  <2> DEFINE J == IF j < i THEN j ELSE j - 1
  <2>3. J \in 1..(n - 1) /\ (IF J < i THEN J ELSE J + 1) = j
    BY <2>2, <1>0 DEF n
  <2>4. r[J] = x
    <3> HIDE DEF J
    <3> QED
      BY <2>3, <2>1, <1>5
  <2> HIDE DEF J
  <2> QED
    BY <2>3, <2>4, <1>4 DEF ToSet
<1>9. ToSet(r) = ToSet(l) \ {l[i]}
  BY <1>7, <1>8
<1>10. r = <<>> <=> ToSet(r) = {}
  <2>1. r = <<>> => ToSet(r) = {}
    BY ToSetSmall
  <2>2. ASSUME r # <<>> PROVE ToSet(r) # {}
    <3>1. r \in Seq(Nat)
      BY <1>4
    <3>2. ToSet(r) = {Head(r)} \cup ToSet(Tail(r))
      BY <3>1, <2>2, ToSetHead
    <3> QED
      BY <3>2
  <2> QED
    BY <2>1, <2>2
<1>11. l[i] \in ToSet(l)
  BY <1>0 DEF ToSet, n
<1>12. r = <<>> <=> ToSet(l) = {l[i]}
  BY <1>9, <1>10, <1>11
<1> QED
  BY <1>4, <1>6, <1>9, <1>12 DEF r

-----------------------------------------------------------------------------
(* The fields of the scheduler.                                             *)

LEMMA StateFields ==
  ASSUME NEW s \in State
  PROVE  /\ s.tasks_ \in Seq(Task) /\ s.chains_ \in [ChainIds -> ChainInfo]
         /\ s.limited_tasks_ \in [ChainIds -> Nat] /\ s.pending_tasks_ \in Seq(Nat)
         /\ s.failed \in BOOLEAN /\ s.query \in Seq(Query)
         /\ Len(s.tasks_) \in Nat /\ DOMAIN s.tasks_ = 1..Len(s.tasks_)
         /\ Len(s.query) \in Nat /\ DOMAIN s.query = 1..Len(s.query)
         /\ \A t \in DOMAIN s.tasks_ : t \in Nat \ {0} /\ s.tasks_[t] \in Task /\ Chains(s, t) \in Seq(ChainIds)
         /\ \A t \in DOMAIN s.query : t \in Nat \ {0} /\ s.query[t] \in Query
         /\ \A c \in ChainIds : /\ s.chains_[c] \in ChainInfo
                                /\ s.chains_[c].chain \in Seq(Nat)
                                /\ s.chains_[c].active_tasks \in Int /\ s.chains_[c].generation \in Nat
                                /\ s.limited_tasks_[c] \in Nat
<1>1. /\ s.tasks_ \in Seq(Task) /\ s.chains_ \in [ChainIds -> ChainInfo]
      /\ s.limited_tasks_ \in [ChainIds -> Nat] /\ s.pending_tasks_ \in Seq(Nat)
      /\ s.failed \in BOOLEAN /\ s.query \in Seq(Query)
  BY DEF State
<1>2. \A t \in DOMAIN s.tasks_ : t \in Nat \ {0} /\ s.tasks_[t] \in Task /\ Chains(s, t) \in Seq(ChainIds)
  <2>1. \A t \in DOMAIN s.tasks_ : t \in Nat \ {0} /\ s.tasks_[t] \in Task
    BY <1>1
  <2> QED
    BY <2>1 DEF Chains, Task
<1>3. \A t \in DOMAIN s.query : t \in Nat \ {0} /\ s.query[t] \in Query
  BY <1>1
<1>4. \A c \in ChainIds : /\ s.chains_[c] \in ChainInfo
                          /\ s.chains_[c].chain \in Seq(Nat)
                          /\ s.chains_[c].active_tasks \in Int /\ s.chains_[c].generation \in Nat
                          /\ s.limited_tasks_[c] \in Nat
  BY <1>1 DEF ChainInfo
<1>5. /\ Len(s.tasks_) \in Nat /\ DOMAIN s.tasks_ = 1..Len(s.tasks_)
      /\ Len(s.query) \in Nat /\ DOMAIN s.query = 1..Len(s.query)
  BY <1>1
<1> QED
  BY <1>1, <1>2, <1>3, <1>4, <1>5

LEMMA StateIs ==
  ASSUME NEW tasks \in Seq(Task), NEW chains \in [ChainIds -> ChainInfo], NEW limited \in [ChainIds -> Nat],
         NEW pending \in Seq(Nat), NEW failed \in BOOLEAN, NEW query \in Seq(Query)
  PROVE  [tasks_ |-> tasks, chains_ |-> chains, limited_tasks_ |-> limited, pending_tasks_ |-> pending,
          failed |-> failed, query |-> query] \in State
BY DEF State

LEMMA GenerationsIs ==
  ASSUME NEW l \in Seq(ChainIds), NEW g \in [ToSet(l) -> Nat]
  PROVE  g \in Generations
<1>1. ToSet(l) \in SUBSET ChainIds
  BY DEF ToSet
<1> QED
  BY <1>1 DEF Generations

(* The tasks of a chain, and the chains of a task.                          *)
LEMMA MembersAlive ==
  ASSUME NEW s, SchedulerGood(s), NEW c \in ChainIds, NEW t \in Members(s, c)
  PROVE  t \in Alive(s) /\ t \in DOMAIN s.tasks_ /\ c \in InChain(s, t) /\ t \in Nat \ {0}
<1>1. t \in Alive(s) /\ c \in InChain(s, t)
  BY DEF SchedulerGood, ListGood
<1>2. t \in DOMAIN s.tasks_
  BY <1>1 DEF Alive
<1> QED
  BY <1>1, <1>2, StateFields DEF SchedulerGood

LEMMA AliveMembers ==
  ASSUME NEW s, SchedulerGood(s), NEW t \in Alive(s)
  PROVE  /\ t \in DOMAIN s.tasks_ /\ t \in Nat \ {0} /\ Chains(s, t) \in Seq(ChainIds)
         /\ InChain(s, t) \subseteq ChainIds /\ InChain(s, t) # {}
         /\ \A c \in InChain(s, t) : t \in Members(s, c)
         /\ s.tasks_[t] \in Task /\ s.tasks_[t].generation \in [InChain(s, t) -> Nat]
         /\ TaskGood(s, t)
<1>1. t \in DOMAIN s.tasks_ /\ TaskGood(s, t)
  BY DEF SchedulerGood, Alive
<1>2. t \in Nat \ {0} /\ Chains(s, t) \in Seq(ChainIds) /\ s.tasks_[t] \in Task
  BY <1>1, StateFields DEF SchedulerGood
<1>3. InChain(s, t) \subseteq ChainIds
  BY <1>2 DEF InChain, ToSet
<1>4. \A c \in InChain(s, t) : t \in Members(s, c)
  BY <1>3 DEF SchedulerGood, ListGood
<1>5. InChain(s, t) # {}
  <2>1. Chains(s, t) # <<>>
    BY <1>1 DEF TaskGood
  <2>2. ToSet(Chains(s, t)) = {Head(Chains(s, t))} \cup ToSet(Tail(Chains(s, t)))
    BY <2>1, <1>2, ToSetHead
  <2> QED
    BY <2>2 DEF InChain
<1>6. s.tasks_[t].generation \in [InChain(s, t) -> Nat]
  <2>1. s.tasks_[t].generation \in Generations
    BY <1>2 DEF Task
  <2>2. PICK C \in SUBSET ChainIds : s.tasks_[t].generation \in [C -> Nat]
    BY <2>1 DEF Generations
  <2>3. DOMAIN s.tasks_[t].generation = InChain(s, t)
    BY <1>1 DEF TaskGood
  <2> QED
    BY <2>2, <2>3
<1> QED
  BY <1>1, <1>2, <1>3, <1>4, <1>5, <1>6

(* What try_start_task looks at.                                            *)
AtFrontIn(s, t, c) == AtFront(Members(s, c), Gens(s, c), s.chains_[c].generation, t)

LEMMA VerdictIs ==
  ASSUME NEW s, SchedulerGood(s), NEW c \in ChainIds, NEW t \in Members(s, c)
  PROVE  /\ Held(s, t, c) <=> ~AtFrontIn(s, t, c) \/ (Limited(s, c) /\ s.limited_tasks_[c] = t)
         /\ Verdict(s, t, c) = "start" <=> AtFrontIn(s, t, c) /\ ~Limited(s, c)
         /\ Verdict(s, t, c) = "limited" <=> AtFrontIn(s, t, c) /\ Limited(s, c)
         /\ Verdict(s, t, c) \in {"start", "limited", "wait"}
<1>1. get_parent(s, c, t) = Pred(Members(s, c), t)
  <2>1. s.chains_[c].chain \in Seq(Nat) /\ Increasing(s.chains_[c].chain)
    BY StateFields DEF SchedulerGood, ListGood
  <2> QED
    BY <2>1, ParentIs
<1>2. \A p \in Pred(Members(s, c), t) : Gens(s, c)[p] = s.tasks_[p].generation[c]
  BY DEF Pred, Gens
<1>3. ParentStarted(s, t, c) <=> AtFrontIn(s, t, c)
  BY <1>1, <1>2 DEF ParentStarted, AtFrontIn, AtFront
<1> QED
  BY <1>3 DEF Held, Verdict

-----------------------------------------------------------------------------
(* do_start_task.                                                           *)

Started(s, t) == [s.tasks_[t] EXCEPT !.generation = [c \in InChain(s, t) |-> s.chains_[c].generation], !.state = "Active"]

LEMMA StartFields ==
  ASSUME NEW s, SchedulerGood(s), NEW t \in Alive(s)
  PROVE  LET r == do_start_task(s, t)
         IN  /\ r \in State
             /\ r.query = s.query /\ r.failed = s.failed /\ r.limited_tasks_ = s.limited_tasks_
             /\ r.pending_tasks_ = Append(s.pending_tasks_, t)
             /\ DOMAIN r.tasks_ = DOMAIN s.tasks_ /\ r.tasks_[t] = Started(s, t)
             /\ \A u \in DOMAIN s.tasks_ : u # t => r.tasks_[u] = s.tasks_[u]
             /\ \A c \in ChainIds :
                  /\ r.chains_[c].chain = s.chains_[c].chain /\ r.chains_[c].generation = s.chains_[c].generation
                  /\ r.chains_[c].active_tasks = s.chains_[c].active_tasks + (IF c \in InChain(s, t) THEN 1 ELSE 0)
<1> DEFINE r == do_start_task(s, t)
           chains == [c \in ChainIds |-> IF c \in InChain(s, t) THEN [s.chains_[c] EXCEPT !.active_tasks = @ + 1]
                                                               ELSE s.chains_[c]]
           tasks == [s.tasks_ EXCEPT ![t] = Started(s, t)]
<1>0. s \in State /\ t \in DOMAIN s.tasks_ /\ InChain(s, t) \subseteq ChainIds /\ s.tasks_[t] \in Task /\ t \in Nat
  BY AliveMembers DEF SchedulerGood
<1>1. /\ r.query = s.query /\ r.failed = s.failed /\ r.limited_tasks_ = s.limited_tasks_
      /\ r.pending_tasks_ = Append(s.pending_tasks_, t) /\ r.chains_ = chains
  <2>1. r.query = s.query /\ r.failed = s.failed /\ r.limited_tasks_ = s.limited_tasks_
    BY <1>0 DEF do_start_task, State
  <2>2. r.pending_tasks_ = Append(s.pending_tasks_, t)
    BY <1>0 DEF do_start_task, State
  <2>3. r.chains_ = chains
    BY <1>0 DEF do_start_task, State
  <2> QED
    BY <2>1, <2>2, <2>3
<1>2. r.tasks_ = tasks
  BY <1>0 DEF do_start_task, State, Started
<1>3. Started(s, t) \in Task
  <2>1. [c \in InChain(s, t) |-> s.chains_[c].generation] \in [ToSet(Chains(s, t)) -> Nat]
    BY <1>0, StateFields DEF InChain
  <2>2. [c \in InChain(s, t) |-> s.chains_[c].generation] \in Generations
    BY <2>1, <1>0, StateFields, GenerationsIs
  <2> HIDE DEF r
  <2> QED
    BY <2>2, <1>0 DEF Started, Task
<1>4. tasks \in Seq(Task) /\ DOMAIN tasks = DOMAIN s.tasks_
  <2>1. s.tasks_ \in Seq(Task)
    BY <1>0, StateFields
  <2> QED
    BY <2>1, <1>0, <1>3
<1>5. /\ chains \in [ChainIds -> ChainInfo]
      /\ \A c \in ChainIds :
           /\ chains[c].chain = s.chains_[c].chain /\ chains[c].generation = s.chains_[c].generation
           /\ chains[c].active_tasks = s.chains_[c].active_tasks + (IF c \in InChain(s, t) THEN 1 ELSE 0)
  <2>1. s.chains_ \in [ChainIds -> ChainInfo]
    BY <1>0, StateFields
  <2> QED
    BY <2>1, SMTT(40) DEF ChainInfo
<1>6. Append(s.pending_tasks_, t) \in Seq(Nat)
  BY <1>0, StateFields
<1>7. r \in State
  <2>1. /\ r.tasks_ \in Seq(Task) /\ r.chains_ \in [ChainIds -> ChainInfo] /\ r.limited_tasks_ \in [ChainIds -> Nat]
        /\ r.pending_tasks_ \in Seq(Nat) /\ r.failed \in BOOLEAN /\ r.query \in Seq(Query)
    BY <1>0, <1>1, <1>2, <1>4, <1>5, <1>6, StateFields
  <2>2. r = [s EXCEPT !.chains_ = r.chains_, !.tasks_ = r.tasks_, !.pending_tasks_ = r.pending_tasks_]
    BY <1>0 DEF do_start_task, State
  <2> HIDE DEF r, tasks, chains
  <2> QED
    BY <2>1, <2>2, <1>0 DEF State
<1>8. r.tasks_[t] = Started(s, t) /\ \A u \in DOMAIN s.tasks_ : u # t => r.tasks_[u] = s.tasks_[u]
  BY <1>0, <1>2
<1> HIDE DEF r, tasks, chains
<1> QED
  BY <1>1, <1>2, <1>4, <1>5, <1>7, <1>8 DEF r

(* Trying to start tasks keeps the queries, the chains and the tasks, and   *)
(* only a task that waits becomes active.                                   *)
SameLists(s, r) ==
  /\ r.query = s.query /\ DOMAIN r.tasks_ = DOMAIN s.tasks_ /\ Alive(r) = Alive(s)
  /\ \A u \in DOMAIN s.tasks_ : Chains(r, u) = Chains(s, u)
  /\ \A c \in ChainIds : r.chains_[c].chain = s.chains_[c].chain

SameTask(s, r, u) == r.tasks_[u] = s.tasks_[u] /\ (u \in ToSet(r.pending_tasks_) <=> u \in ToSet(s.pending_tasks_))

Tried(s, r) ==
  /\ SameLists(s, r)
  /\ \A u \in DOMAIN s.tasks_ :
       \/ SameTask(s, r, u)
       \/ s.tasks_[u].state = "Pending" /\ r.tasks_[u].state = "Active" /\ u \in ToSet(r.pending_tasks_)

LEMMA SameSets ==
  ASSUME NEW s, NEW r, SameLists(s, r)
  PROVE  /\ \A c \in ChainIds : Members(r, c) = Members(s, c)
         /\ \A u \in DOMAIN s.tasks_ : InChain(r, u) = InChain(s, u)
BY DEF SameLists, Members, InChain

LEMMA StartKeeps ==
  ASSUME NEW s, SchedulerGood(s), NEW t \in Waiting(s),
         \A c \in InChain(s, t) : AtFrontIn(s, t, c) /\ ~Limited(s, c)
  PROVE  LET r == do_start_task(s, t)
         IN  /\ SchedulerGood(r) /\ Tried(s, r) /\ Waiting(r) = Waiting(s) \ {t}
             /\ \A u \in Waiting(r) : \A c \in InChain(s, u) :
                  Held(s, u, c) => Held(r, u, c) \/ (c \in InChain(s, t) /\ u \in Succ(Members(s, c), t))
<1>1. PICK r : r = do_start_task(s, t)
  OBVIOUS
<1>2. t \in Alive(s) /\ s.tasks_[t].state = "Pending" /\ s \in State
  BY DEF Waiting, SchedulerGood
<1>3. /\ r \in State
      /\ r.query = s.query /\ r.failed = s.failed /\ r.limited_tasks_ = s.limited_tasks_
      /\ r.pending_tasks_ = Append(s.pending_tasks_, t)
      /\ DOMAIN r.tasks_ = DOMAIN s.tasks_ /\ r.tasks_[t] = Started(s, t)
      /\ \A u \in DOMAIN s.tasks_ : u # t => r.tasks_[u] = s.tasks_[u]
      /\ \A c \in ChainIds :
           /\ r.chains_[c].chain = s.chains_[c].chain /\ r.chains_[c].generation = s.chains_[c].generation
           /\ r.chains_[c].active_tasks = s.chains_[c].active_tasks + (IF c \in InChain(s, t) THEN 1 ELSE 0)
  BY <1>1, <1>2, StartFields
<1>4. /\ t \in DOMAIN s.tasks_ /\ t \in Nat \ {0} /\ Chains(s, t) \in Seq(ChainIds)
      /\ InChain(s, t) \subseteq ChainIds /\ \A c \in InChain(s, t) : t \in Members(s, c)
      /\ s.tasks_[t] \in Task /\ s.tasks_[t].generation \in [InChain(s, t) -> Nat] /\ TaskGood(s, t)
  BY <1>2, AliveMembers
<1>5. /\ Started(s, t).state = "Active" /\ Started(s, t).chains = Chains(s, t)
      /\ Started(s, t).generation = [c \in InChain(s, t) |-> s.chains_[c].generation]
  BY <1>4 DEF Started, Task, Chains
<1>6. SameLists(s, r)
  <2>1. Alive(r) = Alive(s)
    <3>1. r.tasks_[t] # Erased
      BY <1>3, <1>5 DEF Erased
    <3> QED
      BY <3>1, <1>2, <1>3 DEF Alive
  <2>2. \A u \in DOMAIN s.tasks_ : Chains(r, u) = Chains(s, u)
    BY <1>3, <1>5 DEF Chains
  <2> QED
    BY <2>1, <2>2, <1>3 DEF SameLists
<1>7. ToSet(r.pending_tasks_) = ToSet(s.pending_tasks_) \cup {t}
  BY <1>2, <1>3, <1>4, StateFields, ToSetAppend
<1>8. Tried(s, r)
  <2> SUFFICES ASSUME NEW u \in DOMAIN s.tasks_
      PROVE  \/ SameTask(s, r, u)
             \/ s.tasks_[u].state = "Pending" /\ r.tasks_[u].state = "Active" /\ u \in ToSet(r.pending_tasks_)
    BY <1>6 DEF Tried
  <2>1. CASE u = t
    BY <2>1, <1>2, <1>3, <1>5, <1>7
  <2>2. CASE u # t
    BY <2>2, <1>3, <1>7 DEF SameTask
  <2> QED
    BY <2>1, <2>2
<1>9. Alive(r) = Alive(s) /\ \A u \in DOMAIN s.tasks_ : Chains(r, u) = Chains(s, u) /\ InChain(r, u) = InChain(s, u)
  BY <1>6, SameSets DEF SameLists
<1>10. \A c \in ChainIds : Members(r, c) = Members(s, c)
  BY <1>6, SameSets
<1>11. Waiting(r) = Waiting(s) \ {t}
  BY <1>2, <1>3, <1>5, <1>9 DEF Waiting, Alive
<1>12. ASSUME NEW c \in InChain(s, t)
       PROVE  /\ Working(r, c) = Working(s, c) \cup {t} /\ t \in Members(s, c) \ Working(s, c)
              /\ Gens(r, c) = [Gens(s, c) EXCEPT ![t] = s.chains_[c].generation]
  <2>1. c \in ChainIds /\ t \in Members(s, c) /\ Members(r, c) = Members(s, c)
    BY <1>4, <1>10
  <2>2. \A u \in Members(s, c) : u \in DOMAIN s.tasks_
    BY <2>1, MembersAlive
  <2>3. r.tasks_[t].state = "Active" /\ r.tasks_[t].generation[c] = s.chains_[c].generation
    BY <1>3, <1>5
  <2>4. Working(r, c) = Working(s, c) \cup {t} /\ t \notin Working(s, c)
    BY <2>1, <2>2, <2>3, <1>2, <1>3 DEF Working
  <2>5. Gens(r, c) = [Gens(s, c) EXCEPT ![t] = s.chains_[c].generation]
    BY <2>1, <2>2, <2>3, <1>3 DEF Gens
  <2> QED
    BY <2>1, <2>4, <2>5
<1>13. ASSUME NEW c \in ChainIds, c \notin InChain(s, t)
       PROVE  Working(r, c) = Working(s, c) /\ Gens(r, c) = Gens(s, c)
  <2>1. t \notin Members(s, c)
    BY <1>13, MembersAlive
  <2>2. \A u \in Members(s, c) : u \in DOMAIN s.tasks_ /\ r.tasks_[u] = s.tasks_[u]
    BY <2>1, <1>3, MembersAlive
  <2> QED
    BY <2>2, <1>10 DEF Working, Gens
<1>14. ASSUME NEW c \in ChainIds PROVE ChainGoodIn(r, c)
  <2>1. ChainGood(Members(s, c), Working(s, c), Gens(s, c), s.chains_[c].generation, s.chains_[c].active_tasks)
    BY DEF SchedulerGood, ChainGoodIn
  <2>2. CASE c \in InChain(s, t)
    <3>1. AtFrontIn(s, t, c) /\ ~(s.chains_[c].active_tasks >= MaxActive)
      BY <2>2 DEF Limited
    <3>2. ChainGood(Members(s, c), Working(s, c) \cup {t}, [Gens(s, c) EXCEPT ![t] = s.chains_[c].generation],
                    s.chains_[c].generation, s.chains_[c].active_tasks + 1)
      BY <2>1, <2>2, <3>1, <1>12, ChainStart DEF AtFrontIn
    <3>3. r.chains_[c].active_tasks = s.chains_[c].active_tasks + 1 /\ r.chains_[c].generation = s.chains_[c].generation
      BY <2>2, <1>3
    <3> QED
      BY <3>2, <3>3, <2>2, <1>10, <1>12 DEF ChainGoodIn
  <2>3. CASE c \notin InChain(s, t)
    <3>1. r.chains_[c].active_tasks = s.chains_[c].active_tasks /\ r.chains_[c].generation = s.chains_[c].generation
      BY <2>3, <1>2, <1>3, StateFields
    <3> QED
      BY <3>1, <2>1, <2>3, <1>10, <1>13 DEF ChainGoodIn
  <2> QED
    BY <2>2, <2>3
<1>15. SchedulerGood(r)
  <2>1. ASSUME NEW u \in Alive(r) PROVE TaskGood(r, u)
    <3>0. u \in DOMAIN s.tasks_ /\ TaskGood(s, u) /\ Chains(r, u) = Chains(s, u) /\ InChain(r, u) = InChain(s, u)
      BY <1>9, AliveMembers
    <3>1. CASE u = t
      BY <3>0, <3>1, <1>3, <1>5 DEF TaskGood
    <3>2. CASE u # t
      BY <3>0, <3>2, <1>3 DEF TaskGood
    <3> QED
      BY <3>1, <3>2
  <2>2. ASSUME NEW c \in ChainIds PROVE ListGood(r, c)
    <3>1. Increasing(s.chains_[c].chain) /\ Members(s, c) = {u \in Alive(s) : c \in InChain(s, u)}
      BY DEF SchedulerGood, ListGood
    <3>2. \A u \in Alive(s) : InChain(r, u) = InChain(s, u)
      BY <1>9 DEF Alive
    <3> QED
      BY <3>1, <3>2, <1>3, <1>9, <1>10 DEF ListGood
  <2>3. \A c \in ChainIds : r.limited_tasks_[c] = 0 \/ r.limited_tasks_[c] \in Members(r, c)
    BY <1>3, <1>10 DEF SchedulerGood
  <2>4. PendingGood(r)
    <3>1. t \notin ToSet(s.pending_tasks_) /\ IsInjective(s.pending_tasks_)
      BY <1>2 DEF SchedulerGood, PendingGood
    <3>2. IsInjective(r.pending_tasks_)
      <4>1. PICK p : p = s.pending_tasks_
        OBVIOUS
      <4>2. p \in Seq(Nat) /\ Len(p) \in Nat /\ DOMAIN p = 1..Len(p) /\ \A i \in 1..Len(p) : p[i] # t
        BY <4>1, <3>1, <1>2, StateFields DEF ToSet
      <4>3. \A i, j \in 1..Len(p) : p[i] = p[j] => i = j
        BY <4>1, <4>2, <3>1 DEF IsInjective
      <4>4. /\ DOMAIN Append(p, t) = 1..(Len(p) + 1)
            /\ \A i \in 1..(Len(p) + 1) : Append(p, t)[i] = IF i = Len(p) + 1 THEN t ELSE p[i]
        BY <4>2
      <4>5. \A i, j \in 1..(Len(p) + 1) : Append(p, t)[i] = Append(p, t)[j] => i = j
        BY <4>2, <4>3, <4>4
      <4>6. IsInjective(Append(p, t))
        BY <4>4, <4>5 DEF IsInjective
      <4> QED
        BY <4>1, <4>6, <1>3
    <3>3. ASSUME NEW u \in ToSet(r.pending_tasks_) PROVE u \in Alive(r) /\ r.tasks_[u].state = "Active"
      <4>1. CASE u = t
        BY <4>1, <1>2, <1>3, <1>5, <1>9
      <4>2. CASE u # t
        BY <4>2, <1>3, <1>7, <1>9 DEF SchedulerGood, PendingGood, Alive
      <4> QED
        BY <4>1, <4>2
    <3> QED
      BY <3>2, <3>3 DEF PendingGood
  <2>5. ~r.failed
    BY <1>3 DEF SchedulerGood
  <2> QED
    BY <2>1, <2>2, <2>3, <2>4, <2>5, <1>3, <1>14 DEF SchedulerGood
<1>16. ASSUME NEW u \in Waiting(r), NEW c \in InChain(s, u), Held(s, u, c)
       PROVE  Held(r, u, c) \/ (c \in InChain(s, t) /\ u \in Succ(Members(s, c), t))
  <2>0. u \in Alive(s) /\ u \in Alive(r) /\ s.tasks_[u].state = "Pending" /\ u # t
    BY <1>9, <1>11 DEF Waiting
  <2>1. c \in ChainIds /\ u \in Members(s, c) /\ u \in Members(r, c) /\ u \notin Working(s, c)
    BY <2>0, <1>10, AliveMembers DEF Working
  <2>2. /\ Held(s, u, c) <=> ~AtFrontIn(s, u, c) \/ (Limited(s, c) /\ s.limited_tasks_[c] = u)
        /\ Held(r, u, c) <=> ~AtFrontIn(r, u, c) \/ (Limited(r, c) /\ r.limited_tasks_[c] = u)
    BY <2>1, <1>15, VerdictIs
  <2>3. CASE c \notin InChain(s, t)
    <3>1. r.chains_[c].active_tasks = s.chains_[c].active_tasks /\ r.chains_[c].generation = s.chains_[c].generation
      BY <2>1, <2>3, <1>2, <1>3, StateFields
    <3>2. (AtFrontIn(r, u, c) <=> AtFrontIn(s, u, c)) /\ (Limited(r, c) <=> Limited(s, c))
      BY <2>1, <2>3, <3>1, <1>10, <1>13 DEF AtFrontIn, Limited
    <3> QED
      BY <3>2, <2>2, <1>3, <1>16
  <2>4. CASE c \in InChain(s, t)
    <3>1. ChainGood(Members(s, c), Working(s, c), Gens(s, c), s.chains_[c].generation, s.chains_[c].active_tasks)
      BY <2>1 DEF SchedulerGood, ChainGoodIn
    <3>2. AtFrontIn(s, t, c) /\ ~(s.chains_[c].active_tasks >= MaxActive)
      BY <2>4 DEF Limited
    <3>3. ~AtFront(Members(s, c), [Gens(s, c) EXCEPT ![t] = s.chains_[c].generation], s.chains_[c].generation, u)
            \/ u \in Succ(Members(s, c), t)
      BY <2>0, <2>1, <2>4, <3>1, <3>2, <1>12, ChainStart DEF AtFrontIn
    <3>4. ~AtFrontIn(r, u, c) \/ u \in Succ(Members(s, c), t)
      BY <3>3, <2>1, <2>4, <1>3, <1>10, <1>12 DEF AtFrontIn
    <3> QED
      BY <3>4, <2>2, <2>4
  <2> QED
    BY <2>3, <2>4
<1> QED
  BY <1>1, <1>8, <1>11, <1>15, <1>16

(* The children of a task: those behind it in its chains.                   *)
LEMMA ChildrenAre ==
  ASSUME NEW s, SchedulerGood(s), NEW t \in Alive(s)
  PROVE  /\ for_each_child(s, t) \in Seq(Nat)
         /\ ToSet(for_each_child(s, t)) = UNION {Succ(Members(s, c), t) : c \in InChain(s, t)}
         /\ ToSet(for_each_child(s, t)) \subseteq Alive(s) \ {t}
         /\ Len(for_each_child(s, t)) \in Nat /\ Len(for_each_child(s, t)) <= Cardinality(ChainIds)
<1> DEFINE seqs == [k \in DOMAIN Chains(s, t) |-> get_child(s, Chains(s, t)[k], t)]
<1>1. PICK l : l = Chains(s, t)
  OBVIOUS
<1>2. l \in Seq(ChainIds) /\ IsInjective(l) /\ InChain(s, t) = ToSet(l) /\ InChain(s, t) \subseteq ChainIds
  BY <1>1, AliveMembers DEF TaskGood, InChain
<1>3. ASSUME NEW c \in InChain(s, t)
      PROVE  /\ get_child(s, c, t) \in Seq(Nat) /\ Len(get_child(s, c, t)) <= 1
             /\ ToSet(get_child(s, c, t)) = Succ(Members(s, c), t)
  <2>1. c \in ChainIds /\ t \in Members(s, c)
    BY AliveMembers
  <2>2. s.chains_[c].chain \in Seq(Nat) /\ Increasing(s.chains_[c].chain)
    BY <2>1, StateFields DEF SchedulerGood, ListGood
  <2> QED
    BY <2>1, <2>2, ChildIs
<1>4. Len(l) \in Nat /\ DOMAIN l = 1..Len(l) /\ \A k \in 1..Len(l) : l[k] \in InChain(s, t)
  BY <1>2 DEF ToSet
<1>5. /\ seqs \in Seq(Seq(Nat)) /\ DOMAIN seqs = DOMAIN l /\ Len(seqs) = Len(l)
      /\ \A k \in DOMAIN seqs : seqs[k] = get_child(s, l[k], t)
  <2>1. \A k \in 1..Len(l) : get_child(s, l[k], t) \in Seq(Nat)
    BY <1>3, <1>4
  <2>2. seqs = [k \in 1..Len(l) |-> get_child(s, l[k], t)]
    BY <1>1, <1>4
  <2> HIDE DEF seqs
  <2> QED
    BY <2>1, <2>2, <1>4
<1>6. for_each_child(s, t) = FlattenSeq(seqs)
  BY DEF for_each_child
<1> HIDE DEF seqs
<1>7. /\ FlattenSeq(seqs) \in Seq(Nat)
      /\ ToSet(FlattenSeq(seqs)) = UNION {ToSet(seqs[k]) : k \in DOMAIN seqs}
      /\ (\A k \in DOMAIN seqs : Len(seqs[k]) <= 1) => Len(FlattenSeq(seqs)) <= Len(seqs)
  BY <1>5, FlattenProperties
<1>8. \A k \in DOMAIN seqs : Len(seqs[k]) <= 1 /\ ToSet(seqs[k]) = Succ(Members(s, l[k]), t)
  BY <1>3, <1>4, <1>5
<1>9. ToSet(FlattenSeq(seqs)) = UNION {Succ(Members(s, c), t) : c \in InChain(s, t)}
  <2>1. UNION {ToSet(seqs[k]) : k \in DOMAIN seqs} = UNION {Succ(Members(s, l[k]), t) : k \in DOMAIN l}
    BY <1>5, <1>8
  <2>2. InChain(s, t) = {l[k] : k \in DOMAIN l}
    BY <1>2 DEF ToSet
  <2> QED
    BY <2>1, <2>2, <1>7
<1>10. Len(l) <= Cardinality(ChainIds)
  <2>1. l \in Injection(1..Len(l), ChainIds)
    BY <1>2, <1>4 DEF Injection, IsInjective
  <2>2. IsFiniteSet(ChainIds)
    BY ChainSchedulerAssumption
  <2>3. Cardinality(1..Len(l)) <= Cardinality(ChainIds)
    BY <2>1, <2>2, FS_Injection
  <2>4. Cardinality(1..Len(l)) = Len(l)
    BY <1>4, FS_Interval, SMTT(40)
  <2> QED
    BY <2>3, <2>4
<1>11. ASSUME NEW u \in ToSet(for_each_child(s, t)) PROVE u \in Alive(s) /\ u # t
  <2>1. PICK c \in InChain(s, t) : u \in Succ(Members(s, c), t)
    BY <1>6, <1>9
  <2>2. u \in Members(s, c) /\ t < u /\ c \in ChainIds
    BY <2>1, <1>2 DEF Succ
  <2>3. t \in Nat /\ u \in Nat
    BY <2>2, MembersAlive, AliveMembers
  <2> QED
    BY <2>2, <2>3, MembersAlive
<1>12. Cardinality(ChainIds) \in Nat
  BY ChainSchedulerAssumption, FS_CardinalityType
<1>13. Len(FlattenSeq(seqs)) <= Len(l)
  BY <1>5, <1>7, <1>8
<1>14. Len(FlattenSeq(seqs)) \in Nat
  BY <1>7
<1>15. Len(FlattenSeq(seqs)) <= Cardinality(ChainIds)
  <2> DEFINE x == Len(FlattenSeq(seqs))
             y == Len(l)
             z == Cardinality(ChainIds)
  <2>1. x \in Nat /\ y \in Nat /\ z \in Nat /\ x <= y /\ y <= z
    BY <1>4, <1>10, <1>12, <1>13, <1>14
  <2> HIDE DEF x, y, z
  <2>2. x <= z
    BY <2>1
  <2> QED
    BY <2>2 DEF x, z
<1> QED
  BY <1>6, <1>7, <1>9, <1>11, <1>14, <1>15

(* limited_tasks_ remembers a task.                                         *)
LEMMA LimitKeeps ==
  ASSUME NEW s, SchedulerGood(s), NEW t \in Waiting(s), NEW c \in InChain(s, t), AtFrontIn(s, t, c), Limited(s, c)
  PROVE  LET r == [s EXCEPT !.limited_tasks_[c] = t]
         IN  /\ SchedulerGood(r) /\ Tried(s, r) /\ Waiting(r) = Waiting(s) /\ Held(r, t, c)
             /\ r.tasks_ = s.tasks_ /\ r.chains_ = s.chains_ /\ r.pending_tasks_ = s.pending_tasks_
             /\ \A u \in Waiting(r) : \A e \in InChain(s, u) : Held(s, u, e) => Held(r, u, e)
<1>1. PICK r : r = [s EXCEPT !.limited_tasks_[c] = t]
  OBVIOUS
<1>2. t \in Alive(s) /\ s.tasks_[t].state = "Pending" /\ s \in State
  BY DEF Waiting, SchedulerGood
<1>3. t \in Nat /\ c \in ChainIds /\ t \in Members(s, c)
  BY <1>2, AliveMembers
<1>4. /\ r.tasks_ = s.tasks_ /\ r.chains_ = s.chains_ /\ r.pending_tasks_ = s.pending_tasks_
      /\ r.failed = s.failed /\ r.query = s.query /\ r \in State
      /\ \A e \in ChainIds : r.limited_tasks_[e] = IF e = c THEN t ELSE s.limited_tasks_[e]
  BY <1>1, <1>2, <1>3 DEF State
<1>5. /\ Alive(r) = Alive(s) /\ Waiting(r) = Waiting(s)
      /\ \A u \in DOMAIN s.tasks_ : Chains(r, u) = Chains(s, u)
      /\ \A u : InChain(r, u) = InChain(s, u)
  BY <1>4 DEF Alive, Waiting, Chains, InChain
<1>6. Tried(s, r)
  BY <1>4, <1>5 DEF Tried, SameLists, SameTask
<1>7. \A e : Members(r, e) = Members(s, e) /\ Working(r, e) = Working(s, e) /\ Gens(r, e) = Gens(s, e)
  BY <1>4 DEF Members, Working, Gens
<1>8. SchedulerGood(r)
  <2>1. \A u \in Alive(r) : TaskGood(r, u)
    BY <1>4, <1>5 DEF SchedulerGood, TaskGood, Chains
  <2>2. \A e \in ChainIds : ListGood(r, e)
    BY <1>4, <1>5, <1>7 DEF SchedulerGood, ListGood
  <2>3. \A e \in ChainIds : ChainGoodIn(r, e)
    BY <1>4, <1>7 DEF SchedulerGood, ChainGoodIn
  <2>4. \A e \in ChainIds : r.limited_tasks_[e] = 0 \/ r.limited_tasks_[e] \in Members(r, e)
    BY <1>3, <1>4, <1>7 DEF SchedulerGood
  <2>5. PendingGood(r) /\ ~r.failed
    BY <1>4, <1>5 DEF SchedulerGood, PendingGood
  <2> QED
    BY <2>1, <2>2, <2>3, <2>4, <2>5, <1>4 DEF SchedulerGood
<1>9. \A u, e : (AtFrontIn(r, u, e) <=> AtFrontIn(s, u, e)) /\ (Limited(r, e) <=> Limited(s, e))
  BY <1>4, <1>7 DEF AtFrontIn, Limited
<1>10. Held(r, t, c)
  BY <1>3, <1>4, <1>7, <1>8, <1>9, VerdictIs
<1>11. ASSUME NEW u \in Waiting(r), NEW e \in InChain(s, u), Held(s, u, e) PROVE Held(r, u, e)
  <2>1. u \in Alive(s) /\ s.tasks_[u].state = "Pending"
    BY <1>5 DEF Waiting
  <2>2. e \in ChainIds /\ u \in Members(s, e) /\ u \in Members(r, e)
    BY <2>1, <1>7, AliveMembers
  <2>3. /\ Held(s, u, e) <=> ~AtFrontIn(s, u, e) \/ (Limited(s, e) /\ s.limited_tasks_[e] = u)
        /\ Held(r, u, e) <=> ~AtFrontIn(r, u, e) \/ (Limited(r, e) /\ r.limited_tasks_[e] = u)
    BY <2>2, <1>8, VerdictIs
  <2>4. CASE e # c \/ u = t
    BY <2>2, <2>3, <2>4, <1>4, <1>9, <1>10, <1>11
  <2>5. CASE e = c /\ u # t
    <3>1. ChainGood(Members(s, c), Working(s, c), Gens(s, c), s.chains_[c].generation, s.chains_[c].active_tasks)
      BY <1>3 DEF SchedulerGood, ChainGoodIn
    <3>2. t \in Members(s, c) \ Working(s, c) /\ u \in Members(s, c) \ Working(s, c)
      BY <1>2, <1>3, <2>1, <2>2, <2>5 DEF Working
    <3>3. ~AtFrontIn(s, u, c)
      BY <3>1, <3>2, <2>5, OneFront DEF AtFrontIn
    <3> QED
      BY <3>3, <2>3, <2>5, <1>9
  <2> QED
    BY <2>4, <2>5
<1> QED
  BY <1>1, <1>4, <1>5, <1>6, <1>8, <1>10, <1>11

-----------------------------------------------------------------------------
(* try_start_tasks.                                                         *)

TryGood(s, todo) ==
  /\ SchedulerGood(s) /\ todo \in Seq(Nat) /\ ToSet(todo) \subseteq Alive(s) /\ Reasons(s, todo)

SameTasks(s, r) == r.tasks_ = s.tasks_ /\ r.chains_ = s.chains_ /\ r.pending_tasks_ = s.pending_tasks_

(* Every task that waits is refused by one of its chains.                   *)
AllRefused(s) == \A t \in Waiting(s) : \E c \in InChain(s, t) : Verdict(s, t, c) # "start"

LEMMA TriedReflexive ==
  ASSUME NEW s
  PROVE  Tried(s, s)
BY DEF Tried, SameLists, SameTask

LEMMA TriedTransitive ==
  ASSUME NEW s, NEW r, NEW q, Tried(s, r), Tried(r, q)
  PROVE  Tried(s, q)
<1>1. SameLists(s, q)
  BY DEF Tried, SameLists
<1>2. ASSUME NEW u \in DOMAIN s.tasks_
      PROVE  \/ SameTask(s, q, u)
             \/ s.tasks_[u].state = "Pending" /\ q.tasks_[u].state = "Active" /\ u \in ToSet(q.pending_tasks_)
  <2>1. u \in DOMAIN r.tasks_
    BY DEF Tried, SameLists
  <2>2. \/ SameTask(s, r, u)
        \/ s.tasks_[u].state = "Pending" /\ r.tasks_[u].state = "Active" /\ u \in ToSet(r.pending_tasks_)
    BY DEF Tried
  <2>3. \/ SameTask(r, q, u)
        \/ r.tasks_[u].state = "Pending" /\ q.tasks_[u].state = "Active" /\ u \in ToSet(q.pending_tasks_)
    BY <2>1 DEF Tried
  <2> QED
    BY <2>2, <2>3 DEF SameTask
<1> QED
  BY <1>1, <1>2 DEF Tried

(* A step: either a task of the list is dealt with, or it is started.       *)
Dealt(st, r) == Waiting(r.s) = Waiting(st.s) /\ Len(r.todo) = Len(st.todo) - 1 /\ SameTasks(st.s, r.s)

Starts(st, r) ==
  \E t \in Waiting(st.s) :
    /\ Waiting(r.s) = Waiting(st.s) \ {t} /\ Len(r.todo) <= Len(st.todo) - 1 + Cardinality(ChainIds)
    /\ \A c \in InChain(st.s, t) : Verdict(st.s, t, c) = "start"

LEMMA TryFirstKeeps ==
  ASSUME NEW st, TryGood(st.s, st.todo), st.todo # <<>>
  PROVE  LET r == TryFirst(st)
         IN  TryGood(r.s, r.todo) /\ Tried(st.s, r.s) /\ (Dealt(st, r) \/ Starts(st, r))
<1>1. PICK s, todo, r : s = st.s /\ todo = st.todo /\ r = TryFirst(st)
  OBVIOUS
<1>2. PICK t, rest : t = Head(todo) /\ rest = Tail(todo)
  OBVIOUS
<1>3. SchedulerGood(s) /\ todo \in Seq(Nat) /\ todo # <<>> /\ ToSet(todo) \subseteq Alive(s) /\ Reasons(s, todo)
  BY <1>1 DEF TryGood
<1>4. /\ t \in Nat /\ rest \in Seq(Nat) /\ ToSet(todo) = {t} \cup ToSet(rest)
      /\ Len(todo) \in Nat \ {0} /\ Len(rest) = Len(todo) - 1
  BY <1>2, <1>3, ToSetHead
<1>5. t \in Alive(s)
  BY <1>3, <1>4
<1> DEFINE refusals == {k \in DOMAIN Chains(s, t) : Verdict(s, t, Chains(s, t)[k]) # "start"}
           c == Chains(s, t)[Min(refusals)]
<1>6. r = IF s.tasks_[t].state # "Pending" THEN [s |-> s, todo |-> rest]
          ELSE IF refusals = {} THEN [s |-> do_start_task(s, t), todo |-> for_each_child(s, t) \o rest]
          ELSE [s |-> IF Verdict(s, t, c) = "limited" THEN [s EXCEPT !.limited_tasks_[c] = t] ELSE s,
                todo |-> rest]
  BY <1>1, <1>2, <1>5 DEF TryFirst
<1>7. ASSUME NEW q, SchedulerGood(q), Tried(s, q), SameTasks(s, q), Waiting(q) = Waiting(s), r = [s |-> q, todo |-> rest],
             \A u \in Waiting(q) : \A e \in InChain(s, u) : Held(s, u, e) => Held(q, u, e),
             t \in Waiting(q) => \E e \in InChain(q, t) : Held(q, t, e)
      PROVE  TryGood(r.s, r.todo) /\ Tried(st.s, r.s) /\ (Dealt(st, r) \/ Starts(st, r))
  <2>1. r.s = q /\ r.todo = rest
    BY <1>7
  <2>2. Alive(q) = Alive(s) /\ \A u : InChain(q, u) = InChain(s, u)
    BY <1>7 DEF SameTasks, Alive, InChain, Chains
  <2>3. Reasons(q, rest)
    <3> SUFFICES ASSUME NEW u \in Waiting(q), u \notin ToSet(rest) PROVE \E e \in InChain(q, u) : Held(q, u, e)
      BY DEF Reasons
    <3>1. CASE u = t
      BY <3>1, <1>7
    <3>2. CASE u # t
      <4>1. u \in Waiting(s) \ ToSet(todo)
        BY <3>2, <1>4, <1>7
      <4>2. PICK e \in InChain(s, u) : Held(s, u, e)
        BY <4>1, <1>3 DEF Reasons
      <4> QED
        BY <4>2, <1>7, <2>2
    <3> QED
      BY <3>1, <3>2
  <2>4. TryGood(q, rest)
    BY <2>2, <2>3, <1>3, <1>4, <1>7 DEF TryGood
  <2>5. Dealt(st, r)
    BY <2>1, <1>1, <1>4, <1>7 DEF Dealt
  <2> QED
    BY <2>1, <2>4, <2>5, <1>1, <1>7
<1>8. CASE s.tasks_[t].state # "Pending"
  <2>1. t \notin Waiting(s)
    BY <1>8 DEF Waiting
  <2>2. r = [s |-> s, todo |-> rest]
    BY <1>6, <1>8
  <2>3. Tried(s, s) /\ SameTasks(s, s)
    BY TriedReflexive DEF SameTasks
  <2> QED
    BY <2>1, <2>2, <2>3, <1>1, <1>3, <1>7
<1>9. CASE s.tasks_[t].state = "Pending" /\ refusals = {}
  <2>1. t \in Waiting(s) /\ r = [s |-> do_start_task(s, t), todo |-> for_each_child(s, t) \o rest]
    BY <1>5, <1>6, <1>9 DEF Waiting
  <2>2. PICK q : q = do_start_task(s, t)
    OBVIOUS
  <2>3. \A e \in InChain(s, t) : Verdict(s, t, e) = "start"
    BY <1>9 DEF InChain, ToSet
  <2>4. \A e \in InChain(s, t) : AtFrontIn(s, t, e) /\ ~Limited(s, e)
    BY <2>3, <1>3, <1>5, AliveMembers, VerdictIs
  <2>5. /\ SchedulerGood(q) /\ Tried(s, q) /\ Waiting(q) = Waiting(s) \ {t}
        /\ \A u \in Waiting(q) : \A e \in InChain(s, u) :
             Held(s, u, e) => Held(q, u, e) \/ (e \in InChain(s, t) /\ u \in Succ(Members(s, e), t))
    BY <2>1, <2>2, <2>4, <1>3, StartKeeps
  <2>6. PICK children : children = for_each_child(s, t)
    OBVIOUS
  <2>7. /\ children \in Seq(Nat) /\ ToSet(children) = UNION {Succ(Members(s, e), t) : e \in InChain(s, t)}
        /\ ToSet(children) \subseteq Alive(s) /\ Len(children) \in Nat /\ Len(children) <= Cardinality(ChainIds)
    BY <2>6, <1>3, <1>5, ChildrenAre
  <2>8. r.s = q /\ r.todo = children \o rest /\ children \o rest \in Seq(Nat)
    BY <2>1, <2>2, <2>6, <2>7, <1>4
  <2>9. ToSet(children \o rest) = ToSet(children) \cup ToSet(rest)
    BY <2>7, <1>4, ToSetConcat
  <2>10. Alive(q) = Alive(s) /\ \A u \in Alive(s) : InChain(q, u) = InChain(s, u)
    BY <2>5, SameSets DEF Tried, SameLists, Alive
  <2>11. Reasons(q, children \o rest)
    <3> SUFFICES ASSUME NEW u \in Waiting(q), u \notin ToSet(children \o rest)
        PROVE  \E e \in InChain(q, u) : Held(q, u, e)
      BY DEF Reasons
    <3>1. u \in Waiting(s) \ ToSet(todo) /\ u \in Alive(s) /\ u \notin ToSet(children)
      BY <2>5, <2>9, <1>4 DEF Waiting
    <3>2. PICK e \in InChain(s, u) : Held(s, u, e)
      BY <3>1, <1>3 DEF Reasons
    <3>3. ~(e \in InChain(s, t) /\ u \in Succ(Members(s, e), t))
      BY <3>1, <2>7
    <3> QED
      BY <3>1, <3>2, <3>3, <2>5, <2>10
  <2>12. TryGood(r.s, r.todo)
    BY <2>5, <2>7, <2>8, <2>9, <2>10, <2>11, <1>3, <1>4 DEF TryGood
  <2>13. Len(children \o rest) <= Len(todo) - 1 + Cardinality(ChainIds)
    <3>1. Len(children \o rest) = Len(children) + Len(rest)
      BY <2>7, <1>4, SMTT(40)
    <3>2. Cardinality(ChainIds) \in Nat
      BY ChainSchedulerAssumption, FS_CardinalityType
    <3> QED
      BY <3>1, <3>2, <2>7, <1>4
  <2>14. Starts(st, r)
    BY <2>1, <2>3, <2>5, <2>8, <2>13, <1>1 DEF Starts
  <2> QED
    BY <2>5, <2>8, <2>12, <2>14, <1>1
<1>10. CASE s.tasks_[t].state = "Pending" /\ refusals # {}
  <2>1. t \in Waiting(s)
    BY <1>5, <1>10 DEF Waiting
  <2>2. refusals \subseteq Nat
    <3>1. Chains(s, t) \in Seq(ChainIds)
      BY <1>3, <1>5, AliveMembers
    <3>2. DOMAIN Chains(s, t) \subseteq Nat
      BY <3>1
    <3> QED
      BY <3>2
  <2>3. \E k \in refusals : \A j \in refusals : k <= j
    BY <2>2, <1>10, Lemmas!LeastNumber
  <2>4. Min(refusals) \in refusals
    <3> HIDE DEF refusals
    <3> QED
      BY <2>3 DEF Min
  <2>5. c \in InChain(s, t) /\ Verdict(s, t, c) # "start"
    BY <2>4 DEF InChain, ToSet
  <2> HIDE DEF refusals, c
  <2>6. /\ c \in ChainIds /\ t \in Members(s, c)
        /\ Held(s, t, c) <=> ~AtFrontIn(s, t, c) \/ (Limited(s, c) /\ s.limited_tasks_[c] = t)
        /\ Verdict(s, t, c) = "start" <=> AtFrontIn(s, t, c) /\ ~Limited(s, c)
        /\ Verdict(s, t, c) = "limited" <=> AtFrontIn(s, t, c) /\ Limited(s, c)
    BY <2>5, <1>3, <1>5, AliveMembers, VerdictIs
  <2>7. CASE Verdict(s, t, c) = "limited"
    <3>1. PICK q : q = [s EXCEPT !.limited_tasks_[c] = t]
      OBVIOUS
    <3>2. /\ SchedulerGood(q) /\ Tried(s, q) /\ Waiting(q) = Waiting(s) /\ Held(q, t, c) /\ SameTasks(s, q)
          /\ \A u \in Waiting(q) : \A e \in InChain(s, u) : Held(s, u, e) => Held(q, u, e)
      BY <3>1, <2>1, <2>5, <2>6, <2>7, <1>3, LimitKeeps DEF SameTasks
    <3>3. r = [s |-> q, todo |-> rest]
      BY <3>1, <2>7, <1>6, <1>10
    <3>4. InChain(q, t) = InChain(s, t)
      BY <3>2 DEF SameTasks, InChain, Chains
    <3> QED
      BY <3>2, <3>3, <3>4, <2>5, <1>1, <1>7
  <2>8. CASE Verdict(s, t, c) # "limited"
    <3>1. Held(s, t, c)
      BY <2>5, <2>6, <2>8
    <3>2. r = [s |-> s, todo |-> rest]
      BY <2>8, <1>6, <1>10
    <3>3. Tried(s, s) /\ SameTasks(s, s)
      BY TriedReflexive DEF SameTasks
    <3> QED
      BY <3>1, <3>2, <3>3, <2>5, <1>1, <1>3, <1>7
  <2> QED
    BY <2>7, <2>8
<1> QED
  BY <1>1, <1>8, <1>9, <1>10

LEMMA Product ==
  ASSUME NEW a \in Nat, NEW b \in Nat, NEW k \in Nat, a <= b
  PROVE  a * k \in Nat /\ b * k \in Nat /\ a * k <= b * k /\ (a < b => a * k + k <= b * k)
<1>1. PICK e \in Nat : b = a + e
  <2>1. b - a \in Nat /\ b = a + (b - a)
    OBVIOUS
  <2> QED
    BY <2>1
<1>2. b * k = a * k + e * k /\ a * k \in Nat /\ e * k \in Nat
  BY <1>1
<1>3. e # 0 => e * k >= k
  <2> SUFFICES ASSUME e # 0 PROVE e * k >= k
    OBVIOUS
  <2>1. PICK f \in Nat : e = f + 1
    <3>1. e - 1 \in Nat /\ e = (e - 1) + 1
      OBVIOUS
    <3> QED
      BY <3>1
  <2>2. e * k = f * k + k /\ f * k \in Nat
    BY <2>1
  <2> QED
    BY <2>2
<1> QED
  BY <1>1, <1>2, <1>3

LEMMA WaitingFinite ==
  ASSUME NEW s \in State
  PROVE  IsFiniteSet(Waiting(s)) /\ Cardinality(Waiting(s)) \in Nat /\ Cardinality(Waiting(s)) <= Len(s.tasks_)
<1>1. Len(s.tasks_) \in Nat /\ Waiting(s) \in SUBSET (1..Len(s.tasks_))
  BY StateFields DEF Waiting, Alive
<1>2. IsFiniteSet(1..Len(s.tasks_)) /\ Cardinality(1..Len(s.tasks_)) = Len(s.tasks_)
  BY <1>1, FS_Interval, SMTT(40)
<1> QED
  BY <1>1, <1>2, FS_Subset, FS_CardinalityType

(* The attempts that are left are enough for the tasks that are left.       *)
Enough(st, i, n) == Len(st.todo) + Cardinality(Waiting(st.s)) * Cardinality(ChainIds) + i <= n

LEMMA TryStep ==
  ASSUME NEW st, TryGood(st.s, st.todo), st.todo # <<>>, NEW i \in Nat \ {0}, NEW n \in Nat, Enough(st, i - 1, n)
  PROVE  Enough(TryFirst(st), i, n)
<1>1. PICK r : r = TryFirst(st)
  OBVIOUS
<1>2. TryGood(r.s, r.todo) /\ (Dealt(st, r) \/ Starts(st, r))
  BY <1>1, TryFirstKeeps
<1> DEFINE K == Cardinality(ChainIds)
           W == Cardinality(Waiting(st.s))
           V == Cardinality(Waiting(r.s))
           L == Len(st.todo)
           M == Len(r.todo)
<1>3. /\ IsFiniteSet(Waiting(st.s)) /\ W \in Nat /\ V \in Nat
  BY <1>2, WaitingFinite DEF TryGood, SchedulerGood
<1>4. K \in Nat /\ L \in Nat /\ M \in Nat
  BY <1>2, ChainSchedulerAssumption, FS_CardinalityType DEF TryGood
<1>5. L + W * K + (i - 1) <= n
  BY DEF Enough
<1>6. CASE Dealt(st, r)
  <2>1. V = W /\ M = L - 1
    BY <1>6 DEF Dealt
  <2> HIDE DEF K, W, V, L, M
  <2>2. W * K \in Nat
    BY <1>3, <1>4
  <2>3. M + V * K + i <= n
    BY <2>1, <2>2, <1>3, <1>4, <1>5
  <2> QED
    BY <2>3, <1>1 DEF Enough, K, V, M
<1>7. CASE Starts(st, r)
  <2>1. PICK t \in Waiting(st.s) : Waiting(r.s) = Waiting(st.s) \ {t} /\ M <= L - 1 + K
    BY <1>7 DEF Starts
  <2>2. V = W - 1
    BY <2>1, <1>3, FS_RemoveElement
  <2> HIDE DEF K, W, V, L, M
  <2>3. V * K \in Nat /\ W * K \in Nat /\ V * K + K <= W * K
    BY <2>2, <1>3, <1>4, Product
  <2>4. PICK x, y : x = V * K /\ y = W * K
    OBVIOUS
  <2>5. M + x + i <= n
    BY <2>1, <2>3, <2>4, <1>4, <1>5
  <2>6. M + V * K + i <= n
    BY <2>4, <2>5
  <2> QED
    BY <2>6, <1>1 DEF Enough, K, V, M
<1> QED
  BY <1>2, <1>6, <1>7

(* After try_start_tasks no task is left that could be started.             *)
LEMMA TryKeeps ==
  ASSUME NEW s, NEW todo, TryGood(s, todo)
  PROVE  LET r == try_start_tasks(s, todo)
         IN  /\ SchedulerGood(r) /\ Reasons(r, <<>>) /\ Tried(s, r)
             /\ AllRefused(s) => SameTasks(s, r)
<1>1. PICK n : n = MaxTries(s, todo)
  OBVIOUS
<1> DEFINE K == Cardinality(ChainIds)
           L == Len(todo)
           T == Len(s.tasks_)
           W == Cardinality(Waiting(s))
<1>2. K \in Nat /\ L \in Nat /\ T \in Nat /\ W \in Nat /\ W <= T
  BY ChainSchedulerAssumption, FS_CardinalityType, StateFields, WaitingFinite DEF TryGood, SchedulerGood
<1>3. n = L + T * K
  BY <1>1 DEF MaxTries
<1> HIDE DEF K, L, T, W
<1>4. T * K \in Nat /\ W * K \in Nat /\ W * K <= T * K
  BY <1>2, Product
<1>5. n \in Nat /\ L + W * K + 0 <= n
  <2>1. PICK x, y : x = T * K /\ y = W * K
    OBVIOUS
  <2>2. x \in Nat /\ y \in Nat /\ y <= x /\ n = L + x
    BY <2>1, <1>3, <1>4
  <2>3. n \in Nat /\ L + y + 0 <= n
    BY <2>2, <1>2
  <2> QED
    BY <2>1, <2>3
<1>6. PICK h : Run(h, "try", 0, [s |-> s, todo |-> todo], n) /\ try_start_tasks(s, todo) = h[n].s
  BY <1>1, <1>5, TryRun
<1>7. h[0] = [s |-> s, todo |-> todo] /\ \A i \in 1..n : h[i] = Step("try", 0, i, h[i - 1])
  BY <1>5, <1>6, RunValues
<1>8. \A i \in 1..n : h[i] = IF h[i - 1].todo = <<>> THEN h[i - 1] ELSE TryFirst(h[i - 1])
  BY <1>7 DEF Step
<1> DEFINE P(i) == /\ TryGood(h[i].s, h[i].todo) /\ Tried(s, h[i].s)
                   /\ h[i].todo = <<>> \/ Enough(h[i], i, n)
                   /\ AllRefused(s) => SameTasks(s, h[i].s)
           Ok == {i \in 0..n : P(i)}
<1>9. 0 \in Ok
  <2>1. h[0].s = s /\ h[0].todo = todo
    BY <1>7
  <2>2. Enough(h[0], 0, n)
    BY <2>1, <1>5 DEF Enough, L, W, K
  <2>3. P(0)
    BY <2>1, <2>2, TriedReflexive DEF SameTasks
  <2> QED
    BY <2>3, <1>5
<1>10. ASSUME NEW i \in 1..n, i - 1 \in Ok PROVE i \in Ok
  <2>1. P(i - 1) /\ i \in Nat \ {0} /\ i \in 0..n
    BY <1>10, <1>5
  <2>2. CASE h[i - 1].todo = <<>>
    <3>1. h[i] = h[i - 1]
      BY <2>2, <1>8
    <3> QED
      BY <3>1, <2>1, <2>2
  <2>3. CASE h[i - 1].todo # <<>>
    <3>1. h[i] = TryFirst(h[i - 1])
      BY <2>3, <1>8
    <3>2. TryGood(h[i].s, h[i].todo) /\ Tried(h[i - 1].s, h[i].s) /\ (Dealt(h[i - 1], h[i]) \/ Starts(h[i - 1], h[i]))
      BY <3>1, <2>1, <2>3, TryFirstKeeps
    <3>3. Enough(h[i], i, n)
      BY <3>1, <2>1, <2>3, <1>5, TryStep
    <3>4. Tried(s, h[i].s)
      BY <3>2, <2>1, TriedTransitive
    <3>5. ASSUME AllRefused(s) PROVE SameTasks(s, h[i].s)
      <4>1. SameTasks(s, h[i - 1].s)
        BY <3>5, <2>1
      <4>2. PICK q : q = h[i - 1].s
        OBVIOUS
      <4>3. /\ Waiting(q) = Waiting(s) /\ \A t : InChain(q, t) = InChain(s, t)
            /\ \A t, c : Verdict(q, t, c) = Verdict(s, t, c)
        <5>1. Waiting(q) = Waiting(s) /\ \A t : InChain(q, t) = InChain(s, t)
          BY <4>1, <4>2 DEF SameTasks, Waiting, Alive, InChain, Chains
        <5>2. \A t, c : get_parent(q, c, t) = get_parent(s, c, t)
          BY <4>1, <4>2 DEF SameTasks, get_parent, Position
        <5>3. \A t, c : Verdict(q, t, c) = Verdict(s, t, c)
          BY <4>1, <4>2, <5>2 DEF SameTasks, Verdict, ParentStarted, Limited
        <5> QED
          BY <5>1, <5>3
      <4>4. ~Starts(h[i - 1], h[i])
        BY <4>2, <4>3, <3>5 DEF Starts, AllRefused
      <4> QED
        BY <4>1, <4>4, <3>2 DEF Dealt, SameTasks
    <3> QED
      BY <3>2, <3>3, <3>4, <3>5, <2>1
  <2> QED
    BY <2>2, <2>3
<1>11. n \in Ok
  <2> HIDE DEF Ok
  <2>1. \A i \in 1..n : i - 1 \in Ok => i \in Ok
    BY <1>10
  <2>2. \A i \in 0..n : i \in Ok
    BY <1>5, <1>9, <2>1, StepInduction
  <2> QED
    BY <2>2, <1>5
<1>12. P(n)
  BY <1>11
<1>13. h[n].todo = <<>>
  <2> SUFFICES ASSUME Enough(h[n], n, n), h[n].todo # <<>> PROVE FALSE
    BY <1>12
  <2> DEFINE M == Len(h[n].todo)
             V == Cardinality(Waiting(h[n].s))
  <2>1. M \in Nat \ {0} /\ V \in Nat
    <3>1. h[n].todo \in Seq(Nat) /\ h[n].s \in State
      BY <1>12 DEF TryGood, SchedulerGood
    <3> QED
      BY <3>1, WaitingFinite
  <2>2. M + V * K + n <= n
    BY DEF Enough, K
  <2> HIDE DEF M, V
  <2>3. V * K \in Nat
    BY <2>1, <1>2
  <2> QED
    BY <2>1, <2>2, <2>3, <1>5
<1> HIDE DEF Ok
<1> QED
  BY <1>6, <1>12, <1>13 DEF TryGood

-----------------------------------------------------------------------------
(* inactivate_task.                                                         *)

(* The tasks that it lets start later.                                      *)
LEMMA ToStartIs ==
  ASSUME NEW s, SchedulerGood(s), NEW t \in Alive(s)
  PROVE  /\ ToStart(s, t) \in Seq(Nat) /\ ToSet(ToStart(s, t)) \subseteq Alive(s) \ {t}
         /\ \A c \in InChain(s, t) : s.limited_tasks_[c] \notin {0, t} => s.limited_tasks_[c] \in ToSet(ToStart(s, t))
<1> DEFINE seqs == [k \in DOMAIN Chains(s, t) |->
                      LimitedLater(s, t, Chains(s, t)[k]) \o FirstLater(s, t, Chains(s, t)[k])]
<1>1. PICK l : l = Chains(s, t)
  OBVIOUS
<1>2. l \in Seq(ChainIds) /\ InChain(s, t) = ToSet(l) /\ InChain(s, t) \subseteq ChainIds
  BY <1>1, AliveMembers DEF InChain
<1>3. ASSUME NEW c \in InChain(s, t)
      PROVE  /\ LimitedLater(s, t, c) \in Seq(Nat)
             /\ ToSet(LimitedLater(s, t, c)) = {s.limited_tasks_[c]} \ {0, t}
  <2>1. c \in ChainIds /\ s.limited_tasks_[c] \in Nat
    BY <1>2, StateFields DEF SchedulerGood
  <2>2. CASE s.limited_tasks_[c] \in {0, t}
    <3>1. LimitedLater(s, t, c) = <<>>
      BY <2>2 DEF LimitedLater
    <3> QED
      BY <3>1, <2>2, ToSetSmall
  <2>3. CASE s.limited_tasks_[c] \notin {0, t}
    <3>1. PICK b : b = <<s.limited_tasks_[c]>>
      OBVIOUS
    <3>2. b \in Seq(Nat) /\ ToSet(b) = {s.limited_tasks_[c]}
      BY <3>1, <2>1, ToSetSmall
    <3>3. LimitedLater(s, t, c) = b
      BY <3>1, <2>3 DEF LimitedLater
    <3> QED
      BY <3>2, <3>3, <2>3
  <2> QED
    BY <2>2, <2>3
<1>4. ASSUME NEW c \in InChain(s, t)
      PROVE  FirstLater(s, t, c) \in Seq(Nat) /\ ToSet(FirstLater(s, t, c)) \subseteq Members(s, c) \ {t}
  <2>1. c \in ChainIds /\ s.chains_[c].chain \in Seq(Nat)
    BY <1>2, StateFields DEF SchedulerGood
  <2>2. CASE get_first(s, c) = <<t>>
    <3>1. FirstLater(s, t, c) = <<>>
      BY <2>2 DEF FirstLater
    <3> QED
      BY <3>1, ToSetSmall
  <2>3. CASE get_first(s, c) # <<t>>
    <3>1. FirstLater(s, t, c) = get_first(s, c)
      BY <2>3 DEF FirstLater
    <3>2. get_first(s, c) \in Seq(Nat) /\ ToSet(get_first(s, c)) \subseteq Members(s, c)
      BY <2>1, FirstIs
    <3>3. t \notin ToSet(get_first(s, c))
      <4>1. get_first(s, c) = <<>> \/ get_first(s, c) = <<s.chains_[c].chain[1]>>
        BY DEF get_first
      <4> QED
        BY <4>1, <2>3, ToSetSmall
    <3> QED
      BY <3>1, <3>2, <3>3
  <2> QED
    BY <2>2, <2>3
<1>5. Len(l) \in Nat /\ DOMAIN l = 1..Len(l) /\ \A k \in 1..Len(l) : l[k] \in InChain(s, t)
  BY <1>2 DEF ToSet
<1>6. ASSUME NEW c \in InChain(s, t)
      PROVE  /\ LimitedLater(s, t, c) \o FirstLater(s, t, c) \in Seq(Nat)
             /\ ToSet(LimitedLater(s, t, c) \o FirstLater(s, t, c))
                  = ToSet(LimitedLater(s, t, c)) \cup ToSet(FirstLater(s, t, c))
             /\ ToSet(LimitedLater(s, t, c) \o FirstLater(s, t, c)) \subseteq Alive(s) \ {t}
  <2>1. PICK a, b : a = LimitedLater(s, t, c) /\ b = FirstLater(s, t, c)
    OBVIOUS
  <2>2. a \in Seq(Nat) /\ b \in Seq(Nat)
    BY <2>1, <1>3, <1>4
  <2>3. a \o b \in Seq(Nat) /\ ToSet(a \o b) = ToSet(a) \cup ToSet(b)
    BY <2>2, ToSetConcat
  <2>4. c \in ChainIds /\ \A u \in Members(s, c) : u \in Alive(s)
    BY <1>2, MembersAlive
  <2>5. s.limited_tasks_[c] = 0 \/ s.limited_tasks_[c] \in Members(s, c)
    BY <2>4 DEF SchedulerGood
  <2>6. ToSet(a) \subseteq Alive(s) \ {t} /\ ToSet(b) \subseteq Alive(s) \ {t}
    BY <2>1, <2>4, <2>5, <1>3, <1>4
  <2> QED
    BY <2>1, <2>3, <2>6
<1>7. /\ seqs \in Seq(Seq(Nat)) /\ DOMAIN seqs = DOMAIN l
      /\ \A k \in DOMAIN seqs : seqs[k] = LimitedLater(s, t, l[k]) \o FirstLater(s, t, l[k])
  <2>1. \A k \in 1..Len(l) : LimitedLater(s, t, l[k]) \o FirstLater(s, t, l[k]) \in Seq(Nat)
    BY <1>5, <1>6
  <2>2. seqs = [k \in 1..Len(l) |-> LimitedLater(s, t, l[k]) \o FirstLater(s, t, l[k])]
    BY <1>1, <1>5
  <2> HIDE DEF seqs
  <2> QED
    BY <2>1, <2>2, <1>5
<1>8. ToStart(s, t) = FlattenSeq(seqs)
  BY DEF ToStart
<1> HIDE DEF seqs
<1>9. FlattenSeq(seqs) \in Seq(Nat) /\ ToSet(FlattenSeq(seqs)) = UNION {ToSet(seqs[k]) : k \in DOMAIN seqs}
  BY <1>7, FlattenProperties
<1>10. \A k \in DOMAIN seqs : ToSet(seqs[k]) \subseteq Alive(s) \ {t}
  BY <1>5, <1>6, <1>7
<1>11. ASSUME NEW c \in InChain(s, t), s.limited_tasks_[c] \notin {0, t}
       PROVE  s.limited_tasks_[c] \in ToSet(FlattenSeq(seqs))
  <2>1. PICK k \in DOMAIN l : l[k] = c
    BY <1>2 DEF ToSet
  <2>2. s.limited_tasks_[c] \in ToSet(seqs[k])
    BY <2>1, <1>3, <1>6, <1>7, <1>11
  <2> QED
    BY <2>1, <2>2, <1>7, <1>9
<1> QED
  BY <1>8, <1>9, <1>10, <1>11

(* What is left when t was inactivated because it failed, in state.         *)
Left(s, t, c) == c \in InChain(s, t) /\ s.tasks_[t].state = "Active"

StoppedChain(s, t, c, x) ==
  IF Left(s, t, c)
    THEN /\ x.active_tasks = s.chains_[c].active_tasks - 1
         /\ x.generation = Generation(s.chains_[c], s.tasks_[t].generation[c], TRUE)
    ELSE x.active_tasks = s.chains_[c].active_tasks /\ x.generation = s.chains_[c].generation

Stopped(s, t, state) == [inactivate_task(s, t, TRUE) EXCEPT !.tasks_[t].state = state]

LEMMA LeftInfo ==
  ASSUME NEW x \in ChainInfo, NEW g \in Nat
  PROVE  LET y == [x EXCEPT !.active_tasks = @ - 1, !.generation = g]
         IN  y \in ChainInfo /\ y.chain = x.chain /\ y.active_tasks = x.active_tasks - 1 /\ y.generation = g
<1>1. PICK y : y = [x EXCEPT !.active_tasks = @ - 1, !.generation = g]
  OBVIOUS
<1>2. y.chain = x.chain /\ y.active_tasks = x.active_tasks - 1 /\ y.generation = g
  BY <1>1 DEF ChainInfo
<1>3. y = [chain |-> y.chain, active_tasks |-> y.active_tasks, generation |-> y.generation]
  BY <1>1 DEF ChainInfo
<1>4. x.chain \in Seq(Nat) /\ x.active_tasks \in Int
  BY DEF ChainInfo
<1>5. y \in ChainInfo
  BY <1>2, <1>3, <1>4 DEF ChainInfo
<1> QED
  BY <1>1, <1>2, <1>5

StoppedIs(s, t, state, r) ==
  /\ r \in State
  /\ r.query = s.query /\ r.failed = s.failed /\ r.pending_tasks_ = s.pending_tasks_
  /\ DOMAIN r.tasks_ = DOMAIN s.tasks_ /\ r.tasks_[t] = [s.tasks_[t] EXCEPT !.state = state]
  /\ \A u \in DOMAIN s.tasks_ : u # t => r.tasks_[u] = s.tasks_[u]
  /\ \A c \in ChainIds :
       /\ r.limited_tasks_[c] = IF c \in InChain(s, t) THEN 0 ELSE s.limited_tasks_[c]
       /\ r.chains_[c].chain = s.chains_[c].chain /\ StoppedChain(s, t, c, r.chains_[c])

LEMMA StopFields ==
  ASSUME NEW s, SchedulerGood(s), NEW t \in Alive(s), NEW state \in {"Pending", "Paused"}
  PROVE  /\ StoppedIs(s, t, state, Stopped(s, t, state))
         /\ state = "Pending" => inactivate_task(s, t, TRUE) = Stopped(s, t, state)
<1> DEFINE r == Stopped(s, t, state)
           chains == [c \in ChainIds |->
                        IF Left(s, t, c)
                          THEN [s.chains_[c] EXCEPT
                                  !.active_tasks = @ - 1,
                                  !.generation = Generation(s.chains_[c], s.tasks_[t].generation[c], TRUE)]
                          ELSE s.chains_[c]]
           limited == [c \in ChainIds |-> IF c \in InChain(s, t) THEN 0 ELSE s.limited_tasks_[c]]
           tasks == [s.tasks_ EXCEPT ![t] = [s.tasks_[t] EXCEPT !.state = state]]
<1>0. /\ s \in State /\ t \in DOMAIN s.tasks_ /\ InChain(s, t) \subseteq ChainIds /\ s.tasks_[t] \in Task /\ t \in Nat
      /\ s.tasks_[t].generation \in [InChain(s, t) -> Nat]
  BY AliveMembers DEF SchedulerGood
<1>1. r.query = s.query /\ r.failed = s.failed /\ r.pending_tasks_ = s.pending_tasks_
  BY <1>0 DEF Stopped, inactivate_task, State
<1>2. r.chains_ = chains /\ r.limited_tasks_ = limited
  BY <1>0 DEF Stopped, inactivate_task, State, Left
<1>3. r.tasks_ = tasks
  <2>1. s.tasks_ \in Seq(Task)
    BY <1>0, StateFields
  <2>2. inactivate_task(s, t, TRUE).tasks_ = [s.tasks_ EXCEPT ![t].state = "Pending"]
    BY <1>0 DEF inactivate_task, State
  <2>3. r.tasks_ = [inactivate_task(s, t, TRUE).tasks_ EXCEPT ![t].state = state]
    BY <1>0 DEF Stopped, inactivate_task, State
  <2>4. [[s.tasks_ EXCEPT ![t].state = "Pending"] EXCEPT ![t].state = state] = tasks
    <3>1. [s.tasks_[t] EXCEPT !.state = state] = [[s.tasks_[t] EXCEPT !.state = "Pending"] EXCEPT !.state = state]
      BY <1>0 DEF Task
    <3> QED
      BY <3>1, <2>1, <1>0
  <2> HIDE DEF r, tasks
  <2> QED
    BY <2>2, <2>3, <2>4
<1>4. tasks \in Seq(Task) /\ DOMAIN tasks = DOMAIN s.tasks_
  <2>1. s.tasks_ \in Seq(Task) /\ [s.tasks_[t] EXCEPT !.state = state] \in Task
    BY <1>0, StateFields DEF Task
  <2> QED
    BY <2>1, <1>0
<1>5. /\ chains \in [ChainIds -> ChainInfo]
      /\ \A c \in ChainIds : chains[c].chain = s.chains_[c].chain /\ StoppedChain(s, t, c, chains[c])
  <2>1. s.chains_ \in [ChainIds -> ChainInfo]
    BY <1>0, StateFields
  <2>2. \A c \in InChain(s, t) : Generation(s.chains_[c], s.tasks_[t].generation[c], TRUE) \in Nat
    BY <2>1, <1>0 DEF Generation, ChainInfo
  <2>3. ASSUME NEW c \in ChainIds
        PROVE  chains[c] \in ChainInfo /\ chains[c].chain = s.chains_[c].chain /\ StoppedChain(s, t, c, chains[c])
    <3>1. PICK x, g : x = s.chains_[c] /\ g = Generation(s.chains_[c], s.tasks_[t].generation[c], TRUE)
      OBVIOUS
    <3>2. x \in ChainInfo
      BY <3>1, <2>1
    <3>3. CASE Left(s, t, c)
      <4>1. g \in Nat /\ chains[c] = [x EXCEPT !.active_tasks = @ - 1, !.generation = g]
        BY <3>1, <3>3, <2>2 DEF Left
      <4> HIDE DEF chains
      <4>0. g \in Nat
        BY <4>1
      <4>2. PICK y : y = [x EXCEPT !.active_tasks = @ - 1, !.generation = g]
        OBVIOUS
      <4>3. y \in ChainInfo /\ y.chain = x.chain /\ y.active_tasks = x.active_tasks - 1 /\ y.generation = g
        BY <3>2, <4>0, <4>2, LeftInfo
      <4>4. StoppedChain(s, t, c, y)
        BY <3>1, <3>3, <4>3 DEF StoppedChain
      <4> QED
        BY <3>1, <4>1, <4>2, <4>3, <4>4
    <3>4. CASE ~Left(s, t, c)
      <4>1. chains[c] = x
        BY <3>1, <3>4
      <4> HIDE DEF chains
      <4> QED
        BY <3>1, <3>2, <3>4, <4>1 DEF ChainInfo, StoppedChain
    <3> QED
      BY <3>3, <3>4
  <2> QED
    BY <2>3
<1>6. limited \in [ChainIds -> Nat]
  BY <1>0, StateFields
<1>7. r \in State
  <2>1. /\ r.tasks_ \in Seq(Task) /\ r.chains_ \in [ChainIds -> ChainInfo] /\ r.limited_tasks_ \in [ChainIds -> Nat]
    BY <1>2, <1>3, <1>4, <1>5, <1>6
  <2>2. r = [s EXCEPT !.chains_ = r.chains_, !.tasks_ = r.tasks_, !.limited_tasks_ = r.limited_tasks_]
    BY <1>0 DEF Stopped, inactivate_task, State
  <2> HIDE DEF r, tasks, chains, limited
  <2> QED
    BY <2>1, <2>2, <1>0 DEF State
<1>8. r.tasks_[t] = [s.tasks_[t] EXCEPT !.state = state] /\ \A u \in DOMAIN s.tasks_ : u # t => r.tasks_[u] = s.tasks_[u]
  BY <1>0, <1>3
<1>9. ASSUME state = "Pending" PROVE inactivate_task(s, t, TRUE) = r
  <2>1. PICK q : q = inactivate_task(s, t, TRUE)
    OBVIOUS
  <2>2. q.tasks_ = [s.tasks_ EXCEPT ![t].state = "Pending"] /\ q = [s EXCEPT !.tasks_ = q.tasks_, !.chains_ = q.chains_, !.limited_tasks_ = q.limited_tasks_]
    BY <2>1, <1>0 DEF inactivate_task, State
  <2>3. s.tasks_ \in Seq(Task)
    BY <1>0, StateFields
  <2>4. [q.tasks_ EXCEPT ![t].state = "Pending"] = q.tasks_
    <3>1. q.tasks_[t] = [s.tasks_[t] EXCEPT !.state = "Pending"] /\ t \in DOMAIN q.tasks_ /\ q.tasks_ = [x \in DOMAIN q.tasks_ |-> q.tasks_[x]]
      BY <2>2, <2>3, <1>0
    <3>2. [q.tasks_[t] EXCEPT !.state = "Pending"] = q.tasks_[t]
      BY <3>1, <1>0 DEF Task
    <3> QED
      BY <3>1, <3>2
  <2>5. [q EXCEPT !.tasks_ = q.tasks_] = q
    BY <2>2, <1>0 DEF State
  <2>6. [q EXCEPT !.tasks_[t].state = "Pending"] = [q EXCEPT !.tasks_ = [q.tasks_ EXCEPT ![t].state = "Pending"]]
    OBVIOUS
  <2> QED
    BY <2>1, <2>4, <2>5, <2>6, <1>9 DEF Stopped
<1>10. \A c \in ChainIds : r.limited_tasks_[c] = IF c \in InChain(s, t) THEN 0 ELSE s.limited_tasks_[c]
  BY <1>2
<1> HIDE DEF r, tasks, chains, limited
<1>11. StoppedIs(s, t, state, r)
  BY <1>1, <1>2, <1>3, <1>4, <1>5, <1>7, <1>8, <1>10 DEF StoppedIs
<1> QED
  BY <1>9, <1>11 DEF r

(* Nothing is forgotten except the tasks that it lets start later.          *)
LEMMA StopKeeps ==
  ASSUME NEW s, SchedulerGood(s), NEW t \in Alive(s), t \notin ToSet(s.pending_tasks_),
         NEW state \in {"Pending", "Paused"}
  PROVE  LET r == Stopped(s, t, state)
         IN  /\ SchedulerGood(r) /\ SameLists(s, r)
             /\ \A u \in Waiting(r) : (u = t /\ state = "Pending") \/ u \in Waiting(s) \ {t}
             /\ \A u \in Waiting(r) \ {t} : \A c \in InChain(s, u) :
                  Held(s, u, c) => Held(r, u, c) \/ (c \in InChain(s, t) /\ s.limited_tasks_[c] = u)
<1>1. PICK r : r = Stopped(s, t, state)
  OBVIOUS
<1>2. s \in State
  BY DEF SchedulerGood
<1>3. /\ r \in State
      /\ r.query = s.query /\ r.failed = s.failed /\ r.pending_tasks_ = s.pending_tasks_
      /\ DOMAIN r.tasks_ = DOMAIN s.tasks_ /\ r.tasks_[t] = [s.tasks_[t] EXCEPT !.state = state]
      /\ \A u \in DOMAIN s.tasks_ : u # t => r.tasks_[u] = s.tasks_[u]
      /\ \A c \in ChainIds :
           /\ r.limited_tasks_[c] = IF c \in InChain(s, t) THEN 0 ELSE s.limited_tasks_[c]
           /\ r.chains_[c].chain = s.chains_[c].chain /\ StoppedChain(s, t, c, r.chains_[c])
  <2>1. StoppedIs(s, t, state, r)
    BY <1>1, StopFields
  <2> QED
    BY <2>1 DEF StoppedIs
<1>4. /\ t \in DOMAIN s.tasks_ /\ t \in Nat \ {0} /\ Chains(s, t) \in Seq(ChainIds)
      /\ InChain(s, t) \subseteq ChainIds /\ \A c \in InChain(s, t) : t \in Members(s, c)
      /\ s.tasks_[t] \in Task /\ s.tasks_[t].generation \in [InChain(s, t) -> Nat] /\ TaskGood(s, t)
  BY AliveMembers
<1>5. /\ r.tasks_[t].state = state /\ r.tasks_[t].chains = Chains(s, t)
      /\ r.tasks_[t].generation = s.tasks_[t].generation
  BY <1>3, <1>4 DEF Task, Chains
<1>6. SameLists(s, r)
  <2>1. Alive(r) = Alive(s)
    <3>1. r.tasks_[t] # Erased
      BY <1>5 DEF Erased
    <3> QED
      BY <3>1, <1>3 DEF Alive
  <2>2. \A u \in DOMAIN s.tasks_ : Chains(r, u) = Chains(s, u)
    BY <1>3, <1>5 DEF Chains
  <2> QED
    BY <2>1, <2>2, <1>3 DEF SameLists
<1>9. Alive(r) = Alive(s) /\ \A u \in DOMAIN s.tasks_ : Chains(r, u) = Chains(s, u) /\ InChain(r, u) = InChain(s, u)
  BY <1>6, SameSets DEF SameLists
<1>10. \A c \in ChainIds : Members(r, c) = Members(s, c)
  BY <1>6, SameSets
<1>11. \A u \in Waiting(r) : (u = t /\ state = "Pending") \/ u \in Waiting(s) \ {t}
  BY <1>3, <1>5, <1>9 DEF Waiting, Alive
<1>12. ASSUME NEW c \in ChainIds
       PROVE  Working(r, c) = Working(s, c) \ {t} /\ Gens(r, c) = Gens(s, c)
  <2>1. Members(r, c) = Members(s, c)
    BY <1>10
  <2>2. \A u \in Members(s, c) : u \in DOMAIN s.tasks_
    BY MembersAlive
  <2>3. r.tasks_[t].state # "Active"
    BY <1>5
  <2>4. Working(r, c) = Working(s, c) \ {t}
    BY <2>1, <2>2, <2>3, <1>3 DEF Working
  <2>5. \A u \in Members(s, c) : r.tasks_[u].generation = s.tasks_[u].generation
    BY <2>2, <1>3, <1>5
  <2>6. Gens(r, c) = Gens(s, c)
    BY <2>1, <2>5 DEF Gens
  <2> QED
    BY <2>4, <2>6
<1>13. ASSUME NEW c \in ChainIds
       PROVE  ChainGoodIn(r, c) /\ \A u : ~AtFrontIn(s, u, c) => ~AtFrontIn(r, u, c)
  <2>1. ChainGood(Members(s, c), Working(s, c), Gens(s, c), s.chains_[c].generation, s.chains_[c].active_tasks)
    BY DEF SchedulerGood, ChainGoodIn
  <2>2. CASE Left(s, t, c)
    <3>1. t \in Working(s, c)
      BY <2>2, <1>4 DEF Working, Left
    <3>2. PICK new : new = IF Gens(s, c)[t] >= s.chains_[c].generation THEN Gens(s, c)[t] + 1 ELSE s.chains_[c].generation
      OBVIOUS
    <3>3. /\ ChainGood(Members(s, c), Working(s, c) \ {t}, Gens(s, c), new, s.chains_[c].active_tasks - 1)
          /\ \A u : ~AtFront(Members(s, c), Gens(s, c), s.chains_[c].generation, u) => ~AtFront(Members(s, c), Gens(s, c), new, u)
      BY <2>1, <3>1, <3>2, ChainStop
    <3>4. Gens(s, c)[t] = s.tasks_[t].generation[c]
      BY <2>2, <1>4 DEF Gens, Left
    <3>5. r.chains_[c].active_tasks = s.chains_[c].active_tasks - 1 /\ r.chains_[c].generation = new
      BY <2>2, <3>2, <3>4, <1>3 DEF Generation, StoppedChain
    <3> QED
      BY <3>3, <3>5, <1>10, <1>12 DEF ChainGoodIn, AtFrontIn
  <2>3. CASE ~Left(s, t, c)
    <3>1. r.chains_[c].active_tasks = s.chains_[c].active_tasks /\ r.chains_[c].generation = s.chains_[c].generation
      BY <2>3, <1>3 DEF StoppedChain
    <3>2. t \notin Working(s, c)
      BY <2>3, MembersAlive DEF Working, Left
    <3> QED
      BY <3>1, <3>2, <2>1, <1>10, <1>12 DEF ChainGoodIn, AtFrontIn
  <2> QED
    BY <2>2, <2>3
<1>15. SchedulerGood(r)
  <2>1. ASSUME NEW u \in Alive(r) PROVE TaskGood(r, u)
    <3>0. u \in DOMAIN s.tasks_ /\ TaskGood(s, u) /\ Chains(r, u) = Chains(s, u) /\ InChain(r, u) = InChain(s, u)
      BY <1>9, AliveMembers
    <3>1. CASE u = t
      BY <3>0, <3>1, <1>5 DEF TaskGood
    <3>2. CASE u # t
      BY <3>0, <3>2, <1>3 DEF TaskGood
    <3> QED
      BY <3>1, <3>2
  <2>2. ASSUME NEW c \in ChainIds PROVE ListGood(r, c)
    <3>1. Increasing(s.chains_[c].chain) /\ Members(s, c) = {u \in Alive(s) : c \in InChain(s, u)}
      BY DEF SchedulerGood, ListGood
    <3>2. \A u \in Alive(s) : InChain(r, u) = InChain(s, u)
      BY <1>9 DEF Alive
    <3> QED
      BY <3>1, <3>2, <1>3, <1>9, <1>10 DEF ListGood
  <2>3. \A c \in ChainIds : r.limited_tasks_[c] = 0 \/ r.limited_tasks_[c] \in Members(r, c)
    BY <1>3, <1>10 DEF SchedulerGood
  <2>4. PendingGood(r)
    BY <1>3, <1>9 DEF SchedulerGood, PendingGood, Alive
  <2>5. ~r.failed
    BY <1>3 DEF SchedulerGood
  <2> QED
    BY <2>1, <2>2, <2>3, <2>4, <2>5, <1>3, <1>13 DEF SchedulerGood
<1>16. ASSUME NEW u \in Waiting(r) \ {t}, NEW c \in InChain(s, u), Held(s, u, c)
       PROVE  Held(r, u, c) \/ (c \in InChain(s, t) /\ s.limited_tasks_[c] = u)
  <2>0. u \in Alive(s) /\ u \in Alive(r)
    BY <1>9 DEF Waiting
  <2>1. c \in ChainIds /\ u \in Members(s, c) /\ u \in Members(r, c)
    BY <2>0, <1>10, AliveMembers
  <2>2. /\ Held(s, u, c) <=> ~AtFrontIn(s, u, c) \/ (Limited(s, c) /\ s.limited_tasks_[c] = u)
        /\ Held(r, u, c) <=> ~AtFrontIn(r, u, c) \/ (Limited(r, c) /\ r.limited_tasks_[c] = u)
    BY <2>1, <1>15, VerdictIs
  <2>3. CASE c \notin InChain(s, t)
    <3>1. r.chains_[c].active_tasks = s.chains_[c].active_tasks
      BY <2>1, <2>3, <1>3 DEF StoppedChain, Left
    <3> QED
      BY <3>1, <2>1, <2>2, <2>3, <1>3, <1>13, <1>16 DEF Limited
  <2>4. CASE c \in InChain(s, t)
    BY <2>1, <2>2, <2>4, <1>13, <1>16
  <2> QED
    BY <2>3, <2>4
<1> QED
  BY <1>1, <1>6, <1>11, <1>15, <1>16

-----------------------------------------------------------------------------
(* finish_task before it tries to start others.                             *)

LEMMA ErasedTask == Erased \in Task
<1>1. <<>> \in Seq(ChainIds) /\ ToSet(<<>>) = {}
  BY ToSetSmall
<1>2. <<>> \in [{} -> Nat]
  OBVIOUS
<1>3. <<>> \in Generations
  BY <1>2 DEF Generations
<1> QED
  BY <1>1, <1>3 DEF Erased, Task

(* A chain of t afterwards; left: whether t was active.                     *)
ShorterChain(info, i, left, x) ==
  IF RemoveAt(info.chain, i) = <<>> THEN x = NewChainInfo
  ELSE /\ x.chain = RemoveAt(info.chain, i) /\ x.generation = info.generation
       /\ x.active_tasks = IF left THEN info.active_tasks - 1 ELSE info.active_tasks

RemovedIs(s, t, r) ==
  /\ r \in State
  /\ r.query = s.query /\ r.failed = s.failed /\ r.pending_tasks_ = s.pending_tasks_
  /\ DOMAIN r.tasks_ = DOMAIN s.tasks_ /\ r.tasks_[t] = Erased
  /\ \A u \in DOMAIN s.tasks_ : u # t => r.tasks_[u] = s.tasks_[u]
  /\ \A c \in ChainIds :
       /\ r.limited_tasks_[c] = IF c \in InChain(s, t) THEN 0 ELSE s.limited_tasks_[c]
       /\ IF c \in InChain(s, t)
            THEN ShorterChain(s.chains_[c], Position(s, c, t), s.tasks_[t].state = "Active", r.chains_[c])
            ELSE r.chains_[c] = s.chains_[c]

LEMMA RemoveFields ==
  ASSUME NEW s, SchedulerGood(s), NEW t \in Alive(s)
  PROVE  RemovedIs(s, t, Removed(s, t))
<1>1. PICK off : off = inactivate_task(s, t, FALSE)
  OBVIOUS
<1>2. PICK r : r = Removed(s, t)
  OBVIOUS
<1>0. /\ s \in State /\ t \in DOMAIN s.tasks_ /\ InChain(s, t) \subseteq ChainIds /\ s.tasks_[t] \in Task /\ t \in Nat
      /\ s.tasks_[t].generation \in [InChain(s, t) -> Nat]
  BY AliveMembers DEF SchedulerGood
<1>3. s.tasks_ \in Seq(Task) /\ s.chains_ \in [ChainIds -> ChainInfo] /\ s.limited_tasks_ \in [ChainIds -> Nat]
  BY <1>0, StateFields
<1> DEFINE on(c) == c \in InChain(s, t) /\ s.tasks_[t].state = "Active"
           chains == [c \in ChainIds |->
                        IF on(c) THEN [s.chains_[c] EXCEPT
                                         !.active_tasks = @ - 1,
                                         !.generation = Generation(s.chains_[c], s.tasks_[t].generation[c], FALSE)]
                                 ELSE s.chains_[c]]
           limited == [c \in ChainIds |-> IF c \in InChain(s, t) THEN 0 ELSE s.limited_tasks_[c]]
           final == [c \in ChainIds |-> IF c \in InChain(s, t) THEN FinishChain(off, c, t) ELSE off.chains_[c]]
           tasks == [s.tasks_ EXCEPT ![t] = Erased]
<1>4. off.chains_ = chains /\ off.limited_tasks_ = limited /\ off.tasks_ = [s.tasks_ EXCEPT ![t].state = "Pending"]
  BY <1>0, <1>1 DEF inactivate_task, State
<1>5. off = [s EXCEPT !.chains_ = off.chains_, !.tasks_ = off.tasks_, !.limited_tasks_ = off.limited_tasks_]
  BY <1>0, <1>1 DEF inactivate_task, State
<1>6. r = [off EXCEPT !.chains_ = final, !.tasks_ = [off.tasks_ EXCEPT ![t] = Erased]]
  BY <1>1, <1>2 DEF Removed
<1> HIDE DEF chains, limited, final, tasks
<1>7. r.query = s.query /\ r.failed = s.failed /\ r.pending_tasks_ = s.pending_tasks_
  BY <1>0, <1>5, <1>6 DEF State
<1>8. r.chains_ = final /\ r.limited_tasks_ = limited /\ r.tasks_ = [off.tasks_ EXCEPT ![t] = Erased]
  BY <1>0, <1>4, <1>5, <1>6 DEF State
<1>9. r.tasks_ = tasks
  BY <1>0, <1>3, <1>4, <1>8 DEF tasks
<1>10. tasks \in Seq(Task) /\ DOMAIN tasks = DOMAIN s.tasks_ /\ tasks[t] = Erased
       /\ \A u \in DOMAIN s.tasks_ : u # t => tasks[u] = s.tasks_[u]
  BY <1>0, <1>3, ErasedTask DEF tasks
<1>11. limited \in [ChainIds -> Nat] /\ \A c \in ChainIds : limited[c] = IF c \in InChain(s, t) THEN 0 ELSE s.limited_tasks_[c]
  BY <1>3 DEF limited
<1>12. ASSUME NEW c \in ChainIds
       PROVE  /\ final[c] \in ChainInfo
              /\ IF c \in InChain(s, t)
                   THEN ShorterChain(s.chains_[c], Position(s, c, t), s.tasks_[t].state = "Active", final[c])
                   ELSE final[c] = s.chains_[c]
  <2>1. PICK x, y : x = s.chains_[c] /\ y = off.chains_[c]
    OBVIOUS
  <2>2. x \in ChainInfo
    BY <2>1, <1>3
  <2>3. CASE c \notin InChain(s, t)
    <3>1. y = x /\ final[c] = y
      BY <2>1, <2>3, <1>4 DEF final, chains
    <3> QED
      BY <2>1, <2>2, <2>3, <3>1
  <2>4. CASE c \in InChain(s, t)
    <3>1. /\ y \in ChainInfo /\ y.chain = x.chain /\ y.generation = x.generation
          /\ y.active_tasks = IF s.tasks_[t].state = "Active" THEN x.active_tasks - 1 ELSE x.active_tasks
      <4>1. CASE s.tasks_[t].state = "Active"
        <5>1. y = [x EXCEPT !.active_tasks = @ - 1, !.generation = Generation(x, s.tasks_[t].generation[c], FALSE)]
          BY <2>1, <2>4, <4>1, <1>4 DEF chains
        <5>2. Generation(x, s.tasks_[t].generation[c], FALSE) = x.generation /\ x.generation \in Nat
          BY <2>2 DEF Generation, ChainInfo
        <5>3. PICK g : g = x.generation
          OBVIOUS
        <5>4. y = [x EXCEPT !.active_tasks = @ - 1, !.generation = g]
          BY <5>1, <5>2, <5>3
        <5>5. g \in Nat
          BY <5>2, <5>3
        <5>6. y \in ChainInfo /\ y.chain = x.chain /\ y.active_tasks = x.active_tasks - 1 /\ y.generation = g
          BY <5>4, <5>5, <2>2, LeftInfo
        <5> QED
          BY <5>3, <5>6, <4>1
      <4>2. CASE s.tasks_[t].state # "Active"
        <5>1. y = x
          BY <2>1, <2>4, <4>2, <1>4 DEF chains
        <5> QED
          BY <5>1, <2>2, <4>2
      <4> QED
        BY <4>1, <4>2
    <3>2. Position(off, c, t) = Position(s, c, t)
      BY <2>1, <3>1 DEF Position
    <3>3. PICK i : i = Position(s, c, t)
      OBVIOUS
    <3>4. i \in 1..Len(x.chain) /\ x.chain \in Seq(Nat) /\ Increasing(x.chain)
      <4>1. t \in Members(s, c)
        BY <2>4, AliveMembers
      <4>2. s.chains_[c].chain \in Seq(Nat) /\ Increasing(s.chains_[c].chain)
        BY <1>0, StateFields DEF SchedulerGood, ListGood
      <4> QED
        BY <4>1, <4>2, <3>3, <2>1, PositionProperties
    <3>5. PICK l : l = RemoveAt(x.chain, i)
      OBVIOUS
    <3>6. l \in Seq(Nat)
      BY <3>4, <3>5, RemoveFromList
    <3>7. final[c] = IF l = <<>> THEN NewChainInfo ELSE [y EXCEPT !.chain = l]
      BY <2>1, <2>4, <3>1, <3>2, <3>3, <3>5 DEF final, FinishChain
    <3>8. CASE l = <<>>
      <4>1. NewChainInfo \in ChainInfo
        BY DEF NewChainInfo, ChainInfo
      <4> QED
        BY <4>1, <3>3, <3>5, <3>7, <3>8, <2>1, <2>4 DEF ShorterChain
    <3>9. CASE l # <<>>
      <4>1. PICK z : z = [y EXCEPT !.chain = l]
        OBVIOUS
      <4>2. z \in ChainInfo /\ z.chain = l /\ z.generation = y.generation /\ z.active_tasks = y.active_tasks
        BY <4>1, <3>1, <3>6 DEF ChainInfo
      <4>3. final[c] = z
        BY <4>1, <3>7, <3>9
      <4> QED
        BY <4>2, <4>3, <3>1, <3>3, <3>5, <3>9, <2>1, <2>4 DEF ShorterChain
    <3> QED
      BY <3>8, <3>9
  <2> QED
    BY <2>3, <2>4
<1>13. final \in [ChainIds -> ChainInfo]
  BY <1>12 DEF final
<1>14. r \in State
  <2>1. r.tasks_ \in Seq(Task) /\ r.chains_ \in [ChainIds -> ChainInfo] /\ r.limited_tasks_ \in [ChainIds -> Nat]
    BY <1>8, <1>9, <1>10, <1>11, <1>13
  <2>2. r = [s EXCEPT !.chains_ = r.chains_, !.tasks_ = r.tasks_, !.limited_tasks_ = r.limited_tasks_]
    BY <1>0, <1>5, <1>6 DEF State
  <2> QED
    BY <2>1, <2>2, <1>0 DEF State
<1> QED
  BY <1>2, <1>7, <1>8, <1>9, <1>10, <1>11, <1>12, <1>14 DEF RemovedIs

LEMMA EmptyChain ==
  ASSUME NEW S, NEW A, NEW g, S = {}, A = {}, g \in [S -> Nat]
  PROVE  ChainGood(S, A, g, 1, 0)
<1>1. IsFiniteSet({}) /\ Cardinality({}) = 0
  BY FS_EmptySet
<1> QED
  BY <1>1, ChainSchedulerAssumption DEF ChainGood

LEMMA RemoveKeeps ==
  ASSUME NEW s, SchedulerGood(s), NEW t \in Alive(s), t \notin ToSet(s.pending_tasks_)
  PROVE  LET r == Removed(s, t)
         IN  /\ SchedulerGood(r) /\ Alive(r) = Alive(s) \ {t} /\ Waiting(r) = Waiting(s) \ {t}
             /\ \A u \in Waiting(r) : \A c \in InChain(s, u) :
                  Held(s, u, c) => \/ Held(r, u, c)
                                   \/ c \in InChain(s, t) /\ (s.limited_tasks_[c] = u \/ u \in Succ(Members(s, c), t))
<1>1. PICK r : r = Removed(s, t)
  OBVIOUS
<1>2. s \in State
  BY DEF SchedulerGood
<1>3. /\ r \in State
      /\ r.query = s.query /\ r.failed = s.failed /\ r.pending_tasks_ = s.pending_tasks_
      /\ DOMAIN r.tasks_ = DOMAIN s.tasks_ /\ r.tasks_[t] = Erased
      /\ \A u \in DOMAIN s.tasks_ : u # t => r.tasks_[u] = s.tasks_[u]
      /\ \A c \in ChainIds :
           /\ r.limited_tasks_[c] = IF c \in InChain(s, t) THEN 0 ELSE s.limited_tasks_[c]
           /\ IF c \in InChain(s, t)
                THEN ShorterChain(s.chains_[c], Position(s, c, t), s.tasks_[t].state = "Active", r.chains_[c])
                ELSE r.chains_[c] = s.chains_[c]
  <2>1. RemovedIs(s, t, r)
    BY <1>1, RemoveFields
  <2> QED
    BY <2>1 DEF RemovedIs
<1>4. /\ t \in DOMAIN s.tasks_ /\ t \in Nat \ {0}
      /\ InChain(s, t) \subseteq ChainIds /\ \A c \in InChain(s, t) : t \in Members(s, c)
  BY AliveMembers
<1>5. Alive(r) = Alive(s) \ {t}
  BY <1>3 DEF Alive
<1>6. \A u \in Alive(r) : /\ u \in Alive(s) /\ u # t /\ u \in DOMAIN s.tasks_ /\ r.tasks_[u] = s.tasks_[u]
                          /\ Chains(r, u) = Chains(s, u) /\ InChain(r, u) = InChain(s, u)
  BY <1>3, <1>5 DEF Alive, Chains, InChain
<1>7. Waiting(r) = Waiting(s) \ {t}
  BY <1>5, <1>6 DEF Waiting
<1>8. ASSUME NEW c \in ChainIds
      PROVE  /\ r.chains_[c].chain \in Seq(Nat) /\ Increasing(r.chains_[c].chain)
             /\ Members(r, c) = Members(s, c) \ {t}
  <2>1. s.chains_[c].chain \in Seq(Nat) /\ Increasing(s.chains_[c].chain)
    BY <1>2, StateFields DEF SchedulerGood, ListGood
  <2>2. CASE c \notin InChain(s, t)
    <3>1. t \notin Members(s, c)
      BY <2>2, MembersAlive
    <3> QED
      BY <3>1, <2>1, <2>2, <1>3 DEF Members
  <2>3. CASE c \in InChain(s, t)
    <3>1. PICK l, i : l = s.chains_[c].chain /\ i = Position(s, c, t)
      OBVIOUS
    <3>2. i \in 1..Len(l) /\ l[i] = t
      BY <3>1, <2>1, <2>3, <1>4, PositionProperties
    <3>3. l \in Seq(Nat) /\ Increasing(l)
      BY <3>1, <2>1
    <3>4. /\ RemoveAt(l, i) \in Seq(Nat) /\ Increasing(RemoveAt(l, i))
          /\ ToSet(RemoveAt(l, i)) = ToSet(l) \ {t}
      BY <3>2, <3>3, RemoveFromList
    <3>5. r.chains_[c].chain = RemoveAt(l, i)
      <4>1. ShorterChain(s.chains_[c], i, s.tasks_[t].state = "Active", r.chains_[c])
        BY <2>3, <3>1, <1>3
      <4> QED
        BY <4>1, <3>1 DEF ShorterChain, NewChainInfo
    <3> QED
      BY <3>1, <3>4, <3>5 DEF Members
  <2> QED
    BY <2>2, <2>3
<1>9. ASSUME NEW c \in ChainIds
      PROVE  Working(r, c) = Working(s, c) \ {t} /\ Gens(r, c) = [x \in Members(s, c) \ {t} |-> Gens(s, c)[x]]
  <2>1. \A u \in Members(s, c) \ {t} : r.tasks_[u] = s.tasks_[u]
    BY <1>3, MembersAlive
  <2> QED
    BY <2>1, <1>8 DEF Working, Gens
<1>10. ASSUME NEW c \in ChainIds
       PROVE  /\ ChainGoodIn(r, c)
              /\ \A u \in Members(s, c) \ {t} :
                   ~AtFrontIn(s, u, c) => ~AtFrontIn(r, u, c) \/ (c \in InChain(s, t) /\ u \in Succ(Members(s, c), t))
  <2>1. ChainGood(Members(s, c), Working(s, c), Gens(s, c), s.chains_[c].generation, s.chains_[c].active_tasks)
    BY DEF SchedulerGood, ChainGoodIn
  <2>2. CASE c \notin InChain(s, t)
    <3>1. t \notin Members(s, c)
      BY <2>2, MembersAlive
    <3>0. t \notin Working(s, c)
      BY <3>1 DEF Working
    <3>2. Members(r, c) = Members(s, c) /\ Working(r, c) = Working(s, c)
      BY <3>0, <3>1, <1>8, <1>9
    <3>3. Gens(r, c) = Gens(s, c)
      BY <3>1, <1>9, ZenonT(40) DEF Gens
    <3>4. r.chains_[c] = s.chains_[c]
      BY <2>2, <1>3
    <3> QED
      BY <2>1, <3>2, <3>3, <3>4 DEF ChainGoodIn, AtFrontIn
  <2>3. CASE c \in InChain(s, t)
    <3>1. t \in Members(s, c) /\ (t \in Working(s, c) <=> s.tasks_[t].state = "Active")
      BY <2>3, <1>4 DEF Working
    <3>2. PICK h : h = [x \in Members(s, c) \ {t} |-> Gens(s, c)[x]]
      OBVIOUS
    <3>3. /\ ChainGood(Members(s, c) \ {t}, Working(s, c) \ {t}, h, s.chains_[c].generation,
                       IF t \in Working(s, c) THEN s.chains_[c].active_tasks - 1 ELSE s.chains_[c].active_tasks)
          /\ \A u \in Members(s, c) : u # t /\ ~AtFront(Members(s, c), Gens(s, c), s.chains_[c].generation, u) =>
               ~AtFront(Members(s, c) \ {t}, h, s.chains_[c].generation, u) \/ u \in Succ(Members(s, c), t)
      <4>1. PICK S, A, g, generation, active :
              /\ S = Members(s, c) /\ A = Working(s, c) /\ g = Gens(s, c)
              /\ generation = s.chains_[c].generation /\ active = s.chains_[c].active_tasks
        OBVIOUS
      <4>2. ChainGood(S, A, g, generation, active)
        BY <4>1, <2>1
      <4>3. t \in S
        BY <4>1, <3>1
      <4>4. h = [x \in S \ {t} |-> g[x]]
        BY <4>1, <3>2
      <4>5. /\ ChainGood(S \ {t}, A \ {t}, h, generation, IF t \in A THEN active - 1 ELSE active)
            /\ \A u \in S : u # t /\ ~AtFront(S, g, generation, u) => ~AtFront(S \ {t}, h, generation, u) \/ u \in Succ(S, t)
        BY <4>2, <4>3, <4>4, ChainRemove, SMTT(40)
      <4> QED
        BY <4>1, <4>5
    <3>4. Members(r, c) = Members(s, c) \ {t} /\ Working(r, c) = Working(s, c) \ {t} /\ Gens(r, c) = h
      BY <3>2, <1>8, <1>9
    <3>5. ShorterChain(s.chains_[c], Position(s, c, t), s.tasks_[t].state = "Active", r.chains_[c])
      BY <2>3, <1>3
    <3>6. CASE RemoveAt(s.chains_[c].chain, Position(s, c, t)) = <<>>
      <4>1. r.chains_[c] = NewChainInfo
        BY <3>5, <3>6 DEF ShorterChain
      <4>2. r.chains_[c].chain = <<>> /\ r.chains_[c].generation = 1 /\ r.chains_[c].active_tasks = 0
        BY <4>1 DEF NewChainInfo
      <4>3. Members(r, c) = {}
        BY <4>2, ToSetSmall DEF Members
      <4>4. Working(r, c) = {}
        BY <4>3 DEF Working
      <4>5. Gens(r, c) \in [Members(r, c) -> Nat]
        BY <4>3 DEF Gens
      <4>6. ChainGood(Members(r, c), Working(r, c), Gens(r, c), 1, 0)
        BY <4>3, <4>4, <4>5, EmptyChain
      <4> QED
        BY <4>2, <4>3, <4>6, <1>8 DEF ChainGoodIn
    <3>7. CASE RemoveAt(s.chains_[c].chain, Position(s, c, t)) # <<>>
      <4>1. /\ r.chains_[c].generation = s.chains_[c].generation
            /\ r.chains_[c].active_tasks =
                 IF t \in Working(s, c) THEN s.chains_[c].active_tasks - 1 ELSE s.chains_[c].active_tasks
        BY <3>1, <3>5, <3>7 DEF ShorterChain
      <4> QED
        BY <3>3, <3>4, <4>1, <2>3 DEF ChainGoodIn, AtFrontIn
    <3> QED
      BY <3>6, <3>7
  <2> QED
    BY <2>2, <2>3
<1>11. SchedulerGood(r)
  <2>1. ASSUME NEW u \in Alive(r) PROVE TaskGood(r, u)
    BY <1>6, AliveMembers DEF TaskGood
  <2>2. ASSUME NEW c \in ChainIds PROVE ListGood(r, c)
    <3>1. Members(s, c) = {u \in Alive(s) : c \in InChain(s, u)}
      BY DEF SchedulerGood, ListGood
    <3> QED
      BY <3>1, <1>5, <1>6, <1>8 DEF ListGood
  <2>3. ASSUME NEW c \in ChainIds PROVE r.limited_tasks_[c] = 0 \/ r.limited_tasks_[c] \in Members(r, c)
    <3>1. s.limited_tasks_[c] = 0 \/ s.limited_tasks_[c] \in Members(s, c)
      BY DEF SchedulerGood
    <3>2. c \notin InChain(s, t) => t \notin Members(s, c)
      BY MembersAlive
    <3> QED
      BY <3>1, <3>2, <1>3, <1>8
  <2>4. PendingGood(r)
    BY <1>3, <1>5, <1>6 DEF SchedulerGood, PendingGood
  <2>5. ~r.failed
    BY <1>3 DEF SchedulerGood
  <2> QED
    BY <2>1, <2>2, <2>3, <2>4, <2>5, <1>3, <1>10 DEF SchedulerGood
<1>12. ASSUME NEW u \in Waiting(r), NEW c \in InChain(s, u), Held(s, u, c)
       PROVE  \/ Held(r, u, c)
              \/ c \in InChain(s, t) /\ (s.limited_tasks_[c] = u \/ u \in Succ(Members(s, c), t))
  <2>0. u \in Alive(s) /\ u \in Alive(r) /\ u # t
    BY <1>6 DEF Waiting
  <2>1. c \in ChainIds /\ u \in Members(s, c) /\ u \in Members(r, c)
    BY <2>0, <1>8, AliveMembers
  <2>2. /\ Held(s, u, c) <=> ~AtFrontIn(s, u, c) \/ (Limited(s, c) /\ s.limited_tasks_[c] = u)
        /\ Held(r, u, c) <=> ~AtFrontIn(r, u, c) \/ (Limited(r, c) /\ r.limited_tasks_[c] = u)
    BY <2>1, <1>11, VerdictIs
  <2>3. CASE c \notin InChain(s, t)
    BY <2>0, <2>1, <2>2, <2>3, <1>3, <1>10, <1>12 DEF Limited
  <2>4. CASE c \in InChain(s, t)
    BY <2>0, <2>1, <2>2, <2>4, <1>10, <1>12
  <2> QED
    BY <2>3, <2>4
<1> QED
  BY <1>1, <1>5, <1>7, <1>11, <1>12

-----------------------------------------------------------------------------
(* create_task before it tries to start the new task.                       *)

NewTask(chains) == [state |-> "Pending", chains |-> chains, generation |-> [c \in ToSet(chains) |-> 0]]

AddedIs(s, chains, t, r) ==
  /\ r \in State
  /\ r.query = s.query /\ r.failed = s.failed /\ r.pending_tasks_ = s.pending_tasks_
  /\ r.limited_tasks_ = s.limited_tasks_
  /\ DOMAIN r.tasks_ = DOMAIN s.tasks_ \cup {t} /\ r.tasks_[t] = NewTask(chains)
  /\ \A u \in DOMAIN s.tasks_ : r.tasks_[u] = s.tasks_[u]
  /\ \A c \in ChainIds :
       /\ r.chains_[c].chain = IF c \in ToSet(chains) THEN Append(s.chains_[c].chain, t) ELSE s.chains_[c].chain
       /\ r.chains_[c].generation = s.chains_[c].generation
       /\ r.chains_[c].active_tasks = s.chains_[c].active_tasks

LEMMA AddFields ==
  ASSUME NEW s \in State, NEW chains \in Seq(ChainIds), NEW t, t = Len(s.tasks_) + 1
  PROVE  /\ t \in Nat \ {0} /\ t \notin DOMAIN s.tasks_ /\ \A u \in DOMAIN s.tasks_ : u < t
         /\ AddedIs(s, chains, t, Added(s, chains))
<1>1. PICK r : r = Added(s, chains)
  OBVIOUS
<1>0. /\ Len(s.tasks_) \in Nat /\ DOMAIN s.tasks_ = 1..Len(s.tasks_)
      /\ s.tasks_ \in Seq(Task) /\ s.chains_ \in [ChainIds -> ChainInfo]
  BY StateFields
<1>2. t \in Nat \ {0} /\ t \notin DOMAIN s.tasks_ /\ \A u \in DOMAIN s.tasks_ : u < t
  BY <1>0
<1> DEFINE info == [c \in ChainIds |->
                      IF c \in ToSet(chains) THEN [s.chains_[c] EXCEPT !.chain = Append(@, t)] ELSE s.chains_[c]]
<1>3. r = [s EXCEPT !.tasks_ = Append(s.tasks_, NewTask(chains)), !.chains_ = info]
  BY <1>1 DEF Added, NewTask
<1> HIDE DEF info
<1>4. NewTask(chains) \in Task /\ ToSet(chains) \subseteq ChainIds
  <2>1. [c \in ToSet(chains) |-> 0] \in [ToSet(chains) -> Nat]
    OBVIOUS
  <2>2. [c \in ToSet(chains) |-> 0] \in Generations
    BY <2>1, GenerationsIs
  <2>3. ToSet(chains) \subseteq ChainIds
    BY DEF ToSet
  <2> QED
    BY <2>2, <2>3 DEF NewTask, Task
<1>5. PICK n : n = NewTask(chains)
  OBVIOUS
<1>6. /\ Append(s.tasks_, n) \in Seq(Task) /\ DOMAIN Append(s.tasks_, n) = DOMAIN s.tasks_ \cup {t}
      /\ Append(s.tasks_, n)[t] = n /\ \A u \in DOMAIN s.tasks_ : Append(s.tasks_, n)[u] = s.tasks_[u]
  <2>1. n \in Task
    BY <1>4, <1>5
  <2> QED
    BY <2>1, <1>0
<1>7. ASSUME NEW c \in ChainIds
      PROVE  /\ info[c] \in ChainInfo
             /\ info[c].chain = IF c \in ToSet(chains) THEN Append(s.chains_[c].chain, t) ELSE s.chains_[c].chain
             /\ info[c].generation = s.chains_[c].generation
             /\ info[c].active_tasks = s.chains_[c].active_tasks
  <2>1. PICK x : x = s.chains_[c]
    OBVIOUS
  <2>2. x \in ChainInfo /\ x.chain \in Seq(Nat)
    BY <2>1, <1>0 DEF ChainInfo
  <2>3. PICK l : l = Append(x.chain, t)
    OBVIOUS
  <2>4. l \in Seq(Nat)
    BY <2>2, <2>3, <1>2
  <2>5. info[c] = IF c \in ToSet(chains) THEN [x EXCEPT !.chain = l] ELSE x
    BY <2>1, <2>3 DEF info
  <2>6. PICK y : y = [x EXCEPT !.chain = l]
    OBVIOUS
  <2>7. y \in ChainInfo /\ y.chain = l /\ y.generation = x.generation /\ y.active_tasks = x.active_tasks
    BY <2>2, <2>4, <2>6 DEF ChainInfo
  <2> QED
    BY <2>1, <2>2, <2>3, <2>5, <2>6, <2>7
<1>8. info \in [ChainIds -> ChainInfo]
  BY <1>7 DEF info
<1>9. /\ r.tasks_ = Append(s.tasks_, n) /\ r.chains_ = info /\ r.query = s.query /\ r.failed = s.failed
      /\ r.pending_tasks_ = s.pending_tasks_ /\ r.limited_tasks_ = s.limited_tasks_
  BY <1>3, <1>5 DEF State
<1>10. r \in State
  <2>1. r.tasks_ \in Seq(Task) /\ r.chains_ \in [ChainIds -> ChainInfo]
    BY <1>6, <1>8, <1>9
  <2>2. r = [s EXCEPT !.tasks_ = r.tasks_, !.chains_ = r.chains_]
    BY <1>3, <1>5, <1>9
  <2> QED
    BY <2>1, <2>2 DEF State
<1> QED
  BY <1>1, <1>2, <1>5, <1>6, <1>7, <1>9, <1>10 DEF AddedIs

LEMMA AddKeeps ==
  ASSUME NEW s, SchedulerGood(s), NEW chains \in Seq(ChainIds), chains # <<>>, IsInjective(chains),
         NEW t, t = Len(s.tasks_) + 1
  PROVE  LET r == Added(s, chains)
         IN  /\ SchedulerGood(r) /\ Alive(r) = Alive(s) \cup {t} /\ t \in Waiting(r)
             /\ \A u \in Waiting(r) \ {t} : u \in Waiting(s) /\ InChain(r, u) = InChain(s, u)
             /\ \A u \in Waiting(r) \ {t} : \A c \in InChain(s, u) : Held(s, u, c) => Held(r, u, c)
<1>1. PICK r : r = Added(s, chains)
  OBVIOUS
<1>2. s \in State
  BY DEF SchedulerGood
<1>3. /\ t \in Nat \ {0} /\ t \notin DOMAIN s.tasks_ /\ \A u \in DOMAIN s.tasks_ : u < t
      /\ AddedIs(s, chains, t, r)
  BY <1>1, <1>2, AddFields
<1>4. /\ r \in State
      /\ r.query = s.query /\ r.failed = s.failed /\ r.pending_tasks_ = s.pending_tasks_
      /\ r.limited_tasks_ = s.limited_tasks_
      /\ DOMAIN r.tasks_ = DOMAIN s.tasks_ \cup {t} /\ r.tasks_[t] = NewTask(chains)
      /\ \A u \in DOMAIN s.tasks_ : r.tasks_[u] = s.tasks_[u]
      /\ \A c \in ChainIds :
           /\ r.chains_[c].chain = IF c \in ToSet(chains) THEN Append(s.chains_[c].chain, t) ELSE s.chains_[c].chain
           /\ r.chains_[c].generation = s.chains_[c].generation
           /\ r.chains_[c].active_tasks = s.chains_[c].active_tasks
  BY <1>3 DEF AddedIs
<1>5. r.tasks_[t].state = "Pending" /\ Chains(r, t) = chains /\ InChain(r, t) = ToSet(chains)
      /\ r.tasks_[t].generation = [c \in ToSet(chains) |-> 0]
  BY <1>4 DEF NewTask, Chains, InChain
<1>6. Alive(r) = Alive(s) \cup {t}
  <2>1. r.tasks_[t] # Erased
    BY <1>5 DEF Erased
  <2> QED
    BY <2>1, <1>3, <1>4 DEF Alive
<1>7. \A u \in Alive(s) : /\ u \in DOMAIN s.tasks_ /\ u # t /\ r.tasks_[u] = s.tasks_[u]
                          /\ Chains(r, u) = Chains(s, u) /\ InChain(r, u) = InChain(s, u)
  BY <1>3, <1>4 DEF Alive, Chains, InChain
<1>8. t \in Waiting(r) /\ \A u \in Waiting(r) \ {t} : u \in Waiting(s) /\ InChain(r, u) = InChain(s, u)
  BY <1>5, <1>6, <1>7 DEF Waiting
<1>9. ASSUME NEW c \in ChainIds
      PROVE  /\ \A x \in Members(s, c) : x < t /\ x \in DOMAIN s.tasks_
             /\ Increasing(r.chains_[c].chain)
             /\ Members(r, c) = IF c \in ToSet(chains) THEN Members(s, c) \cup {t} ELSE Members(s, c)
  <2>1. \A x \in Members(s, c) : x < t /\ x \in DOMAIN s.tasks_
    BY <1>3, MembersAlive
  <2>2. PICK l : l = s.chains_[c].chain
    OBVIOUS
  <2>3. l \in Seq(Nat) /\ Increasing(l)
    BY <2>2, <1>2, StateFields DEF SchedulerGood, ListGood
  <2>4. t \in Nat /\ \A x \in ToSet(l) : x < t
    BY <2>1, <2>2, <1>3 DEF Members
  <2>5. Increasing(Append(l, t)) /\ ToSet(Append(l, t)) = ToSet(l) \cup {t}
    BY <2>3, <2>4, AddToList
  <2> QED
    BY <2>1, <2>2, <2>3, <2>5, <1>4 DEF Members
<1>10. ASSUME NEW c \in ChainIds
       PROVE  ChainGoodIn(r, c) /\ \A u \in Members(s, c) : ~AtFrontIn(s, u, c) => ~AtFrontIn(r, u, c)
  <2>1. PICK S, A, g, generation, active :
          /\ S = Members(s, c) /\ A = Working(s, c) /\ g = Gens(s, c)
          /\ generation = s.chains_[c].generation /\ active = s.chains_[c].active_tasks
    OBVIOUS
  <2>2. ChainGood(S, A, g, generation, active)
    BY <2>1 DEF SchedulerGood, ChainGoodIn
  <2>3. r.chains_[c].generation = generation /\ r.chains_[c].active_tasks = active
    BY <2>1, <1>4
  <2>4. \A x \in S : x < t /\ x # t /\ r.tasks_[x] = s.tasks_[x]
    BY <2>1, <1>3, <1>4, <1>9
  <2>5. CASE c \notin ToSet(chains)
    <3>1. Members(r, c) = S
      BY <2>1, <2>5, <1>9
    <3>2. Working(r, c) = A /\ Gens(r, c) = g
      BY <2>1, <2>4, <3>1 DEF Working, Gens
    <3> QED
      BY <2>1, <2>2, <2>3, <3>1, <3>2 DEF ChainGoodIn, AtFrontIn
  <2>6. CASE c \in ToSet(chains)
    <3>1. Members(r, c) = S \cup {t}
      BY <2>1, <2>6, <1>9
    <3>2. PICK h : h = [x \in S \cup {t} |-> IF x = t THEN 0 ELSE g[x]]
      OBVIOUS
    <3>3. t \in Nat
      BY <1>3
    <3>9. \A x \in S : x < t
      BY <2>4
    <3>4. ChainGood(S \cup {t}, A, h, generation, active) /\ \A u \in S : ~AtFront(S, g, generation, u) => ~AtFront(S \cup {t}, h, generation, u)
      <4>1. h \in [S \cup {t} -> Nat]
        BY <2>2, <3>2 DEF ChainGood
      <4>2. h[t] = 0
        BY <3>2
      <4>3. \A x \in S : h[x] = g[x]
        BY <2>4, <3>2
      <4> QED
        BY <2>2, <3>3, <3>9, <4>1, <4>2, <4>3, ChainAdd
    <3>5. Working(r, c) = A
      BY <2>1, <2>4, <3>1, <1>5 DEF Working
    <3>6. r.tasks_[t].generation[c] = 0
      BY <2>6, <1>5
    <3>7. \A x \in S : g[x] = s.tasks_[x].generation[c]
      BY <2>1 DEF Gens
    <3>8. Gens(r, c) = h
      BY <2>4, <3>1, <3>2, <3>6, <3>7 DEF Gens
    <3> QED
      BY <2>1, <2>3, <3>1, <3>4, <3>5, <3>8 DEF ChainGoodIn, AtFrontIn
  <2> QED
    BY <2>5, <2>6
<1>11. SchedulerGood(r)
  <2>1. ASSUME NEW u \in Alive(r) PROVE TaskGood(r, u)
    <3>1. CASE u = t
      BY <3>1, <1>5 DEF TaskGood
    <3>2. CASE u # t
      <4>1. u \in Alive(s)
        BY <3>2, <1>6
      <4> QED
        BY <4>1, <1>7, AliveMembers DEF TaskGood
    <3> QED
      BY <3>1, <3>2
  <2>2. ASSUME NEW c \in ChainIds PROVE ListGood(r, c)
    <3>1. Members(s, c) = {u \in Alive(s) : c \in InChain(s, u)}
      BY DEF SchedulerGood, ListGood
    <3>2. Members(r, c) = {u \in Alive(r) : c \in InChain(r, u)}
      BY <3>1, <1>5, <1>6, <1>7, <1>9
    <3> QED
      BY <3>2, <1>9 DEF ListGood
  <2>3. \A c \in ChainIds : r.limited_tasks_[c] = 0 \/ r.limited_tasks_[c] \in Members(r, c)
    BY <1>4, <1>9 DEF SchedulerGood
  <2>4. PendingGood(r)
    BY <1>4, <1>6, <1>7 DEF SchedulerGood, PendingGood
  <2>5. ~r.failed
    BY <1>4 DEF SchedulerGood
  <2> QED
    BY <2>1, <2>2, <2>3, <2>4, <2>5, <1>4, <1>10 DEF SchedulerGood
<1>12. ASSUME NEW u \in Waiting(r) \ {t}, NEW c \in InChain(s, u), Held(s, u, c) PROVE Held(r, u, c)
  <2>1. u \in Alive(s) /\ c \in ChainIds /\ u \in Members(s, c) /\ u \in Members(r, c)
    <3>1. u \in Alive(s)
      BY <1>8 DEF Waiting
    <3>2. c \in ChainIds /\ u \in Members(s, c)
      BY <3>1, AliveMembers
    <3> QED
      BY <3>1, <3>2, <1>9
  <2>2. /\ Held(s, u, c) <=> ~AtFrontIn(s, u, c) \/ (Limited(s, c) /\ s.limited_tasks_[c] = u)
        /\ Held(r, u, c) <=> ~AtFrontIn(r, u, c) \/ (Limited(r, c) /\ r.limited_tasks_[c] = u)
    BY <2>1, <1>11, VerdictIs
  <2> QED
    BY <2>1, <2>2, <1>4, <1>10, <1>12 DEF Limited
<1> QED
  BY <1>1, <1>6, <1>8, <1>11, <1>12

-----------------------------------------------------------------------------
(* The operations of the scheduler.                                         *)

SchedulerAtRest(s) == SchedulerGood(s) /\ Reasons(s, <<>>)

LEMMA NoTodo ==
  ASSUME NEW s
  PROVE  Reasons(s, <<>>) <=> \A u \in Waiting(s) : \E c \in InChain(s, u) : Held(s, u, c)
BY ToSetSmall DEF Reasons

LEMMA ResetKeeps ==
  ASSUME NEW s, SchedulerAtRest(s), NEW t \in Alive(s), t \notin ToSet(s.pending_tasks_)
  PROVE  LET r == reset_task(s, t)
         IN  SchedulerAtRest(r) /\ Tried(Stopped(s, t, "Pending"), r)
<1>1. PICK q, todo : q = Stopped(s, t, "Pending") /\ todo = Append(ToStart(s, t), t)
  OBVIOUS
<1>2. SchedulerGood(s) /\ Reasons(s, <<>>)
  BY DEF SchedulerAtRest
<1>3. reset_task(s, t) = try_start_tasks(q, todo)
  BY <1>1, <1>2, StopFields DEF reset_task
<1>4. /\ SchedulerGood(q) /\ SameLists(s, q)
      /\ \A u \in Waiting(q) : u = t \/ u \in Waiting(s) \ {t}
      /\ \A u \in Waiting(q) \ {t} : \A c \in InChain(s, u) :
           Held(s, u, c) => Held(q, u, c) \/ (c \in InChain(s, t) /\ s.limited_tasks_[c] = u)
  BY <1>1, <1>2, StopKeeps
<1>5. /\ ToStart(s, t) \in Seq(Nat) /\ ToSet(ToStart(s, t)) \subseteq Alive(s) \ {t}
      /\ \A c \in InChain(s, t) : s.limited_tasks_[c] \notin {0, t} => s.limited_tasks_[c] \in ToSet(ToStart(s, t))
  BY <1>2, ToStartIs
<1>6. t \in Nat
  BY <1>2, AliveMembers
<1>7. todo \in Seq(Nat) /\ ToSet(todo) = ToSet(ToStart(s, t)) \cup {t}
  <2>1. PICK a : a = ToStart(s, t)
    OBVIOUS
  <2>2. a \in Seq(Nat)
    BY <2>1, <1>5
  <2>3. Append(a, t) \in Seq(Nat) /\ ToSet(Append(a, t)) = ToSet(a) \cup {t}
    BY <2>2, <1>6, ToSetAppend
  <2> QED
    BY <2>1, <2>3, <1>1
<1>8. Alive(q) = Alive(s)
  BY <1>4 DEF SameLists
<1>9. Reasons(q, todo)
  <2> SUFFICES ASSUME NEW u \in Waiting(q) \ ToSet(todo) PROVE \E c \in InChain(q, u) : Held(q, u, c)
    BY DEF Reasons
  <2>1. u # t /\ u \in Waiting(s) /\ u \notin ToSet(ToStart(s, t))
    BY <1>4, <1>7
  <2>2. PICK c \in InChain(s, u) : Held(s, u, c)
    BY <2>1, <1>2, NoTodo
  <2>3. u \in Alive(s)
    BY <2>1 DEF Waiting
  <2>4. u \in DOMAIN s.tasks_ /\ u # 0
    BY <2>3, <1>2, AliveMembers
  <2>5. InChain(q, u) = InChain(s, u)
    BY <2>4, <1>4, SameSets
  <2>6. ~(c \in InChain(s, t) /\ s.limited_tasks_[c] = u)
    BY <2>1, <2>4, <1>5
  <2> QED
    BY <2>1, <2>2, <2>5, <2>6, <1>4
<1>10. TryGood(q, todo)
  BY <1>4, <1>5, <1>7, <1>8, <1>9 DEF TryGood
<1>11. PICK r : r = try_start_tasks(q, todo)
  OBVIOUS
<1>12. SchedulerGood(r) /\ Reasons(r, <<>>) /\ Tried(q, r)
  BY <1>10, <1>11, TryKeeps
<1> QED
  BY <1>1, <1>3, <1>11, <1>12 DEF SchedulerAtRest

(* A task that only waited starts no other when it is paused.               *)
LEMMA PauseKeeps ==
  ASSUME NEW s, SchedulerAtRest(s), NEW t \in Alive(s), t \notin ToSet(s.pending_tasks_)
  PROVE  LET r == pause_task(s, t)
         IN  /\ SchedulerAtRest(r) /\ Tried(Stopped(s, t, "Paused"), r)
             /\ s.tasks_[t].state = "Pending" => r.pending_tasks_ = s.pending_tasks_
<1>1. PICK q, todo : q = Stopped(s, t, "Paused") /\ todo = ToStart(s, t)
  OBVIOUS
<1>2. SchedulerGood(s) /\ Reasons(s, <<>>)
  BY DEF SchedulerAtRest
<1>3. pause_task(s, t) = try_start_tasks(q, todo)
  BY <1>1 DEF pause_task, Stopped
<1>4. /\ SchedulerGood(q) /\ SameLists(s, q)
      /\ \A u \in Waiting(q) : u \in Waiting(s) \ {t}
      /\ \A u \in Waiting(q) \ {t} : \A c \in InChain(s, u) :
           Held(s, u, c) => Held(q, u, c) \/ (c \in InChain(s, t) /\ s.limited_tasks_[c] = u)
  BY <1>1, <1>2, StopKeeps
<1>5. /\ todo \in Seq(Nat) /\ ToSet(todo) \subseteq Alive(s) \ {t}
      /\ \A c \in InChain(s, t) : s.limited_tasks_[c] \notin {0, t} => s.limited_tasks_[c] \in ToSet(todo)
  BY <1>1, <1>2, ToStartIs
<1>8. Alive(q) = Alive(s)
  BY <1>4 DEF SameLists
<1>9. Reasons(q, todo)
  <2> SUFFICES ASSUME NEW u \in Waiting(q) \ ToSet(todo) PROVE \E c \in InChain(q, u) : Held(q, u, c)
    BY DEF Reasons
  <2>1. u # t /\ u \in Waiting(s)
    BY <1>4
  <2>2. PICK c \in InChain(s, u) : Held(s, u, c)
    BY <2>1, <1>2, NoTodo
  <2>3. u \in Alive(s)
    BY <2>1 DEF Waiting
  <2>4. u \in DOMAIN s.tasks_ /\ u # 0
    BY <2>3, <1>2, AliveMembers
  <2>5. InChain(q, u) = InChain(s, u)
    BY <2>4, <1>4, SameSets
  <2>6. ~(c \in InChain(s, t) /\ s.limited_tasks_[c] = u)
    BY <2>1, <2>4, <1>5
  <2> QED
    BY <2>1, <2>2, <2>5, <2>6, <1>4
<1>10. TryGood(q, todo)
  BY <1>4, <1>5, <1>8, <1>9 DEF TryGood
<1>11. PICK r : r = try_start_tasks(q, todo)
  OBVIOUS
<1>12. SchedulerGood(r) /\ Reasons(r, <<>>) /\ Tried(q, r) /\ (AllRefused(q) => SameTasks(q, r))
  BY <1>10, <1>11, TryKeeps
<1>13. ASSUME s.tasks_[t].state = "Pending" PROVE r.pending_tasks_ = s.pending_tasks_
  <2>1. StoppedIs(s, t, "Paused", q)
    BY <1>1, <1>2, StopFields
  <2>2. \A c \in ChainIds : /\ q.chains_[c].chain = s.chains_[c].chain
                            /\ q.chains_[c].generation = s.chains_[c].generation
                            /\ q.chains_[c].active_tasks = s.chains_[c].active_tasks
    BY <2>1, <1>13 DEF StoppedIs, StoppedChain, Left
  <2>3. AllRefused(q)
    <3> SUFFICES ASSUME NEW u \in Waiting(q) PROVE \E c \in InChain(q, u) : Verdict(q, u, c) # "start"
      BY DEF AllRefused
    <3>1. u # t /\ u \in Waiting(s)
      BY <1>4
    <3>2. PICK c \in InChain(s, u) : Held(s, u, c)
      BY <3>1, <1>2, NoTodo
    <3>3. u \in Alive(s)
      BY <3>1 DEF Waiting
    <3>4. u \in DOMAIN s.tasks_ /\ c \in ChainIds /\ u \in Members(s, c)
      BY <3>3, <1>2, AliveMembers
    <3>5. InChain(q, u) = InChain(s, u) /\ Members(q, c) = Members(s, c)
      BY <3>4, <1>4, SameSets
    <3>6. \A x \in Members(s, c) : q.tasks_[x].generation[c] = s.tasks_[x].generation[c]
      <4>1. t \in DOMAIN s.tasks_ /\ s.tasks_[t] \in Task
        BY <1>2, AliveMembers
      <4>2. q.tasks_[t].generation = s.tasks_[t].generation
        BY <2>1, <4>1 DEF StoppedIs, Task
      <4> QED
        BY <2>1, <4>2, <3>4, <1>2, MembersAlive DEF StoppedIs
    <3>7. Gens(q, c) = Gens(s, c)
      BY <3>5, <3>6 DEF Gens
    <3>8. (AtFrontIn(q, u, c) <=> AtFrontIn(s, u, c)) /\ (Limited(q, c) <=> Limited(s, c))
      BY <3>4, <3>5, <3>7, <2>2 DEF AtFrontIn, Limited
    <3>9. ~AtFrontIn(s, u, c) \/ Limited(s, c)
      BY <3>2, <3>4, <1>2, VerdictIs
    <3>10. Verdict(q, u, c) # "start"
      BY <3>4, <3>5, <3>8, <3>9, <1>4, VerdictIs
    <3> QED
      BY <3>5, <3>10
  <2> QED
    BY <2>1, <2>3, <1>12 DEF SameTasks, StoppedIs
<1> QED
  BY <1>1, <1>3, <1>11, <1>12, <1>13 DEF SchedulerAtRest

LEMMA FinishKeeps ==
  ASSUME NEW s, SchedulerAtRest(s), NEW t \in Alive(s), t \notin ToSet(s.pending_tasks_)
  PROVE  LET r == finish_task(s, t)
         IN  SchedulerAtRest(r) /\ Tried(Removed(s, t), r)
<1>1. PICK q, todo : q = Removed(s, t) /\ todo = ToStart(s, t) \o for_each_child(s, t)
  OBVIOUS
<1>2. SchedulerGood(s) /\ Reasons(s, <<>>)
  BY DEF SchedulerAtRest
<1>3. finish_task(s, t) = try_start_tasks(q, todo)
  BY <1>1 DEF finish_task
<1>4. /\ SchedulerGood(q) /\ Alive(q) = Alive(s) \ {t} /\ Waiting(q) = Waiting(s) \ {t}
      /\ \A u \in Waiting(q) : \A c \in InChain(s, u) :
           Held(s, u, c) => \/ Held(q, u, c)
                            \/ c \in InChain(s, t) /\ (s.limited_tasks_[c] = u \/ u \in Succ(Members(s, c), t))
  BY <1>1, <1>2, RemoveKeeps
<1>5. /\ ToStart(s, t) \in Seq(Nat) /\ ToSet(ToStart(s, t)) \subseteq Alive(s) \ {t}
      /\ \A c \in InChain(s, t) : s.limited_tasks_[c] \notin {0, t} => s.limited_tasks_[c] \in ToSet(ToStart(s, t))
  BY <1>2, ToStartIs
<1>6. /\ for_each_child(s, t) \in Seq(Nat)
      /\ ToSet(for_each_child(s, t)) = UNION {Succ(Members(s, c), t) : c \in InChain(s, t)}
      /\ ToSet(for_each_child(s, t)) \subseteq Alive(s) \ {t}
  BY <1>2, ChildrenAre
<1>7. todo \in Seq(Nat) /\ ToSet(todo) = ToSet(ToStart(s, t)) \cup ToSet(for_each_child(s, t))
  <2>1. PICK a, b : a = ToStart(s, t) /\ b = for_each_child(s, t)
    OBVIOUS
  <2>2. a \in Seq(Nat) /\ b \in Seq(Nat)
    BY <2>1, <1>5, <1>6
  <2>3. a \o b \in Seq(Nat) /\ ToSet(a \o b) = ToSet(a) \cup ToSet(b)
    BY <2>2, ToSetConcat
  <2> QED
    BY <2>1, <2>3, <1>1
<1>8. RemovedIs(s, t, q)
  BY <1>1, <1>2, RemoveFields
<1>9. Reasons(q, todo)
  <2> SUFFICES ASSUME NEW u \in Waiting(q) \ ToSet(todo) PROVE \E c \in InChain(q, u) : Held(q, u, c)
    BY DEF Reasons
  <2>1. u # t /\ u \in Waiting(s) /\ u \notin ToSet(ToStart(s, t)) /\ u \notin ToSet(for_each_child(s, t))
    BY <1>4, <1>7
  <2>2. PICK c \in InChain(s, u) : Held(s, u, c)
    BY <2>1, <1>2, NoTodo
  <2>3. u \in Alive(s)
    BY <2>1 DEF Waiting
  <2>4. u \in DOMAIN s.tasks_ /\ u # 0
    BY <2>3, <1>2, AliveMembers
  <2>5. InChain(q, u) = InChain(s, u)
    BY <2>1, <2>4, <1>8 DEF RemovedIs, InChain, Chains
  <2>6. ~(c \in InChain(s, t) /\ (s.limited_tasks_[c] = u \/ u \in Succ(Members(s, c), t)))
    BY <2>1, <2>4, <1>5, <1>6
  <2> QED
    BY <2>2, <2>5, <2>6, <1>4
<1>10. TryGood(q, todo)
  BY <1>4, <1>5, <1>6, <1>7, <1>9 DEF TryGood
<1>11. PICK r : r = try_start_tasks(q, todo)
  OBVIOUS
<1>12. SchedulerGood(r) /\ Reasons(r, <<>>) /\ Tried(q, r)
  BY <1>10, <1>11, TryKeeps
<1> QED
  BY <1>1, <1>3, <1>11, <1>12 DEF SchedulerAtRest

LEMMA CreateKeeps ==
  ASSUME NEW s, SchedulerAtRest(s), NEW chains \in Seq(ChainIds), chains # <<>>, IsInjective(chains)
  PROVE  LET r == create_task(s, chains)
         IN  SchedulerAtRest(r) /\ Tried(Added(s, chains), r)
<1>1. PICK q, t, todo : q = Added(s, chains) /\ t = Len(s.tasks_) + 1 /\ todo = <<t>>
  OBVIOUS
<1>2. SchedulerGood(s) /\ Reasons(s, <<>>)
  BY DEF SchedulerAtRest
<1>3. create_task(s, chains) = try_start_tasks(q, todo)
  BY <1>1 DEF create_task
<1>0. t = Len(s.tasks_) + 1
  BY <1>1
<1>4. /\ SchedulerGood(q) /\ Alive(q) = Alive(s) \cup {t} /\ t \in Waiting(q)
      /\ \A u \in Waiting(q) \ {t} : u \in Waiting(s) /\ InChain(q, u) = InChain(s, u)
      /\ \A u \in Waiting(q) \ {t} : \A c \in InChain(s, u) : Held(s, u, c) => Held(q, u, c)
  <2>1. q = Added(s, chains)
    BY <1>1
  <2> QED
    BY <2>1, <1>0, <1>2, AddKeeps
<1>5. t \in Nat
  BY <1>0, <1>2, StateFields DEF SchedulerGood
<1>6. todo \in Seq(Nat) /\ ToSet(todo) = {t}
  BY <1>1, <1>5, ToSetSmall
<1>7. Reasons(q, todo)
  <2> SUFFICES ASSUME NEW u \in Waiting(q) \ {t} PROVE \E c \in InChain(q, u) : Held(q, u, c)
    BY <1>6 DEF Reasons
  <2>1. u \in Waiting(s) /\ InChain(q, u) = InChain(s, u)
    BY <1>4
  <2>2. PICK c \in InChain(s, u) : Held(s, u, c)
    BY <2>1, <1>2, NoTodo
  <2> QED
    BY <2>1, <2>2, <1>4
<1>8. TryGood(q, todo)
  BY <1>4, <1>6, <1>7 DEF TryGood
<1>9. PICK r : r = try_start_tasks(q, todo)
  OBVIOUS
<1>10. SchedulerGood(r) /\ Reasons(r, <<>>) /\ Tried(q, r)
  BY <1>8, <1>9, TryKeeps
<1> QED
  BY <1>1, <1>3, <1>9, <1>10 DEF SchedulerAtRest

-----------------------------------------------------------------------------
(* Changes of queries.                                                      *)

Put(s, t, x) == [s EXCEPT !.query = [s.query EXCEPT ![t] = x]]

LEMMA PutFields ==
  ASSUME NEW s \in State, NEW t \in DOMAIN s.query, NEW x \in Query
  PROVE  LET r == Put(s, t, x)
         IN  /\ r \in State /\ r.tasks_ = s.tasks_ /\ r.chains_ = s.chains_ /\ r.limited_tasks_ = s.limited_tasks_
             /\ r.pending_tasks_ = s.pending_tasks_ /\ r.failed = s.failed
             /\ DOMAIN r.query = DOMAIN s.query /\ r.query[t] = x
             /\ \A u \in DOMAIN s.query : u # t => r.query[u] = s.query[u]
             /\ \A y : Put(r, t, y) = Put(s, t, y)
<1>1. PICK r, q : q = [s.query EXCEPT ![t] = x] /\ r = Put(s, t, x)
  OBVIOUS
<1>2. s.query \in Seq(Query)
  BY StateFields
<1>3. /\ q \in Seq(Query) /\ DOMAIN q = DOMAIN s.query /\ q[t] = x
      /\ \A u \in DOMAIN s.query : u # t => q[u] = s.query[u]
  BY <1>1, <1>2
<1>4. r = [s EXCEPT !.query = q]
  BY <1>1 DEF Put
<1>5. /\ r \in State /\ r.tasks_ = s.tasks_ /\ r.chains_ = s.chains_ /\ r.limited_tasks_ = s.limited_tasks_
      /\ r.pending_tasks_ = s.pending_tasks_ /\ r.failed = s.failed /\ r.query = q
  BY <1>3, <1>4 DEF State
<1>6. ASSUME NEW y PROVE Put(r, t, y) = Put(s, t, y)
  <2>1. [q EXCEPT ![t] = y] = [s.query EXCEPT ![t] = y]
    BY <1>1, <1>2
  <2>2. PICK z : z = [s.query EXCEPT ![t] = y]
    OBVIOUS
  <2>3. Put(r, t, y) = [r EXCEPT !.query = z] /\ Put(s, t, y) = [s EXCEPT !.query = z]
    BY <2>1, <2>2, <1>5 DEF Put
  <2>4. [r EXCEPT !.query = z] = [s EXCEPT !.query = z]
    BY <1>4 DEF State
  <2> QED
    BY <2>3, <2>4
<1> QED
  BY <1>1, <1>3, <1>5, <1>6

LEMMA PutSame ==
  ASSUME NEW s \in State, NEW t \in DOMAIN s.query
  PROVE  Put(s, t, s.query[t]) = s
<1>1. s.query \in Seq(Query)
  BY StateFields
<1>2. [s.query EXCEPT ![t] = s.query[t]] = s.query
  BY <1>1
<1>3. [s EXCEPT !.query = s.query] = s
  BY DEF State
<1> QED
  BY <1>2, <1>3 DEF Put

(* What may change in the queries while t is dealt with.                    *)
Moves(q, r, t) ==
  /\ DOMAIN r = DOMAIN q
  /\ \A u \in DOMAIN q :
       /\ r[u].chains = q[u].chains /\ r[u].message_id = q[u].message_id
       /\ (r[u].place = "sent" <=> q[u].place = "sent") /\ (q[u].place = "done" => r[u].place = "done")
       /\ u # t /\ q[u].place # "node" => r[u].place = q[u].place /\ r[u].state = q[u].state
       /\ q[u].place \in {"mailbox", "callback"} /\ q[u].state = "OK"
            => r[u].place = "done" \/ (r[u].place \in {"mailbox", "callback"} /\ r[u].state = "OK")

LEMMA MovesReflexive ==
  ASSUME NEW q, NEW t
  PROVE  Moves(q, q, t)
BY DEF Moves

LEMMA MovesTransitive ==
  ASSUME NEW q, NEW r, NEW p, NEW t, Moves(q, r, t), Moves(r, p, t)
  PROVE  Moves(q, p, t)
<1>1. ASSUME NEW u \in DOMAIN q
      PROVE  /\ p[u].chains = q[u].chains /\ p[u].message_id = q[u].message_id
             /\ (p[u].place = "sent" <=> q[u].place = "sent") /\ (q[u].place = "done" => p[u].place = "done")
             /\ u # t /\ q[u].place # "node" => p[u].place = q[u].place /\ p[u].state = q[u].state
             /\ q[u].place \in {"mailbox", "callback"} /\ q[u].state = "OK"
                  => p[u].place = "done" \/ (p[u].place \in {"mailbox", "callback"} /\ p[u].state = "OK")
  <2>1. u \in DOMAIN r
    BY DEF Moves
  <2> QED
    BY <2>1 DEF Moves
<1> QED
  BY <1>1 DEF Moves

(* What a query in flight follows stays so.                                 *)
LEMMA FollowsKeeps ==
  ASSUME NEW q, NEW r, NEW t \in DOMAIN q, Follows(q, t), DOMAIN r = DOMAIN q,
         \A u \in DOMAIN q : r[u].chains = q[u].chains /\ (q[u].place = "done" => r[u].place = "done"),
         r[t].invoke_after = q[t].invoke_after
  PROVE  Follows(r, t)
<1>1. \A u, c : Earlier(r, u, t, c) <=> Earlier(q, u, t, c)
  BY DEF Earlier
<1> QED
  BY <1>1 DEF Follows

(* The scheduler does not look at the queries, nor at what is to be sent.   *)
LEMMA FieldsOnly ==
  ASSUME NEW s, SchedulerAtRest(s), NEW r \in State, r.tasks_ = s.tasks_, r.chains_ = s.chains_,
         r.limited_tasks_ = s.limited_tasks_, r.failed = s.failed,
         IsInjective(r.pending_tasks_), ToSet(r.pending_tasks_) \subseteq ToSet(s.pending_tasks_)
  PROVE  /\ SchedulerAtRest(r) /\ Alive(r) = Alive(s) /\ Waiting(r) = Waiting(s)
         /\ \A u : Chains(r, u) = Chains(s, u)
<1>1. SchedulerGood(s) /\ Reasons(s, <<>>)
  BY DEF SchedulerAtRest
<1>5. /\ Alive(r) = Alive(s) /\ Waiting(r) = Waiting(s)
      /\ \A u : Chains(r, u) = Chains(s, u) /\ InChain(r, u) = InChain(s, u)
  BY DEF Alive, Waiting, Chains, InChain
<1>7. \A e : Members(r, e) = Members(s, e) /\ Working(r, e) = Working(s, e) /\ Gens(r, e) = Gens(s, e)
  BY DEF Members, Working, Gens
<1>8. SchedulerGood(r)
  <2>1. \A u \in Alive(r) : TaskGood(r, u)
    BY <1>1, <1>5 DEF SchedulerGood, TaskGood
  <2>2. \A e \in ChainIds : ListGood(r, e)
    BY <1>1, <1>5, <1>7 DEF SchedulerGood, ListGood
  <2>3. \A e \in ChainIds : ChainGoodIn(r, e)
    BY <1>1, <1>7 DEF SchedulerGood, ChainGoodIn
  <2>4. \A e \in ChainIds : r.limited_tasks_[e] = 0 \/ r.limited_tasks_[e] \in Members(r, e)
    BY <1>1, <1>7 DEF SchedulerGood
  <2>5. PendingGood(r) /\ ~r.failed
    BY <1>1, <1>5 DEF SchedulerGood, PendingGood
  <2> QED
    BY <2>1, <2>2, <2>3, <2>4, <2>5 DEF SchedulerGood
<1>9. \A u, c : Held(r, u, c) <=> Held(s, u, c)
  BY DEF Held, Verdict, ParentStarted, get_parent, Position, Limited
<1> QED
  BY <1>1, <1>5, <1>8, <1>9 DEF SchedulerAtRest, Reasons

LEMMA QueryOnly ==
  ASSUME NEW s, SchedulerAtRest(s), NEW r \in State, SameTasks(s, r),
         r.limited_tasks_ = s.limited_tasks_, r.failed = s.failed
  PROVE  /\ SchedulerAtRest(r) /\ Alive(r) = Alive(s) /\ Waiting(r) = Waiting(s)
         /\ \A u : Chains(r, u) = Chains(s, u)
<1>1. r.tasks_ = s.tasks_ /\ r.chains_ = s.chains_ /\ r.pending_tasks_ = s.pending_tasks_
  BY DEF SameTasks
<1>2. IsInjective(s.pending_tasks_)
  BY DEF SchedulerAtRest, SchedulerGood, PendingGood
<1> QED
  BY <1>1, <1>2, FieldsOnly

-----------------------------------------------------------------------------
(* The dispatcher while it deals with t.                                    *)

LEMMA HalfParts ==
  ASSUME NEW s, NEW X
  PROVE  Half(s, X) <=> SchedulerAtRest(s) /\ Placed(s, X) /\ Ordered(s.query)
BY DEF Half, SchedulerAtRest

LEMMA HalfFields ==
  ASSUME NEW s, NEW X, Half(s, X), NEW t \in Alive(s)
  PROVE  s \in State /\ t \in DOMAIN s.tasks_ /\ t \in DOMAIN s.query /\ s.query[t] \in Query /\ t \in Nat \ {0}
BY StateFields DEF Half, SchedulerGood, Placed, Alive

(* A query that is not changed by the scheduler.                            *)
LEMMA HalfOut ==
  ASSUME NEW s, Half(s, {}), NEW t, t \notin ToSet(s.pending_tasks_)
  PROVE  Half(s, {t})
BY DEF Half, Placed

LEMMA HalfIn ==
  ASSUME NEW s, NEW t \in Alive(s), Half(s, {t}), s.query[t].place # "node", t \notin Waiting(s)
  PROVE  Half(s, {})
BY DEF Half, Placed

LEMMA PutKeeps ==
  ASSUME NEW s, NEW X, Half(s, X), NEW t \in Alive(s), NEW x \in Query,
         x.chains = s.query[t].chains, x.place # "done",
         t \in X \/ x.place = s.query[t].place,
         x.place \in InFlight => s.query[t].place \in InFlight /\ x.invoke_after = s.query[t].invoke_after
  PROVE  LET r == Put(s, t, x)
         IN  /\ Half(r, X) /\ Alive(r) = Alive(s) /\ Waiting(r) = Waiting(s) /\ r.pending_tasks_ = s.pending_tasks_
             /\ r.tasks_ = s.tasks_ /\ r.query[t] = x /\ DOMAIN r.query = DOMAIN s.query
             /\ \A u \in DOMAIN s.query : u # t => r.query[u] = s.query[u]
<1>1. PICK r : r = Put(s, t, x)
  OBVIOUS
<1>2. s \in State /\ t \in DOMAIN s.query
  BY HalfFields
<1>3. /\ r \in State /\ r.tasks_ = s.tasks_ /\ r.chains_ = s.chains_ /\ r.limited_tasks_ = s.limited_tasks_
      /\ r.pending_tasks_ = s.pending_tasks_ /\ r.failed = s.failed
      /\ DOMAIN r.query = DOMAIN s.query /\ r.query[t] = x
      /\ \A u \in DOMAIN s.query : u # t => r.query[u] = s.query[u]
  BY <1>1, <1>2, PutFields
<1>4. SchedulerAtRest(s) /\ Placed(s, X) /\ Ordered(s.query)
  BY HalfParts
<1>5. SameTasks(s, r)
  BY <1>3 DEF SameTasks
<1>6. /\ SchedulerAtRest(r) /\ Alive(r) = Alive(s) /\ Waiting(r) = Waiting(s)
      /\ \A u : Chains(r, u) = Chains(s, u)
  BY <1>3, <1>4, <1>5, QueryOnly
<1>7. s.query[t].place # "done"
  BY <1>4 DEF Placed, Alive
<1>8. Placed(r, X)
  <2>1. \A u \in DOMAIN s.query : (u # t => r.query[u] = s.query[u]) /\ r.query[u].chains = s.query[u].chains
                                   /\ (r.query[u].place = "done" <=> s.query[u].place = "done")
    BY <1>3, <1>7
  <2>2. \A u \in DOMAIN s.query \ X : r.query[u].place = s.query[u].place
    BY <1>3
  <2>3. \A u \in Alive(s) : u \in DOMAIN s.query
    BY <1>4 DEF Placed, Alive
  <2> QED
    BY <2>1, <2>2, <2>3, <1>3, <1>4, <1>6 DEF Placed
<1>9. Ordered(r.query)
  <2> SUFFICES ASSUME NEW u \in DOMAIN r.query, r.query[u].place \in InFlight PROVE Follows(r.query, u)
    BY DEF Ordered
  <2>1. u \in DOMAIN s.query /\ s.query[u].place \in InFlight /\ r.query[u].invoke_after = s.query[u].invoke_after
    BY <1>3
  <2>2. Follows(s.query, u)
    BY <2>1, <1>4 DEF Ordered
  <2>3. \A v \in DOMAIN s.query : r.query[v].chains = s.query[v].chains
                                   /\ (s.query[v].place = "done" => r.query[v].place = "done")
    BY <1>3, <1>7
  <2> QED
    BY <2>1, <2>2, <2>3, <1>3, FollowsKeeps
<1>10. Half(r, X)
  BY <1>6, <1>8, <1>9, HalfParts
<1> QED
  BY <1>1, <1>3, <1>6, <1>10

LEMMA ResetHalf ==
  ASSUME NEW s, NEW t \in Alive(s), Half(s, {t}), s.query[t].place = "node"
  PROVE  Half(reset_task(s, t), {}) /\ reset_task(s, t).query = s.query
<1>1. PICK r, q : r = reset_task(s, t) /\ q = Stopped(s, t, "Pending")
  OBVIOUS
<1>2. SchedulerAtRest(s) /\ SchedulerGood(s) /\ Placed(s, {t}) /\ Ordered(s.query)
  BY HalfParts DEF Half
<1>3. t \notin ToSet(s.pending_tasks_) /\ t \in DOMAIN s.tasks_ /\ s.tasks_[t] \in Task
  BY <1>2, AliveMembers DEF Placed
<1>4. SchedulerAtRest(r) /\ Tried(q, r)
  BY <1>1, <1>2, <1>3, ResetKeeps
<1>5. StoppedIs(s, t, "Pending", q) /\ SameLists(s, q)
  BY <1>1, <1>2, <1>3, StopFields, StopKeeps
<1>6. /\ q.query = s.query /\ DOMAIN q.tasks_ = DOMAIN s.tasks_ /\ Alive(q) = Alive(s)
      /\ \A u \in DOMAIN s.tasks_ : Chains(q, u) = Chains(s, u)
      /\ \A u \in DOMAIN s.tasks_ : u # t => q.tasks_[u] = s.tasks_[u]
      /\ q.pending_tasks_ = s.pending_tasks_ /\ q.tasks_[t].state = "Pending"
  BY <1>3, <1>5 DEF StoppedIs, SameLists, Task
<1>7. /\ r.query = s.query /\ DOMAIN r.tasks_ = DOMAIN s.tasks_ /\ Alive(r) = Alive(s)
      /\ \A u \in DOMAIN s.tasks_ : Chains(r, u) = Chains(s, u)
      /\ \A u \in DOMAIN s.tasks_ :
           \/ SameTask(q, r, u)
           \/ q.tasks_[u].state = "Pending" /\ r.tasks_[u].state = "Active" /\ u \in ToSet(r.pending_tasks_)
  BY <1>4, <1>6 DEF Tried, SameLists
<1>8. ASSUME NEW u \in Alive(r)
      PROVE  s.query[u].place = "node" <=> u \in Waiting(r) \/ u \in ToSet(r.pending_tasks_)
  <2>1. u \in DOMAIN s.tasks_ /\ u \in Alive(s)
    BY <1>7 DEF Alive
  <2>2. CASE u = t
    BY <2>1, <2>2, <1>6, <1>7 DEF SameTask, Waiting
  <2>3. CASE u # t
    <3>1. s.query[u].place = "node" <=> u \in Waiting(s) \/ u \in ToSet(s.pending_tasks_)
      BY <2>1, <2>3, <1>2 DEF Placed
    <3>2. q.tasks_[u] = s.tasks_[u]
      BY <2>1, <2>3, <1>6
    <3> QED
      BY <2>1, <3>1, <3>2, <1>6, <1>7 DEF SameTask, Waiting
  <2> QED
    BY <2>2, <2>3
<1>9. Placed(r, {})
  BY <1>2, <1>7, <1>8 DEF Placed, Alive
<1>10. Half(r, {})
  BY <1>2, <1>4, <1>7, <1>9, HalfParts
<1> QED
  BY <1>1, <1>7, <1>10

LEMMA PauseHalf ==
  ASSUME NEW s, NEW t \in Alive(s), Half(s, {t})
  PROVE  LET r == pause_task(s, t)
         IN  /\ Half(r, {t}) /\ r.query = s.query /\ t \in Alive(r) /\ t \notin Waiting(r)
             /\ s.tasks_[t].state = "Pending" => r.pending_tasks_ = s.pending_tasks_
<1>1. PICK r, q : r = pause_task(s, t) /\ q = Stopped(s, t, "Paused")
  OBVIOUS
<1>2. SchedulerAtRest(s) /\ SchedulerGood(s) /\ Placed(s, {t}) /\ Ordered(s.query)
  BY HalfParts DEF Half
<1>3. t \notin ToSet(s.pending_tasks_) /\ t \in DOMAIN s.tasks_ /\ s.tasks_[t] \in Task
  BY <1>2, AliveMembers DEF Placed
<1>4. SchedulerAtRest(r) /\ Tried(q, r) /\ (s.tasks_[t].state = "Pending" => r.pending_tasks_ = s.pending_tasks_)
  BY <1>1, <1>2, <1>3, PauseKeeps
<1>5. StoppedIs(s, t, "Paused", q) /\ SameLists(s, q)
  BY <1>1, <1>2, <1>3, StopFields, StopKeeps
<1>6. /\ q.query = s.query /\ DOMAIN q.tasks_ = DOMAIN s.tasks_ /\ Alive(q) = Alive(s)
      /\ \A u \in DOMAIN s.tasks_ : Chains(q, u) = Chains(s, u)
      /\ \A u \in DOMAIN s.tasks_ : u # t => q.tasks_[u] = s.tasks_[u]
      /\ q.pending_tasks_ = s.pending_tasks_ /\ q.tasks_[t].state = "Paused"
  BY <1>3, <1>5 DEF StoppedIs, SameLists, Task
<1>7. /\ r.query = s.query /\ DOMAIN r.tasks_ = DOMAIN s.tasks_ /\ Alive(r) = Alive(s)
      /\ \A u \in DOMAIN s.tasks_ : Chains(r, u) = Chains(s, u)
      /\ \A u \in DOMAIN s.tasks_ :
           \/ SameTask(q, r, u)
           \/ q.tasks_[u].state = "Pending" /\ r.tasks_[u].state = "Active" /\ u \in ToSet(r.pending_tasks_)
  BY <1>4, <1>6 DEF Tried, SameLists
<1>8. ASSUME NEW u \in Alive(r) \ {t}
      PROVE  s.query[u].place = "node" <=> u \in Waiting(r) \/ u \in ToSet(r.pending_tasks_)
  <2>1. u \in DOMAIN s.tasks_ /\ u \in Alive(s)
    BY <1>7 DEF Alive
  <2>2. s.query[u].place = "node" <=> u \in Waiting(s) \/ u \in ToSet(s.pending_tasks_)
    BY <2>1, <1>2 DEF Placed
  <2>3. q.tasks_[u] = s.tasks_[u]
    BY <2>1, <1>6
  <2> QED
    BY <2>1, <2>2, <2>3, <1>6, <1>7 DEF SameTask, Waiting
<1>9. t \notin Waiting(r) /\ t \notin ToSet(r.pending_tasks_)
  BY <1>3, <1>6, <1>7 DEF SameTask, Waiting
<1>10. Placed(r, {t})
  BY <1>2, <1>7, <1>8, <1>9 DEF Placed, Alive
<1>11. Half(r, {t})
  BY <1>2, <1>4, <1>7, <1>10, HalfParts
<1> QED
  BY <1>1, <1>4, <1>7, <1>9, <1>11

LEMMA FinishHalf ==
  ASSUME NEW s, NEW t \in Alive(s), Half(s, {t}), NEW x \in Query,
         x.chains = s.query[t].chains, x.place = "done"
  PROVE  LET r == finish_task(Put(s, t, x), t)
         IN  Half(r, {}) /\ r.query = Put(s, t, x).query
<1>1. PICK p : p = Put(s, t, x)
  OBVIOUS
<1>2. SchedulerAtRest(s) /\ SchedulerGood(s) /\ Placed(s, {t}) /\ Ordered(s.query)
  BY HalfParts DEF Half
<1>3. s \in State /\ t \in DOMAIN s.query
  BY HalfFields
<1>4. /\ p \in State /\ p.tasks_ = s.tasks_ /\ p.chains_ = s.chains_ /\ p.limited_tasks_ = s.limited_tasks_
      /\ p.pending_tasks_ = s.pending_tasks_ /\ p.failed = s.failed
      /\ DOMAIN p.query = DOMAIN s.query /\ p.query[t] = x
      /\ \A u \in DOMAIN s.query : u # t => p.query[u] = s.query[u]
  BY <1>1, <1>3, PutFields
<1>5. SchedulerAtRest(p) /\ Alive(p) = Alive(s) /\ Waiting(p) = Waiting(s) /\ \A u : Chains(p, u) = Chains(s, u)
  BY <1>2, <1>4, QueryOnly DEF SameTasks
<1>6. t \in Alive(p) /\ t \notin ToSet(p.pending_tasks_) /\ SchedulerGood(p)
  BY <1>2, <1>4, <1>5 DEF Placed, SchedulerAtRest
<1>7. PICK r, q : r = finish_task(p, t) /\ q = Removed(p, t)
  OBVIOUS
<1>8. SchedulerAtRest(r) /\ Tried(q, r)
  BY <1>5, <1>6, <1>7, FinishKeeps
<1>9. RemovedIs(p, t, q)
  BY <1>6, <1>7, RemoveFields
<1>10. Alive(q) = Alive(s) \ {t}
  BY <1>5, <1>6, <1>7, RemoveKeeps
<1>11. /\ q.query = p.query /\ DOMAIN q.tasks_ = DOMAIN s.tasks_ /\ q.pending_tasks_ = s.pending_tasks_
       /\ \A u \in DOMAIN s.tasks_ : u # t => q.tasks_[u] = s.tasks_[u] /\ Chains(q, u) = Chains(s, u)
  BY <1>4, <1>9 DEF RemovedIs, Chains
<1>12. /\ r.query = p.query /\ DOMAIN r.tasks_ = DOMAIN s.tasks_ /\ Alive(r) = Alive(s) \ {t}
       /\ \A u \in DOMAIN s.tasks_ : u # t => Chains(r, u) = Chains(s, u)
       /\ \A u \in DOMAIN s.tasks_ :
            \/ SameTask(q, r, u)
            \/ q.tasks_[u].state = "Pending" /\ r.tasks_[u].state = "Active" /\ u \in ToSet(r.pending_tasks_)
  BY <1>8, <1>10, <1>11 DEF Tried, SameLists
<1>13. DOMAIN s.query = DOMAIN s.tasks_
  BY <1>2 DEF Placed
<1>14. ASSUME NEW u \in Alive(r)
       PROVE  /\ p.query[u].place = "node" <=> u \in Waiting(r) \/ u \in ToSet(r.pending_tasks_)
              /\ p.query[u].chains = Chains(r, u)
  <2>1. u \in DOMAIN s.tasks_ /\ u \in Alive(s) /\ u # t
    BY <1>12 DEF Alive
  <2>2. /\ s.query[u].place = "node" <=> u \in Waiting(s) \/ u \in ToSet(s.pending_tasks_)
        /\ s.query[u].chains = Chains(s, u)
    BY <2>1, <1>2 DEF Placed
  <2>3. q.tasks_[u] = s.tasks_[u] /\ p.query[u] = s.query[u]
    BY <2>1, <1>4, <1>11, <1>13
  <2> QED
    BY <2>1, <2>2, <2>3, <1>11, <1>12 DEF SameTask, Waiting
<1>15. \A u \in DOMAIN s.tasks_ : u \in Alive(r) <=> p.query[u].place # "done"
  BY <1>2, <1>4, <1>12, <1>13 DEF Placed
<1>16. Placed(r, {})
  BY <1>4, <1>12, <1>13, <1>14, <1>15 DEF Placed
<1>17. Ordered(p.query)
  <2> SUFFICES ASSUME NEW u \in DOMAIN p.query, p.query[u].place \in InFlight PROVE Follows(p.query, u)
    BY DEF Ordered
  <2>1. u # t
    BY <1>4 DEF InFlight
  <2>2. u \in DOMAIN s.query /\ s.query[u] = p.query[u]
    BY <2>1, <1>4
  <2>3. Follows(s.query, u)
    BY <2>2, <1>2 DEF Ordered
  <2>4. \A v \in DOMAIN s.query : p.query[v].chains = s.query[v].chains
                                   /\ (s.query[v].place = "done" => p.query[v].place = "done")
    BY <1>4
  <2> QED
    BY <2>2, <2>3, <2>4, <1>4, FollowsKeeps
<1>18. Half(r, {})
  BY <1>8, <1>12, <1>16, <1>17, HalfParts
<1> QED
  BY <1>1, <1>7, <1>12, <1>18

-----------------------------------------------------------------------------
(* flush_pending_queries.                                                   *)

LEMMA ToSetTail ==
  ASSUME NEW p \in Seq(Nat), p # <<>>, IsInjective(p)
  PROVE  /\ IsInjective(Tail(p)) /\ Head(p) \in ToSet(p)
         /\ ToSet(Tail(p)) = ToSet(p) \ {Head(p)}
<1>1. /\ Head(p) \in Nat /\ Tail(p) \in Seq(Nat) /\ ToSet(p) = {Head(p)} \cup ToSet(Tail(p))
      /\ Len(p) \in Nat \ {0} /\ Len(Tail(p)) = Len(p) - 1
  BY ToSetHead
<1>2. DOMAIN p = 1..Len(p) /\ \A i, j \in 1..Len(p) : p[i] = p[j] => i = j
  BY DEF IsInjective
<1>3. /\ DOMAIN Tail(p) = 1..(Len(p) - 1) /\ \A i \in 1..(Len(p) - 1) : Tail(p)[i] = p[i + 1]
      /\ Head(p) = p[1]
  BY <1>1
<1>4. IsInjective(Tail(p))
  <2>1. ASSUME NEW i \in 1..(Len(p) - 1), NEW j \in 1..(Len(p) - 1), Tail(p)[i] = Tail(p)[j] PROVE i = j
    <3>1. i + 1 \in 1..Len(p) /\ j + 1 \in 1..Len(p) /\ p[i + 1] = p[j + 1]
      BY <2>1, <1>1, <1>3
    <3>2. i + 1 = j + 1
      BY <3>1, <1>2
    <3> QED
      BY <3>2
  <2> QED
    BY <2>1, <1>3 DEF IsInjective
<1>5. Head(p) \notin ToSet(Tail(p))
  <2> SUFFICES ASSUME Head(p) \in ToSet(Tail(p)) PROVE FALSE
    OBVIOUS
  <2>1. PICK i \in 1..(Len(p) - 1) : Tail(p)[i] = p[1]
    BY <1>3 DEF ToSet
  <2>2. i + 1 \in 1..Len(p) /\ 1 \in 1..Len(p) /\ p[i + 1] = p[1]
    BY <2>1, <1>1, <1>3
  <2>3. i + 1 = 1
    BY <2>2, <1>2
  <2> QED
    BY <2>3
<1> QED
  BY <1>1, <1>4, <1>5

(* What a query is sent after: each query before it in a chain that is not  *)
(* done, directly or through one between.                                   *)
LEMMA ParentsFollow ==
  ASSUME NEW s, NEW X, Half(s, X), s.pending_tasks_ # <<>>
  PROVE  LET t == NextTask(s)
         IN  /\ t \in Alive(s) /\ t \in ToSet(s.pending_tasks_)
             /\ Parents(s) \in SUBSET Nat /\ Parents(s) \subseteq DOMAIN s.query
             /\ \A c \in ChainIds, p \in DOMAIN s.query :
                  Earlier(s.query, p, t, c) =>
                    s.query[p].place = "done" \/ \E u \in Parents(s) : p <= u /\ Earlier(s.query, u, t, c)
<1>1. PICK t : t = NextTask(s)
  OBVIOUS
<1>2. SchedulerGood(s) /\ s \in State /\ Placed(s, X) /\ s.pending_tasks_ \in Seq(Nat) /\ IsInjective(s.pending_tasks_)
  BY StateFields DEF Half, SchedulerGood, PendingGood
<1>3. t \in ToSet(s.pending_tasks_)
  BY <1>1, <1>2, ToSetTail DEF NextTask
<1>4. t \in Alive(s)
  BY <1>2, <1>3 DEF SchedulerGood, PendingGood
<1>5. /\ t \in Nat /\ InChain(s, t) \subseteq ChainIds /\ \A c \in InChain(s, t) : t \in Members(s, c)
  BY <1>2, <1>4, AliveMembers
<1>6. Parents(s) = UNION {get_parent(s, c, t) : c \in InChain(s, t)}
  BY <1>1 DEF Parents
<1>7. ASSUME NEW c \in InChain(s, t) PROVE get_parent(s, c, t) = Pred(Members(s, c), t)
  <2>1. s.chains_[c].chain \in Seq(Nat) /\ Increasing(s.chains_[c].chain)
    BY <1>2, <1>5, StateFields DEF SchedulerGood, ListGood
  <2> QED
    BY <2>1, <1>5, ParentIs
<1>8. \A c \in ChainIds : Members(s, c) \subseteq Nat /\ Members(s, c) \subseteq DOMAIN s.query
  BY <1>2, MembersAlive DEF Placed
<1>9. Parents(s) \in SUBSET Nat /\ Parents(s) \subseteq DOMAIN s.query
  <2>1. \A c \in InChain(s, t) : get_parent(s, c, t) \subseteq Nat /\ get_parent(s, c, t) \subseteq DOMAIN s.query
    BY <1>5, <1>7, <1>8 DEF Pred
  <2> QED
    BY <2>1, <1>6
<1>10. ASSUME NEW c \in ChainIds, NEW p \in DOMAIN s.query, Earlier(s.query, p, t, c), s.query[p].place # "done"
       PROVE  \E u \in Parents(s) : p <= u /\ Earlier(s.query, u, t, c)
  <2>1. p \in Alive(s) /\ s.query[p].chains = Chains(s, p) /\ s.query[t].chains = Chains(s, t)
    BY <1>2, <1>4, <1>10 DEF Placed
  <2>2. c \in InChain(s, p) /\ c \in InChain(s, t) /\ p < t
    BY <2>1, <1>10 DEF Earlier, InChain
  <2>3. p \in Members(s, c)
    BY <2>1, <2>2, <1>2, AliveMembers
  <2>4. PICK u \in Pred(Members(s, c), t) : p <= u
    BY <2>2, <2>3, <1>5, <1>8, PredExists
  <2>5. u \in Members(s, c) /\ u < t
    BY <2>4 DEF Pred
  <2>6. u \in Alive(s) /\ u \in DOMAIN s.tasks_ /\ c \in InChain(s, u)
    BY <2>5, <1>2, MembersAlive
  <2>7. u \in DOMAIN s.query /\ s.query[u].chains = Chains(s, u)
    BY <2>6, <1>2 DEF Placed
  <2>8. Earlier(s.query, u, t, c)
    BY <2>2, <2>5, <2>6, <2>7, <2>1 DEF Earlier, InChain
  <2>9. u \in Parents(s)
    BY <2>2, <2>4, <1>6, <1>7
  <2> QED
    BY <2>4, <2>8, <2>9
<1> QED
  BY <1>1, <1>3, <1>4, <1>9, <1>10

LEMMA FlushKeeps ==
  ASSUME NEW s, Half(s, {}), s.pending_tasks_ # <<>>
  PROVE  LET r == FlushOne(s)
         IN  /\ Half(r, {}) /\ r.pending_tasks_ = Tail(s.pending_tasks_)
             /\ \A t : Moves(s.query, r.query, t)
<1>1. PICK r, t, p : r = FlushOne(s) /\ t = NextTask(s) /\ p = [s EXCEPT !.pending_tasks_ = Tail(@)]
  OBVIOUS
<1>2. SchedulerAtRest(s) /\ SchedulerGood(s) /\ Placed(s, {}) /\ Ordered(s.query)
  BY HalfParts DEF Half
<1>3. s \in State /\ s.pending_tasks_ \in Seq(Nat) /\ IsInjective(s.pending_tasks_)
  BY <1>2, StateFields DEF SchedulerGood, PendingGood
<1>4. /\ t \in Alive(s) /\ t \in ToSet(s.pending_tasks_)
      /\ Parents(s) \in SUBSET Nat /\ Parents(s) \subseteq DOMAIN s.query
      /\ \A c \in ChainIds, e \in DOMAIN s.query :
           Earlier(s.query, e, t, c) =>
             s.query[e].place = "done" \/ \E u \in Parents(s) : e <= u /\ Earlier(s.query, u, t, c)
  BY <1>1, ParentsFollow
<1>5. t \in DOMAIN s.tasks_ /\ t \in DOMAIN s.query /\ s.query[t] \in Query
  BY <1>4, HalfFields
<1>6. s.query[t].place = "node" /\ s.tasks_[t].state = "Active"
  BY <1>2, <1>4 DEF Placed, SchedulerGood, PendingGood
<1>7. /\ IsInjective(Tail(s.pending_tasks_)) /\ ToSet(Tail(s.pending_tasks_)) = ToSet(s.pending_tasks_) \ {t}
      /\ Tail(s.pending_tasks_) \in Seq(Nat)
  BY <1>1, <1>3, ToSetTail, ToSetHead DEF NextTask
<1>8. /\ p \in State /\ p.tasks_ = s.tasks_ /\ p.chains_ = s.chains_ /\ p.limited_tasks_ = s.limited_tasks_
      /\ p.failed = s.failed /\ p.query = s.query /\ p.pending_tasks_ = Tail(s.pending_tasks_)
  <2>1. PICK l : l = Tail(s.pending_tasks_)
    OBVIOUS
  <2>2. l \in Seq(Nat) /\ p = [s EXCEPT !.pending_tasks_ = l]
    BY <2>1, <1>1, <1>7
  <2> QED
    BY <2>1, <2>2, <1>3 DEF State
<1>9. PICK x : x = [s.query[t] EXCEPT !.place = "session", !.invoke_after = Parents(s), !.last_timeout_ = 0]
  OBVIOUS
<1>10. /\ x \in Query /\ x.place = "session" /\ x.invoke_after = Parents(s) /\ x.chains = s.query[t].chains
       /\ x.message_id = s.query[t].message_id
  BY <1>4, <1>5, <1>9 DEF Query
<1>11. r = Put(p, t, x)
  <2>1. r = [p EXCEPT !.query[t].place = "session", !.query[t].invoke_after = Parents(s), !.query[t].last_timeout_ = 0]
    BY <1>1, <1>4, <1>6 DEF FlushOne, HasQuery
  <2>2. r = [p EXCEPT !.query = [[[p.query EXCEPT ![t].place = "session"] EXCEPT ![t].invoke_after = Parents(s)] EXCEPT ![t].last_timeout_ = 0]]
    BY <2>1, <1>8 DEF State
  <2>3. s.query \in Seq(Query)
    BY <1>3, StateFields
  <2>4. [[[s.query EXCEPT ![t].place = "session"] EXCEPT ![t].invoke_after = Parents(s)] EXCEPT ![t].last_timeout_ = 0]
          = [s.query EXCEPT ![t] = x]
    BY <2>3, <1>5, <1>9 DEF Query
  <2> QED
    BY <2>2, <2>4, <1>8 DEF Put
<1>12. /\ r \in State /\ r.tasks_ = s.tasks_ /\ r.chains_ = s.chains_ /\ r.limited_tasks_ = s.limited_tasks_
       /\ r.failed = s.failed /\ r.pending_tasks_ = Tail(s.pending_tasks_)
       /\ DOMAIN r.query = DOMAIN s.query /\ r.query[t] = x
       /\ \A u \in DOMAIN s.query : u # t => r.query[u] = s.query[u]
  <2>1. t \in DOMAIN p.query
    BY <1>5, <1>8
  <2>2. p \in State
    BY <1>8
  <2>3. x \in Query
    BY <1>10
  <2>4. /\ r \in State /\ r.tasks_ = p.tasks_ /\ r.chains_ = p.chains_ /\ r.limited_tasks_ = p.limited_tasks_
        /\ r.pending_tasks_ = p.pending_tasks_ /\ r.failed = p.failed
        /\ DOMAIN r.query = DOMAIN p.query /\ r.query[t] = x
        /\ \A u \in DOMAIN p.query : u # t => r.query[u] = p.query[u]
    BY <2>1, <2>2, <2>3, <1>11, PutFields
  <2> QED
    BY <2>4, <1>8
<1>13. SchedulerAtRest(r) /\ Alive(r) = Alive(s) /\ Waiting(r) = Waiting(s) /\ \A u : Chains(r, u) = Chains(s, u)
  <2>1. IsInjective(r.pending_tasks_) /\ ToSet(r.pending_tasks_) \subseteq ToSet(s.pending_tasks_)
    BY <1>7, <1>12
  <2> QED
    BY <2>1, <1>2, <1>12, FieldsOnly
<1>14. Placed(r, {})
  <2>1. t \notin Waiting(r) /\ t \notin ToSet(r.pending_tasks_)
    BY <1>6, <1>7, <1>12 DEF Waiting
  <2>2. ASSUME NEW u \in Alive(s)
        PROVE  /\ r.query[u].place = "node" <=> u \in Waiting(r) \/ u \in ToSet(r.pending_tasks_)
               /\ r.query[u].chains = Chains(r, u)
    <3>1. u \in DOMAIN s.query
      BY HalfFields
    <3>2. /\ s.query[u].place = "node" <=> u \in Waiting(s) \/ u \in ToSet(s.pending_tasks_)
          /\ s.query[u].chains = Chains(s, u)
      BY <1>2 DEF Placed
    <3>3. CASE u = t
      BY <3>2, <3>3, <2>1, <1>10, <1>12, <1>13
    <3>4. CASE u # t
      BY <3>1, <3>2, <3>4, <1>7, <1>12, <1>13
    <3> QED
      BY <3>3, <3>4
  <2>3. \A u \in DOMAIN s.query : r.query[u].place = "done" <=> s.query[u].place = "done"
    BY <1>6, <1>10, <1>12
  <2> QED
    BY <2>2, <2>3, <1>2, <1>12, <1>13 DEF Placed
<1>15. Ordered(r.query)
  <2>1. \A v \in DOMAIN s.query : r.query[v].chains = s.query[v].chains
                                   /\ (s.query[v].place = "done" => r.query[v].place = "done")
    BY <1>6, <1>10, <1>12
  <2>2. Follows(r.query, t)
    <3>1. \A u, c : Earlier(r.query, u, t, c) <=> Earlier(s.query, u, t, c)
      BY <2>1, <1>5, <1>12 DEF Earlier
    <3> QED
      BY <2>1, <3>1, <1>4, <1>10, <1>12 DEF Follows
  <2>3. ASSUME NEW u \in DOMAIN r.query, u # t, r.query[u].place \in InFlight PROVE Follows(r.query, u)
    <3>1. u \in DOMAIN s.query /\ s.query[u] = r.query[u]
      BY <2>3, <1>12
    <3>2. Follows(s.query, u)
      BY <2>3, <3>1, <1>2 DEF Ordered
    <3> QED
      BY <3>1, <3>2, <2>1, <1>12, FollowsKeeps
  <2> QED
    BY <2>2, <2>3 DEF Ordered
<1>16. Half(r, {})
  BY <1>13, <1>14, <1>15, HalfParts
<1>17. \A u : Moves(s.query, r.query, u)
  BY <1>6, <1>10, <1>12 DEF Moves
<1> QED
  BY <1>1, <1>12, <1>16, <1>17

LEMMA LoopKeeps ==
  ASSUME NEW s, Half(s, {})
  PROVE  LET r == loop(s)
         IN  Good(r) /\ \A t : Moves(s.query, r.query, t)
<1>1. PICK r, n : r = loop(s) /\ n = Len(s.pending_tasks_)
  OBVIOUS
<1>2. s.pending_tasks_ \in Seq(Nat) /\ n \in Nat
  BY <1>1, StateFields DEF Half, SchedulerGood
<1>3. PICK h : Run(h, "flush", 0, s, n) /\ r = h[n]
  BY <1>1, <1>2, FlushRun
<1>4. h[0] = s /\ \A i \in 1..n : h[i] = FlushOne(h[i - 1])
  <2>1. h[0] = s /\ \A i \in 1..n : h[i] = Step("flush", 0, i, h[i - 1])
    BY <1>2, <1>3, RunValues
  <2> QED
    BY <2>1 DEF Step
<1> DEFINE Flushed(i) == /\ Half(h[i], {}) /\ Len(h[i].pending_tasks_) = n - i
                         /\ \A t : Moves(s.query, h[i].query, t)
           S == {i \in 0..n : Flushed(i)}
<1>5. 0 \in S
  BY <1>1, <1>2, <1>4, MovesReflexive
<1>6. ASSUME NEW i \in 1..n, i - 1 \in S PROVE i \in S
  <2>1. PICK x, y : x = h[i - 1] /\ y = h[i]
    OBVIOUS
  <2>2. Half(x, {}) /\ Len(x.pending_tasks_) = n - (i - 1) /\ \A t : Moves(s.query, x.query, t)
    BY <2>1, <1>6
  <2>3. y = FlushOne(x)
    BY <2>1, <1>4
  <2>4. x.pending_tasks_ \in Seq(Nat)
    BY <2>2, StateFields DEF Half, SchedulerGood
  <2>5. x.pending_tasks_ # <<>>
    BY <2>2, <2>4, <1>2
  <2>6. Half(y, {}) /\ y.pending_tasks_ = Tail(x.pending_tasks_) /\ \A t : Moves(x.query, y.query, t)
    BY <2>2, <2>3, <2>5, FlushKeeps
  <2>7. Len(y.pending_tasks_) = n - i
    BY <2>2, <2>4, <2>5, <2>6, <1>2, ToSetHead
  <2>8. \A t : Moves(s.query, y.query, t)
    BY <2>2, <2>6, MovesTransitive
  <2>9. Flushed(i)
    BY <2>1, <2>6, <2>7, <2>8
  <2> HIDE DEF Flushed
  <2> QED
    BY <2>9
<1> HIDE DEF S
<1>7. \A i \in 0..n : i \in S
  BY <1>2, <1>5, <1>6, StepInduction
<1>8. n \in S
  BY <1>2, <1>7
<1>9. Half(r, {}) /\ Len(r.pending_tasks_) = 0 /\ \A t : Moves(s.query, r.query, t)
  BY <1>2, <1>3, <1>8 DEF S
<1>10. r.pending_tasks_ \in Seq(Nat)
  BY <1>9, StateFields DEF Half, SchedulerGood
<1>11. r.pending_tasks_ = <<>>
  BY <1>9, <1>10
<1> QED
  BY <1>1, <1>9, <1>11 DEF Good

-----------------------------------------------------------------------------
(* The dispatcher's functions.                                              *)

LEMMA MovesAny ==
  ASSUME NEW q, NEW r, NEW u, Moves(q, r, u), q[u].place = "node", NEW t
  PROVE  Moves(q, r, t)
BY DEF Moves

LEMMA PutMoves ==
  ASSUME NEW s \in State, NEW t \in DOMAIN s.query, NEW x \in Query,
         x.chains = s.query[t].chains, x.message_id = s.query[t].message_id,
         x.place # "sent", s.query[t].place # "sent", s.query[t].place # "done",
         s.query[t].place \in {"mailbox", "callback"} /\ s.query[t].state = "OK"
           => x.place = "done" \/ (x.place \in {"mailbox", "callback"} /\ x.state = "OK")
  PROVE  Moves(s.query, Put(s, t, x).query, t)
<1>1. PICK r : r = Put(s, t, x)
  OBVIOUS
<1>2. /\ DOMAIN r.query = DOMAIN s.query /\ r.query[t] = x
      /\ \A u \in DOMAIN s.query : u # t => r.query[u] = s.query[u]
  BY <1>1, PutFields
<1>3. Moves(s.query, r.query, t)
  BY <1>2 DEF Moves
<1> QED
  BY <1>1, <1>3

(* A query to another place.                                                *)
To(s, t, place) == [s EXCEPT !.query[t].place = place]

At(query, place) == [query EXCEPT !.place = place]

LEMMA PlaceIs ==
  ASSUME NEW s \in State, NEW t \in DOMAIN s.query,
         NEW place \in {"node", "session", "sent", "delayer", "mailbox", "callback", "done"}
  PROVE  LET o == s.query[t]
             x == At(s.query[t], place)
         IN  /\ To(s, t, place) = Put(s, t, x)
             /\ x \in Query /\ x.place = place /\ x.state = o.state /\ x.chains = o.chains
             /\ x.message_id = o.message_id /\ x.callback = o.callback /\ x.invoke_after = o.invoke_after
<1>1. PICK o, x : o = s.query[t] /\ x = At(s.query[t], place)
  OBVIOUS
<1>2. o \in Query
  BY <1>1, StateFields
<1>3. /\ x \in Query /\ x.place = place /\ x.state = o.state /\ x.chains = o.chains
      /\ x.message_id = o.message_id /\ x.callback = o.callback /\ x.invoke_after = o.invoke_after
  BY <1>1, <1>2 DEF Query, At
<1>4. To(s, t, place) = Put(s, t, x)
  BY <1>1 DEF Put, To, At
<1> QED
  BY <1>1, <1>3, <1>4

LEMMA TryResendKeeps ==
  ASSUME NEW s, NEW t \in Alive(s), Half(s, {t}), t \notin Waiting(s), s.query[t].place \in {"node", "mailbox", "callback"}
  PROVE  LET r == try_resend(s, t)
         IN  /\ Half(r, {}) /\ Moves(s.query, r.query, t)
             /\ s.pending_tasks_ = <<>> => Good(r)
<1>1. PICK r : r = try_resend(s, t)
  OBVIOUS
<1>2. s \in State /\ t \in DOMAIN s.query /\ s.query[t] \in Query
  BY HalfFields
<1>3. CASE s.query[t].callback
  <2>1. PICK x : x = At(s.query[t], "callback")
    OBVIOUS
  <2>2. /\ To(s, t, "callback") = Put(s, t, x)
        /\ x \in Query /\ x.place = "callback" /\ x.state = s.query[t].state /\ x.chains = s.query[t].chains
        /\ x.message_id = s.query[t].message_id
    BY <2>1, <1>2, PlaceIs
  <2>3. r = Put(s, t, x)
    BY <2>2, <1>1, <1>3 DEF try_resend, To
  <2>4. /\ Half(r, {t}) /\ Alive(r) = Alive(s) /\ Waiting(r) = Waiting(s) /\ r.pending_tasks_ = s.pending_tasks_
        /\ r.query[t] = x
    <3>1. x \in Query /\ x.chains = s.query[t].chains /\ x.place # "done" /\ x.place \notin InFlight
      BY <2>2 DEF InFlight
    <3> QED
      BY <3>1, <2>3, PutKeeps
  <2>5. Half(r, {})
    BY <2>2, <2>4, HalfIn
  <2>6. Moves(s.query, r.query, t)
    BY <2>2, <2>3, <1>2, PutMoves
  <2> QED
    BY <2>4, <2>5, <2>6, <1>1 DEF Good
<1>4. CASE ~s.query[t].callback
  <2>1. PICK x : x = At(s.query[t], "done")
    OBVIOUS
  <2>2. /\ To(s, t, "done") = Put(s, t, x)
        /\ x \in Query /\ x.place = "done" /\ x.state = s.query[t].state /\ x.chains = s.query[t].chains
        /\ x.message_id = s.query[t].message_id
    BY <2>1, <1>2, PlaceIs
  <2>3. PICK f : f = finish_task(Put(s, t, x), t)
    OBVIOUS
  <2>4. r = loop(f)
    BY <2>2, <2>3, <1>1, <1>4 DEF try_resend, To
  <2>5. Half(f, {}) /\ f.query = Put(s, t, x).query
    BY <2>2, <2>3, FinishHalf
  <2>6. Good(r) /\ Moves(f.query, r.query, t)
    BY <2>4, <2>5, LoopKeeps
  <2>7. Moves(s.query, f.query, t)
    BY <2>2, <2>5, <1>2, PutMoves
  <2>8. Moves(s.query, r.query, t)
    BY <2>6, <2>7, MovesTransitive
  <2> QED
    BY <2>6, <2>8, <1>1 DEF Good
<1> QED
  BY <1>3, <1>4

(* It does not matter that the query was put back to its node.              *)
LEMMA TryResendNode ==
  ASSUME NEW s \in State, NEW t \in DOMAIN s.query
  PROVE  try_resend([s EXCEPT !.query[t].place = "node"], t) = try_resend(s, t)
<1>1. PICK x, n : x = At(s.query[t], "node") /\ n = To(s, t, "node")
  OBVIOUS
<1>2. n = Put(s, t, x) /\ x \in Query /\ x.callback = s.query[t].callback
  BY <1>1, PlaceIs
<1>4. n \in State /\ DOMAIN n.query = DOMAIN s.query /\ n.query[t] = x /\ \A y : Put(n, t, y) = Put(s, t, y)
  BY <1>2, PutFields
<1>5. ASSUME NEW place \in {"callback", "done"} PROVE To(n, t, place) = To(s, t, place)
  <2>1. s.query[t] \in Query
    BY StateFields
  <2>2. At(x, place) = At(s.query[t], place)
    BY <2>1, <1>1 DEF Query, At
  <2>3. To(n, t, place) = Put(n, t, At(x, place))
    BY <1>4, PlaceIs
  <2>4. To(s, t, place) = Put(s, t, At(s.query[t], place))
    BY PlaceIs
  <2> QED
    BY <2>2, <2>3, <2>4, <1>4
<1>6. try_resend(n, t) = try_resend(s, t)
  <2>1. To(n, t, "callback") = To(s, t, "callback") /\ To(n, t, "done") = To(s, t, "done")
    BY <1>5
  <2>2. \A q : try_resend(q, t) = IF q.query[t].callback THEN To(q, t, "callback") ELSE loop(finish_task(To(q, t, "done"), t))
    BY DEF try_resend, To
  <2> QED
    BY <2>1, <2>2, <1>2, <1>4
<1> QED
  BY <1>1, <1>6 DEF To

LEMMA CheckTimeoutIs ==
  ASSUME NEW s \in State, NEW t \in DOMAIN s.query
  PROVE  \E x \in Query :
           /\ check_timeout(s, t) = Put(s, t, x)
           /\ x.place = s.query[t].place /\ x.chains = s.query[t].chains /\ x.message_id = s.query[t].message_id
           /\ x.invoke_after = s.query[t].invoke_after
           /\ s.query[t].place # "node" => x = s.query[t]
<1>1. PICK o : o = s.query[t]
  OBVIOUS
<1>2. o \in Query /\ s.query \in Seq(Query)
  BY <1>1, StateFields
<1>3. CASE ~CheckTimeout(s, t)
  <2>1. check_timeout(s, t) = Put(s, t, o)
    BY <1>1, <1>3, PutSame DEF check_timeout
  <2> QED
    BY <2>1, <1>1, <1>2
<1>4. CASE CheckTimeout(s, t)
  <2>1. PICK new : new = IF TimedOut(s, t) THEN "Error" ELSE o.state
    OBVIOUS
  <2>0. PICK total : total = o.total_timeout_ + o.node_timeout
    OBVIOUS
  <2>2. PICK x : x = [o EXCEPT !.total_timeout_ = total, !.node_timeout = 0, !.state = new]
    OBVIOUS
  <2>7. total \in Nat
    <3>1. o.total_timeout_ \in Nat /\ o.node_timeout \in Nat
      BY <1>2 DEF Query
    <3> QED
      BY <2>0, <3>1
  <2>3. new \in {"Query", "OK", "Error", "ResendInvokeAfter"}
    BY <2>1, <1>2 DEF Query
  <2>4. /\ x.place = o.place /\ x.chains = o.chains /\ x.message_id = o.message_id /\ x.invoke_after = o.invoke_after
        /\ x \in Query
    BY <2>2, <2>3, <2>7, <1>2 DEF Query
  <2>5. check_timeout(s, t) = Put(s, t, x)
    <3>1. check_timeout(s, t) = [s EXCEPT !.query[t].total_timeout_ = @ + o.node_timeout,
                                          !.query[t].node_timeout = 0, !.query[t].state = new]
      <4>1. check_timeout(s, t) = [s EXCEPT !.query[t].total_timeout_ = @ + o.node_timeout,
                                            !.query[t].node_timeout = 0,
                                            !.query[t].state = IF TimedOut(s, t) THEN "Error" ELSE @]
        BY <1>1, <1>4 DEF check_timeout
      <4> QED
        BY <4>1, <2>1, <1>1, <1>2 DEF State, Query
    <3>2. check_timeout(s, t)
            = [s EXCEPT !.query = [[[s.query EXCEPT ![t].total_timeout_ = @ + o.node_timeout] EXCEPT ![t].node_timeout = 0] EXCEPT ![t].state = new]]
      BY <3>1 DEF State
    <3>3. [[[s.query EXCEPT ![t].total_timeout_ = @ + o.node_timeout] EXCEPT ![t].node_timeout = 0] EXCEPT ![t].state = new]
            = [s.query EXCEPT ![t] = x]
      BY <2>0, <2>2, <1>1, <1>2 DEF Query
    <3> QED
      BY <3>2, <3>3 DEF Put
  <2>6. o.place = "node"
    BY <1>1, <1>4 DEF CheckTimeout, HasQuery
  <2> QED
    BY <2>4, <2>5, <2>6, <1>1
<1> QED
  BY <1>3, <1>4

(* A query that is not with its node is not to be started.                  *)
LEMMA Outside ==
  ASSUME NEW s, Half(s, {}), NEW t \in DOMAIN s.query, s.query[t].place \notin {"node", "done"}
  PROVE  t \in Alive(s) /\ t \notin Waiting(s) /\ t \notin ToSet(s.pending_tasks_) /\ Half(s, {t})
<1>1. t \in Alive(s) /\ t \notin Waiting(s) /\ t \notin ToSet(s.pending_tasks_)
  BY DEF Half, Placed
<1> QED
  BY <1>1, HalfOut

LEMMA DoResendKeeps ==
  ASSUME NEW s, Good(s), NEW t \in DOMAIN s.query, s.query[t].place \in {"mailbox", "callback"}, s.query[t].state # "OK"
  PROVE  Half(do_resend(s, t), {}) /\ Moves(s.query, do_resend(s, t).query, t)
<1>1. PICK b, x : /\ b = [s EXCEPT !.query[t].place = "node", !.query[t].state = "Query"]
                  /\ x = [s.query[t] EXCEPT !.place = "node", !.state = "Query"]
  OBVIOUS
<1>2. Half(s, {})
  BY DEF Good
<1>3. t \in Alive(s) /\ t \notin Waiting(s) /\ Half(s, {t})
  BY <1>2, Outside
<1>4. s \in State /\ s.query[t] \in Query /\ s.query \in Seq(Query)
  BY <1>2, <1>3, HalfFields, StateFields
<1>5. x \in Query /\ x.place = "node" /\ x.chains = s.query[t].chains /\ x.message_id = s.query[t].message_id
  BY <1>1, <1>4 DEF Query
<1>6. b = Put(s, t, x)
  <2>1. b = [s EXCEPT !.query = [[s.query EXCEPT ![t].place = "node"] EXCEPT ![t].state = "Query"]]
    BY <1>1, <1>4 DEF State
  <2>2. [[s.query EXCEPT ![t].place = "node"] EXCEPT ![t].state = "Query"] = [s.query EXCEPT ![t] = x]
    BY <1>1, <1>4 DEF Query
  <2> QED
    BY <2>1, <2>2 DEF Put
<1>7. /\ Half(b, {t}) /\ Alive(b) = Alive(s) /\ Waiting(b) = Waiting(s) /\ b.query[t] = x /\ DOMAIN b.query = DOMAIN s.query
  <2>1. x.place # "done" /\ x.place \notin InFlight
    BY <1>5 DEF InFlight
  <2> QED
    BY <2>1, <1>3, <1>5, <1>6, PutKeeps
<1>8. Moves(s.query, b.query, t)
  BY <1>4, <1>5, <1>6, PutMoves
<1>9. b \in State /\ t \in Alive(b) /\ t \in DOMAIN b.query /\ b.query[t].place = "node"
  BY <1>3, <1>5, <1>7, HalfFields
<1>10. PICK y \in Query :
         /\ check_timeout(b, t) = Put(b, t, y)
         /\ y.place = b.query[t].place /\ y.chains = b.query[t].chains /\ y.message_id = b.query[t].message_id
  BY <1>9, CheckTimeoutIs
<1>11. PICK k : k = check_timeout(b, t)
  OBVIOUS
<1>12. Half(k, {t}) /\ t \in Alive(k) /\ k.query[t] = y /\ Waiting(k) = Waiting(b)
  <2>1. y.place # "done" /\ y.place \notin InFlight
    BY <1>9, <1>10 DEF InFlight
  <2> QED
    BY <2>1, <1>7, <1>9, <1>10, <1>11, PutKeeps
<1>13. Moves(b.query, k.query, t)
  BY <1>9, <1>10, <1>11, PutMoves
<1>14. Moves(s.query, k.query, t)
  BY <1>8, <1>13, MovesTransitive
<1>15. k.query[t].place = "node"
  BY <1>9, <1>10, <1>12
<1>16. CASE TimedOut(b, t)
  <2>1. PICK p, r : p = pause_task(k, t) /\ r = try_resend(p, t)
    OBVIOUS
  <2>2. Half(p, {t}) /\ p.query = k.query /\ t \in Alive(p) /\ t \notin Waiting(p)
    BY <2>1, <1>12, PauseHalf
  <2>3. Half(r, {}) /\ Moves(p.query, r.query, t)
    BY <2>1, <2>2, <1>15, TryResendKeeps
  <2>4. do_resend(s, t) = r
    BY <2>1, <1>1, <1>11, <1>16 DEF do_resend
  <2>5. Moves(s.query, r.query, t)
    BY <2>2, <2>3, <1>14, MovesTransitive
  <2> QED
    BY <2>3, <2>4, <2>5
<1>17. CASE ~TimedOut(b, t)
  <2>1. do_resend(s, t) = reset_task(k, t)
    BY <1>1, <1>11, <1>17 DEF do_resend
  <2>2. Half(reset_task(k, t), {}) /\ reset_task(k, t).query = k.query
    BY <1>12, <1>15, ResetHalf
  <2> QED
    BY <2>1, <2>2, <1>14
<1> QED
  BY <1>16, <1>17

LEMMA CheckDependentKeeps ==
  ASSUME NEW s, Good(s), NEW u \in DOMAIN s.query
  PROVE  Good(CheckDependent(s, u)) /\ \A t : Moves(s.query, CheckDependent(s, u).query, t)
<1>1. Half(s, {}) /\ s.pending_tasks_ = <<>> /\ s \in State
  BY DEF Good, Half, SchedulerGood
<1>2. PICK k : k = check_timeout(s, u)
  OBVIOUS
<1>3. PICK y \in Query :
        /\ k = Put(s, u, y)
        /\ y.place = s.query[u].place /\ y.chains = s.query[u].chains /\ y.message_id = s.query[u].message_id
        /\ y.invoke_after = s.query[u].invoke_after
        /\ s.query[u].place # "node" => y = s.query[u]
  BY <1>1, <1>2, CheckTimeoutIs
<1>4. CASE s.query[u].place # "node"
  <2>1. k = s
    BY <1>1, <1>3, <1>4, PutSame
  <2>2. ~TimedOut(s, u)
    BY <1>4 DEF TimedOut, CheckTimeout, HasQuery
  <2>3. CheckDependent(s, u) = s
    BY <2>1, <2>2, <1>2 DEF CheckDependent
  <2> QED
    BY <2>3, MovesReflexive
<1>5. CASE s.query[u].place = "node"
  <2>1. u \in Alive(s) /\ u \in Waiting(s)
    BY <1>1, <1>5, ToSetSmall DEF Half, Placed
  <2>2. /\ Half(k, {}) /\ Alive(k) = Alive(s) /\ Waiting(k) = Waiting(s) /\ k.pending_tasks_ = <<>>
        /\ k.query[u] = y
    <3>1. y.place # "done" /\ y.place \notin InFlight
      BY <1>3, <1>5 DEF InFlight
    <3> QED
      BY <3>1, <2>1, <1>1, <1>3, PutKeeps
  <2>3. k.query[u].place = "node"
    BY <2>2, <1>3, <1>5
  <2>4. Moves(s.query, k.query, u)
    BY <1>1, <1>3, <1>5, PutMoves
  <2>5. \A t : Moves(s.query, k.query, t)
    BY <2>4, <1>5, MovesAny
  <2>6. CASE ~TimedOut(s, u)
    <3>1. CheckDependent(s, u) = k
      BY <2>6, <1>2 DEF CheckDependent
    <3> QED
      BY <3>1, <2>2, <2>5 DEF Good
  <2>7. CASE TimedOut(s, u)
    <3>1. PICK p, r : p = pause_task(k, u) /\ r = try_resend(p, u)
      OBVIOUS
    <3>2. CheckDependent(s, u) = r
      BY <2>7, <3>1, <1>2 DEF CheckDependent
    <3>3. u \in Alive(k) /\ Half(k, {u}) /\ k.tasks_[u].state = "Pending"
      BY <2>1, <2>2, ToSetSmall, HalfOut DEF Waiting
    <3>4. Half(p, {u}) /\ p.query = k.query /\ u \in Alive(p) /\ u \notin Waiting(p) /\ p.pending_tasks_ = <<>>
      BY <3>1, <3>3, <2>2, PauseHalf
    <3>5. Good(r) /\ Moves(p.query, r.query, u)
      BY <3>1, <3>4, <2>3, TryResendKeeps
    <3>6. \A t : Moves(k.query, r.query, t)
      BY <3>4, <3>5, <2>3, MovesAny
    <3>7. \A t : Moves(s.query, r.query, t)
      BY <3>6, <2>5, MovesTransitive
    <3> QED
      BY <3>2, <3>5, <3>7
  <2> QED
    BY <2>6, <2>7
<1> QED
  BY <1>4, <1>5

(* The tasks behind t.                                                      *)
LEMMA DependentsAre ==
  ASSUME NEW s, SchedulerGood(s), NEW t \in Alive(s)
  PROVE  LET v == for_each_dependent(s, t)
         IN  v \in Seq(Alive(s)) /\ Len(v) \in Nat /\ \A i \in 1..Len(v) : v[i] \in Alive(s)
<1> DEFINE seqs == [k \in DOMAIN Chains(s, t) |-> Behind(s, Chains(s, t)[k], t)]
<1>1. PICK l : l = Chains(s, t)
  OBVIOUS
<1>2. l \in Seq(ChainIds) /\ InChain(s, t) = ToSet(l) /\ InChain(s, t) \subseteq ChainIds
  BY <1>1, AliveMembers DEF InChain
<1>3. ASSUME NEW c \in InChain(s, t) PROVE Behind(s, c, t) \in Seq(Alive(s))
  <2>1. c \in ChainIds /\ t \in Members(s, c)
    BY <1>2, AliveMembers
  <2>2. PICK x, i : x = s.chains_[c].chain /\ i = Position(s, c, t)
    OBVIOUS
  <2>3. x \in Seq(Nat) /\ Increasing(x)
    BY <2>1, <2>2, StateFields DEF SchedulerGood, ListGood
  <2>4. i \in 1..Len(x)
    BY <2>1, <2>2, <2>3, PositionProperties
  <2>5. \A j \in 1..Len(x) : x[j] \in Alive(s)
    <3>1. \A j \in 1..Len(x) : x[j] \in Members(s, c)
      BY <2>2, <2>3 DEF Members, ToSet
    <3> QED
      BY <3>1, <2>1, MembersAlive
  <2>6. x \in Seq(Alive(s))
    BY <2>3, <2>5
  <2>7. SubSeq(x, i, Len(x)) \in Seq(Alive(s))
    BY <2>4, <2>6
  <2> QED
    BY <2>2, <2>7 DEF Behind
<1>4. Len(l) \in Nat /\ DOMAIN l = 1..Len(l) /\ \A k \in 1..Len(l) : l[k] \in InChain(s, t)
  BY <1>2 DEF ToSet
<1>5. seqs \in Seq(Seq(Alive(s)))
  <2>1. \A k \in 1..Len(l) : Behind(s, l[k], t) \in Seq(Alive(s))
    BY <1>3, <1>4
  <2>2. seqs = [k \in 1..Len(l) |-> Behind(s, l[k], t)]
    BY <1>1, <1>4
  <2> HIDE DEF seqs
  <2> QED
    BY <2>1, <2>2, <1>4
<1>6. AllBehind(s, t) = FlattenSeq(seqs)
  BY DEF AllBehind
<1> HIDE DEF seqs
<1>7. PICK a : a = AllBehind(s, t)
  OBVIOUS
<1>8. a \in Seq(Alive(s))
  BY <1>5, <1>6, <1>7, FlattenProperties
<1>9. Len(a) \in Nat /\ \A i \in 1..Len(a) : a[i] \in Alive(s)
  BY <1>8
<1>10. PICK h : Run(h, "visit", a, <<>>, Len(a)) /\ for_each_dependent(s, t) = h[Len(a)]
  BY <1>7, <1>9, VisitRun
<1>11. h[0] = <<>> /\ \A i \in 1..Len(a) : h[i] = IF a[i] \in ToSet(h[i - 1]) THEN h[i - 1] ELSE Append(h[i - 1], a[i])
  <2>1. h[0] = <<>> /\ \A i \in 1..Len(a) : h[i] = Step("visit", a, i, h[i - 1])
    BY <1>9, <1>10, RunValues
  <2> QED
    BY <2>1 DEF Step
<1> DEFINE S == {i \in 0..Len(a) : h[i] \in Seq(Alive(s))}
<1>12. 0 \in S
  <2>1. <<>> \in Seq(Alive(s))
    OBVIOUS
  <2>2. 0 \in 0..Len(a)
    BY <1>9
  <2> QED
    BY <2>1, <2>2, <1>11
<1>13. ASSUME NEW i \in 1..Len(a), i - 1 \in S PROVE i \in S
  <2>1. PICK x, y, z : x = h[i - 1] /\ y = h[i] /\ z = a[i]
    OBVIOUS
  <2>2. x \in Seq(Alive(s)) /\ z \in Alive(s) /\ y = IF z \in ToSet(x) THEN x ELSE Append(x, z)
    BY <2>1, <1>9, <1>11, <1>13
  <2>3. y \in Seq(Alive(s))
    BY <2>2
  <2> QED
    BY <2>1, <2>3
<1> HIDE DEF S
<1>14. \A i \in 0..Len(a) : i \in S
  BY <1>9, <1>12, <1>13, StepInduction
<1>15. h[Len(a)] \in Seq(Alive(s))
  BY <1>9, <1>14 DEF S
<1>16. PICK v : v = for_each_dependent(s, t)
  OBVIOUS
<1>17. v \in Seq(Alive(s))
  BY <1>10, <1>15, <1>16
<1> QED
  BY <1>16, <1>17

(* The query stays where it is.                                             *)
LEMMA PutStill ==
  ASSUME NEW s, Good(s), NEW u \in DOMAIN s.query, u \in Alive(s), NEW x \in Query,
         x.place = s.query[u].place, x.state = s.query[u].state, x.chains = s.query[u].chains,
         x.message_id = s.query[u].message_id, x.invoke_after = s.query[u].invoke_after
  PROVE  Good(Put(s, u, x)) /\ Put(s, u, x).tasks_ = s.tasks_ /\ \A t : Moves(s.query, Put(s, u, x).query, t)
<1>1. PICK r : r = Put(s, u, x)
  OBVIOUS
<1>2. Half(s, {}) /\ s.pending_tasks_ = <<>> /\ s \in State /\ s.query[u].place # "done"
  BY DEF Good, Half, SchedulerGood, Placed
<1>3. /\ Half(r, {}) /\ r.pending_tasks_ = <<>> /\ r.tasks_ = s.tasks_ /\ DOMAIN r.query = DOMAIN s.query /\ r.query[u] = x
      /\ \A v \in DOMAIN s.query : v # u => r.query[v] = s.query[v]
  BY <1>1, <1>2, PutKeeps
<1>4. \A t : Moves(s.query, r.query, t)
  BY <1>3 DEF Moves
<1> QED
  BY <1>1, <1>3, <1>4 DEF Good

LEMMA AddTimeoutsKeeps ==
  ASSUME NEW s, Good(s), NEW t \in Alive(s)
  PROVE  Good(AddTimeouts(s, t)) /\ \A v : Moves(s.query, AddTimeouts(s, t).query, v)
<1>1. PICK r, l : r = AddTimeouts(s, t) /\ l = for_each_dependent(s, t)
  OBVIOUS
<1>2. SchedulerGood(s) /\ s \in State /\ Half(s, {})
  BY DEF Good, Half, SchedulerGood
<1>3. l \in Seq(Alive(s)) /\ Len(l) \in Nat /\ \A i \in 1..Len(l) : l[i] \in Alive(s)
  BY <1>1, <1>2, DependentsAre
<1>4. PICK n : n = Len(l)
  OBVIOUS
<1>5. n \in Nat
  BY <1>3, <1>4
<1>6. t \in DOMAIN s.query /\ s.query[t] \in Query
  BY <1>2, HalfFields
<1>7. PICK z : z = [s EXCEPT !.query[t].last_timeout_ = 0]
  OBVIOUS
<1>8. PICK h : Run(h, "add", [s |-> s, t |-> t], z, n) /\ r = h[n]
  BY <1>1, <1>4, <1>5, <1>7, AddRun
<1>9. PICK timeout : timeout = s.query[t].last_timeout_
  OBVIOUS
<1>10. timeout \in Nat
  BY <1>6, <1>9 DEF Query
<1>11. /\ h[0] = z
       /\ \A i \in 1..n : \/ h[i] = h[i - 1]
                          \/ h[i] = [h[i - 1] EXCEPT !.query[l[i]].node_timeout = @ + timeout]
  <2>1. h[0] = z /\ \A i \in 1..n : h[i] = Step("add", [s |-> s, t |-> t], i, h[i - 1])
    BY <1>5, <1>8, RunValues
  <2>2. \A i \in 1..n : Step("add", [s |-> s, t |-> t], i, h[i - 1]) =
          IF l[i] \in Delayed(s, t) THEN [h[i - 1] EXCEPT !.query[l[i]].node_timeout = @ + timeout] ELSE h[i - 1]
    BY <1>1, <1>9 DEF Step
  <2> QED
    BY <2>1, <2>2
<1> DEFINE Fine(q) == Good(q) /\ q.tasks_ = s.tasks_ /\ \A v : Moves(s.query, q.query, v)
           S == {i \in 0..n : Fine(h[i])}
<1>12. Fine(z)
  <2>1. PICK x : x = [s.query[t] EXCEPT !.last_timeout_ = 0]
    OBVIOUS
  <2>2. /\ x \in Query /\ x.place = s.query[t].place /\ x.state = s.query[t].state /\ x.chains = s.query[t].chains
        /\ x.message_id = s.query[t].message_id /\ x.invoke_after = s.query[t].invoke_after
    BY <2>1, <1>6 DEF Query
  <2>3. z = Put(s, t, x)
    BY <2>1, <1>7 DEF Put
  <2> QED
    BY <2>2, <2>3, <1>6, PutStill
<1>13. ASSUME NEW q, Fine(q), NEW u \in Alive(s) PROVE Fine([q EXCEPT !.query[u].node_timeout = @ + timeout])
  <2>1. Good(q) /\ Half(q, {}) /\ q \in State /\ Placed(q, {})
    BY <1>13 DEF Good, Half, SchedulerGood
  <2>2. u \in DOMAIN s.query
    BY <1>2, HalfFields
  <2>3. u \in DOMAIN q.query
    BY <2>2, <1>13 DEF Moves
  <2>4. PICK o, m, x : o = q.query[u] /\ m = o.node_timeout + timeout /\ x = [o EXCEPT !.node_timeout = m]
    OBVIOUS
  <2>5. o \in Query
    BY <2>1, <2>3, <2>4, StateFields
  <2>6. m \in Nat
    <3>1. o.node_timeout \in Nat
      BY <2>5 DEF Query
    <3> QED
      BY <3>1, <2>4, <1>10
  <2>7. /\ x \in Query /\ x.place = o.place /\ x.state = o.state /\ x.chains = o.chains
        /\ x.message_id = o.message_id /\ x.invoke_after = o.invoke_after
    BY <2>4, <2>5, <2>6 DEF Query
  <2>8. [q EXCEPT !.query[u].node_timeout = @ + timeout] = Put(q, u, x)
    BY <2>4 DEF Put
  <2>9. u \in Alive(q)
    BY <1>13 DEF Alive
  <2>10. Fine(Put(q, u, x))
    <3>1. PICK p : p = Put(q, u, x)
      OBVIOUS
    <3>2. Good(p) /\ p.tasks_ = q.tasks_ /\ \A v : Moves(q.query, p.query, v)
      BY <2>1, <2>3, <2>4, <2>7, <2>9, <3>1, PutStill, ZenonT(40)
    <3>3. \A v : Moves(s.query, p.query, v)
      BY <3>2, <1>13, MovesTransitive
    <3> QED
      BY <3>1, <3>2, <3>3, <1>13
  <2> HIDE DEF Fine
  <2> QED
    BY <2>8, <2>10
<1> HIDE DEF Fine
<1>14. 0 \in S
  BY <1>5, <1>11, <1>12
<1>15. ASSUME NEW i \in 1..n, i - 1 \in S PROVE i \in S
  <2>1. PICK x, y, u : x = h[i - 1] /\ y = h[i] /\ u = l[i]
    OBVIOUS
  <2>2. Fine(x) /\ u \in Alive(s) /\ (y = x \/ y = [x EXCEPT !.query[u].node_timeout = @ + timeout])
    BY <2>1, <1>3, <1>4, <1>11, <1>15
  <2>3. Fine(y)
    BY <2>2, <1>13
  <2> QED
    BY <2>1, <2>3
<1> HIDE DEF S
<1>16. \A i \in 0..n : i \in S
  BY <1>5, <1>14, <1>15, StepInduction
<1>17. Fine(r)
  BY <1>5, <1>8, <1>16 DEF S
<1> QED
  BY <1>1, <1>17 DEF Fine

LEMMA CheckDependentsKeeps ==
  ASSUME NEW s, Good(s), NEW t \in Alive(s)
  PROVE  Good(CheckDependents(s, t)) /\ \A v : Moves(s.query, CheckDependents(s, t).query, v)
<1>1. PICK r, l : r = CheckDependents(s, t) /\ l = for_each_dependent(s, t)
  OBVIOUS
<1>2. SchedulerGood(s) /\ s \in State /\ Half(s, {})
  BY DEF Good, Half, SchedulerGood
<1>3. CASE s.query[t].last_timeout_ = 0
  <2>1. r = s
    BY <1>1, <1>3 DEF CheckDependents
  <2> QED
    BY <2>1, <1>1, MovesReflexive
<1>4. CASE s.query[t].last_timeout_ # 0
  <2>1. l \in Seq(Alive(s)) /\ Len(l) \in Nat /\ \A i \in 1..Len(l) : l[i] \in Alive(s)
    BY <1>1, <1>2, DependentsAre
  <2>2. PICK n, z : n = Len(l) /\ z = AddTimeouts(s, t)
    OBVIOUS
  <2>3. n \in Nat
    BY <2>1, <2>2
  <2>4. Good(z) /\ \A v : Moves(s.query, z.query, v)
    BY <2>2, AddTimeoutsKeeps
  <2>5. PICK h : Run(h, "check", [s |-> s, t |-> t], z, n) /\ r = h[n]
    BY <2>2, <2>3, <1>1, <1>4, CheckRun
  <2>6. h[0] = z /\ \A i \in 1..n : h[i] = h[i - 1] \/ h[i] = CheckDependent(h[i - 1], l[i])
    <3>1. h[0] = z /\ \A i \in 1..n : h[i] = Step("check", [s |-> s, t |-> t], i, h[i - 1])
      BY <2>3, <2>5, RunValues
    <3>2. \A i \in 1..n : Step("check", [s |-> s, t |-> t], i, h[i - 1]) =
            IF l[i] \in Delayed(s, t) THEN CheckDependent(h[i - 1], l[i]) ELSE h[i - 1]
      BY <1>1 DEF Step
    <3> QED
      BY <3>1, <3>2
  <2> DEFINE Fine(q) == Good(q) /\ \A v : Moves(s.query, q.query, v)
             S == {i \in 0..n : Fine(h[i])}
  <2>7. Fine(z)
    BY <2>4
  <2>8. ASSUME NEW q, Fine(q), NEW u \in Alive(s) PROVE Fine(CheckDependent(q, u))
    <3>1. u \in DOMAIN s.query
      BY <1>2, HalfFields
    <3>2. u \in DOMAIN q.query
      BY <3>1, <2>8 DEF Moves
    <3>3. PICK p : p = CheckDependent(q, u)
      OBVIOUS
    <3>4. Good(p) /\ \A v : Moves(q.query, p.query, v)
      BY <2>8, <3>2, <3>3, CheckDependentKeeps
    <3>5. \A v : Moves(s.query, p.query, v)
      BY <3>4, <2>8, MovesTransitive
    <3> QED
      BY <3>3, <3>4, <3>5
  <2> HIDE DEF Fine
  <2>9. 0 \in S
    BY <2>3, <2>6, <2>7
  <2>10. ASSUME NEW i \in 1..n, i - 1 \in S PROVE i \in S
    <3>1. PICK x, y, u : x = h[i - 1] /\ y = h[i] /\ u = l[i]
      OBVIOUS
    <3>2. Fine(x) /\ u \in Alive(s) /\ (y = x \/ y = CheckDependent(x, u))
      BY <3>1, <2>1, <2>2, <2>6, <2>10
    <3>3. Fine(y)
      BY <3>2, <2>8
    <3> QED
      BY <3>1, <3>3
  <2> HIDE DEF S
  <2>11. \A i \in 0..n : i \in S
    BY <2>3, <2>9, <2>10, StepInduction
  <2>12. Fine(r)
    BY <2>3, <2>5, <2>11 DEF S
  <2> QED
    BY <2>12, <1>1 DEF Fine
<1> QED
  BY <1>3, <1>4

-----------------------------------------------------------------------------
(* The handlers.                                                            *)

LEMMA ResultKeeps ==
  ASSUME Good(d), NEW t \in DOMAIN d.query, on_result(t)
  PROVE  Good(d)' /\ Moves(d.query, d'.query, t)
<1>1. PICK s : s = CheckDependents(d, t)
  OBVIOUS
<1>2. Half(d, {}) /\ d.query[t].place = "mailbox"
  BY DEF Good, on_result
<1>3. t \in Alive(d)
  BY <1>2, Outside
<1>4. Good(s) /\ \A v : Moves(d.query, s.query, v)
  BY <1>1, <1>3, CheckDependentsKeeps
<1>5. t \in DOMAIN s.query /\ s.query[t].place = "mailbox" /\ s.query[t].state = d.query[t].state
  <2>1. t # 0
    BY <1>2, <1>3, HalfFields
  <2>2. Moves(d.query, s.query, 0)
    BY <1>4
  <2> QED
    BY <2>1, <2>2, <1>2 DEF Moves
<1>6. CASE d.query[t].state = "ResendInvokeAfter"
  <2>1. PICK r : r = do_resend(s, t)
    OBVIOUS
  <2>2. d' = loop(r)
    BY <2>1, <1>1, <1>6 DEF on_result
  <2>3. Half(r, {}) /\ Moves(s.query, r.query, t)
    BY <2>1, <1>4, <1>5, <1>6, DoResendKeeps
  <2>4. Good(d') /\ Moves(r.query, d'.query, t)
    BY <2>2, <2>3, LoopKeeps
  <2>5. Moves(d.query, r.query, t)
    BY <2>3, <1>4, MovesTransitive
  <2>6. Moves(d.query, d'.query, t)
    BY <2>4, <2>5, MovesTransitive
  <2> QED
    BY <2>4, <2>6
<1>7. CASE d.query[t].state # "ResendInvokeAfter"
  <2>1. Half(s, {}) /\ s \in State /\ s.pending_tasks_ = <<>>
    BY <1>4 DEF Good, Half, SchedulerGood
  <2>2. d' = try_resend(s, t)
    BY <2>1, <1>1, <1>5, <1>7, TryResendNode DEF on_result
  <2>3. t \in Alive(s) /\ t \notin Waiting(s) /\ Half(s, {t})
    BY <2>1, <1>5, Outside
  <2>4. Good(d') /\ Moves(s.query, d'.query, t)
    BY <2>1, <2>2, <2>3, <1>5, TryResendKeeps
  <2>5. Moves(d.query, d'.query, t)
    BY <2>4, <1>4, MovesTransitive
  <2> QED
    BY <2>4, <2>5
<1> QED
  BY <1>6, <1>7

LEMMA ResendKeeps ==
  ASSUME Good(d), NEW t \in DOMAIN d.query, on_resend_error(t) \/ on_resend_ok(t)
  PROVE  Good(d)' /\ Moves(d.query, d'.query, t)
<1>1. Half(d, {}) /\ d.query[t].place = "callback"
  BY DEF Good, on_resend_error, on_resend_ok
<1>2. t \in Alive(d) /\ Half(d, {t})
  BY <1>1, Outside
<1>3. CASE on_resend_error(t)
  <2>1. PICK x, p, f : x = At(d.query[t], "done") /\ p = To(d, t, "done") /\ f = finish_task(p, t)
    OBVIOUS
  <2>2. d \in State
    BY <1>1 DEF Half, SchedulerGood
  <2>3. /\ p = Put(d, t, x) /\ x \in Query /\ x.place = "done" /\ x.chains = d.query[t].chains
        /\ x.message_id = d.query[t].message_id
    BY <2>1, <2>2, PlaceIs
  <2>4. d' = loop(f)
    BY <2>1, <1>3 DEF on_resend_error, To
  <2>5. Half(f, {}) /\ f.query = p.query
    BY <2>1, <2>3, <1>2, FinishHalf
  <2>6. Moves(d.query, p.query, t)
    BY <2>2, <2>3, <1>1, PutMoves
  <2>7. Good(d') /\ Moves(f.query, d'.query, t)
    BY <2>4, <2>5, LoopKeeps
  <2>8. Moves(d.query, d'.query, t)
    BY <2>5, <2>6, <2>7, MovesTransitive
  <2> QED
    BY <2>7, <2>8
<1>4. CASE on_resend_ok(t)
  <2>1. PICK r : r = do_resend(d, t)
    OBVIOUS
  <2>2. d' = loop(r) /\ d.query[t].state = "Error"
    BY <2>1, <1>4 DEF on_resend_ok
  <2>3. Half(r, {}) /\ Moves(d.query, r.query, t)
    BY <2>1, <2>2, <1>1, DoResendKeeps
  <2>4. Good(d') /\ Moves(r.query, d'.query, t)
    BY <2>2, <2>3, LoopKeeps
  <2>5. Moves(d.query, d'.query, t)
    BY <2>3, <2>4, MovesTransitive
  <2> QED
    BY <2>4, <2>5
<1> QED
  BY <1>3, <1>4

(* What a step that sends nothing may do to the queries.                    *)
Goes(q, r) ==
  /\ DOMAIN q \subseteq DOMAIN r
  /\ \A u \in DOMAIN q :
       /\ r[u].chains = q[u].chains /\ r[u].message_id = q[u].message_id
       /\ (r[u].place = "sent" <=> q[u].place = "sent") /\ (q[u].place = "done" => r[u].place = "done")
       /\ q[u].place \in {"mailbox", "callback"} /\ q[u].state = "OK"
            => r[u].place = "done" \/ (r[u].place \in {"mailbox", "callback"} /\ r[u].state = "OK")
  /\ \A u \in DOMAIN r \ DOMAIN q :
       r[u].place # "sent" /\ r[u].message_id = 0 /\ \A p \in DOMAIN q : p < u

LEMMA MovesGoes ==
  ASSUME NEW q, NEW r, NEW t, Moves(q, r, t)
  PROVE  Goes(q, r)
BY DEF Moves, Goes

LEMMA SendKeeps ==
  ASSUME Good(d), NEW chains \in ChainSets, NEW callback \in Callbacks, NEW c \in Constructors,
         send(chains, callback, c)
  PROVE  Good(d)' /\ Goes(d.query, d'.query)
<1>1. PICK x, q, s, t, b, r :
        /\ x = [place |-> "node", state |-> "Query", chains |-> chains, callback |-> callback,
                tl_constructor |-> c, node_timeout |-> 0, total_timeout_ |-> 0,
                last_timeout_ |-> 0, message_id |-> 0, invoke_after |-> {}]
        /\ q = Append(d.query, x) /\ s = [d EXCEPT !.query = q] /\ t = Len(d.tasks_) + 1
        /\ b = Added(s, chains) /\ r = create_task(s, chains)
  OBVIOUS
<1>2. d' = loop(r)
  BY <1>1 DEF send
<1>3. chains \in Seq(ChainIds) /\ chains # <<>> /\ IsInjective(chains)
  BY DispatcherAssumption
<1>4. x \in Query /\ x.place = "node" /\ x.chains = chains /\ x.message_id = 0
  BY <1>1, <1>3 DEF Query
<1>5. Half(d, {}) /\ SchedulerAtRest(d) /\ Placed(d, {}) /\ Ordered(d.query) /\ d \in State /\ d.pending_tasks_ = <<>>
  BY DEF Good, Half, SchedulerAtRest, SchedulerGood
<1>6. DOMAIN d.query = DOMAIN d.tasks_ /\ Len(d.query) = Len(d.tasks_)
  <2>1. DOMAIN d.query = DOMAIN d.tasks_
    BY <1>5 DEF Placed
  <2>2. Len(d.query) \in Nat /\ Len(d.tasks_) \in Nat /\ 1..Len(d.query) = 1..Len(d.tasks_)
    BY <2>1, <1>5, StateFields
  <2> QED
    BY <2>1, <2>2
<1>7. /\ q \in Seq(Query) /\ DOMAIN q = DOMAIN d.query \cup {t} /\ q[t] = x
      /\ t \notin DOMAIN d.query /\ t \in Nat \ {0}
      /\ \A u \in DOMAIN d.query : q[u] = d.query[u] /\ u < t
  <2>1. d.query \in Seq(Query) /\ Len(d.query) \in Nat /\ DOMAIN d.query = 1..Len(d.query) /\ t = Len(d.query) + 1
    BY <1>1, <1>5, <1>6, StateFields
  <2> QED
    BY <2>1, <1>1, <1>4
<1>8. /\ s \in State /\ s.query = q /\ s.tasks_ = d.tasks_ /\ s.chains_ = d.chains_
      /\ s.limited_tasks_ = d.limited_tasks_ /\ s.pending_tasks_ = d.pending_tasks_ /\ s.failed = d.failed
  BY <1>1, <1>5, <1>7 DEF State
<1>9. SchedulerAtRest(s) /\ Alive(s) = Alive(d) /\ Waiting(s) = Waiting(d) /\ \A u : Chains(s, u) = Chains(d, u)
  BY <1>5, <1>8, QueryOnly DEF SameTasks
<1>10. t = Len(s.tasks_) + 1
  BY <1>1, <1>8
<1>11. AddedIs(s, chains, t, b)
  BY <1>1, <1>3, <1>8, <1>10, AddFields
<1>12. Alive(b) = Alive(d) \cup {t} /\ t \in Waiting(b)
  <2>1. SchedulerGood(s)
    BY <1>9 DEF SchedulerAtRest
  <2>2. Alive(Added(s, chains)) = Alive(s) \cup {t} /\ t \in Waiting(Added(s, chains))
    <3>1. chains \in Seq(ChainIds)
      BY <1>3
    <3>2. chains # <<>> /\ IsInjective(chains)
      BY <1>3
    <3> QED
      BY <2>1, <3>1, <3>2, <1>10, AddKeeps
  <2>3. b = Added(s, chains)
    BY <1>1
  <2> QED
    BY <2>2, <2>3, <1>9
<1>13. SchedulerAtRest(r) /\ Tried(b, r)
  BY <1>1, <1>3, <1>9, CreateKeeps
<1>14. r.query = q /\ Alive(r) = Alive(d) \cup {t} /\ DOMAIN r.tasks_ = DOMAIN d.tasks_ \cup {t}
  BY <1>8, <1>11, <1>12, <1>13 DEF AddedIs, Tried, SameLists
<1>15. \A u \in Alive(d) : u \in DOMAIN d.tasks_ /\ u # t /\ b.tasks_[u] = d.tasks_[u] /\ Chains(r, u) = Chains(d, u)
  <2>1. ASSUME NEW u \in Alive(d)
        PROVE  u \in DOMAIN d.tasks_ /\ u # t /\ b.tasks_[u] = d.tasks_[u] /\ Chains(r, u) = Chains(d, u)
    <3>1. u \in DOMAIN d.tasks_ /\ u # t
      BY <1>6, <1>7 DEF Alive
    <3>2. u \in DOMAIN b.tasks_ /\ b.tasks_[u] = d.tasks_[u]
      BY <3>1, <1>8, <1>11 DEF AddedIs
    <3>3. Chains(r, u) = Chains(b, u)
      BY <3>2, <1>13 DEF Tried, SameLists
    <3> QED
      BY <3>1, <3>2, <3>3 DEF Chains
  <2> QED
    BY <2>1
<1>16. Chains(r, t) = chains
  <2>1. t \in DOMAIN b.tasks_ /\ Chains(b, t) = chains
    BY <1>11 DEF AddedIs, NewTask, Chains
  <2> QED
    BY <2>1, <1>13 DEF Tried, SameLists
<1>17. Placed(r, {})
  <2>1. DOMAIN r.query = DOMAIN r.tasks_
    BY <1>6, <1>7, <1>14
  <2>2. ASSUME NEW u \in DOMAIN r.tasks_ PROVE u \in Alive(r) <=> r.query[u].place # "done"
    <3>1. CASE u = t
      BY <3>1, <1>4, <1>7, <1>14
    <3>2. CASE u \in DOMAIN d.tasks_
      <4>1. u # t /\ r.query[u] = d.query[u] /\ (u \in Alive(d) <=> d.query[u].place # "done")
        BY <3>2, <1>5, <1>6, <1>7, <1>14 DEF Placed
      <4> QED
        BY <4>1, <1>14
    <3> QED
      BY <3>1, <3>2, <1>14
  <2>3. ASSUME NEW u \in Alive(r) PROVE r.query[u].chains = Chains(r, u)
    <3>1. CASE u = t
      BY <3>1, <1>4, <1>7, <1>14, <1>16
    <3>2. CASE u \in Alive(d)
      BY <3>2, <1>5, <1>6, <1>7, <1>14, <1>15 DEF Placed
    <3> QED
      BY <3>1, <3>2, <1>14
  <2>4. ToSet(b.pending_tasks_) = {}
    BY <1>5, <1>8, <1>11 DEF AddedIs, ToSet
  <2>5. ASSUME NEW u \in Alive(r)
        PROVE  r.query[u].place = "node" <=> u \in Waiting(r) \/ u \in ToSet(r.pending_tasks_)
    <3>1. u \in DOMAIN b.tasks_ /\ u \in Alive(b)
      BY <1>12, <1>14 DEF Alive
    <3>2. \/ SameTask(b, r, u)
          \/ b.tasks_[u].state = "Pending" /\ r.tasks_[u].state = "Active" /\ u \in ToSet(r.pending_tasks_)
      BY <3>1, <1>13 DEF Tried
    <3>3. u \in Waiting(b) <=> u \in Waiting(r) \/ u \in ToSet(r.pending_tasks_)
      BY <3>1, <3>2, <2>4, <2>5 DEF SameTask, Waiting
    <3>4. r.query[u].place = "node" <=> u \in Waiting(b)
      <4>1. CASE u = t
        BY <4>1, <1>4, <1>7, <1>12, <1>14
      <4>2. CASE u \in Alive(d)
        <5>1. r.query[u] = d.query[u] /\ b.tasks_[u] = d.tasks_[u]
          BY <4>2, <1>6, <1>7, <1>14, <1>15
        <5>2. d.query[u].place = "node" <=> u \in Waiting(d)
          BY <4>2, <1>5 DEF Placed, ToSet
        <5>3. u \in Waiting(b) <=> u \in Waiting(d)
          BY <5>1, <4>2, <3>1 DEF Waiting
        <5> QED
          BY <5>1, <5>2, <5>3
      <4> QED
        BY <4>1, <4>2, <1>14
    <3> QED
      BY <3>3, <3>4
  <2> QED
    BY <2>1, <2>2, <2>3, <2>5 DEF Placed
<1>18. Ordered(q)
  <2>1. SUFFICES ASSUME NEW u \in DOMAIN q, q[u].place \in InFlight PROVE Follows(q, u)
    BY DEF Ordered
  <2>2. u \in DOMAIN d.query /\ q[u] = d.query[u]
    BY <2>1, <1>4, <1>7 DEF InFlight
  <2>3. Follows(d.query, u)
    BY <2>1, <2>2, <1>5 DEF Ordered
  <2>4. SUFFICES ASSUME NEW e \in ChainIds, NEW p \in DOMAIN q, Earlier(q, p, u, e)
                 PROVE  q[p].place = "done" \/ \E v \in q[u].invoke_after : p <= v /\ Earlier(q, v, u, e)
    BY <2>2, <2>3, <1>7 DEF Follows
  <2>5. p \in DOMAIN d.query
    <3>1. p < u /\ u < t
      BY <2>2, <2>4, <1>7 DEF Earlier
    <3>2. u \in Nat
      BY <2>2, <1>5, StateFields
    <3> QED
      BY <3>1, <3>2, <1>7
  <2>6. Earlier(d.query, p, u, e)
    BY <2>2, <2>4, <2>5, <1>7 DEF Earlier
  <2>7. d.query[p].place = "done" \/ \E v \in d.query[u].invoke_after : p <= v /\ Earlier(d.query, v, u, e)
    BY <2>3, <2>5, <2>6 DEF Follows
  <2>8. ASSUME NEW v, Earlier(d.query, v, u, e) PROVE Earlier(q, v, u, e)
    BY <2>2, <2>8, <1>7 DEF Earlier
  <2> QED
    BY <2>2, <2>5, <2>7, <2>8, <1>7
<1>19. Half(r, {})
  BY <1>13, <1>14, <1>17, <1>18, HalfParts
<1>20. Good(d') /\ Moves(q, d'.query, t)
  BY <1>2, <1>14, <1>19, LoopKeeps
<1>21. Goes(d.query, d'.query)
  <2>1. PICK w : w = d'.query
    OBVIOUS
  <2>2. Moves(q, w, t)
    BY <1>20, <2>1
  <2>3. DOMAIN d.query \subseteq DOMAIN w /\ DOMAIN w = DOMAIN d.query \cup {t}
    BY <2>2, <1>7 DEF Moves
  <2>4. \A u \in DOMAIN d.query :
       /\ w[u].chains = d.query[u].chains /\ w[u].message_id = d.query[u].message_id
       /\ (w[u].place = "sent" <=> d.query[u].place = "sent") /\ (d.query[u].place = "done" => w[u].place = "done")
       /\ d.query[u].place \in {"mailbox", "callback"} /\ d.query[u].state = "OK"
            => w[u].place = "done" \/ (w[u].place \in {"mailbox", "callback"} /\ w[u].state = "OK")
    BY <2>2, <1>7 DEF Moves
  <2>5. w[t].place # "sent" /\ w[t].message_id = 0
    BY <2>2, <1>4, <1>7 DEF Moves
  <2> QED
    BY <2>1, <2>3, <2>4, <2>5, <1>7 DEF Goes
<1> QED
  BY <1>20, <1>21

-----------------------------------------------------------------------------
(* A query outside the dispatcher.                                          *)

(* o becomes x.                                                             *)
Away(o, x) ==
  /\ x \in Query /\ x.chains = o.chains /\ x.invoke_after = o.invoke_after
  /\ o.place \in InFlight /\ x.place \in InFlight \cup {"mailbox"}

LEMMA AwayKeeps ==
  ASSUME NEW s, Good(s), NEW t \in DOMAIN s.query, NEW x, Away(s.query[t], x)
  PROVE  Good(Put(s, t, x))
<1>1. PICK r : r = Put(s, t, x)
  OBVIOUS
<1>2. Half(s, {}) /\ s.pending_tasks_ = <<>> /\ s.query[t].place \notin {"node", "done"}
  BY DEF Good, Away, InFlight
<1>3. t \in Alive(s) /\ t \notin Waiting(s) /\ Half(s, {t})
  BY <1>2, Outside
<1>4. /\ x \in Query /\ x.chains = s.query[t].chains /\ x.place \notin {"done", "node"} /\ t \in {t}
      /\ (x.place \in InFlight => s.query[t].place \in InFlight /\ x.invoke_after = s.query[t].invoke_after)
  BY DEF Away, InFlight
<1>5. Half(r, {t}) /\ Alive(r) = Alive(s) /\ Waiting(r) = Waiting(s) /\ r.pending_tasks_ = <<>> /\ r.query[t] = x
  BY <1>1, <1>2, <1>3, <1>4, PutKeeps
<1>6. Half(r, {})
  BY <1>3, <1>4, <1>5, HalfIn
<1> QED
  BY <1>1, <1>5, <1>6 DEF Good

LEMMA ReturnedIs ==
  ASSUME d \in State, NEW t \in DOMAIN d.query, NEW state \in {"Query", "OK", "Error", "ResendInvokeAfter"},
         d.query[t].place \in InFlight
  PROVE  \E x : /\ Returned(t, state) = Put(d, t, x) /\ Away(d.query[t], x)
                /\ x.place = "mailbox" /\ x.state = state /\ x.message_id = 0
<1>1. PICK x : x = [d.query[t] EXCEPT !.place = "mailbox", !.state = state, !.message_id = 0]
  OBVIOUS
<1>2. d.query \in Seq(Query) /\ d.query[t] \in Query
  BY StateFields
<1>3. Away(d.query[t], x) /\ x.place = "mailbox" /\ x.state = state /\ x.message_id = 0
  BY <1>1, <1>2 DEF Away, Query
<1>4. [[[d.query EXCEPT ![t].place = "mailbox"] EXCEPT ![t].state = state] EXCEPT ![t].message_id = 0]
        = [d.query EXCEPT ![t] = x]
  BY <1>1, <1>2 DEF Query
<1>5. Returned(t, state) =
        [d EXCEPT !.query = [[[d.query EXCEPT ![t].place = "mailbox"] EXCEPT ![t].state = state] EXCEPT ![t].message_id = 0]]
  BY DEF Returned, State
<1> QED
  BY <1>3, <1>4, <1>5 DEF Put

(* A query comes back, or waits again: x is what it becomes.                *)
Leaves(t, x) == Away(d.query[t], x) /\ x.place # "sent" /\ x.message_id = 0

LEMMA RefuseLeaves ==
  ASSUME Good(d), NEW t \in DOMAIN d.query, SessionRefuses(t) \/ Answered(t)
  PROVE  \E x : d' = Put(d, t, x) /\ Leaves(t, x)
<1>1. d \in State
  BY DEF Good, Half, SchedulerGood
<1>2. CASE SessionRefuses(t)
  <2>1. d.query[t].place = "session" /\ d.query[t].place \in InFlight
    BY <1>2 DEF SessionRefuses, InFlight
  <2>2. PICK state \in {"ResendInvokeAfter", "Error"} : d' = Returned(t, state)
    BY <1>2 DEF SessionRefuses
  <2>3. state \in {"Query", "OK", "Error", "ResendInvokeAfter"}
    OBVIOUS
  <2>4. PICK x : Returned(t, state) = Put(d, t, x) /\ Away(d.query[t], x) /\ x.place = "mailbox" /\ x.message_id = 0
    BY <2>1, <2>3, <1>1, ReturnedIs
  <2> QED
    BY <2>1, <2>2, <2>4 DEF Leaves
<1>3. CASE Answered(t)
  <2>1. d.query[t].place = "sent" /\ d.query[t].place \in InFlight
    BY <1>3 DEF Answered, InFlight
  <2>2. PICK state : state = messages[d.query[t].message_id].verdict
    OBVIOUS
  <2>3. state \in {"OK", "Error", "ResendInvokeAfter"} /\ d' = Returned(t, state)
    BY <2>2, <1>3 DEF Answered
  <2>4. state \in {"Query", "OK", "Error", "ResendInvokeAfter"}
    BY <2>3
  <2>5. PICK x : Returned(t, state) = Put(d, t, x) /\ Away(d.query[t], x)
                 /\ x.place = "mailbox" /\ x.state = state /\ x.message_id = 0
    BY <2>1, <2>4, <1>1, ReturnedIs
  <2> QED
    BY <2>1, <2>2, <2>3, <2>5 DEF Leaves
<1> QED
  BY <1>2, <1>3

LEMMA DelayLeaves ==
  ASSUME Good(d), NEW t \in DOMAIN d.query, (d.query[t].place = "sent" /\ Delays(t)) \/ on_slot_event(t),
         d.query[t].place = "sent" \/ d.query[t].message_id = 0
  PROVE  \E x : d' = Put(d, t, x) /\ Leaves(t, x)
<1>1. d \in State /\ d.query \in Seq(Query) /\ d.query[t] \in Query
  BY StateFields DEF Good, Half, SchedulerGood
<1>2. CASE d.query[t].place = "sent" /\ Delays(t)
  <2>1. d.query[t].place = "sent" /\ d.query[t].place \in InFlight
    BY <1>2 DEF InFlight
  <2>2. PICK timeout \in Timeouts :
          \E fails \in {TRUE, d.query[t].total_timeout_ + timeout > total_timeout_limit} :
          d' = [Returned(t, IF fails THEN "Error" ELSE "Query") EXCEPT
                     !.query[t].total_timeout_ = d.query[t].total_timeout_ + timeout,
                     !.query[t].last_timeout_ = timeout,
                     !.query[t].place = IF fails THEN "mailbox" ELSE "delayer"]
    BY <1>2, Zenon DEF Delays
  <2>3. PICK fails \in BOOLEAN :
          d' = [Returned(t, IF fails THEN "Error" ELSE "Query") EXCEPT
                     !.query[t].total_timeout_ = d.query[t].total_timeout_ + timeout,
                     !.query[t].last_timeout_ = timeout,
                     !.query[t].place = IF fails THEN "mailbox" ELSE "delayer"]
    BY <2>2, Zenon
  <2>4. PICK state, total, place : /\ state = IF fails THEN "Error" ELSE "Query"
                                   /\ total = d.query[t].total_timeout_ + timeout
                                   /\ place = IF fails THEN "mailbox" ELSE "delayer"
    OBVIOUS
  <2>5. state \in {"Query", "OK", "Error", "ResendInvokeAfter"} /\ place \in {"mailbox", "delayer"}
    BY <2>4
  <2>6. timeout \in Nat /\ total \in Nat
    <3>1. d.query[t].total_timeout_ \in Nat
      BY <1>1 DEF Query
    <3>2. timeout \in Nat
      BY <2>2, DispatcherAssumption
    <3> QED
      BY <3>1, <3>2, <2>4
  <2>7. PICK x : Returned(t, state) = Put(d, t, x) /\ Away(d.query[t], x) /\ x.message_id = 0
    BY <2>1, <2>5, <1>1, ReturnedIs
  <2>8. PICK r : r = Put(d, t, x)
    OBVIOUS
  <2>9. x \in Query
    BY <2>7 DEF Away
  <2>10. r \in State /\ r.query \in Seq(Query) /\ t \in DOMAIN r.query /\ r.query[t] = x
        /\ \A y : Put(r, t, y) = Put(d, t, y)
    BY <2>8, <2>9, <1>1, PutFields, StateFields
  <2>11. PICK y : y = [x EXCEPT !.total_timeout_ = total, !.last_timeout_ = timeout, !.place = place]
    OBVIOUS
  <2>12. y \in Query /\ y.chains = x.chains /\ y.invoke_after = x.invoke_after /\ y.place = place /\ y.message_id = x.message_id
    BY <2>5, <2>6, <2>9, <2>11 DEF Query
  <2>13. d' = [r EXCEPT !.query[t].total_timeout_ = total, !.query[t].last_timeout_ = timeout, !.query[t].place = place]
    BY <2>3, <2>4, <2>7, <2>8
  <2>14. d' = [r EXCEPT !.query = [[[r.query EXCEPT ![t].total_timeout_ = total] EXCEPT ![t].last_timeout_ = timeout] EXCEPT ![t].place = place]]
    BY <2>10, <2>13 DEF State
  <2>15. [[[r.query EXCEPT ![t].total_timeout_ = total] EXCEPT ![t].last_timeout_ = timeout] EXCEPT ![t].place = place]
           = [r.query EXCEPT ![t] = y]
    BY <2>9, <2>10, <2>11 DEF Query
  <2>16. d' = Put(d, t, y)
    BY <2>10, <2>14, <2>15 DEF Put
  <2>17. Away(d.query[t], y)
    BY <2>5, <2>7, <2>12 DEF Away, InFlight
  <2>18. Leaves(t, y)
    BY <2>5, <2>7, <2>12, <2>17 DEF Leaves
  <2> QED
    BY <2>16, <2>18
<1>3. CASE on_slot_event(t)
  <2>1. d.query[t].place = "delayer" /\ d.query[t].place \in InFlight
    BY <1>3 DEF on_slot_event, InFlight
  <2>2. CASE d.query[t].invoke_after # {}
    <3>1. d' = Returned(t, "ResendInvokeAfter")
      BY <2>2, <1>3 DEF on_slot_event
    <3>2. "ResendInvokeAfter" \in {"Query", "OK", "Error", "ResendInvokeAfter"}
      OBVIOUS
    <3>3. PICK x : Returned(t, "ResendInvokeAfter") = Put(d, t, x) /\ Away(d.query[t], x)
                   /\ x.place = "mailbox" /\ x.message_id = 0
      BY <2>1, <3>2, <1>1, ReturnedIs
    <3> QED
      BY <2>1, <3>1, <3>3 DEF Leaves
  <2>3. CASE d.query[t].invoke_after = {}
    <3>1. d' = To(d, t, "session")
      BY <2>3, <1>3 DEF on_slot_event, To
    <3>2. PICK x : x = At(d.query[t], "session")
      OBVIOUS
    <3>3. "session" \in {"node", "session", "sent", "delayer", "mailbox", "callback", "done"}
      OBVIOUS
    <3>4. /\ To(d, t, "session") = Put(d, t, x) /\ x \in Query /\ x.place = "session" /\ x.chains = d.query[t].chains
          /\ x.message_id = d.query[t].message_id /\ x.invoke_after = d.query[t].invoke_after
      BY <3>2, <3>3, <1>1, PlaceIs
    <3>5. Leaves(t, x)
      BY <3>4, <2>1 DEF Leaves, Away, InFlight
    <3> QED
      BY <3>1, <3>4, <3>5
  <2> QED
    BY <2>2, <2>3
<1> QED
  BY <1>2, <1>3

(* The session gives up a query that it has sent.                           *)
LEMMA GiveBackLeaves ==
  ASSUME Good(d), NEW t \in DOMAIN d.query, GiveBack(t)
  PROVE  \E x : d' = Put(d, t, x) /\ Leaves(t, x)
<1>1. d \in State /\ d.query \in Seq(Query) /\ d.query[t] \in Query
  BY StateFields DEF Good, Half, SchedulerGood
<1>2. d.query[t].place = "sent" /\ d.query[t].place \in InFlight
  BY DEF GiveBack, InFlight
<1>3. CASE Delays(t)
  BY <1>2, <1>3, DelayLeaves
<1>4. CASE d' = Returned(t, "Error")
  <2>1. "Error" \in {"Query", "OK", "Error", "ResendInvokeAfter"}
    OBVIOUS
  <2>2. PICK x : Returned(t, "Error") = Put(d, t, x) /\ Away(d.query[t], x) /\ x.place = "mailbox" /\ x.message_id = 0
    BY <2>1, <1>1, <1>2, ReturnedIs
  <2> QED
    BY <2>2, <1>4 DEF Leaves
<1>5. CASE d' = [d EXCEPT !.query[t].place = "session", !.query[t].message_id = 0]
  <2>1. PICK x : x = [d.query[t] EXCEPT !.place = "session", !.message_id = 0]
    OBVIOUS
  <2>2. x \in Query /\ x.place = "session" /\ x.message_id = 0 /\ x.chains = d.query[t].chains /\ x.invoke_after = d.query[t].invoke_after
    BY <2>1, <1>1 DEF Query
  <2>3. [[d.query EXCEPT ![t].place = "session"] EXCEPT ![t].message_id = 0] = [d.query EXCEPT ![t] = x]
    BY <2>1, <1>1 DEF Query
  <2>4. d' = [d EXCEPT !.query = [[d.query EXCEPT ![t].place = "session"] EXCEPT ![t].message_id = 0]]
    BY <1>1, <1>5 DEF State
  <2>5. d' = Put(d, t, x)
    BY <2>3, <2>4 DEF Put
  <2>6. Leaves(t, x)
    BY <2>2, <1>2 DEF Leaves, Away, InFlight
  <2> QED
    BY <2>5, <2>6
<1> QED
  BY <1>3, <1>4, <1>5 DEF GiveBack

-----------------------------------------------------------------------------
(* The messages.                                                            *)

(* A step that leaves the messages alone and only adds queries behind the   *)
(* others.                                                                  *)
LEMMA MessagesStay ==
  ASSUME Good(d), Good(d)', MessagesGood, messages' = messages, executed' = executed,
         \A u \in DOMAIN d.query : /\ u \in DOMAIN d'.query /\ d'.query[u].chains = d.query[u].chains
                                   /\ d.query[u].place = "done" => d'.query[u].place = "done",
         \A u \in DOMAIN d'.query : u \in DOMAIN d.query \/ \A p \in DOMAIN d.query : p < u,
         SentAgrees'
  PROVE  MessagesGood'
<1>1. PICK q, r : q = d.query /\ r = d'.query
  OBVIOUS
<1>2. (\A u \in DOMAIN q : u \in Nat) /\ (\A u \in DOMAIN r : u \in Nat)
  <2>1. d \in State
    BY DEF Good, Half, SchedulerGood
  <2>2. d' \in State
    BY DEF Good, Half, SchedulerGood
  <2> QED
    BY <2>1, <2>2, <1>1, StateFields
<1>3. ASSUME NEW t \in DOMAIN q, NEW p, NEW c PROVE Earlier(r, p, t, c) <=> Earlier(q, p, t, c)
  <2>1. t \in DOMAIN r /\ r[t].chains = q[t].chains
    BY <1>1
  <2>2. CASE p \in DOMAIN q
    BY <2>1, <2>2, <1>1 DEF Earlier
  <2>3. CASE p \in DOMAIN r /\ p \notin DOMAIN q
    <3>1. t < p
      BY <2>3, <1>1
    <3>2. ~(p < t)
      BY <3>1, <2>1, <2>3, <1>2
    <3> QED
      BY <3>2 DEF Earlier
  <2>4. CASE p \notin DOMAIN r /\ p \notin DOMAIN q
    BY <2>4 DEF Earlier
  <2> QED
    BY <2>2, <2>3, <2>4
<1>4. MessagesTyped /\ ServerOrder /\ ExecutedAgrees
  BY DEF MessagesGood
<1>5. \A m \in DOMAIN messages : messages[m].task \in DOMAIN q /\ messages[m].after \subseteq DOMAIN messages
  BY <1>1, <1>4 DEF MessagesTyped
<1>6. MessagesTyped'
  <2>1. \A m \in DOMAIN messages : messages[m].task \in DOMAIN d'.query
    BY <1>1, <1>5
  <2> QED
    BY <2>1, <1>4, <1>5 DEF MessagesTyped
<1>7. \A p \in DOMAIN q : Settled(p) => Settled(p)'
  BY <1>1 DEF Settled
<1>8. ServerOrder'
  <2>1. ASSUME NEW m \in DOMAIN messages, messages[m].verdict = "none",
               NEW c \in ChainIds, NEW p \in DOMAIN r, Earlier(r, p, messages[m].task, c)
        PROVE  \/ r[p].place = "done"
               \/ \E a \in messages[m].after :
                    p <= messages[a].task /\ Earlier(r, messages[a].task, messages[m].task, c)
    <3>1. Earlier(q, p, messages[m].task, c) /\ p \in DOMAIN q
      BY <2>1, <1>3, <1>5 DEF Earlier
    <3>2. \/ q[p].place = "done"
          \/ \E a \in messages[m].after :
               p <= messages[a].task /\ Earlier(q, messages[a].task, messages[m].task, c)
      BY <3>1, <2>1, <1>1, <1>4 DEF ServerOrder, MessageFollows
    <3> QED
      BY <3>1, <3>2, <1>1, <1>3, <1>5
  <2>2. ASSUME NEW m \in DOMAIN messages, messages[m].verdict = "OK",
               NEW c \in ChainIds, NEW p \in DOMAIN r, Earlier(r, p, messages[m].task, c)
        PROVE  Settled(p)'
    <3>1. Earlier(q, p, messages[m].task, c) /\ p \in DOMAIN q
      BY <2>2, <1>3, <1>5 DEF Earlier
    <3>2. Settled(p)
      BY <3>1, <2>2, <1>1, <1>4 DEF ServerOrder
    <3> QED
      BY <3>1, <3>2, <1>7
  <2> QED
    BY <2>1, <2>2, <1>1 DEF ServerOrder, MessageFollows
<1>9. ExecutedAgrees'
  BY <1>4 DEF ExecutedAgrees
<1> QED
  BY <1>6, <1>8, <1>9 DEF MessagesGood

(* A handler of the dispatcher.                                             *)
LEMMA GoesKeeps ==
  ASSUME Good(d), Good(d)', MessagesGood, messages' = messages, executed' = executed, Goes(d.query, d'.query)
  PROVE  MessagesGood'
<1>1. PICK q, r : q = d.query /\ r = d'.query
  OBVIOUS
<1>2. Goes(q, r)
  BY <1>1
<1>3. SentAgrees
  BY DEF MessagesGood
<1>7. SentAgrees'
  <2>1. ASSUME NEW t \in DOMAIN r
        PROVE  IF r[t].place = "sent" THEN r[t].message_id \in DOMAIN messages /\ messages[r[t].message_id].task = t
               ELSE r[t].message_id = 0
    <3>1. CASE t \in DOMAIN q
      <4>1. r[t].message_id = q[t].message_id /\ (r[t].place = "sent" <=> q[t].place = "sent")
        BY <3>1, <1>2 DEF Goes
      <4>2. IF q[t].place = "sent" THEN q[t].message_id \in DOMAIN messages /\ messages[q[t].message_id].task = t
               ELSE q[t].message_id = 0
        BY <3>1, <1>1, <1>3 DEF SentAgrees
      <4> QED
        BY <4>1, <4>2
    <3>2. CASE t \notin DOMAIN q
      BY <3>2, <1>2 DEF Goes
    <3> QED
      BY <3>1, <3>2
  <2> QED
    BY <2>1, <1>1 DEF SentAgrees
<1> QED
  BY <1>1, <1>2, <1>7, MessagesStay DEF Goes

(* A query that comes back from the session.                                *)
LEMMA LeavesKeeps ==
  ASSUME Good(d), MessagesGood, messages' = messages, executed' = executed,
         NEW t \in DOMAIN d.query, NEW x, d' = Put(d, t, x), Leaves(t, x)
  PROVE  Good(d)' /\ MessagesGood'
<1>1. Away(d.query[t], x) /\ x \in Query /\ x.chains = d.query[t].chains /\ d.query[t].place \in InFlight
  BY DEF Leaves, Away
<1>2. Good(d')
  BY <1>1, AwayKeeps
<1>3. PICK q, r : q = d.query /\ r = d'.query
  OBVIOUS
<1>4. DOMAIN r = DOMAIN q /\ r[t] = x /\ \A u \in DOMAIN q : u # t => r[u] = q[u]
  <2>1. d \in State
    BY DEF Good, Half, SchedulerGood
  <2>2. PICK p : p = Put(d, t, x)
    OBVIOUS
  <2>3. DOMAIN p.query = DOMAIN d.query /\ p.query[t] = x /\ \A u \in DOMAIN d.query : u # t => p.query[u] = d.query[u]
    BY <2>1, <2>2, <1>1, PutFields
  <2> QED
    BY <2>2, <2>3, <1>3
<1>5. SentAgrees
  BY DEF MessagesGood
<1>7. SentAgrees'
  <2>1. ASSUME NEW u \in DOMAIN r
        PROVE  IF r[u].place = "sent" THEN r[u].message_id \in DOMAIN messages /\ messages[r[u].message_id].task = u
               ELSE r[u].message_id = 0
    <3>1. CASE u = t
      BY <3>1, <1>4 DEF Leaves
    <3>2. CASE u # t
      BY <3>2, <1>3, <1>4, <1>5 DEF SentAgrees
    <3> QED
      BY <3>1, <3>2
  <2> QED
    BY <2>1, <1>3 DEF SentAgrees
<1>9. \A u \in DOMAIN d.query : /\ u \in DOMAIN d'.query /\ d'.query[u].chains = d.query[u].chains
                                /\ d.query[u].place = "done" => d'.query[u].place = "done"
  BY <1>1, <1>3, <1>4 DEF InFlight
<1>10. \A u \in DOMAIN d'.query : u \in DOMAIN d.query \/ \A p \in DOMAIN d.query : p < u
  BY <1>3, <1>4
<1>11. Good(d)'
  BY <1>2
<1>12. MessagesGood'
  BY <1>7, <1>9, <1>10, <1>11, MessagesStay
<1> QED
  BY <1>11, <1>12

(* The server decides.                                                      *)
LEMMA DecideKeeps ==
  ASSUME Good(d), MessagesGood, NEW m \in DOMAIN messages,
         NEW verdict \in {"OK", "Error", "Flood", "ResendInvokeAfter", "Lost"}, Decide(m, verdict),
         verdict = "OK" => \A a \in messages[m].after : messages[a].verdict = "OK"
  PROVE  /\ MessagesTyped' /\ SentAgrees' /\ ServerOrder'
         /\ DOMAIN messages' = DOMAIN messages /\ messages'[m].task = messages[m].task /\ messages'[m].verdict = verdict
         /\ \A p \in DOMAIN messages : p # m => messages'[p] = messages[p]
         /\ verdict = "OK" => \A c \in ChainIds, p \in DOMAIN d.query : Earlier(d.query, p, messages[m].task, c) => Settled(p)
<1>1. PICK q, r : q = messages /\ r = messages'
  OBVIOUS
<1>2. d' = d /\ q[m].verdict = "none" /\ r = [q EXCEPT ![m].verdict = verdict]
  BY <1>1 DEF Decide
<1>3. MessagesTyped /\ SentAgrees /\ ServerOrder /\ q \in Seq(Message)
  BY <1>1 DEF MessagesGood, MessagesTyped
<1>4. /\ DOMAIN r = DOMAIN q /\ r \in Seq(Message) /\ r[m].verdict = verdict
      /\ \A e \in DOMAIN q : r[e].task = q[e].task /\ r[e].after = q[e].after
      /\ \A e \in DOMAIN q : e # m => r[e] = q[e]
  <2>1. q[m] \in Message /\ m \in DOMAIN q
    BY <1>1, <1>3
  <2>2. PICK x : x = [q[m] EXCEPT !.verdict = verdict]
    OBVIOUS
  <2>3. x \in Message /\ x.verdict = verdict /\ x.task = q[m].task /\ x.after = q[m].after
    BY <2>1, <2>2 DEF Message
  <2>4. r = [q EXCEPT ![m] = x]
    BY <2>2, <1>2
  <2> HIDE DEF Message
  <2> QED
    BY <2>1, <2>3, <2>4, <1>3
<1>5. MessagesTyped'
  BY <1>1, <1>2, <1>3, <1>4 DEF MessagesTyped
<1>8. SentAgrees'
  <2>1. ASSUME NEW t \in DOMAIN d.query
        PROVE  IF d.query[t].place = "sent" THEN d.query[t].message_id \in DOMAIN r /\ r[d.query[t].message_id].task = t
               ELSE d.query[t].message_id = 0
    BY <1>1, <1>3, <1>4 DEF SentAgrees
  <2> QED
    BY <2>1, <1>1, <1>2 DEF SentAgrees
<1>10. \A p : Settled(p) => Settled(p)'
  <2>1. \A e \in DOMAIN q : q[e].verdict = "OK" => r[e] = q[e]
    BY <1>2, <1>4
  <2> QED
    BY <2>1, <1>1, <1>2, <1>4 DEF Settled
<1>11. ASSUME verdict = "OK", NEW c \in ChainIds, NEW p \in DOMAIN d.query, Earlier(d.query, p, q[m].task, c)
       PROVE  Settled(p)
  <2>1. MessageFollows(m) /\ Earlier(d.query, p, q[m].task, c)
    BY <1>1, <1>2, <1>3, <1>11 DEF ServerOrder
  <2>2. CASE d.query[p].place = "done"
    BY <2>2 DEF Settled
  <2>3. CASE d.query[p].place # "done"
    <3>1. PICK a \in q[m].after : p <= q[a].task /\ Earlier(d.query, q[a].task, q[m].task, c)
      BY <2>1, <2>3, <1>1 DEF MessageFollows
    <3>2. a \in DOMAIN q /\ q[a].verdict = "OK"
      BY <3>1, <1>1, <1>3, <1>11 DEF MessagesTyped
    <3>3. CASE p = q[a].task
      BY <3>2, <3>3, <1>1 DEF Settled
    <3>4. CASE p # q[a].task
      <4>1. q[a].task \in Nat
        <5>1. q[a] \in Message
          BY <3>2, <1>3
        <5> QED
          BY <5>1 DEF Message
      <4>2. p \in Nat
        BY StateFields DEF Good, Half, SchedulerGood
      <4>3. p < q[a].task
        BY <3>1, <3>4, <4>1, <4>2
      <4>4. Earlier(d.query, p, q[a].task, c)
        BY <4>3, <3>1, <2>1 DEF Earlier
      <4> QED
        BY <4>4, <3>2, <1>1, <1>3 DEF ServerOrder
    <3> QED
      BY <3>3, <3>4
  <2> QED
    BY <2>2, <2>3
<1>12. ServerOrder'
  <2>1. ASSUME NEW e \in DOMAIN r, r[e].verdict = "none" PROVE MessageFollows(e)'
    <3>1. e # m /\ q[e].verdict = "none" /\ q[e].after \subseteq DOMAIN q
      BY <2>1, <1>1, <1>3, <1>4 DEF MessagesTyped
    <3>2. MessageFollows(e)
      BY <3>1, <1>1, <1>3, <1>4 DEF ServerOrder
    <3> QED
      BY <3>1, <3>2, <1>1, <1>2, <1>4 DEF MessageFollows
  <2>2. ASSUME NEW e \in DOMAIN r, r[e].verdict = "OK",
               NEW c \in ChainIds, NEW p \in DOMAIN d.query, Earlier(d.query, p, r[e].task, c)
        PROVE  Settled(p)
    <3>1. CASE e # m
      BY <3>1, <2>2, <1>1, <1>3, <1>4 DEF ServerOrder
    <3>2. CASE e = m
      BY <3>2, <2>2, <1>4, <1>11
    <3> QED
      BY <3>1, <3>2
  <2> QED
    BY <2>1, <2>2, <1>1, <1>2, <1>10 DEF ServerOrder
<1> QED
  BY <1>1, <1>2, <1>4, <1>5, <1>8, <1>11, <1>12

(* What a step of the server is.                                            *)
LEMMA ServerDecides ==
  ASSUME NEW m \in DOMAIN messages, Server(m) \/ Reject(m)
  PROVE  \E verdict \in {"OK", "Error", "Flood", "ResendInvokeAfter", "Lost"} :
           /\ Decide(m, verdict) /\ IF verdict = "OK" THEN Execute(m) ELSE executed' = executed
           /\ verdict = "OK" => \A a \in messages[m].after : messages[a].verdict = "OK"
<1>1. CASE Execute(m)
  BY <1>1 DEF Execute
<1>2. CASE WaitFailed(m)
  BY <1>2 DEF WaitFailed
<1>3. CASE Lose(m)
  BY <1>3 DEF Lose
<1>4. CASE Reject(m)
  BY <1>4 DEF Reject
<1> QED
  BY <1>1, <1>2, <1>3, <1>4 DEF Server

LEMMA ServerKeeps ==
  ASSUME Good(d), MessagesGood, NEW m \in DOMAIN messages, Server(m) \/ Reject(m)
  PROVE  Good(d)' /\ MessagesGood'
<1>1. PICK verdict \in {"OK", "Error", "Flood", "ResendInvokeAfter", "Lost"} :
        /\ Decide(m, verdict) /\ IF verdict = "OK" THEN Execute(m) ELSE executed' = executed
        /\ verdict = "OK" => \A a \in messages[m].after : messages[a].verdict = "OK"
  BY ServerDecides
<1>2. d' = d
  BY <1>1 DEF Decide
<1>3. /\ MessagesTyped' /\ SentAgrees' /\ ServerOrder'
      /\ DOMAIN messages' = DOMAIN messages /\ messages'[m].task = messages[m].task /\ messages'[m].verdict = verdict
      /\ \A p \in DOMAIN messages : p # m => messages'[p] = messages[p]
  BY <1>1, DecideKeeps
<1>4. MessagesTyped /\ executed \in Seq(Nat)
      /\ \A p \in DOMAIN messages : messages[p].verdict = "OK" => \E i \in DOMAIN executed : executed[i] = messages[p].task
  BY DEF MessagesGood, ExecutedAgrees
<1>5. Good(d)'
  BY <1>2
<1>6. CASE verdict # "OK"
  <2>1. executed' = executed
    BY <1>1, <1>6
  <2>2. ExecutedAgrees'
    BY <2>1, <1>3, <1>4, <1>6 DEF ExecutedAgrees
  <2> QED
    BY <2>2, <1>3, <1>5 DEF MessagesGood
<1>7. CASE verdict = "OK"
  <2>1. PICK t, e, x : t = messages[m].task /\ e = executed /\ x = executed'
    OBVIOUS
  <2>2. x = Append(e, t) /\ e \in Seq(Nat)
    BY <2>1, <1>1, <1>4, <1>7 DEF Execute
  <2>3. t \in Nat
    <3>1. messages[m] \in Message
      BY <1>4 DEF MessagesTyped
    <3> QED
      BY <3>1, <2>1 DEF Message
  <2>4. x \in Seq(Nat) /\ Len(e) + 1 \in DOMAIN x /\ x[Len(e) + 1] = t /\ \A i \in DOMAIN e : i \in DOMAIN x /\ x[i] = e[i]
    BY <2>2, <2>3
  <2>5. ASSUME NEW p \in DOMAIN messages, messages'[p].verdict = "OK" PROVE \E i \in DOMAIN x : x[i] = messages'[p].task
    <3>1. CASE p = m
      BY <3>1, <2>1, <2>4, <1>3
    <3>2. CASE p # m
      <4>1. messages'[p] = messages[p]
        BY <3>2, <1>3
      <4>2. PICK i \in DOMAIN e : e[i] = messages[p].task
        BY <4>1, <2>1, <2>5, <1>4
      <4> QED
        BY <4>1, <4>2, <2>4
    <3> QED
      BY <3>1, <3>2
  <2>6. ExecutedAgrees'
    BY <2>1, <2>4, <2>5, <1>3 DEF ExecutedAgrees
  <2> QED
    BY <2>6, <1>3, <1>5 DEF MessagesGood
<1> QED
  BY <1>6, <1>7

(* The session sends a query, with the message ids of those before it.      *)
LEMMA SessionSends ==
  ASSUME Good(d), MessagesGood, NEW t \in DOMAIN d.query, connection_send_query(t),
         0 \notin {d.query[p].message_id : p \in d.query[t].invoke_after}
  PROVE  Good(d)' /\ MessagesGood'
<1>1. PICK q, after, k, y, r, w :
        /\ q = messages /\ after = {d.query[p].message_id : p \in d.query[t].invoke_after} /\ k = Len(messages) + 1
        /\ y = [task |-> t, after |-> after, verdict |-> "none"] /\ r = messages' /\ w = d'.query
  OBVIOUS
<1>2. /\ d.query[t].place = "session" /\ r = Append(q, y) /\ executed' = executed
      /\ d' = [d EXCEPT !.query[t].place = "sent", !.query[t].message_id = k]
  BY <1>1 DEF connection_send_query
<1>3. MessagesTyped /\ SentAgrees /\ ServerOrder /\ ExecutedAgrees /\ q \in Seq(Message)
  BY <1>1 DEF MessagesGood, MessagesTyped
<1>4. d \in State /\ d.query \in Seq(Query) /\ d.query[t] \in Query /\ t \in Nat /\ Ordered(d.query)
  BY StateFields DEF Good, Half, SchedulerGood
<1>5. Len(q) \in Nat /\ k \in Nat \ {0} /\ DOMAIN q = 1..Len(q) /\ k = Len(q) + 1
  BY <1>1, <1>3
<1>6. Follows(d.query, t)
  BY <1>2, <1>4 DEF Ordered, InFlight
<1>7. ASSUME NEW p \in d.query[t].invoke_after
      PROVE  /\ p \in DOMAIN d.query /\ d.query[p].message_id \in DOMAIN q /\ q[d.query[p].message_id].task = p
             /\ d.query[p].message_id \in after
  <2>1. p \in DOMAIN d.query
    BY <1>6 DEF Follows
  <2>2. d.query[p].message_id # 0
    OBVIOUS
  <2>3. d.query[p].message_id \in DOMAIN q /\ q[d.query[p].message_id].task = p
    BY <2>1, <2>2, <1>1, <1>3 DEF SentAgrees
  <2> QED
    BY <2>1, <2>3, <1>1
<1>8. after \subseteq DOMAIN q /\ after \subseteq Nat
  <2>1. after \subseteq DOMAIN q
    BY <1>1, <1>7
  <2> QED
    BY <2>1, <1>5
<1>9. y \in Message /\ y.task = t /\ y.after = after /\ y.verdict = "none"
  BY <1>1, <1>4, <1>8 DEF Message
<1>10. r \in Seq(Message) /\ DOMAIN r = DOMAIN q \cup {k} /\ k \notin DOMAIN q /\ r[k] = y /\ \A m \in DOMAIN q : r[m] = q[m]
  BY <1>2, <1>3, <1>5, <1>9
<1>11. PICK x : x = [d.query[t] EXCEPT !.place = "sent", !.message_id = k]
  OBVIOUS
<1>12. x \in Query /\ x.place = "sent" /\ x.message_id = k /\ x.chains = d.query[t].chains /\ x.invoke_after = d.query[t].invoke_after
  BY <1>4, <1>5, <1>11 DEF Query
<1>13. d' = Put(d, t, x)
  <2>1. [[d.query EXCEPT ![t].place = "sent"] EXCEPT ![t].message_id = k] = [d.query EXCEPT ![t] = x]
    BY <1>4, <1>11 DEF Query
  <2>2. d' = [d EXCEPT !.query = [[d.query EXCEPT ![t].place = "sent"] EXCEPT ![t].message_id = k]]
    BY <1>2, <1>4 DEF State
  <2> QED
    BY <2>1, <2>2 DEF Put
<1>14. Good(d')
  <2>1. Away(d.query[t], x)
    BY <1>2, <1>12 DEF Away, InFlight
  <2> QED
    BY <2>1, <1>13, AwayKeeps
<1>15. DOMAIN w = DOMAIN d.query /\ w[t] = x /\ \A u \in DOMAIN d.query : u # t => w[u] = d.query[u]
  <2>1. PICK p : p = Put(d, t, x)
    OBVIOUS
  <2>2. DOMAIN p.query = DOMAIN d.query /\ p.query[t] = x /\ \A u \in DOMAIN d.query : u # t => p.query[u] = d.query[u]
    BY <2>1, <1>4, <1>12, PutFields
  <2> QED
    BY <2>1, <2>2, <1>1, <1>13
<1>16. \A u \in DOMAIN d.query : w[u].chains = d.query[u].chains /\ (w[u].place = "done" <=> d.query[u].place = "done")
  BY <1>2, <1>12, <1>15
<1>17. \A p, c : \A u \in DOMAIN d.query : Earlier(w, p, u, c) <=> Earlier(d.query, p, u, c)
  BY <1>15, <1>16 DEF Earlier
<1>18. \A m \in DOMAIN q : q[m].task \in DOMAIN d.query /\ q[m].after \subseteq DOMAIN q
  BY <1>1, <1>3 DEF MessagesTyped
<1>19. MessagesTyped'
  <2>1. \A m \in DOMAIN r : r[m].task \in DOMAIN w /\ r[m].after \subseteq DOMAIN r
    BY <1>8, <1>9, <1>10, <1>15, <1>18
  <2> QED
    BY <2>1, <1>1, <1>10 DEF MessagesTyped
<1>20. SentAgrees'
  <2>1. ASSUME NEW u \in DOMAIN w
        PROVE  IF w[u].place = "sent" THEN w[u].message_id \in DOMAIN r /\ r[w[u].message_id].task = u
               ELSE w[u].message_id = 0
    <3>1. CASE u = t
      BY <3>1, <1>9, <1>10, <1>12, <1>15
    <3>2. CASE u # t
      <4>1. w[u] = d.query[u] /\ u \in DOMAIN d.query
        BY <3>2, <1>15
      <4>2. IF d.query[u].place = "sent" THEN d.query[u].message_id \in DOMAIN q /\ q[d.query[u].message_id].task = u
            ELSE d.query[u].message_id = 0
        BY <4>1, <1>1, <1>3 DEF SentAgrees
      <4> QED
        BY <4>1, <4>2, <1>10
    <3> QED
      BY <3>1, <3>2
  <2> QED
    BY <2>1, <1>1 DEF SentAgrees
<1>22. ASSUME NEW p \in DOMAIN d.query, Settled(p) PROVE Settled(p)'
  BY <1>1, <1>10, <1>16, <1>22 DEF Settled
<1>23. ServerOrder'
  <2>1. ASSUME NEW m \in DOMAIN r, r[m].verdict = "none",
               NEW c \in ChainIds, NEW p \in DOMAIN d.query, Earlier(d.query, p, r[m].task, c)
        PROVE  \/ d.query[p].place = "done"
               \/ \E a \in r[m].after : p <= r[a].task /\ Earlier(d.query, r[a].task, r[m].task, c)
    <3>1. CASE m = k
      <4>1. CASE d.query[p].place # "done"
        <5>1. PICK u \in d.query[t].invoke_after : p <= u /\ Earlier(d.query, u, t, c)
          BY <4>1, <3>1, <2>1, <1>6, <1>9, <1>10 DEF Follows
        <5>2. PICK a : a = d.query[u].message_id
          OBVIOUS
        <5>3. a \in after /\ a \in DOMAIN q /\ q[a].task = u
          BY <5>2, <1>7
        <5> QED
          BY <5>1, <5>3, <3>1, <1>9, <1>10
      <4> QED
        BY <4>1
    <3>2. CASE m \in DOMAIN q
      <4>1. r[m] = q[m] /\ MessageFollows(m)
        BY <2>1, <3>2, <1>1, <1>3, <1>10 DEF ServerOrder
      <4>2. \/ d.query[p].place = "done"
            \/ \E a \in q[m].after : p <= q[a].task /\ Earlier(d.query, q[a].task, q[m].task, c)
        BY <4>1, <2>1, <1>1 DEF MessageFollows
      <4> QED
        BY <4>1, <4>2, <3>2, <1>10, <1>18
    <3> QED
      BY <3>1, <3>2, <1>10
  <2>2. ASSUME NEW m \in DOMAIN r, r[m].verdict = "OK",
               NEW c \in ChainIds, NEW p \in DOMAIN d.query, Earlier(d.query, p, r[m].task, c)
        PROVE  Settled(p)'
    <3>1. m \in DOMAIN q /\ r[m] = q[m]
      BY <2>2, <1>9, <1>10
    <3>2. Settled(p)
      BY <3>1, <2>2, <1>1, <1>3 DEF ServerOrder
    <3> QED
      BY <3>2, <1>22
  <2>3. \A m \in DOMAIN r : r[m].task \in DOMAIN d.query
    BY <1>9, <1>10, <1>18
  <2>4. ASSUME NEW m \in DOMAIN r, r[m].verdict = "none" PROVE MessageFollows(m)'
    <3>1. SUFFICES ASSUME NEW c \in ChainIds, NEW p \in DOMAIN w, Earlier(w, p, r[m].task, c)
                   PROVE  \/ w[p].place = "done"
                          \/ \E a \in r[m].after : p <= r[a].task /\ Earlier(w, r[a].task, r[m].task, c)
      BY <1>1 DEF MessageFollows
    <3>2. p \in DOMAIN d.query /\ Earlier(d.query, p, r[m].task, c)
      BY <3>1, <2>3, <1>15, <1>17
    <3>3. \/ d.query[p].place = "done"
          \/ \E a \in r[m].after : p <= r[a].task /\ Earlier(d.query, r[a].task, r[m].task, c)
      BY <3>2, <2>1, <2>4
    <3> QED
      BY <3>2, <3>3, <2>3, <1>16, <1>17
  <2>5. ASSUME NEW m \in DOMAIN r, r[m].verdict = "OK", NEW c \in ChainIds, NEW p \in DOMAIN w, Earlier(w, p, r[m].task, c)
        PROVE  Settled(p)'
    BY <2>2, <2>3, <2>5, <1>15, <1>17
  <2> QED
    BY <2>4, <2>5, <1>1 DEF ServerOrder
<1>24. ExecutedAgrees'
  <2>1. ASSUME NEW m \in DOMAIN r, r[m].verdict = "OK" PROVE \E i \in DOMAIN executed : executed[i] = r[m].task
    <3>1. m \in DOMAIN q /\ r[m] = q[m]
      BY <2>1, <1>9, <1>10
    <3> QED
      BY <3>1, <2>1, <1>1, <1>3 DEF ExecutedAgrees
  <2> QED
    BY <2>1, <1>1, <1>2, <1>3 DEF ExecutedAgrees
<1>26. Good(d)'
  BY <1>14
<1> QED
  BY <1>19, <1>20, <1>23, <1>24, <1>26 DEF MessagesGood

LEMMA SessionReturns ==
  ASSUME Good(d), NEW t \in DOMAIN d.query, connection_send_query(t),
         0 \in {d.query[p].message_id : p \in d.query[t].invoke_after}
  PROVE  \E x : d' = Put(d, t, x) /\ Leaves(t, x) /\ messages' = messages
<1>1. d \in State
  BY DEF Good, Half, SchedulerGood
<1>2. d.query[t].place = "session" /\ d.query[t].place \in InFlight
  BY DEF connection_send_query, InFlight
<1>3. d' = Returned(t, "ResendInvokeAfter") /\ messages' = messages
  BY DEF connection_send_query
<1>4. "ResendInvokeAfter" \in {"Query", "OK", "Error", "ResendInvokeAfter"}
  OBVIOUS
<1>5. PICK x : Returned(t, "ResendInvokeAfter") = Put(d, t, x) /\ Away(d.query[t], x)
               /\ x.place = "mailbox" /\ x.message_id = 0
  BY <1>1, <1>2, <1>4, ReturnedIs
<1> QED
  BY <1>2, <1>3, <1>5 DEF Leaves

-----------------------------------------------------------------------------
(* The theorems.                                                            *)

LEMMA InitGood == Init => DispatcherInvariant
<1> SUFFICES ASSUME Init PROVE DispatcherInvariant
  OBVIOUS
<1>1. /\ d.tasks_ = <<>> /\ d.chains_ = [c \in ChainIds |-> NewChainInfo] /\ d.limited_tasks_ = [c \in ChainIds |-> 0]
      /\ d.pending_tasks_ = <<>> /\ d.failed = FALSE /\ d.query = <<>> /\ messages = <<>> /\ executed = <<>>
  BY DEF Init, EmptyScheduler
<1>2. d \in State
  <2>1. NewChainInfo \in ChainInfo
    <3>1. PICK l : l = <<>>
      OBVIOUS
    <3>2. l \in Seq(Nat) /\ NewChainInfo = [chain |-> l, active_tasks |-> 0, generation |-> 1]
      BY <3>1 DEF NewChainInfo
    <3> QED
      BY <3>2 DEF ChainInfo
  <2>2. d.chains_ \in [ChainIds -> ChainInfo] /\ d.limited_tasks_ \in [ChainIds -> Nat]
    BY <2>1, <1>1
  <2>3. d.tasks_ \in Seq(Task) /\ d.pending_tasks_ \in Seq(Nat) /\ d.query \in Seq(Query) /\ d.failed \in BOOLEAN
    <3>1. \A S : <<>> \in Seq(S)
      OBVIOUS
    <3>2. d.failed \in BOOLEAN
      BY <1>1
    <3> QED
      BY <3>1, <3>2, <1>1, Zenon
  <2>4. d = [tasks_ |-> d.tasks_, chains_ |-> d.chains_, limited_tasks_ |-> d.limited_tasks_,
             pending_tasks_ |-> d.pending_tasks_, failed |-> d.failed, query |-> d.query]
    BY DEF Init
  <2> QED
    BY <2>2, <2>3, <2>4 DEF State
<1>3. DOMAIN d.tasks_ = {} /\ DOMAIN d.query = {} /\ Alive(d) = {} /\ Waiting(d) = {}
  BY <1>1 DEF Alive, Waiting
<1>4. ASSUME NEW c \in ChainIds PROVE ListGood(d, c) /\ ChainGoodIn(d, c) /\ d.limited_tasks_[c] = 0
  <2>1. d.chains_[c].chain = <<>> /\ d.chains_[c].active_tasks = 0 /\ d.chains_[c].generation = 1
    BY <1>1 DEF NewChainInfo
  <2>2. Members(d, c) = {} /\ Working(d, c) = {}
    BY <2>1 DEF Members, Working, ToSet
  <2>3. Gens(d, c) \in [Members(d, c) -> Nat]
    BY <2>2 DEF Gens
  <2>4. ChainGoodIn(d, c)
    BY <2>1, <2>2, <2>3, EmptyChain DEF ChainGoodIn
  <2>5. ListGood(d, c)
    BY <2>1, <2>2, <1>3 DEF ListGood, Increasing
  <2> QED
    BY <2>4, <2>5, <1>1
<1>5. ToSet(d.pending_tasks_) = {} /\ PendingGood(d)
  BY <1>1 DEF PendingGood, ToSet, IsInjective
<1>6. SchedulerGood(d)
  BY <1>1, <1>2, <1>3, <1>4, <1>5 DEF SchedulerGood
<1>7. Reasons(d, <<>>) /\ Placed(d, {}) /\ Ordered(d.query)
  BY <1>3 DEF Reasons, Placed, Ordered
<1>8. Good(d)
  BY <1>1, <1>6, <1>7 DEF Good, Half
<1>9. MessagesGood
  <2>1. DOMAIN messages = {} /\ DOMAIN executed = {} /\ messages \in Seq(Message) /\ executed \in Seq(Nat)
    BY <1>1
  <2> QED
    BY <2>1, <1>3 DEF MessagesGood, MessagesTyped, SentAgrees, ServerOrder, ExecutedAgrees
<1> QED
  BY <1>8, <1>9 DEF DispatcherInvariant

LEMMA NextKeeps == DispatcherInvariant /\ [Next]_vars => DispatcherInvariant'
<1> SUFFICES ASSUME Good(d), MessagesGood, [Next]_vars PROVE Good(d)' /\ MessagesGood'
  BY DEF DispatcherInvariant
<1>1. ASSUME NEW chains \in ChainSets, NEW callback \in Callbacks, NEW c \in Constructors, send(chains, callback, c)
      PROVE  Good(d)' /\ MessagesGood'
  <2>1. Good(d)' /\ Goes(d.query, d'.query)
    BY <1>1, SendKeeps
  <2>2. messages' = messages /\ executed' = executed
    BY <1>1 DEF send
  <2> QED
    BY <2>1, <2>2, GoesKeeps
<1>2. \A t \in DOMAIN d.tasks_ : t \in DOMAIN d.query
  BY DEF Good, Half, Placed
<1>3. ASSUME NEW t \in DOMAIN d.query, on_result(t) \/ on_resend_error(t) \/ on_resend_ok(t)
      PROVE  Good(d)' /\ MessagesGood'
  <2>1. Good(d)' /\ Moves(d.query, d'.query, t)
    BY <1>3, ResultKeeps, ResendKeeps
  <2>2. messages' = messages /\ executed' = executed
    BY <1>3 DEF on_result, on_resend_error, on_resend_ok
  <2>3. Goes(d.query, d'.query)
    BY <2>1, MovesGoes
  <2> QED
    BY <2>1, <2>2, <2>3, GoesKeeps
<1>4. ASSUME NEW t \in DOMAIN d.query, SessionRefuses(t) \/ Answered(t) \/ delay(t) \/ on_slot_event(t) \/ GiveBack(t)
      PROVE  Good(d)' /\ MessagesGood'
  <2>1. messages' = messages /\ executed' = executed
    BY <1>4 DEF SessionRefuses, Answered, delay, on_slot_event, GiveBack
  <2>2. d.query[t].place = "sent" \/ d.query[t].message_id = 0
    BY DEF MessagesGood, SentAgrees
  <2>3. delay(t) => d.query[t].place = "sent" /\ Delays(t)
    BY DEF delay
  <2>4. PICK x : d' = Put(d, t, x) /\ Leaves(t, x)
    BY <1>4, <2>2, <2>3, RefuseLeaves, DelayLeaves, GiveBackLeaves
  <2> QED
    BY <2>1, <2>4, LeavesKeeps
<1>5. ASSUME NEW t \in DOMAIN d.query, connection_send_query(t)
      PROVE  Good(d)' /\ MessagesGood'
  <2>1. CASE 0 \in {d.query[p].message_id : p \in d.query[t].invoke_after}
    <3>1. PICK x : d' = Put(d, t, x) /\ Leaves(t, x) /\ messages' = messages
      BY <1>5, <2>1, SessionReturns
    <3>2. executed' = executed
      BY <1>5 DEF connection_send_query
    <3> QED
      BY <3>1, <3>2, LeavesKeeps
  <2>2. CASE 0 \notin {d.query[p].message_id : p \in d.query[t].invoke_after}
    BY <1>5, <2>2, SessionSends
  <2> QED
    BY <2>1, <2>2
<1>6. ASSUME NEW m \in DOMAIN messages, Server(m) \/ Reject(m) PROVE Good(d)' /\ MessagesGood'
  BY <1>6, ServerKeeps
<1>7. CASE UNCHANGED vars
  <2>1. d' = d /\ messages' = messages /\ executed' = executed
    BY <1>7 DEF vars
  <2>2. Good(d)'
    BY <2>1
  <2>3. MessagesGood'
    BY <2>1, <2>2, MovesReflexive, MovesGoes, GoesKeeps
  <2> QED
    BY <2>2, <2>3
<1>8. ASSUME NEW kind \in Kinds, NEW c \in Constructors, send(kind[1], kind[2], c)
      PROVE  Good(d)' /\ MessagesGood'
  <2>1. kind[1] \in ChainSets /\ kind[2] \in Callbacks
    BY DispatcherAssumption
  <2> QED
    BY <2>1, <1>8, <1>1
<1> QED
  BY <1>2, <1>3, <1>4, <1>5, <1>6, <1>7, <1>8 DEF Next, Network

(* The inductive invariant holds in every state of the dispatcher, the      *)
(* session and the server: every handler, with all the tasks that it starts,*)
(* pauses, resends or finishes, keeps the chains, the counters, the reasons *)
(* to wait and the order of what was sent.                                  *)
THEOREM DispatcherInvariantHolds == Spec => []DispatcherInvariant
BY InitGood, NextKeeps, PTL DEF Spec

(* Only a step of the server adds to executed, and then everything before   *)
(* the query in its chains is over or was executed.                         *)
LEMMA ExecutedAfter ==
  ASSUME Good(d), MessagesGood, [Next]_vars, NEW t \in DOMAIN d.query, executed' = Append(executed, t),
         NEW p \in 1..(t - 1), NEW c, c \in ToSet(d.query[p].chains), c \in ToSet(d.query[t].chains)
  PROVE  p \in ToSet(executed) \/ d.query[p].place = "done"
<1>1. PICK e : e = executed
  OBVIOUS
<1>2. MessagesTyped /\ e \in Seq(Nat)
      /\ \A m \in DOMAIN messages : messages[m].verdict = "OK" => \E i \in DOMAIN e : e[i] = messages[m].task
  BY <1>1 DEF MessagesGood, ExecutedAgrees
<1>3. d \in State /\ d.query \in Seq(Query) /\ d.query[t] \in Query /\ t \in Nat /\ p \in DOMAIN d.query /\ p < t
  <2>1. d \in State
    BY DEF Good, Half, SchedulerGood
  <2>2. d.query \in Seq(Query) /\ d.query[t] \in Query
    BY <2>1, StateFields
  <2>3. DOMAIN d.query = 1..Len(d.query) /\ Len(d.query) \in Nat
    BY <2>2
  <2> QED
    BY <2>1, <2>2, <2>3
<1>4. c \in ChainIds
  <2>1. PICK l : l = d.query[t].chains
    OBVIOUS
  <2>2. l \in Seq(ChainIds)
    BY <2>1, <1>3 DEF Query
  <2> QED
    BY <2>1, <2>2 DEF ToSet
<1>5. executed' # executed
  <2>1. Append(e, t) # e
    <3>1. Len(Append(e, t)) = Len(e) + 1 /\ Len(e) \in Nat
      BY <1>2, <1>3
    <3> QED
      BY <3>1
  <2> QED
    BY <2>1, <1>1
<1>6. PICK m \in DOMAIN messages : Server(m) \/ Reject(m)
  <2>1. ASSUME NEW chains, NEW callback, NEW a, send(chains, callback, a) PROVE executed' = executed
    BY <2>1, Zenon DEF send
  <2>2. ASSUME NEW u, on_result(u) \/ on_resend_error(u) \/ on_resend_ok(u) PROVE executed' = executed
    BY <2>2, Zenon DEF on_result, on_resend_error, on_resend_ok
  <2>3. ASSUME NEW u, connection_send_query(u) \/ Answered(u) \/ delay(u) \/ on_slot_event(u) \/ SessionRefuses(u) \/ GiveBack(u)
        PROVE  executed' = executed
    BY <2>3, Zenon DEF connection_send_query, Answered, delay, on_slot_event, SessionRefuses, GiveBack
  <2> QED
    BY <2>1, <2>2, <2>3, <1>5, Zenon DEF Next, Network, vars
<1>7. PICK verdict \in {"OK", "Error", "Flood", "ResendInvokeAfter", "Lost"} :
        /\ Decide(m, verdict) /\ IF verdict = "OK" THEN Execute(m) ELSE executed' = executed
        /\ verdict = "OK" => \A a \in messages[m].after : messages[a].verdict = "OK"
  BY <1>6, ServerDecides
<1>8. verdict = "OK" /\ executed' = Append(executed, messages[m].task)
  BY <1>5, <1>7 DEF Execute
<1>9. messages[m].task = t
  <2>1. PICK u : u = messages[m].task
    OBVIOUS
  <2>2. u \in Nat
    <3>1. messages[m] \in Message
      BY <1>2 DEF MessagesTyped
    <3> QED
      BY <3>1, <2>1 DEF Message
  <2>3. Append(e, t) = Append(e, u)
    BY <2>1, <1>1, <1>8
  <2>4. Append(e, t)[Len(e) + 1] = t /\ Append(e, u)[Len(e) + 1] = u
    BY <2>2, <1>2, <1>3
  <2> QED
    BY <2>1, <2>3, <2>4
<1>10. Earlier(d.query, p, messages[m].task, c)
  BY <1>3, <1>9 DEF Earlier
<1>11. Settled(p)
  BY <1>3, <1>4, <1>7, <1>8, <1>10, DecideKeeps
<1>12. CASE d.query[p].place # "done"
  <2>1. PICK k \in DOMAIN messages : messages[k].task = p /\ messages[k].verdict = "OK"
    BY <1>11, <1>12 DEF Settled
  <2>2. PICK i \in DOMAIN e : e[i] = p
    BY <2>1, <1>2
  <2> QED
    BY <2>2, <1>1 DEF ToSet
<1> QED
  BY <1>12

(* When the server executes a query, every earlier query of its chains has  *)
(* been executed before or is over, for every number of chains, queries and *)
(* faults, and also when the session gives back or sends again what was     *)
(* already executed.                                                        *)
THEOREM ChainOrderHolds == Spec => ChainOrder
<1>1. ASSUME DispatcherInvariant, [Next]_vars
      PROVE  [\A t \in DOMAIN d.query : executed' = Append(executed, t) =>
                \A p \in 1..(t - 1) :
                  \/ ToSet(d.query[p].chains) \cap ToSet(d.query[t].chains) = {}
                  \/ p \in ToSet(executed)
                  \/ d.query[p].place = "done"]_vars
  <2>1. SUFFICES ASSUME NEW t \in DOMAIN d.query, executed' = Append(executed, t), NEW p \in 1..(t - 1),
                        ToSet(d.query[p].chains) \cap ToSet(d.query[t].chains) # {}
                 PROVE  p \in ToSet(executed) \/ d.query[p].place = "done"
    OBVIOUS
  <2>2. PICK c : c \in ToSet(d.query[p].chains) /\ c \in ToSet(d.query[t].chains)
    BY <2>1
  <2> QED
    BY <2>1, <2>2, <1>1, ExecutedAfter DEF DispatcherInvariant
<1> QED
  BY <1>1, DispatcherInvariantHolds, PTL DEF Spec, ChainOrder

(* Between two handlers nothing that could be started is left: a task that  *)
(* waits does so for the one before it, or is the one that its full chain   *)
(* remembers.                                                               *)
THEOREM NothingForgottenHolds == Spec => []NothingForgotten
<1>1. DispatcherInvariant => NothingForgotten
  <2> SUFFICES ASSUME Good(d) PROVE NothingForgotten
    BY DEF DispatcherInvariant
  <2>1. d.pending_tasks_ = <<>> /\ Reasons(d, <<>>) /\ d \in State
    BY DEF Good, Half, SchedulerGood
  <2>2. ASSUME NEW t \in Alive(d), d.tasks_[t].state = "Pending"
        PROVE  \E c \in InChain(d, t) :
                 Verdict(d, t, c) = "wait" \/ (Verdict(d, t, c) = "limited" /\ d.limited_tasks_[c] # 0)
    <3>1. PICK c \in InChain(d, t) : Held(d, t, c)
      BY <2>1, <2>2, NoTodo DEF Waiting
    <3>2. t # 0
      BY <2>1, StateFields DEF Alive
    <3> QED
      BY <3>1, <3>2 DEF Held
  <2> QED
    BY <2>1, <2>2 DEF NothingForgotten
<1> QED
  BY <1>1, DispatcherInvariantHolds, PTL

(* No CHECK of start_next_task, try_start_task and flush_pending_queries    *)
(* fails, and the counters of a chain are those of its tasks.               *)
THEOREM ChecksHoldAlways == Spec => []ChecksHold
<1>1. DispatcherInvariant => ChecksHold
  <2> SUFFICES ASSUME Good(d) PROVE ChecksHold
    BY DEF DispatcherInvariant
  <2>1. ~d.failed /\ \A c \in ChainIds : ChainGoodIn(d, c)
    BY DEF Good, Half, SchedulerGood
  <2>2. ASSUME NEW c \in ChainIds
        PROVE  /\ d.chains_[c].active_tasks = Cardinality({t \in ToSet(d.chains_[c].chain) : d.tasks_[t].state = "Active"})
               /\ d.chains_[c].active_tasks <= MaxActive
               /\ \A t \in ToSet(d.chains_[c].chain) : d.tasks_[t].generation[c] <= d.chains_[c].generation
    <3>1. ChainGood(Members(d, c), Working(d, c), Gens(d, c), d.chains_[c].generation, d.chains_[c].active_tasks)
      BY <2>1 DEF ChainGoodIn
    <3>2. /\ d.chains_[c].active_tasks = Cardinality(Working(d, c)) /\ d.chains_[c].active_tasks <= MaxActive
          /\ \A t \in Members(d, c) : Gens(d, c)[t] <= d.chains_[c].generation
      BY <3>1 DEF ChainGood
    <3> QED
      BY <3>2 DEF Working, Members, Gens
  <2> QED
    BY <2>1, <2>2 DEF ChecksHold, CountersAgree
<1> QED
  BY <1>1, DispatcherInvariantHolds, PTL
=============================================================================
