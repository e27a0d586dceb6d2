------------------------ MODULE BinlogKeyValueProofs ------------------------
(***************************************************************************)
(* BinlogKeyValue for every set of threads, keys and values and every      *)
(* bound: whatever prefix of the log survives a crash, loading it gives    *)
(* the map after the last operation in it.                                 *)
(***************************************************************************)
EXTENDS BinlogKeyValue, BinlogLemmas

-----------------------------------------------------------------------------
(* Maps and the events that stand for them.                                 *)

Pairs == Keys \X Values

Maps ==
  {m \in [Keys -> [value : Values \cup {0}, id : Nat]] :
     \A k \in Keys : IF m[k].id = 0 THEN m[k] = Absent ELSE m[k].value \in Values}

(* The live events that a map refers to, as Contents shows them.            *)
ContentsOf(m) == {<<m[k].id, <<k, m[k].value>>>> : k \in Present(m)}

Views == SUBSET Pairs

LEMMA MapValues ==
  ASSUME NEW m \in Maps, NEW k \in Keys
  PROVE  /\ m[k].id \in Nat
         /\ m[k] = [value |-> m[k].value, id |-> m[k].id]
         /\ m[k].id = 0 => m[k] = Absent
         /\ m[k].id # 0 => m[k].value \in Values
         /\ DOMAIN m = Keys
BY DEF Maps

-----------------------------------------------------------------------------
(* Load.                                                                    *)

(* Step i of the loop over the live events.                                 *)
Loaded(alive, i, before) ==
  IF i = 0 THEN [k \in Keys |-> Absent]
  ELSE [before EXCEPT ![alive[i].val[1]] = [value |-> alive[i].val[2], id |-> alive[i].id]]

LEMMA LoadedExists ==
  ASSUME NEW alive, NEW n \in Nat
  PROVE  \E g : g = [i \in 0..n |-> Loaded(alive, i, g[i - 1])]
<1> DEFINE Bad == {k \in Nat : ~ \E g : g = [i \in 0..k |-> Loaded(alive, i, g[i - 1])]}
<1>1. SUFFICES ASSUME Bad # {} PROVE FALSE
  OBVIOUS
<1>2. PICK k \in Bad : \A y \in Bad : k <= y
  BY <1>1, LeastNumber
<1>3. CASE k = 0
  <2> DEFINE g == [i \in 0..0 |-> [x \in Keys |-> Absent]]
  <2>1. g = [i \in 0..0 |-> Loaded(alive, i, g[i - 1])]
    BY DEF Loaded
  <2> QED
    BY <1>2, <1>3, <2>1
<1>4. CASE k # 0
  <2>1. k - 1 \in Nat /\ k - 1 \notin Bad
    BY <1>2, <1>4
  <2>2. PICK g : g = [i \in 0..(k - 1) |-> Loaded(alive, i, g[i - 1])]
    BY <2>1
  <2> DEFINE h == [i \in 0..k |-> IF i = k THEN Loaded(alive, k, g[k - 1]) ELSE g[i]]
  <2>3. ASSUME NEW i \in 0..k
        PROVE  h[i] = Loaded(alive, i, h[i - 1])
    <3>1. CASE i = k
      BY <3>1, <1>4
    <3>2. CASE i # k /\ i # 0
      <4>1. i \in 0..(k - 1) /\ i - 1 \in 0..k /\ i - 1 # k
        BY <3>2
      <4> QED
        BY <4>1, <2>2
    <3>3. CASE i # k /\ i = 0
      <4>1. i \in 0..(k - 1)
        BY <3>3
      <4>2. h[i] = Loaded(alive, i, g[i - 1])
        BY <3>3, <4>1, <2>2
      <4> QED
        BY <4>2, <3>3 DEF Loaded
    <3> QED
      BY <3>1, <3>2, <3>3
  <2>4. h = [i \in 0..k |-> Loaded(alive, i, h[i - 1])]
    BY <2>3
  <2> QED
    BY <1>2, <2>4
<1> QED
  BY <1>3, <1>4

(* Loading a log whose live events stand for a map gives that map.          *)
LEMMA LoadGivesMap ==
  ASSUME NEW s, NEW m \in Maps, Agree(Replay(s), Pairs), Contents(Replay(s)) = ContentsOf(m)
  PROVE  Load(s) = m
<1> DEFINE alive == for_each(Replay(s))
           n == Len(alive)
           f == CHOOSE g : g = [i \in 0..n |-> Loaded(alive, i, g[i - 1])]
<1>1. Load(s) = f[n]
  BY DEF Load, Loaded
<1>2. /\ alive \in Seq(Data(Pairs))
      /\ Contents(Replay(s)) = {<<alive[j].id, alive[j].val>> : j \in 1..n}
  BY ForEachIncreases
<1>3. n \in Nat
  BY <1>2
<1>4. f = [i \in 0..n |-> Loaded(alive, i, f[i - 1])]
  BY <1>3, LoadedExists
<1> HIDE DEF f, alive, n
<1> DEFINE K(j) == alive[j].val[1]
           Seen(i) == {K(j) : j \in 1..i}
           Good(i) == f[i] = [k \in Keys |-> IF k \in Seen(i) THEN m[k] ELSE Absent]
           Bad == {i \in 0..n : ~Good(i)}
<1>5. ASSUME NEW j \in 1..n
      PROVE  /\ K(j) \in Keys /\ K(j) \in Present(m)
             /\ [value |-> alive[j].val[2], id |-> alive[j].id] = m[K(j)]
  <2>1. <<alive[j].id, alive[j].val>> \in ContentsOf(m)
    BY <1>2
  <2>2. PICK k \in Present(m) : <<alive[j].id, alive[j].val>> = <<m[k].id, <<k, m[k].value>>>>
    BY <2>1 DEF ContentsOf
  <2>3. alive[j].id = m[k].id /\ alive[j].val = <<k, m[k].value>>
    BY <2>2
  <2>4. alive[j].val[1] = k /\ alive[j].val[2] = m[k].value
    BY <2>3
  <2>5. k \in Keys
    BY DEF Present
  <2> QED
    BY <2>3, <2>4, <2>5, MapValues
<1>6. Good(0)
  BY <1>3, <1>4 DEF Loaded
<1>7. ASSUME NEW i \in 1..n, Good(i - 1)
      PROVE  Good(i)
  <2>1. i \in 0..n /\ i # 0 /\ i - 1 \in 0..n
    BY <1>3
  <2>2. f[i] = [f[i - 1] EXCEPT ![K(i)] = m[K(i)]]
    BY <1>4, <1>5, <2>1 DEF Loaded
  <2>3. Seen(i) = Seen(i - 1) \cup {K(i)}
    <3>1. 1..i = (1..(i - 1)) \cup {i}
      BY <1>3
    <3> HIDE DEF K
    <3> QED
      BY <3>1
  <2>4. K(i) \in Keys
    BY <1>5
  <2> HIDE DEF Seen, K
  <2> QED
    BY <1>7, <2>2, <2>3, <2>4
<1> HIDE DEF Good
<1>8. Bad = {}
  <2>1. SUFFICES ASSUME Bad # {} PROVE FALSE
    OBVIOUS
  <2>2. Bad \subseteq Nat
    BY <1>3
  <2>3. PICK k \in Bad : \A y \in Bad : k <= y
    BY <2>1, <2>2, LeastNumber
  <2>4. k # 0
    BY <1>6, <2>3
  <2>5. k \in 1..n /\ k - 1 \in 0..n /\ k - 1 \notin Bad
    BY <1>3, <2>3, <2>4
  <2> QED
    BY <1>7, <2>3, <2>5
<1>9. Good(n)
  BY <1>3, <1>8
<1>10. ASSUME NEW k \in Keys
       PROVE  k \in Seen(n) <=> m[k].id # 0
  <2>1. ASSUME m[k].id # 0 PROVE k \in Seen(n)
    <3>1. <<m[k].id, <<k, m[k].value>>>> \in ContentsOf(m)
      BY <2>1 DEF ContentsOf, Present
    <3>2. PICK j \in 1..n : <<m[k].id, <<k, m[k].value>>>> = <<alive[j].id, alive[j].val>>
      BY <1>2, <3>1
    <3>3. alive[j].val = <<k, m[k].value>>
      BY <3>2
    <3>4. K(j) = k
      BY <3>3
    <3> QED
      BY <3>4
  <2>2. ASSUME k \in Seen(n) PROVE m[k].id # 0
    BY <1>5, <2>2 DEF Present
  <2> QED
    BY <2>1, <2>2
<1>11. [k \in Keys |-> IF k \in Seen(n) THEN m[k] ELSE Absent] = m
  <2> HIDE DEF Seen
  <2>1. m = [k \in Keys |-> m[k]]
    BY DEF Maps
  <2>2. \A k \in Keys : m[k].id = 0 => m[k] = Absent
    BY MapValues
  <2> QED
    BY <1>10, <2>1, <2>2
<1> QED
  BY <1>1, <1>9, <1>11 DEF Good

-----------------------------------------------------------------------------
(* A log s that leads to the map m through the views o.                     *)

LogEvents == [type : {"data", "empty"}, id : Nat, val : Pairs \cup {0}, rewrite : BOOLEAN]

(* The first n events are accepted up to there and stand for a map whose    *)
(* view is the n-th one.                                                    *)
Recovers(s, o, n) ==
  /\ Agree(Replay(SubSeq(s, 1, n)), Pairs)
  /\ \E x \in Maps : /\ Contents(Replay(SubSeq(s, 1, n))) = ContentsOf(x)
                     /\ n > 0 => View(x) = o[n]
  /\ n > 0 => ~Refused(Replay(SubSeq(s, 1, n - 1)), s[n])

Tracked(s, o, m) ==
  /\ s \in Seq(LogEvents) /\ o \in Seq(Views) /\ Len(o) = Len(s) /\ m \in Maps
  /\ \A n \in 0..Len(s) : Recovers(s, o, n)
  /\ Contents(Replay(s)) = ContentsOf(m)

LEMMA ViewOfMap ==
  ASSUME NEW m \in Maps
  PROVE  View(m) \in Views
<1> SUFFICES ASSUME NEW c \in View(m) PROVE c \in Pairs
  BY DEF Views
<1>1. PICK k \in Present(m) : c = <<k, m[k].value>>
  BY DEF View
<1>2. k \in Keys /\ m[k].value \in Values
  BY MapValues DEF Present
<1> QED
  BY <1>1, <1>2 DEF Pairs

LEMMA TrackedFacts ==
  ASSUME NEW s, NEW o, NEW m, Tracked(s, o, m)
  PROVE  /\ s \in Seq(LogEvents) /\ o \in Seq(Views) /\ m \in Maps
         /\ Len(s) \in Nat /\ Len(o) = Len(s)
         /\ Agree(Replay(s), Pairs) /\ Contents(Replay(s)) = ContentsOf(m)
         /\ Replay(s).last_event_id_ \in Nat
         /\ Load(s) = m
<1>1. /\ s \in Seq(LogEvents) /\ o \in Seq(Views) /\ m \in Maps
      /\ Len(s) \in Nat /\ Len(o) = Len(s) /\ Contents(Replay(s)) = ContentsOf(m)
  BY DEF Tracked
<1>2. SubSeq(s, 1, Len(s)) = s /\ Len(s) \in 0..Len(s)
  BY <1>1
<1>3. Agree(Replay(s), Pairs)
  BY <1>2 DEF Tracked, Recovers
<1>4. Replay(s).last_event_id_ \in Nat
  BY <1>3, TypedFields DEF Agree
<1> QED
  BY <1>1, <1>3, <1>4, LoadGivesMap

(* An empty log leads to an empty map.                                      *)
LEMMA TrackedEmpty == Tracked(<<>>, <<>>, [k \in Keys |-> Absent])
<1> DEFINE m == [k \in Keys |-> Absent]
           s == <<>>
<1>1. m \in Maps
  BY DEF Maps, Absent
<1>2. ContentsOf(m) = {}
  BY DEF ContentsOf, Present, Absent
<1>3. s \in Seq(LogEvents) /\ s \in Seq(Views) /\ Len(s) = 0 /\ SubSeq(s, 1, 0) = s
  OBVIOUS
<1>4. Replay(s) = EmptyProcessor
  BY <1>3, ReplayProperties
<1>5. Agree(Replay(s), Pairs) /\ Contents(Replay(s)) = {}
  BY <1>4, EmptyAgrees
<1> HIDE DEF m, s
<1>6. \A n \in 0..0 : n = 0
  OBVIOUS
<1>7. Recovers(s, s, 0)
  <2>1. Contents(Replay(SubSeq(s, 1, 0))) = ContentsOf(m)
    BY <1>2, <1>3, <1>5
  <2>2. Agree(Replay(SubSeq(s, 1, 0)), Pairs)
    BY <1>3, <1>5
  <2>3. ~(0 > 0)
    OBVIOUS
  <2> QED
    BY <1>1, <2>1, <2>2, <2>3 DEF Recovers
<1>8. Tracked(s, s, m)
  BY <1>1, <1>2, <1>3, <1>5, <1>6, <1>7 DEF Tracked
<1> QED
  BY <1>8 DEF m, s

(* One more event.                                                          *)
LEMMA TrackedAppend ==
  ASSUME NEW s, NEW o, NEW m, Tracked(s, o, m), NEW e \in LogEvents, NEW x \in Maps,
         ~Refused(Replay(s), e),
         Agree(do_event(Replay(s), e), Pairs),
         Contents(do_event(Replay(s), e)) = ContentsOf(x)
  PROVE  /\ Tracked(Append(s, e), Append(o, View(x)), x)
         /\ Replay(Append(s, e)) = do_event(Replay(s), e)
<1> DEFINE t == Append(s, e)
           u == Append(o, View(x))
           n == Len(s)
<1>1. s \in Seq(LogEvents) /\ o \in Seq(Views) /\ n \in Nat /\ Len(o) = n
  BY TrackedFacts
<1>2. View(x) \in Views
  BY ViewOfMap
<1>3. /\ t \in Seq(LogEvents) /\ Len(t) = n + 1 /\ t[n + 1] = e
      /\ \A i \in 1..n : t[i] = s[i]
  BY <1>1
<1>4. /\ u \in Seq(Views) /\ Len(u) = n + 1 /\ u[n + 1] = View(x)
      /\ \A i \in 1..n : u[i] = o[i]
  BY <1>1, <1>2
<1>5. \A i \in 0..n : SubSeq(t, 1, i) = SubSeq(s, 1, i)
  BY <1>1, <1>3
<1>6. SubSeq(s, 1, n) = s /\ SubSeq(t, 1, n + 1) = t
  BY <1>1, <1>3
<1> HIDE DEF t, u, n
<1>7. Replay(t) = do_event(Replay(s), e)
  <2>1. n + 1 \in 1..Len(t) /\ (n + 1) - 1 = n /\ n \in 0..n
    BY <1>1, <1>3
  <2>2. Replay(SubSeq(t, 1, n + 1)) = do_event(Replay(SubSeq(t, 1, (n + 1) - 1)), t[n + 1])
    BY <1>3, <2>1, ReplayProperties
  <2>3. SubSeq(t, 1, (n + 1) - 1) = s
    BY <1>5, <1>6, <2>1
  <2> QED
    BY <1>3, <1>6, <2>2, <2>3
<1>8. ASSUME NEW i \in 0..n
      PROVE  Recovers(t, u, i)
  <2>1. Recovers(s, o, i)
    BY DEF Tracked, n
  <2>2. i > 0 => i \in 1..n /\ i - 1 \in 0..n
    BY <1>1
  <2>3. SubSeq(t, 1, i) = SubSeq(s, 1, i) /\ (i > 0 => SubSeq(t, 1, i - 1) = SubSeq(s, 1, i - 1))
    BY <1>5, <2>2
  <2>4. i > 0 => t[i] = s[i] /\ u[i] = o[i]
    BY <1>3, <1>4, <2>2
  <2> QED
    BY <2>1, <2>3, <2>4 DEF Recovers
<1>9. Recovers(t, u, n + 1)
  <2>1. n + 1 > 0 /\ (n + 1) - 1 = n /\ n \in 0..n
    BY <1>1
  <2>2. SubSeq(t, 1, (n + 1) - 1) = s
    BY <1>5, <1>6, <2>1
  <2> QED
    BY <1>3, <1>4, <1>6, <1>7, <2>1, <2>2 DEF Recovers
<1>10. \A i \in 0..Len(t) : Recovers(t, u, i)
  <2>1. \A i \in 0..Len(t) : i \in 0..n \/ i = n + 1
    BY <1>1, <1>3
  <2> QED
    BY <1>8, <1>9, <2>1
<1>11. Tracked(t, u, x)
  BY <1>3, <1>4, <1>7, <1>10 DEF Tracked
<1> QED
  BY <1>7, <1>11 DEF t, u

(* A prefix leads to the map that loading it gives.                         *)
LEMMA TrackedPrefix ==
  ASSUME NEW s, NEW o, NEW m, Tracked(s, o, m), NEW n \in 0..Len(s)
  PROVE  /\ Tracked(SubSeq(s, 1, n), SubSeq(o, 1, n), Load(SubSeq(s, 1, n)))
         /\ n > 0 => View(Load(SubSeq(s, 1, n))) = o[n]
<1> DEFINE t == SubSeq(s, 1, n)
           u == SubSeq(o, 1, n)
<1>1. s \in Seq(LogEvents) /\ o \in Seq(Views) /\ Len(s) \in Nat /\ Len(o) = Len(s)
  BY TrackedFacts
<1>2. /\ t \in Seq(LogEvents) /\ Len(t) = n /\ \A i \in 1..n : t[i] = s[i]
      /\ u \in Seq(Views) /\ Len(u) = n /\ \A i \in 1..n : u[i] = o[i]
  BY <1>1
<1>3. \A i \in 0..n : SubSeq(t, 1, i) = SubSeq(s, 1, i)
  BY <1>1, <1>2
<1> HIDE DEF t, u
<1>4. PICK x \in Maps : /\ Contents(Replay(t)) = ContentsOf(x)
                        /\ n > 0 => View(x) = o[n]
  BY DEF Tracked, Recovers, t
<1>5. Agree(Replay(t), Pairs)
  BY DEF Tracked, Recovers, t
<1>6. Load(t) = x
  BY <1>4, <1>5, LoadGivesMap
<1>7. ASSUME NEW i \in 0..n
      PROVE  Recovers(t, u, i)
  <2>1. Recovers(s, o, i)
    BY <1>1 DEF Tracked
  <2>2. i > 0 => i \in 1..n /\ i - 1 \in 0..n
    BY <1>1
  <2>3. SubSeq(t, 1, i) = SubSeq(s, 1, i) /\ (i > 0 => SubSeq(t, 1, i - 1) = SubSeq(s, 1, i - 1))
    BY <1>3, <2>2
  <2>4. i > 0 => t[i] = s[i] /\ u[i] = o[i]
    BY <1>2, <2>2
  <2> QED
    BY <2>1, <2>3, <2>4 DEF Recovers
<1>8. Tracked(t, u, x)
  BY <1>2, <1>4, <1>7 DEF Tracked
<1> QED
  BY <1>4, <1>6, <1>8 DEF t, u

-----------------------------------------------------------------------------
(* What one event of a writer does to a tracked log.                        *)

(* The live event of a key.                                                 *)
LEMMA LiveOfKey ==
  ASSUME NEW p, NEW m \in Maps, Agree(p, Pairs), Contents(p) = ContentsOf(m), NEW k \in Present(m)
  PROVE  \E i \in Alive(p) : p.events_[i].id = m[k].id /\ p.events_[i].val = <<k, m[k].value>>
<1> DEFINE c == <<m[k].id, <<k, m[k].value>>>>
<1>1. c \in Contents(p)
  BY DEF ContentsOf
<1>2. c[1] = m[k].id /\ c[2] = <<k, m[k].value>>
  OBVIOUS
<1> HIDE DEF c
<1> QED
  BY <1>1, <1>2, LiveOfContents

(* The keys of a map refer to different events.                             *)
LEMMA KeysHaveOwnEvents ==
  ASSUME NEW p, NEW m \in Maps, Agree(p, Pairs), Contents(p) = ContentsOf(m),
         NEW k \in Present(m), NEW l \in Present(m), m[k].id = m[l].id
  PROVE  k = l
<1>1. PICK i \in Alive(p) : p.events_[i].id = m[k].id /\ p.events_[i].val = <<k, m[k].value>>
  BY LiveOfKey
<1>2. PICK j \in Alive(p) : p.events_[j].id = m[l].id /\ p.events_[j].val = <<l, m[l].value>>
  BY LiveOfKey
<1>3. i = j
  BY <1>1, <1>2, LiveIdsDiffer
<1>4. <<k, m[k].value>> = <<l, m[l].value>>
  BY <1>1, <1>2, <1>3
<1> QED
  BY <1>4

(* The contents without the event of a key.                                 *)
LEMMA ContentsWithout ==
  ASSUME NEW p, NEW m \in Maps, Agree(p, Pairs), Contents(p) = ContentsOf(m), NEW k \in Present(m)
  PROVE  {c \in ContentsOf(m) : c[1] # m[k].id} =
           {<<m[l].id, <<l, m[l].value>>>> : l \in Present(m) \ {k}}
<1> DEFINE A(l) == <<m[l].id, <<l, m[l].value>>>>
<1>1. ASSUME NEW l \in Present(m)
      PROVE  A(l)[1] # m[k].id <=> l # k
  BY KeysHaveOwnEvents
<1>2. ContentsOf(m) = {A(l) : l \in Present(m)}
  BY DEF ContentsOf
<1> HIDE DEF A
<1>3. {c \in ContentsOf(m) : c[1] # m[k].id} = {A(l) : l \in Present(m) \ {k}}
  BY <1>1, <1>2
<1> QED
  BY <1>3 DEF A

(* set.                                                                     *)
LEMMA TrackedSet ==
  ASSUME NEW s, NEW o, NEW m, Tracked(s, o, m), NEW k \in Keys, NEW v \in Values,
         NEW next \in Nat, Replay(s).last_event_id_ < next,
         NEW id, id = IF m[k].id # 0 THEN m[k].id ELSE next,
         NEW e, e = Event("data", id, <<k, v>>, m[k].id # 0),
         NEW x, x = [m EXCEPT ![k] = [value |-> v, id |-> id]]
  PROVE  /\ Tracked(Append(s, e), Append(o, View(x)), x)
         /\ Replay(Append(s, e)).last_event_id_ < next + 1
<1> DEFINE p == Replay(s)
           A(y, l) == <<y[l].id, <<l, y[l].value>>>>
<1>1. /\ m \in Maps /\ Agree(p, Pairs) /\ Contents(p) = ContentsOf(m)
      /\ p.last_event_id_ \in Nat
  BY TrackedFacts
<1>2. m[k].id \in Nat /\ DOMAIN m = Keys
  BY <1>1, MapValues
<1>3. id \in Nat /\ id # 0
  BY <1>1, <1>2
<1>4. /\ e \in Data(Pairs) /\ e \in LogEvents /\ e.id = id /\ e.val = <<k, v>>
      /\ e.rewrite = (m[k].id # 0) /\ e.type = "data"
  BY <1>3 DEF Event, Data, LogEvents, Pairs
<1>5. x \in Maps
  <2>1. m \in [Keys -> [value : Values \cup {0}, id : Nat]]
    BY <1>1 DEF Maps
  <2>2. x \in [Keys -> [value : Values \cup {0}, id : Nat]]
    BY <1>3, <2>1
  <2>3. x[k].id = id /\ x[k].value = v /\ \A l \in Keys : l # k => x[l] = m[l]
    BY <2>1
  <2>4. ASSUME NEW l \in Keys
        PROVE  IF x[l].id = 0 THEN x[l] = Absent ELSE x[l].value \in Values
    <3>1. CASE l = k
      BY <1>3, <2>3, <3>1
    <3>2. CASE l # k
      BY <1>1, <2>3, <3>2 DEF Maps
    <3> QED
      BY <3>1, <3>2
  <2> QED
    BY <2>2, <2>4 DEF Maps
<1>6. /\ x[k] = [value |-> v, id |-> id]
      /\ \A l \in Keys : l # k => x[l] = m[l]
  BY <1>2
<1>7. Present(x) = Present(m) \cup {k}
  BY <1>3, <1>6 DEF Present
<1>8. A(x, k) = <<e.id, e.val>>
  BY <1>4, <1>6
<1>9. \A l \in Present(m) \ {k} : A(x, l) = A(m, l)
  BY <1>6 DEF Present
<1>10. ContentsOf(x) = {A(m, l) : l \in Present(m) \ {k}} \cup {<<e.id, e.val>>}
  <2>1. ContentsOf(x) = {A(x, l) : l \in Present(x)}
    BY DEF ContentsOf
  <2> DEFINE z == <<e.id, e.val>>
  <2>2. Present(x) = (Present(m) \ {k}) \cup {k}
    BY <1>7
  <2>3. A(x, k) = z
    BY <1>8
  <2> HIDE DEF A, z
  <2>4. {A(x, l) : l \in (Present(m) \ {k}) \cup {k}} = {A(m, l) : l \in Present(m) \ {k}} \cup {z}
    BY <1>9, <2>3
  <2> QED
    BY <2>1, <2>2, <2>4 DEF z
<1> HIDE DEF p
<1>11. CASE m[k].id # 0
  <2>1. k \in Present(m) /\ e.rewrite /\ id = m[k].id
    BY <1>4, <1>11 DEF Present
  <2>2. PICK i \in Alive(p) : p.events_[i].id = m[k].id
    BY <1>1, <2>1, LiveOfKey
  <2>3. /\ ~Refused(p, e) /\ Agree(do_event(p, e), Pairs)
        /\ Contents(do_event(p, e)) = {c \in Contents(p) : c[1] # e.id} \cup {<<e.id, e.val>>}
        /\ do_event(p, e).last_event_id_ = p.last_event_id_
    BY <1>1, <1>4, <2>1, <2>2, DoEventRewrite
  <2>4. {c \in Contents(p) : c[1] # e.id} = {A(m, l) : l \in Present(m) \ {k}}
    BY <1>1, <1>4, <2>1, ContentsWithout
  <2>5. Contents(do_event(p, e)) = ContentsOf(x)
    BY <1>10, <2>3, <2>4
  <2>6. /\ Tracked(Append(s, e), Append(o, View(x)), x)
        /\ Replay(Append(s, e)) = do_event(p, e)
    BY <1>4, <1>5, <2>3, <2>5, TrackedAppend DEF p
  <2> QED
    BY <1>1, <2>3, <2>6 DEF p
<1>12. CASE m[k].id = 0
  <2>1. k \notin Present(m) /\ id = next
    BY <1>12 DEF Present
  <2>2. e.id > p.last_event_id_
    BY <1>1, <1>4, <2>1 DEF p
  <2>3. /\ ~Refused(p, e) /\ Agree(do_event(p, e), Pairs)
        /\ Contents(do_event(p, e)) = Contents(p) \cup {<<e.id, e.val>>}
        /\ do_event(p, e).last_event_id_ = e.id
    BY <1>1, <1>4, <2>2, DoEventNew
  <2>4. Contents(do_event(p, e)) = ContentsOf(x)
    <3>1. Present(m) \ {k} = Present(m)
      BY <2>1
    <3>2. ContentsOf(m) = {A(m, l) : l \in Present(m)}
      BY DEF ContentsOf
    <3> QED
      BY <1>1, <1>10, <2>3, <3>1, <3>2
  <2>5. /\ Tracked(Append(s, e), Append(o, View(x)), x)
        /\ Replay(Append(s, e)) = do_event(p, e)
    BY <1>4, <1>5, <2>3, <2>4, TrackedAppend DEF p
  <2> QED
    BY <1>4, <2>1, <2>3, <2>5
<1> QED
  BY <1>11, <1>12

(* The erase of one key.                                                    *)
LEMMA TrackedErase ==
  ASSUME NEW s, NEW o, NEW m, Tracked(s, o, m), NEW k \in Present(m),
         NEW e, e = EraseEvent(m[k].id), NEW x, x = Without(m, {k})
  PROVE  /\ Tracked(Append(s, e), Append(o, View(x)), x)
         /\ Replay(Append(s, e)).last_event_id_ = Replay(s).last_event_id_
<1> DEFINE p == Replay(s)
           A(y, l) == <<y[l].id, <<l, y[l].value>>>>
<1>1. m \in Maps /\ Agree(p, Pairs) /\ Contents(p) = ContentsOf(m) /\ k \in Keys
  BY TrackedFacts DEF Present
<1>2. m[k].id \in Nat
  BY <1>1, MapValues
<1>3. e \in LogEvents /\ e.id = m[k].id /\ e.type = "empty" /\ e.rewrite
  BY <1>2 DEF EraseEvent, Event, LogEvents
<1>4. x = [l \in Keys |-> IF l = k THEN Absent ELSE m[l]]
  BY DEF Without
<1>5. x \in Maps
  <2>1. m \in [Keys -> [value : Values \cup {0}, id : Nat]]
    BY <1>1 DEF Maps
  <2>2. Absent \in [value : Values \cup {0}, id : Nat] /\ Absent.id = 0
    BY DEF Absent
  <2>3. x \in [Keys -> [value : Values \cup {0}, id : Nat]]
    BY <1>4, <2>1, <2>2
  <2>4. ASSUME NEW l \in Keys
        PROVE  IF x[l].id = 0 THEN x[l] = Absent ELSE x[l].value \in Values
    <3>1. CASE l = k
      BY <1>4, <2>2, <3>1
    <3>2. CASE l # k
      BY <1>1, <1>4, <3>2 DEF Maps
    <3> QED
      BY <3>1, <3>2
  <2> QED
    BY <2>3, <2>4 DEF Maps
<1>6. Present(x) = Present(m) \ {k}
  BY <1>4 DEF Present, Absent
<1>7. ContentsOf(x) = {A(m, l) : l \in Present(m) \ {k}}
  <2>1. \A l \in Present(m) \ {k} : x[l] = m[l]
    BY <1>4 DEF Present
  <2>2. \A l \in Present(m) \ {k} : A(x, l) = A(m, l)
    BY <2>1
  <2>3. ContentsOf(x) = {A(x, l) : l \in Present(x)}
    BY DEF ContentsOf
  <2> HIDE DEF A
  <2> QED
    BY <1>6, <2>2, <2>3
<1> HIDE DEF p
<1>8. PICK i \in Alive(p) : p.events_[i].id = m[k].id
  BY <1>1, LiveOfKey
<1>9. /\ ~Refused(p, e) /\ Agree(do_event(p, e), Pairs)
      /\ Contents(do_event(p, e)) = {c \in Contents(p) : c[1] # e.id}
      /\ do_event(p, e).last_event_id_ = p.last_event_id_
  BY <1>1, <1>3, <1>8, DoEventErase
<1>10. Contents(do_event(p, e)) = ContentsOf(x)
  BY <1>1, <1>3, <1>7, <1>9, ContentsWithout
<1>11. /\ Tracked(Append(s, e), Append(o, View(x)), x)
       /\ Replay(Append(s, e)) = do_event(p, e)
  BY <1>3, <1>5, <1>9, <1>10, TrackedAppend DEF p
<1> QED
  BY <1>9, <1>11 DEF p

(* A map without some keys.                                                 *)
LEMMA WithoutIsMap ==
  ASSUME NEW m \in Maps, NEW S
  PROVE  /\ Without(m, S) \in Maps
         /\ Without(m, {}) = m
<1>1. m = [l \in Keys |-> m[l]]
  BY DEF Maps
<1>2. Without(m, {}) = m
  BY <1>1 DEF Without
<1>3. Without(m, S) \in Maps
  <2>1. m \in [Keys -> [value : Values \cup {0}, id : Nat]]
    BY DEF Maps
  <2>2. Absent \in [value : Values \cup {0}, id : Nat] /\ Absent.id = 0
    BY DEF Absent
  <2>3. Without(m, S) \in [Keys -> [value : Values \cup {0}, id : Nat]]
    BY <2>1, <2>2 DEF Without
  <2>4. ASSUME NEW l \in Keys
        PROVE  LET x == Without(m, S)
               IN  IF x[l].id = 0 THEN x[l] = Absent ELSE x[l].value \in Values
    <3>1. CASE l \in S
      BY <2>2, <3>1 DEF Without
    <3>2. CASE l \notin S
      BY <3>2 DEF Without, Maps
    <3> QED
      BY <3>1, <3>2
  <2> QED
    BY <2>3, <2>4 DEF Maps
<1> QED
  BY <1>2, <1>3

LEMMA ConcatAppend ==
  ASSUME NEW S, NEW s \in Seq(S), NEW t \in Seq(S), NEW e \in S
  PROVE  s \o Append(t, e) = Append(s \o t, e)
<1>1. /\ s \o Append(t, e) \in Seq(S) /\ Append(s \o t, e) \in Seq(S)
      /\ Len(s \o Append(t, e)) = Len(s) + Len(t) + 1
      /\ Len(Append(s \o t, e)) = Len(s) + Len(t) + 1
  OBVIOUS
<1>2. \A i \in 1..(Len(s) + Len(t) + 1) : (s \o Append(t, e))[i] = Append(s \o t, e)[i]
  OBVIOUS
<1> QED
  BY <1>1, <1>2, SeqEqual

(* The erases of several keys, in any order: the log and the views get one  *)
(* entry for each.                                                          *)
Erasures(m, keys) == [i \in 1..Len(keys) |-> EraseEvent(m[keys[i]].id)]

ErasedViews(m, keys) == [i \in 1..Len(keys) |-> View(Without(m, ToSet(SubSeq(keys, 1, i))))]

Distinct(keys) == \A i, j \in 1..Len(keys) : keys[i] = keys[j] => i = j

LEMMA TrackedEraseAll ==
  ASSUME NEW s, NEW o, NEW m, Tracked(s, o, m), NEW keys \in Seq(Present(m)), Distinct(keys)
  PROVE  /\ Tracked(s \o Erasures(m, keys), o \o ErasedViews(m, keys), Without(m, ToSet(keys)))
         /\ Erasures(m, keys) \in Seq(LogEvents) /\ Len(Erasures(m, keys)) = Len(keys)
         /\ Replay(s \o Erasures(m, keys)).last_event_id_ = Replay(s).last_event_id_
<1> DEFINE n == Len(keys)
           evs == Erasures(m, keys)
           views == ErasedViews(m, keys)
           Set(i) == ToSet(SubSeq(keys, 1, i))
           E(i) == s \o SubSeq(evs, 1, i)
           O(i) == o \o SubSeq(views, 1, i)
           Good(i) == /\ Tracked(E(i), O(i), Without(m, Set(i)))
                      /\ Replay(E(i)).last_event_id_ = Replay(s).last_event_id_
           Bad == {i \in 0..n : ~Good(i)}
<1>1. n \in Nat /\ \A i \in 1..n : keys[i] \in Present(m)
  OBVIOUS
<1>2. s \in Seq(LogEvents) /\ o \in Seq(Views) /\ m \in Maps
  BY TrackedFacts
<1>3. \A i \in 1..n : evs[i] = EraseEvent(m[keys[i]].id) /\ views[i] = View(Without(m, Set(i)))
  BY DEF Erasures, ErasedViews
<1>3a. evs = [i \in 1..n |-> evs[i]] /\ views = [i \in 1..n |-> views[i]]
  BY DEF Erasures, ErasedViews
<1> HIDE DEF evs, views
<1>4. evs \in Seq(LogEvents) /\ Len(evs) = n /\ views \in Seq(Views) /\ Len(views) = n
  <2>1. ASSUME NEW i \in 1..n
        PROVE  evs[i] \in LogEvents /\ views[i] \in Views
    <3>1. keys[i] \in Keys /\ m[keys[i]].id \in Nat
      BY <1>1, <1>2, MapValues DEF Present
    <3>2. evs[i] \in LogEvents
      <4> DEFINE id == m[keys[i]].id
      <4>1. id \in Nat /\ evs[i] = EraseEvent(id)
        BY <1>3, <3>1
      <4> HIDE DEF id
      <4> QED
        BY <4>1 DEF EraseEvent, Event, LogEvents
    <3>3. Without(m, Set(i)) \in Maps
      BY <1>2, WithoutIsMap
    <3> QED
      BY <1>3, <3>2, <3>3, ViewOfMap
  <2> HIDE DEF n
  <2>2. evs \in Seq(LogEvents) /\ Len(evs) = n
    BY <1>1, <1>3a, <2>1
  <2>3. views \in Seq(Views) /\ Len(views) = n
    BY <1>1, <1>3a, <2>1
  <2> QED
    BY <2>2, <2>3
<1>5. ASSUME NEW i \in 0..n
      PROVE  Set(i) = {keys[j] : j \in 1..i}
  <2> DEFINE t == SubSeq(keys, 1, i)
  <2>1. DOMAIN t = 1..i /\ \A j \in 1..i : t[j] = keys[j]
    BY <1>1
  <2> HIDE DEF t
  <2>2. ToSet(t) = {keys[j] : j \in 1..i}
    BY <2>1 DEF ToSet
  <2> QED
    BY <2>2 DEF t
<1>6. ASSUME NEW i \in 1..n
      PROVE  E(i) = Append(E(i - 1), evs[i]) /\ O(i) = Append(O(i - 1), views[i])
  <2>0. i \in Nat /\ i - 1 \in 0..n /\ evs[i] \in LogEvents /\ views[i] \in Views
    BY <1>1, <1>4
  <2>1. SubSeq(evs, 1, i) = Append(SubSeq(evs, 1, i - 1), evs[i])
    BY <1>1, <1>4
  <2>2. SubSeq(views, 1, i) = Append(SubSeq(views, 1, i - 1), views[i])
    BY <1>1, <1>4
  <2>3. SubSeq(evs, 1, i - 1) \in Seq(LogEvents) /\ SubSeq(views, 1, i - 1) \in Seq(Views)
    BY <1>1, <1>4, <2>0
  <2> QED
    BY <1>2, <2>0, <2>1, <2>2, <2>3, ConcatAppend
<1>7. E(0) = s /\ O(0) = o /\ E(n) = s \o evs /\ O(n) = o \o views /\ Set(n) = ToSet(keys)
  <2>1. SubSeq(evs, 1, 0) = <<>> /\ SubSeq(views, 1, 0) = <<>>
    BY <1>1, <1>4
  <2>2. SubSeq(evs, 1, n) = evs /\ SubSeq(views, 1, n) = views /\ SubSeq(keys, 1, n) = keys
    BY <1>1, <1>4
  <2>3. s \o <<>> = s /\ o \o <<>> = o
    BY <1>2
  <2> QED
    BY <2>1, <2>2, <2>3, Zenon
<1> HIDE DEF E, O, Set, n
<1>8. Good(0)
  <2>1. Set(0) = {}
    BY <1>1, <1>5
  <2>2. Without(m, Set(0)) = m
    BY <1>2, <2>1, WithoutIsMap
  <2> QED
    BY <1>7, <2>2
<1>9. ASSUME NEW i \in 1..n, Good(i - 1)
      PROVE  Good(i)
  <2> DEFINE k == keys[i]
             x == Without(m, Set(i - 1))
  <2>1. i \in 0..n /\ i - 1 \in 0..n /\ 1..i = (1..(i - 1)) \cup {i}
    BY <1>1
  <2>2. Set(i) = Set(i - 1) \cup {k}
    BY <1>5, <2>1
  <2>3. k \in Present(m)
    BY <1>1
  <2>4. k \notin Set(i - 1)
    <3>1. \A j \in 1..(i - 1) : j \in 1..n /\ j # i
      BY <1>1
    <3> QED
      BY <1>5, <2>1, <3>1 DEF n, Distinct
  <2> HIDE DEF k
  <2> DEFINE S == Set(i - 1)
  <2> HIDE DEF S
  <2>5. k \in Present(x) /\ x[k] = m[k] /\ Without(x, {k}) = Without(m, Set(i))
    <3>1. Set(i) = S \cup {k} /\ k \notin S /\ x = Without(m, S)
      BY <2>2, <2>4 DEF S
    <3> HIDE DEF x
    <3>2. k \in Present(Without(m, S)) /\ Without(m, S)[k] = m[k]
      BY <2>3, <3>1 DEF Without, Present
    <3>3. Without(Without(m, S), {k}) = Without(m, S \cup {k})
      BY DEF Without
    <3> QED
      BY <3>1, <3>2, <3>3
  <2>6. Tracked(E(i - 1), O(i - 1), x) /\ Replay(E(i - 1)).last_event_id_ = Replay(s).last_event_id_
    BY <1>9
  <2>7. evs[i] = EraseEvent(x[k].id) /\ views[i] = View(Without(x, {k}))
    BY <1>3, <2>5 DEF k
  <2> HIDE DEF x
  <2>8. /\ Tracked(Append(E(i - 1), evs[i]), Append(O(i - 1), views[i]), Without(x, {k}))
        /\ Replay(Append(E(i - 1), evs[i])).last_event_id_ = Replay(E(i - 1)).last_event_id_
    <3> DEFINE a == E(i - 1)
               b == O(i - 1)
               e == evs[i]
               y == Without(x, {k})
    <3>1. Tracked(a, b, x) /\ k \in Present(x) /\ e = EraseEvent(x[k].id)
      BY <2>5, <2>6, <2>7
    <3> HIDE DEF a, b, e, y
    <3>2. y = Without(x, {k})
      BY DEF y
    <3>3. /\ Tracked(Append(a, e), Append(b, View(y)), y)
          /\ Replay(Append(a, e)).last_event_id_ = Replay(a).last_event_id_
      BY <3>1, <3>2, TrackedErase
    <3> QED
      BY <2>7, <3>3 DEF a, b, e, y
  <2> QED
    BY <1>6, <2>5, <2>6, <2>8
<1> HIDE DEF Good
<1>10. Bad = {}
  <2>1. SUFFICES ASSUME Bad # {} PROVE FALSE
    OBVIOUS
  <2>2. Bad \subseteq Nat
    BY <1>1
  <2>3. PICK k \in Bad : \A y \in Bad : k <= y
    BY <2>1, <2>2, LeastNumber
  <2>4. k # 0
    BY <1>8, <2>3
  <2>5. k \in 1..n /\ k - 1 \in 0..n /\ k - 1 \notin Bad
    BY <1>1, <2>3, <2>4
  <2> QED
    BY <1>9, <2>3, <2>5
<1>11. Good(n)
  BY <1>1, <1>10
<1> QED
  BY <1>4, <1>7, <1>11 DEF Good, evs, views, n

(* The live events are as many as the keys that are set.                    *)
LEMMA LiveEventsAndKeys ==
  ASSUME NEW s, NEW o, NEW m, Tracked(s, o, m)
  PROVE  /\ IsFiniteSet(Present(m))
         /\ Len(for_each(Replay(s))) = Cardinality(Present(m))
<1> DEFINE p == Replay(s)
           f == [i \in Alive(p) |-> p.events_[i].val[1]]
<1>1. m \in Maps /\ Agree(p, Pairs) /\ Contents(p) = ContentsOf(m)
  BY TrackedFacts
<1> HIDE DEF p
<1>2. Contents(p) = {<<p.events_[i].id, p.events_[i].val>> : i \in Alive(p)}
  BY <1>1, ContentsOfLive DEF Agree
<1>3. ASSUME NEW i \in Alive(p)
      PROVE  f[i] \in Present(m) /\ p.events_[i].id = m[f[i]].id
  <2>1. <<p.events_[i].id, p.events_[i].val>> \in ContentsOf(m)
    BY <1>1, <1>2
  <2>2. PICK k \in Present(m) :
          <<p.events_[i].id, p.events_[i].val>> = <<m[k].id, <<k, m[k].value>>>>
    BY <2>1 DEF ContentsOf
  <2>3. p.events_[i].id = m[k].id /\ p.events_[i].val = <<k, m[k].value>>
    BY <2>2
  <2>4. f[i] = k
    BY <2>3
  <2> QED
    BY <2>3, <2>4
<1>4. ASSUME NEW i \in Alive(p), NEW j \in Alive(p), f[i] = f[j]
      PROVE  i = j
  <2>1. p.events_[i].id = p.events_[j].id
    BY <1>3, <1>4
  <2> QED
    BY <1>1, <2>1, LiveIdsDiffer
<1>5. ASSUME NEW k \in Present(m)
      PROVE  \E i \in Alive(p) : f[i] = k
  <2>1. PICK i \in Alive(p) : p.events_[i].val = <<k, m[k].value>>
    BY <1>1, LiveOfKey
  <2>2. f[i] = k
    BY <2>1
  <2> QED
    BY <2>2
<1>6. f \in [Alive(p) -> Present(m)] /\ DOMAIN f = Alive(p)
  BY <1>3
<1> HIDE DEF f
<1>7. f \in Bijection(Alive(p), Present(m))
  BY <1>4, <1>5, <1>6 DEF Bijection, Injection, Surjection, IsInjective
<1>8. IsFiniteSet(Alive(p))
  BY <1>1, TypedFields, AliveAndDeleted DEF Agree
<1>9. IsFiniteSet(Present(m)) /\ Cardinality(Present(m)) = Cardinality(Alive(p))
  BY <1>7, <1>8, FS_Bijection DEF ExistsBijection
<1>10. Len(for_each(p)) = Cardinality(Alive(p))
  BY <1>1, ForEachIncreases
<1> QED
  BY <1>9, <1>10 DEF p

-----------------------------------------------------------------------------
(* The events that have a number but are not in the log yet.                *)

Items == [seq_no : Nat, event : LogEvents]

(* T is the log as it will be when every event that has a number from       *)
(* "from" up to "to" has arrived.                                           *)
Extends(T, lg, from, to) ==
  /\ T \in Seq(LogEvents) /\ lg \in Seq(LogEvents)
  /\ from \in Nat /\ to \in Nat /\ from <= to
  /\ Len(T) = Len(lg) + (to - from)
  /\ \A i \in 1..Len(lg) : lg[i] = T[i]

(* An event under way is the one that T has at its number.                  *)
Fits(T, lg, from, to, a) ==
  /\ a \in Items /\ a.seq_no \in from..(to - 1)
  /\ a.event = T[Len(lg) + (a.seq_no - from) + 1]

HeldFit(T, lg, from, to, h) ==
  /\ h \in [Threads -> Seq(Items)]
  /\ \A t \in Threads : \A i \in 1..Len(h[t]) : Fits(T, lg, from, to, h[t][i])

AllFit(T, lg, from, to, all) == \A a \in all : Fits(T, lg, from, to, a)

(* No number is held twice.                                                 *)
Own(h) ==
  \A t, u \in Threads : \A i \in 1..Len(h[t]), j \in 1..Len(h[u]) :
    h[t][i].seq_no = h[u][j].seq_no => t = u /\ i = j

(* No number has arrived and is also held.                                  *)
Disjoint(h, all) ==
  \A a \in all : \A t \in Threads : \A i \in 1..Len(h[t]) : a.seq_no # h[t][i].seq_no

(* Every number is somewhere.                                               *)
Cover(from, to, h, all) ==
  \A n \in from..(to - 1) :
    \/ \E a \in all : a.seq_no = n
    \/ \E t \in Threads : \E i \in 1..Len(h[t]) : h[t][i].seq_no = n

Flow(T, lg, from, to, h, all) ==
  /\ Extends(T, lg, from, to)
  /\ HeldFit(T, lg, from, to, h) /\ AllFit(T, lg, from, to, all)
  /\ Own(h) /\ Disjoint(h, all) /\ Cover(from, to, h, all)

(* The actor takes what it can from the events that have arrived: the log   *)
(* grows along T, and the first missing number is the expected one.         *)
LEMMA ArriveFollows ==
  ASSUME NEW T, NEW to, NEW h, NEW events, Arrive(events),
         Flow(T, log, expected, to, h, arrived \cup ToSet(events))
  PROVE  /\ Flow(T, log', expected', to, h, arrived')
         /\ \A a \in arrived' : a.seq_no # expected'
<1> DEFINE all == arrived \cup ToSet(events)
           have == {a.seq_no : a \in all}
           from == expected
           P(n) == n \notin have /\ from..(n - 1) \subseteq have
           next == CHOOSE n \in from..(from + Cardinality(have)) : P(n)
           EventAt(n) == (CHOOSE a \in all : a.seq_no = n).event
           tail == [i \in 1..(next - from) |-> EventAt(from + i - 1)]
<1>1. log' = log \o tail /\ arrived' = {a \in all : a.seq_no >= next} /\ expected' = next
  BY DEF Arrive
<1>2. /\ T \in Seq(LogEvents) /\ log \in Seq(LogEvents) /\ Len(log) \in Nat /\ Len(T) \in Nat
      /\ from \in Nat /\ to \in Nat /\ from <= to
      /\ Len(T) = Len(log) + (to - from)
      /\ \A i \in 1..Len(log) : log[i] = T[i]
  BY DEF Flow, Extends
<1>3. \A a \in all : /\ a \in Items /\ a.seq_no \in Nat /\ a.seq_no \in from..(to - 1)
                     /\ a.event = T[Len(log) + (a.seq_no - from) + 1]
  <2>1. \A a \in all : Fits(T, log, from, to, a)
    BY DEF Flow, AllFit
  <2> HIDE DEF all
  <2> QED
    BY <2>1 DEF Fits, Items
<1> HIDE DEF all, from
<1>4. have \subseteq from..(to - 1)
  BY <1>3
<1>5. \A n \in have : \E a \in all : a.seq_no = n
  OBVIOUS
<1>6. \A a \in all : a.seq_no \in have
  OBVIOUS
<1> HIDE DEF have
<1>7. IsFiniteSet(have) /\ Cardinality(have) \in Nat
  <2>1. IsFiniteSet(from..(to - 1))
    BY <1>2, FS_Interval
  <2>2. IsFiniteSet(have)
    BY <1>4, <2>1, FS_Subset
  <2> QED
    BY <2>2, FS_CardinalityType
<1>8. \E n \in from..(from + Cardinality(have)) : P(n)
  <2> DEFINE C == {n \in from..to : n \notin have}
  <2>1. to \in C
    BY <1>2, <1>4
  <2>2. C \subseteq Nat
    BY <1>2
  <2>3. PICK n \in C : \A y \in C : n <= y
    BY <2>1, <2>2, LeastNumber
  <2>4. n \in Nat /\ from <= n /\ n <= to /\ n \notin have
    BY <1>2, <2>3
  <2>5. from..(n - 1) \subseteq have
    <3> SUFFICES ASSUME NEW j \in from..(n - 1), j \notin have PROVE FALSE
      OBVIOUS
    <3>1. j \in C /\ j < n
      BY <1>2, <2>4
    <3> QED
      BY <1>2, <2>3, <2>4, <3>1
  <2>6. n - from <= Cardinality(have)
    <3>1. from \in Int /\ n - 1 \in Int
      BY <1>2, <2>4
    <3>2. Cardinality(from..(n - 1)) = IF from > n - 1 THEN 0 ELSE (n - 1) - from + 1
      BY <3>1, FS_Interval
    <3>3. Cardinality(from..(n - 1)) = n - from
      BY <1>2, <2>4, <3>2
    <3>4. Cardinality(from..(n - 1)) <= Cardinality(have)
      BY <1>7, <2>5, FS_Subset
    <3> QED
      BY <3>3, <3>4
  <2>7. n \in from..(from + Cardinality(have))
    BY <1>2, <1>7, <2>4, <2>6
  <2> QED
    BY <2>4, <2>5, <2>7
<1>9. next \in from..(from + Cardinality(have)) /\ P(next)
  BY <1>8
<1> HIDE DEF next
<1>10. next \in Nat /\ from <= next /\ next \notin have
  BY <1>2, <1>7, <1>9
<1>11. \A n \in from..(next - 1) : n \in have
  BY <1>9
<1>12. next <= to
  <2> SUFFICES ASSUME next > to PROVE FALSE
    BY <1>2, <1>10
  <2>1. to \in from..(next - 1)
    BY <1>2, <1>10
  <2>2. to \in have
    BY <1>11, <2>1
  <2> QED
    BY <1>2, <1>4, <2>2
<1>13. ASSUME NEW i \in 1..(next - from)
       PROVE  EventAt(from + i - 1) = T[Len(log) + i]
  <2> DEFINE n == from + i - 1
             a == CHOOSE x \in all : x.seq_no = n
  <2>1. n \in from..(next - 1) /\ n \in Nat /\ i \in Nat
    BY <1>2, <1>10
  <2>2. n \in have
    BY <1>11, <2>1
  <2>3. a \in all /\ a.seq_no = n
    BY <1>5, <2>2
  <2>4. EventAt(n) = a.event
    OBVIOUS
  <2> HIDE DEF a
  <2>5. a.event = T[Len(log) + (n - from) + 1]
    BY <1>3, <2>3
  <2>6. Len(log) + (n - from) + 1 = Len(log) + i
    BY <1>2, <2>1
  <2> QED
    BY <2>4, <2>5, <2>6
<1> HIDE DEF EventAt
<1>14. tail \in Seq(LogEvents) /\ Len(tail) = next - from
       /\ \A i \in 1..(next - from) : tail[i] = T[Len(log) + i]
  <2>1. next - from \in Nat
    BY <1>2, <1>10
  <2>2. \A i \in 1..(next - from) : Len(log) + i \in 1..Len(T)
    BY <1>2, <1>10, <1>12
  <2>3. \A i \in 1..(next - from) : T[Len(log) + i] \in LogEvents
    BY <1>2, <2>2
  <2>4. \A i \in 1..(next - from) : EventAt(from + i - 1) \in LogEvents
    BY <1>13, <2>3
  <2> QED
    BY <1>13, <2>1, <2>4
<1> HIDE DEF tail
<1>15. /\ log' \in Seq(LogEvents) /\ Len(log') = Len(log) + (next - from)
       /\ \A i \in 1..Len(log') : log'[i] = T[i]
  <2>1. log' \in Seq(LogEvents) /\ Len(log') = Len(log) + (next - from)
    <3>1. log \in Seq(LogEvents) /\ tail \in Seq(LogEvents) /\ Len(tail) = next - from
      BY <1>2, <1>14
    <3>2. log \o tail \in Seq(LogEvents) /\ Len(log \o tail) = Len(log) + Len(tail)
      BY <3>1
    <3> QED
      BY <1>1, <3>1, <3>2
  <2>2. ASSUME NEW i \in 1..Len(log')
        PROVE  log'[i] = T[i]
    <3>1. CASE i <= Len(log)
      BY <1>1, <1>2, <1>14, <2>1, <3>1
    <3>2. CASE i > Len(log)
      <4> DEFINE j == i - Len(log)
      <4>1. j \in 1..(next - from) /\ i = Len(log) + j
        BY <1>2, <1>10, <2>1, <3>2
      <4>2. log'[i] = tail[j]
        BY <1>1, <1>2, <1>14, <3>2, <2>1
      <4> HIDE DEF j
      <4> QED
        BY <1>14, <4>1, <4>2
    <3> QED
      BY <1>2, <2>1, <3>1, <3>2
  <2> QED
    BY <2>1, <2>2
<1>16. Extends(T, log', next, to)
  BY <1>2, <1>10, <1>12, <1>15 DEF Extends
<1>17. ASSUME NEW a \in Items, a.seq_no \in from..(to - 1), a.seq_no >= next,
              a.event = T[Len(log) + (a.seq_no - from) + 1]
       PROVE  Fits(T, log', next, to, a)
  <2>1. a.seq_no \in Nat
    BY DEF Items
  <2>2. a.seq_no \in next..(to - 1)
    BY <1>2, <1>10, <1>17, <2>1
  <2>3. Len(log') + (a.seq_no - next) + 1 = Len(log) + (a.seq_no - from) + 1
    BY <1>2, <1>10, <1>15, <2>1
  <2> QED
    BY <1>17, <2>2, <2>3 DEF Fits
<1>18. AllFit(T, log', next, to, arrived')
  BY <1>1, <1>3, <1>17 DEF AllFit
<1>19. HeldFit(T, log', next, to, h)
  <2>1. HeldFit(T, log, from, to, h) /\ Disjoint(h, all)
    BY DEF Flow, all, from
  <2>2. ASSUME NEW t \in Threads, NEW i \in 1..Len(h[t])
        PROVE  Fits(T, log', next, to, h[t][i])
    <3> DEFINE a == h[t][i]
    <3>1. Fits(T, log, from, to, a)
      BY <2>1 DEF HeldFit
    <3>2. a.seq_no \notin have
      BY <1>5, <2>1 DEF Disjoint
    <3> HIDE DEF a
    <3>3. a \in Items /\ a.seq_no \in Nat /\ a.seq_no \in from..(to - 1)
          /\ a.event = T[Len(log) + (a.seq_no - from) + 1]
      BY <3>1 DEF Fits, Items
    <3>4. a.seq_no >= next
      BY <1>2, <1>10, <1>11, <3>2, <3>3
    <3> QED
      BY <1>17, <3>3, <3>4 DEF a
  <2> QED
    BY <2>1, <2>2 DEF HeldFit
<1>20. Own(h) /\ Disjoint(h, arrived')
  <2>1. Own(h) /\ Disjoint(h, all)
    BY DEF Flow, all
  <2> QED
    BY <1>1, <2>1 DEF Disjoint
<1>21. Cover(next, to, h, arrived')
  <2> SUFFICES ASSUME NEW n \in next..(to - 1)
               PROVE  \/ \E a \in arrived' : a.seq_no = n
                      \/ \E t \in Threads : \E i \in 1..Len(h[t]) : h[t][i].seq_no = n
    BY DEF Cover
  <2>1. n \in from..(to - 1) /\ n >= next
    BY <1>2, <1>10
  <2>2. \/ \E a \in all : a.seq_no = n
        \/ \E t \in Threads : \E i \in 1..Len(h[t]) : h[t][i].seq_no = n
    BY <2>1 DEF Flow, Cover, all, from
  <2> QED
    BY <1>1, <2>1, <2>2
<1>22. \A a \in arrived' : a.seq_no # next
  BY <1>1, <1>6, <1>10
<1> QED
  BY <1>1, <1>16, <1>18, <1>19, <1>20, <1>21, <1>22 DEF Flow

(* A thread hands over its first event.                                     *)
LEMMA SendFlows ==
  ASSUME NEW T, NEW lg, NEW from, NEW to, NEW h, NEW all, Flow(T, lg, from, to, h, all),
         NEW t \in Threads, h[t] # <<>>
  PROVE  Flow(T, lg, from, to, [h EXCEPT ![t] = Tail(@)], all \cup ToSet(<<Head(h[t])>>))
<1> DEFINE g == [h EXCEPT ![t] = Tail(@)]
           m == Head(h[t])
           some == all \cup ToSet(<<m>>)
<1>1. /\ h \in [Threads -> Seq(Items)]
      /\ \A u \in Threads : \A i \in 1..Len(h[u]) : Fits(T, lg, from, to, h[u][i])
  BY DEF Flow, HeldFit
<1>2. \A u \in Threads : h[u] \in Seq(Items) /\ Len(h[u]) \in Nat
  BY <1>1
<1>3. some = all \cup {m}
  BY DEF ToSet
<1>4. m = h[t][1] /\ 1 \in 1..Len(h[t])
  BY <1>2
<1>5. /\ g \in [Threads -> Seq(Items)]
      /\ Len(g[t]) = Len(h[t]) - 1
      /\ \A i \in 1..Len(g[t]) : i + 1 \in 1..Len(h[t]) /\ g[t][i] = h[t][i + 1]
      /\ \A u \in Threads : u # t => g[u] = h[u]
  <2>1. /\ Tail(h[t]) \in Seq(Items) /\ Len(Tail(h[t])) = Len(h[t]) - 1
        /\ \A i \in 1..Len(Tail(h[t])) : i + 1 \in 1..Len(h[t]) /\ Tail(h[t])[i] = h[t][i + 1]
    BY <1>2
  <2> QED
    BY <1>1, <2>1
<1> HIDE DEF g, m, some
<1>6. ASSUME NEW u \in Threads, NEW i \in 1..Len(g[u])
      PROVE  \E j \in 1..Len(h[u]) : /\ g[u][i] = h[u][j]
                                     /\ j = IF u = t THEN i + 1 ELSE i
  BY <1>5
<1>7. HeldFit(T, lg, from, to, g)
  BY <1>1, <1>5, <1>6 DEF HeldFit
<1>8. AllFit(T, lg, from, to, some)
  BY <1>1, <1>3, <1>4 DEF Flow, AllFit
<1>9. Own(h) /\ Disjoint(h, all) /\ Cover(from, to, h, all) /\ Extends(T, lg, from, to)
  BY DEF Flow
<1>10. Own(g)
  <2> SUFFICES ASSUME NEW u \in Threads, NEW w \in Threads,
                      NEW i \in 1..Len(g[u]), NEW j \in 1..Len(g[w]),
                      g[u][i].seq_no = g[w][j].seq_no
               PROVE  u = w /\ i = j
    BY DEF Own
  <2>1. PICK a \in 1..Len(h[u]) : g[u][i] = h[u][a] /\ a = IF u = t THEN i + 1 ELSE i
    BY <1>6
  <2>2. PICK b \in 1..Len(h[w]) : g[w][j] = h[w][b] /\ b = IF w = t THEN j + 1 ELSE j
    BY <1>6
  <2>3. u = w /\ a = b
    BY <1>9, <2>1, <2>2 DEF Own
  <2> QED
    BY <2>1, <2>2, <2>3
<1>11. Disjoint(g, some)
  <2> SUFFICES ASSUME NEW a \in some, NEW u \in Threads, NEW i \in 1..Len(g[u]),
                      a.seq_no = g[u][i].seq_no
               PROVE  FALSE
    BY DEF Disjoint
  <2>1. PICK j \in 1..Len(h[u]) : g[u][i] = h[u][j] /\ j = IF u = t THEN i + 1 ELSE i
    BY <1>6
  <2>2. CASE a \in all
    BY <1>9, <2>1, <2>2 DEF Disjoint
  <2>3. CASE a = m
    <3>1. u = t /\ j = 1
      BY <1>4, <1>9, <2>1, <2>3 DEF Own
    <3> QED
      BY <2>1, <3>1
  <2> QED
    BY <1>3, <2>2, <2>3
<1>12. Cover(from, to, g, some)
  <2> SUFFICES ASSUME NEW n \in from..(to - 1)
               PROVE  \/ \E a \in some : a.seq_no = n
                      \/ \E u \in Threads : \E i \in 1..Len(g[u]) : g[u][i].seq_no = n
    BY DEF Cover
  <2>1. CASE \E a \in all : a.seq_no = n
    BY <1>3, <2>1
  <2>2. ASSUME NEW u \in Threads, NEW j \in 1..Len(h[u]), h[u][j].seq_no = n
        PROVE  \/ \E a \in some : a.seq_no = n
               \/ \E w \in Threads : \E i \in 1..Len(g[w]) : g[w][i].seq_no = n
    <3>1. CASE u # t
      BY <1>5, <2>2, <3>1
    <3>2. CASE u = t /\ j = 1
      BY <1>3, <1>4, <2>2, <3>2
    <3>3. CASE u = t /\ j # 1
      <4>1. j - 1 \in 1..Len(g[t]) /\ (j - 1) + 1 = j
        BY <1>2, <1>5, <3>3
      <4>2. g[t][j - 1] = h[t][j]
        BY <1>5, <4>1
      <4> QED
        BY <2>2, <3>3, <4>1, <4>2
    <3> QED
      BY <3>1, <3>2, <3>3
  <2> QED
    BY <1>9, <2>1, <2>2 DEF Cover
<1> QED
  BY <1>7, <1>8, <1>9, <1>10, <1>11, <1>12 DEF Flow, g, m, some

(* A writer takes numbers for events that follow all the others.            *)
NewItems(from, evs) == [i \in 1..Len(evs) |-> Numbered(from + i - 1, evs[i])]

LEMMA TakeFits ==
  ASSUME NEW T, NEW lg, NEW from, NEW to, Extends(T, lg, from, to), NEW evs \in Seq(LogEvents)
  PROVE  /\ Extends(T \o evs, lg, from, to + Len(evs))
         /\ \A a : Fits(T, lg, from, to, a) => Fits(T \o evs, lg, from, to + Len(evs), a)
         /\ NewItems(to, evs) \in Seq(Items)
         /\ Len(NewItems(to, evs)) = Len(evs)
         /\ \A i \in 1..Len(evs) : /\ Fits(T \o evs, lg, from, to + Len(evs), NewItems(to, evs)[i])
                                   /\ NewItems(to, evs)[i].seq_no = to + i - 1
<1> DEFINE U == T \o evs
           n == Len(evs)
           new == NewItems(to, evs)
<1>1. /\ T \in Seq(LogEvents) /\ lg \in Seq(LogEvents) /\ Len(lg) \in Nat /\ Len(T) \in Nat
      /\ from \in Nat /\ to \in Nat /\ from <= to
      /\ Len(T) = Len(lg) + (to - from)
      /\ \A i \in 1..Len(lg) : lg[i] = T[i]
  BY DEF Extends
<1>2. n \in Nat /\ \A i \in 1..n : evs[i] \in LogEvents
  OBVIOUS
<1>3. /\ U \in Seq(LogEvents) /\ Len(U) = Len(T) + n
      /\ \A i \in 1..Len(T) : U[i] = T[i]
      /\ \A i \in 1..n : U[Len(T) + i] = evs[i]
  <2>1. T \in Seq(LogEvents) /\ evs \in Seq(LogEvents)
    BY <1>1
  <2>2. U \in Seq(LogEvents) /\ Len(U) = Len(T) + n /\ \A i \in 1..Len(T) : U[i] = T[i]
    BY <2>1
  <2>3. ASSUME NEW i \in 1..n
        PROVE  U[Len(T) + i] = evs[i]
    <3>1. Len(T) + i \in 1..(Len(T) + n) /\ Len(T) + i > Len(T) /\ (Len(T) + i) - Len(T) = i
      BY <1>1, <1>2
    <3> QED
      BY <2>1, <3>1
  <2> QED
    BY <2>2, <2>3
<1>4. \A i \in 1..n : /\ new[i].seq_no = to + i - 1 /\ new[i].event = evs[i]
                      /\ new[i] = [seq_no |-> to + i - 1, event |-> evs[i]]
  BY DEF NewItems, Numbered
<1>5. new = [i \in 1..n |-> new[i]]
  BY DEF NewItems
<1> HIDE DEF U, n, new
<1>6. \A i \in 1..n : new[i] \in Items
  <2> SUFFICES ASSUME NEW i \in 1..n PROVE new[i] \in Items
    OBVIOUS
  <2> DEFINE q == to + i - 1
  <2>1. q \in Nat /\ evs[i] \in LogEvents /\ new[i] = [seq_no |-> q, event |-> evs[i]]
    BY <1>1, <1>2, <1>4
  <2> HIDE DEF q
  <2> QED
    BY <2>1 DEF Items
<1>7. new \in Seq(Items) /\ Len(new) = n
  BY <1>2, <1>5, <1>6
<1>8. Extends(U, lg, from, to + n)
  <2>1. \A i \in 1..Len(lg) : i \in 1..Len(T)
    BY <1>1
  <2>2. \A i \in 1..Len(lg) : lg[i] = U[i]
    BY <1>1, <1>3, <2>1
  <2> QED
    BY <1>1, <1>2, <1>3, <2>2 DEF Extends
<1>9. ASSUME NEW a, Fits(T, lg, from, to, a)
      PROVE  Fits(U, lg, from, to + n, a)
  <2>1. a \in Items /\ a.seq_no \in Nat /\ a.seq_no \in from..(to - 1)
        /\ a.event = T[Len(lg) + (a.seq_no - from) + 1]
    BY <1>9 DEF Fits, Items
  <2> DEFINE j == Len(lg) + (a.seq_no - from) + 1
             end == to + n
  <2>2. a.seq_no \in from..(end - 1) /\ j \in 1..Len(T) /\ a.event = T[j]
    BY <1>1, <1>2, <2>1
  <2>3. a.event = U[j]
    BY <1>3, <2>2
  <2>4. a.event = U[Len(lg) + (a.seq_no - from) + 1]
    BY <2>3
  <2> HIDE DEF end
  <2>5. Fits(U, lg, from, end, a)
    BY <2>1, <2>2, <2>4 DEF Fits
  <2> QED
    BY <2>5 DEF end
<1>10. ASSUME NEW i \in 1..n
       PROVE  Fits(U, lg, from, to + n, new[i])
  <2>1. new[i] \in Items /\ new[i].seq_no = to + i - 1 /\ new[i].event = evs[i]
    BY <1>4, <1>6
  <2> DEFINE end == to + n
             q == new[i].seq_no
  <2>2. q \in from..(end - 1) /\ Len(lg) + (q - from) + 1 = Len(T) + i
    <3> DEFINE l == Len(lg)
               m == Len(T)
    <3>1. /\ l \in Nat /\ m \in Nat /\ from \in Nat /\ to \in Nat /\ from <= to
          /\ m = l + (to - from) /\ q = to + i - 1 /\ i \in Nat /\ 1 <= i /\ i <= n /\ n \in Nat
      BY <1>1, <1>2, <2>1
    <3> HIDE DEF l, m, q
    <3>2. q \in from..(end - 1) /\ l + (q - from) + 1 = m + i
      BY <3>1
    <3> QED
      BY <3>2 DEF l, m
  <2>3. U[Len(T) + i] = evs[i]
    BY <1>3
  <2>4. new[i].event = U[Len(lg) + (q - from) + 1]
    BY <2>1, <2>2, <2>3
  <2> HIDE DEF end
  <2>5. Fits(U, lg, from, end, new[i])
    BY <2>1, <2>2, <2>4 DEF Fits
  <2> QED
    BY <2>5 DEF end
<1> QED
  BY <1>4, <1>7, <1>8, <1>9, <1>10 DEF U, n, new

LEMMA TakeHeldFlows ==
  ASSUME NEW T, NEW lg, NEW from, NEW to, NEW h, NEW all, Flow(T, lg, from, to, h, all),
         NEW t \in Threads, h[t] = <<>>, NEW evs \in Seq(LogEvents)
  PROVE  Flow(T \o evs, lg, from, to + Len(evs), [h EXCEPT ![t] = NewItems(to, evs)], all)
<1> DEFINE U == T \o evs
           n == Len(evs)
           new == NewItems(to, evs)
           g == [h EXCEPT ![t] = new]
<1>0. Extends(T, lg, from, to) /\ Own(h) /\ Disjoint(h, all) /\ Cover(from, to, h, all)
  BY DEF Flow
<1>1. /\ Extends(U, lg, from, to + n)
      /\ \A a : Fits(T, lg, from, to, a) => Fits(U, lg, from, to + n, a)
      /\ new \in Seq(Items) /\ Len(new) = n
      /\ \A i \in 1..n : Fits(U, lg, from, to + n, new[i]) /\ new[i].seq_no = to + i - 1
  BY <1>0, TakeFits
<1>2. /\ h \in [Threads -> Seq(Items)]
      /\ \A u \in Threads : \A i \in 1..Len(h[u]) : Fits(T, lg, from, to, h[u][i])
      /\ \A a \in all : Fits(T, lg, from, to, a)
  BY DEF Flow, HeldFit, AllFit
<1>3. from \in Nat /\ to \in Nat /\ n \in Nat /\ from <= to
  BY <1>0 DEF Extends
<1> HIDE DEF U, n, new
<1>4. g \in [Threads -> Seq(Items)] /\ g[t] = new /\ \A u \in Threads : u # t => g[u] = h[u]
  BY <1>1, <1>2
<1> HIDE DEF g
<1>5. \A a : Fits(T, lg, from, to, a) => a.seq_no \in Nat /\ a.seq_no < to
  BY <1>3 DEF Fits, Items
<1>6. HeldFit(U, lg, from, to + n, g)
  <2>1. ASSUME NEW u \in Threads, NEW i \in 1..Len(g[u])
        PROVE  Fits(U, lg, from, to + n, g[u][i])
    <3>1. CASE u = t
      BY <1>1, <1>4, <3>1
    <3>2. CASE u # t
      BY <1>1, <1>2, <1>4, <3>2
    <3> QED
      BY <3>1, <3>2
  <2> QED
    BY <1>4, <2>1 DEF HeldFit
<1>7. AllFit(U, lg, from, to + n, all)
  BY <1>1, <1>2 DEF AllFit
<1>8. \A i \in 1..n : new[i].seq_no >= to /\ i \in Nat
  BY <1>1, <1>3
<1>9. Own(g)
  <2> SUFFICES ASSUME NEW u \in Threads, NEW w \in Threads,
                      NEW i \in 1..Len(g[u]), NEW j \in 1..Len(g[w]),
                      g[u][i].seq_no = g[w][j].seq_no
               PROVE  u = w /\ i = j
    BY DEF Own
  <2>1. CASE u = t /\ w = t
    BY <1>1, <1>3, <1>4, <1>8, <2>1
  <2>2. CASE u = t /\ w # t
    <3>1. g[u][i].seq_no >= to /\ g[w][j].seq_no < to
      BY <1>1, <1>2, <1>4, <1>5, <1>8, <2>2
    <3>2. g[w][j].seq_no \in Nat
      BY <1>2, <1>4, <1>5, <2>2
    <3> QED
      BY <1>3, <3>1, <3>2
  <2>3. CASE u # t /\ w = t
    <3>1. g[w][j].seq_no >= to /\ g[u][i].seq_no < to
      BY <1>1, <1>2, <1>4, <1>5, <1>8, <2>3
    <3>2. g[u][i].seq_no \in Nat
      BY <1>2, <1>4, <1>5, <2>3
    <3> QED
      BY <1>3, <3>1, <3>2
  <2>4. CASE u # t /\ w # t
    <3>1. g[u] = h[u] /\ g[w] = h[w]
      BY <1>4, <2>4
    <3> QED
      BY <1>0, <3>1 DEF Own
  <2> QED
    BY <2>1, <2>2, <2>3, <2>4
<1>10. Disjoint(g, all)
  <2> SUFFICES ASSUME NEW a \in all, NEW u \in Threads, NEW i \in 1..Len(g[u])
               PROVE  a.seq_no # g[u][i].seq_no
    BY DEF Disjoint
  <2>1. a.seq_no \in Nat /\ a.seq_no < to
    BY <1>2, <1>5
  <2>2. CASE u = t
    <3>1. g[u][i].seq_no >= to
      BY <1>1, <1>4, <1>8, <2>2
    <3> QED
      BY <1>3, <2>1, <3>1
  <2>3. CASE u # t
    BY <1>0, <1>4, <2>3 DEF Disjoint
  <2> QED
    BY <2>2, <2>3
<1>11. Cover(from, to + n, g, all)
  <2> DEFINE end == to + n
  <2>0. end \in Nat /\ end - 1 = to + n - 1
    BY <1>3
  <2> HIDE DEF end
  <2> SUFFICES ASSUME NEW k \in from..(end - 1)
               PROVE  \/ \E a \in all : a.seq_no = k
                      \/ \E u \in Threads : \E i \in 1..Len(g[u]) : g[u][i].seq_no = k
    BY DEF Cover, end
  <2>1. CASE k < to
    <3>1. k \in from..(to - 1)
      BY <1>3, <2>1
    <3>2. \/ \E a \in all : a.seq_no = k
          \/ \E u \in Threads : \E i \in 1..Len(h[u]) : h[u][i].seq_no = k
      BY <1>0, <3>1 DEF Cover
    <3>3. ASSUME NEW u \in Threads, NEW i \in 1..Len(h[u]), h[u][i].seq_no = k
          PROVE  u # t
      BY <3>3
    <3> QED
      BY <1>4, <3>2, <3>3
  <2>2. CASE k >= to
    <3> DEFINE i == k - to + 1
    <3>1. i \in 1..n /\ to + i - 1 = k
      BY <1>3, <2>0, <2>2
    <3> HIDE DEF i
    <3>2. new[i].seq_no = k
      BY <1>1, <3>1
    <3> QED
      BY <1>1, <1>4, <3>1, <3>2
  <2> QED
    BY <1>3, <2>0, <2>1, <2>2
<1> QED
  BY <1>1, <1>6, <1>7, <1>9, <1>10, <1>11 DEF Flow, U, n, new, g

LEMMA TakeArrivedFlows ==
  ASSUME NEW T, NEW lg, NEW from, NEW to, NEW h, NEW all, Flow(T, lg, from, to, h, all),
         NEW evs \in Seq(LogEvents)
  PROVE  Flow(T \o evs, lg, from, to + Len(evs), h, all \cup ToSet(NewItems(to, evs)))
<1> DEFINE U == T \o evs
           n == Len(evs)
           new == NewItems(to, evs)
           some == all \cup ToSet(new)
<1>0. Extends(T, lg, from, to) /\ Own(h) /\ Disjoint(h, all) /\ Cover(from, to, h, all)
  BY DEF Flow
<1>1. /\ Extends(U, lg, from, to + n)
      /\ \A a : Fits(T, lg, from, to, a) => Fits(U, lg, from, to + n, a)
      /\ new \in Seq(Items) /\ Len(new) = n
      /\ \A i \in 1..n : Fits(U, lg, from, to + n, new[i]) /\ new[i].seq_no = to + i - 1
  BY <1>0, TakeFits
<1>2. /\ h \in [Threads -> Seq(Items)]
      /\ \A u \in Threads : \A i \in 1..Len(h[u]) : Fits(T, lg, from, to, h[u][i])
      /\ \A a \in all : Fits(T, lg, from, to, a)
  BY DEF Flow, HeldFit, AllFit
<1>3. from \in Nat /\ to \in Nat /\ n \in Nat /\ from <= to
  BY <1>0 DEF Extends
<1> HIDE DEF U, n, new
<1>4. some = all \cup {new[i] : i \in 1..n}
  BY <1>1 DEF ToSet
<1> HIDE DEF some
<1>5. \A a : Fits(T, lg, from, to, a) => a.seq_no \in Nat /\ a.seq_no < to
  BY <1>3 DEF Fits, Items
<1>6. HeldFit(U, lg, from, to + n, h)
  BY <1>1, <1>2 DEF HeldFit
<1>7. AllFit(U, lg, from, to + n, some)
  BY <1>1, <1>2, <1>4 DEF AllFit
<1>8. \A i \in 1..n : new[i].seq_no >= to /\ i \in Nat
  BY <1>1, <1>3
<1>9. Disjoint(h, some)
  <2> SUFFICES ASSUME NEW a \in some, NEW u \in Threads, NEW i \in 1..Len(h[u])
               PROVE  a.seq_no # h[u][i].seq_no
    BY DEF Disjoint
  <2>1. h[u][i].seq_no \in Nat /\ h[u][i].seq_no < to
    BY <1>2, <1>5
  <2>2. CASE a \in all
    BY <1>0, <2>2 DEF Disjoint
  <2>3. ASSUME NEW j \in 1..n, a = new[j] PROVE a.seq_no # h[u][i].seq_no
    <3>1. a.seq_no >= to
      BY <1>8, <2>3
    <3> QED
      BY <1>3, <2>1, <3>1
  <2> QED
    BY <1>4, <2>2, <2>3
<1>10. Cover(from, to + n, h, some)
  <2> DEFINE end == to + n
  <2>0. end \in Nat /\ end - 1 = to + n - 1
    BY <1>3
  <2> HIDE DEF end
  <2> SUFFICES ASSUME NEW k \in from..(end - 1)
               PROVE  \/ \E a \in some : a.seq_no = k
                      \/ \E u \in Threads : \E i \in 1..Len(h[u]) : h[u][i].seq_no = k
    BY DEF Cover, end
  <2>1. CASE k < to
    <3>1. k \in from..(to - 1)
      BY <1>3, <2>1
    <3>2. \/ \E a \in all : a.seq_no = k
          \/ \E u \in Threads : \E i \in 1..Len(h[u]) : h[u][i].seq_no = k
      BY <1>0, <3>1 DEF Cover
    <3> QED
      BY <1>4, <3>2
  <2>2. CASE k >= to
    <3> DEFINE i == k - to + 1
    <3>1. i \in 1..n /\ to + i - 1 = k
      BY <1>3, <2>0, <2>2
    <3> HIDE DEF i
    <3>2. new[i].seq_no = k
      BY <1>1, <3>1
    <3> QED
      BY <1>4, <3>1, <3>2
  <2> QED
    BY <1>3, <2>0, <2>1, <2>2
<1> QED
  BY <1>0, <1>1, <1>6, <1>7, <1>9, <1>10 DEF Flow, U, n, new, some

-----------------------------------------------------------------------------
(* The inductive invariant.  S is the log as it will be when all the events *)
(* that have a number have arrived; it leads to the map of this moment      *)
(* through the views that the history has recorded.  A writer extends S, an *)
(* arrival leaves it alone and a restart cuts it.                           *)
LeadsToMap(S) ==
  /\ Flow(S, log, expected, last_event_id_, held, arrived)
  /\ \A a \in arrived : a.seq_no # expected
  /\ Tracked(S, order, map_)
  /\ Replay(S).last_event_id_ < last_event_id_

IInv == \E S : LeadsToMap(S)

LEMMA InitLeads == Init => IInv
<1> SUFFICES ASSUME Init PROVE LeadsToMap(<<>>)
  BY DEF IInv
<1>1. /\ map_ = [k \in Keys |-> Absent] /\ last_event_id_ = 1 /\ expected = 1
      /\ held = [t \in Threads |-> <<>>] /\ arrived = {} /\ log = <<>> /\ order = <<>>
  BY DEF Init
<1>2. Tracked(<<>>, order, map_)
  BY <1>1, TrackedEmpty
<1>3. Replay(<<>>).last_event_id_ < last_event_id_
  <2>1. SubSeq(<<>>, 1, 0) = <<>> /\ <<>> \in Seq({})
    OBVIOUS
  <2>2. Replay(<<>>) = EmptyProcessor
    BY <2>1, ReplayProperties
  <2> QED
    BY <1>1, <2>2 DEF EmptyProcessor
<1>4. Extends(<<>>, log, expected, last_event_id_)
  BY <1>1 DEF Extends
<1>5. \A t \in Threads : held[t] = <<>> /\ Len(held[t]) = 0
  BY <1>1
<1>6. /\ HeldFit(<<>>, log, expected, last_event_id_, held)
      /\ AllFit(<<>>, log, expected, last_event_id_, arrived)
      /\ Own(held) /\ Disjoint(held, arrived)
  BY <1>1, <1>5 DEF HeldFit, AllFit, Own, Disjoint
<1>7. Cover(expected, last_event_id_, held, arrived)
  BY <1>1 DEF Cover
<1> QED
  BY <1>1, <1>2, <1>3, <1>4, <1>6, <1>7 DEF LeadsToMap, Flow

(* An arrival.                                                              *)
LEMMA SendLeads ==
  ASSUME IInv, NEW t \in Threads, Send(t)
  PROVE  IInv'
<1>1. PICK S : LeadsToMap(S)
  BY DEF IInv
<1>2. held[t] # <<>> /\ Arrive(<<Head(held[t])>>) /\ held' = [held EXCEPT ![t] = Tail(@)]
      /\ map_' = map_ /\ last_event_id_' = last_event_id_ /\ order' = order
  BY DEF Send
<1>3. Flow(S, log, expected, last_event_id_, held', arrived \cup ToSet(<<Head(held[t])>>))
  BY <1>1, <1>2, SendFlows DEF LeadsToMap
<1>4. /\ Flow(S, log', expected', last_event_id_, held', arrived')
      /\ \A a \in arrived' : a.seq_no # expected'
  BY <1>2, <1>3, ArriveFollows
<1>5. LeadsToMap(S)'
  BY <1>1, <1>2, <1>4 DEF LeadsToMap
<1> QED
  BY <1>5 DEF IInv

LEMMA SetLeads ==
  ASSUME IInv, NEW t \in Threads, NEW k \in Keys, NEW v \in Values, set(t, k, v)
  PROVE  IInv'
<1>1. PICK S : LeadsToMap(S)
  BY DEF IInv
<1> DEFINE next == last_event_id_
           id == IF map_[k].id # 0 THEN map_[k].id ELSE next
           e == Event("data", id, <<k, v>>, map_[k].id # 0)
           x == [map_ EXCEPT ![k] = [value |-> v, id |-> id]]
<1>2. /\ Flow(S, log, expected, next, held, arrived)
      /\ \A a \in arrived : a.seq_no # expected
      /\ Tracked(S, order, map_) /\ Replay(S).last_event_id_ < next
      /\ next \in Nat /\ S \in Seq(LogEvents) /\ map_ \in Maps
  BY <1>1, TrackedFacts DEF LeadsToMap, Flow, Extends
<1>3. /\ held[t] = <<>> /\ map_' = x /\ next' = next + 1
      /\ held' = [held EXCEPT ![t] = <<Numbered(next, e)>>]
      /\ order' = Append(order, View(x))
      /\ arrived' = arrived /\ expected' = expected /\ log' = log
  BY <1>2, MapValues DEF set, Idle, EventIdOf
<1> HIDE DEF id, e, x
<1>4. /\ Tracked(Append(S, e), Append(order, View(x)), x)
      /\ Replay(Append(S, e)).last_event_id_ < next + 1
  BY <1>2, TrackedSet DEF id, e, x
<1>5. e \in LogEvents
  <2> DEFINE T == Append(S, e)
  <2>1. T \in Seq(LogEvents)
    BY <1>4, TrackedFacts
  <2>2. Len(S) + 1 \in 1..Len(T) /\ T[Len(S) + 1] = e
    BY <1>2
  <2> HIDE DEF T
  <2> QED
    BY <2>1, <2>2
<1>6. /\ <<e>> \in Seq(LogEvents) /\ Len(<<e>>) = 1 /\ S \o <<e>> = Append(S, e)
      /\ NewItems(next, <<e>>) = <<Numbered(next, e)>>
  <2>1. <<e>> \in Seq(LogEvents) /\ Len(<<e>>) = 1 /\ S \o <<e>> = Append(S, e)
    BY <1>2, <1>5
  <2>2. NewItems(next, <<e>>) = [i \in 1..1 |-> Numbered(next + i - 1, <<e>>[i])]
    BY <2>1 DEF NewItems
  <2>3. \A i \in 1..1 : Numbered(next + i - 1, <<e>>[i]) = Numbered(next, e)
    BY <1>2
  <2> DEFINE z == Numbered(next, e)
  <2> HIDE DEF z
  <2>4. [i \in 1..1 |-> z] = <<z>>
    OBVIOUS
  <2>5. [i \in 1..1 |-> Numbered(next + i - 1, <<e>>[i])] = [i \in 1..1 |-> z]
    BY <2>3 DEF z
  <2> QED
    BY <2>1, <2>2, <2>4, <2>5 DEF z
<1> DEFINE ev == <<e>>
<1> HIDE DEF ev
<1>7. Flow(S \o ev, log, expected, next + Len(ev), [held EXCEPT ![t] = NewItems(next, ev)], arrived)
  <2>1. ev \in Seq(LogEvents)
    BY <1>6 DEF ev
  <2> QED
    BY <1>2, <1>3, <2>1, TakeHeldFlows
<1>8. Flow(Append(S, e), log, expected, next + 1, held', arrived)
  BY <1>3, <1>6, <1>7 DEF ev
<1>9. PICK T : T = Append(S, e)
  OBVIOUS
<1>10. /\ Tracked(T, order', map_') /\ Replay(T).last_event_id_ < last_event_id_'
       /\ Flow(T, log', expected', last_event_id_', held', arrived')
       /\ \A a \in arrived' : a.seq_no # expected'
  BY <1>2, <1>3, <1>4, <1>8, <1>9
<1>11. LeadsToMap(T)'
  BY <1>10 DEF LeadsToMap
<1> QED
  BY <1>11 DEF IInv

(* What the three operations that erase keys have in common.                *)
LEMMA EraseTracks ==
  ASSUME NEW S, LeadsToMap(S), NEW keys \in Seq(Present(map_)), Distinct(keys), EraseKeys(keys),
         NEW T, T = S \o Erasures(map_, keys)
  PROVE  /\ Tracked(T, order', map_')
         /\ Replay(T).last_event_id_ < last_event_id_ + Len(keys)
         /\ Erasures(map_, keys) \in Seq(LogEvents) /\ Len(Erasures(map_, keys)) = Len(keys)
         /\ EraseEvents(keys) = NewItems(last_event_id_, Erasures(map_, keys))
<1>1. /\ Tracked(S, order, map_) /\ Replay(S).last_event_id_ < last_event_id_
      /\ last_event_id_ \in Nat /\ Replay(S).last_event_id_ \in Nat
  BY TrackedFacts DEF LeadsToMap, Flow, Extends
<1>2. DOMAIN keys = 1..Len(keys) /\ Len(keys) \in Nat
  OBVIOUS
<1>3. map_' = Without(map_, ToSet(keys)) /\ order' = order \o ErasedViews(map_, keys)
  BY <1>2 DEF EraseKeys, ErasedViews
<1>4. /\ Tracked(T, order', map_')
      /\ Replay(T).last_event_id_ = Replay(S).last_event_id_
      /\ Erasures(map_, keys) \in Seq(LogEvents) /\ Len(Erasures(map_, keys)) = Len(keys)
  BY <1>1, <1>3, TrackedEraseAll
<1>5. Replay(T).last_event_id_ < last_event_id_ + Len(keys)
  BY <1>1, <1>2, <1>4
<1>6. EraseEvents(keys) = NewItems(last_event_id_, Erasures(map_, keys))
  <2>1. \A i \in 1..Len(keys) : Erasures(map_, keys)[i] = EraseEvent(map_[keys[i]].id)
    BY DEF Erasures
  <2> QED
    BY <1>2, <1>4, <2>1 DEF EraseEvents, NewItems
<1> QED
  BY <1>4, <1>5, <1>6

(* erase and erase_by_prefix keep their events, to be sent one by one.      *)
LEMMA EraseHeldLeads ==
  ASSUME IInv, NEW t \in Threads, NEW keys \in Seq(Present(map_)), Distinct(keys), Idle(t),
         EraseKeys(keys), last_event_id_' = last_event_id_ + Len(keys),
         held' = [held EXCEPT ![t] = EraseEvents(keys)],
         arrived' = arrived, expected' = expected, log' = log
  PROVE  IInv'
<1>1. PICK S : LeadsToMap(S)
  BY DEF IInv
<1> DEFINE evs == Erasures(map_, keys)
<1>0. PICK T : T = S \o evs
  OBVIOUS
<1>2. /\ Tracked(T, order', map_') /\ Replay(T).last_event_id_ < last_event_id_'
      /\ evs \in Seq(LogEvents) /\ Len(evs) = Len(keys)
      /\ EraseEvents(keys) = NewItems(last_event_id_, evs)
  BY <1>0, <1>1, EraseTracks
<1> HIDE DEF evs
<1>3. Flow(S, log, expected, last_event_id_, held, arrived) /\ held[t] = <<>>
  BY <1>1 DEF LeadsToMap, Idle
<1>4. Flow(T, log, expected, last_event_id_ + Len(evs),
           [held EXCEPT ![t] = NewItems(last_event_id_, evs)], arrived)
  BY <1>0, <1>2, <1>3, TakeHeldFlows
<1>5. Flow(T, log', expected', last_event_id_', held', arrived')
  BY <1>2, <1>4
<1>6. \A a \in arrived' : a.seq_no # expected'
  BY <1>1 DEF LeadsToMap
<1>7. LeadsToMap(T)'
  BY <1>2, <1>5, <1>6 DEF LeadsToMap
<1> QED
  BY <1>7 DEF IInv

(* erase_batch sends its events at once.                                    *)
LEMMA EraseBatchLeads ==
  ASSUME IInv, NEW keys \in Seq(Present(map_)), Distinct(keys), EraseKeys(keys),
         last_event_id_' = last_event_id_ + Len(keys), Arrive(EraseEvents(keys)), held' = held
  PROVE  IInv'
<1>1. PICK S : LeadsToMap(S)
  BY DEF IInv
<1> DEFINE evs == Erasures(map_, keys)
<1>0. PICK T : T = S \o evs
  OBVIOUS
<1>2. /\ Tracked(T, order', map_') /\ Replay(T).last_event_id_ < last_event_id_'
      /\ evs \in Seq(LogEvents) /\ Len(evs) = Len(keys)
      /\ EraseEvents(keys) = NewItems(last_event_id_, evs)
  BY <1>0, <1>1, EraseTracks
<1> HIDE DEF evs
<1>3. Flow(S, log, expected, last_event_id_, held, arrived)
  BY <1>1 DEF LeadsToMap
<1>4. Flow(T, log, expected, last_event_id_ + Len(evs), held,
           arrived \cup ToSet(NewItems(last_event_id_, evs)))
  BY <1>0, <1>2, <1>3, TakeArrivedFlows
<1>5. Flow(T, log, expected, last_event_id_', held', arrived \cup ToSet(EraseEvents(keys)))
  BY <1>2, <1>4
<1>6. /\ Flow(T, log', expected', last_event_id_', held', arrived')
      /\ \A a \in arrived' : a.seq_no # expected'
  BY <1>5, ArriveFollows
<1>7. LeadsToMap(T)'
  BY <1>2, <1>6 DEF LeadsToMap
<1> QED
  BY <1>7 DEF IInv

(* A restart from the first n events of the log.                            *)
LEMMA RestartLeads ==
  ASSUME IInv, NEW n \in 0..Len(log), Restart(n)
  PROVE  IInv'
<1>1. PICK S : LeadsToMap(S)
  BY DEF IInv
<1> DEFINE T == SubSeq(S, 1, n)
<1>2. /\ Tracked(S, order, map_) /\ S \in Seq(LogEvents) /\ log \in Seq(LogEvents)
      /\ Len(log) \in Nat /\ Len(S) \in Nat /\ Len(log) <= Len(S)
      /\ \A i \in 1..Len(log) : log[i] = S[i]
  BY <1>1 DEF LeadsToMap, Flow, Extends
<1>3. n \in 0..Len(S) /\ n \in Nat
  BY <1>2
<1>4. SubSeq(log, 1, n) = T
  BY <1>2, <1>3
<1>5. /\ log' = T /\ order' = SubSeq(order, 1, n) /\ map_' = Load(T)
      /\ last_event_id_' = Replay(T).last_event_id_ + 1 /\ expected' = last_event_id_'
      /\ held' = [t \in Threads |-> <<>>] /\ arrived' = {}
  BY <1>4 DEF Restart
<1>6. Tracked(T, order', map_')
  BY <1>2, <1>3, <1>5, TrackedPrefix
<1> HIDE DEF T
<1>7. T \in Seq(LogEvents) /\ Replay(T).last_event_id_ \in Nat
  BY <1>6, TrackedFacts
<1>8. Extends(T, log', expected', last_event_id_')
  <2>1. /\ Len(T) \in Nat /\ last_event_id_' \in Nat /\ expected' = last_event_id_'
        /\ last_event_id_' - expected' = 0
    BY <1>5, <1>7
  <2>2. log' \in Seq(LogEvents) /\ expected' \in Nat /\ expected' <= last_event_id_'
    BY <1>5, <1>7, <2>1
  <2>3. Len(T) = Len(log') + (last_event_id_' - expected')
    <3>1. Len(log') = Len(T)
      BY <1>5
    <3>2. Len(T) = Len(T) + (last_event_id_' - expected')
      BY <2>1
    <3> QED
      BY <3>1, <3>2
  <2>4. \A i \in 1..Len(log') : log'[i] = T[i]
    BY <1>5
  <2> QED
    BY <1>7, <2>1, <2>2, <2>3, <2>4 DEF Extends
<1>9. \A t \in Threads : held'[t] = <<>> /\ Len(held'[t]) = 0
  BY <1>5
<1>10. /\ HeldFit(T, log', expected', last_event_id_', held')
       /\ AllFit(T, log', expected', last_event_id_', arrived')
       /\ Own(held') /\ Disjoint(held', arrived')
  BY <1>5, <1>9 DEF HeldFit, AllFit, Own, Disjoint
<1>11. Cover(expected', last_event_id_', held', arrived')
  BY <1>5, <1>7 DEF Cover
<1>12. LeadsToMap(T)'
  BY <1>5, <1>6, <1>7, <1>8, <1>10, <1>11 DEF LeadsToMap, Flow
<1> QED
  BY <1>12 DEF IInv

(* The keys that an operation erases, in some order.                        *)
LEMMA KeysInOrder ==
  ASSUME IInv, NEW K, K \subseteq Present(map_), NEW s \in SetToSeqs(K)
  PROVE  s \in Seq(Present(map_)) /\ Distinct(s)
<1>1. IsFiniteSet(Present(map_))
  BY LiveEventsAndKeys DEF IInv, LeadsToMap
<1> DEFINE n == Cardinality(K)
<1>2. n \in Nat
  BY <1>1, FS_Subset, FS_CardinalityType
<1>3. s \in [1..n -> K] /\ \A i, j \in 1..n : i # j => s[i] # s[j]
  BY DEF SetToSeqs
<1> HIDE DEF n
<1>4. s \in Seq(Present(map_)) /\ Len(s) = n
  BY <1>2, <1>3
<1> QED
  BY <1>3, <1>4 DEF Distinct

(* The invariant holds in every reachable state.                            *)
THEOREM KeyValueInvariance == Spec => []IInv
<1>1. IInv /\ [Next]_vars => IInv'
  <2> SUFFICES ASSUME IInv, [Next]_vars PROVE IInv'
    OBVIOUS
  <2>1. ASSUME NEW t \in Threads, Send(t) PROVE IInv'
    BY <2>1, SendLeads
  <2>2. ASSUME NEW t \in Threads, NEW k \in Keys, erase(t, k) PROVE IInv'
    <3>1. <<k>> \in Seq(Present(map_)) /\ Distinct(<<k>>) /\ Len(<<k>>) = 1
      BY <2>2 DEF erase, Distinct
    <3> DEFINE keys == <<k>>
    <3>2. /\ Idle(t) /\ EraseKeys(keys) /\ last_event_id_' = last_event_id_ + Len(keys)
          /\ held' = [held EXCEPT ![t] = EraseEvents(keys)]
          /\ arrived' = arrived /\ expected' = expected /\ log' = log
      BY <2>2, <3>1 DEF erase
    <3> HIDE DEF keys
    <3>3. keys \in Seq(Present(map_)) /\ Distinct(keys)
      BY <3>1 DEF keys
    <3> QED
      BY <3>2, <3>3, EraseHeldLeads
  <2>3. ASSUME NEW t \in Threads, NEW k \in Keys, NEW v \in Values, set(t, k, v) PROVE IInv'
    BY <2>3, SetLeads
  <2>4. ASSUME NEW t \in Threads, NEW K \in SUBSET Present(map_), NEW s \in SetToSeqs(K),
               erase_batch(t, s)
        PROVE  IInv'
    <3>1. s \in Seq(Present(map_)) /\ Distinct(s)
      BY KeysInOrder
    <3>2. /\ EraseKeys(s) /\ last_event_id_' = last_event_id_ + Len(s)
          /\ Arrive(EraseEvents(s)) /\ held' = held
      BY <2>4 DEF erase_batch
    <3> QED
      BY <3>1, <3>2, EraseBatchLeads
  <2>5. ASSUME NEW t \in Threads, NEW s \in SetToSeqs(Present(map_) \cap Prefixed),
               erase_by_prefix(t, s)
        PROVE  IInv'
    <3>1. s \in Seq(Present(map_)) /\ Distinct(s)
      BY KeysInOrder
    <3>2. /\ Idle(t) /\ EraseKeys(s) /\ last_event_id_' = last_event_id_ + Len(s)
          /\ held' = [held EXCEPT ![t] = EraseEvents(s)]
          /\ arrived' = arrived /\ expected' = expected /\ log' = log
      BY <2>5 DEF erase_by_prefix, NextEventId
    <3> QED
      BY <3>1, <3>2, EraseHeldLeads
  <2>6. ASSUME NEW n \in 0..Len(log), Restart(n) PROVE IInv'
    BY <2>6, RestartLeads
  <2>7. CASE UNCHANGED vars
    BY <2>7 DEF vars, IInv, LeadsToMap
  <2> QED
    BY <2>1, <2>2, <2>3, <2>4, <2>5, <2>6, <2>7 DEF Next
<1> QED
  BY <1>1, InitLeads, PTL DEF Spec

(* Whatever prefix of the log survives, the event processor accepts it and  *)
(* loading it gives the values after the last operation in it.              *)
THEOREM Recovery == Spec => []RecoversHistory
<1>1. IInv => RecoversHistory
  <2> SUFFICES ASSUME IInv, NEW n \in 1..Len(log)
               PROVE  /\ ~Refused(Replay(SubSeq(log, 1, n - 1)), log[n])
                      /\ View(Load(SubSeq(log, 1, n))) = order[n]
    BY DEF RecoversHistory
  <2>1. PICK S : LeadsToMap(S)
    BY DEF IInv
  <2>2. /\ Tracked(S, order, map_) /\ S \in Seq(LogEvents) /\ log \in Seq(LogEvents)
        /\ Len(log) \in Nat /\ Len(S) \in Nat /\ Len(log) <= Len(S)
        /\ \A i \in 1..Len(log) : log[i] = S[i]
    BY <2>1 DEF LeadsToMap, Flow, Extends
  <2>3. n \in 0..Len(S) /\ n \in 1..Len(S) /\ n - 1 \in Nat /\ n > 0 /\ n \in Nat
    BY <2>2
  <2>4. SubSeq(log, 1, n) = SubSeq(S, 1, n) /\ SubSeq(log, 1, n - 1) = SubSeq(S, 1, n - 1)
        /\ log[n] = S[n]
    BY <2>2, <2>3
  <2>5. View(Load(SubSeq(S, 1, n))) = order[n]
    BY <2>2, <2>3, TrackedPrefix
  <2>6. ~Refused(Replay(SubSeq(S, 1, n - 1)), S[n])
    BY <2>2, <2>3 DEF Tracked, Recovers
  <2> QED
    BY <2>4, <2>5, <2>6
<1> QED
  BY <1>1, KeyValueInvariance, PTL

(* When every writer has handed over its events, none waits in the actor    *)
(* and the log stands for exactly the map.                                  *)
THEOREM LogIsMap == Spec => []MapMatchesLog
<1>1. IInv => MapMatchesLog
  <2> SUFFICES ASSUME IInv, \A t \in Threads : Idle(t)
               PROVE  /\ arrived = {} /\ Load(log) = map_
                      /\ Len(for_each(Replay(log))) = Cardinality(Present(map_))
    BY DEF MapMatchesLog
  <2>1. PICK S : LeadsToMap(S)
    BY DEF IInv
  <2>2. /\ Tracked(S, order, map_) /\ S \in Seq(LogEvents) /\ log \in Seq(LogEvents)
        /\ Len(log) \in Nat /\ Len(S) = Len(log) + (last_event_id_ - expected)
        /\ expected \in Nat /\ last_event_id_ \in Nat /\ expected <= last_event_id_
        /\ \A i \in 1..Len(log) : log[i] = S[i]
    BY <2>1 DEF LeadsToMap, Flow, Extends
  <2>3. \A t \in Threads : held[t] = <<>> /\ Len(held[t]) = 0
    BY DEF Idle
  <2>4. last_event_id_ = expected
    <3> SUFFICES ASSUME expected < last_event_id_ PROVE FALSE
      BY <2>2
    <3>1. expected \in expected..(last_event_id_ - 1)
      BY <2>2
    <3>2. \E a \in arrived : a.seq_no = expected
      BY <2>1, <2>3, <3>1 DEF LeadsToMap, Flow, Cover
    <3> QED
      BY <2>1, <3>2 DEF LeadsToMap
  <2>5. arrived = {}
    <3> SUFFICES ASSUME NEW a \in arrived PROVE FALSE
      OBVIOUS
    <3>1. a.seq_no \in expected..(last_event_id_ - 1)
      BY <2>1 DEF LeadsToMap, Flow, AllFit, Fits
    <3> QED
      BY <2>2, <2>4, <3>1
  <2>6. S = log
    <3>1. Len(S) = Len(log)
      BY <2>2, <2>4
    <3>2. \A i \in 1..Len(S) : S[i] = log[i]
      BY <2>2, <3>1
    <3> QED
      BY <2>2, <3>1, <3>2, SeqEqual
  <2> QED
    BY <2>2, <2>5, <2>6, TrackedFacts, LiveEventsAndKeys
<1> QED
  BY <1>1, KeyValueInvariance, PTL
=============================================================================
