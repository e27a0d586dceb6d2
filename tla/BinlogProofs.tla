---------------------------- MODULE BinlogProofs ----------------------------
(***************************************************************************)
(* Binlog on a disk, for any number of events, files, crashes and          *)
(* regenerations: what is loaded is what the client did up to a moment     *)
(* that is not before the last acknowledged sync.                          *)
(***************************************************************************)
EXTENDS Binlog, BinlogLemmas

-----------------------------------------------------------------------------
(* Sequences of events that can be replayed.                                *)

Erasures == [type : {"empty"}, id : Nat, val : Nat, rewrite : BOOLEAN]

BufferEvents == Data(Nat) \cup Erasures

PlainKey == [type |-> "key", id |-> 0, val |-> 0, rewrite |-> FALSE]

LogEvents == BufferEvents \cup {PlainKey}

(* None of the events is refused.                                           *)
Good(events) ==
  /\ events \in Seq(LogEvents)
  /\ \A i \in 0..Len(events) : Agree(Replay(SubSeq(events, 1, i)), Nat)
  /\ \A i \in 1..Len(events) : ~Refused(Replay(SubSeq(events, 1, i - 1)), events[i])

Shown(events, j) == Contents(Replay(SubSeq(events, 1, j)))

(* Every prefix from s on shows contents of the history h, in its order.    *)
Tracked(events, s, h) ==
  \E at \in [s..Len(events) -> 1..Len(h)] :
    /\ \A j \in s..Len(events) : h[at[j]] = Shown(events, j)
    /\ \A i, j \in s..Len(events) : i <= j => at[i] <= at[j]

(* Every prefix from s on shows C.                                          *)
Constant(events, s, C) == \A j \in s..Len(events) : Shown(events, j) = C

-----------------------------------------------------------------------------
(* Files.                                                                   *)

TornTypes == {"short", "bad", "zero"}

(* The damaged events that the theorems allow at the end of a file.         *)
TornOf(plain) == IF plain THEN TornTypes ELSE TornTypes \ {"zero"}

Items == [type : {"data", "empty", "key"} \cup TornTypes, id : Nat, val : Nat, rewrite : BOOLEAN,
          key : Keys \cup {NoKey}, pos : Nat]

FileRecords == [items : Seq(Items), synced : Nat]

Ciphers == [key : Keys \cup {NoKey}, pos : Nat]

Legible(items) == \A i \in 1..Len(items) : Readable(items, i)

(* Files of a client without keys have no key event, the others of those    *)
(* with keys start with one.                                                *)
Kind(plain, items) ==
  items # <<>> => IF plain THEN items[1].type # "key"
                  ELSE items[1].type \in {"key"} \cup TornTypes /\ (items[1].type = "key" => items[1].key # NoKey)

(* Readable up to r, behind which there is at most a torn event.            *)
Sound(items, r) ==
  /\ r \in 0..Len(items) /\ Len(items) <= r + 1
  /\ r < Len(items) => items[Len(items)].type \in TornTypes
  /\ Legible(SubSeq(items, 1, r))
  /\ Good(Events(SubSeq(items, 1, r)))

(* No '\0' bytes at the end of an encrypted file.                           *)
NoZeros(plain, items) == items # <<>> /\ items[Len(items)].type = "zero" => plain

SoundFile(plain, f) ==
  /\ f \in FileRecords /\ f.synced <= Len(f.items)
  /\ Kind(plain, f.items) /\ NoZeros(plain, f.items)
  /\ \E r \in 0..Len(f.items) : Sound(f.items, r)

(* A load of f gives contents of the history h, whatever is torn off before.*)
Recoverable(f, h) ==
  \E r \in 0..Len(f.items) :
    /\ Sound(f.items, r)
    /\ Tracked(Events(SubSeq(f.items, 1, r)), IF f.synced <= r THEN f.synced ELSE r, h)

(* What is appended can be read.                                            *)
InStep(plain, items, c) ==
  IF plain THEN c.key = NoKey
  ELSE items # <<>> /\ c.key = FileKey(items) /\ c.pos = Len(items)

-----------------------------------------------------------------------------
(* The invariant.                                                           *)

Plain == client.keys = {NoKey}

(* What the theorems assume.  Unlink and rename are durable and in order.   *)
(* A client has a key from its first run on, and then can open path.new, or *)
(* it never has one and does not call change_key.  The file sizes at which  *)
(* do_add_event regenerates (50000 bytes and more) are not below the size   *)
(* at which it flushes (1 << 14).  So no empty file is regenerated, for     *)
(* which RecoversAcknowledged fails, as it does without the first; without  *)
(* the second FileMatchesMemory does.  And no power loss leaves '\0' bytes  *)
(* in an encrypted file that load_binlog ignores: with those both fail.     *)
Regular ==
  /\ DirOpsDurable
  /\ NoKey \notin ChangeKeys
  /\ \A c \in Clients :
       /\ c.keys = {NoKey} \/ (NoKey \notin c.keys /\ ~c.open_fails)
       /\ \A r \in c.rules : LazyFlushSize <= r[1]
       /\ c.tails \subseteq TornOf(c.keys = {NoKey})

(* The file that a load would take.                                         *)
ToLoad == IF Dir.path # 0 THEN FileOf(Dir.path) ELSE FileOf(Dir.new)

Disk ==
  /\ dirs = <<Dir>> /\ Dir \in [path : 0..5, new : 0..5]
  /\ Dir.path # 0 => Dir.path # Dir.new
  /\ DOMAIN files = 1..5
  /\ \A n \in 1..5 : SoundFile(Plain, files[n])
  /\ \A n \in 1..5 : n \notin {Dir.path, Dir.new} => files[n] = NoFile
  /\ fd_ \in {0, Dir.path, Dir.new}

Histories == Seq(SUBSET (Nat \X Nat))

Memory ==
  /\ client \in Clients /\ operations \in Nat
  /\ hist \in Histories /\ hist # <<>>
  /\ buffer_ \in Seq(BufferEvents) /\ cipher \in Ciphers
  /\ need_sync_ \in BOOLEAN /\ wrote \in BOOLEAN /\ start_empty \in BOOLEAN

(* The events of the file f, followed by the buffer b.                      *)
Log(f, b) == Events(f.items) \o b

(* The processor p has the contents that the client expects.                *)
Holds(p, last, h) ==
  /\ last \in Nat /\ Agree(p, Nat) /\ p.last_event_id_ <= last
  /\ Contents(p) = Last(h)

(* The file f with the buffer b leads to the contents of the processor p.   *)
Leads(f, b, p, last) ==
  /\ Legible(f.items) /\ Good(Log(f, b))
  /\ Contents(Replay(Log(f, b))) = Contents(p)
  /\ Replay(Log(f, b)).last_event_id_ <= last

Covers(f, b, h) == Tracked(Log(f, b), f.synced, h)

Settled(f, b, s, h) == Constant(Log(f, b), s, Last(h))

(* A file whose events have been read or written and tracked.               *)
Safe(f, h) == Legible(f.items) /\ Good(Events(f.items)) /\ Tracked(Events(f.items), f.synced, h)

Closed ==
  /\ fd_ = 0 /\ buffer_ = <<>> /\ ~wrote
  /\ Recoverable(ToLoad, hist)

(* What is in memory is in the open file and the buffer.                    *)
Loaded ==
  /\ fd_ # 0 /\ db_key_ \in client.keys
  /\ Holds(processor_, last_event_id_, hist)
  /\ Leads(files[fd_], buffer_, processor_, last_event_id_)

AtPath ==
  /\ Loaded /\ fd_ = Dir.path
  /\ Covers(files[fd_], buffer_, hist)
  /\ wrote /\ ~need_sync_ /\ buffer_ = <<>> => Settled(files[fd_], buffer_, files[fd_].synced, hist)

Attuned ==
  /\ InStep(Plain, files[fd_].items, cipher)
  /\ FileKey(files[fd_].items) = db_key_

Running == AtPath /\ Attuned

Reopening ==
  /\ AtPath
  /\ InStep(Plain, files[fd_].items, cipher) \/ (~Plain /\ buffer_ = <<>>)
  /\ Plain => files[fd_].items # <<>>

Regenerating ==
  /\ Loaded /\ fd_ = Dir.new /\ Attuned
  /\ start_empty => Settled(files[fd_], buffer_, 0, hist)

PathSafe == Dir.path # 0 /\ Safe(files[Dir.path], hist)

Writing == Regenerating /\ PathSafe

Complete == Writing /\ buffer_ = <<>>

Replacing ==
  /\ Regenerating /\ buffer_ = <<>> /\ ~need_sync_
  /\ Settled(files[fd_], buffer_, files[fd_].synced, hist)

Destroying ==
  /\ fd_ = Dir.path /\ buffer_ = <<>> /\ PathSafe /\ Last(hist) = {}

BinlogIInv ==
  /\ Regular /\ Disk /\ Memory
  /\ recovery # "wrong"
  /\ pc \in {"closed", "run", "reindex_open", "reindex_write", "reindex_sync", "reindex_unlink",
             "reindex_rename", "destroy_new", "destroy_path"}
  /\ pc = "closed" => Closed
  /\ pc = "run" => Running
  /\ pc = "reindex_open" => Reopening
  /\ pc = "reindex_write" => Writing
  /\ pc = "reindex_sync" => Complete
  /\ pc = "reindex_unlink" => Replacing /\ PathSafe
  /\ pc = "reindex_rename" => Replacing /\ Dir.path = 0
  /\ pc = "destroy_new" => Destroying
  /\ pc = "destroy_path" => Destroying /\ Dir.new = 0

-----------------------------------------------------------------------------
(* Replaying one event more.                                                *)

LEMMA PrefixFacts ==
  ASSUME NEW S, NEW s \in Seq(S), NEW k \in 0..Len(s)
  PROVE  /\ SubSeq(s, 1, k) \in Seq(S) /\ Len(SubSeq(s, 1, k)) = k
         /\ \A i \in 1..k : SubSeq(s, 1, k)[i] = s[i]
         /\ \A j \in 0..k : SubSeq(SubSeq(s, 1, k), 1, j) = SubSeq(s, 1, j)
<1> DEFINE t == SubSeq(s, 1, k)
<1>1. t \in Seq(S) /\ Len(t) = k /\ \A i \in 1..k : t[i] = s[i]
  OBVIOUS
<1>2. ASSUME NEW j \in 0..k PROVE SubSeq(t, 1, j) = SubSeq(s, 1, j)
  <2> HIDE DEF t
  <2> QED
    BY <1>1
<1> QED
  BY <1>1, <1>2

LEMMA AppendFacts ==
  ASSUME NEW S, NEW s \in Seq(S), NEW e \in S
  PROVE  /\ Append(s, e) \in Seq(S) /\ Len(Append(s, e)) = Len(s) + 1
         /\ Append(s, e)[Len(s) + 1] = e
         /\ \A i \in 1..Len(s) : Append(s, e)[i] = s[i]
         /\ \A n \in 0..Len(s) : SubSeq(Append(s, e), 1, n) = SubSeq(s, 1, n)
         /\ SubSeq(Append(s, e), 1, Len(s) + 1) = Append(s, e)
         /\ SubSeq(s, 1, Len(s)) = s
OBVIOUS

LEMMA ConcatFacts ==
  ASSUME NEW S, NEW s \in Seq(S), NEW t \in Seq(S)
  PROVE  /\ s \o t \in Seq(S) /\ Len(s \o t) = Len(s) + Len(t) /\ Len(s) \in Nat /\ Len(t) \in Nat
         /\ \A i \in 1..Len(s) : (s \o t)[i] = s[i]
         /\ \A i \in 1..(Len(s) + Len(t)) : i > Len(s) => (s \o t)[i] = t[i - Len(s)]
OBVIOUS

LEMMA ReplayAppend ==
  ASSUME NEW s \in Seq(LogEvents), NEW e \in LogEvents
  PROVE  Replay(Append(s, e)) = do_event(Replay(s), e)
<1> DEFINE l == Append(s, e)
           n == Len(s) + 1
<1>1. l \in Seq(LogEvents) /\ Len(l) = n /\ n - 1 = Len(s) /\ n \in 1..Len(l) /\ l[n] = e
      /\ SubSeq(l, 1, n - 1) = s /\ SubSeq(l, 1, n) = l
  BY AppendFacts
<1> HIDE DEF l, n
<1>2. Replay(SubSeq(l, 1, n)) = do_event(Replay(SubSeq(l, 1, n - 1)), l[n])
  BY <1>1, ReplayProperties
<1> QED
  BY <1>1, <1>2 DEF l

LEMMA GoodFacts ==
  ASSUME NEW s, Good(s)
  PROVE  /\ s \in Seq(LogEvents) /\ Len(s) \in Nat
         /\ Agree(Replay(s), Nat) /\ Shown(s, Len(s)) = Contents(Replay(s))
<1>1. s \in Seq(LogEvents) /\ Len(s) \in Nat
  BY DEF Good
<1>2. SubSeq(s, 1, Len(s)) = s /\ Len(s) \in 0..Len(s)
  BY <1>1
<1> QED
  BY <1>1, <1>2 DEF Good, Shown

LEMMA GoodEmpty ==
  /\ Good(<<>>) /\ Contents(Replay(<<>>)) = {} /\ Replay(<<>>).last_event_id_ = 0
  /\ Shown(<<>>, 0) = {}
<1> DEFINE s == <<>>
<1>1. s \in Seq(LogEvents) /\ Len(s) = 0 /\ SubSeq(s, 1, 0) = s
  OBVIOUS
<1> HIDE DEF s
<1>2. Replay(s) = EmptyProcessor
  BY <1>1, ReplayProperties
<1>3. Agree(Replay(s), Nat) /\ Contents(Replay(s)) = {} /\ Replay(s).last_event_id_ = 0
  BY <1>2, EmptyAgrees
<1>4. \A i \in 0..Len(s) : SubSeq(s, 1, i) = s
  BY <1>1
<1>5. \A i \in 1..Len(s) : FALSE
  BY <1>1
<1>6. Good(s) /\ Shown(s, 0) = {}
  BY <1>1, <1>3, <1>4, <1>5 DEF Good, Shown
<1> QED
  BY <1>3, <1>6 DEF s

LEMMA GoodPrefix ==
  ASSUME NEW s, Good(s), NEW k \in 0..Len(s)
  PROVE  /\ Good(SubSeq(s, 1, k))
         /\ \A j \in 0..k : Shown(SubSeq(s, 1, k), j) = Shown(s, j)
<1> DEFINE t == SubSeq(s, 1, k)
<1>1. s \in Seq(LogEvents) /\ Len(s) \in Nat
  BY DEF Good
<1>2. /\ t \in Seq(LogEvents) /\ Len(t) = k /\ \A i \in 1..k : t[i] = s[i]
      /\ \A j \in 0..k : SubSeq(t, 1, j) = SubSeq(s, 1, j)
  BY <1>1, PrefixFacts
<1> HIDE DEF t
<1>3. \A i \in 0..k : i \in 0..Len(s)
  BY <1>1
<1>4. \A i \in 1..k : i \in 1..Len(s) /\ i - 1 \in 0..k
  BY <1>1
<1>5. \A i \in 0..Len(t) : Agree(Replay(SubSeq(t, 1, i)), Nat)
  BY <1>2, <1>3 DEF Good
<1>6. \A i \in 1..Len(t) : ~Refused(Replay(SubSeq(t, 1, i - 1)), t[i])
  BY <1>2, <1>4 DEF Good
<1> QED
  BY <1>2, <1>5, <1>6 DEF Good, Shown, t

LEMMA GoodAppend ==
  ASSUME NEW s, Good(s), NEW e \in LogEvents,
         ~Refused(Replay(s), e), Agree(do_event(Replay(s), e), Nat)
  PROVE  /\ Good(Append(s, e)) /\ Replay(Append(s, e)) = do_event(Replay(s), e)
         /\ \A j \in 0..Len(s) : Shown(Append(s, e), j) = Shown(s, j)
         /\ Shown(Append(s, e), Len(s) + 1) = Contents(do_event(Replay(s), e))
<1> DEFINE t == Append(s, e)
           n == Len(s)
<1>1. s \in Seq(LogEvents) /\ n \in Nat
  BY DEF Good
<1>2. /\ t \in Seq(LogEvents) /\ Len(t) = n + 1 /\ t[n + 1] = e
      /\ \A i \in 1..n : t[i] = s[i]
      /\ \A j \in 0..n : SubSeq(t, 1, j) = SubSeq(s, 1, j)
      /\ SubSeq(t, 1, n + 1) = t /\ SubSeq(s, 1, n) = s
  BY <1>1, AppendFacts
<1>3. Replay(t) = do_event(Replay(s), e)
  BY <1>1, ReplayAppend
<1> HIDE DEF t
<1>4. ASSUME NEW i \in 0..Len(t) PROVE Agree(Replay(SubSeq(t, 1, i)), Nat)
  <2>1. CASE i = n + 1
    BY <1>2, <1>3, <2>1
  <2>2. CASE i # n + 1
    <3>1. i \in 0..n
      BY <1>1, <1>2, <2>2
    <3> QED
      BY <1>2, <3>1 DEF Good
  <2> QED
    BY <2>1, <2>2
<1>5. ASSUME NEW i \in 1..Len(t) PROVE ~Refused(Replay(SubSeq(t, 1, i - 1)), t[i])
  <2>1. CASE i = n + 1
    <3>1. i - 1 = n /\ n \in 0..n
      BY <1>1, <2>1
    <3> QED
      BY <1>2, <2>1, <3>1
  <2>2. CASE i # n + 1
    <3>1. i \in 1..n /\ i - 1 \in 0..n
      BY <1>1, <1>2, <2>2
    <3> QED
      BY <1>2, <3>1 DEF Good
  <2> QED
    BY <2>1, <2>2
<1>6. Good(t)
  BY <1>2, <1>4, <1>5 DEF Good
<1> QED
  BY <1>1, <1>2, <1>3, <1>6 DEF Shown, t

(* The key event at the beginning of a file changes nothing.                *)
LEMMA KeyChangesNothing ==
  ASSUME NEW p, Agree(p, Nat)
  PROVE  /\ ~Refused(p, PlainKey) /\ Agree(do_event(p, PlainKey), Nat)
         /\ Contents(do_event(p, PlainKey)) = Contents(p)
         /\ do_event(p, PlainKey).last_event_id_ = p.last_event_id_
<1>1. ~IsRewrite(p, PlainKey) /\ PlainKey.type # "data"
  BY DEF IsRewrite, PlainKey
<1>2. do_event(p, PlainKey) = MaybeCompactify(p) /\ ~Refused(p, PlainKey)
  BY <1>1 DEF do_event, Refused
<1> QED
  BY <1>2, MaybeCompactifyProperties

-----------------------------------------------------------------------------
(* What a client does next fits to the contents C and the last identifier.  *)

Fits(e, C, last) ==
  /\ e \in BufferEvents
  /\ IF e.rewrite THEN \E c \in C : c[1] = e.id ELSE e.type = "data" /\ e.id = last + 1

After(e, C) ==
  IF e.type = "empty" THEN {c \in C : c[1] # e.id}
  ELSE IF e.rewrite THEN {c \in C : c[1] # e.id} \cup {<<e.id, e.val>>}
  ELSE C \cup {<<e.id, e.val>>}

LEMMA EventStep ==
  ASSUME NEW p, Agree(p, Nat), NEW last \in Nat, p.last_event_id_ <= last,
         NEW e, Fits(e, Contents(p), last)
  PROVE  /\ ~Refused(p, e) /\ Agree(do_event(p, e), Nat)
         /\ Contents(do_event(p, e)) = After(e, Contents(p))
         /\ do_event(p, e).last_event_id_ <= last + 1
<1>1. p.last_event_id_ \in Nat
  BY TypedFields DEF Agree
<1>2. CASE e \in Erasures
  <2>1. e.type = "empty" /\ e.rewrite
    BY <1>2 DEF Erasures, Fits
  <2>2. PICK c \in Contents(p) : c[1] = e.id
    BY <2>1 DEF Fits
  <2>3. PICK i \in Alive(p) : p.events_[i].id = c[1]
    BY LiveOfContents
  <2>4. e.id = p.events_[i].id
    BY <2>2, <2>3
  <2> QED
    BY <1>1, <2>1, <2>4, DoEventErase DEF After
<1>3. CASE e \in Data(Nat)
  <2>1. e.type = "data" /\ e.rewrite \in BOOLEAN
    BY <1>3 DEF Data
  <2>2. CASE e.rewrite
    <3>1. PICK c \in Contents(p) : c[1] = e.id
      BY <2>2 DEF Fits
    <3>2. PICK i \in Alive(p) : p.events_[i].id = c[1]
      BY LiveOfContents
    <3>3. e.id = p.events_[i].id
      BY <3>1, <3>2
    <3> QED
      BY <1>1, <1>3, <2>1, <2>2, <3>3, DoEventRewrite DEF After
  <2>3. CASE ~e.rewrite
    <3>1. e.id = last + 1 /\ e.id > p.last_event_id_
      BY <1>1, <2>3 DEF Fits
    <3>2. /\ ~Refused(p, e) /\ Agree(do_event(p, e), Nat)
          /\ Contents(do_event(p, e)) = Contents(p) \cup {<<e.id, e.val>>}
          /\ do_event(p, e).last_event_id_ = e.id
      BY <1>3, <3>1, DoEventNew
    <3> QED
      BY <2>1, <2>3, <3>1, <3>2 DEF After
  <2> QED
    BY <2>1, <2>2, <2>3
<1> QED
  BY <1>2, <1>3 DEF Fits, BufferEvents

LEMMA ContentsType ==
  ASSUME NEW p, Agree(p, Nat)
  PROVE  Contents(p) \in SUBSET (Nat \X Nat)
<1> DEFINE s == for_each(p)
<1>1. s \in Seq(Data(Nat)) /\ Contents(p) = {<<s[j].id, s[j].val>> : j \in 1..Len(s)}
  BY ForEachIncreases
<1> HIDE DEF s
<1>2. \A j \in 1..Len(s) : s[j] \in Data(Nat)
  BY <1>1
<1>3. \A e \in Data(Nat) : e.id \in Nat /\ e.val \in Nat
  BY DEF Data
<1> QED
  BY <1>1, <1>2, <1>3

-----------------------------------------------------------------------------
(* What do_reindex writes: perhaps a key event, and the live events.        *)

LEMMA LiveBelowLast ==
  ASSUME NEW p, Agree(p, Nat), NEW c \in Contents(p)
  PROVE  c[1] <= p.last_event_id_
<1>1. PICK i \in Alive(p) : p.events_[i].id = c[1]
  BY LiveOfContents
<1>2. /\ p.events_[i] \in Data(Nat) /\ p.events_[i].id * 2 = p.event_ids_[i]
      /\ p.last_event_id_ \in Nat
  BY <1>1, TypedFields DEF Agree
<1>3. i \in 1..Len(p.event_ids_)
  BY <1>1 DEF Alive
<1>4. p.event_ids_[i] <= p.last_event_id_ * 2 + 1
  BY <1>3 DEF Agree, Sorted
<1>5. p.events_[i].id \in Nat
  BY <1>2 DEF Data
<1> QED
  BY <1>1, <1>2, <1>4, <1>5

LEMMA HeadGood ==
  ASSUME NEW head \in {<<>>, <<PlainKey>>}
  PROVE  /\ Good(head) /\ Contents(Replay(head)) = {} /\ Replay(head).last_event_id_ = 0
         /\ Constant(head, 0, {})
<1>1. CASE head = <<>>
  <2>1. Len(head) = 0
    BY <1>1
  <2>2. \A j \in 0..Len(head) : j = 0
    BY <2>1
  <2> QED
    BY <1>1, <2>2, GoodEmpty DEF Constant
<1>2. CASE head = <<PlainKey>>
  <2> DEFINE s == <<>>
  <2>1. Good(s) /\ Contents(Replay(s)) = {} /\ Replay(s).last_event_id_ = 0 /\ Shown(s, 0) = {}
        /\ Agree(Replay(s), Nat)
    BY GoodEmpty, GoodFacts
  <2>2. head = Append(s, PlainKey) /\ Len(s) = 0
    BY <1>2
  <2> HIDE DEF s
  <2>3. PlainKey \in LogEvents
    BY DEF LogEvents
  <2>4. /\ ~Refused(Replay(s), PlainKey) /\ Agree(do_event(Replay(s), PlainKey), Nat)
        /\ Contents(do_event(Replay(s), PlainKey)) = {}
        /\ do_event(Replay(s), PlainKey).last_event_id_ = 0
    BY <2>1, KeyChangesNothing
  <2>5. /\ Good(head) /\ Replay(head) = do_event(Replay(s), PlainKey)
        /\ \A j \in 0..0 : Shown(head, j) = Shown(s, j)
        /\ Shown(head, 0 + 1) = {}
    BY <2>1, <2>2, <2>3, <2>4, GoodAppend
  <2>6. Len(head) = 1 /\ \A j \in 0..1 : j = 0 \/ j = 1
    BY <1>2
  <2>7. Shown(head, 0) = {} /\ Shown(head, 1) = {}
    BY <2>1, <2>5
  <2> QED
    BY <2>4, <2>5, <2>6, <2>7 DEF Constant
<1> QED
  BY <1>1, <1>2

LEMMA RegeneratedGood ==
  ASSUME NEW p, Agree(p, Nat), NEW head \in {<<>>, <<PlainKey>>}
  PROVE  LET w == head \o for_each(p)
         IN  /\ Good(w) /\ Contents(Replay(w)) = Contents(p)
             /\ Replay(w).last_event_id_ <= p.last_event_id_
             /\ Contents(p) = {} => Constant(w, 0, {})
<1> DEFINE live == for_each(p)
           n == Len(live)
           w(k) == head \o SubSeq(live, 1, k)
           C(e) == <<e.id, e.val>>
           Right(k) == /\ Good(w(k)) /\ Contents(Replay(w(k))) = {C(live[j]) : j \in 1..k}
                       /\ Replay(w(k)).last_event_id_ = IF k = 0 THEN 0 ELSE live[k].id
           S == {k \in 0..n : Right(k)}
<1>1. /\ live \in Seq(Data(Nat)) /\ Increasing(live)
      /\ Contents(p) = {C(live[j]) : j \in 1..n}
  BY ForEachIncreases
<1>2. head \in Seq(LogEvents) /\ p.last_event_id_ \in Nat
  <2>1. Good(head)
    BY HeadGood
  <2> QED
    BY <2>1, GoodFacts, TypedFields DEF Agree
<1>3. n \in Nat /\ \A j \in 1..n : live[j] \in Data(Nat)
  <2> HIDE DEF live
  <2> QED
    BY <1>1
<1>4. \A e \in Data(Nat) : e.id \in Nat /\ e \in LogEvents
  BY DEF Data, LogEvents, BufferEvents
<1> HIDE DEF live, C
<1>5. w(0) = head
  BY <1>1, <1>2
<1>6. Right(0)
  <2>1. {C(live[j]) : j \in 1..0} = {}
    OBVIOUS
  <2> HIDE DEF w
  <2> QED
    BY <1>5, <2>1, HeadGood
<1>7. ASSUME NEW k \in 1..n, Right(k - 1) PROVE Right(k)
  <2>1. w(k) = Append(w(k - 1), live[k])
    <3>1. SubSeq(live, 1, k) = Append(SubSeq(live, 1, k - 1), live[k])
      BY <1>1, <1>3
    <3>2. SubSeq(live, 1, k - 1) \in Seq(LogEvents) /\ live[k] \in LogEvents
      <4>1. live \in Seq(LogEvents)
        BY <1>1, <1>3, <1>4
      <4>2. k - 1 \in 0..n /\ n = Len(live)
        BY <1>3
      <4> HIDE DEF n
      <4> QED
        BY <1>3, <1>4, <4>1, <4>2, PrefixFacts
    <3> QED
      BY <1>2, <3>1, <3>2
  <2> DEFINE v == w(k - 1)
             e == live[k]
             q == Replay(v)
  <2>2. Good(v) /\ Agree(q, Nat) /\ Contents(q) = {C(live[j]) : j \in 1..(k - 1)}
        /\ q.last_event_id_ = IF k - 1 = 0 THEN 0 ELSE live[k - 1].id
    BY <1>7, GoodFacts
  <2>3. e \in Data(Nat) /\ e.id > q.last_event_id_
    <3>1. live[k] \in Data(Nat) /\ live[k].id > 0
      BY <1>1, <1>3 DEF Increasing
    <3>2. k - 1 # 0 => k - 1 \in 1..n /\ k - 1 < k
      BY <1>3
    <3>3. k - 1 # 0 => live[k - 1].id < live[k].id /\ live[k - 1].id \in Nat
      BY <1>1, <1>3, <1>4, <3>2 DEF Increasing
    <3>4. live[k].id \in Nat
      BY <1>4, <3>1
    <3> HIDE DEF w
    <3> QED
      BY <2>2, <3>1, <3>3, <3>4
  <2> HIDE DEF v, e, q, w
  <2>4. /\ ~Refused(q, e) /\ Agree(do_event(q, e), Nat) /\ do_event(q, e).last_event_id_ = e.id
        /\ Contents(do_event(q, e)) = Contents(q) \cup {C(e)}
    BY <2>2, <2>3, DoEventNew DEF C
  <2>5. Good(Append(v, e)) /\ Replay(Append(v, e)) = do_event(q, e)
    BY <1>4, <2>2, <2>3, <2>4, GoodAppend DEF q
  <2>6. Contents(Replay(w(k))) = {C(live[j]) : j \in 1..k}
    <3>1. 1..k = 1..(k - 1) \cup {k}
      BY <1>3
    <3>2. {C(live[j]) : j \in 1..k} = {C(live[j]) : j \in 1..(k - 1)} \cup {C(live[k])}
      BY <3>1
    <3> QED
      BY <2>1, <2>2, <2>4, <2>5, <3>2 DEF v, e
  <2>7. k # 0
    BY <1>3
  <2> QED
    BY <2>1, <2>4, <2>5, <2>6, <2>7 DEF v, e
<1>8. \A i \in 0..n : i \in S
  <2>1. 0 \in S
    BY <1>3, <1>6
  <2>2. \A i \in 1..n : i - 1 \in S => i \in S
    <3> HIDE DEF Right
    <3> QED
      BY <1>3, <1>7
  <2> HIDE DEF S
  <2> QED
    BY <1>3, <2>1, <2>2, StepInduction
<1>9. w(n) = head \o live
  BY <1>1, <1>2
<1>10. Right(n)
  <2> HIDE DEF Right
  <2>1. n \in 0..n
    BY <1>3
  <2> QED
    BY <1>8, <2>1
<1>11. Replay(w(n)).last_event_id_ <= p.last_event_id_
  <2>1. CASE n = 0
    BY <1>2, <1>10, <2>1
  <2>2. CASE n # 0
    <3>1. n \in 1..n
      BY <1>3, <2>2
    <3>2. C(live[n]) \in Contents(p)
      BY <1>1, <3>1
    <3>3. C(live[n])[1] <= p.last_event_id_
      BY <3>2, LiveBelowLast
    <3> HIDE DEF w
    <3> QED
      BY <1>10, <2>2, <3>3 DEF C
  <2> QED
    BY <2>1, <2>2
<1>12. ASSUME Contents(p) = {} PROVE Constant(w(n), 0, {})
  <2>1. n = 0
    <3>1. \A j \in 1..n : C(live[j]) \in Contents(p)
      BY <1>1
    <3> QED
      BY <1>3, <1>12, <3>1
  <2> HIDE DEF w
  <2> QED
    BY <1>5, <2>1, HeadGood
<1> HIDE DEF w
<1> QED
  BY <1>1, <1>9, <1>10, <1>11, <1>12 DEF live

-----------------------------------------------------------------------------
(* Tracked prefixes.                                                        *)

LEMMA TrackedPart ==
  ASSUME NEW s, Good(s), NEW a \in Nat, NEW h, Tracked(s, a, h),
         NEW k \in 0..Len(s), NEW b \in a..k
  PROVE  Tracked(SubSeq(s, 1, k), b, h)
<1> DEFINE t == SubSeq(s, 1, k)
<1>1. Len(s) \in Nat /\ Len(t) = k
  BY GoodFacts, PrefixFacts
<1>2. \A j \in 0..k : Shown(t, j) = Shown(s, j)
  BY GoodPrefix
<1> HIDE DEF t
<1>3. PICK at \in [a..Len(s) -> 1..Len(h)] :
         /\ \A j \in a..Len(s) : h[at[j]] = Shown(s, j)
         /\ \A i, j \in a..Len(s) : i <= j => at[i] <= at[j]
  BY DEF Tracked
<1>4. \A j \in b..k : j \in a..Len(s) /\ j \in 0..k
  BY <1>1
<1> DEFINE to == [j \in b..k |-> at[j]]
<1>5. to \in [b..Len(t) -> 1..Len(h)]
  BY <1>1, <1>3, <1>4
<1>6. \A j \in b..Len(t) : h[to[j]] = Shown(t, j)
  BY <1>1, <1>2, <1>3, <1>4
<1>7. \A i, j \in b..Len(t) : i <= j => to[i] <= to[j]
  BY <1>1, <1>3, <1>4
<1> HIDE DEF to
<1> QED
  BY <1>5, <1>6, <1>7 DEF Tracked, t

LEMMA TrackedFrom ==
  ASSUME NEW s, Good(s), NEW a \in Nat, NEW h, Tracked(s, a, h), NEW b \in a..Len(s)
  PROVE  Tracked(s, b, h)
<1> DEFINE t == SubSeq(s, 1, Len(s))
<1>1. s \in Seq(LogEvents) /\ Len(s) \in Nat
  BY GoodFacts
<1>2. t = s
  BY <1>1
<1>3. Len(s) \in 0..Len(s)
  BY <1>1
<1>4. Tracked(t, b, h)
  BY <1>3, TrackedPart
<1> HIDE DEF t
<1> QED
  BY <1>2, <1>4

LEMMA TrackedLater ==
  ASSUME NEW s, NEW a, NEW H, NEW h \in Seq(H), Tracked(s, a, h), NEW x \in H
  PROVE  Tracked(s, a, Append(h, x))
<1> DEFINE g == Append(h, x)
<1>1. Len(h) \in Nat /\ Len(g) = Len(h) + 1 /\ \A i \in 1..Len(h) : g[i] = h[i]
  OBVIOUS
<1> HIDE DEF g
<1>2. PICK at \in [a..Len(s) -> 1..Len(h)] :
         /\ \A j \in a..Len(s) : h[at[j]] = Shown(s, j)
         /\ \A i, j \in a..Len(s) : i <= j => at[i] <= at[j]
  BY DEF Tracked
<1>3. at \in [a..Len(s) -> 1..Len(g)]
  BY <1>1, <1>2
<1>4. \A j \in a..Len(s) : g[at[j]] = Shown(s, j)
  BY <1>1, <1>2
<1> QED
  BY <1>2, <1>3, <1>4 DEF Tracked, g

LEMMA TrackedAdd ==
  ASSUME NEW s, Good(s), NEW t, Len(t) = Len(s) + 1,
         \A j \in 0..Len(s) : Shown(t, j) = Shown(s, j),
         NEW a \in 0..Len(s), NEW H, NEW h \in Seq(H), Tracked(s, a, h),
         NEW x \in H, x = Shown(t, Len(t))
  PROVE  Tracked(t, a, Append(h, x))
<1> DEFINE g == Append(h, x)
           n == Len(s)
<1>1. n \in Nat
  BY GoodFacts
<1>2. Len(h) \in Nat /\ Len(g) = Len(h) + 1 /\ g[Len(g)] = x /\ \A i \in 1..Len(h) : g[i] = h[i]
  OBVIOUS
<1> HIDE DEF g
<1>3. PICK at \in [a..n -> 1..Len(h)] :
         /\ \A j \in a..n : h[at[j]] = Shown(s, j)
         /\ \A i, j \in a..n : i <= j => at[i] <= at[j]
  BY DEF Tracked
<1> DEFINE to == [j \in a..Len(t) |-> IF j = n + 1 THEN Len(g) ELSE at[j]]
<1>4. \A j \in a..Len(t) : j = n + 1 \/ (j \in a..n /\ j \in 0..n /\ j # n + 1)
  BY <1>1
<1>5. \A j \in a..n : at[j] \in 1..Len(h) /\ at[j] \in 1..Len(g) /\ at[j] <= Len(g)
  BY <1>2, <1>3
<1>6. to \in [a..Len(t) -> 1..Len(g)]
  BY <1>2, <1>4, <1>5
<1>7. ASSUME NEW j \in a..Len(t) PROVE g[to[j]] = Shown(t, j)
  <2>1. CASE j = n + 1
    BY <1>2, <2>1
  <2>2. CASE j # n + 1
    BY <1>2, <1>3, <1>4, <1>5, <2>2
  <2> QED
    BY <2>1, <2>2
<1>8. ASSUME NEW i \in a..Len(t), NEW j \in a..Len(t), i <= j PROVE to[i] <= to[j]
  <2>1. CASE j = n + 1
    BY <1>2, <1>4, <1>5, <2>1
  <2>2. CASE j # n + 1
    <3>1. j \in a..n /\ i \in a..n /\ i # n + 1
      BY <1>1, <1>4, <1>8, <2>2
    <3> QED
      BY <1>3, <1>8, <2>2, <3>1
  <2> QED
    BY <2>1, <2>2
<1> HIDE DEF to
<1> QED
  BY <1>6, <1>7, <1>8 DEF Tracked, g

LEMMA TrackedConstant ==
  ASSUME NEW s, NEW a, NEW H, NEW h \in Seq(H), h # <<>>, Constant(s, a, Last(h))
  PROVE  Tracked(s, a, h)
<1>1. Len(h) \in Nat /\ Len(h) \in 1..Len(h) /\ Last(h) = h[Len(h)]
  BY DEF Last
<1> DEFINE to == [j \in a..Len(s) |-> Len(h)]
<1>2. to \in [a..Len(s) -> 1..Len(h)]
  BY <1>1
<1>3. \A j \in a..Len(s) : h[to[j]] = Shown(s, j)
  BY <1>1 DEF Constant
<1>4. \A i, j \in a..Len(s) : i <= j => to[i] <= to[j]
  BY <1>1
<1> HIDE DEF to
<1> QED
  BY <1>2, <1>3, <1>4 DEF Tracked

(* The last prefix is in the history, which may be cut at the last moment   *)
(* that has the same contents.                                              *)
LEMMA TrackedCut ==
  ASSUME NEW s, Good(s), NEW a \in 0..Len(s), NEW H, NEW h \in Seq(H), Tracked(s, a, h)
  PROVE  /\ \E i \in 1..Len(h) : h[i] = Contents(Replay(s))
         /\ \A k \in 1..Len(h) :
              (\A i \in 1..Len(h) : h[i] = Contents(Replay(s)) => i <= k)
                => Tracked(s, a, SubSeq(h, 1, k))
<1> DEFINE n == Len(s)
<1>1. n \in Nat /\ n \in a..n /\ Shown(s, n) = Contents(Replay(s))
  BY GoodFacts
<1>2. PICK at \in [a..n -> 1..Len(h)] :
         /\ \A j \in a..n : h[at[j]] = Shown(s, j)
         /\ \A i, j \in a..n : i <= j => at[i] <= at[j]
  BY DEF Tracked
<1>3. at[n] \in 1..Len(h) /\ h[at[n]] = Contents(Replay(s))
  BY <1>1, <1>2
<1>4. ASSUME NEW k \in 1..Len(h), \A i \in 1..Len(h) : h[i] = Contents(Replay(s)) => i <= k
      PROVE  Tracked(s, a, SubSeq(h, 1, k))
  <2> DEFINE g == SubSeq(h, 1, k)
  <2>1. Len(g) = k /\ \A i \in 1..k : g[i] = h[i]
    OBVIOUS
  <2> HIDE DEF g
  <2>2. at[n] <= k
    BY <1>3, <1>4
  <2>3. ASSUME NEW j \in a..n PROVE at[j] \in 1..k
    <3>1. j <= n /\ at[j] \in 1..Len(h)
      BY <1>1, <1>2
    <3>2. at[j] <= at[n]
      BY <1>1, <1>2, <3>1
    <3> QED
      BY <1>3, <2>2, <3>1, <3>2
  <2>4. at \in [a..n -> 1..Len(g)]
    BY <1>2, <2>1, <2>3
  <2>5. \A j \in a..n : g[at[j]] = Shown(s, j)
    BY <1>2, <2>1, <2>3
  <2> QED
    BY <1>2, <2>4, <2>5 DEF Tracked, g
<1> QED
  BY <1>3, <1>4

LEMMA ConstantPart ==
  ASSUME NEW s, NEW C, NEW a \in Nat, NEW b \in Nat, a <= b, Len(s) \in Nat, Constant(s, a, C)
  PROVE  Constant(s, b, C)
BY DEF Constant

LEMMA ConstantEnd ==
  ASSUME NEW s, Good(s), NEW C, Contents(Replay(s)) = C
  PROVE  Constant(s, Len(s), C)
<1>1. Len(s) \in Nat /\ Shown(s, Len(s)) = C
  BY GoodFacts
<1> QED
  BY <1>1 DEF Constant

-----------------------------------------------------------------------------
(* Reading a file.                                                          *)

EventRecords == [type : {"data", "empty", "key"} \cup TornTypes, id : Nat, val : Nat, rewrite : BOOLEAN]

LEMMA EventsFacts ==
  ASSUME NEW items \in Seq(Items)
  PROVE  /\ Events(items) \in Seq(EventRecords) /\ Len(Events(items)) = Len(items)
         /\ Len(items) \in Nat
         /\ \A i \in 1..Len(items) : items[i] \in Items /\ Events(items)[i] = EventOf(items[i])
         /\ \A k \in 0..Len(items) : Events(SubSeq(items, 1, k)) = SubSeq(Events(items), 1, k)
<1> DEFINE n == Len(items)
           ev == Events(items)
<1>1. n \in Nat /\ DOMAIN items = 1..n /\ \A i \in 1..n : items[i] \in Items
  OBVIOUS
<1>2. \A x \in Items : EventOf(x) \in EventRecords
  BY DEF Items, EventRecords, EventOf
<1>3. ev = [i \in 1..n |-> EventOf(items[i])]
  BY <1>1 DEF Events
<1>4. \A i \in 1..n : EventOf(items[i]) \in EventRecords
  BY <1>1, <1>2
<1>5. ev \in Seq(EventRecords) /\ Len(ev) = n
  BY <1>1, <1>3, <1>4
<1>6. ASSUME NEW k \in 0..n PROVE Events(SubSeq(items, 1, k)) = SubSeq(ev, 1, k)
  <2> DEFINE t == SubSeq(items, 1, k)
  <2>1. t \in Seq(Items) /\ Len(t) = k /\ DOMAIN t = 1..k /\ \A i \in 1..k : t[i] = items[i]
    BY <1>1, PrefixFacts
  <2>2. Events(t) = [i \in 1..k |-> EventOf(t[i])]
    BY <2>1 DEF Events
  <2>3. SubSeq(ev, 1, k) = [i \in 1..k |-> ev[i]]
    BY <1>1, <1>5
  <2>4. \A i \in 1..k : EventOf(t[i]) = ev[i]
    BY <1>1, <1>3, <2>1
  <2> HIDE DEF t, ev
  <2> QED
    BY <2>2, <2>3, <2>4 DEF t
<1> QED
  BY <1>1, <1>3, <1>5, <1>6

LEMMA PrefixReadable ==
  ASSUME NEW items \in Seq(Items), NEW k \in 0..Len(items)
  PROVE  /\ k > 0 => FileKey(SubSeq(items, 1, k)) = FileKey(items)
         /\ \A i \in 1..k : Readable(SubSeq(items, 1, k), i) <=> Readable(items, i)
<1> DEFINE t == SubSeq(items, 1, k)
<1>1. t \in Seq(Items) /\ Len(t) = k /\ Len(items) \in Nat /\ \A i \in 1..k : t[i] = items[i]
  BY PrefixFacts
<1> HIDE DEF t
<1>2. ASSUME k > 0 PROVE FileKey(t) = FileKey(items)
  <2>1. t # <<>> /\ items # <<>> /\ t[1] = items[1]
    BY <1>1, <1>2
  <2> QED
    BY <2>1 DEF FileKey
<1>3. ASSUME NEW i \in 1..k PROVE Readable(t, i) <=> Readable(items, i)
  <2>1. k > 0 /\ t[i] = items[i]
    BY <1>1
  <2> QED
    BY <1>2, <2>1 DEF Readable
<1> QED
  BY <1>2, <1>3 DEF t

(* load_binlog stops at the torn event.                                     *)
LEMMA SoundLength ==
  ASSUME NEW items \in Seq(Items), NEW r, Sound(items, r)
  PROVE  ReadableLength(items) = r
<1> DEFINE P(k) == /\ \A i \in 1..k : Readable(items, i)
                   /\ k < Len(items) => ~Readable(items, k + 1)
<1>1. r \in 0..Len(items) /\ Len(items) \in Nat /\ Len(items) <= r + 1
  BY DEF Sound
<1>2. \A i \in 1..r : Readable(items, i)
  <2>1. Len(SubSeq(items, 1, r)) = r
    BY <1>1, PrefixFacts
  <2> QED
    BY <1>1, <2>1, PrefixReadable DEF Sound, Legible
<1>3. r < Len(items) => ~Readable(items, r + 1)
  <2>1. SUFFICES ASSUME r < Len(items) PROVE ~Readable(items, r + 1)
    OBVIOUS
  <2>2. r + 1 = Len(items) /\ items[r + 1].type \in TornTypes
    BY <1>1, <2>1 DEF Sound
  <2> QED
    BY <2>2 DEF Readable, TornTypes
<1>4. P(r)
  BY <1>2, <1>3
<1>5. ASSUME NEW k \in 0..Len(items), P(k) PROVE k = r
  <2>1. CASE k < r
    <3>1. k + 1 \in 1..r /\ k < Len(items)
      BY <1>1, <2>1
    <3> QED
      BY <1>2, <1>5, <3>1
  <2>2. CASE k > r
    <3>1. r + 1 \in 1..k /\ r < Len(items)
      BY <1>1, <2>2
    <3> QED
      BY <1>3, <1>5, <3>1
  <2> QED
    BY <1>1, <2>1, <2>2
<1>6. ReadableLength(items) = CHOOSE k \in 0..Len(items) : P(k)
  BY DEF ReadableLength
<1> HIDE DEF P
<1> QED
  BY <1>1, <1>4, <1>5, <1>6

LEMMA NoneRefused ==
  ASSUME NEW events, Good(events)
  PROVE  RefusedAt(events) = 0
<1>1. DOMAIN events = 1..Len(events)
  BY GoodFacts
<1>2. {i \in DOMAIN events : Refused(Replay(SubSeq(events, 1, i - 1)), events[i])} = {}
  BY <1>1 DEF Good
<1> QED
  BY <1>2 DEF RefusedAt

(* A file that is readable to the end, and one with a torn event behind.    *)
LEMMA LegibleSound ==
  ASSUME NEW items \in Seq(Items), Legible(items), Good(Events(items))
  PROVE  Sound(items, Len(items)) /\ SubSeq(items, 1, Len(items)) = items
<1>1. Len(items) \in Nat /\ SubSeq(items, 1, Len(items)) = items
  OBVIOUS
<1> DEFINE n == Len(items)
<1>2. n \in 0..n /\ n <= n + 1 /\ ~(n < n)
  BY <1>1
<1>3. Legible(SubSeq(items, 1, n)) /\ Good(Events(SubSeq(items, 1, n)))
  BY <1>1
<1> QED
  BY <1>1, <1>2, <1>3 DEF Sound

LEMMA TornSound ==
  ASSUME NEW items \in Seq(Items), Legible(items), Good(Events(items)), NEW x \in Items, x.type \in TornTypes
  PROVE  /\ Append(items, x) \in Seq(Items) /\ Len(Append(items, x)) = Len(items) + 1
         /\ Sound(Append(items, x), Len(items))
         /\ SubSeq(Append(items, x), 1, Len(items)) = items
<1> DEFINE t == Append(items, x)
           n == Len(items)
<1>1. /\ n \in Nat /\ t \in Seq(Items) /\ Len(t) = n + 1 /\ t[n + 1] = x
      /\ SubSeq(t, 1, n) = items
  BY AppendFacts
<1> HIDE DEF t
<1>2. n \in 0..Len(t) /\ Len(t) <= n + 1 /\ (n < Len(t) => t[Len(t)].type \in TornTypes)
  BY <1>1
<1> QED
  BY <1>1, <1>2 DEF Sound, t

LEMMA TornItem ==
  ASSUME NEW kind \in TornTypes
  PROVE  Torn(kind) \in Items /\ Torn(kind).type = kind
BY DEF Torn, Items, TornTypes

LEMMA SoundPrefix ==
  ASSUME NEW items \in Seq(Items), NEW r, Sound(items, r), NEW k \in 0..r
  PROVE  LET t == SubSeq(items, 1, k)
         IN  t \in Seq(Items) /\ Len(t) = k /\ Legible(t) /\ Good(Events(t))
             /\ Events(t) = SubSeq(Events(SubSeq(items, 1, r)), 1, k)
<1> DEFINE t == SubSeq(items, 1, k)
           u == SubSeq(items, 1, r)
<1>1. r \in 0..Len(items) /\ Len(items) \in Nat /\ k \in 0..Len(items)
  BY DEF Sound
<1>2. /\ t \in Seq(Items) /\ Len(t) = k /\ u \in Seq(Items) /\ Len(u) = r
      /\ t = SubSeq(u, 1, k)
  BY <1>1, PrefixFacts
<1> HIDE DEF t
<1>3. Legible(u) /\ Good(Events(u))
  BY DEF Sound
<1> HIDE DEF u
<1>4. Events(t) = SubSeq(Events(u), 1, k) /\ Len(Events(u)) = r
  BY <1>2, EventsFacts
<1>5. Good(Events(t))
  BY <1>3, <1>4, GoodPrefix
<1>6. Legible(t)
  <2> SUFFICES ASSUME NEW i \in 1..k PROVE Readable(t, i)
    BY <1>2 DEF Legible
  <2>1. i \in 1..Len(u) /\ k \in 0..Len(u)
    BY <1>1, <1>2
  <2>2. Readable(u, i)
    BY <1>3, <2>1 DEF Legible
  <2> QED
    BY <1>2, <2>1, <2>2, PrefixReadable
<1> QED
  BY <1>2, <1>4, <1>5, <1>6 DEF t, u

LEMMA KindPrefix ==
  ASSUME NEW plain, NEW items \in Seq(Items), Kind(plain, items), NEW k \in 0..Len(items)
  PROVE  /\ Kind(plain, SubSeq(items, 1, k))
         /\ \A x \in Items : x.type \in TornTypes => Kind(plain, Append(SubSeq(items, 1, k), x))
<1> DEFINE t == SubSeq(items, 1, k)
<1>1. t \in Seq(Items) /\ Len(t) = k /\ Len(items) \in Nat /\ \A i \in 1..k : t[i] = items[i]
  BY PrefixFacts
<1> HIDE DEF t
<1>2. t # <<>> => 1 \in 1..k /\ t[1] = items[1] /\ items # <<>>
  BY <1>1
<1>3. Kind(plain, t)
  BY <1>2 DEF Kind
<1>4. ASSUME NEW x \in Items, x.type \in TornTypes PROVE Kind(plain, Append(t, x))
  <2>1. CASE t = <<>>
    <3>1. Append(t, x)[1] = x
      BY <1>1, <2>1
    <3> QED
      BY <1>4, <3>1 DEF Kind, TornTypes
  <2>2. CASE t # <<>>
    <3>1. Append(t, x)[1] = t[1]
      BY <1>1, <2>2
    <3> QED
      BY <1>3, <2>2, <3>1 DEF Kind
  <2> QED
    BY <2>1, <2>2
<1> QED
  BY <1>3, <1>4 DEF t

LEMMA LegibleEnd ==
  ASSUME NEW plain, NEW items \in Seq(Items), Legible(items)
  PROVE  NoZeros(plain, items)
<1> SUFFICES ASSUME items # <<>> PROVE items[Len(items)].type # "zero"
  BY DEF NoZeros
<1>1. Len(items) \in 1..Len(items)
  OBVIOUS
<1> QED
  BY <1>1 DEF Legible, Readable

-----------------------------------------------------------------------------
(* What is left of a file.                                                  *)

(* A file that is readable to the end, or has a torn event behind items.    *)
LEMMA EndUsable ==
  ASSUME NEW plain, NEW f \in FileRecords, f.synced <= Len(f.items),
         NEW items \in Seq(Items), Legible(items), Good(Events(items)), Kind(plain, items),
         f.items = items \/ \E kind \in TornOf(plain) : f.items = Append(items, Torn(kind))
  PROVE  /\ SoundFile(plain, f)
         /\ \A h : Tracked(Events(items), IF f.synced <= Len(items) THEN f.synced ELSE Len(items), h)
                     => Recoverable(f, h)
<1> DEFINE n == Len(items)
<1>1. n \in Nat /\ SubSeq(items, 1, n) = items
  OBVIOUS
<1>2. n \in 0..Len(f.items) /\ Sound(f.items, n) /\ SubSeq(f.items, 1, n) = items
      /\ Kind(plain, f.items) /\ NoZeros(plain, f.items)
  <2>1. CASE f.items = items
    <3>1. Sound(items, n)
      BY LegibleSound
    <3>2. NoZeros(plain, items)
      BY LegibleEnd
    <3> QED
      BY <1>1, <2>1, <3>1, <3>2
  <2>2. CASE \E kind \in TornOf(plain) : f.items = Append(items, Torn(kind))
    <3>1. PICK kind \in TornOf(plain) : f.items = Append(items, Torn(kind))
      BY <2>2
    <3> DEFINE x == Torn(kind)
    <3>2. x \in Items /\ x.type \in TornTypes /\ (x.type = "zero" => plain)
      <4>1. kind \in TornTypes /\ (kind = "zero" => plain)
        BY DEF TornOf, TornTypes
      <4> QED
        BY <4>1, TornItem
    <3> HIDE DEF x
    <3>3. /\ Len(Append(items, x)) = n + 1 /\ Sound(Append(items, x), n)
          /\ SubSeq(Append(items, x), 1, n) = items
      BY <3>2, TornSound
    <3>4. Kind(plain, Append(items, x))
      <4>1. n \in 0..Len(items)
        BY <1>1
      <4> QED
        BY <1>1, <3>2, <4>1, KindPrefix
    <3>5. f.items = Append(items, x)
      BY <3>1 DEF x
    <3>6. n \in 0..(n + 1)
      BY <1>1
    <3>7. NoZeros(plain, Append(items, x))
      <4>1. Append(items, x)[Len(Append(items, x))] = x
        BY <1>1, <3>2, <3>3, AppendFacts
      <4> QED
        BY <3>2, <4>1 DEF NoZeros
    <3> QED
      BY <3>3, <3>4, <3>5, <3>6, <3>7
  <2> QED
    BY <2>1, <2>2
<1>3. SoundFile(plain, f)
  BY <1>2 DEF SoundFile
<1> QED
  BY <1>2, <1>3 DEF Recoverable

LEMMA PowerLossFile ==
  ASSUME NEW plain, NEW f, SoundFile(plain, f), client.tails \subseteq TornOf(plain),
         NEW g \in AfterPowerLoss(f)
  PROVE  SoundFile(plain, g) /\ \A h : Recoverable(f, h) => Recoverable(g, h)
<1> DEFINE s == f.items
           n == Len(s)
           kept(k) == SubSeq(s, 1, k)
<1>1. /\ s \in Seq(Items) /\ n \in Nat /\ f.synced \in Nat /\ f.synced <= n /\ Kind(plain, s)
      /\ f \in FileRecords
  BY DEF SoundFile, FileRecords
<1>2. PICK r \in 0..n : Sound(s, r)
  BY DEF SoundFile
<1>3. n <= r + 1 /\ r \in Nat
  BY <1>1, <1>2 DEF Sound
<1> DEFINE m == IF f.synced <= r THEN f.synced ELSE r
           all == Events(SubSeq(s, 1, r))
<1>4. Good(all) /\ Len(all) = r
  <2>1. SubSeq(s, 1, r) \in Seq(Items) /\ Len(SubSeq(s, 1, r)) = r
    BY <1>1, <1>2, PrefixFacts
  <2> QED
    BY <1>2, <2>1, EventsFacts DEF Sound
<1>5. \A h : Recoverable(f, h) => Tracked(all, m, h)
  <2> SUFFICES ASSUME NEW h, Recoverable(f, h) PROVE Tracked(all, m, h)
    OBVIOUS
  <2>1. PICK x \in 0..n : /\ Sound(s, x)
                          /\ Tracked(Events(SubSeq(s, 1, x)), IF f.synced <= x THEN f.synced ELSE x, h)
    BY DEF Recoverable
  <2>2. x = r
    BY <1>1, <1>2, <2>1, SoundLength
  <2> QED
    BY <2>1, <2>2
<1>6. m \in Nat /\ m <= r
  BY <1>1, <1>3
<1> HIDE DEF all, m
<1>7. ASSUME NEW k \in m..r, NEW i \in FileRecords, i.synced \in k..Len(i.items),
             i.items = kept(k) \/ \E kind \in TornOf(plain) : i.items = Append(kept(k), Torn(kind))
      PROVE  SoundFile(plain, i) /\ \A h : Recoverable(f, h) => Recoverable(i, h)
  <2>0. k \in 0..r /\ k \in 0..n
    BY <1>1, <1>6
  <2> DEFINE t == kept(k)
  <2>1. t \in Seq(Items) /\ Len(t) = k /\ Legible(t) /\ Good(Events(t)) /\ Events(t) = SubSeq(all, 1, k)
    BY <1>1, <1>2, <2>0, SoundPrefix DEF all
  <2>2. Kind(plain, t)
    BY <1>1, <2>0, KindPrefix
  <2>3. i.synced \in Nat /\ i.synced <= Len(i.items) /\ k <= i.synced
    <3>1. Len(i.items) \in Nat /\ i.synced \in Nat
      BY <1>7 DEF FileRecords
    <3> QED
      BY <1>7, <2>0, <3>1
  <2> HIDE DEF t
  <2>4. i.items = t \/ \E kind \in TornOf(plain) : i.items = Append(t, Torn(kind))
    BY <1>7 DEF t
  <2>5. /\ SoundFile(plain, i)
        /\ \A h : Tracked(Events(t), IF i.synced <= Len(t) THEN i.synced ELSE Len(t), h) => Recoverable(i, h)
    BY <2>1, <2>2, <2>3, <2>4, EndUsable
  <2>6. (IF i.synced <= Len(t) THEN i.synced ELSE Len(t)) = k
    BY <2>0, <2>1, <2>3
  <2>7. ASSUME NEW h, Recoverable(f, h) PROVE Tracked(Events(t), k, h)
    <3>1. Tracked(all, m, h)
      BY <1>5, <2>7
    <3>2. k \in m..k /\ k \in 0..Len(all)
      BY <1>4, <1>6, <2>0
    <3> QED
      BY <1>4, <1>6, <2>1, <3>1, <3>2, TrackedPart
  <2> QED
    BY <2>5, <2>6, <2>7
<1>8. PICK c \in {kept(k) : k \in f.synced..n}
                    \cup {Append(kept(k), Torn(kind)) : k \in f.synced..(n - 1), kind \in TornOf(plain)} :
         g = [items |-> c, synced |-> Len(c)]
  BY DEF AfterPowerLoss
<1>9. ASSUME c \in Seq(Items) PROVE g \in FileRecords /\ g.items = c /\ g.synced = Len(c) /\ Len(c) \in Nat
  BY <1>8, <1>9 DEF FileRecords
<1>10. CASE \E k \in f.synced..n : c = kept(k)
  <2>1. PICK k \in f.synced..n : c = kept(k)
    BY <1>10
  <2>2. c \in Seq(Items) /\ Len(c) = k /\ k \in Nat /\ k <= n
    <3>1. k \in 0..n
      BY <1>1
    <3> QED
      BY <1>1, <2>1, <3>1, PrefixFacts
  <2>3. CASE k <= r
    <3>1. k \in m..r /\ k \in k..k
      BY <1>1, <1>3, <1>6, <2>2, <2>3 DEF m
    <3> QED
      BY <1>7, <1>9, <2>1, <2>2, <3>1
  <2>4. CASE k > r
    <3>1. k = n /\ n = r + 1 /\ c = s
      BY <1>1, <1>3, <2>1, <2>2, <2>4
    <3>2. s[n].type \in TornTypes /\ r < n
      BY <1>2, <1>3, <3>1 DEF Sound
    <3> DEFINE t == SubSeq(s, 1, r)
    <3>3. t \in Seq(Items) /\ Len(t) = r /\ Legible(t) /\ Good(Events(t))
      <4>1. r \in 0..r
        BY <1>3
      <4> QED
        BY <1>1, <1>2, <4>1, SoundPrefix
    <3>4. SoundFile(plain, g)
      <4>1. NoZeros(plain, s)
        BY DEF SoundFile
      <4> QED
        BY <1>1, <1>2, <1>9, <2>2, <3>1, <4>1 DEF SoundFile
    <3>5. ASSUME NEW h, Recoverable(f, h) PROVE Recoverable(g, h)
      <4>1. Tracked(all, m, h)
        BY <1>5, <3>5
      <4>2. r \in m..r /\ r \in 0..Len(all)
        BY <1>3, <1>4, <1>6
      <4>4. Tracked(all, r, h)
        BY <1>4, <1>6, <4>1, <4>2, TrackedFrom
      <4>5. ~(g.synced <= r) /\ r \in 0..Len(g.items) /\ Sound(g.items, r)
        BY <1>2, <1>3, <1>9, <2>2, <3>1
      <4>6. g.items = s
        BY <1>9, <2>2, <3>1
      <4>7. Tracked(Events(SubSeq(g.items, 1, r)), IF g.synced <= r THEN g.synced ELSE r, h)
        <5>1. Events(SubSeq(g.items, 1, r)) = all
          BY <4>6 DEF all
        <5> QED
          BY <4>4, <4>5, <5>1
      <4> QED
        BY <4>5, <4>7 DEF Recoverable
    <3> QED
      BY <3>4, <3>5
  <2> QED
    BY <1>3, <2>2, <2>3, <2>4
<1>11. CASE \E k \in f.synced..(n - 1), kind \in TornOf(plain) : c = Append(kept(k), Torn(kind))
  <2>1. PICK k \in f.synced..(n - 1), kind \in TornOf(plain) : c = Append(kept(k), Torn(kind))
    BY <1>11
  <2>2. k \in 0..n /\ k \in m..r /\ k \in Nat
    BY <1>1, <1>3, <1>6 DEF m
  <2>3. kept(k) \in Seq(Items) /\ Len(kept(k)) = k
    BY <1>1, <2>2, PrefixFacts
  <2>4. c \in Seq(Items) /\ Len(c) = k + 1
    <3> HIDE DEF kept
    <3>1. kind \in TornTypes
      BY DEF TornOf
    <3> QED
      BY <2>1, <2>3, <3>1, TornItem, AppendFacts
  <2>5. k + 1 \in k..(k + 1)
    BY <2>2
  <2> HIDE DEF kept
  <2> QED
    BY <1>7, <1>9, <2>1, <2>2, <2>4, <2>5
<1> QED
  BY <1>8, <1>10, <1>11

-----------------------------------------------------------------------------
(* Writing to a file.                                                       *)

LEMMA EncryptedFacts ==
  ASSUME NEW b \in Seq(BufferEvents), NEW c \in Ciphers
  PROVE  LET x == Encrypted(b, c)
         IN  /\ x \in Seq(Items) /\ Len(x) = Len(b) /\ Len(b) \in Nat
             /\ \A i \in 1..Len(b) :
                  /\ x[i].type \in {"data", "empty"} /\ x[i].key = c.key /\ x[i].pos = c.pos + i
                  /\ EventOf(x[i]) = b[i]
<1> DEFINE n == Len(b)
           item(i) == [type |-> b[i].type, id |-> b[i].id, val |-> b[i].val,
                       rewrite |-> b[i].rewrite, key |-> c.key, pos |-> c.pos + i]
           x == Encrypted(b, c)
<1>1. n \in Nat /\ DOMAIN b = 1..n /\ \A i \in 1..n : b[i] \in BufferEvents
  OBVIOUS
<1>2. \A e \in BufferEvents : /\ e.type \in {"data", "empty"} /\ e.id \in Nat /\ e.val \in Nat
                              /\ e.rewrite \in BOOLEAN
                              /\ e = [type |-> e.type, id |-> e.id, val |-> e.val, rewrite |-> e.rewrite]
  <2> DEFINE Fine(e) == /\ e.type \in {"data", "empty"} /\ e.id \in Nat /\ e.val \in Nat
                        /\ e.rewrite \in BOOLEAN
                        /\ e = [type |-> e.type, id |-> e.id, val |-> e.val, rewrite |-> e.rewrite]
  <2>1. \A e \in Data(Nat) : Fine(e)
    BY DEF Data
  <2>2. \A e \in Erasures : Fine(e)
    BY DEF Erasures
  <2> HIDE DEF Fine
  <2>3. \A e \in BufferEvents : Fine(e)
    BY <2>1, <2>2 DEF BufferEvents
  <2> QED
    BY <2>3 DEF Fine
<1>3. c.key \in Keys \cup {NoKey} /\ c.pos \in Nat
  BY DEF Ciphers
<1>4. \A i \in 1..n : item(i) \in Items
  BY <1>1, <1>2, <1>3 DEF Items
<1>5. x = [i \in 1..n |-> item(i)]
  BY <1>1 DEF Encrypted
<1>6. x \in Seq(Items) /\ Len(x) = n
  BY <1>1, <1>4, <1>5
<1>7. ASSUME NEW i \in 1..n
      PROVE  /\ x[i].type \in {"data", "empty"} /\ x[i].key = c.key /\ x[i].pos = c.pos + i
             /\ EventOf(x[i]) = b[i]
  <2>1. x[i] = item(i)
    BY <1>5
  <2>2. b[i].type \in {"data", "empty"}
        /\ b[i] = [type |-> b[i].type, id |-> b[i].id, val |-> b[i].val, rewrite |-> b[i].rewrite]
    BY <1>1, <1>2
  <2>3. EventOf(item(i)) = [type |-> b[i].type, id |-> b[i].id, val |-> b[i].val, rewrite |-> b[i].rewrite]
    BY DEF EventOf
  <2> QED
    BY <2>1, <2>2, <2>3
<1> QED
  BY <1>1, <1>6, <1>7

LEMMA WriteEvents ==
  ASSUME NEW plain \in BOOLEAN, NEW items \in Seq(Items), Legible(items), Kind(plain, items),
         NEW c \in Ciphers, InStep(plain, items, c), NEW b \in Seq(BufferEvents)
  PROVE  LET t == items \o Encrypted(b, c)
             d == [c EXCEPT !.pos = @ + Len(b)]
         IN  /\ t \in Seq(Items) /\ Len(t) = Len(items) + Len(b) /\ Legible(t) /\ Kind(plain, t)
             /\ d \in Ciphers /\ InStep(plain, t, d)
             /\ Events(t) = Events(items) \o b /\ FileKey(t) = FileKey(items)
<1> DEFINE x == Encrypted(b, c)
           n == Len(items)
           t == items \o x
           d == [c EXCEPT !.pos = @ + Len(b)]
<1>1. /\ x \in Seq(Items) /\ Len(x) = Len(b) /\ Len(b) \in Nat
      /\ \A i \in 1..Len(b) : /\ x[i].type \in {"data", "empty"} /\ x[i].key = c.key
                              /\ x[i].pos = c.pos + i /\ EventOf(x[i]) = b[i]
  BY EncryptedFacts
<1> HIDE DEF x
<1>2. /\ n \in Nat /\ t \in Seq(Items) /\ Len(t) = n + Len(b)
      /\ \A i \in 1..n : t[i] = items[i]
      /\ \A i \in 1..Len(t) : i > n => i - n \in 1..Len(b) /\ t[i] = x[i - n]
  BY <1>1
<1> HIDE DEF t
<1>3. c.pos \in Nat /\ d \in Ciphers /\ d.key = c.key /\ d.pos = c.pos + Len(b)
  <2>1. c \in [key : Keys \cup {NoKey}, pos : Nat] /\ Len(b) \in Nat
    BY <1>1 DEF Ciphers
  <2>2. d = [key |-> c.key, pos |-> c.pos + Len(b)]
    BY <2>1
  <2>3. c.pos \in Nat /\ c.key \in Keys \cup {NoKey} /\ c.pos + Len(b) \in Nat
    BY <2>1
  <2> HIDE DEF d
  <2> QED
    BY <2>2, <2>3 DEF Ciphers
<1> HIDE DEF d
<1>4. items # <<>> => 1 \in 1..n /\ t # <<>> /\ t[1] = items[1]
  <2> SUFFICES ASSUME items # <<>> PROVE 1 \in 1..n /\ t # <<>> /\ t[1] = items[1]
    OBVIOUS
  <2>1. n # 0
    OBVIOUS
  <2>2. 1 \in 1..n
    BY <1>2, <2>1
  <2>3. t[1] = items[1]
    BY <1>2, <2>2, Zenon
  <2>4. Len(t) # 0
    BY <1>1, <1>2, <2>1
  <2>5. t # <<>>
    BY <2>4
  <2> QED
    BY <2>2, <2>3, <2>5, Zenon
<1>5. items = <<>> /\ t # <<>> => t[1].type \in {"data", "empty"}
  <2> SUFFICES ASSUME items = <<>>, t # <<>> PROVE t[1].type \in {"data", "empty"}
    OBVIOUS
  <2>1. n = 0 /\ 1 \in 1..Len(t)
    BY <1>1, <1>2
  <2>2. 1 - n \in 1..Len(b) /\ t[1] = x[1 - n]
    BY <1>2, <2>1
  <2> QED
    BY <1>1, <2>2
<1>6. FileKey(t) = FileKey(items)
  <2>1. CASE items # <<>>
    BY <1>4, <2>1 DEF FileKey
  <2>2. CASE items = <<>>
    BY <1>5, <2>2 DEF FileKey
  <2> QED
    BY <2>1, <2>2
<1>7. Kind(plain, t)
  <2>1. CASE items # <<>>
    BY <1>4, <2>1 DEF Kind
  <2>2. CASE items = <<>>
    BY <1>5, <2>2 DEF Kind, InStep
  <2> QED
    BY <2>1, <2>2
<1>8. plain => FileKey(items) = NoKey
  BY DEF Kind, FileKey
<1>9. ASSUME NEW i \in 1..Len(t) PROVE Readable(t, i)
  <2>1. CASE i <= n
    <3>1. i \in 1..n
      BY <2>1
    <3>2. Readable(items, i) /\ t[i] = items[i]
      BY <1>2, <3>1 DEF Legible
    <3> QED
      BY <1>6, <3>2 DEF Readable
  <2>2. CASE i > n
    <3>1. i - n \in 1..Len(b) /\ t[i] = x[i - n]
      BY <1>2, <2>2
    <3>2. t[i].type \in {"data", "empty"} /\ t[i].key = c.key /\ t[i].pos = c.pos + (i - n)
      BY <1>1, <3>1
    <3>3. c.key = FileKey(t)
      BY <1>6, <1>8 DEF InStep
    <3>4. FileKey(t) # NoKey => t[i].pos = i
      <4>1. SUFFICES ASSUME ~plain PROVE t[i].pos = i
        BY <1>6, <1>8
      <4>2. c.pos = n
        BY <4>1 DEF InStep
      <4>3. i \in Nat
        BY <1>2
      <4> QED
        BY <1>2, <3>2, <4>2, <4>3
    <3> QED
      BY <3>2, <3>3, <3>4 DEF Readable
  <2> QED
    BY <1>2, <2>1, <2>2
<1>10. InStep(plain, t, d)
  BY <1>2, <1>3, <1>4, <1>6 DEF InStep
<1>11. Events(t) = Events(items) \o b
  <2> DEFINE u == Events(t)
             v == Events(items)
             w == v \o b
  <2>1. /\ u \in Seq(EventRecords) /\ Len(u) = Len(t) /\ \A i \in 1..Len(t) : u[i] = EventOf(t[i])
        /\ v \in Seq(EventRecords) /\ Len(v) = n /\ \A i \in 1..n : v[i] = EventOf(items[i])
    BY <1>2, EventsFacts
  <2>2. b \in Seq(EventRecords)
    <3>1. \A e \in BufferEvents : e \in EventRecords
      BY DEF BufferEvents, Data, Erasures, EventRecords
    <3> QED
      BY <3>1
  <2> HIDE DEF u, v
  <2>3. /\ w \in Seq(EventRecords) /\ Len(w) = n + Len(b)
        /\ \A i \in 1..n : w[i] = v[i]
        /\ \A i \in 1..(n + Len(b)) : i > n => w[i] = b[i - n]
    <3>1. /\ w \in Seq(EventRecords) /\ Len(w) = Len(v) + Len(b)
          /\ \A i \in 1..Len(v) : w[i] = v[i]
          /\ \A i \in 1..(Len(v) + Len(b)) : i > Len(v) => w[i] = b[i - Len(v)]
      <4>1. v \in Seq(EventRecords)
        BY <2>1
      <4> QED
        BY <2>2, <4>1, ConcatFacts, Zenon
    <3>2. Len(v) = n
      BY <2>1
    <3> HIDE DEF w, n
    <3> QED
      BY <3>1, <3>2
  <2> HIDE DEF w
  <2>4. ASSUME NEW i \in 1..Len(t) PROVE u[i] = w[i]
    <3>1. CASE i <= n
      <4>1. i \in 1..n
        BY <3>1
      <4> QED
        BY <1>2, <2>1, <2>3, <4>1
    <3>2. CASE i > n
      <4>1. i - n \in 1..Len(b) /\ t[i] = x[i - n]
        BY <1>2, <3>2
      <4>2. EventOf(x[i - n]) = b[i - n] /\ w[i] = b[i - n]
        BY <1>1, <1>2, <2>3, <3>2, <4>1
      <4> QED
        BY <2>1, <4>1, <4>2
    <3> QED
      BY <1>2, <3>1, <3>2
  <2>5. u = w
    BY <1>2, <2>1, <2>3, <2>4, SeqEqual
  <2> QED
    BY <2>5 DEF u, v, w
<1> QED
  BY <1>2, <1>3, <1>6, <1>7, <1>9, <1>10, <1>11 DEF Legible, t, d, x

LEMMA ConcatPrefix ==
  ASSUME NEW S, NEW s \in Seq(S), NEW t \in Seq(S), NEW k \in 0..Len(t)
  PROVE  /\ s \o SubSeq(t, 1, k) = SubSeq(s \o t, 1, Len(s) + k)
         /\ Len(s) + k \in 0..Len(s \o t)
<1> DEFINE u == SubSeq(t, 1, k)
           w == s \o t
           x == s \o u
           m == Len(s) + k
           y == SubSeq(w, 1, m)
<1>1. u \in Seq(S) /\ Len(u) = k /\ \A i \in 1..k : u[i] = t[i]
  BY PrefixFacts
<1> HIDE DEF u
<1>2. /\ w \in Seq(S) /\ Len(w) = Len(s) + Len(t) /\ Len(s) \in Nat /\ Len(t) \in Nat
      /\ \A i \in 1..Len(s) : w[i] = s[i]
      /\ \A i \in 1..(Len(s) + Len(t)) : i > Len(s) => w[i] = t[i - Len(s)]
  BY ConcatFacts, Zenon
<1>3. /\ x \in Seq(S) /\ Len(x) = Len(s) + Len(u)
      /\ \A i \in 1..Len(s) : x[i] = s[i]
      /\ \A i \in 1..(Len(s) + Len(u)) : i > Len(s) => x[i] = u[i - Len(s)]
  <2>1. u \in Seq(S)
    BY <1>1
  <2> QED
    BY <2>1, ConcatFacts, Zenon
<1>4. m \in 0..Len(w) /\ m \in Nat
  BY <1>2
<1> HIDE DEF w, x
<1>5. y \in Seq(S) /\ Len(y) = m /\ \A i \in 1..m : y[i] = w[i]
  BY <1>2, <1>4, PrefixFacts
<1> HIDE DEF y
<1>6. ASSUME NEW i \in 1..m PROVE x[i] = y[i]
  <2>1. CASE i <= Len(s)
    <3>1. i \in 1..Len(s)
      BY <2>1
    <3> QED
      BY <1>2, <1>3, <1>5, <3>1
  <2>2. CASE i > Len(s)
    <3>1. i - Len(s) \in 1..k /\ i \in 1..(Len(s) + Len(t)) /\ i \in 1..(Len(s) + Len(u))
      BY <1>1, <1>2, <2>2
    <3> QED
      BY <1>1, <1>2, <1>3, <1>5, <2>2, <3>1
  <2> QED
    BY <1>2, <2>1, <2>2
<1>7. x = y
  BY <1>1, <1>3, <1>4, <1>5, <1>6, SeqEqual
<1> QED
  BY <1>4, <1>7 DEF x, y, u, w

LEMMA BufferAreLog ==
  ASSUME NEW b \in Seq(BufferEvents)
  PROVE  b \in Seq(EventRecords) /\ b \in Seq(LogEvents)
<1>1. \A e \in BufferEvents : e \in EventRecords /\ e \in LogEvents
  BY DEF BufferEvents, Data, Erasures, EventRecords, LogEvents
<1> QED
  BY <1>1

LEMMA WriteNothing ==
  ASSUME NEW items \in Seq(Items), NEW c \in Ciphers
  PROVE  items \o Encrypted(<<>>, c) = items
<1> DEFINE x == Encrypted(<<>>, c)
<1>1. <<>> \in Seq(BufferEvents) /\ Len(<<>>) = 0
  OBVIOUS
<1>2. x \in Seq(Items) /\ Len(x) = 0
  BY <1>1, EncryptedFacts
<1> HIDE DEF x
<1>3. x = <<>>
  BY <1>2
<1>4. items \o x = items
  BY <1>3
<1> QED
  BY <1>4 DEF x

(* A part of the buffer b in the file.                                      *)
LEMMA WritePart ==
  ASSUME NEW plain \in BOOLEAN, NEW items \in Seq(Items), Legible(items), Kind(plain, items),
         NEW b \in Seq(BufferEvents), NEW c \in Ciphers, Good(Events(items) \o b),
         InStep(plain, items, c) \/ b = <<>>, NEW k \in 0..Len(b)
  PROVE  LET t == items \o Encrypted(SubSeq(b, 1, k), c)
         IN  /\ t \in Seq(Items) /\ Len(t) = Len(items) + k /\ Legible(t) /\ Kind(plain, t)
             /\ Len(t) \in 0..Len(Events(items) \o b)
             /\ Events(t) = SubSeq(Events(items) \o b, 1, Len(t)) /\ Good(Events(t))
<1> DEFINE part == SubSeq(b, 1, k)
           ev == Events(items)
           all == ev \o b
           m == Len(items) + k
           t == items \o Encrypted(part, c)
<1>1. part \in Seq(BufferEvents) /\ Len(part) = k /\ Len(b) \in Nat /\ Len(items) \in Nat
  BY PrefixFacts
<1>2. ev \in Seq(EventRecords) /\ Len(ev) = Len(items) /\ b \in Seq(EventRecords)
  BY EventsFacts, BufferAreLog
<1> HIDE DEF ev
<1>3. ev \o part = SubSeq(all, 1, m) /\ m \in 0..Len(all)
  BY <1>2, ConcatPrefix
<1> HIDE DEF all
<1>4. Good(all)
  BY DEF all, ev
<1>5. CASE InStep(plain, items, c)
  <2>1. /\ t \in Seq(Items) /\ Len(t) = Len(items) + Len(part) /\ Legible(t) /\ Kind(plain, t)
        /\ Events(t) = ev \o part
    <3> HIDE DEF part
    <3> QED
      BY <1>1, <1>5, WriteEvents DEF ev
  <2> HIDE DEF t, part
  <2>2. Len(t) = m
    BY <1>1, <2>1
  <2>3. Events(t) = SubSeq(all, 1, m)
    <3> DEFINE x == ev \o part
               y == SubSeq(all, 1, m)
    <3> HIDE DEF x, y
    <3>1. x = y /\ Events(t) = x
      BY <1>3, <2>1 DEF x, y
    <3> QED
      BY <3>1 DEF y
  <2>4. Good(SubSeq(all, 1, m))
    BY <1>3, <1>4, GoodPrefix
  <2> QED
    BY <1>3, <2>1, <2>2, <2>3, <2>4 DEF t, part, all, ev
<1>6. CASE b = <<>>
  <2>1. k = 0 /\ part = <<>>
    BY <1>1, <1>6
  <2>2. items \o Encrypted(<<>>, c) = items
    BY WriteNothing
  <2>3. t = items
    BY <2>1, <2>2
  <2> HIDE DEF t, part
  <2>4. m = Len(items)
    BY <1>1, <2>1
  <2>5. all = ev
    BY <1>2, <1>6 DEF all
  <2>6. SubSeq(ev, 1, m) = ev
    BY <1>2, <2>4
  <2>7. Events(t) = SubSeq(all, 1, m) /\ Good(Events(t))
    BY <1>4, <2>3, <2>5, <2>6 DEF ev
  <2> QED
    BY <1>1, <1>3, <2>3, <2>4, <2>7 DEF t, part, all, ev
<1> QED
  BY <1>5, <1>6

(* A process that dies while it writes b leaves a part of it.               *)
LEMMA CrashedFile ==
  ASSUME NEW plain \in BOOLEAN, NEW items \in Seq(Items), Legible(items), Kind(plain, items),
         NEW b \in Seq(BufferEvents), NEW c \in Ciphers, Good(Events(items) \o b),
         InStep(plain, items, c) \/ b = <<>>, NEW k \in 0..Len(b),
         NEW t, t = items \o Encrypted(SubSeq(b, 1, k), c),
         NEW g \in FileRecords, g.synced <= Len(items),
         g.items = t \/ g.items = Append(t, Torn("short"))
  PROVE  /\ SoundFile(plain, g)
         /\ \A h : Tracked(Events(items) \o b, g.synced, h) => Recoverable(g, h)
<1> DEFINE all == Events(items) \o b
           m == Len(t)
<1>1. /\ t \in Seq(Items) /\ m = Len(items) + k /\ Legible(t) /\ Kind(plain, t)
      /\ m \in 0..Len(all) /\ Events(t) = SubSeq(all, 1, m) /\ Good(Events(t))
  BY WritePart
<1> HIDE DEF all
<1>2. g.synced \in Nat /\ Len(items) \in Nat /\ k \in Nat
  BY DEF FileRecords
<1>3. g.synced \in 0..m /\ m \in Nat /\ g.synced \in g.synced..m
  BY <1>1, <1>2
<1>4. g.items = t \/ \E kind \in TornOf(plain) : g.items = Append(t, Torn(kind))
  BY DEF TornTypes, TornOf
<1>5. Len(g.items) = m \/ Len(g.items) = m + 1
  <2>1. CASE g.items = t
    BY <2>1
  <2>2. CASE g.items = Append(t, Torn("short"))
    <3>1. Torn("short") \in Items
      BY TornItem DEF TornTypes
    <3>2. Len(Append(t, Torn("short"))) = m + 1
      BY <1>1, <3>1, AppendFacts
    <3> QED
      BY <2>2, <3>2
  <2> QED
    BY <2>1, <2>2
<1>6. g.synced <= Len(g.items) /\ g.synced <= m
  BY <1>3, <1>5
<1>7. /\ SoundFile(plain, g)
      /\ \A h : Tracked(Events(t), IF g.synced <= Len(t) THEN g.synced ELSE Len(t), h) => Recoverable(g, h)
  BY <1>1, <1>4, <1>6, EndUsable
<1>8. (IF g.synced <= Len(t) THEN g.synced ELSE Len(t)) = g.synced
  BY <1>6
<1>9. ASSUME NEW h, Tracked(all, g.synced, h) PROVE Recoverable(g, h)
  <2> DEFINE u == SubSeq(all, 1, m)
  <2>1. Good(all)
    BY DEF all
  <2>2. Tracked(u, g.synced, h)
    BY <1>1, <1>2, <1>3, <1>9, <2>1, TrackedPart
  <2> HIDE DEF u
  <2>3. Events(t) = u
    BY <1>1 DEF u
  <2> QED
    BY <1>7, <1>8, <2>2, <2>3
<1> QED
  BY <1>7, <1>9 DEF all

-----------------------------------------------------------------------------
(* What the steps do to a file and to what is known of it.                  *)

LEMMA FileFacts ==
  ASSUME NEW plain, NEW f, SoundFile(plain, f)
  PROVE  /\ f \in FileRecords /\ f.items \in Seq(Items) /\ f.synced \in Nat /\ f.synced \in 0..Len(f.items)
         /\ Len(f.items) \in Nat /\ Kind(plain, f.items)
         /\ Events(f.items) \in Seq(EventRecords) /\ Len(Events(f.items)) = Len(f.items)
<1>1. f \in FileRecords /\ f.items \in Seq(Items) /\ f.synced \in Nat /\ f.synced <= Len(f.items) /\ Kind(plain, f.items)
  BY DEF SoundFile, FileRecords
<1>2. Len(f.items) \in Nat
  BY <1>1
<1> QED
  BY <1>1, <1>2, EventsFacts

(* Nothing is to be written.                                                *)
LEMMA LogOfFile ==
  ASSUME NEW plain, NEW f, SoundFile(plain, f)
  PROVE  Log(f, <<>>) = Events(f.items)
<1> DEFINE ev == Events(f.items)
<1>1. ev \in Seq(EventRecords)
  BY FileFacts
<1> HIDE DEF ev
<1>2. ev \o <<>> = ev
  BY <1>1
<1> QED
  BY <1>2 DEF Log, ev

(* The part of the log that is in the file.                                 *)
LEMMA FileOfLog ==
  ASSUME NEW plain, NEW f, SoundFile(plain, f), NEW b \in Seq(BufferEvents), Good(Log(f, b))
  PROVE  /\ Good(Events(f.items))
         /\ Len(Log(f, b)) = Len(f.items) + Len(b)
         /\ \A h : Covers(f, b, h) => Tracked(Events(f.items), f.synced, h)
<1> DEFINE ev == Events(f.items)
           all == ev \o b
           n == Len(f.items)
           t == SubSeq(all, 1, n)
<1>1. ev \in Seq(EventRecords) /\ Len(ev) = n /\ n \in Nat /\ f.synced \in Nat /\ f.synced \in 0..n
  BY FileFacts
<1>2. b \in Seq(EventRecords) /\ Len(b) \in Nat
  BY BufferAreLog
<1> HIDE DEF ev
<1>3. Len(all) = n + Len(b)
  BY <1>1, <1>2
<1>4. t = ev
  <2>1. 0 \in 0..Len(b) /\ Len(ev) + 0 = n
    BY <1>1, <1>2
  <2>2. ev \o SubSeq(b, 1, 0) = SubSeq(all, 1, Len(ev) + 0)
    BY <1>1, <1>2, <2>1, ConcatPrefix
  <2>3. SubSeq(b, 1, 0) = <<>>
    BY <1>2
  <2>4. ev \o <<>> = ev
    BY <1>1
  <2> QED
    BY <2>1, <2>2, <2>3, <2>4
<1> HIDE DEF all
<1>5. Good(all) /\ n \in 0..Len(all)
  BY <1>1, <1>2, <1>3 DEF all, ev, Log
<1>6. Good(t)
  BY <1>5, GoodPrefix
<1>7. ASSUME NEW h, Tracked(all, f.synced, h) PROVE Tracked(t, f.synced, h)
  <2>1. f.synced \in f.synced..n
    BY <1>1
  <2> QED
    BY <1>1, <1>5, <1>7, <2>1, TrackedPart
<1> HIDE DEF t
<1>8. ASSUME NEW h, Covers(f, b, h) PROVE Tracked(ev, f.synced, h)
  <2>1. Tracked(all, f.synced, h)
    BY <1>8 DEF Covers, Log, all, ev
  <2> QED
    BY <1>4, <1>7, <2>1
<1> QED
  BY <1>3, <1>4, <1>6, <1>8 DEF ev, all, Log

(* A file that is safe can be loaded.                                       *)
LEMMA SafeRecoverable ==
  ASSUME NEW plain, NEW f, SoundFile(plain, f), NEW h, Safe(f, h)
  PROVE  Recoverable(f, h)
<1>1. f \in FileRecords /\ f.items \in Seq(Items) /\ f.synced <= Len(f.items) /\ Kind(plain, f.items)
  BY FileFacts DEF SoundFile
<1>2. \A g : Tracked(Events(f.items), IF f.synced <= Len(f.items) THEN f.synced ELSE Len(f.items), g)
               => Recoverable(f, g)
  BY <1>1, EndUsable DEF Safe
<1> QED
  BY <1>1, <1>2 DEF Safe

LEMMA OpenSafe ==
  ASSUME NEW plain, NEW f, SoundFile(plain, f), NEW b \in Seq(BufferEvents), NEW p, NEW last,
         Leads(f, b, p, last), NEW h, Covers(f, b, h)
  PROVE  Safe(f, h)
BY FileOfLog DEF Leads, Safe

(* The file f with b behind its end, and the cipher stream c after n events.*)
Extended(f, b, c) == [f EXCEPT !.items = f.items \o Encrypted(b, c)]

Advanced(c, n) == [c EXCEPT !.pos = @ + n]

(* flush: the log is what it was.                                           *)
LEMMA FlushFile ==
  ASSUME NEW plain \in BOOLEAN, NEW f, SoundFile(plain, f), Legible(f.items),
         NEW b \in Seq(BufferEvents), NEW c \in Ciphers, Good(Log(f, b)),
         InStep(plain, f.items, c)
  PROVE  LET g == Extended(f, b, c)
             d == Advanced(c, Len(b))
         IN  /\ SoundFile(plain, g) /\ Legible(g.items) /\ g.synced = f.synced
             /\ Len(g.items) = Len(f.items) + Len(b)
             /\ Log(g, <<>>) = Log(f, b)
             /\ d \in Ciphers /\ InStep(plain, g.items, d) /\ FileKey(g.items) = FileKey(f.items)
<1> DEFINE items == f.items
           t == items \o Encrypted(b, c)
           g == Extended(f, b, c)
           d == Advanced(c, Len(b))
<1>1. f \in FileRecords /\ items \in Seq(Items) /\ f.synced \in Nat /\ f.synced \in 0..Len(items)
      /\ Len(items) \in Nat /\ Kind(plain, items)
  BY FileFacts
<1> HIDE DEF items
<1>2. Legible(items) /\ InStep(plain, items, c)
  BY DEF items
<1>3. /\ t \in Seq(Items) /\ Len(t) = Len(items) + Len(b) /\ Legible(t) /\ Kind(plain, t)
      /\ d \in Ciphers /\ InStep(plain, t, d)
      /\ Events(t) = Events(items) \o b /\ FileKey(t) = FileKey(items)
  BY <1>1, <1>2, WriteEvents DEF Advanced
<1> HIDE DEF t, d
<1>4. g = [f EXCEPT !.items = t]
  BY DEF t, items, Extended
<1>5. g \in FileRecords /\ g.items = t /\ g.synced = f.synced
  <2> HIDE DEF g
  <2> QED
    BY <1>1, <1>3, <1>4 DEF FileRecords
<1> HIDE DEF g
<1>6. Good(Events(t)) /\ Log(f, b) = Events(t)
  BY <1>3 DEF Log, items
<1>7. g.synced <= Len(t)
  <2>1. Len(b) \in Nat
    OBVIOUS
  <2> QED
    BY <1>1, <1>3, <1>5, <2>1
<1>8. SoundFile(plain, g)
  BY <1>3, <1>5, <1>6, <1>7, EndUsable
<1>9. Log(g, <<>>) = Events(t)
  BY <1>5, <1>8, LogOfFile
<1> QED
  BY <1>3, <1>5, <1>6, <1>8, <1>9 DEF items, g, d

(* fsync: everything in the file is kept.                                   *)
LEMMA SyncFile ==
  ASSUME NEW plain, NEW f, SoundFile(plain, f), Legible(f.items), Good(Log(f, <<>>)),
         NEW g, g = [f EXCEPT !.synced = Len(f.items)]
  PROVE  /\ SoundFile(plain, g) /\ g.items = f.items
         /\ Log(g, <<>>) = Log(f, <<>>)
         /\ \A h : Covers(f, <<>>, h) => Covers(g, <<>>, h)
         /\ \A h : Contents(Replay(Log(f, <<>>))) = Last(h) => Settled(g, <<>>, g.synced, h)
<1> DEFINE n == Len(f.items)
           all == Log(f, <<>>)
<1>1. f \in FileRecords /\ f.items \in Seq(Items) /\ f.synced \in Nat /\ f.synced \in 0..n
      /\ n \in Nat /\ Kind(plain, f.items) /\ Len(Events(f.items)) = n
  BY FileFacts
<1>2. all = Events(f.items)
  BY LogOfFile
<1>3. Len(all) = n
  BY <1>1, <1>2
<1>4. g \in FileRecords /\ g.items = f.items /\ g.synced = n
  BY <1>1 DEF FileRecords
<1>5. SoundFile(plain, g)
  BY <1>1, <1>4 DEF SoundFile
<1>6. Log(g, <<>>) = all
  BY <1>4 DEF Log
<1> HIDE DEF all
<1>7. Good(all)
  BY DEF all
<1>8. ASSUME NEW h, Tracked(all, f.synced, h) PROVE Tracked(all, n, h)
  <2>1. n \in (f.synced)..Len(all)
    BY <1>1, <1>3
  <2> QED
    BY <1>1, <1>7, <1>8, <2>1, TrackedFrom
<1>9. ASSUME NEW h, Contents(Replay(all)) = Last(h) PROVE Constant(all, n, Last(h))
  BY <1>3, <1>7, <1>9, ConstantEnd
<1> QED
  BY <1>4, <1>5, <1>6, <1>8, <1>9 DEF Covers, Settled, all

LEMMA HistoryFacts ==
  ASSUME NEW h \in Histories, h # <<>>
  PROVE  /\ Last(h) \in SUBSET (Nat \X Nat)
         /\ <<Last(h)>> \in Histories /\ <<Last(h)>> # <<>> /\ Last(<<Last(h)>>) = Last(h)
         /\ \A x \in SUBSET (Nat \X Nat) :
              Append(h, x) \in Histories /\ Append(h, x) # <<>> /\ Last(Append(h, x)) = x
<1> DEFINE H == SUBSET (Nat \X Nat)
<1> HIDE DEF H
<1>1. Histories = Seq(H)
  BY DEF Histories, H
<1>2. Last(h) \in H
  BY <1>1 DEF Last
<1>3. ASSUME NEW x \in H
      PROVE  /\ <<x>> \in Seq(H) /\ <<x>> # <<>> /\ Last(<<x>>) = x
             /\ Append(h, x) \in Seq(H) /\ Append(h, x) # <<>> /\ Last(Append(h, x)) = x
  BY <1>1 DEF Last
<1> QED
  BY <1>1, <1>2, <1>3 DEF H

LEMMA SettledCovers ==
  ASSUME NEW f, NEW b, NEW h \in Histories, h # <<>>, Settled(f, b, f.synced, h)
  PROVE  /\ Covers(f, b, h) /\ Covers(f, b, <<Last(h)>>)
         /\ \A s : Settled(f, b, s, h) => Settled(f, b, s, <<Last(h)>>)
<1> DEFINE g == <<Last(h)>>
<1>1. g \in Histories /\ g # <<>> /\ Last(g) = Last(h)
  BY HistoryFacts
<1> HIDE DEF g
<1>2. Tracked(Log(f, b), f.synced, h) /\ Tracked(Log(f, b), f.synced, g)
  BY <1>1, TrackedConstant DEF Settled, Histories
<1> QED
  BY <1>1, <1>2 DEF Covers, Settled, g

(* add_event, before lazy_flush.                                            *)
LEMMA AddToLog ==
  ASSUME NEW plain, NEW f, SoundFile(plain, f), NEW b \in Seq(BufferEvents),
         NEW h \in Histories, h # <<>>, NEW p, NEW last, Holds(p, last, h),
         Leads(f, b, p, last), Covers(f, b, h), NEW e, Fits(e, Contents(p), last),
         NEW q, q = do_event(p, e), NEW g, g = Append(h, Contents(q)), NEW d, d = Append(b, e)
  PROVE  /\ d \in Seq(BufferEvents) /\ d # <<>> /\ Len(d) = Len(b) + 1
         /\ g \in Histories /\ g # <<>>
         /\ Holds(q, last + 1, g) /\ Leads(f, d, q, last + 1) /\ Covers(f, d, g)
<1> DEFINE ev == Events(f.items)
           s == Log(f, b)
           t == Log(f, d)
           n == Len(s)
           C == Contents(q)
<1>1. e \in BufferEvents
  BY DEF Fits
<1>2. d \in Seq(BufferEvents) /\ d # <<>> /\ Len(d) = Len(b) + 1
  BY <1>1
<1>3. ev \in Seq(EventRecords) /\ b \in Seq(EventRecords) /\ e \in EventRecords /\ e \in LogEvents
  BY <1>1, FileFacts, BufferAreLog DEF BufferEvents, Data, Erasures, EventRecords, LogEvents
<1> HIDE DEF ev
<1>4. ev \o Append(b, e) = Append(ev \o b, e)
  BY <1>3
<1>5. t = Append(s, e)
  BY <1>4 DEF Log, ev
<1> HIDE DEF s, t
<1>6. Good(s) /\ Agree(Replay(s), Nat) /\ Contents(Replay(s)) = Contents(p)
      /\ Replay(s).last_event_id_ <= last /\ last \in Nat /\ Agree(p, Nat) /\ p.last_event_id_ <= last
      /\ s \in Seq(LogEvents) /\ n \in Nat
  BY GoodFacts DEF Leads, Holds, s
<1>7. /\ ~Refused(p, e) /\ Agree(q, Nat) /\ C = After(e, Contents(p)) /\ q.last_event_id_ <= last + 1
  BY <1>6, EventStep
<1>8. /\ ~Refused(Replay(s), e) /\ Agree(do_event(Replay(s), e), Nat)
      /\ Contents(do_event(Replay(s), e)) = After(e, Contents(p))
      /\ do_event(Replay(s), e).last_event_id_ <= last + 1
  BY <1>6, EventStep
<1>9. /\ Good(t) /\ Replay(t) = do_event(Replay(s), e)
      /\ \A j \in 0..n : Shown(t, j) = Shown(s, j)
      /\ Shown(t, n + 1) = C
  BY <1>3, <1>5, <1>6, <1>7, <1>8, GoodAppend
<1>10. Len(t) = n + 1
  BY <1>3, <1>5, <1>6, AppendFacts
<1>11. C \in SUBSET (Nat \X Nat)
  BY <1>7, ContentsType
<1> HIDE DEF C
<1>12. g \in Histories /\ g # <<>> /\ Last(g) = C
  BY <1>11, HistoryFacts DEF C
<1>13. f.synced \in 0..n
  <2>1. Len(s) = Len(f.items) + Len(b) /\ f.synced \in Nat /\ f.synced \in 0..Len(f.items) /\ Len(f.items) \in Nat
    BY <1>6, FileOfLog, FileFacts DEF s
  <2>2. Len(b) \in Nat
    OBVIOUS
  <2> QED
    BY <2>1, <2>2
<1>14. Tracked(t, f.synced, g)
  <2>1. Tracked(s, f.synced, h)
    BY DEF Covers, s
  <2>2. g = Append(h, C)
    BY DEF C
  <2>3. C = Shown(t, Len(t))
    BY <1>9, <1>10
  <2>4. Tracked(t, f.synced, Append(h, C))
    BY <1>6, <1>9, <1>10, <1>11, <1>13, <2>1, <2>3, TrackedAdd DEF Histories
  <2> QED
    BY <2>2, <2>4
<1>15. Holds(q, last + 1, g)
  BY <1>6, <1>7, <1>12 DEF Holds, C
<1>16. Leads(f, d, q, last + 1)
  <2>1. Contents(Replay(t)) = C
    BY <1>7, <1>8, <1>9
  <2> QED
    BY <1>8, <1>9, <2>1 DEF Leads, t, C
<1> QED
  BY <1>2, <1>12, <1>14, <1>15, <1>16 DEF Covers, t

(* There is no file, or an empty one.                                       *)
LEMMA EmptyFile ==
  ASSUME NEW plain
  PROVE  /\ SoundFile(plain, NoFile)
         /\ \A h \in Histories : h # <<>> /\ Last(h) = {} => Safe(NoFile, h)
<1> DEFINE items == <<>>
           ev == Events(items)
<1>1. items \in Seq(Items) /\ Len(items) = 0
  OBVIOUS
<1>2. NoFile \in FileRecords /\ NoFile.items = items /\ NoFile.synced = 0
  BY <1>1 DEF NoFile, FileRecords
<1> HIDE DEF items
<1>3. ev = <<>>
  <2>1. ev \in Seq(EventRecords) /\ Len(ev) = 0
    BY <1>1, EventsFacts
  <2> HIDE DEF ev
  <2> QED
    BY <2>1
<1>4. Good(ev) /\ Shown(ev, 0) = {} /\ Len(ev) = 0
  BY <1>3, GoodEmpty
<1>5. Legible(items) /\ Kind(plain, items)
  BY <1>1 DEF Legible, Kind, items
<1>6. SoundFile(plain, NoFile)
  <2>1. NoFile.synced <= Len(NoFile.items) /\ NoFile.items = items
    BY <1>1, <1>2
  <2> QED
    BY <1>1, <1>2, <1>4, <1>5, <2>1, EndUsable
<1> HIDE DEF ev
<1>7. ASSUME NEW h \in Histories, h # <<>>, Last(h) = {} PROVE Tracked(ev, 0, h)
  <2>1. Constant(ev, 0, Last(h))
    BY <1>4, <1>7 DEF Constant
  <2> QED
    BY <1>7, <2>1, TrackedConstant DEF Histories
<1> QED
  BY <1>2, <1>4, <1>5, <1>6, <1>7 DEF Safe, ev

(* What load_binlog reads of a file, and what it leaves of it.              *)
ReadItems(f) == SubSeq(f.items, 1, ReadableLength(f.items))

Shrunk(f) ==
  [items |-> ReadItems(f),
   synced |-> IF f.synced <= ReadableLength(f.items) THEN f.synced ELSE ReadableLength(f.items)]

LEMMA LoadFile ==
  ASSUME NEW plain \in BOOLEAN, NEW f, SoundFile(plain, f), NEW h, Recoverable(f, h)
  PROVE  /\ ~(ReadableLength(f.items) < Len(f.items)) => ReadItems(f) = f.items
         /\ ReadItems(f) \in Seq(Items) /\ Good(Events(ReadItems(f))) /\ RefusedAt(Events(ReadItems(f))) = 0
         /\ SoundFile(plain, Shrunk(f)) /\ Safe(Shrunk(f), h) /\ Shrunk(f).items = ReadItems(f)
         /\ FileKey(f.items) \in Keys \cup {NoKey}
         /\ plain => FileKey(f.items) = NoKey /\ FileKey(ReadItems(f)) = NoKey
<1> DEFINE items == f.items
           k == ReadableLength(items)
           good == ReadItems(f)
           g == Shrunk(f)
           n == Len(items)
           s == IF f.synced <= k THEN f.synced ELSE k
<1>1. items \in Seq(Items) /\ n \in Nat /\ f.synced \in Nat /\ Kind(plain, items)
  BY FileFacts
<1>2. PICK r \in 0..n : Sound(items, r)
          /\ Tracked(Events(SubSeq(items, 1, r)), IF f.synced <= r THEN f.synced ELSE r, h)
  BY DEF Recoverable
<1> HIDE DEF items, n
<1>3. k = r
  BY <1>1, <1>2, SoundLength
<1> HIDE DEF k
<1>4. k \in 0..n /\ k \in Nat
  BY <1>1, <1>2, <1>3
<1>5. Tracked(Events(good), s, h) /\ Legible(good) /\ Good(Events(good))
  <2>1. good = SubSeq(items, 1, k)
    BY DEF ReadItems, k, items
  <2>2. Tracked(Events(SubSeq(items, 1, k)), s, h) /\ Legible(SubSeq(items, 1, k)) /\ Good(Events(SubSeq(items, 1, k)))
    BY <1>2, <1>3 DEF Sound
  <2> HIDE DEF good
  <2> QED
    BY <2>1, <2>2
<1>6. good \in Seq(Items) /\ Len(good) = k /\ Kind(plain, good)
  <2> DEFINE x == SubSeq(items, 1, k)
  <2>1. x \in Seq(Items) /\ Len(x) = k /\ Kind(plain, x)
    BY <1>1, <1>4, PrefixFacts, KindPrefix DEF n
  <2>2. good = x
    BY DEF ReadItems, k, items
  <2> HIDE DEF x, good
  <2> QED
    BY <2>1, <2>2
<1>7. s \in Nat /\ s <= k
  BY <1>1, <1>4
<1> HIDE DEF s
<1>8. g \in FileRecords /\ g.items = good /\ g.synced = s
  <2>1. g = [items |-> good, synced |-> s]
    BY DEF Shrunk, s, k, items
  <2> HIDE DEF g, good
  <2> QED
    BY <1>6, <1>7, <2>1 DEF FileRecords
<1> HIDE DEF good, g
<1>9. SoundFile(plain, g)
  BY <1>5, <1>6, <1>7, <1>8, EndUsable
<1>10. ~(k < n) => good = items
  <2> SUFFICES ASSUME ~(k < n) PROVE good = items
    OBVIOUS
  <2>1. k = n
    BY <1>1, <1>4
  <2>2. SubSeq(items, 1, k) = items
    BY <1>1, <2>1 DEF n
  <2> QED
    BY <2>2 DEF good, ReadItems, k, items
<1>11. ASSUME NEW x \in Seq(Items), Kind(plain, x)
       PROVE  FileKey(x) \in Keys \cup {NoKey} /\ (plain => FileKey(x) = NoKey)
  <2>1. x # <<>> => x[1] \in Items
    OBVIOUS
  <2>2. x # <<>> => x[1].key \in Keys \cup {NoKey}
    BY <2>1 DEF Items
  <2> QED
    BY <1>11, <2>2 DEF FileKey, Kind
<1>12. RefusedAt(Events(good)) = 0
  BY <1>5, NoneRefused
<1> QED
  BY <1>1, <1>4, <1>5, <1>6, <1>8, <1>9, <1>10, <1>11, <1>12 DEF Safe, items, n, k, good, g

(* Nothing is ignored: the tail is cut off, if there is one.                *)
LEMMA TailIsCut ==
  ASSUME NEW plain \in BOOLEAN, NEW f, SoundFile(plain, f),
         NEW tail \in Tails(f.items, ReadableLength(f.items))
  PROVE  (tail # "none" /\ ~Ignored(tail, FileKey(f.items))) <=> ReadableLength(f.items) < Len(f.items)
<1> DEFINE items == f.items
           n == Len(items)
           k == ReadableLength(items)
<1>1. items \in Seq(Items) /\ n \in Nat /\ Kind(plain, items)
  BY FileFacts
<1>2. PICK r \in 0..n : Sound(items, r)
  BY DEF SoundFile
<1>3. NoZeros(plain, items)
  BY DEF SoundFile
<1> HIDE DEF items
<1>4. k = r
  BY <1>1, <1>2, SoundLength DEF n
<1>5. tail \in Tails(items, k)
  BY DEF items
<1> HIDE DEF n, k
<1>6. k \in 0..n /\ n <= k + 1
  BY <1>1, <1>2, <1>4 DEF Sound, n
<1>7. CASE k = n
  <2>1. tail = "none"
    BY <1>5, <1>7 DEF Tails, n
  <2> QED
    BY <1>1, <1>7, <2>1 DEF items, n, k
<1>8. CASE k # n
  <2>1. n = k + 1 /\ k < n /\ items # <<>>
    BY <1>1, <1>6, <1>8 DEF n
  <2>2. tail # "none" /\ (tail = "zero" => items[n].type = "zero")
    BY <1>5, <1>8, <2>1 DEF Tails, n
  <2>3. tail = "zero" => FileKey(items) = NoKey
    BY <1>1, <1>3, <2>1, <2>2 DEF NoZeros, Kind, FileKey, n
  <2>4. ~Ignored(tail, FileKey(items))
    BY <2>3 DEF Ignored
  <2> QED
    BY <2>1, <2>2, <2>4 DEF items, n, k
<1> QED
  BY <1>7, <1>8

LEMMA GreatestNumber ==
  ASSUME NEW n \in Nat, NEW S, S \subseteq 1..n, S # {}
  PROVE  \E x \in S : \A y \in S : y <= x
<1> DEFINE T == {n - x : x \in S}
<1>1. T \subseteq Nat /\ T # {}
  <2>1. \A x \in S : n - x \in Nat
    OBVIOUS
  <2> QED
    BY <2>1
<1>2. PICK t \in T : \A u \in T : t <= u
  BY <1>1, LeastNumber
<1>3. PICK x \in S : t = n - x
  BY <1>2
<1>4. ASSUME NEW y \in S PROVE y <= x
  <2>1. n - x <= n - y
    BY <1>2, <1>3
  <2>2. x \in 1..n /\ y \in 1..n
    OBVIOUS
  <2> QED
    BY <2>1, <2>2
<1> QED
  BY <1>4

(* The client finds what it has done up to some moment.                     *)
Moments(h, C) == {i \in DOMAIN h : h[i] = C}

UpTo(h, C) == SubSeq(h, 1, CHOOSE i \in Moments(h, C) : \A j \in Moments(h, C) : j <= i)

LEMMA JudgeFacts ==
  ASSUME NEW plain, NEW f, SoundFile(plain, f), NEW h \in Histories, Safe(f, h),
         NEW C, C = Contents(Replay(Events(f.items)))
  PROVE  /\ Moments(h, C) # {} /\ UpTo(h, C) \in Histories /\ UpTo(h, C) # <<>>
         /\ Last(UpTo(h, C)) = C /\ Safe(f, UpTo(h, C))
<1> DEFINE s == Events(f.items)
           H == SUBSET (Nat \X Nat)
           same == Moments(h, C)
           k == CHOOSE i \in same : \A j \in same : j <= i
           g == SubSeq(h, 1, k)
<1> HIDE DEF H
<1>1. h \in Seq(H) /\ Histories = Seq(H)
  BY DEF Histories, H
<1>2. DOMAIN h = 1..Len(h) /\ Len(h) \in Nat
  BY <1>1
<1>3. Good(s) /\ Tracked(s, f.synced, h)
  BY DEF Safe
<1>4. f.synced \in 0..Len(s)
  BY FileFacts
<1> HIDE DEF s
<1>5. /\ \E i \in 1..Len(h) : h[i] = C
      /\ \A j \in 1..Len(h) : (\A i \in 1..Len(h) : h[i] = C => i <= j) => Tracked(s, f.synced, SubSeq(h, 1, j))
  BY <1>1, <1>3, <1>4, TrackedCut DEF s
<1>6. same # {} /\ same \subseteq 1..Len(h)
  BY <1>2, <1>5 DEF Moments
<1>7. k \in same /\ \A j \in same : j <= k
  <2>1. \E i \in same : \A j \in same : j <= i
    BY <1>2, <1>6, GreatestNumber
  <2> QED
    BY <2>1
<1>8. k \in 1..Len(h) /\ h[k] = C /\ \A i \in 1..Len(h) : h[i] = C => i <= k
  BY <1>2, <1>7 DEF Moments
<1> HIDE DEF k
<1>9. Tracked(s, f.synced, g)
  BY <1>5, <1>8
<1>10. g \in Seq(H) /\ Len(g) = k /\ g[k] = h[k]
  <2>1. k \in 0..Len(h) /\ k \in 1..k
    BY <1>2, <1>8
  <2> QED
    BY <1>1, <2>1, PrefixFacts
<1> HIDE DEF g
<1>11. g # <<>> /\ Last(g) = C
  BY <1>8, <1>10 DEF Last
<1> QED
  BY <1>1, <1>6, <1>9, <1>10, <1>11 DEF Safe, s, g, k, UpTo

(* do_reindex: the file that it creates and the cipher that it starts with. *)
Header(key) == IF key = NoKey THEN <<>> ELSE <<KeyEvent(key)>>

Started(key) == [items |-> Header(key), synced |-> 0]

StartedCipher(key) == [key |-> key, pos |-> Len(Header(key))]

LEMMA NewFile ==
  ASSUME NEW plain \in BOOLEAN, NEW key \in Keys \cup {NoKey}, plain <=> key = NoKey,
         NEW p, NEW last, NEW h, Holds(p, last, h)
  PROVE  LET g == Started(key)
             c == StartedCipher(key)
             b == for_each(p)
         IN  /\ SoundFile(plain, g) /\ b \in Seq(BufferEvents) /\ c \in Ciphers
             /\ InStep(plain, g.items, c) /\ FileKey(g.items) = key
             /\ Leads(g, b, p, last)
             /\ Contents(p) = {} => Settled(g, b, 0, h)
<1> DEFINE head == Header(key)
           g == Started(key)
           c == StartedCipher(key)
           b == for_each(p)
           ev == Events(head)
<1>0. /\ head = IF key = NoKey THEN <<>> ELSE <<KeyEvent(key)>>
      /\ c = [key |-> key, pos |-> Len(head)] /\ g = [items |-> head, synced |-> 0]
  BY DEF Header, Started, StartedCipher
<1> HIDE DEF head, g, c
<1>1. Agree(p, Nat) /\ last \in Nat /\ p.last_event_id_ <= last /\ Contents(p) = Last(h)
  BY DEF Holds
<1>2. /\ head \in Seq(Items) /\ Legible(head) /\ Kind(plain, head) /\ c \in Ciphers /\ InStep(plain, head, c)
      /\ FileKey(head) = key /\ ev \in {<<>>, <<PlainKey>>}
  <2>1. CASE key = NoKey
    <3>1. head = <<>> /\ head \in Seq(Items) /\ Len(head) = 0 /\ plain
      BY <1>0, <2>1
    <3>2. ev \in Seq(EventRecords) /\ Len(ev) = 0
      BY <3>1, EventsFacts
    <3> HIDE DEF ev
    <3>3. ev = <<>>
      BY <3>2
    <3> QED
      BY <1>0, <2>1, <3>1, <3>3 DEF Legible, Kind, Ciphers, InStep, FileKey
  <2>2. CASE key # NoKey
    <3> DEFINE x == KeyEvent(key)
    <3>1. x \in Items /\ x.type = "key" /\ x.key = key /\ EventOf(x) = PlainKey
      BY <2>2 DEF KeyEvent, Items, EventOf, PlainKey
    <3>2. head = <<x>> /\ ~plain
      BY <1>0, <2>2
    <3> HIDE DEF x
    <3>3. head \in Seq(Items) /\ Len(head) = 1 /\ head[1] = x /\ head # <<>>
      BY <3>1, <3>2
    <3>4. ev \in Seq(EventRecords) /\ Len(ev) = 1 /\ ev[1] = PlainKey
      <4>1. 1 \in 1..Len(head)
        BY <3>3
      <4>2. ev \in Seq(EventRecords) /\ Len(ev) = Len(head) /\ ev[1] = EventOf(head[1])
        BY <3>3, <4>1, EventsFacts
      <4> HIDE DEF ev
      <4> QED
        BY <3>1, <3>3, <4>2
    <3> HIDE DEF ev
    <3>5. ev = <<PlainKey>>
      BY <3>4
    <3>6. FileKey(head) = key
      BY <3>1, <3>3 DEF FileKey
    <3>7. Readable(head, 1)
      BY <3>1, <3>3 DEF Readable
    <3>8. Legible(head)
      BY <3>3, <3>7 DEF Legible
    <3>9. c \in Ciphers /\ c.key = key /\ c.pos = 1
      BY <1>0, <3>3 DEF Ciphers
    <3> QED
      BY <2>2, <3>1, <3>2, <3>3, <3>5, <3>6, <3>8, <3>9 DEF Kind, InStep
  <2> QED
    BY <2>1, <2>2
<1>3. b \in Seq(Data(Nat))
  BY <1>1, ForEachIncreases
<1> HIDE DEF b
<1>4. b \in Seq(BufferEvents)
  BY <1>3 DEF BufferEvents
<1> HIDE DEF ev
<1>5. /\ Good(ev \o b) /\ Contents(Replay(ev \o b)) = Contents(p)
      /\ Replay(ev \o b).last_event_id_ <= p.last_event_id_
      /\ Contents(p) = {} => Constant(ev \o b, 0, {})
  BY <1>1, <1>2, RegeneratedGood DEF b
<1>6. Good(ev) /\ Agree(Replay(ev \o b), Nat)
  BY <1>2, <1>5, HeadGood, GoodFacts
<1>7. g \in FileRecords /\ g.items = head /\ g.synced = 0
  BY <1>0, <1>2 DEF FileRecords
<1>8. SoundFile(plain, g)
  <2>1. Len(head) \in Nat
    BY <1>2
  <2>2. g.synced <= Len(head)
    BY <1>7, <2>1
  <2> QED
    BY <1>2, <1>6, <1>7, <2>2, EndUsable DEF ev
<1>9. Log(g, b) = ev \o b
  BY <1>7 DEF Log, ev
<1>10. Replay(ev \o b).last_event_id_ <= last
  <2>1. p.last_event_id_ \in Nat /\ Replay(ev \o b).last_event_id_ \in Nat
    BY <1>1, <1>6, TypedFields DEF Agree
  <2> HIDE DEF ev
  <2> QED
    BY <1>1, <1>5, <2>1
<1> QED
  BY <1>1, <1>2, <1>4, <1>5, <1>7, <1>8, <1>9, <1>10 DEF Leads, Settled, g, c, b

-----------------------------------------------------------------------------
(* The disk and the client.                                                 *)

LEMMA ClientFacts ==
  ASSUME Regular, client \in Clients
  PROVE  /\ Plain \in BOOLEAN /\ NoKey \notin Keys /\ client.keys \subseteq Keys \cup {NoKey}
         /\ Plain => client.keys = {NoKey}
         /\ ~Plain => NoKey \notin client.keys /\ ~client.open_fails
         /\ \A key \in client.keys : key \in Keys \cup {NoKey} /\ (Plain <=> key = NoKey)
         /\ \A r \in client.rules : r[1] \in Nat /\ LazyFlushSize <= r[1]
         /\ LazyFlushSize \in Nat /\ client.tails \subseteq TornOf(Plain)
<1>1. /\ NoKey \notin Keys /\ client.keys \subseteq Keys \cup {NoKey} /\ LazyFlushSize \in Nat
      /\ client.rules \subseteq Nat \X (Nat \ {0})
  BY BinlogAssumption
<1>2. client.keys = {NoKey} \/ (NoKey \notin client.keys /\ ~client.open_fails)
  BY DEF Regular
<1>3. \A r \in client.rules : r[1] \in Nat /\ LazyFlushSize <= r[1]
  BY <1>1 DEF Regular
<1>4. client.tails \subseteq TornOf(Plain)
  BY DEF Regular, Plain
<1> QED
  BY <1>1, <1>2, <1>3, <1>4 DEF Plain

LEMMA PlainStays ==
  ASSUME client' = client
  PROVE  Plain' = Plain
BY DEF Plain

LEMMA DiskFacts ==
  ASSUME Disk
  PROVE  /\ dirs = <<Dir>> /\ Dir = [path |-> Dir.path, new |-> Dir.new]
         /\ Dir.path \in 0..5 /\ Dir.new \in 0..5 /\ (Dir.path # 0 => Dir.path # Dir.new)
         /\ DOMAIN files = 1..5 /\ \A n \in 1..5 : SoundFile(Plain, files[n])
         /\ fd_ \in 0..5 /\ fd_ \in {0, Dir.path, Dir.new}
         /\ \A n \in 1..5 : n \notin {Dir.path, Dir.new} => files[n] = NoFile
         /\ Reachable(dirs, fd_) = {fd_, Dir.path, Dir.new}
<1>1. /\ dirs = <<Dir>> /\ Dir \in [path : 0..5, new : 0..5]
  BY DEF Disk
<1> DEFINE d == Dir
<1> HIDE DEF d
<1>2. dirs = <<d>> /\ d \in [path : 0..5, new : 0..5]
  BY <1>1 DEF d
<1>3. DOMAIN dirs = {1} /\ dirs[1] = d
  BY <1>2
<1>4. UNION {{dirs[i].path, dirs[i].new} : i \in DOMAIN dirs} = {d.path, d.new}
  BY <1>3
<1>5. Reachable(dirs, fd_) = {fd_, Dir.path, Dir.new}
  BY <1>4 DEF Reachable, d
<1> QED
  BY <1>1, <1>5 DEF Disk

LEMMA DirOfOne ==
  ASSUME NEW d, dirs' = <<d>>
  PROVE  Dir' = d
BY DEF Dir, Last

LEMMA DirSame ==
  ASSUME dirs' = dirs
  PROVE  Dir' = Dir
BY DEF Dir

(* fs is what the files are after a change of the n-th to g.                *)
Changed(fs, n, g) == DOMAIN fs = 1..5 /\ \A m \in 1..5 : fs[m] = IF m = n THEN g ELSE files[m]

(* A step that changes at most one file that has a name.                    *)
LEMMA DiskStep ==
  ASSUME Disk, dirs' = dirs, client' = client, fd_' \in {0, Dir.path, Dir.new},
         NEW n \in 1..5, n \in {Dir.path, Dir.new}, NEW g, SoundFile(Plain, g),
         Changed(files', n, g)
  PROVE  /\ Disk' /\ files'[n] = g
         /\ \A m \in 1..5 : m # n => files'[m] = files[m]
<1>1. Dir' = Dir /\ Plain' = Plain
  BY DirSame, PlainStays
<1>2. DOMAIN files' = 1..5 /\ files'[n] = g /\ \A m \in 1..5 : m # n => files'[m] = files[m]
  BY DEF Disk, Changed
<1>3. ASSUME NEW m \in 1..5 PROVE SoundFile(Plain, files'[m])
  BY <1>2 DEF Disk
<1>4. \A m \in 1..5 : m \notin {Dir.path, Dir.new} => files'[m] = NoFile
  BY <1>2 DEF Disk
<1>5. dirs' = <<Dir'>>
  BY <1>1, DiskFacts
<1> QED
  BY <1>1, <1>2, <1>3, <1>4, <1>5 DEF Disk

LEMMA DiskStutter ==
  ASSUME Disk, dirs' = dirs, client' = client, fd_' \in {0, Dir.path, Dir.new}, files' = files
  PROVE  Disk'
<1>1. Dir' = Dir /\ Plain' = Plain
  BY DirSame, PlainStays
<1> QED
  BY <1>1 DEF Disk

(* A step that changes the directory to d; files without a name are gone.   *)
LEMMA DirectoryStep ==
  ASSUME Disk, client' = client, NEW d \in [path : 0..5, new : 0..5], d.path # 0 => d.path # d.new,
         dirs' = <<d>>, fd_' \in {0, d.path, d.new}, DOMAIN files' = 1..5,
         \A n \in 1..5 : files'[n] = IF n \in {d.path, d.new} THEN files[n] ELSE NoFile
  PROVE  Disk' /\ Dir' = d
<1>1. Dir' = d /\ Plain' = Plain
  BY DirOfOne, PlainStays
<1>2. ASSUME NEW n \in 1..5 PROVE SoundFile(Plain, files'[n])
  <2>1. files'[n] = files[n] \/ files'[n] = NoFile
    OBVIOUS
  <2> QED
    BY <2>1, EmptyFile DEF Disk
<1>3. \A n \in 1..5 : n \notin {d.path, d.new} => files'[n] = NoFile
  OBVIOUS
<1> QED
  BY <1>1, <1>2, <1>3 DEF Disk

(* A number for a new file.                                                 *)
LEMMA FreshFacts ==
  ASSUME Disk, fd_ \in {0, Dir.path}
  PROVE  FreshFile \in 1..5 /\ FreshFile \notin {Dir.path, Dir.new} /\ files[FreshFile] = NoFile
<1> DEFINE R == {fd_, Dir.path, Dir.new}
           P(n) == n \notin R /\ \A m \in 1..(n - 1) : m \in R
           S == (1..5) \ R
<1>1. /\ DOMAIN files = 1..5 /\ Reachable(dirs, fd_) = R
      /\ \A n \in 1..5 : n \notin {Dir.path, Dir.new} => files[n] = NoFile
  BY DiskFacts
<1>2. S # {} /\ S \subseteq Nat
  <2>1. 1 \in S \/ 2 \in S \/ 3 \in S
    OBVIOUS
  <2> QED
    BY <2>1
<1>3. PICK n \in S : \A m \in S : n <= m
  BY <1>2, LeastNumber
<1>4. P(n) /\ n \in 1..5
  BY <1>3
<1>5. FreshFile = CHOOSE m \in 1..5 : P(m)
  BY <1>1 DEF FreshFile
<1> HIDE DEF P
<1>6. P(FreshFile) /\ FreshFile \in 1..5
  BY <1>4, <1>5
<1> QED
  BY <1>1, <1>6 DEF P

(* The open file.                                                           *)
LEMMA OpenFile ==
  ASSUME Disk, fd_ # 0
  PROVE  fd_ \in 1..5 /\ fd_ \in {Dir.path, Dir.new} /\ SoundFile(Plain, files[fd_])
<1>1. fd_ \in 1..5 /\ fd_ \in {Dir.path, Dir.new}
  BY DiskFacts
<1> QED
  BY <1>1, DiskFacts

-----------------------------------------------------------------------------
(* The steps.                                                               *)

(* Writing b to the open file.                                              *)
LEMMA WrittenFacts ==
  ASSUME Regular, Disk, Memory, fd_ # 0, NEW b \in Seq(BufferEvents), NEW p, NEW last,
         Leads(files[fd_], b, p, last), InStep(Plain, files[fd_].items, cipher),
         NEW g, g = Written(b)[fd_], NEW d, d = [cipher EXCEPT !.pos = @ + Len(b)]
  PROVE  /\ Changed(Written(b), fd_, g) /\ SoundFile(Plain, g)
         /\ g.synced = files[fd_].synced /\ Len(g.items) = Len(files[fd_].items) + Len(b)
         /\ Leads(g, <<>>, p, last)
         /\ d \in Ciphers /\ InStep(Plain, g.items, d) /\ FileKey(g.items) = FileKey(files[fd_].items)
         /\ \A h : Covers(files[fd_], b, h) => Covers(g, <<>>, h)
         /\ \A s, h : Settled(files[fd_], b, s, h) => Settled(g, <<>>, s, h)
<1> DEFINE f == files[fd_]
           x == Encrypted(b, cipher)
<1>1. fd_ \in 1..5 /\ SoundFile(Plain, f) /\ DOMAIN files = 1..5
  BY OpenFile DEF Disk
<1>2. Plain \in BOOLEAN /\ cipher \in Ciphers
  BY ClientFacts DEF Memory
<1>3. Legible(f.items) /\ Good(Log(f, b))
  BY DEF Leads
<1>4. f \in FileRecords
  BY <1>1, FileFacts
<1> HIDE DEF x
<1>5. Written(b) = [files EXCEPT ![fd_].items = @ \o x]
  BY DEF Written, x
<1>6. g = [f EXCEPT !.items = f.items \o x] /\ Changed(Written(b), fd_, g)
  BY <1>1, <1>4, <1>5 DEF Changed
<1> HIDE DEF f
<1>7. InStep(Plain, f.items, cipher)
  BY DEF f
<1>8. /\ SoundFile(Plain, g) /\ Legible(g.items) /\ g.synced = f.synced
      /\ Len(g.items) = Len(f.items) + Len(b)
      /\ Log(g, <<>>) = Log(f, b)
      /\ d \in Ciphers /\ InStep(Plain, g.items, d) /\ FileKey(g.items) = FileKey(f.items)
  <2> DEFINE plain == Plain
  <2> HIDE DEF plain
  <2>1. plain \in BOOLEAN /\ SoundFile(plain, f) /\ InStep(plain, f.items, cipher)
    BY <1>1, <1>2, <1>7 DEF plain
  <2>2. /\ SoundFile(plain, g) /\ Legible(g.items) /\ g.synced = f.synced
        /\ Len(g.items) = Len(f.items) + Len(b)
        /\ Log(g, <<>>) = Log(f, b)
        /\ d \in Ciphers /\ InStep(plain, g.items, d) /\ FileKey(g.items) = FileKey(f.items)
    <3> DEFINE g0 == Extended(f, b, cipher)
               d0 == Advanced(cipher, Len(b))
    <3>1. /\ SoundFile(plain, g0) /\ Legible(g0.items) /\ g0.synced = f.synced
          /\ Len(g0.items) = Len(f.items) + Len(b)
          /\ Log(g0, <<>>) = Log(f, b)
          /\ d0 \in Ciphers /\ InStep(plain, g0.items, d0) /\ FileKey(g0.items) = FileKey(f.items)
      BY <1>2, <1>3, <2>1, FlushFile
    <3>2. g = g0 /\ d = d0
      BY <1>6 DEF x, Extended, Advanced
    <3> HIDE DEF g0, d0
    <3> QED
      BY <3>1, <3>2
  <2> QED
    BY <2>2 DEF plain
<1>9. Leads(g, <<>>, p, last)
  BY <1>8 DEF Leads, f
<1> QED
  BY <1>6, <1>8, <1>9 DEF Covers, Settled, f

LEMMA InitHolds == Regular /\ Init => BinlogIInv
<1> SUFFICES ASSUME Regular, Init PROVE BinlogIInv
  OBVIOUS
<1> USE DEF Init
<1>1. Dir = [path |-> 0, new |-> 0] /\ dirs = <<Dir>>
  BY DEF Dir, Last
<1>2. hist \in Histories /\ hist # <<>> /\ Last(hist) = {}
  BY DEF Histories, Last
<1>3. Memory
  <2>1. cipher \in Ciphers
    BY DEF Ciphers
  <2>2. buffer_ \in Seq(BufferEvents)
    OBVIOUS
  <2> QED
    BY <1>2, <2>1, <2>2 DEF Memory
<1>4. Disk
  <2>1. \A n \in 1..5 : files[n] = NoFile
    OBVIOUS
  <2>2. \A n \in 1..5 : SoundFile(Plain, files[n])
    BY <2>1, EmptyFile
  <2> QED
    BY <1>1, <2>1, <2>2 DEF Disk
<1>5. Recoverable(ToLoad, hist)
  <2>1. ToLoad = NoFile
    BY <1>1 DEF ToLoad, FileOf
  <2>2. SoundFile(Plain, NoFile) /\ Safe(NoFile, hist)
    BY <1>2, EmptyFile
  <2> QED
    BY <2>1, <2>2, SafeRecoverable
<1> QED
  BY <1>3, <1>4, <1>5 DEF BinlogIInv, Closed

LEMMA FlushHolds == BinlogIInv /\ Flush => BinlogIInv'
<1> SUFFICES ASSUME BinlogIInv, Flush PROVE BinlogIInv'
  OBVIOUS
<1> DEFINE f == files[fd_]
           g == FlushedFiles[fd_]
<1>1. Regular /\ Disk /\ Memory /\ Running /\ buffer_ \in Seq(BufferEvents)
  BY DEF BinlogIInv, Flush, Memory
<1>2. /\ AtPath /\ Attuned /\ fd_ # 0 /\ fd_ = Dir.path /\ Leads(f, buffer_, processor_, last_event_id_)
      /\ Covers(f, buffer_, hist)
  BY <1>1 DEF Running, AtPath, Loaded
<1>3. /\ Changed(FlushedFiles, fd_, g) /\ SoundFile(Plain, g)
      /\ Leads(g, <<>>, processor_, last_event_id_)
      /\ FlushedCipher \in Ciphers /\ InStep(Plain, g.items, FlushedCipher) /\ FileKey(g.items) = db_key_
      /\ Covers(g, <<>>, hist)
  BY <1>1, <1>2, WrittenFacts DEF FlushedFiles, FlushedCipher, Attuned
<1> HIDE DEF g
<1>4. /\ Changed(files', fd_, g) /\ cipher' = FlushedCipher /\ buffer_' = <<>>
      /\ need_sync_' = TRUE /\ dirs' = dirs /\ fd_' = fd_ /\ pc' = "run" /\ db_key_' = db_key_
      /\ start_empty' = start_empty /\ wrote' = wrote /\ processor_' = processor_
      /\ last_event_id_' = last_event_id_ /\ hist' = hist /\ recovery' = recovery
      /\ operations' = operations /\ client' = client
  BY <1>3 DEF Flush, flush, memVars, histVars, boundVars
<1>5. Dir' = Dir /\ Plain' = Plain /\ fd_ \in 1..5
  BY <1>1, <1>2, <1>4, DirSame, PlainStays, OpenFile
<1>6. Disk' /\ files'[fd_] = g
  BY <1>1, <1>2, <1>3, <1>4, <1>5, DiskStep
<1>7. Memory'
  BY <1>1, <1>3, <1>4 DEF Memory
<1>8. AtPath' /\ Attuned'
  BY <1>2, <1>3, <1>4, <1>5, <1>6 DEF AtPath, Loaded, Attuned
<1> QED
  BY <1>1, <1>4, <1>6, <1>7, <1>8 DEF BinlogIInv, Running

(* sync: all is in the file, and known to be on the disk if the process has *)
(* written anything.                                                        *)
LEMMA SyncFacts ==
  ASSUME Regular, Disk, Memory, Running,
         NEW fs, fs = (IF need_sync_ \/ buffer_ # <<>> THEN FsyncFile(FlushedFiles, fd_) ELSE files),
         NEW g, g = fs[fd_], NEW h, h = IF wrote THEN <<Last(hist)>> ELSE hist
  PROVE  /\ Changed(fs, fd_, g) /\ SoundFile(Plain, g) /\ Leads(g, <<>>, processor_, last_event_id_)
         /\ FlushedCipher \in Ciphers /\ InStep(Plain, g.items, FlushedCipher) /\ FileKey(g.items) = db_key_
         /\ Covers(g, <<>>, h) /\ (wrote => Settled(g, <<>>, g.synced, h))
         /\ h \in Histories /\ h # <<>> /\ Holds(processor_, last_event_id_, h)
<1> DEFINE f == files[fd_]
           w == FlushedFiles[fd_]
<1>1. /\ AtPath /\ Attuned /\ fd_ # 0 /\ fd_ = Dir.path /\ Leads(f, buffer_, processor_, last_event_id_)
      /\ Covers(f, buffer_, hist) /\ Holds(processor_, last_event_id_, hist)
  BY DEF Running, AtPath, Loaded
<1>2. buffer_ \in Seq(BufferEvents) /\ hist \in Histories /\ hist # <<>> /\ cipher \in Ciphers
  BY DEF Memory
<1>3. /\ h \in Histories /\ h # <<>> /\ Last(h) = Last(hist)
  BY <1>2, HistoryFacts
<1>4. Holds(processor_, last_event_id_, h)
  BY <1>1, <1>3 DEF Holds
<1>5. DOMAIN files = 1..5 /\ fd_ \in 1..5 /\ SoundFile(Plain, f)
  BY <1>1, OpenFile, DiskFacts
<1>6. CASE need_sync_ \/ buffer_ # <<>>
  <2>1. /\ Changed(FlushedFiles, fd_, w) /\ SoundFile(Plain, w)
        /\ Leads(w, <<>>, processor_, last_event_id_)
        /\ FlushedCipher \in Ciphers /\ InStep(Plain, w.items, FlushedCipher) /\ FileKey(w.items) = db_key_
        /\ Covers(w, <<>>, hist)
    BY <1>1, <1>2, WrittenFacts DEF FlushedFiles, FlushedCipher, Attuned
  <2>2. fs = FsyncFile(FlushedFiles, fd_)
    BY <1>6
  <2> DEFINE ff == FlushedFiles
  <2> HIDE DEF ff
  <2>3. Changed(ff, fd_, w) /\ w = ff[fd_] /\ fs = FsyncFile(ff, fd_)
    BY <2>1, <2>2 DEF ff
  <2> HIDE DEF w
  <2>4. w \in FileRecords
    BY <2>1, FileFacts
  <2>5. g = [w EXCEPT !.synced = Len(w.items)] /\ Changed(fs, fd_, g)
    BY <1>5, <2>3, <2>4 DEF Changed, FsyncFile
  <2>6. /\ SoundFile(Plain, g) /\ g.items = w.items
        /\ Log(g, <<>>) = Log(w, <<>>)
        /\ Covers(g, <<>>, hist)
        /\ Contents(Replay(Log(w, <<>>))) = Last(hist) => Settled(g, <<>>, g.synced, hist)
    BY <2>1, <2>5, SyncFile DEF Leads
  <2>7. Contents(Replay(Log(w, <<>>))) = Last(hist)
    BY <1>1, <2>1 DEF Leads, Holds
  <2>8. Settled(g, <<>>, g.synced, hist)
    BY <2>6, <2>7
  <2>9. Covers(g, <<>>, <<Last(hist)>>) /\ Settled(g, <<>>, g.synced, <<Last(hist)>>)
    BY <1>2, <2>8, SettledCovers
  <2>10. Covers(g, <<>>, h) /\ (wrote => Settled(g, <<>>, g.synced, h))
    BY <2>6, <2>9
  <2>11. Leads(g, <<>>, processor_, last_event_id_)
    BY <2>1, <2>6 DEF Leads
  <2> QED
    BY <1>3, <1>4, <2>1, <2>5, <2>6, <2>10, <2>11
<1>7. CASE ~(need_sync_ \/ buffer_ # <<>>)
  <2>1. fs = files /\ buffer_ = <<>> /\ ~need_sync_ /\ g = f
    BY <1>7
  <2>2. Changed(fs, fd_, g)
    BY <1>5, <2>1 DEF Changed
  <2>3. Len(buffer_) = 0
    BY <2>1
  <2>4. FlushedCipher = cipher
    BY <1>2, <2>3 DEF FlushedCipher, Ciphers
  <2>5. wrote => Settled(g, <<>>, g.synced, hist)
    BY <1>1, <2>1 DEF AtPath
  <2>6. wrote => Covers(g, <<>>, <<Last(hist)>>) /\ Settled(g, <<>>, g.synced, <<Last(hist)>>)
    BY <1>2, <2>5, SettledCovers
  <2>7. Covers(g, <<>>, h) /\ (wrote => Settled(g, <<>>, g.synced, h))
    BY <1>1, <2>1, <2>6
  <2> HIDE DEF f
  <2>8. InStep(Plain, g.items, cipher) /\ FileKey(g.items) = db_key_
    BY <1>1, <2>1 DEF Attuned, f
  <2>9. Leads(g, <<>>, processor_, last_event_id_)
    BY <1>1, <2>1
  <2> QED
    BY <1>2, <1>3, <1>4, <1>5, <2>1, <2>2, <2>4, <2>7, <2>8, <2>9
<1> QED
  BY <1>6, <1>7

LEMMA SyncHolds == BinlogIInv /\ Sync => BinlogIInv'
<1> SUFFICES ASSUME BinlogIInv, Sync PROVE BinlogIInv'
  OBVIOUS
<1> DEFINE fs == IF need_sync_ \/ buffer_ # <<>> THEN FsyncFile(FlushedFiles, fd_) ELSE files
           g == fs[fd_]
           h == IF wrote THEN <<Last(hist)>> ELSE hist
<1>1. Regular /\ Disk /\ Memory /\ Running
  BY DEF BinlogIInv, Sync
<1>2. fd_ # 0 /\ fd_ = Dir.path /\ db_key_ \in client.keys /\ fd_ \in 1..5 /\ dirs = <<Dir>>
  BY <1>1, OpenFile, DiskFacts DEF Running, AtPath, Loaded
<1>3. /\ Changed(fs, fd_, g) /\ SoundFile(Plain, g) /\ Leads(g, <<>>, processor_, last_event_id_)
      /\ FlushedCipher \in Ciphers /\ InStep(Plain, g.items, FlushedCipher) /\ FileKey(g.items) = db_key_
      /\ Covers(g, <<>>, h) /\ (wrote => Settled(g, <<>>, g.synced, h))
      /\ h \in Histories /\ h # <<>> /\ Holds(processor_, last_event_id_, h)
  BY <1>1, SyncFacts
<1>4. files' = fs /\ dirs' = dirs
  BY <1>2 DEF Sync, sync
<1>5. hist' = h
  BY DEF Sync, Acknowledge
<1>6. /\ cipher' = FlushedCipher /\ buffer_' = <<>> /\ need_sync_' = FALSE /\ fd_' = fd_ /\ pc' = "run"
      /\ db_key_' = db_key_ /\ start_empty' = start_empty /\ wrote' = wrote
      /\ processor_' = processor_ /\ last_event_id_' = last_event_id_ /\ recovery' = recovery
      /\ operations' = operations /\ client' = client
  BY DEF Sync, sync, memVars, boundVars
<1> HIDE DEF fs, g, h
<1>7. Dir' = Dir /\ Plain' = Plain
  BY <1>4, <1>6, DirSame, PlainStays
<1>8. Disk' /\ files'[fd_] = g
  <2>1. Changed(files', fd_, g)
    BY <1>3, <1>4
  <2> QED
    BY <1>1, <1>2, <1>3, <1>4, <1>6, <2>1, DiskStep
<1>9. Memory'
  <2>1. buffer_' \in Seq(BufferEvents)
    BY <1>6
  <2>2. cipher' \in Ciphers /\ hist' \in Histories /\ hist' # <<>>
    BY <1>3, <1>5, <1>6
  <2>3. need_sync_' \in BOOLEAN
    BY <1>6, Zenon
  <2> QED
    BY <1>1, <1>6, <2>1, <2>2, <2>3 DEF Memory
<1>10. AtPath' /\ Attuned'
  BY <1>2, <1>3, <1>5, <1>6, <1>7, <1>8 DEF AtPath, Loaded, Attuned
<1> QED
  BY <1>1, <1>6, <1>8, <1>9, <1>10 DEF BinlogIInv, Running

(* The process is gone: the file that is left at path or path.new can be    *)
(* loaded.                                                                  *)
LEMMA ForgetHolds ==
  ASSUME Regular, Memory, Disk', recovery # "wrong", Forget, client' = client,
         operations' \in Nat, recovery' = recovery, hist' \in Histories, hist' # <<>>,
         Recoverable(ToLoad', hist')
  PROVE  BinlogIInv'
<1>1. /\ pc' = "closed" /\ fd_' = 0 /\ buffer_' = <<>> /\ ~wrote' /\ need_sync_' \in BOOLEAN
      /\ start_empty' \in BOOLEAN /\ wrote' \in BOOLEAN /\ cipher' = [key |-> NoKey, pos |-> 0]
  BY DEF Forget
<1>2. cipher' \in Ciphers /\ buffer_' \in Seq(BufferEvents)
  BY <1>1 DEF Ciphers
<1>3. Memory'
  BY <1>1, <1>2 DEF Memory
<1> QED
  BY <1>1, <1>3 DEF BinlogIInv, Closed

LEMMA CloseHolds == BinlogIInv /\ close => BinlogIInv'
<1> SUFFICES ASSUME BinlogIInv, close PROVE BinlogIInv'
  OBVIOUS
<1> DEFINE fs == IF need_sync_ \/ buffer_ # <<>> THEN FsyncFile(FlushedFiles, fd_) ELSE files
           g == fs[fd_]
           h == IF wrote THEN <<Last(hist)>> ELSE hist
<1>1. Regular /\ Disk /\ Memory /\ Running /\ recovery # "wrong" /\ operations \in Nat
  BY DEF BinlogIInv, close, Memory
<1>2. fd_ # 0 /\ fd_ = Dir.path /\ fd_ \in 1..5 /\ dirs = <<Dir>>
  BY <1>1, OpenFile, DiskFacts DEF Running, AtPath, Loaded
<1>3. /\ Changed(fs, fd_, g) /\ SoundFile(Plain, g) /\ Leads(g, <<>>, processor_, last_event_id_)
      /\ Covers(g, <<>>, h)
      /\ h \in Histories /\ h # <<>>
  BY <1>1, SyncFacts
<1>4. files' = fs /\ dirs' = dirs
  BY <1>2 DEF close
<1>5. hist' = h
  BY DEF close, Acknowledge
<1>6. Forget /\ client' = client /\ operations' = operations /\ recovery' = recovery
  BY DEF close, boundVars
<1> HIDE DEF fs, g, h
<1>7. Dir' = Dir /\ fd_' = 0
  BY <1>4, <1>6, DirSame DEF Forget
<1>8. Disk' /\ files'[fd_] = g
  <2>1. Changed(files', fd_, g)
    BY <1>3, <1>4
  <2> QED
    BY <1>1, <1>2, <1>3, <1>4, <1>6, <1>7, <2>1, DiskStep
<1>9. ToLoad' = g
  BY <1>2, <1>7, <1>8 DEF ToLoad, FileOf
<1>10. Recoverable(g, h)
  <2>1. <<>> \in Seq(BufferEvents)
    OBVIOUS
  <2> QED
    BY <1>3, <2>1, OpenSafe, SafeRecoverable
<1> QED
  BY <1>1, <1>3, <1>5, <1>6, <1>8, <1>9, <1>10, ForgetHolds

LEMMA ChangeKeyHolds ==
  ASSUME BinlogIInv, NEW key \in client.keys \cap ChangeKeys, change_key(key)
  PROVE  BinlogIInv'
<1>1. Regular /\ Disk /\ Memory /\ Running
  BY DEF BinlogIInv, change_key
<1>2. /\ files' = files /\ dirs' = dirs /\ fd_' = fd_ /\ buffer_' = buffer_ /\ cipher' = cipher
      /\ need_sync_' = need_sync_ /\ start_empty' = start_empty /\ wrote' = wrote
      /\ processor_' = processor_ /\ last_event_id_' = last_event_id_ /\ hist' = hist
      /\ recovery' = recovery /\ operations' = operations /\ client' = client
      /\ db_key_' = key /\ pc' = "reindex_open"
  BY DEF change_key, diskVars, streamVars, memVars, histVars
<1>3. Dir' = Dir /\ Plain' = Plain
  BY <1>2, DirSame, PlainStays
<1>4. ~Plain
  BY <1>1, ClientFacts DEF Regular, Memory
<1>5. Disk'
  BY <1>1, <1>2, DiskStutter, DiskFacts
<1>6. Memory'
  BY <1>1, <1>2 DEF Memory
<1>7. AtPath'
  BY <1>1, <1>2, <1>3 DEF Running, AtPath, Loaded
<1>8. InStep(Plain, files[fd_].items, cipher)
  BY <1>1 DEF Running, Attuned
<1>9. Reopening'
  BY <1>2, <1>3, <1>4, <1>7, <1>8 DEF Reopening
<1> QED
  BY <1>1, <1>2, <1>5, <1>6, <1>9 DEF BinlogIInv

(* add_event.                                                               *)
LEMMA AddEventHolds ==
  ASSUME BinlogIInv, NEW e, Fits(e, Contents(processor_), last_event_id_), add_event(e)
  PROVE  BinlogIInv'
<1> DEFINE f == files[fd_]
           b == Append(buffer_, e)
           full == Len(b) > LazyFlushSize
           p == do_event(processor_, e)
           last == last_event_id_ + 1
           h == Append(hist, Contents(p))
           g == IF full THEN Written(b)[fd_] ELSE f
           long == NeedReindex(Len(f.items) + Len(b), p.total_raw_events_size_)
<1>1. Regular /\ Disk /\ Memory /\ Running
  BY DEF BinlogIInv, add_event
<1>2. /\ fd_ # 0 /\ fd_ = Dir.path /\ db_key_ \in client.keys
      /\ Leads(f, buffer_, processor_, last_event_id_) /\ Covers(f, buffer_, hist)
      /\ Holds(processor_, last_event_id_, hist)
      /\ InStep(Plain, f.items, cipher) /\ FileKey(f.items) = db_key_
  BY <1>1 DEF Running, AtPath, Loaded, Attuned
<1>3. buffer_ \in Seq(BufferEvents) /\ hist \in Histories /\ hist # <<>> /\ cipher \in Ciphers
  BY <1>1 DEF Memory
<1>4. DOMAIN files = 1..5 /\ fd_ \in 1..5 /\ SoundFile(Plain, f)
  BY <1>1, <1>2, OpenFile, DiskFacts
<1>5. /\ b \in Seq(BufferEvents) /\ b # <<>> /\ Len(b) = Len(buffer_) + 1
      /\ h \in Histories /\ h # <<>>
      /\ Holds(p, last, h) /\ Leads(f, b, p, last) /\ Covers(f, b, h)
  BY <1>2, <1>3, <1>4, AddToLog
<1>6. /\ processor_' = p /\ last_event_id_' = last /\ hist' = h
      /\ IF full THEN /\ files' = Written(b) /\ cipher' = [cipher EXCEPT !.pos = @ + Len(b)]
                      /\ buffer_' = <<>> /\ need_sync_' = TRUE
                 ELSE /\ buffer_' = b /\ files' = files /\ cipher' = cipher /\ need_sync_' = need_sync_
      /\ pc' = (IF long THEN "reindex_open" ELSE "run")
      /\ wrote' = TRUE /\ operations' = operations + 1
      /\ dirs' = dirs /\ fd_' = fd_ /\ db_key_' = db_key_ /\ start_empty' = start_empty
      /\ recovery' = recovery /\ client' = client
  BY DEF add_event
<1> HIDE DEF p, h, last, b
<1>7. Len(f.items) \in Nat /\ Len(b) \in Nat /\ Len(b) > 0
  BY <1>3, <1>4, <1>5, FileFacts
<1>8. long => Len(f.items) + Len(b) > LazyFlushSize /\ LazyFlushSize \in Nat
  <2>1. Len(f.items) + Len(b) \in Nat /\ LazyFlushSize \in Nat
    <3>1. LazyFlushSize \in Nat
      BY <1>1, ClientFacts DEF Memory
    <3> QED
      BY <1>7, <3>1
  <2>2. \A r \in client.rules : r[1] \in Nat /\ LazyFlushSize <= r[1]
    BY <1>1, ClientFacts DEF Memory
  <2> DEFINE size == Len(f.items) + Len(b)
  <2> HIDE DEF size
  <2>3. ASSUME NEW r \in client.rules, size > r[1] PROVE size > LazyFlushSize
    <3>1. size \in Nat
      BY <2>1 DEF size
    <3> QED
      BY <2>1, <2>2, <2>3, <3>1
  <2>4. long => \E r \in client.rules : size > r[1]
    BY DEF NeedReindex, size
  <2> QED
    BY <2>1, <2>3, <2>4 DEF size
<1> HIDE DEF long
<1>9. /\ Changed(files', fd_, g) /\ SoundFile(Plain, g) /\ buffer_' \in Seq(BufferEvents)
      /\ Leads(g, buffer_', p, last) /\ Covers(g, buffer_', h)
      /\ cipher' \in Ciphers /\ InStep(Plain, g.items, cipher') /\ FileKey(g.items) = db_key_
      /\ need_sync_' \in BOOLEAN /\ (need_sync_' \/ buffer_' # <<>>)
      /\ long => g.items # <<>> \/ Len(f.items) > 0
  <2>1. CASE full
    <3>1. /\ Changed(Written(b), fd_, g) /\ SoundFile(Plain, g)
          /\ Len(g.items) = Len(f.items) + Len(b)
          /\ Leads(g, <<>>, p, last)
          /\ [cipher EXCEPT !.pos = @ + Len(b)] \in Ciphers
          /\ InStep(Plain, g.items, [cipher EXCEPT !.pos = @ + Len(b)])
          /\ FileKey(g.items) = db_key_
          /\ Covers(g, <<>>, h)
      <4>1. g = Written(b)[fd_]
        BY <2>1
      <4> HIDE DEF g
      <4> QED
        BY <1>1, <1>2, <1>5, <4>1, WrittenFacts
    <3>2. /\ files' = Written(b) /\ buffer_' = <<>> /\ need_sync_' = TRUE
          /\ cipher' = [cipher EXCEPT !.pos = @ + Len(b)]
      BY <1>6, <2>1
    <3> HIDE DEF g
    <3>3. g.items # <<>>
      <4>1. Len(g.items) > 0
        BY <1>7, <3>1
      <4> QED
        BY <4>1
    <3>4. <<>> \in Seq(BufferEvents)
      OBVIOUS
    <3> QED
      BY <3>1, <3>2, <3>3, <3>4
  <2>2. CASE ~full
    <3>1. g = f
      BY <2>2
    <3>2. /\ files' = files /\ buffer_' = b /\ need_sync_' = need_sync_ /\ cipher' = cipher
      BY <1>6, <2>2
    <3>3. Changed(files', fd_, g)
      BY <1>4, <3>1, <3>2 DEF Changed
    <3>4. long => Len(f.items) > 0
      BY <1>7, <1>8, <2>2
    <3>5. need_sync_' \in BOOLEAN
      BY <1>1, <3>2 DEF Memory
    <3> HIDE DEF g, f
    <3> QED
      BY <1>2, <1>3, <1>4, <1>5, <3>1, <3>2, <3>3, <3>4, <3>5
  <2> QED
    BY <2>1, <2>2
<1>10. long => g.items # <<>>
  <2>1. Len(f.items) > 0 => f.items # <<>>
    OBVIOUS
  <2>2. Len(f.items) > 0 => g.items # <<>>
    <3>1. CASE ~full
      BY <2>1, <3>1
    <3>2. CASE full
      <4>1. Len(g.items) = Len(f.items) + Len(b)
        <5>1. g = Written(b)[fd_]
          BY <3>2
        <5> HIDE DEF g
        <5> QED
          BY <1>1, <1>2, <1>5, <5>1, WrittenFacts
      <4> HIDE DEF g
      <4>2. g.items = <<>> => Len(g.items) = 0
        OBVIOUS
      <4> QED
        BY <1>7, <4>1, <4>2
    <3> QED
      BY <3>1, <3>2
  <2> QED
    BY <1>9, <2>2
<1> HIDE DEF g, f, full
<1>11. Dir' = Dir /\ Plain' = Plain
  BY <1>6, DirSame, PlainStays
<1>12. Disk' /\ files'[fd_] = g
  BY <1>1, <1>2, <1>4, <1>6, <1>9, DiskStep
<1>13. Memory'
  <2>1. operations' \in Nat /\ wrote' \in BOOLEAN
    BY <1>1, <1>6 DEF Memory
  <2>2. hist' \in Histories /\ hist' # <<>>
    BY <1>5, <1>6
  <2> QED
    BY <1>1, <1>6, <1>9, <2>1, <2>2 DEF Memory
<1>14. AtPath' /\ Attuned'
  BY <1>2, <1>5, <1>6, <1>9, <1>11, <1>12 DEF AtPath, Loaded, Attuned
<1>15. CASE long
  <2>1. Reopening' /\ pc' = "reindex_open"
    BY <1>6, <1>10, <1>12, <1>14, <1>15 DEF Reopening, Attuned
  <2> QED
    BY <1>1, <1>6, <1>12, <1>13, <2>1 DEF BinlogIInv
<1>16. CASE ~long
  <2>1. Running' /\ pc' = "run"
    BY <1>6, <1>14, <1>16 DEF Running
  <2> QED
    BY <1>1, <1>6, <1>12, <1>13, <2>1 DEF BinlogIInv
<1> QED
  BY <1>15, <1>16

(* The file that init() finds or creates.                                   *)
LEMMA OpenedFacts ==
  ASSUME Regular, Disk, Memory, Closed
  PROVE  \E d \in [path : 0..5, new : 0..5] :
           /\ Opened.file = d.path /\ Opened.dirs = <<d>> /\ d.path \in 1..5 /\ d.path # d.new
           /\ \A n \in 1..5 : n \notin {d.path, d.new} => files[n] = NoFile
           /\ Recoverable(files[d.path], hist)
<1>1. /\ dirs = <<Dir>> /\ Dir.path \in 0..5 /\ Dir.new \in 0..5 /\ (Dir.path # 0 => Dir.path # Dir.new)
      /\ \A n \in 1..5 : n \notin {Dir.path, Dir.new} => files[n] = NoFile
      /\ Dir = [path |-> Dir.path, new |-> Dir.new]
  BY DiskFacts
<1>2. Dir \in [path : 0..5, new : 0..5]
  BY DEF Disk
<1>3. Recoverable(ToLoad, hist) /\ fd_ = 0
  BY DEF Closed
<1>4. \A d : DirAfter(d) = <<d>>
  BY DEF DirAfter, Regular
<1> DEFINE dir == Dir
<1> HIDE DEF dir
<1>5. CASE dir.path # 0
  <2>1. Opened = [file |-> dir.path, dirs |-> dirs]
    BY <1>5 DEF Opened, dir
  <2>2. ToLoad = files[dir.path]
    BY <1>5 DEF ToLoad, FileOf, dir
  <2>3. Opened.file = dir.path /\ Opened.dirs = dirs /\ dir.path \in 1..5
    BY <1>1, <1>5, <2>1 DEF dir
  <2>4. dir \in [path : 0..5, new : 0..5]
    BY <1>2 DEF dir
  <2> QED
    BY <1>1, <1>3, <1>5, <2>2, <2>3, <2>4 DEF dir
<1>6. CASE dir.path = 0 /\ dir.new # 0
  <2> DEFINE d == [path |-> dir.new, new |-> 0]
  <2>1. d # dir /\ d.path = dir.new /\ d.new = 0 /\ d \in [path : 0..5, new : 0..5]
    BY <1>1, <1>6 DEF dir
  <2>2. Opened = [file |-> d.path, dirs |-> IF d = dir THEN dirs ELSE DirAfter(d)]
    BY <1>6 DEF Opened, dir
  <2>3. ToLoad = files[dir.new]
    BY <1>6 DEF ToLoad, FileOf, dir
  <2> HIDE DEF d
  <2>4. Opened.file = d.path /\ Opened.dirs = <<d>>
    BY <1>4, <2>1, <2>2
  <2>5. d \in [path : 0..5, new : 0..5]
    BY <2>1
  <2>6. \A n \in 1..5 : n \notin {d.path, d.new} => n \notin {dir.path, dir.new}
    BY <1>6, <2>1
  <2> QED
    BY <1>1, <1>3, <1>6, <2>1, <2>3, <2>4, <2>5, <2>6 DEF dir
<1>7. CASE dir.path = 0 /\ dir.new = 0
  <2> DEFINE d == [path |-> FreshFile, new |-> 0]
  <2>1. FreshFile \in 1..5 /\ files[FreshFile] = NoFile
    BY <1>3, FreshFacts
  <2>2. d # dir /\ d.path = FreshFile /\ d.new = 0 /\ d \in [path : 0..5, new : 0..5]
    BY <1>7, <2>1
  <2>3. Opened = [file |-> d.path, dirs |-> IF d = dir THEN dirs ELSE DirAfter(d)]
    BY <1>7 DEF Opened, dir
  <2>4. ToLoad = files[FreshFile]
    BY <1>7, <2>1 DEF ToLoad, FileOf, dir
  <2> HIDE DEF d
  <2>5. Opened.file = d.path /\ Opened.dirs = <<d>>
    BY <1>4, <2>2, <2>3
  <2>6. d \in [path : 0..5, new : 0..5]
    BY <2>2
  <2>7. \A n \in 1..5 : n \notin {dir.path, dir.new}
    BY <1>7
  <2> QED
    BY <1>1, <1>3, <2>1, <2>2, <2>4, <2>5, <2>6, <2>7 DEF dir
<1> QED
  BY <1>5, <1>6, <1>7

(* The directory is d, and only the file at its path has changed.           *)
LEMMA PathStep ==
  ASSUME Disk, client' = client, NEW d \in [path : 0..5, new : 0..5], d.path \in 1..5, d.path # d.new,
         \A n \in 1..5 : n \notin {d.path, d.new} => files[n] = NoFile,
         dirs' = <<d>>, fd_' \in {0, d.path}, NEW g, SoundFile(Plain, g), Changed(files', d.path, g)
  PROVE  Disk' /\ Dir' = d /\ files'[d.path] = g
<1>1. Dir' = d /\ Plain' = Plain
  BY DirOfOne, PlainStays
<1>2. DOMAIN files' = 1..5 /\ files'[d.path] = g /\ \A n \in 1..5 : n # d.path => files'[n] = files[n]
  BY DEF Changed
<1>3. \A n \in 1..5 : SoundFile(Plain, files'[n])
  BY <1>2 DEF Disk
<1>4. \A n \in 1..5 : n \notin {d.path, d.new} => files'[n] = NoFile
  BY <1>2
<1> QED
  BY <1>1, <1>2, <1>3, <1>4 DEF Disk

LEMMA LoadHolds ==
  ASSUME BinlogIInv, NEW db_key \in client.keys, NEW old_db_key \in client.keys,
         init(db_key, old_db_key)
  PROVE  BinlogIInv'
<1>1. Regular /\ Disk /\ Memory /\ Closed /\ recovery # "wrong" /\ pc = "closed" /\ hist \in Histories
  BY DEF BinlogIInv, init, Memory
<1>2. PICK d \in [path : 0..5, new : 0..5] :
        /\ Opened.file = d.path /\ Opened.dirs = <<d>> /\ d.path \in 1..5 /\ d.path # d.new
        /\ \A n \in 1..5 : n \notin {d.path, d.new} => files[n] = NoFile
        /\ Recoverable(files[d.path], hist)
  BY <1>1, OpenedFacts
<1> DEFINE file == d.path
           f == files[file]
           k == ReadableLength(f.items)
           good == ReadItems(f)
           refused == RefusedAt(Events(good))
           g == Shrunk(f)
           key == FileKey(f.items)
           cut == k < Len(f.items)
           p == Replay(Events(good))
           wrong == key # NoKey /\ key # db_key /\ key # old_db_key
           again == (db_key # NoKey /\ ~KeyUsed(key, db_key, cut)) \/ (db_key = NoKey /\ key # NoKey)
<1>3. SoundFile(Plain, f) /\ DOMAIN files = 1..5 /\ Plain \in BOOLEAN
  BY <1>1, <1>2, DiskFacts, ClientFacts DEF Memory
<1>4. /\ ~cut => good = f.items
      /\ good \in Seq(Items) /\ Good(Events(good)) /\ refused = 0
      /\ SoundFile(Plain, g) /\ Safe(g, hist) /\ g.items = good
      /\ key \in Keys \cup {NoKey} /\ (Plain => key = NoKey /\ FileKey(good) = NoKey)
  BY <1>2, <1>3, LoadFile
<1>5. /\ dirs' = <<d>> /\ client' = client /\ operations' = operations
      /\ \/ /\ wrong
            /\ files' = files /\ pc' = pc /\ fd_' = fd_ /\ buffer_' = buffer_ /\ cipher' = cipher
            /\ need_sync_' = need_sync_ /\ start_empty' = start_empty /\ wrote' = wrote
            /\ hist' = hist /\ recovery' = recovery
         \/ /\ files' = [files EXCEPT ![file] = g]
            /\ pc' = pc /\ fd_' = fd_ /\ buffer_' = buffer_ /\ cipher' = cipher
            /\ need_sync_' = need_sync_ /\ start_empty' = start_empty /\ wrote' = wrote
            /\ hist' = hist /\ recovery' = recovery
         \/ /\ files' = [files EXCEPT ![file] = g]
            /\ fd_' = file /\ buffer_' = <<>> /\ need_sync_' = FALSE
            /\ cipher' = [key |-> key, pos |-> Len(f.items)]
            /\ db_key_' = db_key
            /\ processor_' = p /\ last_event_id_' = p.last_event_id_
            /\ Judge(Contents(p))
            /\ pc' = IF again THEN "reindex_open" ELSE "run"
            /\ start_empty' = start_empty /\ wrote' = wrote
  <2>1. refused = 0
    BY <1>4
  <2> DEFINE over(tail) == \/ db_key # NoKey /\ ~KeyUsed(key, db_key, tail # "none" /\ ~Ignored(tail, key))
                           \/ db_key = NoKey /\ key # NoKey
  <2>2. ASSUME NEW tail \in Tails(f.items, k) PROVE over(tail) <=> again
    <3>1. (tail # "none" /\ ~Ignored(tail, key)) <=> cut
      BY <1>3, <2>2, TailIsCut
    <3> HIDE DEF cut, key
    <3> QED
      BY <3>1 DEF KeyUsed
  <2>3. ASSUME \E tail \in Tails(f.items, k) \ {"bad"} : pc' = IF over(tail) THEN "reindex_open" ELSE "run"
        PROVE  pc' = IF again THEN "reindex_open" ELSE "run"
    <3> HIDE DEF over, again, k, f
    <3> QED
      BY <2>2, <2>3
  <2> QED
    BY <1>2, <2>1, <2>3 DEF init, streamVars, memVars, histVars, boundVars, LastEventId, ReadItems, Shrunk
<1>6. p = Replay(Events(g.items)) /\ g.items = good
  BY <1>4
<1> HIDE DEF f, good, g, key, p, again, wrong
<1>7. Plain' = Plain /\ Dir' = d
  BY <1>5, PlainStays, DirOfOne
<1>8. ASSUME NEW c, SoundFile(Plain, c), Recoverable(c, hist), Changed(files', file, c),
             pc' = pc, fd_' = fd_, buffer_' = buffer_, cipher' = cipher, need_sync_' = need_sync_,
             start_empty' = start_empty, wrote' = wrote, hist' = hist, recovery' = recovery
      PROVE  BinlogIInv'
  <2>1. fd_' = 0
    BY <1>1, <1>8 DEF Closed
  <2>2. Disk' /\ files'[file] = c
    BY <1>1, <1>2, <1>5, <1>8, <2>1, PathStep
  <2>3. ToLoad' = c
    BY <1>2, <1>7, <2>2 DEF ToLoad, FileOf
  <2>4. Memory'
    BY <1>1, <1>5, <1>8 DEF Memory
  <2>5. Closed'
    BY <1>1, <1>8, <2>1, <2>3 DEF Closed
  <2> QED
    BY <1>1, <1>8, <2>2, <2>4, <2>5 DEF BinlogIInv
<1>9. CASE /\ wrong
           /\ files' = files /\ pc' = pc /\ fd_' = fd_ /\ buffer_' = buffer_ /\ cipher' = cipher
           /\ need_sync_' = need_sync_ /\ start_empty' = start_empty /\ wrote' = wrote
           /\ hist' = hist /\ recovery' = recovery
  <2>1. Changed(files', file, f)
    BY <1>3, <1>9 DEF Changed, f
  <2>2. Recoverable(f, hist)
    BY <1>2 DEF f
  <2> QED
    BY <1>3, <1>8, <1>9, <2>1, <2>2
<1>10. ASSUME files' = [files EXCEPT ![file] = g] PROVE Changed(files', file, g)
  BY <1>2, <1>3, <1>10 DEF Changed
<1>11. CASE /\ files' = [files EXCEPT ![file] = g]
            /\ pc' = pc /\ fd_' = fd_ /\ buffer_' = buffer_ /\ cipher' = cipher
            /\ need_sync_' = need_sync_ /\ start_empty' = start_empty /\ wrote' = wrote
            /\ hist' = hist /\ recovery' = recovery
  <2>1. Recoverable(g, hist)
    BY <1>4, SafeRecoverable
  <2> QED
    BY <1>4, <1>8, <1>10, <1>11, <2>1
<1>12. CASE /\ files' = [files EXCEPT ![file] = g]
            /\ fd_' = file /\ buffer_' = <<>> /\ need_sync_' = FALSE
            /\ cipher' = [key |-> key, pos |-> Len(f.items)]
            /\ db_key_' = db_key
            /\ processor_' = p /\ last_event_id_' = p.last_event_id_
            /\ Judge(Contents(p))
            /\ pc' = IF again THEN "reindex_open" ELSE "run"
            /\ start_empty' = start_empty /\ wrote' = wrote
  <2> DEFINE C == Contents(p)
             h == UpTo(hist, C)
  <2>1. /\ Moments(hist, C) # {} /\ h \in Histories /\ h # <<>> /\ Last(h) = C /\ Safe(g, h)
    <3>1. C = Contents(Replay(Events(g.items)))
      BY <1>6
    <3> HIDE DEF C
    <3> QED
      BY <1>1, <1>4, <3>1, JudgeFacts
  <2>2. hist' = h /\ recovery' \in {"ok", "unwritten"}
    BY <1>12, <2>1 DEF Judge, Moments, UpTo
  <2> HIDE DEF h
  <2>3. Agree(p, Nat) /\ p.last_event_id_ \in Nat
    BY <1>4, GoodFacts, TypedFields DEF Agree, p
  <2>4. Holds(p, p.last_event_id_, h)
    BY <2>1, <2>3 DEF Holds
  <2>5. Log(g, <<>>) = Events(good) /\ Legible(g.items)
    BY <1>4, <1>6, LogOfFile DEF Safe
  <2>6. Leads(g, <<>>, p, p.last_event_id_)
    BY <1>4, <2>3, <2>5 DEF Leads, p
  <2>7. Covers(g, <<>>, h)
    BY <1>6, <2>1, <2>5 DEF Covers, Safe
  <2>8. Disk' /\ files'[file] = g
    BY <1>1, <1>2, <1>4, <1>5, <1>10, <1>12, PathStep
  <2>9. Len(f.items) \in Nat
    BY <1>3, FileFacts
  <2>10. Memory'
    <3>1. cipher' \in Ciphers
      BY <1>4, <1>12, <2>9 DEF Ciphers
    <3>2. buffer_' \in Seq(BufferEvents)
      BY <1>12
    <3>3. need_sync_' \in BOOLEAN
      BY <1>12, Zenon
    <3> QED
      BY <1>1, <1>5, <1>12, <2>1, <2>2, <3>1, <3>2, <3>3 DEF Memory
  <2>11. AtPath'
    BY <1>1, <1>2, <1>5, <1>7, <1>12, <2>2, <2>4, <2>6, <2>7, <2>8 DEF AtPath, Loaded, Closed
  <2>12. Plain <=> db_key = NoKey
    BY <1>1, ClientFacts DEF Memory
  <2>13. CASE again
    <3>1. ~Plain
      BY <1>4, <2>12, <2>13 DEF again
    <3>2. Reopening' /\ pc' = "reindex_open"
      BY <1>7, <1>12, <2>11, <2>13, <3>1 DEF Reopening
    <3> QED
      BY <1>1, <2>2, <2>8, <2>10, <3>2 DEF BinlogIInv
  <2>14. CASE ~again
    <3>1. InStep(Plain, g.items, cipher') /\ FileKey(g.items) = db_key
      <4>1. CASE Plain
        BY <1>4, <1>6, <1>12, <2>12, <4>1 DEF InStep
      <4>2. CASE ~Plain
        <5>1. key # NoKey /\ key = db_key /\ ~cut
          BY <2>12, <2>14, <4>2 DEF again, KeyUsed
        <5>2. g.items = f.items
          BY <1>4, <1>6, <5>1
        <5>3. f.items # <<>>
          BY <5>1 DEF key, FileKey
        <5>4. cipher'.key = key /\ cipher'.pos = Len(f.items)
          BY <1>12
        <5> QED
          BY <4>2, <5>1, <5>2, <5>3, <5>4 DEF InStep, key
      <4> QED
        BY <4>1, <4>2
    <3>2. Attuned'
      BY <1>7, <1>12, <2>8, <3>1 DEF Attuned
    <3>3. Running' /\ pc' = "run"
      BY <1>12, <2>11, <2>14, <3>2 DEF Running
    <3> QED
      BY <1>1, <2>2, <2>8, <2>10, <3>3 DEF BinlogIInv
  <2> QED
    BY <2>13, <2>14
<1> QED
  BY <1>5, <1>9, <1>11, <1>12

LEMMA SafeLater ==
  ASSUME NEW f, NEW h \in Histories, Safe(f, h), NEW x \in SUBSET (Nat \X Nat)
  PROVE  Safe(f, Append(h, x))
BY TrackedLater DEF Safe, Histories

LEMMA DestroyBeginHolds == BinlogIInv /\ destroy_begin => BinlogIInv'
<1> SUFFICES ASSUME BinlogIInv, destroy_begin PROVE BinlogIInv'
  OBVIOUS
<1> DEFINE f == files[fd_]
           g == FlushedFiles[fd_]
           h == Append(hist, {})
<1>1. Regular /\ Disk /\ Memory /\ Running /\ buffer_ \in Seq(BufferEvents) /\ recovery # "wrong"
      /\ hist \in Histories /\ hist # <<>>
  BY DEF BinlogIInv, destroy_begin, Memory
<1>2. /\ fd_ # 0 /\ fd_ = Dir.path /\ Leads(f, buffer_, processor_, last_event_id_)
      /\ Covers(f, buffer_, hist) /\ InStep(Plain, f.items, cipher)
  BY <1>1 DEF Running, AtPath, Loaded, Attuned
<1>3. /\ Changed(FlushedFiles, fd_, g) /\ SoundFile(Plain, g)
      /\ Leads(g, <<>>, processor_, last_event_id_) /\ FlushedCipher \in Ciphers
      /\ Covers(g, <<>>, hist)
  BY <1>1, <1>2, WrittenFacts DEF FlushedFiles, FlushedCipher
<1> HIDE DEF g
<1>4. /\ Changed(files', fd_, g) /\ cipher' = FlushedCipher /\ buffer_' = <<>>
      /\ need_sync_' = (need_sync_ \/ buffer_ # <<>>) /\ dirs' = dirs /\ fd_' = fd_ /\ pc' = "destroy_new"
      /\ start_empty' = start_empty /\ wrote' = wrote /\ hist' = h /\ recovery' = recovery
      /\ operations' = operations + 1 /\ client' = client
  BY <1>3 DEF destroy_begin, flush
<1>5. Dir' = Dir /\ fd_ \in 1..5
  BY <1>1, <1>2, <1>4, DirSame, OpenFile
<1>6. Disk' /\ files'[fd_] = g
  BY <1>1, <1>2, <1>3, <1>4, <1>5, DiskStep
<1>7. h \in Histories /\ h # <<>> /\ Last(h) = {}
  BY <1>1, HistoryFacts
<1>8. Memory'
  <2>1. buffer_' \in Seq(BufferEvents)
    BY <1>4
  <2>2. need_sync_' \in BOOLEAN
    BY <1>4, Zenon
  <2> HIDE DEF h
  <2> QED
    BY <1>1, <1>3, <1>4, <1>7, <2>1, <2>2 DEF Memory
<1>9. Safe(g, h)
  <2>1. <<>> \in Seq(BufferEvents) /\ {} \in SUBSET (Nat \X Nat)
    OBVIOUS
  <2>2. Safe(g, hist)
    BY <1>3, <2>1, OpenSafe
  <2> QED
    BY <1>1, <2>1, <2>2, SafeLater
<1> HIDE DEF h
<1>10. Destroying'
  BY <1>2, <1>4, <1>5, <1>6, <1>7, <1>9 DEF Destroying, PathSafe
<1> QED
  BY <1>1, <1>4, <1>6, <1>8, <1>10 DEF BinlogIInv

(* Files that have lost their names are gone.                               *)
LEMMA CollectedFacts ==
  ASSUME Disk, NEW d, NEW fd \in {0, d.path, d.new}
  PROVE  /\ DOMAIN Collected(files, <<d>>, fd) = 1..5
         /\ \A n \in 1..5 : Collected(files, <<d>>, fd)[n] = IF n \in {d.path, d.new} THEN files[n] ELSE NoFile
<1> DEFINE ds == <<d>>
<1>1. DOMAIN ds = {1} /\ ds[1] = d
  OBVIOUS
<1> HIDE DEF ds
<1>2. Reachable(ds, fd) = {fd, d.path, d.new}
  <2>1. UNION {{ds[i].path, ds[i].new} : i \in DOMAIN ds} = {d.path, d.new}
    BY <1>1
  <2> QED
    BY <2>1 DEF Reachable
<1>3. \A n \in 1..5 : n \in Reachable(ds, fd) <=> n \in {d.path, d.new}
  BY <1>2
<1> QED
  BY <1>3 DEF Collected, Disk, ds

LEMMA UnlinkedFacts ==
  ASSUME Regular, Disk
  PROVE  /\ Unlinked("new") = <<[path |-> Dir.path, new |-> 0]>>
         /\ Unlinked("path") = <<[path |-> 0, new |-> Dir.new]>>
<1>1. Dir = [path |-> Dir.path, new |-> Dir.new]
  BY DiskFacts
<1> DEFINE a == Dir.path
           b == Dir.new
<1> HIDE DEF a, b
<1>2. Dir = [path |-> a, new |-> b]
  BY <1>1 DEF a, b
<1>3. [Dir EXCEPT !["new"] = 0] = [path |-> a, new |-> 0] /\ [Dir EXCEPT !["path"] = 0] = [path |-> 0, new |-> b]
  <2> DEFINE r == [path |-> a, new |-> b]
  <2>1. [r EXCEPT !["new"] = 0] = [path |-> a, new |-> 0]
    OBVIOUS
  <2>2. [r EXCEPT !["path"] = 0] = [path |-> 0, new |-> b]
    OBVIOUS
  <2> HIDE DEF r
  <2>3. Dir = r
    BY <1>2 DEF r
  <2> QED
    BY <2>1, <2>2, <2>3
<1>4. \A d : DirAfter(d) = <<d>>
  BY DEF DirAfter, Regular
<1> QED
  BY <1>3, <1>4 DEF Unlinked, a, b

LEMMA DestroyNewHolds == BinlogIInv /\ destroy_new => BinlogIInv'
<1> SUFFICES ASSUME BinlogIInv, destroy_new PROVE BinlogIInv'
  OBVIOUS
<1> DEFINE d == [path |-> Dir.path, new |-> 0]
<1>1. Regular /\ Disk /\ Memory /\ Destroying /\ recovery # "wrong"
  BY DEF BinlogIInv, destroy_new
<1>2. fd_ = Dir.path /\ Dir.path \in 1..5 /\ Safe(files[Dir.path], hist) /\ Last(hist) = {} /\ buffer_ = <<>>
  BY <1>1, DiskFacts DEF Destroying, PathSafe
<1>3. d.path = Dir.path /\ d.new = 0 /\ d \in [path : 0..5, new : 0..5]
  BY <1>2
<1>4. dirs' = <<d>> /\ files' = Collected(files, <<d>>, fd_)
  BY <1>1, UnlinkedFacts DEF destroy_new
<1>5. /\ fd_' = fd_ /\ buffer_' = buffer_ /\ cipher' = cipher /\ need_sync_' = need_sync_
      /\ start_empty' = start_empty /\ wrote' = wrote /\ hist' = hist /\ recovery' = recovery
      /\ operations' = operations /\ client' = client /\ pc' = "destroy_path"
  BY DEF destroy_new, streamVars, histVars, boundVars
<1> HIDE DEF d
<1>6. /\ DOMAIN files' = 1..5
      /\ \A n \in 1..5 : files'[n] = IF n \in {d.path, d.new} THEN files[n] ELSE NoFile
  BY <1>1, <1>2, <1>3, <1>4, CollectedFacts
<1>7. Disk' /\ Dir' = d
  BY <1>1, <1>2, <1>3, <1>4, <1>5, <1>6, DirectoryStep
<1>8. files'[d.path] = files[d.path]
  BY <1>2, <1>3, <1>6
<1>9. Memory'
  BY <1>1, <1>5 DEF Memory
<1>10. Destroying' /\ Dir'.new = 0
  BY <1>2, <1>3, <1>5, <1>7, <1>8 DEF Destroying, PathSafe
<1> QED
  BY <1>1, <1>5, <1>7, <1>9, <1>10 DEF BinlogIInv

LEMMA DestroyPathHolds == BinlogIInv /\ destroy_path => BinlogIInv'
<1> SUFFICES ASSUME BinlogIInv, destroy_path PROVE BinlogIInv'
  OBVIOUS
<1> DEFINE d == [path |-> 0, new |-> 0]
<1>1. Regular /\ Disk /\ Memory /\ Destroying /\ Dir.new = 0 /\ recovery # "wrong"
  BY DEF BinlogIInv, destroy_path
<1>2. Last(hist) = {} /\ hist \in Histories /\ hist # <<>> /\ operations \in Nat
  BY <1>1 DEF Destroying, Memory
<1>3. d.path = 0 /\ d.new = 0 /\ d \in [path : 0..5, new : 0..5]
  OBVIOUS
<1>4. dirs' = <<d>> /\ files' = Collected(files, <<d>>, 0)
  BY <1>1, UnlinkedFacts DEF destroy_path
<1>5. Forget /\ fd_' = 0 /\ hist' = hist /\ recovery' = recovery /\ operations' = operations /\ client' = client
  BY DEF destroy_path, Forget, histVars, boundVars
<1> HIDE DEF d
<1>6. /\ DOMAIN files' = 1..5
      /\ \A n \in 1..5 : files'[n] = IF n \in {d.path, d.new} THEN files[n] ELSE NoFile
  BY <1>1, <1>4, CollectedFacts
<1>7. Disk' /\ Dir' = d
  BY <1>1, <1>3, <1>4, <1>5, <1>6, DirectoryStep
<1>8. ToLoad' = NoFile
  BY <1>3, <1>7 DEF ToLoad, FileOf
<1>9. Recoverable(NoFile, hist)
  BY <1>2, EmptyFile, SafeRecoverable
<1> QED
  BY <1>1, <1>2, <1>5, <1>7, <1>8, <1>9, ForgetHolds

(* The file at path.new has changed, or there is a new one.                 *)
LEMMA NewStep ==
  ASSUME Disk, client' = client, NEW d, d = [path |-> Dir.path, new |-> d.new], d.new \in 1..5,
         Dir.path # 0, d.new # Dir.path, Dir.new \in {0, d.new}, dirs' = <<d>>,
         fd_' = d.new, NEW g, SoundFile(Plain, g), Changed(files', d.new, g)
  PROVE  Disk' /\ Dir' = d /\ files'[d.new] = g /\ files'[Dir.path] = files[Dir.path]
<1>1. Dir' = d /\ Plain' = Plain
  BY DirOfOne, PlainStays
<1>2. DOMAIN files' = 1..5 /\ files'[d.new] = g /\ \A n \in 1..5 : n # d.new => files'[n] = files[n]
  BY DEF Changed
<1>3. Dir.path \in 1..5 /\ d.path = Dir.path
  BY DiskFacts
<1>4. \A n \in 1..5 : SoundFile(Plain, files'[n])
  BY <1>2 DEF Disk
<1>5. \A n \in 1..5 : n \notin {d.path, d.new} => files'[n] = NoFile
  <2> SUFFICES ASSUME NEW n \in 1..5, n \notin {d.path, d.new} PROVE files'[n] = NoFile
    OBVIOUS
  <2>1. n \notin {Dir.path, Dir.new}
    BY <1>3
  <2> QED
    BY <1>2, <2>1 DEF Disk
<1>6. d \in [path : 0..5, new : 0..5]
  BY <1>3
<1> QED
  BY <1>1, <1>2, <1>3, <1>4, <1>5, <1>6 DEF Disk

LEMMA ReindexOpenHolds == BinlogIInv /\ reindex_open => BinlogIInv'
<1> SUFFICES ASSUME BinlogIInv, reindex_open PROVE BinlogIInv'
  OBVIOUS
<1> DEFINE file == IF Dir.new = 0 THEN FreshFile ELSE Dir.new
           d == [path |-> Dir.path, new |-> file]
           f == files[fd_]
           g == Started(db_key_)
           c == StartedCipher(db_key_)
           b == for_each(processor_)
<1>1. Regular /\ Disk /\ Memory /\ Reopening /\ recovery # "wrong"
  BY DEF BinlogIInv, reindex_open
<1>2. /\ fd_ # 0 /\ fd_ = Dir.path /\ db_key_ \in client.keys
      /\ Leads(f, buffer_, processor_, last_event_id_) /\ Covers(f, buffer_, hist)
      /\ Holds(processor_, last_event_id_, hist)
      /\ InStep(Plain, f.items, cipher) \/ (~Plain /\ buffer_ = <<>>)
      /\ Plain => f.items # <<>>
  BY <1>1 DEF Reopening, AtPath, Loaded
<1>3. buffer_ \in Seq(BufferEvents) /\ hist \in Histories /\ hist # <<>>
  BY <1>1 DEF Memory
<1>4. SoundFile(Plain, f) /\ fd_ \in 1..5 /\ DOMAIN files = 1..5
  BY <1>1, <1>2, OpenFile, DiskFacts
<1>5. Plain \in BOOLEAN /\ db_key_ \in Keys \cup {NoKey} /\ (Plain <=> db_key_ = NoKey)
  BY <1>1, <1>2, ClientFacts DEF Memory
<1>6. /\ db_key_' = db_key_ /\ wrote' = wrote /\ processor_' = processor_
      /\ last_event_id_' = last_event_id_ /\ hist' = hist /\ recovery' = recovery
      /\ operations' = operations /\ client' = client
  BY DEF reindex_open, memVars, histVars, boundVars
<1>7. Plain' = Plain
  BY <1>6, PlainStays
<1>8. CASE /\ start_empty' = (files[Dir.path].items = <<>>)
           /\ dirs' = (IF Dir.new = 0 THEN DirAfter([Dir EXCEPT !.new = file]) ELSE dirs)
           /\ files' = [files EXCEPT ![file] = g]
           /\ fd_' = file /\ cipher' = c /\ buffer_' = b
           /\ pc' = "reindex_write" /\ need_sync_' = need_sync_
  <2>1. /\ SoundFile(Plain, g) /\ b \in Seq(BufferEvents) /\ c \in Ciphers
        /\ InStep(Plain, g.items, c) /\ FileKey(g.items) = db_key_
        /\ Leads(g, b, processor_, last_event_id_)
        /\ Contents(processor_) = {} => Settled(g, b, 0, hist)
    BY <1>2, <1>5, NewFile
  <2> HIDE DEF g, b, c
  <2>2. file \in 1..5 /\ file # Dir.path /\ (Dir.new = 0 \/ Dir.new = file)
    BY <1>1, <1>2, FreshFacts, DiskFacts
  <2>3. dirs' = <<d>>
    <3>1. Dir = [path |-> Dir.path, new |-> Dir.new] /\ dirs = <<Dir>>
      BY <1>1, DiskFacts
    <3>2. CASE Dir.new = 0
      <4>1. [Dir EXCEPT !.new = file] = d
        <5> HIDE DEF file
        <5> DEFINE x == Dir.path
                   y == Dir.new
        <5> HIDE DEF x, y
        <5>1. Dir = [path |-> x, new |-> y] /\ d = [path |-> x, new |-> file]
          BY <3>1 DEF x, y
        <5>2. [[path |-> x, new |-> y] EXCEPT !.new = file] = [path |-> x, new |-> file]
          OBVIOUS
        <5> QED
          BY <5>1, <5>2
      <4>2. \A z : DirAfter(z) = <<z>>
        BY <1>1 DEF DirAfter, Regular
      <4>3. dirs' = DirAfter([Dir EXCEPT !.new = file])
        BY <1>8, <3>2
      <4> HIDE DEF d
      <4> QED
        BY <4>1, <4>2, <4>3
    <3>3. CASE Dir.new # 0
      <4>1. dirs' = dirs /\ file = Dir.new
        BY <1>8, <3>3
      <4>2. Dir = d
        BY <3>1, <4>1
      <4> QED
        BY <3>1, <4>1, <4>2
    <3> QED
      BY <3>2, <3>3
  <2> HIDE DEF file
  <2>4. d.path = Dir.path /\ d.new = file /\ d = [path |-> Dir.path, new |-> d.new]
    OBVIOUS
  <2> HIDE DEF d
  <2>5. Changed(files', d.new, g)
    BY <1>4, <1>8, <2>2, <2>4 DEF Changed
  <2>6. Disk' /\ Dir' = d /\ files'[d.new] = g /\ files'[Dir.path] = files[Dir.path]
    BY <1>1, <1>2, <1>6, <1>8, <2>1, <2>2, <2>3, <2>4, <2>5, NewStep
  <2>7. Memory'
    <3>1. start_empty' \in BOOLEAN
      BY <1>8, Zenon
    <3> QED
      BY <1>1, <1>6, <1>8, <2>1, <3>1 DEF Memory
  <2>8. PathSafe'
    <3>1. Safe(f, hist)
      BY <1>2, <1>3, <1>4, OpenSafe
    <3> QED
      BY <1>2, <1>6, <2>4, <2>6, <3>1 DEF PathSafe
  <2>9. start_empty' => Settled(g, b, 0, hist)
    <3> SUFFICES ASSUME start_empty' PROVE Settled(g, b, 0, hist)
      OBVIOUS
    <3>1. f.items = <<>>
      BY <1>2, <1>8
    <3>2. buffer_ = <<>>
      BY <1>2, <3>1 DEF InStep
    <3>3. Log(f, buffer_) = <<>>
      <4>1. Log(f, buffer_) = Events(f.items)
        BY <1>4, <3>2, LogOfFile
      <4>2. Events(f.items) \in Seq(EventRecords) /\ Len(Events(f.items)) = 0
        BY <1>4, <3>1, FileFacts
      <4> DEFINE ev == Events(f.items)
      <4> HIDE DEF ev
      <4>3. ev = <<>>
        BY <4>2 DEF ev
      <4> QED
        BY <4>1, <4>3 DEF ev
    <3>4. Contents(processor_) = {}
      <4>1. Contents(Replay(Log(f, buffer_))) = Contents(processor_)
        BY <1>2 DEF Leads
      <4> QED
        BY <3>3, <4>1, GoodEmpty
    <3> QED
      BY <2>1, <3>4
  <2>10. Loaded' /\ Attuned' /\ fd_' = Dir'.new
    BY <1>2, <1>6, <1>7, <1>8, <2>1, <2>2, <2>4, <2>6 DEF Loaded, Attuned
  <2>11. Writing'
    BY <1>6, <1>8, <2>4, <2>6, <2>8, <2>9, <2>10 DEF Writing, Regenerating
  <2> QED
    BY <1>1, <1>6, <1>8, <2>6, <2>7, <2>11 DEF BinlogIInv
<1>9. CASE /\ client.open_fails /\ pc' = "run" /\ files' = files /\ dirs' = dirs /\ fd_' = fd_
           /\ buffer_' = buffer_ /\ cipher' = cipher /\ need_sync_' = need_sync_
           /\ start_empty' = start_empty
  <2>1. Plain
    BY <1>1, <1>9, ClientFacts DEF Memory
  <2>2. FileKey(f.items) = db_key_ /\ InStep(Plain, f.items, cipher)
    <3>1. Kind(Plain, f.items)
      BY <1>4, FileFacts
    <3> QED
      BY <1>2, <1>5, <2>1, <3>1 DEF FileKey, Kind
  <2>3. Dir' = Dir
    BY <1>9, DirSame
  <2>4. Disk'
    BY <1>1, <1>6, <1>9, DiskStutter, DiskFacts
  <2>5. Memory'
    BY <1>1, <1>6, <1>9 DEF Memory
  <2>6. AtPath' /\ Attuned'
    BY <1>1, <1>6, <1>7, <1>9, <2>2, <2>3 DEF Reopening, AtPath, Loaded, Attuned
  <2> QED
    BY <1>1, <1>6, <1>9, <2>4, <2>5, <2>6 DEF BinlogIInv, Running
<1> QED
  <2>1. \/ /\ start_empty' = (files[Dir.path].items = <<>>)
           /\ dirs' = (IF Dir.new = 0 THEN DirAfter([Dir EXCEPT !.new = file]) ELSE dirs)
           /\ files' = [files EXCEPT ![file] = g]
           /\ fd_' = file /\ cipher' = c /\ buffer_' = b
           /\ pc' = "reindex_write" /\ need_sync_' = need_sync_
        \/ /\ client.open_fails /\ pc' = "run" /\ files' = files /\ dirs' = dirs /\ fd_' = fd_
           /\ buffer_' = buffer_ /\ cipher' = cipher /\ need_sync_' = need_sync_
           /\ start_empty' = start_empty
    BY DEF reindex_open, diskVars, streamVars, Started, StartedCipher, Header
  <2> QED
    BY <1>8, <1>9, <2>1

LEMMA ReindexWriteHolds == BinlogIInv /\ reindex_write => BinlogIInv'
<1> SUFFICES ASSUME BinlogIInv, reindex_write PROVE BinlogIInv'
  OBVIOUS
<1> DEFINE f == files[fd_]
           g == FlushedFiles[fd_]
<1>1. Regular /\ Disk /\ Memory /\ Writing /\ buffer_ \in Seq(BufferEvents) /\ recovery # "wrong"
  BY DEF BinlogIInv, reindex_write, Memory
<1>2. /\ fd_ # 0 /\ fd_ = Dir.new /\ db_key_ \in client.keys
      /\ Leads(f, buffer_, processor_, last_event_id_) /\ Holds(processor_, last_event_id_, hist)
      /\ InStep(Plain, f.items, cipher) /\ FileKey(f.items) = db_key_
      /\ start_empty => Settled(f, buffer_, 0, hist)
      /\ Dir.path # 0 /\ Safe(files[Dir.path], hist)
  BY <1>1 DEF Writing, Regenerating, Loaded, Attuned, PathSafe
<1>3. /\ Changed(FlushedFiles, fd_, g) /\ SoundFile(Plain, g)
      /\ Leads(g, <<>>, processor_, last_event_id_)
      /\ FlushedCipher \in Ciphers /\ InStep(Plain, g.items, FlushedCipher) /\ FileKey(g.items) = db_key_
      /\ start_empty => Settled(g, <<>>, 0, hist)
  BY <1>1, <1>2, WrittenFacts DEF FlushedFiles, FlushedCipher
<1> HIDE DEF g
<1>4. /\ Changed(files', fd_, g) /\ cipher' = FlushedCipher /\ buffer_' = <<>>
      /\ need_sync_' = (need_sync_ \/ buffer_ # <<>>) /\ dirs' = dirs /\ fd_' = fd_
      /\ pc' = "reindex_sync" /\ db_key_' = db_key_
      /\ start_empty' = start_empty /\ wrote' = wrote /\ processor_' = processor_
      /\ last_event_id_' = last_event_id_ /\ hist' = hist /\ recovery' = recovery
      /\ operations' = operations /\ client' = client
  BY <1>3 DEF reindex_write, flush, memVars, histVars, boundVars
<1>5. Dir' = Dir /\ Plain' = Plain /\ fd_ \in 1..5 /\ Dir.path \in 1..5 /\ Dir.path # fd_
  BY <1>1, <1>2, <1>4, DirSame, PlainStays, OpenFile, DiskFacts
<1>6. Disk' /\ files'[fd_] = g /\ files'[Dir.path] = files[Dir.path]
  BY <1>1, <1>2, <1>3, <1>4, <1>5, DiskStep
<1>7. Memory'
  <2>1. buffer_' \in Seq(BufferEvents)
    BY <1>4
  <2>2. need_sync_' \in BOOLEAN
    BY <1>4, Zenon
  <2> QED
    BY <1>1, <1>3, <1>4, <2>1, <2>2 DEF Memory
<1>8. Complete'
  BY <1>2, <1>3, <1>4, <1>5, <1>6 DEF Complete, Writing, Regenerating, Loaded, Attuned, PathSafe
<1> QED
  BY <1>1, <1>4, <1>6, <1>7, <1>8 DEF BinlogIInv

LEMMA ReindexSyncHolds == BinlogIInv /\ reindex_sync => BinlogIInv'
<1> SUFFICES ASSUME BinlogIInv, reindex_sync PROVE BinlogIInv'
  OBVIOUS
<1> DEFINE f == files[fd_]
           g == files'[fd_]
<1>1. Regular /\ Disk /\ Memory /\ Complete /\ recovery # "wrong"
  BY DEF BinlogIInv, reindex_sync
<1>2. /\ fd_ # 0 /\ fd_ = Dir.new /\ db_key_ \in client.keys /\ buffer_ = <<>>
      /\ Leads(f, <<>>, processor_, last_event_id_) /\ Holds(processor_, last_event_id_, hist)
      /\ InStep(Plain, f.items, cipher) /\ FileKey(f.items) = db_key_
      /\ start_empty => Settled(f, <<>>, 0, hist)
      /\ Dir.path # 0 /\ Safe(files[Dir.path], hist)
  BY <1>1 DEF Complete, Writing, Regenerating, Loaded, Attuned, PathSafe
<1>3. fd_ \in 1..5 /\ SoundFile(Plain, f) /\ DOMAIN files = 1..5 /\ dirs = <<Dir>>
      /\ Dir.path \in 1..5 /\ Dir.path # fd_
  BY <1>1, <1>2, OpenFile, DiskFacts
<1>4. /\ cipher' = cipher /\ buffer_' = <<>> /\ need_sync_' = FALSE /\ dirs' = dirs /\ fd_' = fd_
      /\ pc' = "reindex_unlink" /\ db_key_' = db_key_
      /\ start_empty' = start_empty /\ wrote' = wrote /\ processor_' = processor_
      /\ last_event_id_' = last_event_id_ /\ hist' = hist /\ recovery' = recovery
      /\ operations' = operations /\ client' = client
  BY <1>2, <1>3 DEF reindex_sync, memVars, histVars, boundVars
<1>5. /\ Changed(files', fd_, g) /\ SoundFile(Plain, g) /\ g.items = f.items
      /\ Log(g, <<>>) = Log(f, <<>>) /\ Settled(g, <<>>, g.synced, hist)
  <2>1. CASE start_empty
    <3>1. files' = files /\ g = f
      BY <2>1 DEF reindex_sync
    <3>2. Changed(files', fd_, g)
      BY <1>3, <3>1 DEF Changed
    <3>3. f.synced \in Nat /\ 0 <= f.synced
      BY <1>3, FileFacts
    <3>4. Len(Log(f, <<>>)) \in Nat
      BY <1>2, GoodFacts DEF Leads
    <3>5. Settled(f, <<>>, f.synced, hist)
      BY <1>2, <2>1, <3>3, <3>4, ConstantPart DEF Settled
    <3> QED
      BY <1>3, <3>1, <3>2, <3>5
  <2>2. CASE ~start_empty
    <3>1. files' = FsyncFile(files, fd_)
      BY <2>2 DEF reindex_sync
    <3>2. f \in FileRecords
      BY <1>3, FileFacts
    <3>3. g = [f EXCEPT !.synced = Len(f.items)] /\ Changed(files', fd_, g)
      BY <1>3, <3>1, <3>2 DEF Changed, FsyncFile
    <3> HIDE DEF g, f
    <3>4. /\ SoundFile(Plain, g) /\ g.items = f.items
          /\ Log(g, <<>>) = Log(f, <<>>)
          /\ Contents(Replay(Log(f, <<>>))) = Last(hist) => Settled(g, <<>>, g.synced, hist)
      BY <1>2, <1>3, <3>3, SyncFile DEF Leads
    <3>5. Contents(Replay(Log(f, <<>>))) = Last(hist)
      BY <1>2 DEF Leads, Holds
    <3> QED
      BY <3>3, <3>4, <3>5
  <2> QED
    BY <2>1, <2>2
<1> HIDE DEF g, f
<1>6. Dir' = Dir /\ Plain' = Plain
  BY <1>4, DirSame, PlainStays
<1>7. Disk' /\ files'[fd_] = g /\ files'[Dir.path] = files[Dir.path]
  BY <1>1, <1>2, <1>3, <1>4, <1>5, DiskStep
<1>8. Memory'
  <2>1. buffer_' \in Seq(BufferEvents)
    BY <1>4
  <2>2. need_sync_' \in BOOLEAN
    BY <1>4, Zenon
  <2> QED
    BY <1>1, <1>4, <2>1, <2>2 DEF Memory
<1>9. /\ Leads(g, <<>>, processor_, last_event_id_) /\ InStep(Plain, g.items, cipher)
      /\ FileKey(g.items) = db_key_ /\ (start_empty => Settled(g, <<>>, 0, hist))
  BY <1>2, <1>5 DEF Leads, Settled
<1>10. Regenerating' /\ PathSafe'
  BY <1>2, <1>4, <1>6, <1>7, <1>9 DEF Regenerating, Loaded, Attuned, PathSafe
<1>11. Replacing'
  BY <1>4, <1>5, <1>7, <1>10 DEF Replacing
<1> QED
  BY <1>1, <1>4, <1>7, <1>8, <1>10, <1>11 DEF BinlogIInv

LEMMA ReindexUnlinkHolds == BinlogIInv /\ reindex_unlink => BinlogIInv'
<1> SUFFICES ASSUME BinlogIInv, reindex_unlink PROVE BinlogIInv'
  OBVIOUS
<1> DEFINE d == [path |-> 0, new |-> Dir.new]
<1>1. Regular /\ Disk /\ Memory /\ Replacing /\ recovery # "wrong"
  BY DEF BinlogIInv, reindex_unlink
<1>2. fd_ = Dir.new /\ fd_ \in 1..5
  BY <1>1, OpenFile DEF Replacing, Regenerating, Loaded
<1>3. d.path = 0 /\ d.new = Dir.new /\ d \in [path : 0..5, new : 0..5]
  BY <1>2
<1>4. dirs' = <<d>> /\ files' = Collected(files, <<d>>, fd_)
  BY <1>1, UnlinkedFacts DEF reindex_unlink
<1>5. /\ fd_' = fd_ /\ buffer_' = buffer_ /\ cipher' = cipher /\ need_sync_' = need_sync_
      /\ db_key_' = db_key_ /\ processor_' = processor_ /\ last_event_id_' = last_event_id_
      /\ start_empty' = start_empty /\ wrote' = wrote /\ hist' = hist /\ recovery' = recovery
      /\ operations' = operations /\ client' = client /\ pc' = "reindex_rename"
  BY DEF reindex_unlink, streamVars, memVars, histVars, boundVars
<1> HIDE DEF d
<1>6. /\ DOMAIN files' = 1..5
      /\ \A n \in 1..5 : files'[n] = IF n \in {d.path, d.new} THEN files[n] ELSE NoFile
  BY <1>1, <1>2, <1>3, <1>4, CollectedFacts
<1>7. Disk' /\ Dir' = d /\ Plain' = Plain
  BY <1>1, <1>2, <1>3, <1>4, <1>5, <1>6, DirectoryStep, PlainStays
<1>8. files'[fd_] = files[fd_]
  BY <1>2, <1>3, <1>6
<1>9. Memory'
  BY <1>1, <1>5 DEF Memory
<1>10. Replacing'
  BY <1>1, <1>2, <1>3, <1>5, <1>7, <1>8 DEF Replacing, Regenerating, Loaded, Attuned
<1> QED
  BY <1>1, <1>3, <1>5, <1>7, <1>9, <1>10 DEF BinlogIInv

LEMMA ReindexRenameHolds == BinlogIInv /\ reindex_rename => BinlogIInv'
<1> SUFFICES ASSUME BinlogIInv, reindex_rename PROVE BinlogIInv'
  OBVIOUS
<1> DEFINE d == [path |-> Dir.new, new |-> 0]
           f == files[fd_]
<1>1. Regular /\ Disk /\ Memory /\ Replacing /\ Dir.path = 0 /\ recovery # "wrong"
      /\ hist \in Histories /\ hist # <<>>
  BY DEF BinlogIInv, reindex_rename, Memory
<1>2. fd_ = Dir.new /\ fd_ \in 1..5 /\ SoundFile(Plain, f) /\ DOMAIN files = 1..5
  BY <1>1, OpenFile, DiskFacts DEF Replacing, Regenerating, Loaded
<1>3. d.path = Dir.new /\ d.new = 0 /\ d \in [path : 0..5, new : 0..5]
  BY <1>2
<1>4. dirs' = <<d>> /\ files' = files
  BY <1>1 DEF reindex_rename, DirAfter, Regular
<1>5. /\ fd_' = fd_ /\ buffer_' = buffer_ /\ cipher' = cipher /\ need_sync_' = need_sync_
      /\ db_key_' = db_key_ /\ processor_' = processor_ /\ last_event_id_' = last_event_id_
      /\ start_empty' = FALSE /\ wrote' = TRUE /\ hist' = hist /\ recovery' = recovery
      /\ operations' = operations /\ client' = client /\ pc' = "run"
  BY DEF reindex_rename, streamVars, memVars, histVars, boundVars
<1> HIDE DEF d
<1>6. Changed(files', d.path, f)
  BY <1>2, <1>3, <1>4 DEF Changed
<1>7. \A n \in 1..5 : n \notin {d.path, d.new} => files[n] = NoFile
  <2>1. \A n \in 1..5 : n \notin {d.path, d.new} => n \notin {Dir.path, Dir.new}
    BY <1>1, <1>3
  <2> QED
    BY <1>1, <2>1, DiskFacts
<1>8. Disk' /\ Dir' = d
  <2>1. d.path \in 1..5 /\ d.path # d.new /\ fd_' \in {0, d.path}
    BY <1>2, <1>3, <1>5
  <2> QED
    BY <1>1, <1>2, <1>3, <1>4, <1>5, <1>6, <1>7, <2>1, PathStep
<1>9. Plain' = Plain
  BY <1>5, PlainStays
<1>10. Memory'
  <2>1. start_empty' \in BOOLEAN /\ wrote' \in BOOLEAN
    BY <1>5, Zenon
  <2> QED
    BY <1>1, <1>5, <2>1 DEF Memory
<1>11. Covers(f, buffer_, hist)
  BY <1>1, SettledCovers DEF Replacing
<1>12. AtPath' /\ Attuned'
  BY <1>1, <1>2, <1>3, <1>4, <1>5, <1>8, <1>9, <1>11 DEF Replacing, Regenerating, AtPath, Loaded, Attuned
<1> QED
  BY <1>1, <1>5, <1>8, <1>10, <1>12 DEF BinlogIInv, Running

(* Whatever the process is doing, its open file is readable, and either it  *)
(* or the file at path leads to contents of the history.                    *)
LEMMA OpenState ==
  ASSUME BinlogIInv, pc # "closed"
  PROVE  /\ fd_ # 0 /\ fd_ \in 1..5 /\ SoundFile(Plain, files[fd_])
         /\ Legible(files[fd_].items) /\ Good(Log(files[fd_], buffer_))
         /\ InStep(Plain, files[fd_].items, cipher) \/ buffer_ = <<>>
         /\ \/ fd_ = Dir.path /\ Covers(files[fd_], buffer_, hist)
            \/ fd_ = Dir.new /\ Dir.path # fd_ /\ PathSafe
            \/ fd_ = Dir.new /\ Dir.path = 0 /\ Covers(files[fd_], buffer_, hist)
<1>1. Disk /\ hist \in Histories /\ hist # <<>>
  BY DEF BinlogIInv, Memory
<1>2. ASSUME fd_ # 0 PROVE fd_ \in 1..5 /\ SoundFile(Plain, files[fd_])
  BY <1>1, <1>2, OpenFile
<1>3. Dir.path # 0 => Dir.path # Dir.new
  BY <1>1, DiskFacts
<1>4. CASE AtPath /\ (InStep(Plain, files[fd_].items, cipher) \/ buffer_ = <<>>)
  BY <1>2, <1>4 DEF AtPath, Loaded, Leads
<1>5. CASE Regenerating /\ PathSafe
  BY <1>2, <1>3, <1>5 DEF Regenerating, Loaded, Leads, Attuned, PathSafe
<1>6. CASE Replacing /\ Dir.path = 0
  <2>1. Covers(files[fd_], buffer_, hist)
    BY <1>1, <1>6, SettledCovers DEF Replacing
  <2> QED
    BY <1>2, <1>6, <2>1 DEF Replacing, Regenerating, Loaded, Leads, Attuned
<1>7. CASE Destroying
  <2>1. fd_ # 0 /\ fd_ = Dir.path /\ Safe(files[fd_], hist) /\ buffer_ = <<>>
    BY <1>7 DEF Destroying, PathSafe
  <2>2. Log(files[fd_], <<>>) = Events(files[fd_].items)
    BY <1>2, <2>1, LogOfFile
  <2> QED
    BY <1>2, <2>1, <2>2 DEF Safe, Covers
<1>8. \/ AtPath /\ (InStep(Plain, files[fd_].items, cipher) \/ buffer_ = <<>>)
      \/ Regenerating /\ PathSafe
      \/ Replacing /\ Dir.path = 0
      \/ Destroying
  BY DEF BinlogIInv, Running, Reopening, Attuned, Writing, Complete, Replacing
<1> QED
  BY <1>4, <1>5, <1>6, <1>7, <1>8

(* If the process forgot everything now, a load would find the history.     *)
LEMMA LoadableNow ==
  ASSUME BinlogIInv
  PROVE  Recoverable(ToLoad, hist)
<1>1. CASE pc = "closed"
  BY <1>1 DEF BinlogIInv, Closed
<1>2. CASE pc # "closed"
  <2> DEFINE f == files[fd_]
  <2>1. /\ fd_ # 0 /\ SoundFile(Plain, f) /\ Legible(f.items) /\ Good(Log(f, buffer_))
        /\ \/ fd_ = Dir.path /\ Covers(f, buffer_, hist)
           \/ fd_ = Dir.new /\ Dir.path # fd_ /\ PathSafe
           \/ fd_ = Dir.new /\ Dir.path = 0 /\ Covers(f, buffer_, hist)
    BY <1>2, OpenState
  <2> HIDE DEF f
  <2>2. buffer_ \in Seq(BufferEvents) /\ Disk
    BY DEF BinlogIInv, Memory
  <2>3. Covers(f, buffer_, hist) => Recoverable(f, hist)
    BY <2>1, <2>2, FileOfLog, SafeRecoverable DEF Safe
  <2>4. CASE (fd_ = Dir.path \/ (fd_ = Dir.new /\ Dir.path = 0)) /\ Covers(f, buffer_, hist)
    <3>1. ToLoad = f
      BY <2>1, <2>4 DEF ToLoad, FileOf, f
    <3> QED
      BY <2>3, <2>4, <3>1
  <2>5. CASE PathSafe
    <3>1. Dir.path \in 1..5 /\ ToLoad = files[Dir.path] /\ SoundFile(Plain, files[Dir.path])
      BY <2>2, <2>5, DiskFacts DEF ToLoad, FileOf, PathSafe
    <3> QED
      BY <2>5, <3>1, SafeRecoverable DEF PathSafe
  <2> QED
    BY <2>1, <2>4, <2>5
<1> QED
  BY <1>1, <1>2

(* What a process that dies leaves of the file f: a part of b is written,   *)
(* perhaps with a torn event behind it.                                     *)
Partly(f, b, k, c) == f.items \o Encrypted(SubSeq(b, 1, k), c)

Broken(items) == Append(items, Torn("short"))

LEMMA CrashStep ==
  ASSUME NEW plain \in BOOLEAN, NEW f, SoundFile(plain, f), Legible(f.items),
         NEW b \in Seq(BufferEvents), NEW c \in Ciphers, Good(Log(f, b)),
         InStep(plain, f.items, c) \/ b = <<>>, NEW k \in 0..Len(b),
         NEW g \in FileRecords, g.synced = f.synced,
         g.items = Partly(f, b, k, c) \/ g.items = Broken(Partly(f, b, k, c))
  PROVE  SoundFile(plain, g) /\ \A h : Covers(f, b, h) => Recoverable(g, h)
<1> DEFINE items == f.items
           t == Partly(f, b, k, c)
<1>1. items \in Seq(Items) /\ Kind(plain, items) /\ f.synced <= Len(items)
  BY FileFacts DEF SoundFile
<1>2. t = items \o Encrypted(SubSeq(b, 1, k), c)
  BY DEF Partly
<1> HIDE DEF t, items
<1>3. /\ Legible(items) /\ Good(Events(items) \o b) /\ (InStep(plain, items, c) \/ b = <<>>)
      /\ g.synced <= Len(items)
  BY <1>1 DEF items, Log
<1>4. g.items = t \/ g.items = Append(t, Torn("short"))
  BY DEF t, Broken
<1>5. SoundFile(plain, g) /\ \A h : Tracked(Events(items) \o b, g.synced, h) => Recoverable(g, h)
  BY <1>1, <1>2, <1>3, <1>4, CrashedFile
<1> QED
  BY <1>5 DEF Covers, Log, items

LEMMA ProcessCrashHolds == BinlogIInv /\ ProcessCrash => BinlogIInv'
<1> SUFFICES ASSUME BinlogIInv, ProcessCrash PROVE BinlogIInv'
  OBVIOUS
<1> DEFINE f == files[fd_]
           g == files'[fd_]
<1>1. Regular /\ Disk /\ Memory /\ recovery # "wrong" /\ buffer_ \in Seq(BufferEvents) /\ cipher \in Ciphers
      /\ hist \in Histories /\ hist # <<>> /\ operations \in Nat /\ Plain \in BOOLEAN
  BY ClientFacts DEF BinlogIInv, Memory
<1>2. /\ fd_ # 0 /\ fd_ \in 1..5 /\ SoundFile(Plain, f) /\ Legible(f.items) /\ Good(Log(f, buffer_))
      /\ InStep(Plain, f.items, cipher) \/ buffer_ = <<>>
      /\ \/ fd_ = Dir.path /\ Covers(f, buffer_, hist)
         \/ fd_ = Dir.new /\ Dir.path # fd_ /\ PathSafe
         \/ fd_ = Dir.new /\ Dir.path = 0 /\ Covers(f, buffer_, hist)
  BY OpenState DEF ProcessCrash
<1>3. /\ Forget /\ fd_' = 0 /\ dirs' = dirs /\ hist' = hist /\ recovery' = recovery
      /\ operations' = operations /\ client' = client
  BY DEF ProcessCrash, Forget, histVars
<1>4. PICK k \in 0..Len(buffer_) :
         \/ files' = Written(SubSeq(buffer_, 1, k))
         \/ files' = [Written(SubSeq(buffer_, 1, k)) EXCEPT ![fd_].items = Append(@, Torn("short"))]
  BY DEF ProcessCrash
<1> DEFINE t == Partly(f, buffer_, k, cipher)
<1>5. DOMAIN files = 1..5 /\ f \in FileRecords
  BY <1>1, <1>2, FileFacts DEF Disk
<1>6. t \in Seq(Items) /\ Broken(t) \in Seq(Items)
  <2> DEFINE x == Encrypted(SubSeq(buffer_, 1, k), cipher)
             part == SubSeq(buffer_, 1, k)
  <2>1. part \in Seq(BufferEvents)
    BY <1>1, PrefixFacts
  <2>2. x \in Seq(Items)
    <3> HIDE DEF part
    <3>1. Encrypted(part, cipher) \in Seq(Items)
      BY <1>1, <2>1, EncryptedFacts
    <3> QED
      BY <3>1 DEF part
  <2>3. f.items \in Seq(Items)
    BY <1>2, FileFacts
  <2> HIDE DEF x
  <2>4. t \in Seq(Items)
    BY <2>2, <2>3 DEF Partly, x
  <2> HIDE DEF t
  <2>5. Torn("short") \in Items
    BY TornItem DEF TornTypes
  <2> QED
    BY <2>4, <2>5 DEF Broken
<1>7. Written(SubSeq(buffer_, 1, k)) = [files EXCEPT ![fd_].items = t]
  BY <1>2, <1>5 DEF Written, Partly
<1> HIDE DEF t
<1>8. /\ Changed(files', fd_, g) /\ g \in FileRecords /\ g.synced = f.synced
      /\ g.items = t \/ g.items = Broken(t)
  <2>1. CASE files' = Written(SubSeq(buffer_, 1, k))
    <3>1. files' = [files EXCEPT ![fd_].items = t]
      BY <1>7, <2>1
    <3> QED
      BY <1>2, <1>5, <1>6, <3>1 DEF Changed, FileRecords
  <2>2. CASE files' = [Written(SubSeq(buffer_, 1, k)) EXCEPT ![fd_].items = Append(@, Torn("short"))]
    <3> DEFINE ws == Written(SubSeq(buffer_, 1, k))
               u == Broken(t)
    <3> HIDE DEF ws, u
    <3>1. ws = [files EXCEPT ![fd_].items = t]
      BY <1>7 DEF ws
    <3>2. DOMAIN ws = 1..5 /\ ws[fd_] = [f EXCEPT !.items = t] /\ \A n \in 1..5 : n # fd_ => ws[n] = files[n]
      BY <1>2, <1>5, <3>1
    <3>3. ws[fd_].items = t /\ ws[fd_].synced = f.synced /\ ws[fd_] \in FileRecords
      BY <1>5, <1>6, <3>2 DEF FileRecords
    <3>4. files' = [ws EXCEPT ![fd_].items = Append(@, Torn("short"))]
      BY <2>2 DEF ws
    <3>5. Append(ws[fd_].items, Torn("short")) = u
      BY <3>3 DEF u, Broken
    <3>6. files' = [ws EXCEPT ![fd_].items = u]
      BY <3>4, <3>5
    <3>7. u \in Seq(Items)
      BY <1>6 DEF u
    <3>8. Changed(files', fd_, g) /\ g.items = u /\ g.synced = f.synced /\ g \in FileRecords
      BY <1>2, <3>2, <3>3, <3>6, <3>7 DEF Changed, FileRecords
    <3> QED
      BY <3>8 DEF u
  <2> QED
    BY <1>4, <2>1, <2>2
<1> HIDE DEF f, g
<1>9. SoundFile(Plain, g) /\ (Covers(f, buffer_, hist) => Recoverable(g, hist))
  <2> DEFINE plain == Plain
  <2> HIDE DEF plain
  <2>1. plain \in BOOLEAN /\ SoundFile(plain, f) /\ (InStep(plain, f.items, cipher) \/ buffer_ = <<>>)
    BY <1>1, <1>2 DEF plain
  <2>2. SoundFile(plain, g) /\ \A h : Covers(f, buffer_, h) => Recoverable(g, h)
    BY <1>1, <1>2, <1>8, <2>1, CrashStep DEF t
  <2> QED
    BY <2>2 DEF plain
<1>10. fd_ \in {Dir.path, Dir.new}
  BY <1>1, <1>2, OpenFile
<1>11. Disk' /\ files'[fd_] = g /\ \A m \in 1..5 : m # fd_ => files'[m] = files[m]
  BY <1>1, <1>2, <1>3, <1>8, <1>9, <1>10, DiskStep
<1>12. Dir' = Dir
  BY <1>3, DirSame
<1>13. Recoverable(ToLoad', hist)
  <2>1. CASE (fd_ = Dir.path \/ (fd_ = Dir.new /\ Dir.path = 0)) /\ Covers(f, buffer_, hist)
    <3>1. ToLoad' = g
      BY <1>2, <1>11, <1>12, <2>1 DEF ToLoad, FileOf
    <3> QED
      BY <1>9, <2>1, <3>1
  <2>2. CASE fd_ = Dir.new /\ Dir.path # fd_ /\ PathSafe
    <3>1. Dir.path \in 1..5 /\ SoundFile(Plain, files[Dir.path])
      BY <1>1, <2>2, DiskFacts DEF PathSafe
    <3>2. ToLoad' = files[Dir.path]
      BY <1>11, <1>12, <2>2, <3>1 DEF ToLoad, FileOf, PathSafe
    <3> QED
      BY <2>2, <3>1, <3>2, SafeRecoverable DEF PathSafe
  <2> QED
    BY <1>2, <2>1, <2>2
<1> QED
  BY <1>1, <1>3, <1>11, <1>13, ForgetHolds

LEMMA PowerLossHolds == BinlogIInv /\ PowerLoss => BinlogIInv'
<1> SUFFICES ASSUME BinlogIInv, PowerLoss PROVE BinlogIInv'
  OBVIOUS
<1>1. Regular /\ Disk /\ Memory /\ recovery # "wrong"
      /\ hist \in Histories /\ hist # <<>> /\ operations \in Nat
  BY DEF BinlogIInv, Memory
<1>2. /\ Forget /\ fd_' = 0 /\ hist' = hist /\ recovery' = recovery
      /\ operations' = operations /\ client' = client
  BY DEF PowerLoss, Forget, histVars
<1>3. dirs = <<Dir>> /\ Dir.path \in 0..5 /\ Dir.new \in 0..5 /\ (Dir.path # 0 => Dir.path # Dir.new)
      /\ DOMAIN files = 1..5 /\ \A n \in 1..5 : SoundFile(Plain, files[n])
  BY <1>1, DiskFacts
<1> DEFINE d == Dir
<1> HIDE DEF d
<1>4. DOMAIN dirs = {1} /\ dirs[1] = d
  <2>1. dirs = <<d>>
    BY <1>3 DEF d
  <2> QED
    BY <2>1
<1>5. PICK kept \in AfterPowerLoss(FileOf(d.path)), keptNew \in AfterPowerLoss(FileOf(d.new)) :
         /\ dirs' = <<d>>
         /\ files' = [n \in DOMAIN files |-> CASE n = d.path -> kept [] n = d.new -> keptNew [] OTHER -> NoFile]
  <2>1. PICK i \in DOMAIN dirs :
          \E kept \in AfterPowerLoss(FileOf(dirs[i].path)), keptNew \in AfterPowerLoss(FileOf(dirs[i].new)) :
            /\ dirs' = <<dirs[i]>>
            /\ files' = [n \in DOMAIN files |-> CASE n = dirs[i].path -> kept
                                                  [] n = dirs[i].new  -> keptNew
                                                  [] OTHER            -> NoFile]
    BY DEF PowerLoss
  <2>2. dirs[i] = d
    BY <1>4
  <2> QED
    BY <2>1, <2>2
<1>6. \A n \in 0..5 : SoundFile(Plain, FileOf(n))
  BY <1>3, EmptyFile DEF FileOf
<1>7. d.path \in 0..5 /\ d.new \in 0..5 /\ (d.path # 0 => d.path # d.new) /\ d \in [path : 0..5, new : 0..5]
  BY <1>1, <1>3 DEF d, Disk
<1>8. /\ SoundFile(Plain, kept) /\ SoundFile(Plain, keptNew)
      /\ Recoverable(FileOf(d.path), hist) => Recoverable(kept, hist)
      /\ Recoverable(FileOf(d.new), hist) => Recoverable(keptNew, hist)
  <2>1. client.tails \subseteq TornOf(Plain)
    BY <1>1, ClientFacts DEF Memory
  <2> QED
    BY <1>5, <1>6, <1>7, <2>1, PowerLossFile
<1>9. /\ DOMAIN files' = 1..5
      /\ \A n \in 1..5 : files'[n] \in {kept, keptNew, NoFile}
      /\ \A n \in 1..5 : n = d.path => files'[n] = kept
      /\ \A n \in 1..5 : n = d.new /\ n # d.path => files'[n] = keptNew
      /\ \A n \in 1..5 : n \notin {d.path, d.new} => files'[n] = NoFile
  <2>1. DOMAIN files' = 1..5
    BY <1>3, <1>5
  <2>2. ASSUME NEW n \in 1..5
        PROVE  files'[n] = IF n = d.path THEN kept ELSE IF n = d.new THEN keptNew ELSE NoFile
    <3>1. files'[n] = CASE n = d.path -> kept [] n = d.new -> keptNew [] OTHER -> NoFile
      BY <1>3, <1>5
    <3>2. ~(n = d.path /\ n = d.new)
      BY <1>7
    <3> QED
      BY <3>1, <3>2
  <2> QED
    BY <2>1, <2>2
<1>10. Dir' = d /\ Plain' = Plain
  BY <1>2, <1>5, DirOfOne, PlainStays
<1>11. Disk'
  <2>1. \A n \in 1..5 : SoundFile(Plain, files'[n])
    BY <1>8, <1>9, EmptyFile
  <2> QED
    BY <1>2, <1>5, <1>7, <1>9, <1>10, <2>1 DEF Disk
<1>12. Recoverable(ToLoad, hist)
  BY LoadableNow
<1>13. Recoverable(ToLoad', hist)
  <2>1. CASE d.path # 0
    <3>1. ToLoad' = kept /\ ToLoad = FileOf(d.path)
      BY <1>7, <1>9, <1>10, <2>1 DEF ToLoad, FileOf, d
    <3> QED
      BY <1>8, <1>12, <3>1
  <2>2. CASE d.path = 0 /\ d.new # 0
    <3>1. ToLoad' = keptNew /\ ToLoad = FileOf(d.new)
      BY <1>7, <1>9, <1>10, <2>2 DEF ToLoad, FileOf, d
    <3> QED
      BY <1>8, <1>12, <3>1
  <2>3. CASE d.path = 0 /\ d.new = 0
    <3>1. ToLoad' = NoFile /\ ToLoad = NoFile
      BY <1>10, <2>3 DEF ToLoad, FileOf, d
    <3> QED
      BY <1>12, <3>1
  <2> QED
    BY <2>1, <2>2, <2>3
<1> QED
  BY <1>1, <1>2, <1>11, <1>13, ForgetHolds

(* Writes of a running Binlog.                                              *)
LEMMA ClientEvents ==
  ASSUME BinlogIInv, pc = "run"
  PROVE  /\ Fits(Event("data", last_event_id_ + 1, FALSE), Contents(processor_), last_event_id_)
         /\ \A id \in LiveIds, type \in {"data", "empty"} :
              Fits(Event(type, id, TRUE), Contents(processor_), last_event_id_)
<1>1. operations + 1 \in Nat /\ last_event_id_ \in Nat /\ last_event_id_ + 1 \in Nat /\ Agree(processor_, Nat)
  BY DEF BinlogIInv, Memory, Running, AtPath, Loaded, Holds
<1> DEFINE e == Event("data", last_event_id_ + 1, FALSE)
<1>2. e.type = "data" /\ e.id = last_event_id_ + 1 /\ e.rewrite = FALSE /\ e \in Data(Nat)
  BY <1>1 DEF Event, Data
<1>3. Fits(e, Contents(processor_), last_event_id_)
  <2> HIDE DEF e
  <2> QED
    BY <1>2 DEF Fits, BufferEvents
<1>4. ASSUME NEW id \in LiveIds, NEW type \in {"data", "empty"}
      PROVE  Fits(Event(type, id, TRUE), Contents(processor_), last_event_id_)
  <2> DEFINE x == Event(type, id, TRUE)
  <2>1. PICK c \in Contents(processor_) : id = c[1]
    BY DEF LiveIds
  <2>2. id \in Nat
    BY <1>1, <2>1, ContentsType
  <2>3. x.id = id /\ x.rewrite = TRUE /\ x \in Data(Nat) \cup Erasures
    BY <1>1, <2>2 DEF Event, Data, Erasures
  <2> HIDE DEF x
  <2>4. Fits(x, Contents(processor_), last_event_id_)
    BY <2>1, <2>3 DEF Fits, BufferEvents
  <2> QED
    BY <2>4 DEF x
<1> QED
  BY <1>3, <1>4

LEMMA StutterHolds == BinlogIInv /\ UNCHANGED vars => BinlogIInv'
<1> SUFFICES ASSUME BinlogIInv, UNCHANGED vars PROVE BinlogIInv'
  OBVIOUS
<1>1. /\ files' = files /\ dirs' = dirs /\ pc' = pc /\ fd_' = fd_ /\ buffer_' = buffer_ /\ cipher' = cipher
      /\ need_sync_' = need_sync_ /\ db_key_' = db_key_ /\ start_empty' = start_empty /\ wrote' = wrote
      /\ processor_' = processor_ /\ last_event_id_' = last_event_id_ /\ hist' = hist
      /\ recovery' = recovery /\ operations' = operations /\ client' = client
  BY DEF vars, diskVars, streamVars, memVars, histVars, boundVars
<1>2. Dir' = Dir /\ Plain' = Plain
  BY <1>1, DirSame, PlainStays
<1>3. Disk'
  BY <1>1, <1>2 DEF BinlogIInv, Disk
<1>4. Memory'
  BY <1>1 DEF BinlogIInv, Memory
<1>5. ToLoad' = ToLoad
  BY <1>1, <1>2 DEF ToLoad, FileOf
<1>6. /\ Closed' <=> Closed
      /\ AtPath' <=> AtPath
      /\ Attuned' <=> Attuned
      /\ Regenerating' <=> Regenerating
      /\ PathSafe' <=> PathSafe
      /\ Destroying' <=> Destroying
  BY <1>1, <1>2, <1>5 DEF Closed, AtPath, Loaded, Attuned, Regenerating, PathSafe, Destroying
<1>7. /\ Running' <=> Running
      /\ Reopening' <=> Reopening
      /\ Writing' <=> Writing
      /\ Complete' <=> Complete
      /\ Replacing' <=> Replacing
  BY <1>1, <1>2, <1>6 DEF Running, Reopening, Writing, Complete, Replacing
<1> QED
  BY <1>1, <1>2, <1>3, <1>4, <1>6, <1>7 DEF BinlogIInv

(* The invariant: at any moment, whatever the process is doing and however  *)
(* often it was stopped before, the file that the next load would take is   *)
(* readable up to a torn end, and each of its prefixes that a power loss    *)
(* may leave shows contents that the client had, not before the last        *)
(* acknowledged sync.  For clients that never or always use a key, a disk   *)
(* on which directory operations are durable, and any number of operations, *)
(* key changes, crashes and power losses.                                   *)
THEOREM BinlogInvariance == Regular /\ Spec => []BinlogIInv
<1>1. Regular /\ Init => BinlogIInv
  BY InitHolds
<1>2. BinlogIInv /\ [Next]_vars => BinlogIInv'
  <2> SUFFICES ASSUME BinlogIInv, [Next]_vars PROVE BinlogIInv'
    OBVIOUS
  <2>1. CASE UNCHANGED vars
    BY <2>1, StutterHolds
  <2>2. ASSUME NEW key \in client.keys, NEW old_key \in client.keys, init(key, old_key) PROVE BinlogIInv'
    BY <2>2, LoadHolds
  <2>3. CASE add
    BY <2>3, ClientEvents, AddEventHolds DEF add, add_event
  <2>4. CASE rewrite
    BY <2>4, ClientEvents, AddEventHolds DEF rewrite, add_event
  <2>5. CASE erase
    BY <2>5, ClientEvents, AddEventHolds DEF erase, add_event
  <2>6. ASSUME NEW key \in client.keys \cap ChangeKeys, change_key(key) PROVE BinlogIInv'
    BY <2>6, ChangeKeyHolds
  <2>7. CASE Flush
    BY <2>7, FlushHolds
  <2>8. CASE Sync
    BY <2>8, SyncHolds
  <2>9. CASE close
    BY <2>9, CloseHolds
  <2>10. CASE destroy_begin
    BY <2>10, DestroyBeginHolds
  <2>11. CASE destroy_new
    BY <2>11, DestroyNewHolds
  <2>12. CASE destroy_path
    BY <2>12, DestroyPathHolds
  <2>13. CASE reindex_open
    BY <2>13, ReindexOpenHolds
  <2>14. CASE reindex_write
    BY <2>14, ReindexWriteHolds
  <2>15. CASE reindex_sync
    BY <2>15, ReindexSyncHolds
  <2>16. CASE reindex_unlink
    BY <2>16, ReindexUnlinkHolds
  <2>17. CASE reindex_rename
    BY <2>17, ReindexRenameHolds
  <2>18. CASE ProcessCrash
    BY <2>18, ProcessCrashHolds
  <2>19. CASE PowerLoss
    BY <2>19, PowerLossHolds
  <2> QED
    BY <2>1, <2>2, <2>3, <2>4, <2>5, <2>6, <2>7, <2>8, <2>9, <2>10, <2>11, <2>12, <2>13, <2>14, <2>15,
       <2>16, <2>17, <2>18, <2>19 DEF Next
<1> QED
  BY <1>1, <1>2, PTL DEF Spec

(* After any sequence of crashes, power losses and interrupted              *)
(* regenerations init() finds the contents that the last sync() or close()  *)
(* of a process which had written covered, or those after a later           *)
(* operation.                                                               *)
THEOREM RecoversAcknowledgedHolds == Regular /\ Spec => []RecoversAcknowledged
<1>1. BinlogIInv => RecoversAcknowledged
  BY DEF BinlogIInv, RecoversAcknowledged
<1> QED
  BY <1>1, BinlogInvariance, PTL

(* While the Binlog runs, its file with the buffer, read back with the key  *)
(* that it was told to use, gives what is in memory.                        *)
THEOREM FileMatchesMemoryHolds == Regular /\ Spec => []FileMatchesMemory
<1>1. ASSUME BinlogIInv PROVE FileMatchesMemory
  <2> DEFINE f == files[fd_]
             g == FlushedFiles[fd_]
  <2> SUFFICES ASSUME pc = "run"
               PROVE  /\ Dir.path = fd_ /\ FileKey(g.items) = db_key_
                      /\ ReadableLength(g.items) = Len(g.items)
                      /\ Contents(Replay(Events(g.items))) = Contents(processor_)
    BY DEF FileMatchesMemory
  <2>1. Regular /\ Disk /\ Memory /\ Running /\ buffer_ \in Seq(BufferEvents)
    BY <1>1 DEF BinlogIInv, Memory
  <2>2. /\ fd_ # 0 /\ fd_ = Dir.path /\ Leads(f, buffer_, processor_, last_event_id_)
        /\ InStep(Plain, f.items, cipher) /\ FileKey(f.items) = db_key_
    BY <2>1 DEF Running, AtPath, Loaded, Attuned
  <2>3. /\ SoundFile(Plain, g) /\ FileKey(g.items) = db_key_
        /\ Leads(g, <<>>, processor_, last_event_id_)
    BY <2>1, <2>2, WrittenFacts DEF FlushedFiles
  <2> HIDE DEF g
  <2>4. Log(g, <<>>) = Events(g.items)
    BY <2>3, LogOfFile
  <2>5. g.items \in Seq(Items) /\ Legible(g.items) /\ Good(Events(g.items))
        /\ Contents(Replay(Events(g.items))) = Contents(processor_)
    BY <2>3, <2>4, FileFacts DEF Leads
  <2>6. ReadableLength(g.items) = Len(g.items)
    BY <2>5, LegibleSound, SoundLength
  <2> QED
    BY <2>2, <2>3, <2>5, <2>6
<1> QED
  BY <1>1, BinlogInvariance, PTL

(* add_event never gets an event that the processor refuses, and init()     *)
(* never reads one from a file.                                             *)
THEOREM NeverFatalHolds == Regular /\ Spec => []NeverFatal
<1>1. ASSUME BinlogIInv PROVE NeverFatal
  <2>1. ASSUME pc = "run"
        PROVE  /\ ~Refused(processor_, Event("data", last_event_id_ + 1, FALSE))
               /\ \A id \in LiveIds, type \in {"data", "empty"} :
                    ~Refused(processor_, Event(type, id, TRUE))
    <3>1. /\ Agree(processor_, Nat) /\ last_event_id_ \in Nat
          /\ processor_.last_event_id_ <= last_event_id_
      BY <1>1, <2>1 DEF BinlogIInv, Running, AtPath, Loaded, Holds
    <3>2. ASSUME NEW e, Fits(e, Contents(processor_), last_event_id_) PROVE ~Refused(processor_, e)
      BY <3>1, <3>2, EventStep
    <3> QED
      BY <1>1, <2>1, <3>2, ClientEvents
  <2>2. ASSUME NEW n \in {Dir.path, Dir.new} \ {0}
        PROVE  RefusedAt(Events(SubSeq(files[n].items, 1, ReadableLength(files[n].items)))) = 0
    <3>1. Disk
      BY <1>1 DEF BinlogIInv
    <3>2. SoundFile(Plain, files[n])
      BY <3>1, DiskFacts
    <3> DEFINE items == files[n].items
    <3>3. items \in Seq(Items)
      BY <3>2, FileFacts
    <3>4. PICK r \in 0..Len(items) : Sound(items, r)
      BY <3>2 DEF SoundFile
    <3> HIDE DEF items
    <3>5. ReadableLength(items) = r /\ Good(Events(SubSeq(items, 1, r)))
      BY <3>3, <3>4, SoundLength DEF Sound
    <3>6. RefusedAt(Events(SubSeq(items, 1, r))) = 0
      BY <3>5, NoneRefused
    <3> QED
      BY <3>5, <3>6 DEF items
  <2> QED
    BY <2>1, <2>2 DEF NeverFatal
<1> QED
  BY <1>1, BinlogInvariance, PTL
=============================================================================
