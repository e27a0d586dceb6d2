------------------------------- MODULE Binlog -------------------------------
(***************************************************************************)
(* td::Binlog (tddb/td/db/binlog/Binlog.{h,cpp}) on a disk that can lose   *)
(* power: an append-only file of events, regenerated ("reindexed") into    *)
(* path.new when too much of it is dead or the encryption key changes.     *)
(*                                                                         *)
(* The disk.  A file is [items, synced]: the events in it and how many of  *)
(* them an fsync has covered.  dirs is the sequence of states of the       *)
(* directory a power loss may leave behind, the last being the current     *)
(* one; a state maps the two names, path and path.new, to file numbers, 0  *)
(* if there is no such file.  With DirOpsDurable every directory operation *)
(* is durable when it returns; otherwise the operations since the last     *)
(* fsync may be lost, the latest ones first.                               *)
(*                                                                         *)
(* Encryption.  AES-CTR is a stream: an event can be read only with the    *)
(* key, and at the position in the stream, that it was written with.  Each *)
(* item in a file records both.                                            *)
(*                                                                         *)
(* Every event has size 1.  hist is the sequence of contents that the      *)
(* client's operations have produced, from the last one that is known to   *)
(* be safe: hist[1] is what the last sync() or close() that wrote to the   *)
(* disk covered.  claimed is the position that the last sync() or close()  *)
(* that returned covered; it is behind hist[1] if the process had written  *)
(* nothing since it loaded the file, because sync() then does nothing.     *)
(***************************************************************************)
EXTENDS BinlogEventsProcessor, FiniteSets

CONSTANTS
  NoKey,            \* the empty DbKey
  Keys,             \* the other keys
  Clients,          \* [keys, rules, open_fails, tails, operations, crashes]: the keys
                    \* that a client uses, the <<min_size, rate>> pairs of need_reindex,
                    \* whether opening path.new can fail, the damaged events that a
                    \* power loss leaves on its disk, the bounds on its writes and
                    \* destroys and on the crashes and power losses it meets
  ChangeKeys,       \* the keys that change_key may be called with
  LazyFlushSize,    \* lazy_flush's limit, 1 << 14 in the code
  DirOpsDurable,    \* whether directory operations are durable at once
  MaxKeyChanges     \* bound: calls of change_key

ASSUME BinlogAssumption ==
  /\ NoKey \notin Keys
  /\ \A c \in Clients : /\ c.keys \subseteq Keys \cup {NoKey} /\ c.operations \in Nat /\ c.crashes \in Nat
                       /\ c.open_fails \in BOOLEAN /\ c.rules \subseteq Nat \X (Nat \ {0})
                       /\ c.tails \subseteq {"short", "bad", "zero"}
  /\ ChangeKeys \subseteq Keys \cup {NoKey}
  /\ LazyFlushSize \in Nat
  /\ DirOpsDurable \in BOOLEAN
  /\ MaxKeyChanges \in Nat

VARIABLES
  files, dirs,                   \* the disk
  pc,                            \* "closed", "run" or a step of do_reindex or destroy
  fd_,                           \* the number of the open file
  buffer_,                       \* events not yet written to it
  cipher,                        \* [key, pos] of the write stream; pos counts items
  need_sync_, db_key_,
  start_empty,                   \* do_reindex: start_size = 0
  processor_, last_event_id_,
  hist, claimed,                 \* history of the contents
  wrote,                         \* history: the process has written since it loaded
  recovery,                      \* history: the verdict on the last load
  client,                        \* which client this is
  operations, crashes, key_changes   \* counted for the bounds

diskVars   == <<files, dirs>>
streamVars == <<fd_, buffer_, cipher, need_sync_>>
memVars    == <<processor_, last_event_id_>>
histVars   == <<hist, claimed, recovery>>
boundVars  == <<operations, crashes, key_changes, client>>
vars == <<diskVars, pc, streamVars, db_key_, start_empty, wrote, memVars, histVars,
          boundVars>>

-----------------------------------------------------------------------------
(* The disk. *)

NoFile == [items |-> <<>>, synced |-> 0]

Dir == Last(dirs)

(* Files that neither the directory nor the process can reach are gone.     *)
Reachable(ds, fd) ==
  {fd} \cup UNION {{ds[i].path, ds[i].new} : i \in DOMAIN ds}

Collected(fs, ds, fd) ==
  [n \in DOMAIN fs |-> IF n \in Reachable(ds, fd) THEN fs[n] ELSE NoFile]

DirAfter(dir) == IF DirOpsDurable THEN <<dir>> ELSE Append(dirs, dir)

FreshFile == CHOOSE n \in DOMAIN files : n \notin Reachable(dirs, fd_)
                      /\ \A m \in 1..(n - 1) : m \in Reachable(dirs, fd_)

(* What a file system may keep of a file whose power is cut: the synced     *)
(* part, and any prefix of the rest, possibly ending in a damaged event.    *)
(* read_next reports a "short" one as incomplete or broken, and with error  *)
(* -2 a "bad" one, whose length is not a multiple of 4.  A "zero" one is of *)
(* '\0' bytes: too small in a plain file, while in an encrypted one the     *)
(* length they decrypt to is not a multiple of 4 (a zero tail with any      *)
(* other length is short).                                                  *)
Torn(kind) == [type |-> kind, id |-> 0, val |-> 0, rewrite |-> FALSE, key |-> NoKey, pos |-> 0]

AfterPowerLoss(f) ==
  LET kept(k) == SubSeq(f.items, 1, k)
      cut == {kept(k) : k \in f.synced..Len(f.items)}
               \cup {Append(kept(k), Torn(kind)) :
                       k \in f.synced..(Len(f.items) - 1), kind \in client.tails}
  IN  {[items |-> s, synced |-> Len(s)] : s \in cut}

-----------------------------------------------------------------------------
(* Writing. *)

(* The events of a buffer as they appear in the file.                       *)
Encrypted(events, stream) ==
  [i \in DOMAIN events |->
     [type |-> events[i].type, id |-> events[i].id, val |-> events[i].val,
      rewrite |-> events[i].rewrite, key |-> stream.key, pos |-> stream.pos + i]]

Written(events) == [files EXCEPT ![fd_].items = @ \o Encrypted(events, cipher)]

(* flush(): the whole buffer is written.                                    *)
FlushedFiles == Written(buffer_)
FlushedCipher_Restarted == cipher

FlushedCipher == [cipher EXCEPT !.pos = @ + Len(buffer_)]

FsyncFile(fs, n) == [fs EXCEPT ![n].synced = Len(fs[n].items)]

flush ==
  /\ files' = FlushedFiles /\ cipher' = FlushedCipher
  /\ buffer_' = <<>>
  /\ need_sync_' = (need_sync_ \/ buffer_ # <<>>)
  /\ UNCHANGED <<dirs, fd_>>

(* sync(): flush, then fsync if something was written since the last one.   *)
sync ==
  /\ IF need_sync_ \/ buffer_ # <<>>
       THEN /\ files' = FsyncFile(FlushedFiles, fd_)
            /\ dirs' = <<Dir>>
       ELSE UNCHANGED <<files, dirs>>
  /\ cipher' = FlushedCipher /\ buffer_' = <<>> /\ need_sync_' = FALSE
  /\ UNCHANGED fd_

(* The encryption event that starts an encrypted file, itself in the clear. *)
KeyEvent(key) == [type |-> "key", id |-> 0, val |-> 0, rewrite |-> FALSE, key |-> key, pos |-> 1]

-----------------------------------------------------------------------------
(* Loading. *)

FileKey(items) ==
  IF items # <<>> /\ items[1].type = "key" THEN items[1].key ELSE NoKey

(* An event is readable with the file's key at its place in the stream.     *)
Readable(items, i) ==
  \/ i = 1 /\ items[i].type = "key"
  \/ /\ items[i].type \in {"data", "empty"}
     /\ items[i].key = FileKey(items)
     /\ FileKey(items) # NoKey => items[i].pos = i

(* The events that load_binlog reads before it stops.                       *)
ReadableLength(items) ==
  CHOOSE k \in 0..Len(items) :
    /\ \A i \in 1..k : Readable(items, i)
    /\ k < Len(items) => ~Readable(items, k + 1)

(* What read_next finds behind the first k events: the end of the file, a   *)
(* damaged event, or one that was written at another position and decrypts  *)
(* to anything.                                                             *)
Tails(items, k) ==
  IF k = Len(items) THEN {"none"}
  ELSE IF items[k + 1].type \in {"short", "bad", "zero"} THEN {items[k + 1].type}
  ELSE {"short", "bad"}

EventOf(item) == [type |-> item.type, id |-> item.id, val |-> item.val, rewrite |-> item.rewrite]

Events(items) == [i \in DOMAIN items |-> EventOf(items[i])]

(* The first event of a file that the processor refuses, 0 if none.         *)
RefusedAt(events) ==
  LET bad == {i \in DOMAIN events : Refused(Replay(SubSeq(events, 1, i - 1)), events[i])}
  IN  IF bad = {} THEN 0 ELSE CHOOSE i \in bad : \A j \in bad : i <= j

-----------------------------------------------------------------------------
Init ==
  /\ files = [n \in 1..5 |-> NoFile]
  /\ dirs = <<[path |-> 0, new |-> 0]>>
  /\ pc = "closed" /\ fd_ = 0 /\ buffer_ = <<>> /\ cipher = [key |-> NoKey, pos |-> 0]
  /\ need_sync_ = FALSE /\ db_key_ = NoKey /\ start_empty = FALSE
  /\ processor_ = EmptyProcessor /\ last_event_id_ = 0
  /\ hist = <<{}>> /\ claimed = 1 /\ wrote = FALSE /\ recovery = "ok"
  /\ client \in Clients /\ operations = 0 /\ crashes = 0 /\ key_changes = 0

(* The process is gone or has closed the file: what it knew is forgotten.   *)
Forget ==
  /\ pc' = "closed" /\ fd_' = 0 /\ buffer_' = <<>> /\ cipher' = [key |-> NoKey, pos |-> 0]
  /\ need_sync_' = FALSE /\ db_key_' = NoKey /\ start_empty' = FALSE
  /\ wrote' = FALSE
  /\ processor_' = EmptyProcessor /\ last_event_id_' = 0

(* What the client finds after a load, against what it has done before.     *)
Judge(contents) ==
  LET same == {i \in DOMAIN hist : hist[i] = contents}
      k == CHOOSE i \in same : \A j \in same : j <= i
  IN  IF same = {}
        THEN recovery' = "wrong" /\ UNCHANGED <<hist, claimed>>
        ELSE /\ hist' = SubSeq(hist, 1, k)
             /\ recovery' = IF k < claimed THEN "unwritten" ELSE "ok"
             /\ claimed' = IF k < claimed THEN k ELSE claimed

(* sync() or close() returns to the client.                                 *)
Acknowledge ==
  IF wrote THEN hist' = <<Last(hist)>> /\ claimed' = 1
           ELSE claimed' = Len(hist) /\ UNCHANGED hist

(* The directory and the files after init() found its file: path.new is     *)
(* taken if path is missing, and an empty file is created if both are.      *)
Opened ==
  LET dir == IF Dir.path # 0 THEN Dir
             ELSE IF Dir.new # 0 THEN [path |-> Dir.new, new |-> 0]
             ELSE [path |-> FreshFile, new |-> 0]
  IN  [file |-> dir.path, dirs |-> IF dir = Dir THEN dirs ELSE DirAfter(dir)]

(* A tail with error -2 is fatal, unless debug_get_binlog_data finds only   *)
(* '\0' bytes in an encrypted file: then it is ignored.                     *)
Ignored(tail, key) == tail = "zero" /\ key # NoKey

(* db_key_used_ at the end of load_binlog: the file starts with an event of *)
(* this key and was not cut behind its last event, because a cut leaves the *)
(* stream out of step.  An ignored tail is gone by then.                    *)
KeyUsed_AfterCut(key, db_key, cut) == key # NoKey /\ key = db_key

KeyUsed(key, db_key, cut) == key # NoKey /\ key = db_key /\ ~cut

LastEventId_Zero(p) == 0

LastEventId(p) == p.last_event_id_

(* init(db_key, old_db_key) on the file found.                              *)
init(db_key, old_db_key) ==
  LET file   == Opened.file
      items  == files[file].items
      k      == ReadableLength(items)
      refused == RefusedAt(Events(SubSeq(items, 1, k)))
      good   == SubSeq(items, 1, IF refused = 0 THEN k ELSE refused - 1)
      key    == FileKey(items)
      wrong  == key # NoKey /\ key # db_key /\ key # old_db_key
      db_key_used_(tail) == KeyUsed(key, db_key, tail # "none" /\ ~Ignored(tail, key))
      p      == Replay(Events(good))
      shrunk == [files EXCEPT ![file] = [items |-> good,
                                         synced |-> IF @.synced <= k THEN @.synced ELSE k]]
  IN  /\ pc = "closed"
      /\ dirs' = Opened.dirs
      /\ \/ /\ wrong
            /\ UNCHANGED <<files, pc, streamVars, db_key_, start_empty, wrote, memVars, histVars>>
         \/ /\ ~wrong /\ (refused # 0 \/ "bad" \in Tails(items, k))
            /\ files' = shrunk
            /\ UNCHANGED <<pc, streamVars, db_key_, start_empty, wrote, memVars, histVars>>
         \/ /\ ~wrong /\ refused = 0
            /\ files' = shrunk
            /\ fd_' = file /\ buffer_' = <<>> /\ need_sync_' = FALSE
            /\ cipher' = [key |-> key, pos |-> Len(items)]
            /\ db_key_' = db_key
            /\ processor_' = p /\ last_event_id_' = LastEventId(p)
            /\ Judge(Contents(p))
            /\ \E tail \in Tails(items, k) \ {"bad"} :
                 pc' = IF \/ db_key # NoKey /\ ~db_key_used_(tail)
                          \/ db_key = NoKey /\ key # NoKey
                         THEN "reindex_open" ELSE "run"
            /\ UNCHANGED <<start_empty, wrote>>
      /\ UNCHANGED boundVars

-----------------------------------------------------------------------------
(* The operations of a running Binlog. *)

(* need_reindex(), from the size of the file, the buffer included.          *)
NeedReindex(size, live) == \E r \in client.rules : size > r[1] /\ size \div r[2] > live

(* add_event: do_event, lazy_flush and, if it is time, do_reindex.          *)
add_event(event) ==
  LET buffer == Append(buffer_, event)
      full   == Len(buffer) > LazyFlushSize
      p      == do_event(processor_, event)
  IN  /\ pc = "run" /\ operations < client.operations
      /\ ~Refused(processor_, event)
      /\ processor_' = p
      /\ last_event_id_' = last_event_id_ + 1
      /\ hist' = Append(hist, Contents(p))
      /\ IF full THEN /\ files' = Written(buffer)
                      /\ cipher' = [cipher EXCEPT !.pos = @ + Len(buffer)]
                      /\ buffer_' = <<>> /\ need_sync_' = TRUE
                 ELSE /\ buffer_' = buffer
                      /\ UNCHANGED <<files, cipher, need_sync_>>
      /\ pc' = IF NeedReindex(Len(files[fd_].items) + Len(buffer), p.total_raw_events_size_)
                 THEN "reindex_open" ELSE "run"
      /\ wrote' = TRUE
      /\ operations' = operations + 1
      /\ UNCHANGED <<dirs, fd_, db_key_, start_empty, claimed, recovery, crashes, key_changes, client>>

LiveIds == {c[1] : c \in Contents(processor_)}

Event(type, id, rewrite) ==
  [type |-> type, id |-> id, val |-> operations + 1, rewrite |-> rewrite]

add == add_event(Event("data", last_event_id_ + 1, FALSE))
rewrite == \E id \in LiveIds : add_event(Event("data", id, TRUE))
erase == \E id \in LiveIds : add_event(Event("empty", id, TRUE))

Flush ==
  /\ pc = "run" /\ buffer_ # <<>> /\ flush
  /\ UNCHANGED <<pc, db_key_, start_empty, wrote, memVars, histVars, boundVars>>

Sync ==
  /\ pc = "run" /\ sync
  /\ Acknowledge
  /\ UNCHANGED <<pc, db_key_, start_empty, wrote, memVars, recovery, boundVars>>

change_key(key) ==
  /\ pc = "run" /\ key_changes < MaxKeyChanges
  /\ db_key_' = key
  /\ key_changes' = key_changes + 1
  /\ pc' = "reindex_open"
  /\ UNCHANGED <<diskVars, streamVars, start_empty, wrote, memVars, histVars, operations,
                 crashes, client>>

(* close(): sync, then the file is closed.                                  *)
close ==
  /\ pc = "run"
  /\ LET fs == IF need_sync_ \/ buffer_ # <<>> THEN FsyncFile(FlushedFiles, fd_) ELSE files
     IN  files' = fs /\ dirs' = IF need_sync_ \/ buffer_ # <<>> THEN <<Dir>> ELSE dirs
  /\ Acknowledge
  /\ Forget
  /\ UNCHANGED <<recovery, boundVars>>

(* close_and_destroy(): flush and close, then path.new is unlinked and path *)
(* after it.                                                                *)
destroy_begin ==
  /\ pc = "run" /\ operations < client.operations /\ flush
  /\ operations' = operations + 1
  /\ hist' = Append(hist, {})
  /\ pc' = "destroy_new"
  /\ UNCHANGED <<db_key_, start_empty, wrote, memVars, claimed, recovery, crashes,
                 key_changes, client>>

Unlinked(name) == DirAfter([Dir EXCEPT ![name] = 0])

destroy_new ==
  /\ pc = "destroy_new"
  /\ dirs' = Unlinked("new") /\ files' = Collected(files, dirs', fd_)
  /\ pc' = "destroy_path"
  /\ UNCHANGED <<streamVars, db_key_, start_empty, wrote, memVars, histVars, boundVars>>

destroy_path ==
  /\ pc = "destroy_path"
  /\ dirs' = Unlinked("path") /\ files' = Collected(files, dirs', 0)
  /\ Forget
  /\ UNCHANGED <<histVars, boundVars>>

-----------------------------------------------------------------------------
(* do_reindex, step by step: power can be lost between any two of them.     *)

(* Opening path.new truncates it.  The buffer of the old file is dropped:   *)
(* the processor has its events, and they become the new buffer.            *)
reindex_open ==
  /\ pc = "reindex_open"
  /\ \/ LET fresh == Dir.new = 0
            file  == IF fresh THEN FreshFile ELSE Dir.new
            head  == IF db_key_ = NoKey THEN <<>> ELSE <<KeyEvent(db_key_)>>
        IN  /\ start_empty' = (files[Dir.path].items = <<>>)
            /\ dirs' = IF fresh THEN DirAfter([Dir EXCEPT !.new = file]) ELSE dirs
            /\ files' = [files EXCEPT ![file] = [items |-> head, synced |-> 0]]
            /\ fd_' = file
            /\ cipher' = [key |-> db_key_, pos |-> Len(head)]
            /\ buffer_' = for_each(processor_)
            /\ pc' = "reindex_write"
            /\ UNCHANGED need_sync_
     \/ /\ client.open_fails
        /\ pc' = "run"
        /\ UNCHANGED <<diskVars, streamVars, start_empty>>
  /\ UNCHANGED <<db_key_, wrote, memVars, histVars, boundVars>>

reindex_write ==
  /\ pc = "reindex_write" /\ flush
  /\ pc' = "reindex_sync"
  /\ UNCHANGED <<db_key_, start_empty, wrote, memVars, histVars, boundVars>>

(* The file is synced if the old one was not empty.                         *)
reindex_sync ==
  /\ pc = "reindex_sync"
  /\ IF start_empty THEN UNCHANGED <<files, dirs>>
     ELSE files' = FsyncFile(files, fd_) /\ dirs' = <<Dir>>
  /\ need_sync_' = FALSE
  /\ pc' = "reindex_unlink"
  /\ UNCHANGED <<fd_, buffer_, cipher, db_key_, start_empty, wrote, memVars, histVars, boundVars>>

reindex_unlink ==
  /\ pc = "reindex_unlink"
  /\ dirs' = Unlinked("path") /\ files' = Collected(files, dirs', fd_)
  /\ pc' = "reindex_rename"
  /\ UNCHANGED <<streamVars, db_key_, start_empty, wrote, memVars, histVars, boundVars>>

reindex_rename ==
  /\ pc = "reindex_rename"
  /\ dirs' = DirAfter([path |-> Dir.new, new |-> 0])
  /\ pc' = "run"
  /\ start_empty' = FALSE
  /\ wrote' = TRUE
  /\ UNCHANGED <<files, streamVars, db_key_, memVars, histVars, boundVars>>

-----------------------------------------------------------------------------
(* Failures. *)

(* The process dies: the buffer is lost, except for a part of it if a write *)
(* was under way.                                                           *)
ProcessCrash ==
  /\ pc # "closed" /\ crashes < client.crashes
  /\ \E k \in 0..Len(buffer_), short \in BOOLEAN :
       /\ short => k < Len(buffer_)
       /\ LET part == Written(SubSeq(buffer_, 1, k))
          IN  files' = IF short THEN [part EXCEPT ![fd_].items = Append(@, Torn("short"))]
                       ELSE part
  /\ crashes' = crashes + 1
  /\ Forget
  /\ UNCHANGED <<dirs, histVars, operations, key_changes, client>>

FileOf(n) == IF n = 0 THEN NoFile ELSE files[n]

(* The power fails: the directory is one of its possible states, and of its *)
(* two files an unsynced part may be missing.                               *)
PowerLoss ==
  /\ crashes < client.crashes
  /\ \E i \in DOMAIN dirs :
       \E kept \in AfterPowerLoss(FileOf(dirs[i].path)),
          keptNew \in AfterPowerLoss(FileOf(dirs[i].new)) :
         /\ dirs' = <<dirs[i]>>
         /\ files' = [n \in DOMAIN files |-> CASE n = dirs[i].path -> kept
                                               [] n = dirs[i].new  -> keptNew
                                               [] OTHER            -> NoFile]
  /\ crashes' = crashes + 1
  /\ Forget
  /\ UNCHANGED <<histVars, operations, key_changes, client>>

-----------------------------------------------------------------------------
Next ==
  \/ \E key, old_key \in client.keys : init(key, old_key)
  \/ add \/ rewrite \/ erase \/ Flush \/ Sync \/ close
  \/ \E key \in client.keys \cap ChangeKeys : change_key(key)
  \/ destroy_begin \/ destroy_new \/ destroy_path
  \/ reindex_open \/ reindex_write \/ reindex_sync \/ reindex_unlink \/ reindex_rename
  \/ ProcessCrash \/ PowerLoss

Spec == Init /\ [][Next]_vars

-----------------------------------------------------------------------------
(* A load after any sequence of crashes, power losses and interrupted       *)
(* regenerations finds the contents that the last sync() or close() of a    *)
(* process which had written covered, or those after a later operation:     *)
(* nothing acknowledged is lost, no torn, reordered or undecryptable event  *)
(* is taken for a real one, no older regenerated file comes back.           *)
RecoversAcknowledged == recovery # "wrong"

(* The same for every sync() or close() that returned.  It does not hold,   *)
(* and no run has it: sync() does nothing in a process that has written     *)
(* nothing, even if the process before it left unsynced events in the file. *)
SyncIsDurable == recovery = "ok"

(* In a running Binlog the file followed by the buffer, read back, gives    *)
(* the contents that are in memory; the file is encrypted with the key the  *)
(* Binlog was told to use, also after change_key, so a key that was         *)
(* replaced reads nothing.                                                  *)
FileMatchesMemory ==
  pc = "run" =>
    LET items == FlushedFiles[fd_].items
    IN  /\ Dir.path = fd_ /\ FileKey(items) = db_key_
        /\ ReadableLength(items) = Len(items)
        /\ Contents(Replay(Events(items))) = Contents(processor_)

(* The processor accepts what a client may do next, so add_event does not   *)
(* abort, and accepts every event of the file, so init does not.            *)
NeverFatal ==
  /\ pc = "run" =>
       /\ ~Refused(processor_, Event("data", last_event_id_ + 1, FALSE))
       /\ \A id \in LiveIds, type \in {"data", "empty"} :
            ~Refused(processor_, Event(type, id, TRUE))
  /\ pc = "closed" =>
       \A n \in {Dir.path, Dir.new} \ {0} :
         LET items == files[n].items
         IN  RefusedAt(Events(SubSeq(items, 1, ReadableLength(items)))) = 0
=============================================================================
