# Verification of TDLib's ordered, durable and retried work

TLA+ specifications, TLC runs and TLAPS proofs for the parts of TDLib
(`td-master/`) in which order, durability and retries are decided: the binary
event log ("binlog") and what is built on it, the sending of queries over
connections that break, and the stream of updates with its gaps. Paths below
are relative to `td-master/` in the repository unless they start with
`cl-telegram/`.

- [The system](#the-system)
- [Modules](#modules)
- [Runs](#runs)
- [Findings](#findings)
- [Proofs](#proofs)
- [Assumptions and limits](#assumptions-and-limits)
- [Not modelled](#not-modelled)
- [Plan](#plan)

## The system

The repository holds TDLib, a C++ client library for Telegram, and
`cl-telegram`, an unfinished Common Lisp client. TDLib's layers, from the
bottom:

| Part | State | Operations | Hard behaviour |
|---|---|---|---|
| `tdutils` `OrderedEventsProcessor` | a vector with an offset, `begin_`, `end_` | `add`, `clear` | events out of order; cells of the vector are reused and compacted |
| `tdutils` `ChainScheduler` | chains of tasks with counters and generations | create, start, pause, reset, finish | tasks fail and are restarted while those behind them are under way |
| `tdutils` `ChangesProcessor` | numbered changes, the first unfinished one | `add`, `finish`, `clear` | changes finish out of order, some after `clear` |
| `tdactor` | actors, mailboxes, timeout heap, per-thread schedulers | send, run, migrate, stop | messages to migrating or stopped actors |
| `tddb` `BinlogEventsProcessor` | live events, tombstones, counters | `do_event`, `compactify`, `for_each` | long sequences of rewrites and erases |
| `tddb` `Binlog` | an append-only file, a write buffer, a cipher stream | `init`, `add_event`, `flush`, `sync`, `do_reindex`, `change_key`, `close`, `destroy` | process crashes, torn writes, power loss between the steps of a regeneration, changes of key |
| `tddb` `ConcurrentBinlog`, `BinlogActor` | an atomic counter, the reorder buffer, three sets of promises, three flags and one timer | `add`, `rewrite`, `erase`, `erase_batch`, `lazy_sync`, `force_sync`, `force_flush`, `change_key`, `close`, `timeout_expired` | threads interleave between taking a number and sending the event; timers race; closing with events in flight |
| `tddb` `BinlogKeyValue` | a map, every value with the number of its event | `set`, `erase`, `erase_batch`, `erase_by_prefix` | the events of racing writers are handed over after the lock is released |
| `tddb` `TQueue` | events that expire, a tombstone, the time of the next collection | `push`, `forget`, `clear`, `get`, `run_gc` | the numbering must survive a restart although events are deleted |
| `tddb` SQLite wrappers | databases | statements | durability is SQLite's |
| `td/mtproto` | connections, message identifiers, acknowledgements, keys | send, receive, resend, handshake | lost, repeated and late messages |
| `td/telegram/net` `Session` | queries sent, waiting and of unknown fate, containers | `send`, `loop`, handlers of what the connection receives | connections break with queries in every stage; cancellations race with answers |
| `td/telegram` `SequenceDispatcher`, `NetQueryDelayer` | queries in chains, delays | `send`, `on_result`, `on_resend` | a query is sent before the ones it must follow are answered |
| `td/telegram` `PtsManager`, `UpdatesManager` | pts in memory and on disk, pending and postponed updates, timers | handlers of pushed and fetched updates | lost, reordered and repeated updates; a difference fetched while pushes go on |
| `td/telegram` managers, files, calls, secret chats | objects of the server | requests and updates | size rather than concurrency, except for what is above |
| `tde2e` | a block chain of group states | apply block, encrypt | blocks out of order, permissions |

Managers call `ConcurrentBinlog` from any thread. It takes a sequence number
from an atomic counter and sends the event to the `BinlogActor`, whose
`OrderedEventsProcessor` restores the order; the actor hands the events to the
`Binlog`, which keeps the live ones in a `BinlogEventsProcessor` and the bytes
in a file; promises travel back when a sync covers their events. On the next
start `Binlog::init` replays the file into `BinlogKeyValue`, `TQueue` and the
managers.

In the other direction a request becomes a `NetQuery`. One that belongs to a
chain goes through `MultiSequenceDispatcher`, which tells the server after which
queries it may be executed; `Session` sends it over a `SessionConnection` and
finds out what happened to it when the connection breaks. What the server
pushes passes `MessageIdDuplicateChecker` and reaches `UpdatesManager`, which
applies it in the order of pts and fetches what is missing; `PtsManager` decides
which pts may be saved, and it is saved in a `BinlogKeyValue`.

What correctness means, by component:

- **OrderedEventsProcessor**: events run in the order of their numbers, once
  each, with their own data, and `clear` returns exactly those that wait.
- **BinlogEventsProcessor**: behaves as a map from identifiers to values;
  a regenerated log has the same contents.
- **Binlog**: after any crash a load finds what the last acknowledged sync
  covered, or a later state; nothing damaged is taken for an event; the file
  is readable with, and only with, the current key.
- **ConcurrentBinlog**: the log is in number order without gaps; a fulfilled
  promise means a durable event; everyone who waits has a timer and is
  answered; closing loses nothing that was handed to the log.
- **BinlogKeyValue**: a restart from any prefix of the log gives a map that
  existed, in the one order of the writers' numbers.
- **TQueue**: the same, and the numbering continues; expired events go.
- **MultiSequenceDispatcher**: the server executes no query of a chain before
  the earlier ones were executed or are over, whatever fails or is sent again;
  every query is answered.
- **Session**: a query is in one place; it is executed at most once while the
  server keeps its session, and not before its predecessors; it is returned.
- **MessageIdDuplicateChecker**: no message is accepted twice; none is refused
  that is neither known nor old.
- **PtsManager**: what is saved passes no unfinished change, and the last value
  is saved in the end.
- **UpdatesManager**: every update is applied once and in its turn, and what
  waits behind a gap is not forgotten.

`PROJECT.json` lists every component with its status, and the hazards of this
code line by line with the properties that cover them.

## Modules

| Module | Models | Kind |
|---|---|---|
| `OrderedEvents` | what the processor computes, as operators on `begin`, `end`, `slots` | operators |
| `OrderedDelivery` | the abstract promise of the processor | abstract specification |
| `OrderedEventsProcessor` | `OrderedEventsProcessor.h` with its vector, offset and compaction | state machine, refines `OrderedDelivery` |
| `EventMap` | a map from identifiers to values | abstract specification |
| `BinlogEventsProcessor` | `BinlogEventsProcessor.{h,cpp}` as operators on the object's fields | operators, used by four modules |
| `BinlogEvents` | a client of one processor | state machine, refines `EventMap` |
| `Binlog`, `MCBinlog` | `Binlog.{h,cpp}` on a disk | state machine over `BinlogEventsProcessor` |
| `ConcurrentBinlog`, `MCConcurrentBinlog` | `ConcurrentBinlog.{h,cpp}`, `BinlogInterface.h` | state machine over `OrderedEvents` |
| `BinlogKeyValue` | `BinlogKeyValue.h` | state machine over `BinlogEventsProcessor` |
| `TQueue`, `MCTQueue` | `TQueue.{h,cpp}` with `TQueueBinlog` | state machine over `BinlogEventsProcessor` |
| `ChainScheduler` | `ChainScheduler.h` | operators on the object's fields |
| `MultiSequenceDispatcher`, `MCMultiSequenceDispatcher` | `SequenceDispatcher.cpp` with `Session` and `NetQueryDelayer` as far as they decide what comes back | state machine over `ChainScheduler` |
| `SessionConnection` | `SessionConnection.{h,cpp}`, the packing of `CryptoStorer.h` | operators on the object's fields |
| `Session`, `MCSession` | `Session.{h,cpp}` and a server | state machine over `SessionConnection` |
| `DuplicateChecker` | `check_message_id_duplicates` of `AuthData.cpp` | state machine |
| `PtsManager` | `PtsManager.h`, `ChangesProcessor.h`, the saving part of `UpdatesManager.cpp` | state machine |
| `UpdatesManager`, `MCUpdatesManager` | the pts stream of `UpdatesManager.cpp` and a server | state machine |
| `BinlogLemmas` | | lemmas on the operators of `OrderedEvents` and `BinlogEventsProcessor`, shared by the next |
| `BinlogProofs`, `ConcurrentBinlogProofs`, `BinlogClientsProofs`, `BinlogKeyValueProofs`, `MultiSequenceDispatcherProofs`, `PtsManagerProofs`, `UpdatesProofs` | | inductive invariants and theorems of the modules they are named after; `ConcurrentBinlogProofs` also has those of `OrderedEventsProcessor`, `BinlogClientsProofs` has those of `BinlogEvents` and `TQueue`, `UpdatesProofs` has those of `UpdatesManager` and `DuplicateChecker` |

Definitions named `X_Y` next to a definition `X` (such as `WakeupAt_FirstWins`)
are plausible mistakes in `X`. They are used nowhere in the specifications;
each shows that a property notices that mistake.

### OrderedEventsProcessor

The variables are the class's members; indices of `data_array_` start at 1.
`Add` is `add` (its two branches are `RunNow` and `Store`, with
`try_compactify` part of the first) and `Clear` is `clear`. An event's data is
its own number, so a cell read under a wrong number shows. `added`,
`delivered` and `returned` are history variables. `clear` starts again from 1
whatever the constructor's argument was, so the runs start from `Offset = 2`.

### BinlogEventsProcessor and BinlogEvents

`event_ids_` keeps the code's encoding `id * 2 + deleted`. `do_event` is the
whole function, the trailing conditional `compactify` included; the
`lower_bound` search with its exact-match test is `Positions`. `Refused` says
when the code returns an error. All events have size 1, so
`total_raw_events_size_` is the number of live events.

### Binlog

One instance of the class over the life of several processes.

- The disk (external): `files` with their items and how many an fsync has
  covered; `dirs`, the directory states that a power loss may leave. A power
  loss keeps of each file the synced part and any prefix of the rest, possibly
  ending in a damaged event: one that `read_next` reports as incomplete or
  damaged (`"short"`), one whose length is no multiple of four (`"bad"`), on
  which `init` fails, or `'\0'` bytes (`"zero"`). Without a key these are too
  small for an event and are cut like the first; decrypted they are anything,
  and `"zero"` is then the case that their length is no multiple of four, which
  `debug_get_binlog_data` recognises and lets pass (`Ignored`).
- Encryption: AES-CTR is a stream, so an item records key and position, and it
  is readable only with the file's key at its own position. The cipher state
  that `flush` hands over, the one that is out of step after a cut, and the
  new one of `reset_encryption` are all visible in this.
- `init` is one action: choosing path or path.new, `load_binlog`, truncation,
  and the decision to regenerate. A truncation at load counts as durable. The
  cipher goes on behind everything that was read, the cut part included, so a
  cut must be followed by a regeneration; behind an ignored tail there is none.
- `add_event` contains `lazy_flush` and the decision to regenerate.
  `do_reindex` is five actions, `reindex_open` ... `reindex_rename`, because
  power may fail between any two of its effects; nothing else runs in between.
  `close_and_destroy` is `destroy_begin`, `destroy_new`, `destroy_path`.
- `hist` is the history of contents since the last acknowledged sync; `Judge`
  compares every load with it. `wrote` tells a process that has written from
  one that only loaded, see the second item under Findings.
- A client (one of `Clients`) says which keys are used, when the file is
  regenerated, whether path.new may fail to open, which damaged ends its disk
  leaves, and how many operations and crashes there are; one is chosen in the
  initial state.

### ConcurrentBinlog

- Client operations are two steps, as in the code: `BeginAdd`/`BeginEraseBatch`
  take the numbers (one atomic `fetch_add`), `Send` sends. Between them any
  other thread runs. Calls that take no number (`force_sync`, `force_flush`,
  `change_key`, `close`) are one step.
- Each thread has a first-in-first-out channel to the actor; the actor's
  mailbox interleaves them. Messages to a stopped actor are dropped with their
  promises (`Drop`), and so are sends after `close` moved the owner away.
- `AddRawEvent` is `add_raw_event` with `flush_immediate_sync` and `try_flush`
  (`SyncAndFlush`). The loop in `erase_batch` is unrolled into
  `EraseBatchStep`s during which no other handler runs.
- `processor_` is `begin`, `end` and `slots`, as in `OrderedDelivery`.
- The Binlog below is three positions in `log`: all events, `flushed`,
  `stable`. `add_event` may flush or regenerate by itself at any event, so
  these positions may advance nondeterministically (`BinlogPositions`).
- Time is relative: `wakeup_at_` counts down, `need_flush_age` counts up to
  `FLUSH_TIMEOUT`. `Tick` does not pass a timer that is due.
- `covers[p]` is what promise `p` stands for; `done` and `lost` are the
  promises fulfilled and failed.

### BinlogKeyValue

`set`, `erase`, `erase_batch` and `erase_by_prefix` change the map and take
their numbers under `rw_mutex_`, in one step; what they still have to hand to
the binlog is `held[t]`, and every event of it is sent by a step of its own
(`Send`), between which other threads write. The order in which
`erase_by_prefix` meets its keys is that of a hash table, hence any. `Arrive`
puts the events back in the order of their numbers as `BinlogActor` does.
`order` records the map after each number; the log is replayed through the
real `BinlogEventsProcessor`, also when it is cut in the middle of a batch.

### TQueue

One queue. An operation is a function from the fields (the record `q`) to the
new ones, since `push` may clear, `get` may pop and `pop` may leave a
tombstone. Every call of the storage callback is an event of `q.log`. The
limits, and `MAX_ID`, at which the numbering starts anew, are small constants.
`run_gc` may be cut short after any number of events, as by its time limit.
`callback` is chosen at the beginning: with it the queue is kept in a binlog,
without it in memory only.

### ChainScheduler and MultiSequenceDispatcher

`ChainScheduler` has the class's operations as functions of its fields; a
failed CHECK sets `failed`. `MultiSequenceDispatcher` is the actor: `send`,
`on_result` and both outcomes of `on_resend` are actions, each ending with the
loop that starts what can be started, as in the code. The query of a task is
with its node, in the session, sent, asleep in `NetQueryDelayer`, in the
mailbox, with its callback, or done. `connection_send_query` reads the message
identifiers of the predecessors when it sends, as `Session` does. The server is
external: it executes a message when those named in `after` were executed,
answers MSG_WAIT_FAILED when one of them failed, and may answer with an error
or a delay.

A session does not keep what it was given. Before a query is sent it may refuse
it (`SessionRefuses`). After that, and whether or not the server has executed
it, it may give it up (`GiveBack`): when it is closed or replaced or the message
is reported as lost, the query is sent again under another identifier; when the
connection fails with error 500 it goes to `NetQueryDelayer`; or it is canceled.
The message that nobody waits for any longer may still be executed, or be lost
(`Lose`). So a query may be executed more than once, and of `p` before `c` in a
chain the server may execute p, c, p, c. What `ChainOrder` says, and what the
chains are for, is that no query is executed before every earlier one of its
chains was executed at least once or is over for the dispatcher. How `Session`
decides what it sends again is the subject of `Session`. `tear_down` is left out.

### SessionConnection and Session

Handlers of the connection call those of the session and back, so both are
written as operators on the record `s`, of which `s.c` is the connection, and
every event that enters the actor is one action: a query, a cancellation in
the mailbox, the loop, an opened or broken connection, a received message, a
pong. `flush` fills and sends one packet. A packet with more than one message
is a container with an identifier of its own.

The server (external) keeps what it received and its answers, acknowledges
packets, tells an answer or only that there is one, replies to state requests
and resend requests, rejects packets or single messages, and may lose its
session. It executes a query at once if the queries named by invokeAfter are
there. A broken connection delivers nothing afterwards. `world` says which of
these happen in a behaviour, and how many queries fit in a packet; it is chosen
in the initial state.

Left out: binding and checking of keys, salts (the salt is valid), the long
poll connection, HTTP, the high-priority queue, pings after the first except
that a pong may come when nothing else does, `msg_new_detailed_info`, the
limit on the size of dropped packets, the limits on the lengths of the lists
in one packet other than that of queries, and updates. Messages of one
incoming container are received one by one.

### DuplicateChecker

`check` is `check_message_id_duplicates`: the array is cut to its second half
when it is full, then the identifier is appended, refused as very old, refused
as known, or inserted. `times` counts acceptances.

### PtsManager

`PtsManager` over `ChangesProcessor`, and in `UpdatesManager` `set_pts`,
`on_pts_ack`, `save_pts` and `timeout_expired`: a bot's values wait for the
actor's only timer, which `save_qts` uses as well (`OtherTimeout`). An invalid
pts (`InvalidatePts`) erases the saved one, is numbered like a change, and is
followed by the `init` of `on_get_updates_state` (`Reinit`) or by a restart.
`SetOption` switches `ignore_background_updates` at any time, if no database is
used (`CanIgnore`): while it is on nothing is saved, and a restart drops what
was. A value that the option kept from being replaced is remembered in `kept`.
`log`, `start` and `base` are the history since the last `init`. A token of a
change that `init` has forgotten may still arrive. In the code `pos` is computed
with unsigned wrap-around; `HasCell` is what that amounts to. Left out: a pts
that drops by more than 1000009, and `updatePtsChanged` in a client with several
sessions, which saves the pts 1.

### UpdatesManager

Update `x` moves the pts by `Counts[x]`, which may be 0 or more than 1. The
server lets updates happen, pushes them over connections that lose and reorder,
and answers `getState` and `getDifference` with a whole difference, a slice,
an empty or a too long one, or an error. `fill_pts_gap`, `repair_pts_gap` and
`fill_get_difference_gap` are the three timers. Each handler, with everything
that it calls, is one action on the record `um`.

A process begins with what the constructor leaves (`Fresh`). A user's client, and
one that is not logged in yet, can postpone updates from the start: what is
pushed during `getState` and the first `getDifference` waits. An authorised bot
begins by skipping: its counter of 50000 calls of `can_postpone_updates` is the
flag `skipping`, which ends at the first complete difference or at any call,
here or in the streams left out (`EndSkipping`, `SkipOthers`). The first process
logs in and does not skip; one after a restart is a user's or a bot's (`Bots`).

A restart begins from a pts that was saved; what may be saved is `PtsManager`'s
subject. What waited in the process that ended is gone, and `GapsAreFilled`
speaks only of updates that wait in a process that goes on. Left out: qts and
seq, pts that jump by 99 or more, PERSISTENT_TIMESTAMP_INVALID,
`updatePtsChanged`, and the same update pushed twice (`DuplicateChecker`).


## Runs

`PROJECT.json` has the properties of each run. In three of them a component is
checked beside the one it serves: from a common initial state either of the two
moves while the other has not begun (`MCSpec`), so the states are those of both
and not their product.

| Run | Bounds | States | Shows |
|---|---|---|---|
| `binlog` | clients without a key (4 operations, 2 crashes; 3 and a path.new that cannot be opened) and with keys (3 and 1, 2 and 2, one change of key), buffer of 1 event; damaged ends of every kind, '\\0' bytes only without a key | 353,660 | recovery of what was acknowledged, file and memory agree, no load is fatal that need not be |
| `concurrent` | 2 threads, 2 numbers, 2 promises, 1 call; beside it the processor with 12 numbers and the code's compaction threshold 5 | 342,595 | order, durability of promises, timers, closing; every promise is settled, every event written; the vector with its reused cells implements `OrderedDelivery`, no flag is left in a cell |
| `key_value` | 2 threads, 2 keys, 5 events, 1 restart | 64,346 | racing writers: map and log agree, every prefix of the log is a map that existed |
| `tqueue` | 3 events, numbers up to 5, time up to 3, 5 log events, 1 restart; beside it the events of a binlog with 9 operations, threshold 2 instead of 10 | 63,693 | recovery from every prefix, counters, expired events are collected; the counters behind `compactify` and regeneration, refinement of `EventMap` |
| `dispatcher` | 3 queries, chains `<<1>>` and `<<2, 1>>`, with a callback or, in one chain, without, 2 in flight, 1 fault | 459,908 | chains in order, no query forgotten, no CHECK fails, every query ends |
| `session` | 2 queries, five worlds | 390,279 | one place, no double execution, order, unknown queries asked about, what did not fit stays due, every query returned |
| `pts_manager` | 3 changes, pts up to 2 and the invalid one, compaction above 1, 1 `init` or restart, the option switched at will | 142,654 | nothing unfinished is passed; the last value is saved |
| `updates` | 4 updates `<<2, 1, 0, 1>>`, slices of 2, 1 fault, 1 restart, users and bots; beside it the duplicate checker with 9 identifiers, `max_size` 2 | 81,567 | each update once, in its turn; gaps are filled; no message is accepted twice, also after forgetting |
| `first_key` | 2 operations, 1 crash | | violation, see Findings |
| `zero_tail` | 2 operations, 1 crash, a client with a key | | violation, see Findings |
| `duplicates_low` | 3 identifiers, `max_size` 2 | | violation, see Findings |
| `pts_option` | a bot, 2 changes | | violation, see Findings |

Why the bounds are enough for what is asked:

- *concurrent*, the processor: compaction needs `begin_pos > 5` and more than half of the
  vector consumed; with twelve numbers it happens with events waiting behind
  it, after an earlier drain has moved `offset_`, and after a `clear`. The
  theorems remove the bounds here and for the next.
- *tqueue*, the events of a binlog: `compactify` needs more than `CompactMin` events and three
  quarters of them deleted. With a threshold of 2 it happens several times in
  one history, with rewrites before and after.
- *binlog*: a regeneration needs more than two events in the file. Two
  crashes cover a crash during recovery from a crash. `LazyFlushSize = 1`
  makes both a buffered and a written event possible at every moment. With a
  key, the key event is in the file too, so the rule there is "more than two
  and less than half alive", otherwise every event would regenerate.
- *concurrent*: one batch of two or two single events, a forced sync between
  them; timeouts in the order 1 < 2 < 3 of the code's 1 ms, 3 ms and 30 s. Two
  threads are enough for one to hold a number that the other's events and syncs
  wait for. The theorems remove the bounds for all the safety properties.
- *key_value*: two threads hold events of the same key at once, one of them in
  the middle of a batch; five events suffice for a compaction on replay. Here
  too the theorems remove the bounds.
- *tqueue*: three events fill a queue, five numbers run out, and one restart
  finds the log at every length, also between a pop's tombstone and its erase.
- *dispatcher*: three queries let one wait for two others or in two chains; two
  in flight is the least at which a query is sent before its predecessor is
  answered. One fault is enough for the generations of tasks to matter, and for
  an executed query to be given back and sent again under another identifier
  while the next one of its chain is in flight. The theorems remove the bounds
  for all the safety properties.
- *session*: two queries let one follow the other and share a container or
  not. Four worlds are combinations in which the faults meet; in the fifth a
  packet has room for one query; see `MCSession`.
- *pts_manager* and the duplicate checker: the theorems remove the bounds for all their
  safety properties; the liveness of the first needs a value that waits for
  the timer while another finishes, for which three changes are enough. It is
  claimed of behaviours in which the option is off.
- *updates*: an update that counts for two, one that counts for none between
  two others, a loss and a reordering at once, and a slice boundary inside. The
  theorems remove the bounds for the two invariants; the liveness property
  keeps them.

Larger instances were checked as well and showed nothing more: `concurrent`
with 3 numbers (safety, 1,776,727 states); the keyed client of `binlog` with 3
operations and 2 crashes (420,679); `dispatcher` with 2 faults, for queries with
callbacks and one length of delay (4,106,982), and with every kind of query and
1 fault (1,003,647); `session` with a broken
connection, a rejection and a lost session in one world (616,000) and with more
of each (5.5 million); `pts_manager` with 4 changes (safety, 1,824,602);
`updates` with `<<1, 1, 2, 0, 1>>` (safety, 644,473).

`CHECK_DEADLOCK FALSE` is where bounded clients run out of operations, or where
a closed object is a legal end.

### Fairness

Fairness is stated in `FairSpec` of the modules with liveness properties. It
is always weak, and never of a client starting an operation, cancelling or
closing, nor of a fault. Where an action is a disjunction over a large record,
the condition for it to be enabled is written out beside it (`GcDue`,
`CanProceed`, `CanTimeOut`), which keeps TLC from computing it from the
action.

- `ConcurrentBinlog`: `Send` (the two halves of an operation are consecutive
  statements of one function with nothing between them that waits), each
  thread's `Deliver` and `EraseBatchStep` (the scheduler runs an actor with a
  non-empty mailbox), `TimeoutExpired` (it runs timeouts that are due), `Tick`.
- `TQueue`: `Tick`, and a `run_gc` that is not cut short while something is
  due. The owner calls it from a timer; when it was cut short it says so and is
  called again.
- `MultiSequenceDispatcher`: whatever can go on does: a query in the session is
  sent, the server answers what it can execute, a delay ends, a message in the
  mailbox is handled, a callback returns.
- `Session`: a connection is opened and the opening succeeds in the end, the
  loop and the flush run when they are due, packets sent over a connection that
  stays open arrive, the server answers, what it sends is received, mailbox
  events are handled, and a pong comes when nothing else does (the connection
  sends pings and is closed otherwise). Breaking of connections is bounded:
  over a connection that always breaks nothing is ever answered.
- `PtsManager`: each promise is set or destroyed in the end; the timer fires.
- `UpdatesManager`: a request to the server returns (with an error perhaps,
  which is bounded), and the timers `fill_pts_gap` and
  `fill_get_difference_gap` fire. Pushes may be lost for ever.

## Findings

In four runs TLC finds the property violated.

**`first_key`**: `do_reindex`
(Binlog.cpp:670) skips the barrier when the *old* file is empty, also when its
buffered events made the *new* one non-empty, and clears `need_sync_` in both
cases. The comment on that line says "must sync creation of the file if it is
non-empty".

**`zero_tail`**: a power loss leaves `'\0'` bytes at the end of an encrypted
binlog, which happens "very often" according to the comment at Binlog.cpp:769,
and they decrypt to a length that is no multiple of four. `load_binlog` cuts them
at once (:529-530), finds that they may be ignored (:531-532), and goes on. The
later comparison of sizes (:572), which would force a regeneration, finds nothing
to cut, but the stream of the cipher has advanced over the cut bytes (:586-587).
What is written and acknowledged after that is encrypted at the wrong position
and is not readable at the next load. The other ways of cutting the file do
force a regeneration.

**`duplicates_low`**: `check_message_id_duplicates` (AuthData.cpp:34) refuses a
message that is lower than all stored identifiers only when `max_size` of them
are stored. The comment above it (:21-24), the protocol's rule, wants it ignored
whatever their number. The code accepts more than the rule, and never the same
identifier twice (`AcceptedOnce`, which is proved).

**`pts_option`**: `save_pts` does nothing while `ignore_background_updates` is
on (UpdatesManager.cpp:584). If the option is set while a bot's value waits for
the timer, `timeout_expired` cannot save it and `CHECK(pending_pts_ == 0)` (:621)
fails.

Other places where the code does less than a reader would expect. They are
outside what the passing runs claim; how each can be seen is said with it.

1. A query that did not fit in the first packet of a new session and follows
   alone keeps its own identifier, which is smaller than that of the first
   packet's container, with which it is compared (Session.cpp:717). It is taken
   for lost and sent again although its packet is on its way, and the server
   executes it twice, while SessionConnection.cpp:94 speaks of "all messages
   older than first_msg_id". `AtMostOnce` is therefore about queries that fit in
   one packet; without that condition it fails in the fifth world of `MCSession`.
2. `Binlog::sync` (Binlog.cpp:413) does nothing in a process that has written
   nothing, although the file may hold events that an earlier, crashed process
   wrote and did not sync. `SyncIsDurable` in `Binlog` states it and fails;
   `RecoversAcknowledged` counts only syncs of processes that have written.
3. `need_sync_` is cleared before unlink and rename and the directory is never
   synced (Binlog.cpp:674), so on a file system where directory operations
   become durable later, a sync after a regeneration acknowledges what a power
   loss takes back: `RecoversAcknowledged` with `DirOpsDurable = FALSE`.
4. When path.new cannot be opened, `do_reindex` (Binlog.cpp:649) returns without
   an error and `change_key` reports success: `FileMatchesMemory` with a client
   that has keys and `open_fails`.
5. `TQueue::clear` with `keep_count` counts the tombstone as one of the events
   to keep (TQueue.cpp:236), so it may keep one fewer.
6. If the first packet of a connection has a service query and no other, the
   first message identifier that a new session reports is 0 and the older
   queries are not sent again at once (SessionConnection.cpp:316); they are
   asked about later, and `EveryQueryReturned` holds.

## Proofs

The theorems hold for every value of the constants that the modules' ASSUMEs
allow, and so for any number of threads, numbers, changes, messages or
restarts.

| Theorem | Statement |
|---|---|
| `BinlogLemmas.DrainToProperties` | the loop of `add` stops at the first number that is not waiting |
| `ConcurrentBinlogProofs.Invariance` | `Spec => []IInv` |
| `ConcurrentBinlogProofs.TypeCorrect` | `Spec => []TypeOK` |
| `ConcurrentBinlogProofs.Order` | `Spec => []LogInOrder` |
| `ConcurrentBinlogProofs.Durability` | `Spec => []PromiseImpliesStable` |
| `ConcurrentBinlogProofs.NoOverrun` | `Spec => []NeverOverrun` |
| `ConcurrentBinlogProofs.SyncsMoveOn` | `Spec => []ForcedSyncsMoveOn` |
| `ConcurrentBinlogProofs.CloseSyncs` | `Spec => ClosedIsStable` |
| `ConcurrentBinlogProofs.TimersInTime` | `Spec => []WaitersHaveTimers` |
| `ConcurrentBinlogProofs.ProcessorInvariance` | `OrderedSpec => []OrderedIInv` |
| `ConcurrentBinlogProofs.NoStaleFlags` | `OrderedSpec => []FlagsAreWaiting` |
| `ConcurrentBinlogProofs.ProcessorRefinement` | `OrderedSpec => ImplementsOrderedDelivery` |
| `BinlogProofs.BinlogInvariance` | `Regular /\ Spec => []BinlogIInv` |
| `BinlogProofs.RecoversAcknowledgedHolds` | `Regular /\ Spec => []RecoversAcknowledged` |
| `BinlogProofs.FileMatchesMemoryHolds` | `Regular /\ Spec => []FileMatchesMemory` |
| `BinlogProofs.NeverFatalHolds` | `Regular /\ Spec => []NeverFatal` |
| `BinlogClientsProofs.EventsInvariance` | `EventsSpec => []EventsIInv` |
| `BinlogClientsProofs.CountersAgreeHolds` | `EventsSpec => []CountersAgree` |
| `BinlogClientsProofs.RegenerationHolds` | `EventsSpec => []RegenerationPreserves` |
| `BinlogClientsProofs.EventsRefinement` | `EventsSpec => ImplementsEventMap` |
| `BinlogClientsProofs.QueueInvariance` | `Spec => []QueueIInv` |
| `BinlogClientsProofs.RecoversHistoryHolds` | `Spec => []RecoversHistory` |
| `BinlogClientsProofs.QueueFieldsAgree` | `Spec => []FieldsAgree` |
| `BinlogKeyValueProofs.KeyValueInvariance` | `Spec => []IInv` |
| `BinlogKeyValueProofs.Recovery` | `Spec => []RecoversHistory` |
| `BinlogKeyValueProofs.LogIsMap` | `Spec => []MapMatchesLog` |
| `MultiSequenceDispatcherProofs.DispatcherInvariantHolds` | `Spec => []DispatcherInvariant` |
| `MultiSequenceDispatcherProofs.ChainOrderHolds` | `Spec => ChainOrder` |
| `MultiSequenceDispatcherProofs.NothingForgottenHolds` | `Spec => []NothingForgotten` |
| `MultiSequenceDispatcherProofs.ChecksHoldAlways` | `Spec => []ChecksHold` |
| `PtsManagerProofs.PtsInvariance` | `Spec => []IInv` |
| `PtsManagerProofs.PtsTypeCorrect` | `Spec => []TypeOK` |
| `PtsManagerProofs.SavedSafely` | `Spec => []NeverPassesUnfinished` |
| `PtsManagerProofs.FindsLast` | `Spec => []CatchesUp` |
| `UpdatesProofs.UpdatesInvariance` | `Spec => []IInv` |
| `UpdatesProofs.StateMatchesPtsHolds` | `Spec => []StateMatchesPts` |
| `UpdatesProofs.PendingAgreesHolds` | `Spec => []PendingAgrees` |
| `UpdatesProofs.CheckerInvariance` | `CheckerSpec => []CheckerIInv` |
| `UpdatesProofs.ArrayInOrder` | `CheckerSpec => []ArraySorted` |
| `UpdatesProofs.NoDuplicates` | `CheckerSpec => []AcceptedOnce` |
| `UpdatesProofs.RefusedAreOld` | `CheckerSpec => []RefusesOnlyOld` |

**ConcurrentBinlog.** None of the invariants is inductive alone. That `begin`
never runs over a number needs that nobody else has the number, wherever it is:
held by a thread between its two steps, in a channel, in the batch being looped
over, or in a slot. So `IInv` names these places (`At`, `Places`) and says

- `PlacesFresh`, `BatchFresh`: numbers in a place are taken, not run and not in
  a slot; a message has as many numbers as its operation uses;
- `PlacesApart`: two places share no number;
- `SlotsOrdered`, `Positions`, `LogInOrder`: the processor and the log agree;
- `PromisesCovered`: a promise, wherever it is, covers no more than what its
  place has reached: the event's own number, the number a forced sync waits
  for, `begin - 1` once it waits for a sync, the stable part once fulfilled;
- `SyncsFollow`: what a `force_sync` covers has been seen by the actor, or will
  be before the message arrives. This is where the order within a channel is
  needed: without it `force_sync` could overtake its own thread's event and the
  invariant, and the property, would fail.

There is one lemma per action. `AddRawEventEffect` says once what
`add_raw_event` does to numbers and promises, on top of `DrainToProperties`,
which needs the well-ordering of the naturals. `PlacesAfterTaking` and
`SyncsAfterTaking` say once what taking a message out of a channel does;
`QuietTake` and `QuietBinlogPreserves` serve all messages without numbers.

The timers have an invariant of their own, `TimersSet`: `WaitersHaveTimers`
also between the rounds of `erase_batch`, which handle events but are no point
at which the timer could fire. `SyncAndFlushSetsTimers` is the argument: of the
three waits that share `wakeup_at_` each only ever moves it earlier, and
`timeout_expired` leaves it unset only when it has served all three.

**OrderedEventsProcessor.** `FlagsAreWaiting` with the shape of the vector
(`Vector`: while something waits, the cells reach as far as `end_`) and of the
history is inductive. `LoopEndProperties` says where the loop of `add` stops,
and lemmas on `resize`, on a stored cell and on `try_compactify` say that the
cells between `begin_` and `end_` keep their flags and data under a changed
`offset_`. For the refinement the waiting events of the abstract buffer are the
flagged cells: an early `add` adds one, the `add` of the next number releases
the run of consecutive ones that `DrainToProperties` describes and delivers
them in order, `clear` releases all.

**Binlog.** `RecoversAcknowledged` is a verdict, given by `Judge` when a load
has happened. The invariant `BinlogIInv` has to say at every moment, also in the
middle of a regeneration, that the verdict would be good if the process or the
power stopped now. Its parts are

- (`Sound`, `Kind`, `Good`) a file is readable up to its end or to one torn item
  behind the rest, a file of a client with keys begins with its key event, and
  no event in it is refused when it is replayed;
- (`Tracked`) every prefix that is not shorter than the synced part shows
  contents that are in `hist`, and longer prefixes show later ones. `hist`
  begins at the last acknowledged sync, so this is what a power loss needs; of
  a crashed process the file keeps some prefix of what was to be written;
- (`Leads`) the open file followed by the buffer replays to the contents of the
  processor, so that `flush` changes nothing of what is known;
- (`Settled`) once a process has written and has nothing left to sync, the synced
  part shows the present contents: this is what an acknowledgement promises;
- one predicate for each step: while path.new is written the file at path can
  be loaded (`Writing`, `Complete`), when path is unlinked path.new is complete
  and synced (`Replacing`), so whichever of the two names a load finds leads to the
  present contents, and a Binlog is destroyed only when `hist` ends with nothing
  (`Destroying`).

`AddToLog`, `FlushFile`, `SyncFile`, `NewFile` and `LoadFile` say what the
operations do to one file, `CrashedFile` and `PowerLossFile` what failures
leave of it, and `RegeneratedGood` that what `do_reindex` writes is accepted
when it is read and shows the same at its end. There is one lemma per action;
`LoadableNow` serves both failures. The steps that matter are `LoadHolds`, which
ends with `JudgeFacts`, and the four of `do_reindex` from `reindex_write` on.

`Regular` is what the theorems assume, and excludes the cases in which TLC shows
that the code does not do what is proved. Directory operations are durable (item
3 of the list above), and a client with keys can open path.new (item 4). The
rest keeps an empty file from being regenerated, which is the finding of the run
*first_key*: a file has a key from the beginning or never, `change_key` is not
called for one that has none (with `NoKey` in `ChangeKeys` TLC finds the same
violation), the disk leaves no ignored `'\0'` bytes in a file with a key, which
is the finding of the run *zero_tail*, and `do_add_event` regenerates only at sizes at which it has
flushed, which are 50000 bytes or more and 1 << 14 in the code. The
instance of the run *binlog* satisfies `Regular`, and TLC has checked
`BinlogIInv` on one that is smaller by an operation and a crash.

**BinlogEvents.** `event_ids_` stays strictly sorted although erasing
increases an entry by one, because entries are twice an identifier and so leave
a gap above a live one; a counterexample to `CountersAgree` as its own
invariant is two entries without this gap. `Agree` is this with the types and
the counters. `BinlogLemmas` has it for each kind of event,
followed or not by `compactify`, whose loop (`AlivePositions`) is shown to
enumerate the live positions in order; the same lemma gives what `for_each`
shows. That regeneration is right is an induction along the live events:
replaying a sequence with increasing identifiers refuses none and holds exactly
these (`ReplayIncreasing`).

**TQueue.** `RecoversHistory` speaks of every prefix of the binlog, also of one
that ends inside an operation, and of what replaying it does; nothing in it says
that the log and the memory agree, which the next operation relies on. The
invariant `QueueIInv` adds this:

- (`Recorded`) the log replays, tombstones and compaction included, to exactly
  one entry for each event of a map of events that keeps the limits on their
  number and total length, in which only the last can be a tombstone, and in
  which the log identifiers increase with the event identifiers. The last point
  is why `replay` meets the events in an order that `do_push` accepts;
- (`EveryPrefix`) after every event of the log there is such a map, and after
  the whole log it is the one in memory (`LogHeld`);
- (`History`) where an operation ended, the map of the prefix shows what was
  visible then;
- (`Held`, `Settled`) the total length is the sum, the numbering continues
  behind the last event, and a queue with data is scheduled for collection.

`RecordedAdd`, `RecordedRewrite` and `RecordedErase` follow the three kinds of
log event through `BinlogLemmas`; `PopResult`, `EraseResult` and `PushResult`
use them for the operations on one event, and `PopAllResult` and
`EraseAllResult` for the loops of `push`, `forget`, `get`, `clear` and `run_gc`.
`LoadResult` is the other half: loading a recorded log accepts each event and
gives back the map, by induction along the live events (`LoadOneMore`). A
restart then needs nothing new (`RestartStep`).

**BinlogKeyValue.** What the log says and what the map says agree only when
nobody is between taking a number and handing over an event. The invariant
therefore speaks of the log as it will be: there is a sequence `S` such that

- (`Flow`) the log is a prefix of `S`, and the events held by threads or
  waiting in the actor are the rest of `S`, every number in exactly one place;
- (`Tracked`) replaying any prefix of `S` refuses nothing and gives a map whose
  view is the one recorded in `order` at its end, and all of `S` gives `map_`.

An operation extends `S` by its events (`TakeHeldFlows`, `TakeArrivedFlows`,
`TrackedSet`, `TrackedEraseAll`), handing over moves events along it
(`SendFlows`, `ArriveFollows`), and a restart cuts it to what is left of the
log (`TrackedPrefix`), where `Load` gives back the map with its identifiers
(`LoadGivesMap`). That a rewrite or an erase always finds its event alive is
part of `Tracked`: the identifier in the map is that of a live event of the
replayed log.

**MultiSequenceDispatcher.** The promise to the caller, `ChainOrder`, is about
what the server executes; the code keeps it with counters and generations in
`ChainScheduler` and with `invoke_after` in what it sends. The invariant ties
the four levels together:

- `SchedulerGood`: of every chain (`ChainGood`) the counters are the number of
  its active tasks, the generations do not increase along it and those of tasks
  that are not active are older; the list (`ListGood`) is in the order in which
  tasks were created and has exactly the tasks alive;
- `Reasons`, `Held`: a task that waits has a chain that makes it wait, or is
  remembered in `limited_tasks_` of one. This is what makes `NothingForgotten`
  inductive: a task without a reason would never be tried again;
- `Placed`: a query is with its node exactly while its task waits or is about to
  be started, and is done exactly when its task is gone;
- `Follows`, `Ordered`: every earlier query of a chain is over, or is not later
  than one of those in `invoke_after`;
- `MessagesGood`: a query that is sent names one message of its own, and only
  then (`SentAgrees`), the task of every executed message is in `executed`
  (`ExecutedAgrees`), and what is earlier in a chain than a message is over, or
  waited for by the server, or, once the message was executed, over or executed
  itself (`ServerOrder`). The last is not undone by a session that sends the
  earlier query again: it was executed already.

Handlers are loops over a task's chains and over the tasks that may have become
ready. `StepInduction` and `Run` carry a relation between two states over such
a loop; `TryKeeps` does it for `try_start_tasks`, with the measure that shows
that `MaxTries` rounds are always enough. `Half(s, X)` is the invariant in the
middle of a handler, when the queries in `X` are between two places.
`Moves` and `Goes` say what the scheduler's operations do to the queries, so
that the lemmas on messages do not see the chains. The step that matters is the
execution at the server (`ExecutedAfter`): a message is executed after one that
was, and `ServerOrder` of that one settles everything earlier.

**PtsManager.** `NeverPassesUnfinished` speaks of the history, the code of a
window on it that is moved by compaction and emptied by `init`. `IInv` ties
them together: `data_array_` is the end of `log` (`ArrayIsEndOfHistory`),
everything before `ready_i_` is finished and the cell at it is not
(`ReadyIsFrontier`), tokens under way were given out (`TokensGiven`), and
`db_pts_` and `mem_pts_` are the last checkpoints among the changes passed and
among all (`LastCheckpoint`). The invalid pts is a checkpoint like any other; its erasure of
the saved value, and the values that the option keeps from being replaced
(`kept`), are in `NeverPassesUnfinished` itself. `ReadyEndProperties` and `CheckpointProperties`
describe the loop of `finish`; `MarkBoth` and `FinishKeepsIInv` the step that
matters.

**UpdatesManager.** The client does not know what it has missed. It decides from
two numbers, `accumulated_pts_` and `accumulated_pts_count_`, that nothing is
missing, and then applies everything that waits. `Spec` here is the one without
fairness. `IInv` says

- `InTurn`: what is applied ends at the pts, which is one that the server has
  had, and so is every value that may have been saved (a restart begins there);
- `Counting`: the count is the sum over what is pending, the accumulated pts that
  of the last of these. A count left over from before a getDifference would make
  a gap look filled;
- in `Sane`, also for a client that postpones from its first moment, that no
  pending update begins before the pts, and that nothing is
  pending while a difference is awaited or the pts is unknown;
- `Watched`: what waits has a timer or a query;
- `RequestFits`: the query in flight is for the pts that the client still has,
  and an answer holds exactly what the server has had since. So no handler may
  move the pts while a query is in flight, and this is where it is shown;
- that no update is both waiting and on its way, so that no update is counted
  twice.

`TotalCovers` is the argument behind the code's test: if distinct updates beyond
position `k` of the stream, the last of them `m`, have counts that add up to
`Pts[m] - Pts[k]`, every update between that is not among them has the count 0.
`Covering` then says that applying them in order meets every one in its turn,
and `ApplySum` puts the two together for the two places that use the test on
several updates, `process_all_pending_pts_updates` and the prefixes of
`process_postponed_pts_updates`. `SumFits` says that the sum is never too large,
so that the branch of `add_pending_pts_update` for that case, with its warning,
is never reached by a server that numbers as it should. The test is right
although the stream has updates of count 0 and several positions have one pts; this is why
positions and not pts are compared in `FirstPosition`. `AddKeeps` is the step
that matters, with `CountedKeeps` for its five ways; `AddAllKeeps` and
`ProcessPostponedKeeps` carry it over the loops; `HandledKeeps` and
`ConsumedKeeps` end every handler.

**DuplicateChecker.** That no identifier is accepted twice needs to know where
the forgotten ones are: an accepted identifier is in the array, or below all of
it while the array holds at least `MaxSize`. `CompactedProperties` shows that
cutting the array keeps this, and the other lemmas that the search finds the
place at which an insertion keeps the array sorted.

The inductive invariants were checked by TLC on the bounded instances before
they were relied on; that of `BinlogKeyValue` with the one `S` that it can be,
the log followed by the events under way in the order of their numbers, and
without its types, that of `MultiSequenceDispatcher` with generations up to 6.
Of that of `TQueue`, which says that maps exist, TLC checks only what follows from
it in `RecoversHistory` and `FieldsAgree`.

Facts about a loop, or about a recursively defined function, for every input
are proved from a least counterexample: the numbers at which the fact fails are
a set, a non-empty set of naturals has a least element (`LeastNumber`), and the
step from the number before refutes it. That a recursive function exists at all
is proved in the same way (`KeptExists`, and `StepsExist` for all the loops of
`UpdatesManager` and of `TQueue`).

**Only model-checked**:

- liveness (`EveryPromiseSettled`, `EveryEventFlushed`, `ExpiredCollected` and
  the others), which is out of the prover's reach, as is ENABLED;
- everything about `Session`, whose loops need RECURSIVE operators, which the
  prover cannot work with;
- `Binlog` outside of `Regular`; there TLC has the counterexamples listed under
  Findings.

## Assumptions and limits

- `FileFd::sync` makes the file's contents and the directory entries reached so
  far durable. `sync_barrier` is taken for the same; on Darwin it is
  `F_BARRIERFSYNC`, which only orders.
- The actor library delivers messages of one sender in order, runs one handler
  of an actor at a time and destroys closures sent to a stopped actor.
- No CRC collision: a damaged event is recognised as such.
- A thread that takes a number and never sends it stalls every later event for
  ever, and lets the processor's vector grow with them
  (OrderedEventsProcessor.h:72); the code has no answer to this and the model
  excludes it by fairness.
- `BinlogKeyValue::set` of a value that is already there returns 0 at once,
  while the event of the thread that wrote it may not have been handed over
  (BinlogKeyValue.h:141). A caller who syncs after such a `set` may sync too
  early; `RecoversHistory` is about the order of the log, not about this.
- Between the tombstone's pop and push the log of a `TQueue` has neither
  (TQueue.cpp:119); the order of the calls, which the model keeps, decides
  whether a restart there finds the numbering.
- Disk errors on write are fatal in the code and are not modelled, nor are two
  processes opening one file (an exclusive lock prevents that).
- The identifiers' 64-bit width is not modelled: the counter starts from the
  largest identifier in the file and cannot come near 2^62 in a file's life.
- `Session`: the identifier a new session reports is that of the first message
  of the first packet it received; a broken connection delivers nothing later;
  TCP, key and salt are there.
- `UpdatesManager`: handlers that process a container of updates are split where
  the server's packets are; pushes that arrive while a too long difference is
  skipped are dropped as in the code.

## Not modelled

- `cl-telegram`: it does not load (ill-formed forms and calls of functions that
  do not exist), so there is no behaviour to describe.
- The bundled SQLite and the wrappers over it: durability and isolation are
  SQLite's.
- `tdtl`, `tl-parser`, the code generators and the generated API: build-time
  code without state.
- `tdnet`, sockets, TLS, proxies and HTTP: input and output, parsing of formats.
- The MTProto handshake and the ciphers: arithmetic that TLC cannot do and that
  says nothing if it is abstracted away.
- `MessagesManager`, `MessageContent`, `StickersManager`, `UserManager`,
  `ChatManager`, `Requests`, `cli` and their likes, which are most of the
  repository's lines: they translate between the API and the server's objects
  and keep caches of these. Their concurrency is in the parts that are modelled:
  one actor, queries that come back in any order, events that are saved. What
  would remain is a transliteration of thousands of conversions.
- `BinlogEventsBuffer`, the only producer of Partial events: `Binlog::init`
  switches it off (line 193).
- The limits of the modelled components are with their modules above.

The share of the repository's lines under a model is therefore small, and will
stay so.

## Plan

Done: the binlog (`OrderedEventsProcessor`, `BinlogEventsProcessor`, `Binlog`,
`ConcurrentBinlog`), what is built on it (`BinlogKeyValue`, `TQueue`), queries
(`ChainScheduler`, `MultiSequenceDispatcher`, `SessionConnection`, `Session`),
updates (`DuplicateChecker`, `PtsManager`, `UpdatesManager`); proofs of
`OrderedEventsProcessor`, `Binlog`, `ConcurrentBinlog`, `BinlogEvents`,
`BinlogKeyValue`, `TQueue`, `MultiSequenceDispatcher`, `PtsManager`, `DuplicateChecker` and
`UpdatesManager`.

Next, in order of importance:

1. `Session` without RECURSIVE operators, so that it can be proved about;
2. the actor library: mailbox, migration, stopping, `MpscPollableQueue`;
3. the saved-change pipeline of `SecretChatActor`;
4. qts and seq of `UpdatesManager`;
5. `PartsManager`, `CallActor`, the block chain of `tde2e`.
