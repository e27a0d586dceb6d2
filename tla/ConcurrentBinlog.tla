-------------------------- MODULE ConcurrentBinlog --------------------------
(***************************************************************************)
(* td::ConcurrentBinlog and its detail::BinlogActor                        *)
(* (tddb/td/db/binlog/ConcurrentBinlog.{h,cpp}, BinlogInterface.h).        *)
(*                                                                         *)
(* Client threads take sequence numbers from an atomic counter and then,   *)
(* in a second step, send the event to the actor: between the two steps    *)
(* any other thread may run, so events reach the actor out of order.  The  *)
(* actor puts them back in order, hands them to the Binlog, and fulfils    *)
(* the callers' promises when a sync has covered them.                     *)
(*                                                                         *)
(* The Binlog below is abstracted to three positions in `log', the events  *)
(* handed to it: how many of them were written to the file (flushed), how  *)
(* many a completed sync() or do_reindex() has covered (stable), and all.  *)
(* What a completed sync means on the disk is the subject of module Binlog.*)
(*                                                                         *)
(* A promise is a number, 0 being the empty Promise<>().  covers[p] is the *)
(* largest sequence number that must be stable when p is fulfilled: for    *)
(* the promise of an event its own number, for force_sync the last number  *)
(* that the calling thread had sent.                                       *)
(***************************************************************************)
EXTENDS Integers, Sequences, OrderedEvents

CONSTANTS Threads,         \* the client threads
          FirstId,         \* binlog->peek_next_event_id() at init_impl
          FLUSH_TIMEOUT,   \* 1 ms in the code
          SYNC_TIMEOUT,    \* do_immediate_sync's 3 ms
          LAZY_TIMEOUT,    \* do_lazy_sync's 30 s
          MaxId,           \* bound: numbers handed out are below FirstId + MaxId
          MaxPromises,     \* bound: promises made
          MaxCalls         \* bound: calls that use no sequence number

ASSUME ConcurrentBinlogAssumption ==
  /\ FirstId \in Nat \ {0}
  /\ FLUSH_TIMEOUT \in Nat \ {0} /\ SYNC_TIMEOUT \in Nat \ {0} /\ LAZY_TIMEOUT \in Nat \ {0}
  /\ MaxId \in Nat /\ MaxPromises \in Nat /\ MaxCalls \in Nat

VARIABLES
  last_event_id_,   \* the atomic counter
  owned,            \* binlog_actor_ still owns the actor (FALSE after close)
  held,             \* thread -> the event it took a number for and has not sent
  channel,          \* thread -> its messages to the actor, in the order sent
  calls,            \* number of calls that used no sequence number
  begin, end, slots,                        \* processor_: as OrderedDelivery has it
  batch,            \* the part of erase_batch that is still to be looped over
  log, flushed, stable,                     \* binlog_
  need_flush_age,   \* time since need_flush_since_, -1 if that is 0
  immediate_sync_promises_, sync_promises_,
  force_sync_flag_, lazy_sync_flag_, flush_flag_,
  wakeup_at_,       \* time left until the actor's timeout, -1 if none is set
  running,          \* the actor has not been stopped
  sent,             \* history: thread -> the last number it has sent
  covers, done, lost                        \* history of the promises

clientVars    == <<last_event_id_, owned, held, calls>>
processorVars == <<begin, end, slots>>
binlogVars    == <<log, flushed, stable, need_flush_age>>
timerVars     == <<immediate_sync_promises_, sync_promises_, force_sync_flag_,
                   lazy_sync_flag_, flush_flag_, wakeup_at_>>
promiseVars   == <<sent, covers, done, lost>>
vars == <<clientVars, channel, processorVars, batch, binlogVars, timerVars, running,
          promiseVars>>

-----------------------------------------------------------------------------
(* Messages.  n is how many sequence numbers the message carries, the first *)
(* being seq_no; raw is whether an event has data (lazy_sync's has none).   *)
Message(op, seq_no, n, raw, promise) ==
  [op |-> op, seq_no |-> seq_no, n |-> n, raw |-> raw, promise |-> promise]

Nothing == Message("none", 0, 0, FALSE, 0)

Numbers(m) == m.seq_no..(m.seq_no + m.n - 1)

Init ==
  /\ last_event_id_ = FirstId /\ owned = TRUE /\ calls = 0
  /\ held = [t \in Threads |-> Nothing]
  /\ channel = [t \in Threads |-> <<>>]
  /\ begin = FirstId /\ end = FirstId /\ slots = <<>> /\ batch = Nothing
  /\ log = <<>> /\ flushed = 0 /\ stable = 0 /\ need_flush_age = -1
  /\ immediate_sync_promises_ = {} /\ sync_promises_ = {}
  /\ force_sync_flag_ = FALSE /\ lazy_sync_flag_ = FALSE /\ flush_flag_ = FALSE
  /\ wakeup_at_ = -1 /\ running = TRUE
  /\ sent = [t \in Threads |-> FirstId - 1] /\ covers = <<>> /\ done = {} /\ lost = {}

-----------------------------------------------------------------------------
(* The clients. *)

Given(promise) == {promise} \ {0}

(* The promise a call is made with, and what it has to cover.               *)
MakePromise(wanted, upto) ==
  covers' = IF wanted THEN Append(covers, upto) ELSE covers

NewPromise(wanted) == IF wanted THEN Len(covers) + 1 ELSE 0

(* next_event_id(n): the counter after one atomic fetch_add.                *)
NextEventId_ByOne(n) == last_event_id_ + 1

NextEventId(n) == last_event_id_ + n

(* The first half of an operation that uses n sequence numbers.             *)
TakeNumbers(t, op, n, raw, wanted) ==
  /\ owned /\ held[t] = Nothing
  /\ NextEventId(n) <= FirstId + MaxId
  /\ wanted => Len(covers) < MaxPromises
  /\ last_event_id_' = NextEventId(n)
  /\ held' = [held EXCEPT ![t] = Message(op, last_event_id_, n, raw, NewPromise(wanted))]
  /\ MakePromise(wanted, last_event_id_)
  /\ UNCHANGED <<owned, calls, channel, processorVars, batch, binlogVars, timerVars,
                 running, sent, done, lost>>

(* add, rewrite, erase and lazy_sync up to their call of add_raw_event_impl.*)
BeginAdd(t) ==
  \E raw, wanted \in BOOLEAN : TakeNumbers(t, "add_raw_event", 1, raw, wanted)

(* erase_batch of two events; a batch of none takes no number and returns.  *)
BeginEraseBatch(t) == TakeNumbers(t, "erase_batch", 2, TRUE, FALSE)

(* send_closure: the message is queued, or dropped with its promise if the  *)
(* owner has been moved away by close().                                    *)
Transmit(t, m) ==
  IF owned THEN /\ channel' = [channel EXCEPT ![t] = Append(@, m)]
                /\ UNCHANGED lost
           ELSE /\ lost' = lost \cup Given(m.promise)
                /\ UNCHANGED channel

(* The second half of an operation that took a number.                      *)
Send(t) ==
  /\ held[t] # Nothing
  /\ Transmit(t, held[t])
  /\ held' = [held EXCEPT ![t] = Nothing]
  /\ sent' = [sent EXCEPT ![t] = held[t].seq_no + held[t].n - 1]
  /\ UNCHANGED <<last_event_id_, owned, calls, processorVars, batch, binlogVars,
                 timerVars, running, covers, done>>

(* force_sync, force_flush, change_key: calls that take no number.          *)
Call(t, op, wanted) ==
  /\ owned /\ held[t] = Nothing /\ calls < MaxCalls
  /\ wanted => Len(covers) < MaxPromises
  /\ calls' = calls + 1
  /\ MakePromise(wanted, sent[t])
  /\ Transmit(t, Message(op, 0, 0, FALSE, NewPromise(wanted)))
  /\ UNCHANGED <<last_event_id_, owned, held, processorVars, batch, binlogVars,
                 timerVars, running, sent, done>>

ForceSync(t)  == \E wanted \in BOOLEAN : Call(t, "force_sync", wanted)
ForceFlush(t) == Call(t, "force_flush", FALSE)
ChangeKey(t)  == Call(t, "change_key", FALSE)

(* close and close_and_destroy: the message goes out with the ownership.    *)
Close(t, op) ==
  /\ owned /\ held[t] = Nothing
  /\ Transmit(t, Message(op, 0, 0, FALSE, 0))
  /\ owned' = FALSE
  /\ UNCHANGED <<last_event_id_, held, calls, processorVars, batch, binlogVars,
                 timerVars, running, sent, covers, done>>

-----------------------------------------------------------------------------
(* Timers of the actor.  Times are relative: wakeup_at_ counts down.        *)

WakeupAt_FirstWins(timer, after) == IF timer = -1 THEN after ELSE timer

(* wakeup_at(): an earlier wakeup stays.                                    *)
WakeupAt(timer, after) == IF timer = -1 \/ timer > after THEN after ELSE timer

WakeupIf(cond, timer, after) == IF cond THEN WakeupAt(timer, after) ELSE timer

(* Binlog::flush and Binlog::sync.                                          *)
Flush == flushed' = Len(log) /\ need_flush_age' = -1

Sync == Flush /\ stable' = Len(log)

(* The force_sync calls that flush_immediate_sync finds satisfied.          *)
ReadyToSync_Strict(next) == {r \in immediate_sync_promises_ : r[1] < next - 1}

ReadyToSync(next) == {r \in immediate_sync_promises_ : r[1] <= next - 1}

(* try_flush: the buffer is empty or its first event is old enough.         *)
Overdue(age) == age = -1 \/ age >= FLUSH_TIMEOUT

(* The part of add_raw_event that follows the loop over the events, with    *)
(* the promises that do_lazy_sync was given in it: flush_immediate_sync and *)
(* try_flush.  f and age are flushed and need_flush_since_ after the loop.  *)
SyncAndFlush(promises, f, age) ==
  LET ready     == ReadyToSync(begin')
      startLazy == promises # {} /\ ~lazy_sync_flag_ /\ ~force_sync_flag_
      startSync == ready # {} /\ ~force_sync_flag_
      force     == force_sync_flag_ \/ startSync
      overdue   == Overdue(age)
      defer     == ~overdue /\ ~force
  IN  /\ sync_promises_' = sync_promises_ \cup promises
                             \cup (({r[2] : r \in ready}) \ {0})
      /\ immediate_sync_promises_' = immediate_sync_promises_ \ ready
      /\ lazy_sync_flag_' = (lazy_sync_flag_ \/ startLazy)
      /\ force_sync_flag_' = force
      /\ flush_flag_' = (flush_flag_ \/ defer)
      /\ wakeup_at_' = WakeupIf(defer,
                          WakeupIf(startSync,
                            WakeupIf(startLazy, wakeup_at_, LAZY_TIMEOUT),
                            SYNC_TIMEOUT),
                          FLUSH_TIMEOUT - age)
      /\ flushed' = IF overdue THEN Len(log') ELSE f
      /\ need_flush_age' = IF overdue THEN -1 ELSE age

(* Binlog::add_event for the events that were appended to log: each of them *)
(* may push the buffer over its limit (lazy_flush writes everything so far) *)
(* or the file over its limit (do_reindex makes everything so far stable).  *)
BinlogPositions(old, new) == {old} \cup (Len(log) + 1)..new

(* need_flush_since_ runs from the first event in the buffer.               *)
FlushAge(newLog, f) ==
  IF \A i \in (f + 1)..Len(newLog) : ~newLog[i].raw THEN -1
  ELSE IF need_flush_age = -1 \/ f > flushed THEN 0 ELSE need_flush_age

AddRawEvent_Unordered(seq_no, event) ==
  /\ begin' = begin + 1 /\ end' = Covered(end, begin + 1)
  /\ log' = Append(log, event)
  /\ UNCHANGED <<slots, stable>>
  /\ SyncAndFlush(Given(event.promise), flushed, need_flush_age)

(* BinlogActor::add_raw_event: processor_.add runs the event and those that *)
(* waited for it, or stores it; then flush_immediate_sync and try_flush.    *)
AddRawEvent(seq_no, event) ==
  \/ /\ seq_no = begin
     /\ LET upto == DrainTo(begin + 1, end, slots)
            events == Drained(begin, upto, slots, event)
            newLog == log \o events
            promises == {events[i].promise : i \in DOMAIN events} \ {0}
        IN  /\ begin' = upto
            /\ end' = Covered(end, upto)
            /\ slots' = KeepFrom(upto, slots)
            /\ log' = newLog
            /\ \E f \in BinlogPositions(flushed, Len(newLog)),
                  s \in BinlogPositions(stable, Len(newLog)) :
                 /\ s <= f
                 /\ stable' = s
                 /\ SyncAndFlush(promises, f, FlushAge(newLog, f))
  \/ /\ seq_no # begin
     /\ slots' = Stored(seq_no, event, slots)
     /\ end' = Covered(end, seq_no + 1)
     /\ UNCHANGED <<begin, log, stable>>
     /\ SyncAndFlush({}, flushed, need_flush_age)

-----------------------------------------------------------------------------
(* The messages of the actor.  No other handler runs inside erase_batch.    *)

Receive(t, op) ==
  /\ running /\ batch = Nothing
  /\ channel[t] # <<>> /\ Head(channel[t]).op = op
  /\ channel' = [channel EXCEPT ![t] = Tail(@)]

OnAddRawEvent(t) ==
  /\ Receive(t, "add_raw_event")
  /\ AddRawEvent(Head(channel[t]).seq_no, Head(channel[t]))
  /\ UNCHANGED <<clientVars, batch, running, promiseVars>>

RestOfBatch ==
  IF batch.n = 1 THEN Nothing ELSE [batch EXCEPT !.seq_no = @ + 1, !.n = @ - 1]

(* erase_batch is a loop of add_raw_event: OnEraseBatch enters the loop and *)
(* EraseBatchStep is one round of it.                                       *)
OnEraseBatch(t) ==
  /\ Receive(t, "erase_batch")
  /\ batch' = Head(channel[t])
  /\ UNCHANGED <<clientVars, processorVars, binlogVars, timerVars, running, promiseVars>>

EraseBatchStep ==
  /\ running /\ batch # Nothing
  /\ AddRawEvent(batch.seq_no, Message("add_raw_event", batch.seq_no, 1, TRUE, 0))
  /\ batch' = RestOfBatch
  /\ UNCHANGED <<clientVars, channel, running, promiseVars>>

(* No number that was seen is still to be run.                              *)
CaughtUp_Always == TRUE

CaughtUp == begin = end

(* force_sync waits for the largest number seen, or syncs if none waits.    *)
OnForceSync(t) ==
  LET promise == Head(channel[t]).promise
  IN  /\ Receive(t, "force_sync")
      /\ IF CaughtUp
           THEN /\ sync_promises_' = sync_promises_ \cup Given(promise)
                /\ force_sync_flag_' = TRUE
                /\ wakeup_at_' = WakeupIf(~force_sync_flag_, wakeup_at_, SYNC_TIMEOUT)
                /\ UNCHANGED immediate_sync_promises_
           ELSE /\ immediate_sync_promises_' =
                     immediate_sync_promises_ \cup {<<end - 1, promise>>}
                /\ UNCHANGED <<sync_promises_, force_sync_flag_, wakeup_at_>>
      /\ UNCHANGED <<clientVars, processorVars, batch, binlogVars, lazy_sync_flag_,
                     flush_flag_, running, promiseVars>>

OnForceFlush(t) ==
  /\ Receive(t, "force_flush")
  /\ Flush /\ flush_flag_' = FALSE
  /\ UNCHANGED <<clientVars, processorVars, batch, log, stable, immediate_sync_promises_,
                 sync_promises_, force_sync_flag_, lazy_sync_flag_, wakeup_at_, running,
                 promiseVars>>

(* change_key is a do_reindex, which leaves the Binlog alone if the file it *)
(* writes to cannot be opened.                                              *)
OnChangeKey(t) ==
  /\ Receive(t, "change_key")
  /\ Sync \/ UNCHANGED <<flushed, stable, need_flush_age>>
  /\ UNCHANGED <<clientVars, processorVars, batch, log, timerVars, running, promiseVars>>

(* Promises that die with the actor: their owners get an error instead.     *)
Abandoned ==
  {slots[n].promise : n \in DOMAIN slots}
    \cup {r[2] : r \in immediate_sync_promises_} \cup sync_promises_

CloseFile_FlushOnly(op) == Flush /\ UNCHANGED stable

CloseFile(op) == IF op = "close" THEN Sync ELSE Flush /\ UNCHANGED stable

(* close() syncs and close_and_destroy() only flushes; both stop the actor. *)
OnClose(t, op) ==
  /\ Receive(t, op)
  /\ running' = FALSE
  /\ CloseFile(op)
  /\ lost' = lost \cup (Abandoned \ {0})
  /\ slots' = <<>> /\ immediate_sync_promises_' = {} /\ sync_promises_' = {}
  /\ wakeup_at_' = -1
  /\ UNCHANGED <<clientVars, begin, end, batch, log, force_sync_flag_, lazy_sync_flag_,
                 flush_flag_, sent, covers, done>>

(* A message to a stopped actor is destroyed, and its promise with it.      *)
Drop(t) ==
  /\ ~running /\ channel[t] # <<>>
  /\ lost' = lost \cup Given(Head(channel[t]).promise)
  /\ channel' = [channel EXCEPT ![t] = Tail(@)]
  /\ UNCHANGED <<clientVars, processorVars, batch, binlogVars, timerVars, running, sent,
                 covers, done>>

(* timeout_expired: what the flags ask for, and the promises that are left. *)
NeedSync_ForcedOnly == force_sync_flag_

NeedSync == lazy_sync_flag_ \/ force_sync_flag_

NeedFlush_ReadTooLate == FALSE

NeedFlush == flush_flag_

PromisesLeft == {}

TimeoutExpired ==
  /\ running /\ batch = Nothing /\ wakeup_at_ = 0
  /\ lazy_sync_flag_' = FALSE /\ force_sync_flag_' = FALSE
  /\ \/ /\ NeedSync
        /\ UNCHANGED log /\ Sync
        /\ done' = done \cup sync_promises_
        /\ sync_promises_' = PromisesLeft
        /\ flush_flag_' = FALSE /\ wakeup_at_' = -1
     \/ /\ ~NeedSync
        /\ LET overdue == Overdue(need_flush_age)
               defer   == NeedFlush /\ ~overdue
           IN  /\ IF NeedFlush /\ overdue THEN Flush ELSE UNCHANGED <<flushed, need_flush_age>>
               /\ flush_flag_' = defer
               /\ wakeup_at_' = IF defer THEN FLUSH_TIMEOUT - need_flush_age ELSE -1
        /\ UNCHANGED <<log, stable, sync_promises_, done>>
  /\ UNCHANGED <<clientVars, channel, processorVars, batch, immediate_sync_promises_,
                 running, sent, covers, lost>>

(* Time passes.  A timer that is due stays due until the actor runs.        *)
Tick ==
  /\ running /\ batch = Nothing /\ wakeup_at_ > 0
  /\ wakeup_at_' = wakeup_at_ - 1
  /\ need_flush_age' = IF need_flush_age \in 0..(FLUSH_TIMEOUT - 1)
                        THEN need_flush_age + 1 ELSE need_flush_age
  /\ UNCHANGED <<clientVars, channel, processorVars, batch, log, flushed, stable,
                 immediate_sync_promises_, sync_promises_, force_sync_flag_,
                 lazy_sync_flag_, flush_flag_, running, promiseVars>>

-----------------------------------------------------------------------------
Client(t) ==
  \/ BeginAdd(t) \/ BeginEraseBatch(t) \/ Send(t)
  \/ ForceSync(t) \/ ForceFlush(t) \/ ChangeKey(t)
  \/ \E op \in {"close", "close_and_destroy"} : Close(t, op)

Deliver(t) ==
  \/ OnAddRawEvent(t) \/ OnEraseBatch(t)
  \/ OnForceSync(t) \/ OnForceFlush(t) \/ OnChangeKey(t)
  \/ \E op \in {"close", "close_and_destroy"} : OnClose(t, op)
  \/ Drop(t)

Next ==
  \/ \E t \in Threads : Client(t) \/ Deliver(t)
  \/ EraseBatchStep \/ TimeoutExpired \/ Tick

Spec == Init /\ [][Next]_vars

(* A thread that took a number sends it, the scheduler delivers what was    *)
(* sent and runs timers that are due, and time passes.                      *)
CanDeliver(t) == channel[t] # <<>> /\ (running => batch = Nothing)

Fairness ==
  /\ \A t \in Threads :
       /\ WF_vars(Send(t))
       /\ []<>~CanDeliver(t) \/ []<><<Len(channel'[t]) < Len(channel[t])>>_vars
  /\ []<>(batch = Nothing) \/ []<><<EraseBatchStep>>_vars
  /\ WF_vars(TimeoutExpired) /\ WF_vars(Tick)

FairSpec == Spec /\ Fairness

-----------------------------------------------------------------------------
Messages ==
  [op : {"none", "add_raw_event", "erase_batch", "force_sync", "force_flush",
         "change_key", "close", "close_and_destroy"},
   seq_no : Nat, n : Nat, raw : BOOLEAN, promise : Nat]

TypeOK ==
  /\ last_event_id_ \in Nat /\ owned \in BOOLEAN /\ calls \in Nat
  /\ held \in [Threads -> Messages]
  /\ channel \in [Threads -> Seq(Messages)]
  /\ begin \in Nat /\ end \in Nat /\ begin <= end /\ end <= last_event_id_
  /\ DOMAIN slots \subseteq Nat /\ \A n \in DOMAIN slots : slots[n] \in Messages
  /\ batch \in Messages
  /\ log \in Seq(Messages) /\ flushed \in Nat /\ stable \in Nat
  /\ need_flush_age \in -1..FLUSH_TIMEOUT
  /\ immediate_sync_promises_ \subseteq Nat \X Nat /\ sync_promises_ \subseteq Nat
  /\ force_sync_flag_ \in BOOLEAN /\ lazy_sync_flag_ \in BOOLEAN /\ flush_flag_ \in BOOLEAN
  /\ wakeup_at_ \in Nat \cup {-1} /\ running \in BOOLEAN
  /\ sent \in [Threads -> Nat] /\ covers \in Seq(Nat)
  /\ done \subseteq Nat /\ lost \subseteq Nat

(* The Binlog receives every number exactly once and in increasing order,   *)
(* although threads take and send numbers in two separate steps.            *)
LogInOrder ==
  /\ Len(log) = begin - FirstId
  /\ \A i \in DOMAIN log : log[i].seq_no = FirstId + i - 1

(* A fulfilled promise is a durable one: when a caller learns that its      *)
(* event was saved, or that force_sync finished, its event, every event it  *)
(* had sent before and all their predecessors from any thread are stable.   *)
PromiseImpliesStable ==
  \A p \in done : covers[p] < FirstId + stable

(* LOG_CHECK(seq_no >= begin_) of the processor cannot fail: a number on    *)
(* its way to the actor has not been run, and none is waiting twice.        *)
NeverOverrun ==
  running =>
    /\ \A t \in Threads : \A i \in DOMAIN channel[t] :
         \A n \in Numbers(channel[t][i]) : n >= begin /\ n \notin DOMAIN slots
    /\ \A n \in Numbers(batch) : n >= begin /\ n \notin DOMAIN slots

(* Whoever waits has a timer: a promise that waits for a sync has a sync    *)
(* scheduled, within SYNC_TIMEOUT if it was forced, and an event that sits  *)
(* in the buffer is written or synced within the corresponding timeout.     *)
WaitersHaveTimers ==
  (running /\ batch = Nothing) =>
    /\ sync_promises_ # {} => force_sync_flag_ \/ lazy_sync_flag_
    /\ force_sync_flag_ => wakeup_at_ \in 0..SYNC_TIMEOUT
    /\ lazy_sync_flag_ => wakeup_at_ \in 0..LAZY_TIMEOUT
    /\ need_flush_age # -1 => \/ flush_flag_ /\ wakeup_at_ \in 0..FLUSH_TIMEOUT
                              \/ force_sync_flag_

(* A force_sync that waits does so for an event that is still missing: when *)
(* the processor has caught up, nobody is left in immediate_sync_promises_. *)
ForcedSyncsMoveOn ==
  \A r \in immediate_sync_promises_ : begin <= r[1] /\ r[1] < end

(* Nothing that was handed to the Binlog is left unsynced by close().       *)
ClosedIsStable ==
  [][\A t \in Threads : OnClose(t, "close") => stable' = begin - FirstId]_vars

(* Every promise is settled in the end, the ones of a lazy_sync and those   *)
(* of a force_sync that had to wait for another thread's event included.    *)
EveryPromiseSettled ==
  \A p \in 1..MaxPromises : [](p <= Len(covers) => <>(p \in done \cup lost))

(* Every event that was given to the actor reaches the file.                *)
EveryEventFlushed ==
  \A k \in 1..MaxId : [](Len(log) >= k => <>(flushed >= k))
=============================================================================
