----------------------- MODULE MultiSequenceDispatcher -----------------------
(***************************************************************************)
(* td::MultiSequenceDispatcherImpl (td/telegram/SequenceDispatcher.cpp):   *)
(* queries of one chain reach the server in their order, although they are *)
(* sent without waiting for each other.  A query names the queries before  *)
(* it (invoke_after); the server executes it only after those.             *)
(*                                                                         *)
(* d holds the fields of the dispatcher and of its ChainScheduler.  The    *)
(* query of task t is d.query[t], wherever the NetQueryPtr is now:         *)
(* with its Node, in NetQueryDispatcher and Session, sent, asleep in       *)
(* NetQueryDelayer, in the mailbox of the dispatcher, with its callback or *)
(* gone.  Every handler of the dispatcher is one action, as it is an actor.*)
(***************************************************************************)
EXTENDS ChainScheduler

CONSTANTS
  ChainSets,           \* the sequences of chains a query may be in
  Callbacks,           \* whether a query has a callback, subset of BOOLEAN
  Kinds,               \* which chains go with which of them
  Constructors,        \* its tl_constructor
  Timeouts,            \* the delays that the server may ask for, in seconds
  total_timeout_limit, \* the longest delay of a query in all
  MaxTasks,            \* bound: queries
  MaxFaults            \* bound: errors, delays and changes of session

ASSUME DispatcherAssumption ==
  /\ Timeouts \subseteq Nat \ {0} /\ total_timeout_limit \in Nat /\ MaxTasks \in Nat /\ MaxFaults \in Nat
  /\ Kinds \subseteq ChainSets \X Callbacks
  /\ \A chains \in ChainSets : chains \in Seq(ChainIds) /\ chains # <<>> /\ IsInjective(chains)

VARIABLES
  d,
  messages,   \* what Session sent: message_id -> [task, after, verdict]
  executed,   \* the tasks that the server has executed, in its order
  faults

vars == <<d, messages, executed, faults>>

-----------------------------------------------------------------------------
(* The dispatcher's functions, as functions of its fields.                  *)

HasQuery(s, t) == s.query[t].place = "node"

(* check_timeout: what it adds to the query's total, and whether that is    *)
(* too much.                                                                *)
CheckTimeout(s, t) ==
  HasQuery(s, t) /\ s.query[t].state = "Query" /\ s.query[t].node_timeout > 0

TimedOut(s, t) ==
  CheckTimeout(s, t) /\ s.query[t].total_timeout_ + s.query[t].node_timeout > total_timeout_limit

check_timeout(s, t) ==
  IF ~CheckTimeout(s, t) THEN s
  ELSE [s EXCEPT !.query[t].total_timeout_ = @ + s.query[t].node_timeout,
                 !.query[t].node_timeout = 0,
                 !.query[t].state = IF TimedOut(s, t) THEN "Error" ELSE @]

FlushOne_FirstParent(s) ==
  LET t == NextTask(s)
      c == Head(Chains(s, t))
      popped == [s EXCEPT !.pending_tasks_ = Tail(@)]
  IN  IF t \notin Alive(s) \/ ~HasQuery(s, t) THEN [popped EXCEPT !.failed = TRUE]
      ELSE [popped EXCEPT !.query[t].place = "session",
                          !.query[t].invoke_after = get_parent(s, c, t),
                          !.query[t].last_timeout_ = 0]

(* flush_pending_queries: one task of pending_tasks_, and all of them.      *)
FlushOne(s) ==
  LET t == NextTask(s)
      popped == [s EXCEPT !.pending_tasks_ = Tail(@)]
  IN  IF t \notin Alive(s) \/ ~HasQuery(s, t) THEN [popped EXCEPT !.failed = TRUE]
      ELSE [popped EXCEPT !.query[t].place = "session",
                          !.query[t].invoke_after = Parents(s),
                          !.query[t].last_timeout_ = 0]

loop(s) ==
  LET after[n \in 0..Len(s.pending_tasks_)] == IF n = 0 THEN s ELSE FlushOne(after[n - 1])
  IN  after[Len(s.pending_tasks_)]

try_resend(s, t) ==
  IF s.query[t].callback THEN [s EXCEPT !.query[t].place = "callback"]
  ELSE loop(finish_task([s EXCEPT !.query[t].place = "done"], t))

do_resend(s, t) ==
  LET back == [s EXCEPT !.query[t].place = "node", !.query[t].state = "Query"]
      checked == check_timeout(back, t)
  IN  IF TimedOut(back, t) THEN try_resend(pause_task(checked, t), t) ELSE reset_task(checked, t)

(* The first part of on_result: the delay of a query counts for the ones    *)
(* of its kind that are behind it, and those that have waited too long are  *)
(* failed.                                                                  *)
Delayed(s, t) ==
  {u \in ToSet(for_each_dependent(s, t)) : u # t /\ s.query[u].tl_constructor = s.query[t].tl_constructor}

AddTimeouts(s, t) ==
  LET visited == for_each_dependent(s, t)
      added[i \in 0..Len(visited)] ==
        IF i = 0 THEN [s EXCEPT !.query[t].last_timeout_ = 0]
        ELSE IF visited[i] \in Delayed(s, t)
          THEN [added[i - 1] EXCEPT !.query[visited[i]].node_timeout = @ + s.query[t].last_timeout_]
        ELSE added[i - 1]
  IN  added[Len(visited)]

CheckDependent(s, u) ==
  LET checked == check_timeout(s, u)
  IN  IF TimedOut(s, u) THEN try_resend(pause_task(checked, u), u) ELSE checked

CheckDependents(s, t) ==
  LET visited == for_each_dependent(s, t)
      after[i \in 0..Len(visited)] ==
        IF i = 0 THEN AddTimeouts(s, t)
        ELSE IF visited[i] \in Delayed(s, t) THEN CheckDependent(after[i - 1], visited[i])
        ELSE after[i - 1]
  IN  IF s.query[t].last_timeout_ = 0 THEN s ELSE after[Len(visited)]

-----------------------------------------------------------------------------
(* Its handlers.                                                            *)

Init ==
  /\ d = [tasks_ |-> <<>>, chains_ |-> EmptyScheduler.chains_, limited_tasks_ |-> EmptyScheduler.limited_tasks_,
          pending_tasks_ |-> <<>>, failed |-> FALSE, query |-> <<>>]
  /\ messages = <<>> /\ executed = <<>> /\ faults = 0

send(chains, callback, tl_constructor) ==
  LET query == [place |-> "node", state |-> "Query", chains |-> chains, callback |-> callback,
                tl_constructor |-> tl_constructor, node_timeout |-> 0, total_timeout_ |-> 0,
                last_timeout_ |-> 0, message_id |-> 0, invoke_after |-> {}]
  IN  /\ Len(d.tasks_) < MaxTasks
      /\ d' = loop(create_task([d EXCEPT !.query = Append(@, query)], chains))
      /\ UNCHANGED <<messages, executed, faults>>

on_result(t) ==
  LET s == CheckDependents(d, t)
  IN  /\ d.query[t].place = "mailbox"
      /\ d' = IF d.query[t].state = "ResendInvokeAfter" THEN loop(do_resend(s, t))
              ELSE try_resend([s EXCEPT !.query[t].place = "node"], t)
      /\ UNCHANGED <<messages, executed, faults>>

(* on_resend, when the callback has called its promise.                     *)
on_resend_error(t) ==
  /\ d.query[t].place = "callback"
  /\ d' = loop(finish_task([d EXCEPT !.query[t].place = "done"], t))
  /\ UNCHANGED <<messages, executed, faults>>

on_resend_ok(t) ==
  /\ d.query[t].place = "callback" /\ d.query[t].state = "Error"
  /\ faults < MaxFaults /\ faults' = faults + 1
  /\ d' = loop(do_resend(d, t))
  /\ UNCHANGED <<messages, executed>>

-----------------------------------------------------------------------------
(* Session::connection_send_query: the message ids of the queries before    *)
(* are read now; a query that was answered or is sent again has none.  That *)
(* a query also waits here while the fate of others is unknown only delays  *)
(* this step.                                                               *)
Returned(t, state) == [d EXCEPT !.query[t].place = "mailbox", !.query[t].state = state, !.query[t].message_id = 0]

connection_send_query(t) ==
  LET after == {d.query[p].message_id : p \in d.query[t].invoke_after}
      message_id == Len(messages) + 1
  IN  /\ d.query[t].place = "session"
      /\ IF 0 \in after
           THEN d' = Returned(t, "ResendInvokeAfter") /\ UNCHANGED messages
           ELSE /\ messages' = Append(messages, [task |-> t, after |-> after, verdict |-> "none"])
                /\ d' = [d EXCEPT !.query[t].place = "sent", !.query[t].message_id = message_id]
      /\ UNCHANGED <<executed, faults>>

(* The session has changed since a query before was sent, or the query was  *)
(* canceled.                                                                *)
SessionRefuses(t) ==
  /\ d.query[t].place = "session"
  /\ faults < MaxFaults /\ faults' = faults + 1
  /\ \/ d.query[t].invoke_after # {} /\ d' = Returned(t, "ResendInvokeAfter")
     \/ d' = Returned(t, "Error")
  /\ UNCHANGED <<messages, executed>>

(* The answer of the server has come.                                       *)
Answered(t) ==
  LET verdict == messages[d.query[t].message_id].verdict
  IN  /\ d.query[t].place = "sent" /\ verdict \in {"OK", "Error", "ResendInvokeAfter"}
      /\ d' = Returned(t, verdict)
      /\ UNCHANGED <<messages, executed, faults>>

(* NetQueryDelayer::delay: a query fails if it has waited for too long, or  *)
(* at once after a -503 if it is not to be resent then.                     *)
Delays(t) ==
  \E timeout \in Timeouts :
    LET total == d.query[t].total_timeout_ + timeout
    IN  \E fails \in {TRUE, total > total_timeout_limit} :
          d' = [Returned(t, IF fails THEN "Error" ELSE "Query") EXCEPT
                  !.query[t].total_timeout_ = total,
                  !.query[t].last_timeout_ = timeout,
                  !.query[t].place = IF fails THEN "mailbox" ELSE "delayer"]

(* The server told the query to come later.                                 *)
delay(t) ==
  /\ d.query[t].place = "sent" /\ messages[d.query[t].message_id].verdict = "Flood"
  /\ Delays(t)
  /\ UNCHANGED <<messages, executed, faults>>

(* Session gives up a query that it has sent, be it executed or not: the    *)
(* session is closed (close) or replaced, or the message is reported as     *)
(* lost (resend_query), and the query is sent again under another message   *)
(* id; its connection failed with error 500 (on_closed), and it goes to     *)
(* NetQueryDelayer; or it is canceled (raw_event).                          *)
GiveBack(t) ==
  /\ d.query[t].place = "sent"
  /\ faults < MaxFaults /\ faults' = faults + 1
  /\ \/ d' = [d EXCEPT !.query[t].place = "session", !.query[t].message_id = 0]
     \/ Delays(t)
     \/ d' = Returned(t, "Error")
  /\ UNCHANGED <<messages, executed>>

(* NetQueryDelayer::on_slot_event.                                          *)
on_slot_event(t) ==
  /\ d.query[t].place = "delayer"
  /\ d' = IF d.query[t].invoke_after # {} THEN Returned(t, "ResendInvokeAfter")
          ELSE [d EXCEPT !.query[t].place = "session"]
  /\ UNCHANGED <<messages, executed, faults>>

-----------------------------------------------------------------------------
(* The server: it executes a message when the ones it waits for have been   *)
(* executed, and answers MSG_WAIT_FAILED when one of them was not.  A       *)
(* message that Session has given up may have been executed, may still be,  *)
(* or is lost.                                                              *)
Decide(m, verdict) ==
  /\ messages[m].verdict = "none"
  /\ messages' = [messages EXCEPT ![m].verdict = verdict]
  /\ UNCHANGED d

Execute(m) ==
  /\ \A a \in messages[m].after : messages[a].verdict = "OK"
  /\ Decide(m, "OK")
  /\ executed' = Append(executed, messages[m].task)
  /\ UNCHANGED faults

WaitFailed(m) ==
  /\ \E a \in messages[m].after : messages[a].verdict \notin {"none", "OK"}
  /\ Decide(m, "ResendInvokeAfter")
  /\ UNCHANGED <<executed, faults>>

Reject(m) ==
  /\ faults < MaxFaults /\ faults' = faults + 1
  /\ \E verdict \in {"Error", "Flood"} : Decide(m, verdict)
  /\ UNCHANGED executed

Awaited(m) == d.query[messages[m].task].place = "sent" /\ d.query[messages[m].task].message_id = m

Lose(m) ==
  /\ ~Awaited(m)
  /\ Decide(m, "Lost")
  /\ UNCHANGED <<executed, faults>>

-----------------------------------------------------------------------------
Network(t) ==
  \/ on_result(t) \/ on_resend_error(t)
  \/ connection_send_query(t) \/ Answered(t) \/ delay(t) \/ on_slot_event(t)

Server(m) == Execute(m) \/ WaitFailed(m) \/ Lose(m)

Next ==
  \/ \E kind \in Kinds, c \in Constructors : send(kind[1], kind[2], c)
  \/ \E t \in DOMAIN d.tasks_ : Network(t) \/ on_resend_ok(t) \/ SessionRefuses(t) \/ GiveBack(t)
  \/ \E m \in DOMAIN messages : Server(m) \/ Reject(m)

Spec == Init /\ [][Next]_vars

(* Actors run, timers fire, callbacks answer (a promise that is dropped     *)
(* answers with an error) and the server decides on what it can.  This is   *)
(* weak fairness of the steps of Network and Server with ENABLED written    *)
(* out: the other steps of Next change faults or the number of tasks.       *)
CanProceed ==
  \/ \E t \in DOMAIN d.query :
       \/ d.query[t].place \in {"session", "delayer", "mailbox", "callback"}
       \/ d.query[t].place = "sent" /\ messages[d.query[t].message_id].verdict # "none"
  \/ \E m \in DOMAIN messages :
       /\ messages[m].verdict = "none"
       /\ \/ \A a \in messages[m].after : messages[a].verdict = "OK"
          \/ \E a \in messages[m].after : messages[a].verdict \notin {"none", "OK"}
          \/ ~Awaited(m)

Proceeds == faults' = faults /\ Len(d'.tasks_) = Len(d.tasks_)

FairSpec == Spec /\ ([]<>~CanProceed \/ []<><<Proceeds>>_vars)

-----------------------------------------------------------------------------
(* When the server executes a query, every earlier query of each of its     *)
(* chains has been executed before, or has ended for the dispatcher: it was *)
(* answered, failed or was canceled.  That holds whatever fails, is delayed *)
(* or loses its session in between.  It does not say that a query is        *)
(* executed once: Session sends a query again when its session is closed or *)
(* replaced, although it may have been executed, and then the server may    *)
(* execute p, c, p, c for p before c in a chain.                            *)
ChainOrder ==
  [][\A t \in DOMAIN d.query : executed' = Append(executed, t) =>
       \A p \in 1..(t - 1) :
         \/ ToSet(d.query[p].chains) \cap ToSet(d.query[t].chains) = {}
         \/ p \in ToSet(executed)
         \/ d.query[p].place = "done"]_vars

(* Between two handlers no task is left that could be started: what was     *)
(* started has been sent, and a task that waits does so for the one before  *)
(* it or for a full chain that remembers it.                                *)
NothingForgotten ==
  /\ d.pending_tasks_ = <<>>
  /\ \A t \in Alive(d) : d.tasks_[t].state = "Pending" =>
       \E c \in InChain(d, t) :
         \/ Verdict(d, t, c) = "wait"
         \/ Verdict(d, t, c) = "limited" /\ d.limited_tasks_[c] # 0

(* The counters of a chain are those of its tasks, and it is never over its *)
(* limit.                                                                   *)
CountersAgree ==
  \A c \in ChainIds :
    LET info == d.chains_[c]
    IN  /\ info.active_tasks = Cardinality({t \in ToSet(info.chain) : d.tasks_[t].state = "Active"})
        /\ info.active_tasks <= MaxActive
        /\ \A t \in ToSet(info.chain) : d.tasks_[t].generation[c] <= info.generation

(* No CHECK fails: a task that is started exists and its query is there to  *)
(* be sent, although tasks in pending_tasks_ and limited_tasks_ may be      *)
(* paused or finished in the meantime; and the counters stay right.         *)
ChecksHold == ~d.failed /\ CountersAgree

(* Every query is answered in the end.                                      *)
EveryQueryEnds == \A t \in 1..MaxTasks : t \in DOMAIN d.query ~> (t \in DOMAIN d.query /\ d.query[t].place = "done")
=============================================================================
