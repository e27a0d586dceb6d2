------------------------------ MODULE Session ------------------------------
(***************************************************************************)
(* td::Session with its main connection: net queries are sent over a       *)
(* connection that breaks, to a server that acknowledges, rejects,         *)
(* answers, forgets its session, or whose messages are lost with the       *)
(* connection.  A query whose fate is unknown is asked about on the next   *)
(* connection and sent again only if the server does not have it.          *)
(*                                                                         *)
(* Handlers call one another, so they are operators on the record s of the *)
(* fields of Session and AuthData, of which s.c is the connection.  The    *)
(* transport is TCP, the key and the salt are there; the server part is    *)
(* what MTProto promises.  A broken connection delivers nothing more.      *)
(***************************************************************************)
EXTENDS SessionConnection, SequencesExt

CONSTANTS Queries,       \* net queries
          MaxInflight,   \* MAX_INFLIGHT_QUERIES
          Worlds         \* what may happen, see below

(* What may happen: the queries that each query must follow, the ones that  *)
(* may be canceled, whether a query may wait in the connection for 150      *)
(* seconds, how the server tells of an answer, how many queries of this     *)
(* size fit in a packet, and bounds on connections that break, rejected     *)
(* messages and sessions lost by the server.                                *)
ASSUME SessionAssumption ==
  /\ NoQuery \notin Queries /\ MaxInflight \in Nat \ {0}
  /\ Worlds \subseteq [after : [Queries -> SUBSET Queries], cancel : SUBSET Queries,
                       late : BOOLEAN, notes : SUBSET {"result", "detailed"},
                       batch : Nat \ {0}, closes : Nat, rejects : Nat, losses : Nat]

VARIABLES s,         \* the fields of Session
          canceled,  \* queries whose cancellation_token_ is 0
          events,    \* cancellation events in the mailbox
          out, in,   \* packets to the server, messages to the client
          srv,       \* the server's session
          executed,  \* history: how often each query was executed
          closes, rejects, losses,
          world      \* which of Worlds this is

vars == <<s, canceled, events, out, in, srv, executed, closes, rejects, losses, world>>

After == world.after

NoSession == [alive |-> FALSE, received |-> {}, answers |-> {}, told |-> {}, to_ack |-> {}]

Init ==
  /\ world \in Worlds
  /\ s = [pending |-> <<>>, waiting |-> <<>>, sent |-> <<>>, containers |-> <<>>,
          unknown |-> {}, to_cancel |-> {}, state |-> "Empty", c |-> NewConnection(world.batch),
          message_id |-> [q \in Queries |-> 0], next |-> 1, given |-> {},
          returned |-> [q \in Queries |-> 0]]
  /\ canceled = {} /\ events = {} /\ out = <<>> /\ in = <<>> /\ srv = NoSession
  /\ executed = [q \in Queries |-> 0] /\ closes = 0 /\ rejects = 0 /\ losses = 0

ForEach(Op(_, _), t, seq) ==
  LET f[i \in 0..Len(seq)] == IF i = 0 THEN t ELSE Op(f[i - 1], seq[i]) IN f[Len(seq)]

Ascending(S) == SetToSortSeq(S, LAMBDA x, y : x < y)

-----------------------------------------------------------------------------
(* Queries that leave sent_queries_.                                        *)
return_query(t, q) == [t EXCEPT !.returned[q] = @ + 1, !.message_id[q] = 0]

resend_query(t, q) == [t EXCEPT !.pending = Append(@, q), !.message_id[q] = 0]

Erase(t, id) == [t EXCEPT !.sent = Without(@, {id})]

flush_pending_invoke_after_queries(t) ==
  [t EXCEPT !.pending = @ \o t.waiting, !.waiting = <<>>]

mark_as_known(t, id) ==
  LET u == [t EXCEPT !.sent[id].unknown = FALSE, !.unknown = @ \ {id}]
  IN  IF ~t.sent[id].unknown THEN t
      ELSE IF u.unknown = {} THEN flush_pending_invoke_after_queries(u) ELSE u

mark_as_unknown(t, id) == [t EXCEPT !.sent[id].unknown = TRUE, !.unknown = @ \cup {id}]

dec_container_Never(t, id) == t

dec_container(t, id) ==
  LET cid == t.sent[id].container
  IN  IF cid = id \/ cid \notin DOMAIN t.containers THEN t
      ELSE IF t.containers[cid].ref_cnt = 1
             THEN [t EXCEPT !.containers = Without(@, {cid})]
             ELSE [t EXCEPT !.containers[cid].ref_cnt = @ - 1]

cleanup_container(t, id) ==
  LET cid == t.sent[id].container
  IN  IF cid = id THEN t ELSE [t EXCEPT !.containers = Without(@, {cid})]

(* A message identifier of a container stands for its messages.             *)
MessagesOf(t, id) ==
  IF id \in DOMAIN t.containers THEN t.containers[id].ids ELSE <<id>>

Forget(t, id) == [t EXCEPT !.containers = Without(@, {id})]

-----------------------------------------------------------------------------
(* What the server tells about a message.                                   *)
ack_inner(t, id, inContainer) ==
  IF id \notin DOMAIN t.sent THEN t
  ELSE LET u == [t EXCEPT !.sent[id].acked = TRUE]
       IN  mark_as_known(IF inContainer THEN u ELSE cleanup_container(u, id), id)

on_message_ack(t, id) ==
  LET inContainer == id \in DOMAIN t.containers
  IN  ForEach(LAMBDA u, m : ack_inner(u, m, inContainer), Forget(t, id), MessagesOf(t, id))

failed_inner(t, id, inContainer) ==
  IF id \notin DOMAIN t.sent THEN t
  ELSE LET u == mark_as_known(IF inContainer THEN t ELSE cleanup_container(t, id), id)
       IN  Erase(resend_query(u, t.sent[id].query), id)

on_message_failed(t, id) ==
  LET inContainer == id \in DOMAIN t.containers
  IN  ForEach(LAMBDA u, m : failed_inner(u, m, inContainer), Forget(t, id), MessagesOf(t, id))

(* on_message_result_ok and on_message_result_error.                        *)
on_message_result(t, id) ==
  IF id \notin DOMAIN t.sent THEN t
  ELSE LET u == mark_as_known(cleanup_container(t, id), id)
       IN  Erase(return_query(u, t.sent[id].query), id)

Drop_NotErased(t, id) ==
  return_query(mark_as_known(dec_container(t, id), id), t.sent[id].query)

(* A canceled query that is still sent is dropped.                          *)
Drop(t, id) ==
  Erase(return_query(mark_as_known(dec_container(t, id), id), t.sent[id].query), id)

on_message_info(t, id, received, hasAnswer) ==
  CASE id \notin DOMAIN t.sent -> t
    [] id \in DOMAIN t.sent /\ t.sent[id].query \in canceled -> Drop(t, id)
    [] OTHER ->
         IF ~received THEN on_message_failed(t, id)
         ELSE LET u == on_message_ack(t, id)
              IN  IF hasAnswer THEN [u EXCEPT !.c = resend_answer(@, id)] ELSE u

(* Messages of the lost session are sent again.                             *)
FirstMessage(t, first) ==
  LET f == FirstOfService(t.c, first)
  IN  IF f \in DOMAIN t.sent THEN t.sent[f].container ELSE f

on_new_session_created(t, first) ==
  LET f    == FirstMessage(t, first)
      lost == {id \in DOMAIN t.sent : t.sent[id].container < f}
      One(u, id) == Erase(resend_query(mark_as_known(cleanup_container(u, id), id),
                                       u.sent[id].query), id)
  IN  ForEach(One, t, Ascending(lost))

(* The connection is gone; hard: the transport reported an error 500.       *)
on_closed_SendsAgain(t, hard) ==
  LET One(u, id) == Erase(resend_query(mark_as_known(cleanup_container(u, id), id),
                                       u.sent[id].query), id)
      open == {id \in DOMAIN t.sent : ~t.sent[id].acked}
  IN  [ForEach(One, t, Ascending(open)) EXCEPT !.state = "Empty", !.c = NewConnection(world.batch)]

on_closed(t, hard) ==
  LET One(u, id) ==
        LET v == cleanup_container(u, id)
        IN  IF hard THEN Erase(return_query(mark_as_known(v, id), u.sent[id].query), id)
            ELSE mark_as_unknown(v, id)
      open == {id \in DOMAIN t.sent : ~t.sent[id].acked}
  IN  [ForEach(One, t, Ascending(open)) EXCEPT !.state = "Empty", !.c = NewConnection(world.batch)]

-----------------------------------------------------------------------------
(* connection_send_query: a canceled query is returned, one whose           *)
(* predecessor is not in flight is returned to be sent anew, and one that   *)
(* has predecessors waits until the fate of every query is known.           *)
connection_send_query_NoWait(t, q) ==
  LET id == t.next
  IN  CASE q \in canceled \/ \E p \in After[q] : t.message_id[p] = 0 -> return_query(t, q)
        [] OTHER ->
             [t EXCEPT !.next = id + 1, !.message_id[q] = id,
                       !.c    = send_query(@, id, q, {t.message_id[p] : p \in After[q]}),
                       !.sent = With(@, id, [query |-> q, container |-> id,
                                             acked |-> FALSE, unknown |-> FALSE])]

connection_send_query(t, q) ==
  LET id == t.next
  IN  CASE q \in canceled \/ \E p \in After[q] : t.message_id[p] = 0 -> return_query(t, q)
        [] q \notin canceled /\ (\A p \in After[q] : t.message_id[p] # 0)
             /\ After[q] # {} /\ t.unknown # {} -> [t EXCEPT !.waiting = Append(@, q)]
        [] OTHER ->
             [t EXCEPT !.next = id + 1, !.message_id[q] = id,
                       !.c    = send_query(@, id, q, {t.message_id[p] : p \in After[q]}),
                       !.sent = With(@, id, [query |-> q, container |-> id,
                                             acked |-> FALSE, unknown |-> FALSE])]

(* The loop over pending_queries_.                                          *)
RECURSIVE SendPending(_)
SendPending(t) ==
  IF t.pending = <<>> \/ Cardinality(DOMAIN t.sent) >= MaxInflight THEN t
  ELSE SendPending(connection_send_query([t EXCEPT !.pending = Tail(@)], Head(t.pending)))

CanSendPending == s.state = "Ready" /\ s.pending # <<>> /\ Cardinality(DOMAIN s.sent) < MaxInflight

loop_send ==
  /\ CanSendPending
  /\ s' = SendPending(s)
  /\ UNCHANGED <<canceled, events, out, in, srv, executed, closes, rejects, losses, world>>

(* on_container_sent.                                                       *)
on_container_sent(t, cid, ids) ==
  LET live == SelectSeq(ids, LAMBDA id : id \in DOMAIN t.sent)
  IN  IF cid = 0 \/ live = <<>> THEN t
      ELSE [t EXCEPT !.sent = [id \in DOMAIN @ |-> IF id \in ToSet(live)
                                                     THEN [@[id] EXCEPT !.container = cid] ELSE @[id]],
                     !.containers = With(@, cid, [ref_cnt |-> Len(live), ids |-> live])]

(* flush_packet in connection_flush.                                        *)
flush(late) ==
  LET c    == s.c
      ping == ~c.pinged
      cid  == ContainerId(c, ping, late, s.next)
      ms   == ServiceMessages(c, ping, s.next)
      ids  == [i \in 1..BatchSize(c) |-> c.to_send[i].id]
  IN  /\ s.state = "Ready" /\ MustFlush(c)
      /\ late => world.late /\ Len(Messages(c, ping, s.next)) = 1 /\ ids # <<>>
      /\ out' = Append(out, Packet(c, ping, late, s.next))
      /\ s' = on_container_sent([s EXCEPT !.c    = AfterFlush(c, ping, late, s.next),
                                          !.next = @ + Len(ms) + IF cid = 0 THEN 0 ELSE 1],
                                cid, ids)
      /\ UNCHANGED <<canceled, events, in, srv, executed, closes, rejects, losses, world>>

-----------------------------------------------------------------------------
(* The owner of the queries.                                                *)
send(q) ==
  /\ s.state # "Closed" /\ q \notin s.given
  /\ LET t == [s EXCEPT !.given = @ \cup {q}]
     IN  s' = IF q \in canceled THEN return_query(t, q) ELSE [t EXCEPT !.pending = Append(@, q)]
  /\ UNCHANGED <<canceled, events, out, in, srv, executed, closes, rejects, losses, world>>

cancel(q) ==
  /\ q \in world.cancel \ canceled /\ s.state # "Closed"
  /\ canceled' = canceled \cup {q}
  /\ events' = IF s.message_id[q] = 0 THEN events ELSE events \cup {s.message_id[q]}
  /\ UNCHANGED <<s, out, in, srv, executed, closes, rejects, losses, world>>

raw_event(id) ==
  /\ id \in events /\ s.state # "Closed"
  /\ events' = events \ {id}
  /\ s' = IF id \notin DOMAIN s.sent THEN s
          ELSE LET t == Drop(s, id)
               IN  IF t.state = "Ready" THEN [t EXCEPT !.c = cancel_answer(@, id)]
                   ELSE [t EXCEPT !.to_cancel = @ \cup {id}]
  /\ UNCHANGED <<canceled, out, in, srv, executed, closes, rejects, losses, world>>

(* Session::close gives every query back.                                   *)
Close ==
  LET t   == on_closed(s, FALSE)
      all == s.pending \o s.waiting \o [i \in 1..Cardinality(DOMAIN s.sent) |->
                                           s.sent[Ascending(DOMAIN s.sent)[i]].query]
  IN  /\ s.state # "Closed"
      /\ s' = ForEach(return_query, [t EXCEPT !.pending = <<>>, !.waiting = <<>>, !.sent = <<>>,
                                               !.containers = <<>>, !.unknown = {}, !.state = "Closed"],
                      all)
      /\ out' = <<>> /\ in' = <<>>
      /\ UNCHANGED <<canceled, events, srv, executed, closes, rejects, losses, world>>

-----------------------------------------------------------------------------
(* Connections.                                                             *)
connection_open ==
  /\ s.state = "Empty"
  /\ s' = [s EXCEPT !.state = "Connecting"]
  /\ UNCHANGED <<canceled, events, out, in, srv, executed, closes, rejects, losses, world>>

AskAboutUnknown(t) ==
  LET c == ForEach(get_state_info, NewConnection(world.batch), Ascending(t.unknown))
  IN  ForEach(cancel_answer, c, Ascending(t.to_cancel))

connection_open_finish(ok) ==
  /\ s.state = "Connecting"
  /\ IF ok THEN /\ s' = [s EXCEPT !.state = "Ready", !.c = AskAboutUnknown(s), !.to_cancel = {}]
                /\ UNCHANGED closes
           ELSE /\ closes < world.closes /\ closes' = closes + 1
                /\ s' = [s EXCEPT !.state = "Empty"]
  /\ UNCHANGED <<canceled, events, out, in, srv, executed, rejects, losses, world>>

(* What was on its way is lost; the server will tell its answers again.     *)
Broken(t, hard) ==
  /\ s' = on_closed(t, hard) /\ out' = <<>> /\ in' = <<>>
  /\ srv' = [srv EXCEPT !.told = {}, !.to_ack = {}]

ConnectionFails(hard) ==
  /\ s.state = "Ready" /\ closes < world.closes
  /\ closes' = closes + 1
  /\ Broken(s, hard)
  /\ UNCHANGED <<canceled, events, executed, rejects, losses, world>>

(* Nothing is left to do but to wait.                                       *)
Idle ==
  /\ s.state = "Ready" /\ out = <<>> /\ in = <<>> /\ events = {}
  /\ ~MustFlush(s.c) /\ ~CanSendPending /\ srv.answers \subseteq srv.told

(* The oldest queries have waited too long.                                 *)
TimedOut(t, old) ==
  [t EXCEPT !.sent = [id \in DOMAIN @ |->
                        IF id \in old THEN [@[id] EXCEPT !.acked = FALSE] ELSE @[id]]]

Overdue_OnlyUnknown == IF s.unknown = {} THEN {} ELSE 0..Cardinality(DOMAIN s.sent)

(* How many of the oldest queries may have waited for a minute, when that,  *)
(* or a query of unknown fate, makes on_pong act.                           *)
Overdue == (IF s.unknown = {} THEN 1 ELSE 0)..Cardinality(DOMAIN s.sent)

(* on_pong, when it finds that the server is silent: a minute has passed    *)
(* with a query unanswered or its state unknown.                            *)
on_pong ==
  /\ s.state = "Ready" /\ s.c.pinged /\ DOMAIN s.sent # {}
  /\ closes < world.closes \/ Idle
  /\ \E k \in Overdue :
       /\ Idle => k = Cardinality(DOMAIN s.sent)
       /\ Broken(TimedOut(s, ToSet(SubSeq(Ascending(DOMAIN s.sent), 1, k))), FALSE)
  /\ closes' = IF closes < world.closes THEN closes + 1 ELSE closes
  /\ UNCHANGED <<canceled, events, executed, rejects, losses, world>>

(* A message of the server.                                                 *)
OnStates(t, m) ==
  LET u == [t EXCEPT !.c.service = Without(@, {m.id})]
  IN  ForEach(LAMBDA v, id : on_message_info(v, id, id \in m.ids, FALSE),
              u, Ascending(t.c.service[m.id].ids))

Handle(t, m) ==
  CASE m.kind = "result"   -> on_message_result([t EXCEPT !.c = send_ack(@, m.id)], m.id)
    [] m.kind = "ack"      -> on_message_ack(t, m.id)
    [] m.kind = "bad"      -> LET u == on_message_failed(t, m.id)
                              IN  [u EXCEPT !.c = ConnectionFailed(@, m.id)]
    [] m.kind = "new"      -> on_new_session_created(t, m.id)
    [] m.kind = "detailed" -> on_message_info(t, m.id, TRUE, TRUE)
    [] m.kind = "states"   -> OnStates(t, m)

Expected(t, m) == m.kind = "states" => m.id \in DOMAIN t.c.service

Receive ==
  /\ s.state = "Ready" /\ in # <<>>
  /\ IF Expected(s, Head(in))
       THEN s' = Handle(s, Head(in)) /\ in' = Tail(in) /\ UNCHANGED <<out, srv>>
       ELSE Broken(s, FALSE)
  /\ UNCHANGED <<canceled, events, executed, closes, rejects, losses, world>>

-----------------------------------------------------------------------------
(* The server.                                                              *)
Tell(kind, id, ids) == [kind |-> kind, id |-> id, ids |-> ids]

QueriesOf(p, bad) == {i \in DOMAIN p.messages : p.messages[i].kind = "query" /\ i # bad}

Replies(p, answers, received) ==
  LET Of(m) == CASE m.kind = "state"  -> <<Tell("states", m.id, m.ids \cap received)>>
                 [] m.kind = "resend" -> LET x == Ascending(m.ids \cap answers)
                                         IN  [i \in DOMAIN x |-> Tell("result", x[i], {})]
                 [] OTHER -> <<>>
  IN  FlattenSeq([i \in DOMAIN p.messages |-> Of(p.messages[i])])

(* A packet is taken, by a new session that tells its first message if      *)
(* there is none, without the message numbered bad.  A query whose          *)
(* predecessor is not here fails, the others are executed.                  *)
Accept(p, bad) ==
  LET new   == QueriesOf(p, bad)
      ids   == {p.messages[i].id : i \in new}
      recv  == srv.received \cup ids
      gone  == UNION {p.messages[i].ids : i \in {j \in DOMAIN p.messages :
                                                   p.messages[j].kind \in {"ack", "cancel"}}}
      runs  == {i \in new : p.messages[i].ids \subseteq recv}
  IN  /\ srv' = [alive |-> TRUE, received |-> recv, answers |-> (srv.answers \cup ids) \ gone,
                 told |-> srv.told, to_ack |-> srv.to_ack \cup (IF new = {} THEN {} ELSE {p.id})]
      /\ in' = in \o (IF srv.alive THEN <<>> ELSE <<Tell("new", p.messages[1].id, {})>>)
                  \o (IF bad = 0 THEN <<>> ELSE <<Tell("bad", p.messages[bad].id, {})>>)
                  \o Replies(p, srv.answers, recv)
      /\ executed' = [q \in Queries |->
                        executed[q] + Cardinality({i \in runs : p.messages[i].query = q})]

ServerAccepts ==
  /\ out # <<>>
  /\ Accept(Head(out), 0)
  /\ out' = Tail(out)
  /\ UNCHANGED <<s, canceled, events, closes, rejects, losses, world>>

(* bad_msg_notification and bad_server_salt, for a packet or for a message  *)
(* of a container.                                                          *)
ServerRejects ==
  /\ out # <<>> /\ rejects < world.rejects
  /\ rejects' = rejects + 1 /\ out' = Tail(out)
  /\ \/ /\ in' = Append(in, Tell("bad", Head(out).id, {}))
        /\ UNCHANGED <<srv, executed>>
     \/ \E bad \in QueriesOf(Head(out), 0) :
          /\ Len(Head(out).messages) > 1
          /\ Accept(Head(out), bad)
  /\ UNCHANGED <<s, canceled, events, closes, losses, world>>

(* A quick acknowledgement of a packet, or msgs_ack of its messages.        *)
ServerAcks ==
  /\ s.state = "Ready"
  /\ \E id \in srv.to_ack :
       /\ srv' = [srv EXCEPT !.to_ack = @ \ {id}]
       /\ in' = Append(in, Tell("ack", id, {}))
  /\ UNCHANGED <<s, canceled, events, out, executed, closes, rejects, losses, world>>

(* The answer, or a note that it is there.                                  *)
ServerAnswers ==
  /\ s.state = "Ready"
  /\ \E id \in srv.answers \ srv.told, kind \in world.notes :
       /\ srv' = [srv EXCEPT !.told = @ \cup {id}]
       /\ in' = Append(in, Tell(kind, id, {}))
  /\ UNCHANGED <<s, canceled, events, out, executed, closes, rejects, losses, world>>

ServerForgets ==
  /\ srv.alive /\ losses < world.losses
  /\ srv' = NoSession /\ losses' = losses + 1
  /\ UNCHANGED <<s, canceled, events, out, in, executed, closes, rejects, world>>

Next ==
  \/ \E q \in Queries : send(q) \/ cancel(q)
  \/ \E id \in events : raw_event(id)
  \/ loop_send \/ Close \/ connection_open \/ on_pong \/ Receive
  \/ \E ok \in BOOLEAN : connection_open_finish(ok)
  \/ \E hard \in BOOLEAN : ConnectionFails(hard)
  \/ \E late \in BOOLEAN : flush(late)
  \/ ServerAccepts \/ ServerRejects \/ ServerAcks \/ ServerAnswers \/ ServerForgets

Spec == Init /\ [][Next]_vars

(* The actor's loop runs when something is due, connections are opened in   *)
(* the end, the server handles what it gets and tells its answers, and a    *)
(* pong comes when nothing else does.                                       *)
CanFlush == s.state = "Ready" /\ MustFlush(s.c)

CanTimeOut == Idle /\ s.c.pinged /\ DOMAIN s.sent # {} /\ Overdue # {}

Fairness ==
  /\ WF_vars(connection_open) /\ WF_vars(connection_open_finish(TRUE)) /\ WF_vars(ServerAnswers)
  /\ []<>~CanSendPending \/ []<><<loop_send>>_vars
  /\ []<>~CanFlush \/ []<><<flush(FALSE)>>_vars
  /\ []<>(s.state # "Ready" \/ in = <<>>) \/ []<><<Receive>>_vars
  /\ []<>(s.state = "Closed" \/ events = {}) \/ []<><<\E id \in events : raw_event(id)>>_vars
  /\ []<>(out = <<>>) \/ []<><<ServerAccepts>>_vars
  /\ []<>~CanTimeOut \/ []<><<Idle /\ on_pong>>_vars

FairSpec == Spec /\ Fairness

-----------------------------------------------------------------------------
InSeq(q, seq) == Cardinality({i \in DOMAIN seq : seq[i] = q})

(* Every query that was given to the session is in exactly one place, or    *)
(* was returned once.                                                       *)
OnePlace ==
  \A q \in Queries :
    InSeq(q, s.pending) + InSeq(q, s.waiting) + s.returned[q]
      + Cardinality({id \in DOMAIN s.sent : s.sent[id].query = q})
    = IF q \in s.given THEN 1 ELSE 0

(* unknown_queries_ is what its flags say, and queries that wait for it to  *)
(* become empty are not forgotten when it does.                             *)
WaitersHaveReason ==
  /\ s.unknown = {id \in DOMAIN s.sent : s.sent[id].unknown}
  /\ s.waiting # <<>> => s.unknown # {}

(* The CHECK of dec_container, and no container is left without a query.    *)
ContainersCounted ==
  \A cid \in DOMAIN s.containers :
    LET k == s.containers[cid]
    IN  k.ref_cnt > 0 /\ k.ref_cnt = Cardinality(ToSet(k.ids) \cap DOMAIN s.sent)

(* What waits in the connection will be sent.                               *)
WorkIsForced == HasWork(s.c) => s.c.forced

(* The fields of Session and its connection agree after every handler.      *)
FieldsAgree == WaitersHaveReason /\ ContainersCounted /\ WorkIsForced

(* msgs_state_info never comes unexpected, which would close the connection.*)
StatesExpected == s.state = "Ready" /\ in # <<>> => Expected(s, Head(in))

(* The packet of the question m, its answer or its rejection is on its way. *)
Asked(m) ==
  LET ids == {m, s.c.service[m].container}
  IN  \/ \E i \in DOMAIN out : out[i].id \in ids
      \/ \E i \in DOMAIN in  : in[i].kind \in {"states", "bad"} /\ in[i].id \in ids

(* Over an open connection every query of unknown fate is asked about: it   *)
(* waits in to_get_state_info_, or in a question whose packet, answer or    *)
(* rejection is on its way; and no answer comes to a question that the      *)
(* connection has forgotten.                                                *)
UnknownAsked ==
  /\ StatesExpected
  /\ s.state = "Ready" =>
    \A id \in s.unknown \ s.c.to_state :
      \E m \in DOMAIN s.c.service :
        s.c.service[m].type = "state" /\ id \in s.c.service[m].ids /\ Asked(m)

(* connection_send_query, on_closed and mark_as_unknown: while the server   *)
(* keeps its session no query is executed twice, however often the          *)
(* connection breaks and whatever is rejected.  The queries that wait must  *)
(* fit in a packet: on_new_session_created takes what flush_packet left for *)
(* the next one for lost, because its identifier is below the container's,  *)
(* and sends it again.                                                      *)
AtMostOnce ==
  losses = 0 /\ Cardinality(Queries) <= world.batch => \A q \in Queries : executed[q] <= 1

(* While it keeps its session and rejects nothing, every query finds the    *)
(* queries that it must follow at the server, or before it in its packet:   *)
(* it was not sent while the fate of one of them was unknown.               *)
PredecessorsThere ==
  losses = 0 /\ rejects = 0 /\ out # <<>> =>
    \A i \in DOMAIN Head(out).messages :
      LET m == Head(out).messages[i]
      IN  m.kind = "query" => m.ids \subseteq srv.received \cup {Head(out).messages[j].id : j \in 1..(i - 1)}

(* Every query that is given to a session is returned by it, whatever is    *)
(* lost, refused or forgotten on the way.                                   *)
EveryQueryReturned ==
  \A q \in Queries : q \in s.given ~> s.returned[q] > 0
=============================================================================
