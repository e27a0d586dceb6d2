------------------------- MODULE SessionConnection -------------------------
(***************************************************************************)
(* td::mtproto::SessionConnection: what waits to be sent over one          *)
(* connection and how it is packed.  Its functions are written as          *)
(* operators on the record c of its fields.  A message has an identifier   *)
(* taken from AuthData's increasing counter; a packet holds one message,   *)
(* or several in a container with an identifier of its own.                *)
(***************************************************************************)
EXTENDS Integers, Sequences, FiniteSets

CONSTANT NoQuery   \* in the place of a query in a service message

(* forced: force_send_at_ # 0; pinged: last_ping_at_ # 0; service maps an   *)
(* identifier to its ServiceQuery; batch queries fit in a packet: 1000, and *)
(* fewer if they are longer than 2^15 bytes together.                       *)
NewConnection(batch) ==
  [to_send |-> <<>>, to_state |-> {}, to_resend |-> {}, to_cancel |-> {}, to_ack |-> {},
   service |-> <<>>, forced |-> FALSE, pinged |-> FALSE, last_ping |-> 0, batch |-> batch]

Message(kind, id, query, ids) == [kind |-> kind, id |-> id, query |-> query, ids |-> ids]

(* A function without some of its arguments, and with one more.             *)
Without(f, S) == [x \in DOMAIN f \ S |-> f[x]]

With(f, x, v) == [y \in DOMAIN f \cup {x} |-> IF y = x THEN v ELSE f[y]]

-----------------------------------------------------------------------------
(* The first of a kind calls send_before.                                   *)
send_query(c, id, query, after) ==
  [c EXCEPT !.to_send = Append(@, Message("query", id, query, after)),
            !.forced  = @ \/ c.to_send = <<>>]

get_state_info(c, id) ==
  [c EXCEPT !.to_state = @ \cup {id}, !.forced = @ \/ c.to_state = {}]

resend_answer(c, id) ==
  [c EXCEPT !.to_resend = @ \cup {id}, !.forced = @ \/ c.to_resend = {}]

cancel_answer(c, id) ==
  [c EXCEPT !.to_cancel = @ \cup {id}, !.forced = @ \/ c.to_cancel = {}]

send_ack(c, id) ==
  [c EXCEPT !.to_ack = @ \cup {id}, !.forced = @ \/ c.to_ack = {}]

HasWork(c) ==
  c.to_send # <<>> \/ c.to_state # {} \/ c.to_resend # {} \/ c.to_cancel # {} \/ c.to_ack # {}

-----------------------------------------------------------------------------
(* The messages of one packet in the order of CryptoImpl; next is the       *)
(* counter, ping tells whether a ping is due.                               *)
BatchSize(c) == IF Len(c.to_send) < c.batch THEN Len(c.to_send) ELSE c.batch

ServiceMessages(c, ping, next) ==
  LET content == [ack    |-> c.to_ack,   state  |-> c.to_state, resend |-> c.to_resend,
                  cancel |-> c.to_cancel, ping  |-> IF ping THEN {0} ELSE {}]
      kinds   == SelectSeq(<<"ack", "state", "resend", "cancel", "ping">>,
                           LAMBDA k : content[k] # {})
  IN  [i \in 1..Len(kinds) |-> Message(kinds[i], next + i - 1, NoQuery, content[kinds[i]])]

Messages(c, ping, next) ==
  SubSeq(c.to_send, 1, BatchSize(c)) \o ServiceMessages(c, ping, next)

(* A message of its own is a packet, unless its identifier is late.         *)
ContainerId(c, ping, late, next) ==
  IF Len(Messages(c, ping, next)) > 1 \/ late
    THEN next + Len(ServiceMessages(c, ping, next)) ELSE 0

Packet(c, ping, late, next) ==
  LET ms  == Messages(c, ping, next)
      cid == ContainerId(c, ping, late, next)
  IN  [id |-> IF cid # 0 THEN cid ELSE ms[1].id, messages |-> ms]

StillForced_Never(rest) == FALSE

(* flush_packet clears force_send_at_ only when to_send_ is empty.          *)
StillForced(rest) == rest # <<>>

(* flush_packet: what the connection remembers of the packet.  What does    *)
(* not fit stays.                                                           *)
AfterFlush(c, ping, late, next) ==
  LET ms   == ServiceMessages(c, ping, next)
      cid  == ContainerId(c, ping, late, next)
      Kept == {i \in DOMAIN ms : ms[i].kind \in {"state", "resend"}}
      rest == SubSeq(c.to_send, BatchSize(c) + 1, Len(c.to_send))
  IN  [to_send |-> rest, to_state |-> {}, to_resend |-> {}, to_cancel |-> {}, to_ack |-> {},
       service |-> [id \in DOMAIN c.service \cup {ms[i].id : i \in Kept} |->
                      IF id \in DOMAIN c.service THEN c.service[id]
                      ELSE LET i == CHOOSE i \in Kept : ms[i].id = id
                           IN  [type |-> ms[i].kind, container |-> cid, ids |-> ms[i].ids]],
       forced  |-> StillForced(rest),
       pinged  |-> c.pinged \/ ping,
       last_ping |-> IF ping THEN Packet(c, ping, late, next).id ELSE c.last_ping,
       batch   |-> c.batch]

(* must_flush_packet: work whose time has come, or the first ping.  Later   *)
(* pings travel with other messages; alone they only bring a pong.          *)
MustFlush(c) == c.forced \/ ~c.pinged

-----------------------------------------------------------------------------
(* on_message_failed, after the callback: a lost ping is due at once, lost  *)
(* service queries are asked again.                                         *)
on_message_failed_inner(c, id) ==
  LET q == c.service[id]
      d == [c EXCEPT !.service = Without(@, {id})]
  IN  CASE q.type = "state"  -> [d EXCEPT !.to_state = @ \cup q.ids, !.forced = @ \/ d.to_state = {}]
        [] q.type = "resend" -> [d EXCEPT !.to_resend = @ \cup q.ids, !.forced = @ \/ d.to_resend = {}]

ServiceOf_Single(c, id) == DOMAIN c.service \cap {id}

(* container_to_service_message_id_, or the message itself.                 *)
ServiceOf(c, id) == {m \in DOMAIN c.service : m = id \/ c.service[m].container = id}

RestartPing(c, id) ==
  IF c.pinged /\ c.last_ping = id THEN [c EXCEPT !.pinged = FALSE, !.last_ping = 0] ELSE c

RECURSIVE FailEach(_, _)
FailEach(c, ids) ==
  IF ids = {} THEN c
  ELSE LET id == CHOOSE x \in ids : \A y \in ids : x <= y
       IN  FailEach(on_message_failed_inner(c, id), ids \ {id})

ConnectionFailed(c, id) == FailEach(RestartPing(c, id), ServiceOf(c, id))

(* new_session_created: the first message stands for its container.         *)
FirstOfService(c, first) ==
  IF first \in DOMAIN c.service THEN c.service[first].container ELSE first
=============================================================================
