----------------------------- MODULE NetlinkPump -----------------------------
(***************************************************************************)
(* The datagram loop of netlink_parse_info (src/detect/rt_netlink.c) on    *)
(* netlink_cmd: recvmsg into a buffer of NL_PKT_BUF_SIZE bytes, walk the   *)
(* messages with NLMSG_OK / NLMSG_NEXT, then the MSG_TRUNC check.  The    *)
(* remnant return (status left over) is not modelled: the kernel sends     *)
(* whole messages, so NLMSG_OK ends a datagram on status 0.  Sizes are counted in messages: the kernel packs up to Cap      *)
(* messages in one datagram (NLMSG_GOODSIZE) and BufMsgs of them fit in    *)
(* the daemon's buffer.  A datagram larger than the buffer arrives with    *)
(* MSG_TRUNC, holding only the messages that fit.                          *)
(*                                                                         *)
(* The module refines NetlinkPumpSpec, the same exchanges read one         *)
(* message at a time.                                                      *)
(***************************************************************************)
EXTENDS Integers, Sequences
LOCAL INSTANCE SequencesExt

CONSTANTS
  MaxData,   \* bound on the data messages of a dump
  MaxCalls,  \* bound on the exchanges
  Cap,       \* messages the kernel packs in one dump datagram
  BufMsgs    \* messages that fit in buf[NL_PKT_BUF_SIZE]

VARIABLES
  dq,        \* datagrams queued on netlink_cmd: [msgs, trunc] as received
  buf,       \* the messages of buf not walked yet
  trunc,     \* msg.msg_flags & MSG_TRUNC of the datagram in buf
  pc,        \* "idle", "recv" (in recvmsg), "walk" (in the for loop)
  ret, result, seen, calls

vars == <<dq, buf, trunc, pc, ret, result, seen, calls>>

A == INSTANCE NetlinkPumpSpec
       WITH mq <- buf \o FlattenSeq([j \in DOMAIN dq |-> dq[j].msgs]),
            pc <- IF pc = "idle" THEN "idle" ELSE "run"

-----------------------------------------------------------------------------
(* The kernel's side: how a reply is cut into datagrams.                   *)

RECURSIVE Chunks(_, _)
Chunks(s, k) ==
  IF s = <<>> THEN <<>>
  ELSE IF Len(s) <= k THEN <<s>>
  ELSE <<SubSeq(s, 1, k)>> \o Chunks(SubSeq(s, k + 1, Len(s)), k)

\* The datagrams of reply r.  An answer travels alone.  A dump's messages
\* fill datagrams of Cap messages; NLMSG_DONE goes into the last one when
\* it has room, unless the kernel sends it apart (alone).
Packets(r, alone) ==
  IF Head(r).type = "ERROR" THEN <<r>>
  ELSE LET cs == Chunks(SubSeq(r, 1, Len(r) - 1), Cap)
       IN  IF alone \/ cs = <<>> \/ Len(cs[Len(cs)]) = Cap
           THEN cs \o <<<<A!Done>>>>
           ELSE [cs EXCEPT ![Len(cs)] = @ \o <<A!Done>>]

\* recvmsg of datagram m into buf: what fits, and MSG_TRUNC.
Received(m) ==
  [msgs |-> IF Len(m) > BufMsgs THEN SubSeq(m, 1, BufMsgs) ELSE m,
   trunc |-> Len(m) > BufMsgs]

-----------------------------------------------------------------------------
(* The daemon.                                                             *)

Init ==
  /\ dq = <<>> /\ buf = <<>> /\ trunc = FALSE /\ pc = "idle"
  /\ ret = 0 /\ result = 0 /\ seen = <<>> /\ calls = 0

\* netlink_request / netlink_talk: the request goes out and
\* netlink_parse_info is entered; the kernel queues the reply's datagrams.
Call ==
  /\ pc = "idle" /\ calls < MaxCalls
  /\ \E r \in A!DumpReplies \cup A!TalkReplies, alone \in BOOLEAN :
       LET ps == Packets(r, alone)
       IN  dq' = dq \o [j \in DOMAIN ps |-> Received(ps[j])]
  /\ pc' = "recv" /\ ret' = 0 /\ calls' = calls + 1
  /\ UNCHANGED <<buf, trunc, result, seen>>

\* status = recvmsg (nl->sock, &msg, 0) on the blocking socket.  EINTR
\* retries and changes nothing; the EOF and sender-length returns need a
\* datagram the kernel does not send (empty, or without a sockaddr_nl).
Recv ==
  /\ pc = "recv" /\ dq # <<>>
  /\ buf' = Head(dq).msgs /\ trunc' = Head(dq).trunc /\ dq' = Tail(dq)
  /\ pc' = "walk"
  /\ UNCHANGED <<ret, result, seen, calls>>

\* Variant: the filter's negative result is not recorded.
DispatchKeepsRet(h) == seen' = Append(seen, h) /\ UNCHANGED ret

\* error = (*filter) (&snl, h): a negative result is recorded in ret.
Dispatch(h) == seen' = Append(seen, h) /\ ret' = IF h.bad THEN -1 ELSE ret

\* One pass of the for loop over the messages of buf.  A return leaves
\* the rest of buf unread.
Walk ==
  /\ pc = "walk" /\ buf # <<>>
  /\ LET h == Head(buf)
         s == A!P!FrameStep(TRUE, 0, h)
         Return(v) == pc' = "idle" /\ result' = v /\ buf' = <<>> /\ UNCHANGED <<ret, seen>>
     IN  CASE s = "done" -> Return(ret)
           [] s = "ack"  -> Return(0)
           [] s = "fail" -> Return(-1)
           [] s = "dispatch" -> Dispatch(h) /\ buf' = Tail(buf) /\ UNCHANGED <<pc, result>>
           [] OTHER -> buf' = Tail(buf) /\ UNCHANGED <<pc, ret, result, seen>>
  /\ UNCHANGED <<dq, trunc, calls>>

\* NLMSG_OK fails at the end of buf.  With MSG_TRUNC the loop logs and
\* reads the next datagram; otherwise nothing is left (status is 0) and
\* the while loop reads the next one as well.
EndOfDatagram ==
  /\ pc = "walk" /\ buf = <<>>
  /\ pc' = "recv"
  /\ UNCHANGED <<dq, buf, trunc, ret, result, seen, calls>>

\* The daemon has no more requests to make.
Rest == pc = "idle" /\ calls = MaxCalls /\ UNCHANGED vars

Next == Call \/ Recv \/ Walk \/ EndOfDatagram \/ Rest

\* netlink_parse_info runs without waiting on anything but recvmsg.
Spec == Init /\ [][Next]_vars /\ WF_vars(Recv) /\ WF_vars(Walk) /\ WF_vars(EndOfDatagram)

-----------------------------------------------------------------------------
(* Properties.                                                             *)

\* The datagram loop implements the message pump: the filter sees the
\* messages of every reply in order and the loop returns what the message
\* pump returns, however the kernel packs the reply into datagrams.
Refines == A!ASpec

\* A netlink_parse_info on the blocking command socket returns (checked
\* in MCNetlinkPump_trunc.cfg, where dump datagrams can exceed the buffer;
\* under Refines it holds by the message pump's own fairness).
PumpReturns == pc # "idle" ~> pc = "idle"
====
