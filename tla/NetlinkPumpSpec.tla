--------------------------- MODULE NetlinkPumpSpec ---------------------------
(***************************************************************************)
(* netlink_parse_info on netlink_cmd at the grain of messages: what the    *)
(* daemon's request/answer exchanges promise, whatever datagrams carry     *)
(* the messages.  The other modules (KernelSync, NetlinkTalk) assume this  *)
(* grain; NetlinkPump shows the datagram loop of the code implements it.   *)
(*                                                                         *)
(* An exchange is netlink_request + netlink_parse_info (a dump: data       *)
(* messages, then NLMSG_DONE) or netlink_talk (one NLMSG_ERROR answer).    *)
(* mq is the stream of messages the daemon will read, in order.            *)
(***************************************************************************)
EXTENDS Integers, Sequences

CONSTANTS
  MaxData,   \* bound on the data messages of a dump
  MaxCalls   \* bound on the exchanges

VARIABLES
  mq,        \* messages on netlink_cmd not read yet
  pc,        \* "idle" or "run" (inside netlink_parse_info)
  ret,       \* netlink_parse_info's local ret
  result,    \* what the last netlink_parse_info returned
  seen,      \* the messages passed to the filter, in order
  calls      \* exchanges started

avars == <<mq, pc, ret, result, seen, calls>>

P == INSTANCE NetlinkParse

\* A data message (RTM_NEWLINK / RTM_NEWADDR of a dump, NLM_F_MULTI): i
\* tells the messages apart, bad is a filter returning -1 on it.
Data(i, bad) == [type |-> "NEWLINK", err |-> 0, req |-> "NONE", multi |-> TRUE,
                 short |-> FALSE, pid |-> 0, i |-> i, bad |-> bad]
Done == [type |-> "DONE", err |-> 0, req |-> "NONE", multi |-> TRUE,
         short |-> FALSE, pid |-> 0, i |-> 0, bad |-> FALSE]
Answer(e) == [type |-> "ERROR", err |-> e, req |-> "NEWADDR", multi |-> FALSE,
              short |-> FALSE, pid |-> 0, i |-> 0, bad |-> FALSE]

\* The kernel's replies: a dump of up to MaxData messages, whose filter
\* may fail on any of them, or the acknowledgement or error of a command.
DumpReplies ==
  UNION {{[j \in 1..n |-> Data(j, b[j])] \o <<Done>> : b \in [1..n -> BOOLEAN]}
           : n \in 0..MaxData}
TalkReplies == {<<Answer(0)>>, <<Answer(-P!EEXIST)>>}

AInit ==
  /\ mq = <<>> /\ pc = "idle" /\ ret = 0 /\ result = 0
  /\ seen = <<>> /\ calls = 0

\* A request is sent and the kernel queues its whole reply.
ACall ==
  /\ pc = "idle" /\ calls < MaxCalls
  /\ \E r \in DumpReplies \cup TalkReplies : mq' = mq \o r
  /\ pc' = "run" /\ ret' = 0 /\ calls' = calls + 1
  /\ UNCHANGED <<result, seen>>

\* One message, as netlink_parse_info decides on it.
AStep ==
  /\ pc = "run" /\ mq # <<>>
  /\ LET h == Head(mq)
         s == P!FrameStep(TRUE, 0, h)
     IN  /\ mq' = Tail(mq)
         /\ CASE s = "done" -> pc' = "idle" /\ result' = ret /\ UNCHANGED <<ret, seen>>
              [] s = "ack"  -> pc' = "idle" /\ result' = 0   /\ UNCHANGED <<ret, seen>>
              [] s = "fail" -> pc' = "idle" /\ result' = -1  /\ UNCHANGED <<ret, seen>>
              [] s = "dispatch" ->
                   /\ seen' = Append(seen, h)
                   /\ ret' = IF h.bad THEN -1 ELSE ret
                   /\ UNCHANGED <<pc, result>>
              [] OTHER -> UNCHANGED <<pc, ret, result, seen>>
  /\ UNCHANGED calls

ANext == ACall \/ AStep

\* netlink_parse_info goes on reading while its reply is queued.
ASpec == AInit /\ [][ANext]_avars /\ WF_avars(AStep)
====
