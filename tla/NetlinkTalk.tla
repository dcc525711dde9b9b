----------------------------- MODULE NetlinkTalk -----------------------------
(***************************************************************************)
(* The command path of src/detect/rt_netlink.c: kernel_address_add_ipv4 /  *)
(* kernel_address_delete_ipv4 build a request in netlink_address and send *)
(* it with netlink_talk on netlink_cmd, which then blocks in               *)
(* netlink_parse_info until the kernel's acknowledgement or error.         *)
(*                                                                         *)
(* The request names the interface by the ifindex of the daemon's table,   *)
(* which may be stale: other processes change the kernel's links and       *)
(* addresses concurrently.  The kernel's answer to RTM_NEWADDR and         *)
(* RTM_DELADDR follows Linux: -ENODEV without the link, -EEXIST for an     *)
(* address already there, -EADDRNOTAVAIL for one that is not.              *)
(*                                                                         *)
(* Every change the kernel makes is also multicast to the listener socket  *)
(* (netlink), through the BPF program netlink_install_filter attached to  *)
(* it, and read by kernel_read with the own-pid skip of netlink_parse_info.*)
(***************************************************************************)
EXTENDS Integers, Sequences
LOCAL INSTANCE SequencesExt

CONSTANTS
  Indexes,     \* kernel ifindex values
  Addrs,       \* IPv4 addresses
  MaxCalls,    \* bound on the commands the daemon issues
  MaxOthers,   \* bound on changes made by other processes
  CmdPid,      \* netlink_cmd.snl.nl_pid, as getsockname returned it
  Origins      \* nlmsg_pid of changes not made by the daemon: 0 (the kernel)
               \* and the portids of other processes

ASSUME CmdPid \in 1..127 /\ Origins \subseteq 0..127 /\ CmdPid \notin Origins

VARIABLES
  klinks,      \* the kernel's live link indexes
  kaddr,       \* the kernel's addresses: [idx, addr] records
  others,      \* changes made by other processes so far
  calls,       \* commands issued so far
  pc,          \* "idle", "sent" (blocked in netlink_parse_info), "done"
  req,         \* the request of the current command
  kin,         \* requests sent and not yet handled by the kernel
  cq,          \* messages queued on netlink_cmd
  last,        \* the message netlink_parse_info returned on
  result,      \* what netlink_talk returned
  lq,          \* notifications queued on the listener, past its BPF filter
  notes,       \* every notification the kernel multicast, in order
  heard        \* the notifications handed to netlink_information_fetch

vars == <<klinks, kaddr, others, calls, pc, req, kin, cq, last, result, lq, notes, heard>>

P == INSTANCE NetlinkParse

Request == [type: {"NEWADDR", "DELADDR"}, idx: Indexes, addr: Addrs]

Reply == [type: {"ERROR"}, err: {0, -P!ENODEV, -P!EEXIST, -P!EADDRNOTAVAIL},
          req: {"NEWADDR", "DELADDR"}, multi: {FALSE}, short: {FALSE}, pid: {0},
          holds: BOOLEAN]

NoReq == [type |-> "NONE"]

NoAddr == "none"

\* A multicast notification: nlmsg_type, nlmsg_pid and what changed.
Note == [type: {"NEWADDR", "DELADDR", "DELLINK", "NEWROUTE", "DELROUTE"},
         pid: Origins \cup {CmdPid}, idx: Indexes, addr: Addrs \cup {NoAddr}]

TypeOK ==
  /\ klinks \subseteq Indexes
  /\ kaddr \subseteq [idx: Indexes, addr: Addrs]
  /\ others \in 0..MaxOthers /\ calls \in 0..MaxCalls
  /\ pc \in {"idle", "sent", "done"}
  /\ req \in Request \cup {NoReq}
  /\ kin \in Seq(Request) /\ cq \in Seq(Reply)
  /\ last \in Reply \cup {NoReq}
  /\ result \in {0, -1}
  /\ lq \in Seq(Note) /\ notes \in Seq(Note) /\ heard \in Seq(Note)

-----------------------------------------------------------------------------
(* The daemon.                                                             *)

\* kernel_address_add_ipv4 / kernel_address_delete_ipv4 -> netlink_address
\* -> netlink_talk: the sequence number and NLM_F_ACK are set, then
\* sendmsg; a failing sendmsg is logged and -1 returned.
Call ==
  /\ pc # "sent" /\ calls < MaxCalls
  /\ calls' = calls + 1
  /\ \E r \in Request :
       /\ req' = r
       /\ \/ pc' = "sent" /\ kin' = Append(kin, r) /\ result' = result
          \/ pc' = "done" /\ kin' = kin /\ result' = -1
  /\ last' = NoReq
  /\ UNCHANGED <<klinks, kaddr, others, cq, lq, notes, heard>>

\* Variant: an error answer does not end the loop.
ReceiveErrorsContinue ==
  /\ pc = "sent" /\ cq # <<>>
  /\ LET h == Head(cq)
         s == P!FrameStep(TRUE, 0, h)
     IN  /\ cq' = Tail(cq)
         /\ \/ s = "ack"  /\ pc' = "done" /\ result' = 0  /\ last' = h
            \/ s = "fail" /\ UNCHANGED <<pc, result, last>>
  /\ UNCHANGED <<klinks, kaddr, others, calls, req, kin, lq, notes, heard>>

\* netlink_parse_info (netlink_talk_filter, &netlink_cmd), one message.
\* netlink_cmd joins no multicast group and the requests carry no
\* NLM_F_ECHO, so only the kernel's answer reaches it during a talk: the
\* "next" and "dispatch" outcomes of the loop do not occur here.
Receive ==
  /\ pc = "sent" /\ cq # <<>>
  /\ LET h == Head(cq)
         s == P!FrameStep(TRUE, 0, h)
     IN  /\ cq' = Tail(cq)
         /\ \/ s = "ack"  /\ pc' = "done" /\ result' = 0  /\ last' = h
            \/ s = "fail" /\ pc' = "done" /\ result' = -1 /\ last' = h
  /\ UNCHANGED <<klinks, kaddr, others, calls, req, kin, lq, notes, heard>>

-----------------------------------------------------------------------------
(* The listener.                                                           *)

\* kernel_init installs the filter with netlink_cmd's pid.
ListenerFilter == P!Filter(CmdPid)

Kept(n) == P!BpfRun(ListenerFilter, 0, 0, n) # 0

\* kernel_read -> netlink_parse_info (netlink_information_fetch, &netlink),
\* one message: a message from netlink_cmd's pid is skipped, any other is
\* handed to netlink_information_fetch.  kernel_read is a callback of the
\* event loop, which does not run while netlink_talk blocks.
Listen ==
  /\ pc # "sent" /\ lq # <<>>
  /\ LET h == Head(lq)
     IN  heard' = IF P!FrameStep(FALSE, CmdPid, h) = "dispatch"
                  THEN Append(heard, h) ELSE heard
  /\ lq' = Tail(lq)
  /\ UNCHANGED <<klinks, kaddr, others, calls, pc, req, kin, cq, last, result, notes>>

-----------------------------------------------------------------------------
(* The kernel.                                                             *)

\* holds is not part of the message: it records whether, once the kernel
\* has handled r, its state is what r asked for.
Answer(r, e, holds) == [type |-> "ERROR", err |-> e, req |-> r.type, multi |-> FALSE,
                        short |-> FALSE, pid |-> 0, holds |-> holds]

Notice(t, o, k, a) == [type |-> t, pid |-> o, idx |-> k, addr |-> a]

\* The kernel multicasts notifications ns: every one is recorded, and those
\* the listener's filter keeps are queued on it.
Multicast(ns) == notes' = notes \o ns /\ lq' = lq \o SelectSeq(ns, Kept)

\* The kernel handles the oldest request and queues its answer; a change
\* it makes is notified with the requester's pid, netlink_cmd's.
Serve ==
  /\ kin # <<>>
  /\ LET r == Head(kin)
         x == [idx |-> r.idx, addr |-> r.addr]
         e == CASE r.idx \notin klinks                   -> -P!ENODEV
                [] r.type = "NEWADDR" /\ x \in kaddr     -> -P!EEXIST
                [] r.type = "DELADDR" /\ x \notin kaddr  -> -P!EADDRNOTAVAIL
                [] OTHER                                 -> 0
         k2 == IF e # 0 THEN kaddr
               ELSE IF r.type = "NEWADDR" THEN kaddr \cup {x} ELSE kaddr \ {x}
     IN  /\ kaddr' = k2
         /\ cq' = Append(cq, Answer(r, e, (r.type = "NEWADDR") = (x \in k2)))
         /\ Multicast(IF e # 0 THEN <<>> ELSE <<Notice(r.type, CmdPid, r.idx, r.addr)>>)
  /\ kin' = Tail(kin)
  /\ UNCHANGED <<klinks, others, calls, pc, req, last, result, heard>>

\* Another process, or the kernel itself (origin o), deletes a link (its
\* addresses go first, notified by the kernel), adds or removes an address,
\* or changes a route.
Other ==
  /\ others < MaxOthers
  /\ others' = others + 1
  /\ \E o \in Origins :
       \/ \E k \in klinks :
            LET gone == SetToSeq({x \in kaddr : x.idx = k})
            IN  /\ klinks' = klinks \ {k}
                /\ kaddr' = {x \in kaddr : x.idx # k}
                /\ Multicast([j \in DOMAIN gone |-> Notice("DELADDR", 0, k, gone[j].addr)]
                              \o <<Notice("DELLINK", o, k, NoAddr)>>)
       \/ \E k \in klinks, a \in Addrs :
            /\ [idx |-> k, addr |-> a] \notin kaddr
            /\ kaddr' = kaddr \cup {[idx |-> k, addr |-> a]}
            /\ Multicast(<<Notice("NEWADDR", o, k, a)>>)
            /\ UNCHANGED klinks
       \/ \E x \in kaddr :
            /\ kaddr' = kaddr \ {x}
            /\ Multicast(<<Notice("DELADDR", o, x.idx, x.addr)>>)
            /\ UNCHANGED klinks
       \/ \E k \in klinks, t \in {"NEWROUTE", "DELROUTE"} :
            /\ Multicast(<<Notice(t, o, k, NoAddr)>>)
            /\ UNCHANGED <<klinks, kaddr>>
  /\ UNCHANGED <<calls, pc, req, kin, cq, last, result, heard>>

Init ==
  /\ klinks = Indexes /\ kaddr = {} /\ others = 0 /\ calls = 0
  /\ pc = "idle" /\ req = NoReq /\ kin = <<>> /\ cq = <<>>
  /\ last = NoReq /\ result = 0
  /\ lq = <<>> /\ notes = <<>> /\ heard = <<>>

\* The kernel and the other processes are at rest: every request has been
\* answered, and nothing else changes until the daemon issues a command.
Rest ==
  /\ others = MaxOthers /\ kin = <<>> /\ cq = <<>> /\ lq = <<>>
  /\ UNCHANGED vars

Next == Call \/ Receive \/ Listen \/ Serve \/ Other \/ Rest

\* The kernel answers every request; netlink_parse_info reads what is
\* queued; kernel_read is re-armed after every pass (thread_add_read).
Spec == Init /\ [][Next]_vars /\ WF_vars(Serve) /\ WF_vars(Receive) /\ WF_vars(Listen)

-----------------------------------------------------------------------------
(* Properties.                                                             *)

\* netlink_talk reports success only when the kernel's state is what the
\* command asked for at the moment the kernel answered: the address is
\* there after an add, gone after a delete.
OkMeansApplied ==
  (pc = "done" /\ last # NoReq /\ result = 0) => last.holds

\* A blocked netlink_talk returns: it has no timeout, so this rests on the
\* kernel answering every request it is sent.
TalkReturns == pc = "sent" ~> pc = "done"

\* P4 of spec.md: a command whose failure is a benign race completes as
\* success: a delete answered "no such device" / "no such process", an
\* add answered "already exists" (the race list of netlink_parse_info).
RaceTolerated ==
  (pc = "done" /\ last # NoReq /\
     \/ last.req = "DELADDR" /\ -last.err \in {P!ENODEV, P!ESRCH}
     \/ last.req = "NEWADDR" /\ -last.err = P!EEXIST)
  => result = 0

NotOwn(n) == n.pid # CmdPid

\* netlink_install_filter and the own-pid skip of netlink_parse_info
\* together: the listener hands netlink_information_fetch every change
\* the kernel and other processes made, in the order the kernel made
\* them, and none of those the daemon's own commands caused.
ListenerHearsOthers == heard \o SelectSeq(lq, NotOwn) = SelectSeq(notes, NotOwn)
=============================================================================
