---------------------------- MODULE NetlinkParse ----------------------------
(***************************************************************************)
(* The decision netlink_parse_info (src/detect/rt_netlink.c) takes on one  *)
(* netlink message of a datagram.  A message is a record                   *)
(*   [type, err, req, multi, short, pid]                                   *)
(* type: "DONE", "ERROR" or a data type; for "ERROR": err is the (negated) *)
(* errno of the nlmsgerr, req the type of the request it answers, short   *)
(* whether nlmsg_len is below NLMSG_LENGTH (sizeof (struct nlmsgerr));     *)
(* multi: NLM_F_MULTI; pid: nlmsg_pid.                                     *)
(***************************************************************************)
EXTENDS Integers

ENODEV == 19
ESRCH == 3
EEXIST == 17
EADDRNOTAVAIL == 99

\* The races of link handling tolerated on the command socket: a route
\* delete that finds no device / process, a route add that finds the
\* route there already.
BenignRace(isCmd, h) ==
  /\ isCmd
  /\ \/ h.req = "DELROUTE" /\ -h.err \in {ENODEV, ESRCH}
     \/ h.req = "NEWROUTE" /\ -h.err = EEXIST

\* Variant: every error answer is taken as an acknowledgement.
FrameStepAnyErrorAck(isCmd, cmdPid, h) ==
  CASE h.type = "DONE"                                -> "done"
    [] h.type = "ERROR" /\ h.multi /\ h.err = 0       -> "next"
    [] h.type = "ERROR"                               -> "ack"
    [] ~isCmd /\ h.pid = cmdPid                       -> "skip"
    [] OTHER                                          -> "dispatch"

\* What the loop does with message h:
\*   "done"     return ret (NLMSG_DONE)
\*   "ack"      return 0
\*   "next"     go on with the next message
\*   "fail"     return -1
\*   "skip"     go on without calling the filter (own command's echo)
\*   "dispatch" call the filter, record a negative result in ret
FrameStep(isCmd, cmdPid, h) ==
  CASE h.type = "DONE"                                -> "done"
    [] h.type = "ERROR" /\ h.err = 0 /\ ~h.multi      -> "ack"
    [] h.type = "ERROR" /\ h.err = 0 /\ h.multi       -> "next"
    [] h.type = "ERROR" /\ h.short                    -> "fail"
    [] h.type = "ERROR" /\ BenignRace(isCmd, h)       -> "ack"
    [] h.type = "ERROR"                               -> "fail"
    [] ~isCmd /\ h.pid = cmdPid                       -> "skip"
    [] OTHER                                          -> "dispatch"

-----------------------------------------------------------------------------
(* The socket filter netlink_install_filter attaches to the listener: a   *)
(* classic BPF program the kernel runs on every message before queueing    *)
(* it.  A message here also carries the nlmsg_type as a name (type).       *)

\* nlmsg_type codes of the messages the listener's groups carry.
RTM == [NEWLINK |-> 16, DELLINK |-> 17, NEWADDR |-> 20, DELADDR |-> 21,
        NEWROUTE |-> 24, DELROUTE |-> 25]

\* The host is little-endian: htons / htonl reverse the bytes, and a BPF
\* load reads the host-order header field in network order.
Swap16(v) == (v % 256) * 256 + v \div 256
Swap32(v) == Swap16(v % 65536) * 65536 + Swap16(v \div 65536)

\* BPF_LD|BPF_ABS at offsetof (struct nlmsghdr, nlmsg_type) or nlmsg_pid.
LoadAbs(n, off) == IF off = 4 THEN Swap16(RTM[n.type]) ELSE Swap32(n.pid)

\* Variant: the RTM_DELROUTE test jumps one instruction short when false.
FilterJumpShort(pid) ==
  <<[code |-> "ldh", k |-> 4],
    [code |-> "jeq", k |-> Swap16(RTM.NEWROUTE), jt |-> 1, jf |-> 0],
    [code |-> "jeq", k |-> Swap16(RTM.DELROUTE), jt |-> 0, jf |-> 2],
    [code |-> "ldw", k |-> 12],
    [code |-> "jeq", k |-> Swap32(pid), jt |-> 0, jf |-> 1],
    [code |-> "ret", k |-> 0],
    [code |-> "ret", k |-> 65535]>>

\* The program of netlink_install_filter (sock, pid).
Filter(pid) ==
  <<[code |-> "ldh", k |-> 4],
    [code |-> "jeq", k |-> Swap16(RTM.NEWROUTE), jt |-> 1, jf |-> 0],
    [code |-> "jeq", k |-> Swap16(RTM.DELROUTE), jt |-> 0, jf |-> 3],
    [code |-> "ldw", k |-> 12],
    [code |-> "jeq", k |-> Swap32(pid), jt |-> 0, jf |-> 1],
    [code |-> "ret", k |-> 0],
    [code |-> "ret", k |-> 65535]>>

\* The socket filter run on message n from instruction i with accumulator
\* acc: the number of bytes it keeps (0 drops n).  Jumps are relative to
\* the next instruction.
RECURSIVE BpfRun(_, _, _, _)
BpfRun(prog, i, acc, n) ==
  LET ins == prog[i + 1]
  IN  CASE ins.code \in {"ldh", "ldw"} -> BpfRun(prog, i + 1, LoadAbs(n, ins.k), n)
        [] ins.code = "jeq" ->
             BpfRun(prog, i + 1 + (IF acc = ins.k THEN ins.jt ELSE ins.jf), acc, n)
        [] ins.code = "ret" -> ins.k
=============================================================================
