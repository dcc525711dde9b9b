----------------------------- MODULE KernelSync -----------------------------
(***************************************************************************)
(* The kernel synchronisation engine of src/detect/rt_netlink.c as a       *)
(* whole: the kernel's links and addresses, the listener socket bound to   *)
(* the link and address groups by kernel_init, the command socket that     *)
(* carries the three bootstrap dumps of interface_lookup_netlink, and the   *)
(* daemon's handlers (LinkReconciler, AddrReconciler) fed by              *)
(* netlink_parse_info.                                                     *)
(*                                                                         *)
(* The listener is bound before the dumps are requested (ha_kroute_init    *)
(* calls kernel_init first), so every kernel change after the daemon       *)
(* starts is queued on it; the daemon reads it only once the bootstrap is  *)
(* over and the event loop of main runs kernel_read.  A dump is answered   *)
(* with a snapshot of the kernel state when it is requested.  Each         *)
(* datagram carries one netlink message.                                   *)
(***************************************************************************)
EXTENDS Integers, Sequences, SequencesExt

CONSTANTS Names, Indexes, HwAddrs, NoName, KeepIndexOnDelete, Families, Addrs,
          InitLinks,     \* the kernel's links when the daemon starts
          InitAddrs,     \* and their addresses
          InitNext,      \* the first index no link has had yet
          AllowRename,   \* may the kernel rename a link?
          RcvBuf,        \* messages the listener's receive buffer holds
          SockMayFail,   \* may netlink_socket fail in kernel_init?
          MaxKernelOps,  \* bound on kernel changes after the start
          CmdPid,        \* the nl_pid getsockname gives netlink_cmd
          Origins        \* nlmsg_pid of the kernel's changes: 0 for the
                         \* kernel's own, a portid for other processes'

VARIABLES
  kl, ka, kops,          \* kernel: index -> name, addresses, changes made
  knext,                 \* the index the kernel gives the next new link
  lq, overrun,           \* listener: queued messages, ENOBUFS pending
  cq, asked, ret, boot,  \* command socket, dump outstanding, parse result
  tab, view, out, conn,  \* the daemon's interface table and addresses
  lsock, csock           \* kernel_init opened the listener / command socket

kernel == <<kl, ka, kops, knext, lsock, csock>>
daemon == <<tab, view, out, conn>>
vars == <<kl, ka, kops, knext, lsock, csock, lq, overrun, cq, asked, ret, boot, tab, view, out, conn>>

A == INSTANCE AddrReconciler WITH phase <- boot
L == INSTANCE LinkReconciler WITH phase <- boot
P == INSTANCE NetlinkParse

ASSUME InitLinks \in [Indexes -> Names \cup {NoName}]
ASSUME InitAddrs \subseteq [idx: Indexes, fam: A!IpFamilies, addr: Addrs]
ASSUME RcvBuf \in Nat /\ MaxKernelOps \in Nat
ASSUME SockMayFail \in BOOLEAN
ASSUME CmdPid \in 1..127 /\ Origins \subseteq 0..127 /\ CmdPid \notin Origins

LinkNames == {kl[k] : k \in Indexes} \ {NoName}

NewLink(n, k, o) == [type |-> "NEWLINK", name |-> n, index |-> k, flags |-> L!Flag,
                     hw |-> "absent", wless |-> FALSE, pid |-> o]
DelLink(n, o) == [type |-> "DELLINK", name |-> n, wless |-> FALSE, pid |-> o]
AddrMsg(t, x, o) == [type |-> t, fam |-> x.fam, index |-> x.idx, addr |-> x.addr, pid |-> o]
Done == [type |-> "DONE"]

IsLinkMsg(h) == h.type \in {"NEWLINK", "DELLINK"}

TypeOK ==
  /\ kl \in [Indexes -> Names \cup {NoName}]
  /\ ka \subseteq [idx: Indexes, fam: A!IpFamilies, addr: Addrs]
  /\ kops \in 0..MaxKernelOps
  /\ knext \in Nat
  /\ lsock \in BOOLEAN /\ csock \in BOOLEAN
  /\ Len(lq) <= RcvBuf /\ overrun \in BOOLEAN
  /\ asked \in BOOLEAN /\ ret \in {0, -1}
  /\ boot \in {"link", "v4", "v6", "run"}
  /\ L!TypeOK /\ A!ConnTypeOK

-----------------------------------------------------------------------------
(* The kernel.  A change is multicast to the listener, through the BPF    *)
(* filter kernel_init installed with netlink_cmd's nl_pid: still 0 when    *)
(* netlink_socket failed for netlink_cmd.  What does not fit in the        *)
(* receive buffer is dropped and the socket reports ENOBUFS.               *)

CmdNlPid == IF csock THEN CmdPid ELSE 0

Kept(m) == P!BpfRun(P!Filter(CmdNlPid), 0, 0, m) # 0

Multicast(msgs) ==
  LET s == IF lsock THEN lq \o SelectSeq(msgs, Kept) ELSE lq
  IN  /\ lq' = IF Len(s) <= RcvBuf THEN s ELSE SubSeq(s, 1, RcvBuf)
      /\ overrun' = (overrun \/ Len(s) > RcvBuf)

KernelStep(kl2, ka2, msgs) ==
  /\ kops < MaxKernelOps
  /\ kops' = kops + 1
  /\ kl' = kl2 /\ ka' = ka2 /\ UNCHANGED <<lsock, csock>>
  /\ Multicast(msgs)
  /\ UNCHANGED <<cq, asked, ret, boot, tab, view, out, conn>>

\* The kernel hands out ifindex values in increasing order and does not
\* reuse one (dev_new_index); a new link takes knext.
KCreate ==
  \E n \in Names \ LinkNames, o \in Origins :
    /\ knext \in Indexes
    /\ knext' = knext + 1
    /\ KernelStep([kl EXCEPT ![knext] = n], ka, <<NewLink(n, knext, o)>>)

\* Deleting a link withdraws its addresses first (RTM_DELADDR each, sent
\* by the kernel itself).
KDelete ==
  \E k \in Indexes, o \in Origins :
    LET gone == {x \in ka : x.idx = k}
    IN  /\ kl[k] # NoName
        /\ knext' = knext
        /\ KernelStep([kl EXCEPT ![k] = NoName], ka \ gone,
                      [i \in 1..Cardinality(gone) |-> AddrMsg("DELADDR", SetToSeq(gone)[i], 0)]
                        \o <<DelLink(kl[k], o)>>)

KRename ==
  \E k \in Indexes, n \in Names \ LinkNames, o \in Origins :
    /\ AllowRename
    /\ kl[k] # NoName
    /\ knext' = knext
    /\ KernelStep([kl EXCEPT ![k] = n], ka, <<NewLink(n, k, o)>>)

KAddAddr ==
  \E k \in Indexes, f \in A!IpFamilies, a \in Addrs, o \in Origins :
    LET x == [idx |-> k, fam |-> f, addr |-> a]
    IN  /\ kl[k] # NoName /\ x \notin ka
        /\ knext' = knext
        /\ KernelStep(kl, ka \cup {x}, <<AddrMsg("NEWADDR", x, o)>>)

KDelAddr ==
  \E x \in ka, o \in Origins :
    knext' = knext /\ KernelStep(kl, ka \ {x}, <<AddrMsg("DELADDR", x, o)>>)

-----------------------------------------------------------------------------
(* The bootstrap: interface_lookup_netlink.                                *)

\* The dump a netlink_request of the current bootstrap stage is answered
\* with, addressed to netlink_cmd.
DumpOf(stage) ==
  IF stage = "link"
  THEN LET ks == SetToSeq({k \in Indexes : kl[k] # NoName})
       IN  [i \in 1..Len(ks) |-> NewLink(kl[ks[i]], ks[i], CmdPid)]
  ELSE LET xs == SetToSeq({x \in ka : x.fam = stage})
       IN  [i \in 1..Len(xs) |-> AddrMsg("NEWADDR", xs[i], CmdPid)]

\* netlink_request on netlink_cmd; the kernel queues the dump and NLMSG_DONE.
Request ==
  /\ boot # "run" /\ ~asked /\ csock
  /\ asked' = TRUE
  /\ cq' = DumpOf(boot) \o <<Done>>
  /\ ret' = 0
  /\ UNCHANGED <<kernel, lq, overrun, boot, daemon>>

NextStage == [link |-> "v4", v4 |-> "v6", v6 |-> "run"]

\* netlink_request without a command socket ("socket isn't active"):
\* -1, and interface_lookup_netlink returns it; ha_kroute_init ignores it.
RequestFails ==
  /\ boot # "run" /\ ~asked /\ ~csock
  /\ ret' = -1 /\ boot' = "run"
  /\ UNCHANGED <<kernel, lq, overrun, cq, asked, daemon>>

\* netlink_parse_info reaches NLMSG_DONE and returns ret; on a negative
\* result interface_lookup_netlink returns at once, and ha_kroute_init
\* ignores what it returns: the daemon goes on to its event loop.
DumpDone ==
  /\ asked /\ cq # <<>> /\ Head(cq).type = "DONE"
  /\ cq' = Tail(cq)
  /\ asked' = FALSE
  /\ boot' = IF ret < 0 THEN "run" ELSE NextStage[boot]
  /\ UNCHANGED <<kernel, lq, overrun, ret, daemon>>

\* One message of the link dump, handed to netlink_interface.  A dumped
\* link always has a name and is no wireless event, so the handler takes
\* its update path and returns 0.
DumpLink ==
  /\ asked /\ boot = "link" /\ cq # <<>> /\ Head(cq).type # "DONE"
  /\ L!InterfaceDump(Head(cq))
  /\ cq' = Tail(cq)
  /\ UNCHANGED <<kernel, lq, overrun, asked, ret, boot, conn>>

\* One message of an address dump, handed to netlink_interface_addr.
DumpAddr ==
  /\ asked /\ boot \in {"v4", "v6"} /\ cq # <<>> /\ Head(cq).type # "DONE"
  /\ LET h == Head(cq) IN
       /\ \/ A!InterfaceAddr(h)
          \/ (A!AddrIgnores(h) \/ A!AddrUnknown(h)) /\ UNCHANGED conn
       /\ ret' = IF A!AddrHandlerRet(h) < 0 THEN A!AddrHandlerRet(h) ELSE ret
  /\ cq' = Tail(cq)
  /\ out' = <<>>
  /\ UNCHANGED <<kernel, lq, overrun, asked, boot, tab, view>>

-----------------------------------------------------------------------------
(* The event loop: kernel_read drains the listener with                    *)
(* netlink_parse_info (netlink_information_fetch, &netlink).               *)

\* recvmsg fails with ENOBUFS: logged as an overrun, the loop goes on.
ListenOverrun ==
  /\ boot = "run" /\ overrun
  /\ overrun' = FALSE
  /\ out' = <<>>
  /\ UNCHANGED <<kernel, lq, cq, asked, ret, boot, tab, view, conn>>

\* The message is from netlink_cmd's pid: skipped (netlink_parse_info).
ListenSkip ==
  /\ boot = "run" /\ ~overrun /\ lq # <<>>
  /\ P!FrameStep(FALSE, CmdNlPid, Head(lq)) = "skip"
  /\ lq' = Tail(lq)
  /\ out' = <<>>
  /\ UNCHANGED <<kernel, overrun, cq, asked, ret, boot, tab, view, conn>>

Dispatched(h) == P!FrameStep(FALSE, CmdNlPid, h) = "dispatch"

ListenLink ==
  /\ boot = "run" /\ ~overrun /\ lq # <<>> /\ IsLinkMsg(Head(lq)) /\ Dispatched(Head(lq))
  /\ LET h == Head(lq) IN
       \/ L!LinkChange(h)
       \/ L!LinkChangeIgnores(h) /\ out' = <<>> /\ UNCHANGED <<tab, view>>
  /\ lq' = Tail(lq)
  /\ UNCHANGED <<kernel, overrun, cq, asked, ret, boot, conn>>

ListenAddr ==
  /\ boot = "run" /\ ~overrun /\ lq # <<>> /\ ~IsLinkMsg(Head(lq)) /\ Dispatched(Head(lq))
  /\ LET h == Head(lq) IN
       \/ A!InterfaceAddr(h)
       \/ (A!AddrIgnores(h) \/ A!AddrUnknown(h)) /\ UNCHANGED conn
  /\ lq' = Tail(lq)
  /\ out' = <<>>
  /\ UNCHANGED <<kernel, overrun, cq, asked, ret, boot, tab, view>>

Quiescent == boot = "run" /\ lq = <<>> /\ ~overrun

\* The event loop waits in thread_fetch once the kernel has nothing to say.
Idle ==
  /\ Quiescent /\ kops = MaxKernelOps
  /\ UNCHANGED vars

-----------------------------------------------------------------------------
Init ==
  /\ kl = InitLinks /\ ka = InitAddrs /\ kops = 0
  /\ knext = InitNext
  /\ lsock \in IF SockMayFail THEN BOOLEAN ELSE {TRUE}
  /\ csock \in IF SockMayFail THEN BOOLEAN ELSE {TRUE}
  /\ lq = <<>> /\ overrun = FALSE
  /\ cq = <<>> /\ asked = FALSE /\ ret = 0 /\ boot = "link"
  /\ tab = [n \in Names |-> L!NoEntry]
  /\ view = [n \in Names |-> "absent"]
  /\ out = <<>> /\ conn = {}

Kernel == KCreate \/ KDelete \/ KRename \/ KAddAddr \/ KDelAddr

Daemon == Request \/ RequestFails \/ DumpDone \/ DumpLink \/ DumpAddr
          \/ ListenOverrun \/ ListenSkip \/ ListenLink \/ ListenAddr

Next == Kernel \/ Daemon \/ Idle

\* The bootstrap runs straight through, and kernel_read re-arms itself
\* after every pass, so a readable listener is always read again.
Fairness == WF_vars(Daemon)

Spec == Init /\ [][Next]_vars /\ Fairness

-----------------------------------------------------------------------------
(* Properties.                                                             *)

\* The daemon's links are the kernel's: exactly the kernel's link names are
\* active, each bound to the kernel's index for it.
LinksAgree ==
  /\ \A n \in Names : tab[n].st = "active" <=> n \in LinkNames
  /\ \A k \in Indexes : kl[k] # NoName => tab[kl[k]].idx = k

\* The connected addresses of every active interface are the kernel's
\* addresses on its index.
AddrOf(n) == {[fam |-> c.fam, addr |-> c.addr] : c \in {c \in conn : c.name = n}}
KAddrOf(k) == {[fam |-> x.fam, addr |-> x.addr] : x \in {x \in ka : x.idx = k}}

AddrsAgree ==
  \A n \in Names : tab[n].st = "active" => AddrOf(n) = KAddrOf(tab[n].idx)

\* spec.md section 1: once the bootstrap is over and the listener has been
\* drained, the interface table matches the kernel's links (dump and
\* replayed events together, set_ifindex's rename handling included).
LinkSync == Quiescent => LinksAgree

\* The same for addresses: the bootstrap's RTM_GETADDR dumps and the
\* replayed RTM_NEWADDR / RTM_DELADDR leave every active interface with
\* exactly the kernel's addresses.
AddrSync == Quiescent => AddrsAgree

\* No address is made up: every connected address of an active interface
\* is on the kernel's link of that index once the daemon is quiescent.
NoPhantomAddr ==
  Quiescent => \A n \in Names : tab[n].st = "active" => AddrOf(n) \subseteq KAddrOf(tab[n].idx)

\* Once the kernel stops changing, the daemon ends the bootstrap, drains
\* the listener and from then on agrees with the kernel.
EventuallyInSync == <>[](Quiescent /\ LinksAgree)
=============================================================================
