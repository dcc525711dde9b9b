# TLA+ models of the HA daemon's kernel interface tracking

These modules model the part of the HA daemon that keeps its picture of the
kernel's network interfaces: the netlink code in `src/detect/rt_netlink.c`,
with its bootstrap in `src/detect/ha_kroute.c`. They also model the timer
helpers of `src/ha_debug.c`. TLC checks the models. Each
definition is written from the C source. The few library functions the
repository declares but does not contain are written from `spec.md`. The
`map` in `PROJECT.json` gives the lines every definition translates.

## The system

The daemon (`src/ha_main.c`) initialises, then runs a single-threaded event
loop (`thread_fetch` / `thread_call`). Its kernel-tracking core works as follows.

* **Transport sockets.** `kernel_init` opens two netlink sockets:
  * `netlink`, the listener. It is bound to the link and address multicast
    groups and is non-blocking.
  * `netlink_cmd`, the command socket. It is blocking.

  `kernel_init` ignores the failure of either socket. A `netlink_socket` that
  fails leaves `sock` at -1 and `snl`, with its `nl_pid`, zeroed.
* **Self-traffic filter.** `kernel_init` attaches a BPF program
  (`netlink_install_filter`) to the listener, built with `netlink_cmd`'s
  `nl_pid`. It drops route messages carrying that pid and keeps everything
  else. Behind it, `netlink_parse_info` skips any listener message whose
  `nlmsg_pid` is `netlink_cmd`'s.
* **Message pump.** `netlink_parse_info` reads datagrams and takes a decision
  on every message:
  * `NLMSG_DONE` ends the loop with the handler's worst result.
  * An ACK ends it with 0 (a multi-part ACK goes on to the next message).
  * An error ends it with -1, unless the message is one of the benign races
    on the command socket.
  * A message from the daemon's own command socket is skipped on the listener.
  * Anything else goes to a handler. A negative handler result is recorded and
    the loop goes on.
  * `ENOBUFS` (an overrun) is logged and the loop continues.
* **Bootstrap.** `ha_kroute_init` calls `kernel_init`, then
  `interface_lookup_netlink`. That function requests three dumps on the
  command socket: links, IPv4 addresses, IPv6 addresses. It returns at the
  first failure, and `ha_kroute_init` ignores the result.
* **Interface reconciler.** Two handlers write the interface table:
  `netlink_interface` (link dump) and `netlink_link_change` (listener).
  * `set_ifindex` evicts the entry that holds an index another name now
    reports (rename displacement).
  * The status path of `netlink_link_change` tests "operative" on the old
    flags and then calls `if_down`, `if_up` or `kroute_interface_up_update`.
* **Address handler.** `netlink_interface_addr` finds the interface by index.
  It returns -1 for an unknown index. Otherwise it adds or deletes a
  connected address.
* **Commands.** `kernel_address_add_ipv4` / `_delete_ipv4` build a request
  with `netlink_address`, using the codec. `netlink_talk` sends it and then
  blocks in `netlink_parse_info` on the command socket until the kernel answers.
* **Attribute codec.** `addattr_l` / `addattr32` append `rtattr` records.
  `rta_addattr_l` appends subattributes to a container attribute.
  `netlink_parse_rtattr` walks them. `netlink_interface_addr` derives the
  local, peer and broadcast addresses from the parsed table.
* **Datagrams.** `netlink_parse_info` reads one datagram at a time into a
  4096-byte buffer (`NL_PKT_BUF_SIZE`) and walks the messages in it. A
  datagram larger than the buffer arrives cut, with `MSG_TRUNC`. The loop
  logs this and reads the next datagram. The messages past the cut are lost.
* **Timers.** `tv_add`, `tv_sub` and `tv_adjust` do timeval arithmetic.
  `ha_timer_dump` prints the time a timer has left.

## Modules

| Module | Models | State ↔ code |
|---|---|---|
| `LinkReconciler` | `set_ifindex`, `netlink_interface_update_hw_addr`, `netlink_interface`, `netlink_link_change` and the `if_*` table functions | `tab[name]` is the `struct interface`: status, `ifindex`, flags, hw address. `view` is what the `kroute_*`/`if_*` notifications told the routing collaborator. `out` holds the notifications of the last step. |
| `AddrReconciler` | `netlink_interface_addr` | `conn` is the set of connected addresses (interface, family, local address). |
| `KernelSync` | the whole engine: kernel, both sockets, filter, bootstrap, event loop | `kl`/`ka` are the kernel's links and addresses. `lq`/`overrun` are the listener's receive queue and pending ENOBUFS. `cq` is the command socket's queue. `boot` is the stage of `interface_lookup_netlink`. `ret` is the pump's result. `lsock`/`csock` are the outcomes of `kernel_init`. `CmdNlPid` is `netlink_cmd`'s `nl_pid`, which is 0 when `csock` failed. It instances the two reconcilers. |
| `NetlinkParse` | the per-message decision of `netlink_parse_info`, and the BPF program of `netlink_install_filter` with an interpreter for it (`BpfRun`) | operators only. A BPF load reads a header field in network order from a little-endian host, and the program's constants go through `htons`/`htonl`. Both are modelled as byte swaps. |
| `NetlinkTalk` | `netlink_address` → `netlink_talk` → `netlink_parse_info` on `netlink_cmd`, against a kernel that other processes change concurrently. Also the listener: the kernel's multicast of each change, the filter, and `kernel_read` with the own-pid skip | `pc` is idle, blocked or returned. `kin`/`cq` are the request and answer queues. `result` is the return of `netlink_talk`. `notes` is every notification multicast. `lq` holds those the filter kept, still queued. `heard` holds those handed to `netlink_information_fetch`. |
| `AttrCodec` | a request started as `netlink_address` starts one, then any sequence of `addattr_l`, `addattr32`, `rta_addattr_l`, `netlink_parse_rtattr`, the address derivation of `netlink_interface_addr` | `nlmsg_len` is the message length. `hdr` maps each offset to the `rtattr` header written there, and `payload` maps it to the value `memcpy` copied in. `rta_len` and `sub` are the same for one container attribute. `InterfaceAddrDerive` is lines 560-585 as an operator on the parsed table. |
| `NetlinkPumpSpec` | `netlink_parse_info` on `netlink_cmd`, one message at a time: the grain `KernelSync` and `NetlinkTalk` use | `mq` is the stream of messages still to read. `pc` is idle or running. `ret`/`result` are the loop's `ret` and its return. `seen` is what the filter was given. |
| `NetlinkPump` | the datagram loop of `netlink_parse_info`: `recvmsg`, the `NLMSG_OK` walk, `MSG_TRUNC` (the remnant return is not modelled: the kernel sends whole messages) | `dq` holds the datagrams queued, as `recvmsg` would deliver them. `buf` holds the messages of the current datagram not yet walked. `trunc` is its `MSG_TRUNC`. `pc` is idle, in `recvmsg` or walking. The kernel cuts a reply into datagrams of `Cap` messages, and `BufMsgs` fit the buffer. |
| `TimeVal` | `tv_adjust`, `tv_add`, `tv_sub`, `int2tv`, `tv_ceil`, `tv_floor`, `tv_cmp`, `ha_timeval_dump`, `ha_timer_dump` | `now` is the relative clock and `sands` a timer's expiry, both `[sec, usec]`. `last` is the last dump: the format chosen and the fields printed. |

Every `MC*` module gives small model values to a module's constants.

Each action models a whole handler. For example:
* `InterfaceDump` is `netlink_interface` from `if_get_by_name` to `if_add_update`.
* `LinkStatus` is the status branch of `netlink_link_change`, displacement
  notifications included.

The environment is modelled too. In `KernelSync`:
* The kernel creates, deletes and renames links and adds and removes
  addresses. New links take fresh increasing indexes, as `dev_new_index` does.
* A change is made by the kernel itself (`nlmsg_pid` 0) or by another
  process (its portid). It is multicast to the listener through the filter.
  What does not fit in `RcvBuf` is lost and sets the overrun.
* A dump is a snapshot of the kernel at the time of the request. One message
  travels per datagram.

## Runs

| Run | Expect | What it shows |
|---|---|---|
| `lr_core` | pass | For any sequence of link messages, no two active interfaces share an index (`IndexUnique`), and the collaborator's view equals the table (`ViewMatchesTable`). |
| `lr_upedge` | violation | spec.md P3 fails: the status path announces up again for an interface that stays operative (`rt_netlink.c:719`). |
| `ks_sync` | pass | While links are created, deleted and renamed during and after the bootstrap: the drained table equals the kernel's links (`LinkSync`), and it gets there once the kernel stops (`EventuallyInSync`). |
| `ks_lossy` | pass | The engine stays well-typed (`TypeOK`) when overruns lose events or a socket of `kernel_init` fails. Index uniqueness is not restated here: `lr_core` already checks it over every link-message sequence, and lost events leave indexes unique. With `netlink_cmd` failed, the filter and the own-pid skip use `nl_pid` 0 and drop every event the kernel itself originates. |
| `ks_addr` | pass | Without renames, no connected address is made up (`NoPhantomAddr`). |
| `ks_bootaddr` | violation | An address on a link created after the link dump aborts the IPv4 dump. The IPv6 dump is skipped, and startup carries on without those addresses. |
| `talk` | pass | `netlink_talk` returns 0 only when the kernel's state is what was asked (`OkMeansApplied`), and a blocked talk returns (`TalkReturns`). The listener hands `netlink_information_fetch` every change that the kernel or other processes made, in order, and none caused by the daemon's own commands (`ListenerHearsOthers`). The BPF program keeps address messages, so the echoes of `RTM_NEWADDR`/`RTM_DELADDR` commands are dropped by the own-pid skip alone. |
| `talk_race` | violation | spec.md 4.3 (a command whose effect already holds completes as Ok) fails: the race list names only route messages, so an address add answered `EEXIST` fails. |
| `timeval` | pass | The helpers keep the clock normalised and agree with floor-division arithmetic (`ArithmeticAgrees`). A dump of a pending timer reads as its time left, truncated to the last unit shown (`DumpDenotes`). This holds across the boundaries, where `> WEEK` and `> DAY` but `>= HOUR` and `>= MINUTE` print exactly one week as `7d00h00m`. |
| `pump` | pass | When dump datagrams fit the buffer, the datagram loop refines the message pump (`Refines`). The pump's `WF` is part of that property, so the loop also returns, and in the abstract pump an idle exchange has nothing left queued: neither is restated as a property of its own. |
| `pump_trunc` | violation | When dump datagrams are larger than the buffer, as with pages over 4 KiB, a datagram holding two links and `NLMSG_DONE` arrives cut. `DONE` is lost, and `netlink_parse_info` waits for good on the blocking command socket. |
| `codec` | pass | `netlink_parse_rtattr` finds what `addattr_l`/`addattr32` appended, the last attribute of each type (`RoundTrip`). It also holds one level down, for a container built by `rta_addattr_l` and parsed from `RTA_DATA`. The address derived from the parsed request is the one spec.md section 3 (and P6) describes from the attributes as appended (`AddrDerivation`). |

`PROJECT.json` lists each violation as a finding, and the mutants that show
each passing property can fail.

`KeepIndexOnDelete` stands for a library behaviour the repository does not
show: whether `if_delete_update` clears the index of the entry it deactivates.
The runs use FALSE, as spec.md 4.5 implies. With TRUE, `IndexUnique` fails
after three dump messages. `set_ifindex`'s lookup returns the stale inactive
entry, and two active interfaces share one index.

## Bounds and why they suffice

* **LinkReconciler.**
  * 3 names and 2 indexes, so a rename can displace and a third name can hit a
    stale entry.
  * One real hardware address plus the absent, zero and oversized attributes.
  * All flag combinations, and wireless and nameless messages.
* **KernelSync.**
  * 2 names and 3 indexes. At start, eth0 is on index 1 with an IPv6 address.
  * Up to 4 kernel changes, enough for create, address, rename and delete
    interleaved with the three dump stages.
  * `RcvBuf` is 9 (never overruns) or 2 (overruns).
  * Changes come from the kernel (pid 0) or one other process (pid 9).
    `netlink_cmd` has pid 7.
* **NetlinkTalk.**
  * 2 links, 1 address, 3 commands and 2 concurrent changes, enough for
    every kernel answer.
  * The concurrent changes include link deletion (with the kernel's own
    `RTM_DELADDR`) and route changes, which take the BPF program's pid
    branch. They come from pid 0 or pid 9; `netlink_cmd` has pid 7.
* **NetlinkPump.**
  * Dumps of up to 3 messages (2 in `pump_trunc`), with the filter failing
    on any of them. Also the acknowledgement and the `EEXIST` answer of a
    command. Two exchanges in a row.
  * `Cap` 2 and `BufMsgs` 2: dumps span several datagrams, and `NLMSG_DONE`
    shares the last one or travels alone. `pump_trunc` has `Cap` 3.
* **TimeVal.**
  * A clock that starts on a second, 0.4 s before one, or 1 µs before one.
  * Three advances (0.4 s, 0.999999 s, 1 s), so every carry of `tv_adjust`
    occurs, including a sum of exactly 1000000 µs.
  * Timer lengths on each side of the minute, hour, day and week, and one
    past 100 weeks. Every format of `ha_timeval_dump` is printed.
* **AttrCodec.** Payload lengths 1, 4, 5 and 16, so both aligned and padded
  records occur. Three appends in a 56-byte buffer, so the third can fail for
  lack of room. One type above `max` (9, `IFA_RT_PRIORITY` of later kernels,
  against an `IFA_MAX` of 8). The types include `IFA_ADDRESS`, `IFA_LOCAL` and
  `IFA_BROADCAST`, with two payload values, so every mix occurs: each of the
  three attributes present or absent, repeated, and equal or different
  payloads. The container of `rta_addattr_l` has 28 bytes, so a 16-byte
  subattribute followed by any other one overflows it. `rta_addattr_l` has no
  caller in the repository. Its container starts as `RTA_LENGTH (0)`, the
  way iproute2 callers start one.

## Fairness

* **KernelSync.** `WF_vars(Daemon)`. The bootstrap runs straight through, and
  `kernel_read` re-arms itself after every pass (`thread_add_read`), so a
  readable listener is read again. The kernel is not fair: it may stop
  changing at any time.
* **NetlinkPump.** Weak fairness on `recvmsg` and on the walk. The loop waits
  on nothing but the kernel's datagrams, which are queued when the request
  is sent.
* **NetlinkTalk.** Weak fairness on the kernel answering, on the pump
  reading, and on `kernel_read`, which re-arms itself. `TalkReturns` rests on
  the kernel answering every request, because the code has no timeout.
  `kernel_read` is not enabled while `netlink_talk` blocks: the event loop is
  single-threaded.

## Not modelled, and why

* **Runs retired for the 12-run budget.** Three findings from earlier
  violation runs are now kept as hazards in `PROJECT.json`. They are
  reproduced by changing a constant of a `KernelSync` cfg:
  * `RcvBuf = 2` in `MCKernelSync.cfg`: an overrun loses events for good, and `LinkSync` fails.
  * `SockMayFail = TRUE` in `MCKernelSync.cfg`: a failed command socket fails the bootstrap, and
    `LinkSync` fails.
  * `AllowRename = TRUE` in `MCKernelSync_addr.cfg`: a displaced entry keeps
    its address, and `NoPhantomAddr` fails.
* **Self-traffic filter against spec.md 4.6.** The spec describes the
  opposite program: route messages accepted unconditionally, every message
  with the command pid rejected. The code rejects only route messages with
  that pid. The daemon never issues route commands, and the own-pid skip
  drops the other echoes, so no state of the model tells the two apart.
  There is no run for it.
* **Socket set-up.** `netlink_socket` and `netlink_recvbuf` are system calls
  whose failure is logged. `KernelSync` keeps only their outcome, `lsock`
  and `csock`, and the zeroed `nl_pid` of a failed `netlink_cmd`.
* **Address details.** The label, and the `IFA_F_SECONDARY` flag, are passed
  to `connected_add_ipv4/6` and not kept. `AddrReconciler` keys a connected
  address by its local address only. The derived peer or broadcast address is
  checked in `AttrCodec` and does not enter `KernelSync`. The payload lengths
  `memcmp` compares are taken as equal (one address family per message).
* **Heartbeat and daemon lifecycle.** `ha_get` is the only function that
  creates a `struct ha`, and its one call site is commented out
  (`ha_vty.c:28`). So `ha_new`, `ha_read`, `ha_recv_packet` and
  `ha_sock_init` never run, and `ha_terminate` always takes its `exit(0)`
  branch. A raw IP socket never delivers a packet shorter than an IP
  header, so the pointer-size runt check of `ha_recv_packet` cannot misfire.
* **Overdue timers.** `DumpDenotes` is stated for timers not yet due. An
  overdue timer has a negative `tv_sec` and a positive `usec`, and
  `ha_timer_dump` prints it wrong: 0.4 s overdue prints `-1.600s`. Dropping
  the `TvCmp(...) >= 0` premise makes TLC show this. `ha_timer_dump` has no
  caller yet.
* **Never modelled.** The VTY commands, debug flags, declarations and version
  tables. They hold no behaviour a property could see.
