--------------------------- MODULE LinkReconciler ---------------------------
(***************************************************************************)
(* The interface table of the daemon and the two netlink link handlers of  *)
(* src/detect/rt_netlink.c that write it:                                  *)
(*   netlink_interface   (bootstrap dump handler, RTM_NEWLINK only)        *)
(*   netlink_link_change (listener handler, RTM_NEWLINK and RTM_DELLINK)   *)
(* with set_ifindex and netlink_interface_update_hw_addr.                   *)
(*                                                                         *)
(* The table functions if_get_by_name, if_lookup_by_index, if_add_update,  *)
(* if_delete_update, if_up and if_down are declared by the repository      *)
(* (src/detect/interface.h) but their code is not part of it; they are     *)
(* modelled from spec.md section 3 and 4.5.                                *)
(*                                                                         *)
(* What the routing-protocol collaborator learns is kept as "view": the    *)
(* state of every interface as told by the notifications emitted so far.   *)
(***************************************************************************)
EXTENDS Integers, Sequences, SequencesExt

CONSTANTS
  Names,              \* interface names the kernel may report
  Indexes,            \* kernel ifindex values (never IFINDEX_INTERNAL)
  HwAddrs,            \* non-zero hardware addresses of legal length
  NoName,             \* a message without IFLA_IFNAME
  KeepIndexOnDelete   \* does if_delete_update keep ifp->ifindex?

\* IFINDEX_INTERNAL: the index of an entry no kernel message has bound.
IFINDEX_INTERNAL == 0

ASSUME Indexes \subseteq Nat \ {IFINDEX_INTERNAL}
ASSUME KeepIndexOnDelete \in BOOLEAN
ASSUME NoName \notin Names

VARIABLES
  tab,    \* tab[n]: the struct interface of name n (st = "none": no entry)
  view,   \* view[n]: "absent", "down" or "up", as notified so far
  out     \* the notifications emitted by the last step, in order

vars == <<tab, view, out>>

Flag == {"UP", "RUNNING"}

\* A hardware-address attribute: absent, all-zero, oversized, or a value.
HwAttr == {"absent", "zero", "big"} \cup HwAddrs

NewLinkMsgs == [type: {"NEWLINK"}, name: Names \cup {NoName}, index: Indexes,
                flags: SUBSET Flag, hw: HwAttr, wless: BOOLEAN]
DelLinkMsgs == [type: {"DELLINK"}, name: Names \cup {NoName}, wless: BOOLEAN]

NoEntry == [st |-> "none", idx |-> IFINDEX_INTERNAL, flags |-> {}, hw |-> "none"]

Entry == [st: {"none", "inactive", "active"}, idx: Indexes \cup {IFINDEX_INTERNAL},
          flags: SUBSET Flag, hw: HwAddrs \cup {"none"}]

Notification == [ev: {"added", "up", "down", "deleted"}, name: Names]

TypeOK ==
  /\ tab \in [Names -> Entry]
  /\ view \in [Names -> {"absent", "down", "up"}]
  /\ out \in Seq(Notification)

-----------------------------------------------------------------------------
(* Library functions of the interface table (spec-modelled).               *)

\* if_is_operative: administratively up and running.
Operative(f) == Flag \subseteq f

\* if_lookup_by_index: the first entry of the interface list with that
\* index, active or not.  The list order belongs to library code, so any
\* holder may be the one returned; NULL when there is none.
LookupByIndex(t, k) ==
  LET holders == {o \in Names : t[o].st # "none" /\ t[o].idx = k}
  IN  IF holders = {} THEN {NoName} ELSE holders

\* if_get_by_name: the existing entry, or a fresh inactive one.
GetByName(t, n) ==
  IF t[n].st = "none" THEN [t EXCEPT ![n] = [NoEntry EXCEPT !.st = "inactive"]]
                      ELSE t

\* if_delete_update: mark inactive and tell the collaborator.
DeleteUpdate(t, o) ==
  [t EXCEPT ![o].st = "inactive",
            ![o].idx = IF KeepIndexOnDelete THEN @ ELSE IFINDEX_INTERNAL]

\* if_add_update: mark active and announce; an operative interface is
\* announced up as well (spec.md section 8, bootstrap scenario).
AddUpdate(t, n) == [t EXCEPT ![n].st = "active"]
AddNotes(t, n) ==
  <<[ev |-> "added", name |-> n]>> \o
    (IF Operative(t[n].flags) THEN <<[ev |-> "up", name |-> n]>> ELSE <<>>)

\* What a notification tells the collaborator about its interface.
Told(v, note) ==
  [v EXCEPT ![note.name] = CASE note.ev = "added"   -> "down"
                             [] note.ev = "up"      -> "up"
                             [] note.ev = "down"    -> "down"
                             [] note.ev = "deleted" -> "absent"]

Tell(notes) ==
  /\ out' = notes
  /\ view' = FoldLeft(Told, view, notes)

-----------------------------------------------------------------------------
(* Code of src/detect/rt_netlink.c.                                        *)

\* Variant: no entry is ever displaced (the eviction of set_ifindex lost).
DisplacedNone(t, ifp, k, o) == {}

\* set_ifindex: an other entry holding index k is deleted first (rename
\* displacement); o is the entry if_lookup_by_index returned.
Displaced(t, ifp, k, o) == IF o # NoName /\ o # ifp THEN {o} ELSE {}

\* Variant: the index is rebound without deleting its other holder.
SetIfindexNoEvict(t, ifp, k, o) == [t EXCEPT ![ifp].idx = k]

SetIfindex(t, ifp, k, o) ==
  LET t1 == IF Displaced(t, ifp, k, o) = {} THEN t ELSE DeleteUpdate(t, o)
  IN  [t1 EXCEPT ![ifp].idx = k]

DisplaceNotes(t, ifp, k, o) ==
  IF Displaced(t, ifp, k, o) = {} THEN <<>>
  ELSE <<[ev |-> "deleted", name |-> o]>>

\* Variant: an oversized address is copied in (the length check lost).
UpdateHwAddrNoLenCheck(hw, attr) ==
  CASE attr = "absent" -> hw
    [] attr = "zero"   -> "none"
    [] OTHER           -> attr

\* netlink_interface_update_hw_addr
UpdateHwAddr(hw, attr) ==
  CASE attr = "absent" -> hw
    [] attr = "big"    -> hw
    [] attr = "zero"   -> "none"
    [] OTHER           -> attr

\* The attribute updates common to both NEWLINK paths of the handlers:
\* set_ifindex, flags, mtu/metric (not modelled) and the hardware address.
Bind(t, m, o, newFlags) ==
  LET t1 == SetIfindex(t, m.name, m.index, o)
  IN  [t1 EXCEPT ![m.name].flags = newFlags,
                 ![m.name].hw = UpdateHwAddr(@, m.hw)]

\* A message ignored by both handlers: IFLA_WIRELESS with ifi_change 0.
WirelessNoop(m) == m.wless

\* netlink_interface: bootstrap handler of the RTM_GETLINK dump.
InterfaceDump(m) ==
  /\ m.type = "NEWLINK"
  /\ ~WirelessNoop(m)
  /\ m.name # NoName
  /\ LET t0 == GetByName(tab, m.name) IN
     \E o \in LookupByIndex(t0, m.index) :
       LET t1 == Bind(t0, m, o, m.flags)
       IN  /\ tab' = AddUpdate(t1, m.name)
           /\ Tell(DisplaceNotes(t0, m.name, m.index, o) \o AddNotes(t1, m.name))

\* netlink_link_change, RTM_NEWLINK for an unknown or inactive name.
LinkAdd(m) ==
  /\ tab[m.name].st # "active"
  /\ LET t0 == GetByName(tab, m.name) IN
     \E o \in LookupByIndex(t0, m.index) :
       LET t1 == Bind(t0, m, o, m.flags)
       IN  /\ tab' = AddUpdate(t1, m.name)
           /\ Tell(DisplaceNotes(t0, m.name, m.index, o) \o AddNotes(t1, m.name))

\* netlink_link_change, RTM_NEWLINK for an active name: status change.
\* Operative is tested on the old flags, then the flags are replaced.
\* Variant: no if_down when an operative interface stops being operative.
StatusNotesNoDown(old, new, n) ==
  IF Operative(new) THEN <<[ev |-> "up", name |-> n]>> ELSE <<>>

StatusNotes(old, new, n) ==
  CASE  Operative(old) /\ ~Operative(new) -> <<[ev |-> "down", name |-> n]>>
    []  Operative(old) /\ Operative(new)  -> <<[ev |-> "up", name |-> n]>>
    [] ~Operative(old) /\ Operative(new)  -> <<[ev |-> "up", name |-> n]>>
    [] OTHER                              -> <<>>

LinkStatus(m) ==
  /\ tab[m.name].st = "active"
  /\ \E o \in LookupByIndex(tab, m.index) :
       /\ tab' = Bind(tab, m, o, m.flags)
       /\ Tell(DisplaceNotes(tab, m.name, m.index, o) \o
               StatusNotes(tab[m.name].flags, m.flags, m.name))

\* Variant: RTM_DELLINK is notified but if_delete_update is not called.
LinkDeleteNoUpdate(m) ==
  /\ tab[m.name].st # "none"
  /\ UNCHANGED tab
  /\ Tell(<<[ev |-> "deleted", name |-> m.name]>>)

\* netlink_link_change, RTM_DELLINK: an unknown name is only logged.
LinkDelete(m) ==
  /\ tab[m.name].st # "none"
  /\ tab' = DeleteUpdate(tab, m.name)
  /\ Tell(<<[ev |-> "deleted", name |-> m.name]>>)

\* netlink_link_change: the handler of the listener socket.
LinkChange(m) ==
  /\ ~WirelessNoop(m)
  /\ m.name # NoName
  /\ \/ m.type = "NEWLINK" /\ (LinkAdd(m) \/ LinkStatus(m))
     \/ m.type = "DELLINK" /\ LinkDelete(m)

\* The messages netlink_link_change returns on without touching the table.
LinkChangeIgnores(m) ==
  \/ WirelessNoop(m) \/ m.name = NoName
  \/ m.type = "DELLINK" /\ tab[m.name].st = "none"

-----------------------------------------------------------------------------
(* The table in isolation.  The kernel may report any link message: with   *)
(* a listener overrun (recvmsg ENOBUFS, logged and skipped by               *)
(* netlink_parse_info) any sequence of link states can reach the handler.  *)

VARIABLE phase   \* "boot": RTM_GETLINK dump; "run": listener events

Init ==
  /\ tab = [n \in Names |-> NoEntry]
  /\ view = [n \in Names |-> "absent"]
  /\ out = <<>>
  /\ phase = "boot"

DumpMessage ==
  /\ phase = "boot"
  /\ \E m \in NewLinkMsgs : InterfaceDump(m)
  /\ UNCHANGED phase

\* The dump is finished (NLMSG_DONE); interface_lookup_netlink moves on.
DumpDone ==
  /\ phase = "boot"
  /\ phase' = "run"
  /\ out' = <<>>
  /\ UNCHANGED <<tab, view>>

EventMessage ==
  /\ phase = "run"
  /\ \E m \in NewLinkMsgs \cup DelLinkMsgs : LinkChange(m)
  /\ UNCHANGED phase

Next == DumpMessage \/ DumpDone \/ EventMessage

Spec == Init /\ [][Next]_<<vars, phase>>

-----------------------------------------------------------------------------
(* Properties.                                                             *)

\* P1 of spec.md (set_ifindex, if_lookup_by_index): no two active
\* interfaces are bound to one kernel index, whatever renames, deletions
\* and re-creations the kernel reports.
IndexUnique ==
  \A a, b \in Names :
    (a # b /\ tab[a].st = "active" /\ tab[b].st = "active") => tab[a].idx # tab[b].idx

\* The collaborator's picture agrees with the table after every message:
\* an interface is announced iff it is active, and announced up iff its
\* flags are operative (netlink_link_change tests the old flags, then
\* emits if_down / if_up / kroute_interface_up_update).
ViewMatchesTable ==
  \A n \in Names :
    view[n] = (IF tab[n].st # "active" THEN "absent"
               ELSE IF Operative(tab[n].flags) THEN "up" ELSE "down")

\* P3 of spec.md: interface_up is emitted only on a false->true edge of
\* the operative state, never when the collaborator already has it up
\* (kroute_interface_up_update in netlink_link_change's status path).
ViewBefore(i) == FoldLeft(Told, view, SubSeq(out', 1, i - 1))

UpOnlyOnEdge ==
  [][\A i \in 1..Len(out') :
       out'[i].ev = "up" => ViewBefore(i)[out'[i].name] # "up"]_<<vars, phase>>
=============================================================================
