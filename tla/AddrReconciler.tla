--------------------------- MODULE AddrReconciler ---------------------------
(***************************************************************************)
(* netlink_interface_addr (src/detect/rt_netlink.c): the handler of        *)
(* RTM_NEWADDR / RTM_DELADDR, used by the address dumps of the bootstrap   *)
(* and by the listener.  It finds the interface by kernel index in the     *)
(* table of LinkReconciler and adds or removes a connected address.        *)
(*                                                                         *)
(* connected_add_ipv4/6 and connected_delete_ipv4/6 belong to library code *)
(* outside the repository; they are modelled from spec.md section 3: a     *)
(* connected address is keyed by its interface, family and prefix.         *)
(* An address is abstracted to the local address netlink_interface_addr    *)
(* derives from IFA_LOCAL / IFA_ADDRESS; peer, broadcast, label and        *)
(* prefix length do not enter the properties checked with this module.     *)
(***************************************************************************)
EXTENDS Integers

CONSTANTS Names, Indexes, HwAddrs, NoName, KeepIndexOnDelete,
          Families,   \* address families other than AF_INET / AF_INET6 too
          Addrs       \* local addresses

VARIABLES tab, view, out, phase,
          conn        \* the connected addresses: [name, fam, addr] records

L == INSTANCE LinkReconciler

\* The families netlink_interface_addr accepts (HAVE_IPV6 defined).
IpFamilies == {"v4", "v6"}

AddrMsgs == [type: {"NEWADDR", "DELADDR"}, fam: Families, index: Indexes, addr: Addrs]

Connected == [name: Names, fam: IpFamilies, addr: Addrs]

ConnTypeOK == conn \subseteq Connected

\* The address messages the handler returns 0 on without a change:
\* a family other than IPv4 / IPv6.
AddrIgnores(m) == m.fam \notin IpFamilies

\* if_lookup_by_index found no interface: logged, -1 returned.
AddrUnknown(m) == m.fam \in IpFamilies /\ L!LookupByIndex(tab, m.index) = {NoName}

AddrHandlerRet(m) == IF AddrUnknown(m) THEN -1 ELSE 0

\* Variant: the NULL result of if_lookup_by_index is not checked.
InterfaceAddrNoNullCheck(m) ==
  /\ m.fam \in IpFamilies
  /\ \E ifp \in L!LookupByIndex(tab, m.index) :
       LET c == [name |-> ifp, fam |-> m.fam, addr |-> m.addr]
       IN  conn' = IF m.type = "NEWADDR" THEN conn \cup {c} ELSE conn \ {c}

\* Variant: RTM_DELADDR leaves the connected address in place.
InterfaceAddrNoDelete(m) ==
  /\ m.fam \in IpFamilies
  /\ \E ifp \in L!LookupByIndex(tab, m.index) :
       /\ ifp # NoName
       /\ LET c == [name |-> ifp, fam |-> m.fam, addr |-> m.addr]
          IN  conn' = IF m.type = "NEWADDR" THEN conn \cup {c} ELSE conn

\* netlink_interface_addr with the interface ifp if_lookup_by_index gave:
\* connected_add_ipv4/6 on RTM_NEWADDR, connected_delete_ipv4/6 otherwise.
InterfaceAddr(m) ==
  /\ m.fam \in IpFamilies
  /\ \E ifp \in L!LookupByIndex(tab, m.index) :
       /\ ifp # NoName
       /\ LET c == [name |-> ifp, fam |-> m.fam, addr |-> m.addr]
          IN  conn' = IF m.type = "NEWADDR" THEN conn \cup {c} ELSE conn \ {c}
=============================================================================
