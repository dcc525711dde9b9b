------------------------------ MODULE AttrCodec ------------------------------
(***************************************************************************)
(* The attribute codec of src/detect/rt_netlink.c: addattr_l and addattr32 *)
(* append a route attribute (struct rtattr: rta_len, rta_type, payload) to *)
(* a request being built in a buffer of maxlen bytes; netlink_parse_rtattr *)
(* walks the attributes of a received message into the table tb.           *)
(*                                                                         *)
(* The buffer is kept at the level of its attribute headers: hdr[o] is the *)
(* header written at byte offset o.  The request structure of              *)
(* netlink_address is zeroed by memset, so an offset without a header     *)
(* reads as rta_len 0.  A payload is one value of Datas, the value its     *)
(* memcpy copied in: the address derivation of netlink_interface_addr     *)
(* compares payloads and reads nothing else of them.                       *)
(***************************************************************************)
EXTENDS Integers, Sequences, FiniteSets

CONSTANTS
  Types,      \* attribute types the request builder uses
  MaxType,    \* the max argument of netlink_parse_rtattr
  AttrLens,   \* payload lengths (alen) passed to addattr_l
  MaxLen,     \* the maxlen argument: sizeof the request structure
  NestMaxLen, \* the maxlen argument of rta_addattr_l: the container's buffer
  HdrLen,     \* NLMSG_LENGTH (sizeof (struct ifaddrmsg)): the initial nlmsg_len
  MaxAdds,    \* bound on the attributes appended
  Datas,      \* payload values (addresses)
  NULL        \* an absent address pointer

ASSUME NULL \notin Datas

\* The ifaddrmsg attribute types of <linux/if_addr.h>.
IFA_ADDRESS   == 1
IFA_LOCAL     == 2
IFA_BROADCAST == 4

\* NLMSG_ALIGNTO and RTA_ALIGNTO are both 4 on Linux.
ALIGNTO == 4
Align(x) == ((x + ALIGNTO - 1) \div ALIGNTO) * ALIGNTO

RTA_HDR == 4                      \* sizeof (struct rtattr)
RTA_LENGTH(alen) == Align(RTA_HDR) + alen

VARIABLES
  nlmsg_len,  \* n->nlmsg_len
  hdr,        \* offset -> [type, len]: the rtattr headers written so far
  payload,    \* offset -> the value copied to RTA_DATA of the header there
  added,      \* the attributes appended, in order: [off, type, alen]
  ret,        \* the return of the last call
  calls,      \* calls made so far
  rta_len,    \* rta->rta_len of a container attribute built by rta_addattr_l
  sub,        \* offset (from the container's start) -> the subattribute headers
  subadded    \* the subattributes appended, in order: [off, type, alen]

vars == <<nlmsg_len, hdr, payload, added, ret, calls, rta_len, sub, subadded>>

NoHdr == [type |-> 0, len |-> 0]

HeaderAt(h, o) == IF o \in DOMAIN h THEN h[o] ELSE NoHdr

TypeOK ==
  /\ nlmsg_len \in Nat
  /\ \A o \in DOMAIN hdr : hdr[o] \in [type: Types, len: Nat]
  /\ payload \in [DOMAIN hdr -> Datas]
  /\ added \in Seq([off: Nat, type: Types, alen: AttrLens, data: Datas])
  /\ ret \in {0, -1} /\ calls \in 0..MaxAdds
  /\ rta_len \in Nat
  /\ \A o \in DOMAIN sub : sub[o] \in [type: Types, len: Nat]
  /\ subadded \in Seq([off: Nat, type: Types, alen: AttrLens])

-----------------------------------------------------------------------------
(* addattr_l / addattr32 and netlink_parse_rtattr.                         *)

\* Variant: the attribute is placed at nlmsg_len without NLMSG_ALIGN.
AddAttrUnaligned(n, h, maxlen, type, alen) ==
  LET len == RTA_LENGTH(alen)
  IN  IF Align(n) + len > maxlen THEN [ret |-> -1, n |-> n, h |-> h, off |-> 0]
      ELSE [ret |-> 0, n |-> n + len, off |-> n,
            h |-> [o \in DOMAIN h \cup {n} |->
                     IF o = n THEN [type |-> type, len |-> len] ELSE h[o]]]

\* addattr_l (n, maxlen, type, data, alen): -1 when the attribute does not
\* fit; otherwise the header goes at NLMSG_ALIGN (nlmsg_len) and nlmsg_len
\* grows to the end of the (unpadded) attribute.
AddAttrL(n, h, maxlen, type, alen) ==
  LET len == RTA_LENGTH(alen)
      off == Align(n)
  IN  IF off + len > maxlen THEN [ret |-> -1, n |-> n, h |-> h, off |-> 0]
      ELSE [ret |-> 0, n |-> off + len, off |-> off,
            h |-> [o \in DOMAIN h \cup {off} |->
                     IF o = off THEN [type |-> type, len |-> len] ELSE h[o]]]

\* Variant: the container's rta_len is not advanced past the subattribute.
RtaAddAttrLNoGrow(r, h, maxlen, type, alen) ==
  LET len == RTA_LENGTH(alen)
      off == Align(r)
  IN  IF off + len > maxlen THEN [ret |-> -1, n |-> r, h |-> h, off |-> 0]
      ELSE [ret |-> 0, n |-> r, off |-> off,
            h |-> [o \in DOMAIN h \cup {off} |->
                     IF o = off THEN [type |-> type, len |-> len] ELSE h[o]]]

\* rta_addattr_l (rta, maxlen, type, data, alen): the same step one level
\* down, on a container attribute whose rta_len plays the part of
\* nlmsg_len: -1 when RTA_ALIGN (rta_len) + len exceeds maxlen; otherwise
\* the subattribute goes at RTA_ALIGN (rta_len) and rta_len becomes
\* NLMSG_ALIGN (rta_len) + len (the two alignments are both 4).
RtaAddAttrL(r, h, maxlen, type, alen) ==
  LET len == RTA_LENGTH(alen)
      off == Align(r)
  IN  IF off + len > maxlen THEN [ret |-> -1, n |-> r, h |-> h, off |-> 0]
      ELSE [ret |-> 0, n |-> off + len, off |-> off,
            h |-> [o \in DOMAIN h \cup {off} |->
                     IF o = off THEN [type |-> type, len |-> len] ELSE h[o]]]

\* netlink_parse_rtattr: while RTA_OK (rta, len), record rta in tb when
\* its type is at most max, then RTA_NEXT.  tb maps a type to an offset.
RECURSIVE ParseRtattr(_, _, _, _, _)
ParseRtattr(h, tb, max, o, len) ==
  LET a == HeaderAt(h, o)
  IN  IF len >= RTA_HDR /\ a.len >= RTA_HDR /\ a.len <= len
      THEN ParseRtattr(h, IF a.type <= max THEN [tb EXCEPT ![a.type] = o] ELSE tb,
                       max, o + Align(a.len), len - Align(a.len))
      ELSE tb

NoAttr == -1

\* The table of the request as built: what the kernel (or the daemon's own
\* handlers) find when they parse it.
Parsed == ParseRtattr(hdr, [t \in Types |-> NoAttr], MaxType,
                      Align(HdrLen), nlmsg_len - HdrLen)

\* The container parsed the way a nested attribute is: netlink_parse_rtattr
\* (tb, max, RTA_DATA (rta), RTA_PAYLOAD (rta)).
ParsedNested == ParseRtattr(sub, [t \in Types |-> NoAttr], MaxType,
                            RTA_LENGTH(0), rta_len - RTA_LENGTH(0))

\* Variant: no fallback of IFA_LOCAL to IFA_ADDRESS.
InterfaceAddrDeriveNoFallback(tb, pl) ==
  LET adr == tb[IFA_ADDRESS]
      loc == tb[IFA_LOCAL]
      Val(o) == IF o = NoAttr THEN NULL ELSE pl[o]
      peer == adr # NoAttr /\ loc # NoAttr /\ pl[adr] # pl[loc]
  IN  IF loc = NoAttr THEN [ret |-> -1]
      ELSE [ret |-> 0, addr |-> pl[loc], peer |-> peer,
            broad |-> IF peer THEN pl[adr] ELSE Val(tb[IFA_BROADCAST])]

\* netlink_interface_addr's derivation from the parsed table tb (offsets)
\* and the payloads pl: IFA_LOCAL falls back to IFA_ADDRESS and then
\* IFA_ADDRESS to IFA_LOCAL; addr is IFA_LOCAL's payload; IFA_ADDRESS is a
\* peer (KROUTE_IFA_PEER) when its payload differs from IFA_LOCAL's,
\* otherwise broad is IFA_BROADCAST's payload or NULL; a NULL addr makes
\* the handler return -1 before any connected_add / connected_delete.
InterfaceAddrDerive(tb, pl) ==
  LET loc == IF tb[IFA_LOCAL] = NoAttr THEN tb[IFA_ADDRESS] ELSE tb[IFA_LOCAL]
      adr == IF tb[IFA_ADDRESS] = NoAttr THEN loc ELSE tb[IFA_ADDRESS]
      Val(o) == IF o = NoAttr THEN NULL ELSE pl[o]
      peer == adr # NoAttr /\ pl[adr] # pl[loc]
  IN  IF loc = NoAttr THEN [ret |-> -1]
      ELSE [ret |-> 0, addr |-> pl[loc], peer |-> peer,
            broad |-> IF peer THEN pl[adr] ELSE Val(tb[IFA_BROADCAST])]

-----------------------------------------------------------------------------
(* The builder: a request zeroed and started as netlink_address starts    *)
(* one, then any sequence of addattr_l / addattr32 calls, of any type,     *)
(* length and payload, each result ignored.  This is a superset of the    *)
(* IFA_LOCAL, IFA_BROADCAST and IFA_LABEL sequences netlink_address makes *)
(* and of the attribute sets a kernel message carries.                     *)

Init ==
  /\ nlmsg_len = HdrLen /\ hdr = <<>> /\ payload = <<>> /\ added = <<>>
  /\ ret = 0 /\ calls = 0
  /\ rta_len = RTA_LENGTH(0) /\ sub = <<>> /\ subadded = <<>>

Append1(t, alen, d) ==
  LET r == AddAttrL(nlmsg_len, hdr, MaxLen, t, alen)
  IN  /\ calls < MaxAdds
      /\ calls' = calls + 1
      /\ nlmsg_len' = r.n /\ hdr' = r.h /\ ret' = r.ret
      /\ payload' = IF r.ret = 0
                    THEN [o \in DOMAIN r.h |-> IF o = r.off THEN d ELSE payload[o]]
                    ELSE payload
      /\ added' = IF r.ret = 0
                  THEN Append(added, [off |-> r.off, type |-> t, alen |-> alen, data |-> d])
                  ELSE added
      /\ UNCHANGED <<rta_len, sub, subadded>>

\* addattr_l with a payload of alen bytes.
AddAttrLStep == \E t \in Types, alen \in AttrLens, d \in Datas : Append1(t, alen, d)

\* addattr32: addattr_l with a four-byte payload.
AddAttr32Step == \E t \in Types, d \in Datas : Append1(t, 4, d)

\* rta_addattr_l: a subattribute appended to a container attribute that
\* starts as RTA_LENGTH (0), its bare header.
RtaAddAttrLStep ==
  \E t \in Types, alen \in AttrLens :
    LET r == RtaAddAttrL(rta_len, sub, NestMaxLen, t, alen)
    IN  /\ calls < MaxAdds
        /\ calls' = calls + 1
        /\ rta_len' = r.n /\ sub' = r.h /\ ret' = r.ret
        /\ subadded' = IF r.ret = 0
                       THEN Append(subadded, [off |-> r.off, type |-> t, alen |-> alen])
                       ELSE subadded
        /\ UNCHANGED <<nlmsg_len, hdr, payload, added>>

\* The request is sent: nothing more is appended.
Sent == calls = MaxAdds /\ UNCHANGED vars

Next == AddAttrLStep \/ AddAttr32Step \/ RtaAddAttrLStep \/ Sent

Spec == Init /\ [][Next]_vars

-----------------------------------------------------------------------------
(* Properties.                                                             *)

\* The reference table: for each type at most max, the last attribute of
\* that type that was appended, as a parser of the request must see it.
LastOf(seq, t) ==
  LET is == {i \in 1..Len(seq) : seq[i].type = t}
  IN  IF is = {} THEN NoAttr
      ELSE seq[CHOOSE i \in is : \A j \in is : j <= i].off

Expected(seq) == [t \in Types |-> IF t <= MaxType THEN LastOf(seq, t) ELSE NoAttr]

\* Round trip: parsing what addattr_l / addattr32 built with
\* netlink_parse_rtattr finds exactly the attributes appended (the last
\* of each type), whatever their payload lengths and padding; and parsing
\* the payload of a container built by rta_addattr_l finds exactly its
\* subattributes.
RoundTrip == Parsed = Expected(added) /\ ParsedNested = Expected(subadded)

\* spec.md section 3 on a NewAddress, over the attributes as appended: the
\* local address is the last "local" attribute, or else the last
\* "address"; "address" is a peer when it differs from the local address,
\* otherwise the last "broadcast" (if any) is the broadcast address; with
\* neither "local" nor "address" the message is dropped as malformed.
SpecDerive(seq) ==
  LET Last(t) == LET is == {i \in 1..Len(seq) : seq[i].type = t}
                 IN  IF is = {} THEN NULL
                     ELSE seq[CHOOSE i \in is : \A j \in is : j <= i].data
      loc == IF Last(IFA_LOCAL) # NULL THEN Last(IFA_LOCAL) ELSE Last(IFA_ADDRESS)
      peer == Last(IFA_ADDRESS) \notin {NULL, loc}
  IN  IF loc = NULL THEN [ret |-> -1]
      ELSE [ret |-> 0, addr |-> loc, peer |-> peer,
            broad |-> IF peer THEN Last(IFA_ADDRESS) ELSE Last(IFA_BROADCAST)]

\* Address derivation: netlink_interface_addr, run on the table
\* netlink_parse_rtattr makes of what addattr_l built, derives the local,
\* peer and broadcast addresses spec.md describes, and drops exactly the
\* messages with no local address (including the fallback of a message
\* carrying only IFA_ADDRESS or only IFA_LOCAL, spec.md P6).
AddrDerivation == InterfaceAddrDerive(Parsed, payload) = SpecDerive(added)
=============================================================================
