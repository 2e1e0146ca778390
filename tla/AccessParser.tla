---------------------------- MODULE AccessParser ----------------------------
(***************************************************************************)
(* The access-side XDP program xdp_upf (upf_bpf_main_access.bpf.c) with    *)
(* validate_ethertype (parse_utils.h) and parse_and_validate_gtp           *)
(* (gtp_utils.h).  One action per labelled block of the program; the      *)
(* program runs once per received frame.                                   *)
(*                                                                         *)
(* The frame is an unconstrained input.  Its bytes are fixed lazily: a     *)
(* byte is Unread until the program first loads it, and is then chosen     *)
(* from the small set of interesting values for the field being read      *)
(* (or is whatever an earlier, overlapping load already fixed).  pkt holds *)
(* the bytes in wire order; loads go through the little-endian host        *)
(* conversions the code relies on (bpf_ntohs/bpf_htons, raw __be32).       *)
(***************************************************************************)
EXTENDS Wire

CONSTANTS
  MaxLen,       \* largest frame length (data_end - data) considered
  EtherTypes,   \* wire values an ethertype / encapsulated-proto field takes
  VerIhlVals,   \* values of the first IPv4 header byte (version, ihl)
  ProtoVals,    \* values of the IPv4 protocol byte
  PortVals,     \* wire values of the UDP destination port
  GtpTypeVals,  \* values of the GTP message-type byte
  TeidVals      \* wire values of the GTP TEID field

NoTeid == -1

\* Every value offered for a field fits the field: S holds naturals below b.
FitsIn(S, b) == \A x \in S : x \in Nat /\ x < b

ASSUME ConstantsOK ==
  /\ MaxLen \in 0 .. MaxOff + 1
  /\ FitsIn(EtherTypes, 65536)
  /\ FitsIn(VerIhlVals, 256)
  /\ FitsIn(ProtoVals, 256)
  /\ FitsIn(PortVals, 65536)
  /\ FitsIn(GtpTypeVals, 256)
  /\ TeidVals \subseteq Nat   \* a value of 2^32 or more is stored as its low 4 bytes

VARIABLES
  pc,       \* the block of xdp_upf about to run; "idle" between frames
  len,      \* data_end - data of the current frame
  pkt,      \* pkt[o]: wire byte at offset o, or Unread
  nh_off,   \* validate_ethertype's *nh_off (__u16)
  vlan_i,   \* iteration of the unrolled two-tag loop
  h_proto,  \* *h_proto / l3_proto as loaded (network order, __u16)
  udp_off,  \* offset of the UDP header, (void *)iph + 4 * iph->ihl
  teid,     \* teid, NoTeid while uninitialised
  verdict   \* XDP action returned for the current frame

vars == <<pc, len, pkt, nh_off, vlan_i, h_proto, udp_off, teid, verdict>>

Verdicts == {"XDP_PASS", "XDP_DROP"}

-----------------------------------------------------------------------------
(* Byte-level view of the frame.                                          *)

\* The values a load of w bytes at o can return from the byte map m: the
\* bytes already fixed, or any value of dom agreeing with the fixed ones.
LoadChoices(m, o, w, dom) ==
  IF \A k \in 0 .. w - 1 : m[o + k] # Unread
    THEN {WireAt(m, o, w)}
    ELSE {v \in dom : \A k \in 0 .. w - 1 : m[o + k] \in {Unread, ByteOf(v, w, k)}}

\* The byte map m once the w bytes at o hold the wire value v.
Fix(m, o, w, v) ==
  [i \in Offsets |-> IF o <= i /\ i < o + w THEN ByteOf(v, w, i - o) ELSE m[i]]

\* What a little-endian host load (x86, arm64) of the 2 or 4 bytes at o
\* yields: the first byte on the wire is the least significant.
HostLoad16(m, o) == m[o] + 256 * m[o + 1]
HostLoad32(m, o) == HostLoad16(m, o) + 65536 * HostLoad16(m, o + 2)

\* bpf_htons / bpf_ntohs on such a host: the same byte swap.
Swap16(x) == (x % 256) * 256 + x \div 256
Swap32(x) == Swap16(x % 65536) * 65536 + Swap16(x \div 65536)

-----------------------------------------------------------------------------
(* Pieces of the code that several actions, or the mutants, use.          *)

\* Mutant: the floor test on the raw, unswapped h_proto.
MutNotEthernetIINoSwap(h) == h < ETH_P_802_3_MIN

\* bpf_ntohs(*h_proto) < ETH_P_802_3_MIN: a length field, not Ethernet II.
NotEthernetII(h) == Swap16(h) < ETH_P_802_3_MIN

\* return XDP_xxx: the frame is done.
Finish(v) == /\ pc' = "idle"
             /\ verdict' = v

\* Mutant: the unrolled loop runs three times.
MutVlanLoopIters == 3

\* for (int i = 0; i < 2; i++) under #pragma unroll.
VLAN_LOOP_ITERS == 2

\* Mutant: the IPv4 check covers the bytes read (up to protocol), not the
\* whole 20-byte header.
MutIpHeaderEnd(ip) == ip + 10

\* (void *)iph + sizeof(*iph): the end of the fixed IPv4 header.
IpHeaderEnd(ip) == ip + IPHDR_LEN

\* Mutant: the window checked ends at the TEID instead of after it.
MutGtpWindowEnd(udp) == udp + UDPHDR_LEN + 4

\* gtp = (void *)udp + sizeof(*udp); the check is on gtp + sizeof(*gtp).
GtpWindowEnd(udp) == udp + UDPHDR_LEN + GTPHDR_LEN

\* Mutant: the TEID converted with bpf_ntohl.
MutTeidNtohl(m, o) == WireAt(m, o, 4)

\* *teid = gtp->tid: the raw __be32 at o as the host loads it.
TeidFromWire(m, o) == HostLoad32(m, o)

-----------------------------------------------------------------------------
(* The program.                                                            *)

Init ==
  /\ pc = "idle"
  /\ len = 0
  /\ pkt = [i \in Offsets |-> Unread]
  /\ nh_off = 0
  /\ vlan_i = 0
  /\ h_proto = 0
  /\ udp_off = 0
  /\ teid = NoTeid
  /\ verdict = "none"

\* A new frame of any length up to MaxLen reaches the program.
Receive ==
  /\ pc = "idle"
  /\ \E l \in 0 .. MaxLen : len' = l
  /\ pc' = "eth"
  /\ pkt' = [i \in Offsets |-> Unread]
  /\ nh_off' = 0
  /\ vlan_i' = 0
  /\ h_proto' = 0
  /\ udp_off' = 0
  /\ teid' = NoTeid
  /\ verdict' = "none"

\* validate_ethertype up to the VLAN loop: the Ethernet header must fit
\* and carry an Ethernet II type; a failure is xdp_upf's goto DROP.
EthHeader ==
  /\ pc = "eth"
  /\ nh_off' = ETH_HLEN
  /\ IF ETH_HLEN > len
       THEN /\ Finish("XDP_DROP")
            /\ UNCHANGED <<pkt, h_proto, vlan_i>>
       ELSE \E v \in LoadChoices(pkt, 12, 2, EtherTypes) :
              /\ pkt' = Fix(pkt, 12, 2, v)
              /\ h_proto' = HostLoad16(pkt', 12)
              /\ IF NotEthernetII(h_proto')
                   THEN Finish("XDP_DROP")
                   ELSE /\ pc' = "vlan"
                        /\ UNCHANGED verdict
              /\ UNCHANGED vlan_i
  /\ UNCHANGED <<len, udp_off, teid>>

\* One iteration of the unrolled loop over at most two stacked tags.
VlanTag ==
  /\ pc = "vlan"
  /\ LET next == IF vlan_i + 1 = VLAN_LOOP_ITERS THEN "dispatch" ELSE "vlan" IN
     IF h_proto \in {Swap16(ETH_P_8021Q), Swap16(ETH_P_8021AD)}
       THEN /\ nh_off' = nh_off + VLAN_HLEN
            /\ IF nh_off' > len
                 THEN /\ Finish("XDP_DROP")
                      /\ UNCHANGED <<pkt, h_proto, vlan_i>>
                 ELSE \E v \in LoadChoices(pkt, nh_off + 2, 2, EtherTypes) :
                        /\ pkt' = Fix(pkt, nh_off + 2, 2, v)
                        /\ h_proto' = HostLoad16(pkt', nh_off + 2)
                        /\ vlan_i' = vlan_i + 1
                        /\ pc' = next
                        /\ UNCHANGED verdict
       ELSE /\ vlan_i' = vlan_i + 1
            /\ pc' = next
            /\ UNCHANGED <<pkt, nh_off, h_proto, verdict>>
  /\ UNCHANGED <<len, udp_off, teid>>

\* switch (l3_proto): IPv4 is parsed; IPv6, ARP and the rest are dropped.
Dispatch ==
  /\ pc = "dispatch"
  /\ IF h_proto = Swap16(ETH_P_IP)
       THEN /\ pc' = "ip"
            /\ UNCHANGED verdict
       ELSE Finish("XDP_DROP")
  /\ UNCHANGED <<len, pkt, nh_off, vlan_i, h_proto, udp_off, teid>>

\* IP: the IPv4 header must fit; a non-UDP packet is passed.
IPv4 ==
  /\ pc = "ip"
  /\ IF IpHeaderEnd(nh_off) > len
       THEN /\ Finish("XDP_DROP")
            /\ UNCHANGED pkt
       ELSE \E p \in LoadChoices(pkt, nh_off + 9, 1, ProtoVals) :
              /\ pkt' = Fix(pkt, nh_off + 9, 1, p)
              /\ IF p # IPPROTO_UDP
                   THEN Finish("XDP_PASS")
                   ELSE /\ pc' = "udp"
                        /\ UNCHANGED verdict
  /\ UNCHANGED <<len, nh_off, vlan_i, h_proto, udp_off, teid>>

\* UDP: locate the UDP header 4 * ihl bytes after the IPv4 header; if it
\* fits, the GTP port leads to the GTP decoder and any other port falls
\* through to PDR_LOOKUP.
UDP ==
  /\ pc = "udp"
  /\ \E b \in LoadChoices(pkt, nh_off, 1, VerIhlVals) :
       LET pkt1 == Fix(pkt, nh_off, 1, b)
           off  == nh_off + 4 * (b % 16)
       IN /\ udp_off' = off
          /\ IF off + UDPHDR_LEN > len
               THEN /\ Finish("XDP_DROP")
                    /\ pkt' = pkt1
               ELSE \E d \in LoadChoices(pkt1, off + 2, 2, PortVals) :
                      /\ pkt' = Fix(pkt1, off + 2, 2, d)
                      /\ pc' = IF HostLoad16(pkt', off + 2) = Swap16(GTP_PORT) THEN "gtp" ELSE "lookup"
                      /\ UNCHANGED verdict
  /\ UNCHANGED <<len, nh_off, vlan_i, h_proto, teid>>

\* parse_and_validate_gtp: the GTPv1 header after the UDP header must fit
\* and be a G-PDU; its TEID is copied as loaded, without byte swap.
GTP ==
  /\ pc = "gtp"
  /\ LET gtp == udp_off + UDPHDR_LEN IN
     IF GtpWindowEnd(udp_off) > len
       THEN /\ Finish("XDP_DROP")
            /\ UNCHANGED <<pkt, teid>>
       ELSE \E t \in LoadChoices(pkt, gtp + 1, 1, GtpTypeVals) :
              IF t # GTP_TYPE_GPDU
                THEN /\ Finish("XDP_DROP")
                     /\ pkt' = Fix(pkt, gtp + 1, 1, t)
                     /\ UNCHANGED teid
                ELSE LET pkt1 == Fix(pkt, gtp + 1, 1, t) IN
                     \E id \in LoadChoices(pkt1, gtp + 4, 4, TeidVals) :
                       /\ pkt' = Fix(pkt1, gtp + 4, 4, id)
                       /\ teid' = TeidFromWire(pkt', gtp + 4)
                       /\ pc' = "lookup"
                       /\ UNCHANGED verdict
  /\ UNCHANGED <<len, nh_off, vlan_i, h_proto, udp_off>>

\* PDR_LOOKUP: logs teid and passes the frame.  Reached from the GTP
\* decoder and also by falling through from a UDP frame on another port,
\* in which case teid was never assigned.
PdrLookup ==
  /\ pc = "lookup"
  /\ Finish("XDP_PASS")
  /\ UNCHANGED <<len, pkt, nh_off, vlan_i, h_proto, udp_off, teid>>

Next ==
  \/ Receive
  \/ EthHeader
  \/ VlanTag
  \/ Dispatch
  \/ IPv4
  \/ UDP
  \/ GTP
  \/ PdrLookup

Spec == Init /\ [][Next]_vars

-----------------------------------------------------------------------------
(* Properties.                                                            *)

TypeOK ==
  /\ pc \in {"idle", "eth", "vlan", "dispatch", "ip", "udp", "gtp", "lookup"}
  /\ len \in 0 .. MaxLen
  /\ pkt \in [Offsets -> Unread .. 255]
  /\ nh_off \in 0 .. ETH_HLEN + 2 * VLAN_HLEN
  /\ vlan_i \in 0 .. 2
  /\ h_proto \in Nat
  /\ udp_off \in 0 .. ETH_HLEN + 2 * VLAN_HLEN + 4 * 15
  /\ teid \in {NoTeid} \cup Nat
  /\ verdict \in Verdicts \cup {"none"}

\* Bounds before dereference (the PacketView invariant of the spec): no byte
\* at or beyond data_end is ever loaded, whatever the headers claim.  Each
\* load in xdp_upf, validate_ethertype and parse_and_validate_gtp must be
\* preceded by a check of the whole window it projects.
MemSafe == \A o \in Offsets : pkt[o] # Unread => o < len

\* Every frame xdp_upf has finished with got the disposition the spec
\* prescribes for its bytes: the byte-order conversions, the Ethernet II
\* floor, the two-tag cap, the non-UDP pass-through and the GTP checks of
\* the code agree with the wire-level contract.
DispositionPerSpec == (pc = "idle" /\ verdict # "none") => verdict = Classify(pkt, len)

\* TEID round trip (spec section 8): once parse_and_validate_gtp has stored
\* a TEID, the frame is a G-PDU to port 2152 and the TEID is exactly the
\* four bytes at offset 4 of the GTP header, as a raw host load.
TeidRoundTrip ==
  teid # NoTeid =>
    /\ WireAt(pkt, UdpOff(pkt) + 2, 2) = GTP_PORT
    /\ pkt[GtpOff(pkt) + 1] = GTP_TYPE_GPDU
    /\ teid = Swap32(WireAt(pkt, GtpOff(pkt) + 4, 4))

\* The inductive strengthening of MemSafe used by the proofs: the IPv4
\* header checked in the IP block is still in bounds when the UDP block
\* loads its ihl byte, and the tag loop has consumed at most one tag per
\* iteration so far.
IInv ==
  /\ TypeOK
  /\ MemSafe
  /\ pc = "eth" => vlan_i = 0
  /\ pc = "vlan" => vlan_i \in 0 .. 1 /\ nh_off <= ETH_HLEN + VLAN_HLEN * vlan_i
  /\ pc = "udp" => nh_off + IPHDR_LEN <= len

\* Tags the unrolled loop has stepped over after i iterations.
TagsConsumed(m, i) == IF i = 0 THEN 0
                      ELSE IF i = 1 THEN (IF Tag1(m) THEN 1 ELSE 0)
                      ELSE Tags(m)

\* validate_ethertype's checks of the Ethernet header, on the wire bytes m
\* of a frame of length l.
EthChecked(m, l) ==
  /\ ETH_HLEN <= l
  /\ Known(m, 12, 2)
  /\ WireAt(m, 12, 2) >= ETH_P_802_3_MIN

\* Where the tag loop stands after i iterations: the offset n is past the
\* tags the design counts so far and inside the frame, h is the host load
\* of the ethertype just before n, and a first tag once stepped over has
\* had its encapsulated type read.
LoopChecked(m, l, n, i, h) ==
  /\ n = ETH_HLEN + VLAN_HLEN * TagsConsumed(m, i)
  /\ n <= l
  /\ Known(m, n - 2, 2)
  /\ h = HostLoad16(m, n - 2)
  /\ i # 0 /\ Tag1(m) => Known(m, 16, 2)

\* The IP block's checks on the header at n: the fixed header fits and
\* the protocol is UDP.
IpChecked(m, l, n) ==
  /\ n + IPHDR_LEN <= l
  /\ Known(m, n + 9, 1)
  /\ m[n + 9] = IPPROTO_UDP

\* The UDP block's: the UDP header u, 4 * ihl bytes after n, fits and its
\* destination port has been read.
UdpChecked(m, l, n, u) ==
  /\ Known(m, n, 1)
  /\ u = UdpOff(m)
  /\ u + UDPHDR_LEN <= l
  /\ Known(m, u + 2, 2)

\* What xdp_upf has established about the frame by the block it is in,
\* stated on the wire bytes: every check it has passed so far is the
\* design's check on the bytes read, nh_off and udp_off are where the
\* design puts the headers, teid is set only by the GTP decoder, and a
\* finished frame carries its prescribed disposition.  The inductive
\* invariant behind DispositionPerSpec, TeidRoundTrip and
\* ImplementsClassifier.
ParseInv ==
  /\ IInv
  /\ pc \notin {"idle", "eth"} =>
       EthChecked(pkt, len) /\ LoopChecked(pkt, len, nh_off, vlan_i, h_proto)
  /\ pc \notin {"idle", "eth", "vlan"} => vlan_i = 2
  /\ pc \in {"ip", "udp", "gtp", "lookup"} => L3Type(pkt) = ETH_P_IP
  /\ pc \in {"udp", "gtp", "lookup"} => IpChecked(pkt, len, nh_off)
  /\ pc \in {"gtp", "lookup"} => UdpChecked(pkt, len, nh_off, udp_off)
  /\ pc = "gtp" => WireAt(pkt, udp_off + 2, 2) = GTP_PORT
  /\ pc = "lookup" => Classify(pkt, len) = Pass
  /\ pc \notin {"idle", "lookup"} => teid = NoTeid
  /\ TeidRoundTrip
  /\ DispositionPerSpec

\* The abstract classifier of the design, with the program's state as its
\* state: a frame is busy while xdp_upf runs on it, the bytes it has
\* loaded are the bytes the classifier has inspected.
Abs == INSTANCE FrameClassifier WITH busy <- (pc # "idle")

\* xdp_upf implements the classifier: it only ever inspects bytes inside
\* the frame, and it returns exactly the disposition the design gives for
\* the bytes it has inspected, deciding nothing on a byte it never read.
ImplementsClassifier == Abs!Spec

\* The spec's data flow has the PDR lookup stage use the TEID extracted
\* from the frame.  xdp_upf reaches PDR_LOOKUP by falling through from a
\* UDP frame on a non-GTP port too, where it reads teid uninitialised.
LookupUsesExtractedTeid == pc = "lookup" => teid # NoTeid

\* The design (sections 3, 6) consumes GTP-v1 headers: a flags byte with
\* version 1 and protocol type GTP (gtp_utils.h defines GTP_FLAGS 0x30 for
\* it).  parse_and_validate_gtp never loads the flags byte, so a header of
\* any version, or none read at all, yields a TEID once its type is 255.
GtpV1Only ==
  teid # NoTeid =>
    /\ pkt[GtpOff(pkt)] \div 32 = 1          \* version
    /\ (pkt[GtpOff(pkt)] \div 16) % 2 = 1    \* protocol type GTP

\* The UDP header is projected after the fixed 20-byte IPv4 header.  The
\* code takes 4 * ihl without checking ihl >= 5, so for ihl < 5 the "UDP
\* header" it reads (and the GTP header after it) overlaps the IPv4 header.
UdpAfterIpHeader == pc \in {"gtp", "lookup"} => udp_off >= nh_off + IPHDR_LEN

=============================================================================
