------------------------- MODULE AccessParserProofs -------------------------
(***************************************************************************)
(* Proofs about AccessParser: the type invariant and memory safety (no    *)
(* byte past data_end is ever loaded) hold in every reachable state, for   *)
(* every frame length bound and every choice of field values.             *)
(***************************************************************************)
EXTENDS AccessParser, TLAPS

ByteRange == Unread .. 255
PktType == [Offsets -> ByteRange]

\* The header sizes and markers are numbers the provers may see.
USE DEF IpHeaderEnd, ETH_HLEN, VLAN_HLEN, IPHDR_LEN, UDPHDR_LEN, GTPHDR_LEN, MaxOff,
        Unread, NoTeid

\* A byte of a wire value is a byte.
LEMMA ByteOfRange ==
  ASSUME NEW v \in Int, NEW w \in {1, 2, 4}, NEW k \in Int
  PROVE  ByteOf(v, w, k) \in 0 .. 255
<1>1. Weight(w, k) \in {1, 256, 65536, 16777216}
  BY DEF Weight
<1>2. QED
  BY <1>1 DEF ByteOf

\* Fixing bytes keeps the byte map a byte map and sets no byte outside
\* the window.
LEMMA FixType ==
  ASSUME NEW m \in PktType, NEW o \in Int, NEW w \in {1, 2, 4}, NEW v \in Int
  PROVE  /\ Fix(m, o, w, v) \in PktType
         /\ \A i \in Offsets : Fix(m, o, w, v)[i] # Unread =>
                                 m[i] # Unread \/ (o <= i /\ i < o + w)
<1>1. \A i \in Offsets : ByteOf(v, w, i - o) \in 0 .. 255
  <2>1. Offsets \subseteq Int
    BY DEF Offsets, MaxOff
  <2>2. TAKE i \in Offsets
  <2>3. i - o \in Int
    BY <2>1
  <2>4. QED
    BY <2>3, ByteOfRange
<1>2. QED
  BY <1>1 DEF Fix, PktType, ByteRange, Unread

\* Inside the window, Fix puts the bytes of the value.
LEMMA FixWindow ==
  ASSUME NEW m \in PktType, NEW o \in Nat, NEW w \in {1, 2, 4}, NEW v \in Int,
         o + w <= MaxOff + 1
  PROVE  \A k \in 0 .. w - 1 : Fix(m, o, w, v)[o + k] \in Nat
<1>1. TAKE k \in 0 .. w - 1
<1>2. o + k \in Offsets
  BY DEF Offsets
<1>3. Fix(m, o, w, v)[o + k] = ByteOf(v, w, k)
  BY <1>2 DEF Fix
<1>4. k \in Int
  OBVIOUS
<1>5. ByteOf(v, w, k) \in 0 .. 255
  BY <1>4, ByteOfRange
<1>6. QED
  BY <1>3, <1>5

\* A load returns an integer, provided the values offered for unread bytes
\* are integers and the window lies in Offsets.
LEMMA LoadChoicesInt ==
  ASSUME NEW m \in PktType, NEW o \in Nat, NEW w \in {1, 2, 4},
         o + w <= MaxOff + 1,
         NEW dom \in SUBSET Int
  PROVE  LoadChoices(m, o, w, dom) \subseteq Int
<1>1. \A k \in 0 .. w - 1 : m[o + k] \in Int
  <2>1. TAKE k \in 0 .. w - 1
  <2>2. o + k \in Offsets
    BY DEF Offsets
  <2>3. m[o + k] \in ByteRange
    BY <2>2 DEF PktType
  <2>4. QED
    BY <2>3 DEF ByteRange
<1>2. WireAt(m, o, w) \in Int
  BY <1>1 DEF WireAt
<1>3. CASE \A k \in 0 .. w - 1 : m[o + k] # Unread
  BY <1>2, <1>3 DEF LoadChoices
<1>4. CASE ~(\A k \in 0 .. w - 1 : m[o + k] # Unread)
  BY <1>4, Zenon DEF LoadChoices
<1>5. QED
  BY <1>3, <1>4

\* A host load of fixed bytes is a natural number.
LEMMA HostLoad16Nat ==
  ASSUME NEW m, NEW o \in Int, m[o] \in Nat, m[o + 1] \in Nat
  PROVE  HostLoad16(m, o) \in Nat
BY DEF HostLoad16

LEMMA HostLoad32Nat ==
  ASSUME NEW m, NEW o \in Int, m[o] \in Nat, m[o + 1] \in Nat,
         m[o + 2] \in Nat, m[o + 3] \in Nat
  PROVE  HostLoad32(m, o) \in Nat
BY DEF HostLoad32, HostLoad16

\* One load of the program, as the actions make it: a w-byte field at o
\* inside the checked window [0, l) is read.  The byte map stays a byte
\* map, no byte at or past l becomes known, and the field's bytes are now
\* known.
LEMMA LoadStep ==
  ASSUME NEW m \in PktType, NEW l \in Int, NEW o \in Nat, NEW w \in {1, 2, 4},
         NEW dom \in SUBSET Int,
         o + w <= l, l <= MaxOff + 1,
         \A i \in Offsets : m[i] # Unread => i < l,
         NEW v \in LoadChoices(m, o, w, dom)
  PROVE  /\ Fix(m, o, w, v) \in PktType
         /\ \A i \in Offsets : Fix(m, o, w, v)[i] # Unread => i < l
         /\ \A k \in 0 .. w - 1 : Fix(m, o, w, v)[o + k] \in Nat
<1>1. v \in Int
  BY LoadChoicesInt
<1>2. /\ Fix(m, o, w, v) \in PktType
      /\ \A i \in Offsets : Fix(m, o, w, v)[i] # Unread =>
                              m[i] # Unread \/ (o <= i /\ i < o + w)
  <2>1. o \in Int
    OBVIOUS
  <2>2. QED
    BY <1>1, <2>1, FixType
<1>3. \A i \in Offsets : Fix(m, o, w, v)[i] # Unread => i < l
  <2>1. SUFFICES ASSUME NEW i \in Offsets, Fix(m, o, w, v)[i] # Unread
                 PROVE  i < l
    OBVIOUS
  <2>2. m[i] # Unread \/ (o <= i /\ i < o + w)
    BY <1>2, <2>1, Zenon
  <2>3. CASE m[i] # Unread
    BY <2>3
  <2>4. CASE o <= i /\ i < o + w
    BY <2>4 DEF Offsets
  <2>5. QED
    BY <2>2, <2>3, <2>4
<1>4. \A k \in 0 .. w - 1 : Fix(m, o, w, v)[o + k] \in Nat
  <2>1. o + w <= MaxOff + 1
    OBVIOUS
  <2>2. QED
    BY <1>1, <2>1, FixWindow
<1>5. QED
  BY <1>2, <1>3, <1>4

-----------------------------------------------------------------------------
(* The inductive invariant.                                                *)

\* Before the first frame nothing has been loaded: IInv holds initially.
THEOREM IInvInit == Init => IInv
<1>1. SUFFICES ASSUME Init PROVE IInv
  OBVIOUS
<1>2. MaxLen \in Nat
  BY ConstantsOK
<1>3. QED
  BY <1>1, <1>2 DEF Init, IInv, TypeOK, MemSafe, Verdicts

\* What the load steps need from IInv and from the constants.
LEMMA IInvFacts ==
  ASSUME IInv
  PROVE  /\ pkt \in PktType
         /\ len \in Int /\ len <= MaxOff + 1
         /\ \A i \in Offsets : pkt[i] # Unread => i < len
<1>1. MaxLen \in Nat /\ MaxLen <= MaxOff + 1
  BY ConstantsOK
<1>2. len \in 0 .. MaxLen
  BY DEF IInv, TypeOK
<1>3. len \in Int /\ len <= MaxOff + 1
  BY <1>1, <1>2
<1>4. pkt \in PktType /\ \A i \in Offsets : pkt[i] # Unread => i < len
  BY Zenon DEF IInv, TypeOK, MemSafe, PktType, ByteRange
<1>5. QED
  BY <1>3, <1>4, Zenon

LEMMA DomainsInt ==
  /\ EtherTypes \subseteq Int
  /\ VerIhlVals \subseteq Int
  /\ ProtoVals \subseteq Int
  /\ PortVals \subseteq Int
  /\ GtpTypeVals \subseteq Int
  /\ TeidVals \subseteq Int
BY ConstantsOK DEF FitsIn

\* The steps that load nothing keep IInv.
LEMMA ReceiveKeeps ==
  ASSUME IInv, Receive
  PROVE  IInv'
<1>1. len' \in 0 .. MaxLen
  BY DEF Receive
<1>2. pkt' \in [Offsets -> Unread .. 255] /\ MemSafe'
  BY DEF Receive, MemSafe
<1>3. QED
  BY <1>1, <1>2 DEF Receive, IInv, TypeOK, Verdicts

LEMMA DispatchKeeps ==
  ASSUME IInv, Dispatch
  PROVE  IInv'
BY DEF Dispatch, Finish, IInv, TypeOK, MemSafe, Verdicts

LEMMA PdrLookupKeeps ==
  ASSUME IInv, PdrLookup
  PROVE  IInv'
BY DEF PdrLookup, Finish, IInv, TypeOK, MemSafe, Verdicts

LEMMA StutterKeeps ==
  ASSUME IInv, UNCHANGED vars
  PROVE  IInv'
BY DEF vars, IInv, TypeOK, MemSafe, Verdicts

\* validate_ethertype's first load (the ethertype at 12) is inside the
\* checked 14 bytes.
LEMMA EthHeaderKeeps ==
  ASSUME IInv, EthHeader
  PROVE  IInv'
<1>1. CASE ETH_HLEN > len
  BY <1>1 DEF EthHeader, Finish, IInv, TypeOK, MemSafe, Verdicts
<1>2. CASE ~(ETH_HLEN > len)
  <2>1. PICK v \in LoadChoices(pkt, 12, 2, EtherTypes) :
          /\ pkt' = Fix(pkt, 12, 2, v)
          /\ h_proto' = HostLoad16(pkt', 12)
          /\ pc' \in {"idle", "vlan"}
          /\ verdict' \in Verdicts \cup {verdict}
          /\ UNCHANGED <<vlan_i, len, udp_off, teid>>
          /\ nh_off' = ETH_HLEN
    BY <1>2 DEF EthHeader, Finish, Verdicts
  <2>2. /\ Fix(pkt, 12, 2, v) \in PktType
        /\ \A i \in Offsets : Fix(pkt, 12, 2, v)[i] # Unread => i < len
        /\ \A k \in 0 .. 2 - 1 : Fix(pkt, 12, 2, v)[12 + k] \in Nat
    <3>1. 12 + 2 <= len
      BY <1>2, IInvFacts
    <3>2. 12 \in Nat /\ 2 \in {1, 2, 4} /\ EtherTypes \in SUBSET Int
      BY DomainsInt
    <3>3. QED
      BY <3>1, <3>2, IInvFacts, LoadStep, Zenon
  <2>3. pkt'[12] \in Nat /\ pkt'[12 + 1] \in Nat
    BY <2>1, <2>2
  <2>4. h_proto' \in Nat
    BY <2>1, <2>3, HostLoad16Nat
  <2>5. TypeOK'
    <3>1. pkt' \in [Offsets -> Unread .. 255]
      BY <2>1, <2>2 DEF PktType, ByteRange
    <3>2. QED
      BY <2>1, <2>4, <3>1 DEF IInv, TypeOK, Verdicts
  <2>6. MemSafe'
    BY <2>1, <2>2 DEF MemSafe
  <2>7. pc = "eth" /\ vlan_i = 0
    BY DEF EthHeader, IInv
  <2>8. QED
    BY <2>1, <2>5, <2>6, <2>7 DEF IInv
<1>3. QED
  BY <1>1, <1>2

\* An iteration of the tag loop loads the encapsulated proto only after the
\* check that the tag lies inside the frame, and consumes one tag at most.
LEMMA VlanTagKeeps ==
  ASSUME IInv, VlanTag
  PROVE  IInv'
<1> DEFINE next == IF vlan_i + 1 = VLAN_LOOP_ITERS THEN "dispatch" ELSE "vlan"
<1>1. /\ pc = "vlan" /\ vlan_i \in 0 .. 1 /\ nh_off \in Nat
      /\ nh_off <= ETH_HLEN + VLAN_HLEN * vlan_i
  BY DEF VlanTag, IInv, TypeOK
<1>2. next = "vlan" => vlan_i + 1 = 1
  BY <1>1 DEF VLAN_LOOP_ITERS
<1>3. next \in {"vlan", "dispatch"} /\ vlan_i + 1 \in 0 .. 2
  BY <1>1
<1>4. CASE h_proto \in {Swap16(ETH_P_8021Q), Swap16(ETH_P_8021AD)}
  <2>1. nh_off' = nh_off + VLAN_HLEN
    BY <1>4 DEF VlanTag
  <2>2. CASE nh_off + VLAN_HLEN > len
    <3>1. /\ pc' = "idle" /\ verdict' = "XDP_DROP"
          /\ UNCHANGED <<pkt, h_proto, vlan_i, len, udp_off, teid>>
      BY <1>4, <2>1, <2>2 DEF VlanTag, Finish
    <3>2. QED
      BY <1>1, <2>1, <3>1 DEF IInv, TypeOK, MemSafe, Verdicts
  <2>3. CASE ~(nh_off + VLAN_HLEN > len)
    <3>1. PICK v \in LoadChoices(pkt, nh_off + 2, 2, EtherTypes) :
            /\ pkt' = Fix(pkt, nh_off + 2, 2, v)
            /\ h_proto' = HostLoad16(pkt', nh_off + 2)
            /\ vlan_i' = vlan_i + 1
            /\ pc' = next
            /\ UNCHANGED <<verdict, len, udp_off, teid>>
      BY <1>4, <2>1, <2>3 DEF VlanTag
    <3>2. /\ Fix(pkt, nh_off + 2, 2, v) \in PktType
          /\ \A i \in Offsets : Fix(pkt, nh_off + 2, 2, v)[i] # Unread => i < len
          /\ \A k \in 0 .. 2 - 1 : Fix(pkt, nh_off + 2, 2, v)[nh_off + 2 + k] \in Nat
      <4>1. nh_off + 2 + 2 <= len
        BY <1>1, <2>3, IInvFacts
      <4>2. nh_off + 2 \in Nat /\ 2 \in {1, 2, 4} /\ EtherTypes \in SUBSET Int
        BY <1>1, DomainsInt
      <4>3. QED
        BY <4>1, <4>2, IInvFacts, LoadStep, Zenon
    <3>3. pkt'[nh_off + 2] \in Nat /\ pkt'[nh_off + 2 + 1] \in Nat
      BY <1>1, <3>1, <3>2
    <3>4. h_proto' \in Nat
      BY <1>1, <3>1, <3>3, HostLoad16Nat
    <3>5. TypeOK'
      <4>1. pkt' \in [Offsets -> Unread .. 255]
        BY <3>1, <3>2 DEF PktType, ByteRange
      <4>2. nh_off' \in 0 .. ETH_HLEN + 2 * VLAN_HLEN
        BY <1>1, <2>1
      <4>3. QED
        BY <1>3, <3>1, <3>4, <4>1, <4>2 DEF IInv, TypeOK
    <3>6. MemSafe'
      BY <3>1, <3>2 DEF MemSafe
    <3>7. QED
      BY <1>1, <1>2, <2>1, <3>1, <3>5, <3>6 DEF IInv
  <2>4. QED
    BY <2>2, <2>3
<1>5. CASE ~(h_proto \in {Swap16(ETH_P_8021Q), Swap16(ETH_P_8021AD)})
  <2>1. /\ vlan_i' = vlan_i + 1 /\ pc' = next
        /\ UNCHANGED <<pkt, nh_off, h_proto, verdict, len, udp_off, teid>>
    BY <1>5 DEF VlanTag
  <2>2. QED
    BY <1>1, <1>2, <1>3, <2>1 DEF IInv, TypeOK, MemSafe
<1>6. QED
  BY <1>4, <1>5

\* The IP block loads the protocol byte only after checking the 20-byte
\* header, and enters the UDP block with that check still holding.
LEMMA IPv4Keeps ==
  ASSUME IInv, IPv4
  PROVE  IInv'
<1>1. pc = "ip" /\ nh_off \in 0 .. ETH_HLEN + 2 * VLAN_HLEN
  BY DEF IPv4, IInv, TypeOK
<1>2. CASE nh_off + IPHDR_LEN > len
  <2>1. /\ pc' = "idle" /\ verdict' = "XDP_DROP"
        /\ UNCHANGED <<pkt, len, nh_off, vlan_i, h_proto, udp_off, teid>>
    BY <1>2 DEF IPv4, Finish
  <2>2. QED
    BY <2>1 DEF IInv, TypeOK, MemSafe, Verdicts
<1>3. CASE ~(nh_off + IPHDR_LEN > len)
  <2>1. PICK p \in LoadChoices(pkt, nh_off + 9, 1, ProtoVals) :
          /\ pkt' = Fix(pkt, nh_off + 9, 1, p)
          /\ pc' \in {"idle", "udp"}
          /\ verdict' \in Verdicts \cup {verdict}
          /\ UNCHANGED <<len, nh_off, vlan_i, h_proto, udp_off, teid>>
    BY <1>3 DEF IPv4, Finish, Verdicts
  <2>2. /\ Fix(pkt, nh_off + 9, 1, p) \in PktType
        /\ \A i \in Offsets : Fix(pkt, nh_off + 9, 1, p)[i] # Unread => i < len
    <3>1. nh_off + 9 + 1 <= len
      BY <1>1, <1>3, IInvFacts
    <3>2. nh_off + 9 \in Nat /\ 1 \in {1, 2, 4} /\ ProtoVals \in SUBSET Int
      BY <1>1, DomainsInt
    <3>3. QED
      BY <3>1, <3>2, IInvFacts, LoadStep, Zenon
  <2>3. TypeOK'
    <3>1. pkt' \in [Offsets -> Unread .. 255]
      BY <2>1, <2>2 DEF PktType, ByteRange
    <3>2. QED
      BY <2>1, <3>1 DEF IInv, TypeOK, Verdicts
  <2>4. MemSafe'
    BY <2>1, <2>2 DEF MemSafe
  <2>5. nh_off' + IPHDR_LEN <= len'
    BY <1>1, <1>3, <2>1, IInvFacts
  <2>6. QED
    BY <2>1, <2>3, <2>4, <2>5 DEF IInv
<1>4. QED
  BY <1>2, <1>3

\* The UDP block loads the ihl byte inside the IPv4 header checked before,
\* and the destination port only after checking the UDP header it projects.
LEMMA UDPKeeps ==
  ASSUME IInv, UDP
  PROVE  IInv'
<1> DEFINE pkt1(x) == Fix(pkt, nh_off, 1, x)
           off(x)  == nh_off + 4 * (x % 16)
<1>1. /\ pc = "udp" /\ nh_off \in 0 .. ETH_HLEN + 2 * VLAN_HLEN
      /\ nh_off + IPHDR_LEN <= len
      /\ UNCHANGED <<len, nh_off, vlan_i, h_proto, teid>>
  BY DEF UDP, IInv, TypeOK
<1>2. PICK b \in LoadChoices(pkt, nh_off, 1, VerIhlVals) :
        /\ udp_off' = off(b)
        /\ IF off(b) + UDPHDR_LEN > len
             THEN pc' = "idle" /\ verdict' = "XDP_DROP" /\ pkt' = pkt1(b)
             ELSE \E d \in LoadChoices(pkt1(b), off(b) + 2, 2, PortVals) :
                    /\ pkt' = Fix(pkt1(b), off(b) + 2, 2, d)
                    /\ pc' \in {"gtp", "lookup"}
                    /\ verdict' = verdict
  BY DEF UDP, Finish
<1>3. /\ pkt1(b) \in PktType
      /\ \A i \in Offsets : pkt1(b)[i] # Unread => i < len
  <2>1. nh_off + 1 <= len
    BY <1>1, IInvFacts
  <2>2. nh_off \in Nat /\ 1 \in {1, 2, 4} /\ VerIhlVals \in SUBSET Int
    BY <1>1, DomainsInt
  <2>3. QED
    BY <2>1, <2>2, IInvFacts, LoadStep, Zenon
<1>4. off(b) \in 0 .. ETH_HLEN + 2 * VLAN_HLEN + 4 * 15
  <2>1. b \in Int
    <3>1. nh_off \in Nat /\ nh_off + 1 <= MaxOff + 1 /\ VerIhlVals \in SUBSET Int
      BY <1>1, DomainsInt
    <3>2. QED
      BY <3>1, IInvFacts, LoadChoicesInt, Zenon
  <2>2. b % 16 \in 0 .. 15
    BY <2>1
  <2>3. QED
    BY <1>1, <2>2
<1>5. CASE off(b) + UDPHDR_LEN > len
  <2>1. pc' = "idle" /\ verdict' = "XDP_DROP" /\ pkt' = pkt1(b)
    BY <1>2, <1>5
  <2>2. TypeOK'
    <3>1. pkt' \in [Offsets -> Unread .. 255]
      BY <1>3, <2>1 DEF PktType, ByteRange
    <3>2. QED
      BY <1>1, <1>2, <1>4, <2>1, <3>1 DEF IInv, TypeOK, Verdicts
  <2>3. QED
    BY <1>1, <1>3, <2>1, <2>2 DEF IInv, MemSafe
<1>6. CASE ~(off(b) + UDPHDR_LEN > len)
  <2>1. PICK d \in LoadChoices(pkt1(b), off(b) + 2, 2, PortVals) :
          /\ pkt' = Fix(pkt1(b), off(b) + 2, 2, d)
          /\ pc' \in {"gtp", "lookup"}
          /\ verdict' = verdict
    BY <1>2, <1>6
  <2>2. /\ Fix(pkt1(b), off(b) + 2, 2, d) \in PktType
        /\ \A i \in Offsets : Fix(pkt1(b), off(b) + 2, 2, d)[i] # Unread => i < len
    <3>1. off(b) + 2 + 2 <= len
      BY <1>4, <1>6, IInvFacts
    <3>2. off(b) + 2 \in Nat /\ 2 \in {1, 2, 4} /\ PortVals \in SUBSET Int
      BY <1>4, DomainsInt
    <3>3. len \in Int /\ len <= MaxOff + 1
      BY IInvFacts
    <3>4. QED
      BY <1>3, <3>1, <3>2, <3>3, LoadStep, Zenon
  <2>3. TypeOK'
    <3>1. pkt' \in [Offsets -> Unread .. 255]
      BY <2>1, <2>2 DEF PktType, ByteRange
    <3>2. QED
      BY <1>1, <1>2, <1>4, <2>1, <3>1 DEF IInv, TypeOK
  <2>4. QED
    BY <1>1, <2>1, <2>2, <2>3 DEF IInv, MemSafe
<1>7. QED
  BY <1>5, <1>6

\* parse_and_validate_gtp loads the message type and the TEID only after
\* checking the whole 8-byte GTP header, and the TEID it stores is the
\* host value of four known bytes.
LEMMA GTPKeeps ==
  ASSUME IInv, GTP
  PROVE  IInv'
<1> DEFINE gtp == udp_off + UDPHDR_LEN
           pkt1(x) == Fix(pkt, gtp + 1, 1, x)
<1>1. /\ pc = "gtp" /\ udp_off \in 0 .. ETH_HLEN + 2 * VLAN_HLEN + 4 * 15
      /\ UNCHANGED <<len, nh_off, vlan_i, h_proto, udp_off>>
  BY DEF GTP, IInv, TypeOK
<1>2. CASE GtpWindowEnd(udp_off) > len
  <2>1. /\ pc' = "idle" /\ verdict' = "XDP_DROP"
        /\ UNCHANGED <<pkt, teid>>
    BY <1>2 DEF GTP, Finish
  <2>2. QED
    BY <1>1, <2>1 DEF IInv, TypeOK, MemSafe, Verdicts
<1>3. CASE ~(GtpWindowEnd(udp_off) > len)
  <2>1. gtp + GTPHDR_LEN <= len
    BY <1>1, <1>3, IInvFacts DEF GtpWindowEnd
  <2>2. PICK t \in LoadChoices(pkt, gtp + 1, 1, GtpTypeVals) :
          IF t # GTP_TYPE_GPDU
            THEN pc' = "idle" /\ verdict' = "XDP_DROP" /\ pkt' = pkt1(t) /\ teid' = teid
            ELSE \E id \in LoadChoices(pkt1(t), gtp + 4, 4, TeidVals) :
                   /\ pkt' = Fix(pkt1(t), gtp + 4, 4, id)
                   /\ teid' = TeidFromWire(pkt', gtp + 4)
                   /\ pc' = "lookup"
                   /\ verdict' = verdict
    BY <1>3 DEF GTP, Finish
  <2>3. /\ pkt1(t) \in PktType
        /\ \A i \in Offsets : pkt1(t)[i] # Unread => i < len
    <3>1. gtp + 1 + 1 <= len
      BY <1>1, <2>1, IInvFacts
    <3>2. gtp + 1 \in Nat /\ 1 \in {1, 2, 4} /\ GtpTypeVals \in SUBSET Int
      BY <1>1, DomainsInt
    <3>3. QED
      BY <3>1, <3>2, IInvFacts, LoadStep, Zenon
  <2>4. CASE t # GTP_TYPE_GPDU
    <3>1. pc' = "idle" /\ verdict' = "XDP_DROP" /\ pkt' = pkt1(t) /\ teid' = teid
      BY <2>2, <2>4
    <3>2. pkt' \in [Offsets -> Unread .. 255]
      BY <2>3, <3>1 DEF PktType, ByteRange
    <3>3. QED
      BY <1>1, <2>3, <3>1, <3>2 DEF IInv, TypeOK, MemSafe, Verdicts
  <2>5. CASE t = GTP_TYPE_GPDU
    <3>1. PICK id \in LoadChoices(pkt1(t), gtp + 4, 4, TeidVals) :
            /\ pkt' = Fix(pkt1(t), gtp + 4, 4, id)
            /\ teid' = TeidFromWire(pkt', gtp + 4)
            /\ pc' = "lookup"
            /\ verdict' = verdict
      BY <2>2, <2>5
    <3>2. /\ Fix(pkt1(t), gtp + 4, 4, id) \in PktType
          /\ \A i \in Offsets : Fix(pkt1(t), gtp + 4, 4, id)[i] # Unread => i < len
          /\ \A k \in 0 .. 4 - 1 : Fix(pkt1(t), gtp + 4, 4, id)[gtp + 4 + k] \in Nat
      <4>1. gtp + 4 + 4 <= len
        BY <1>1, <2>1
      <4>2. gtp + 4 \in Nat /\ 4 \in {1, 2, 4} /\ TeidVals \in SUBSET Int
        BY <1>1, DomainsInt
      <4>3. len \in Int /\ len <= MaxOff + 1
        BY IInvFacts
      <4>4. QED
        BY <2>3, <4>1, <4>2, <4>3, LoadStep, Zenon
    <3>3. /\ pkt'[gtp + 4] \in Nat /\ pkt'[gtp + 4 + 1] \in Nat
          /\ pkt'[gtp + 4 + 2] \in Nat /\ pkt'[gtp + 4 + 3] \in Nat
      BY <1>1, <3>1, <3>2
    <3>4. teid' \in Nat
      BY <1>1, <3>1, <3>3, HostLoad32Nat DEF TeidFromWire
    <3>5. pkt' \in [Offsets -> Unread .. 255]
      BY <3>1, <3>2 DEF PktType, ByteRange
    <3>6. QED
      BY <1>1, <3>1, <3>2, <3>4, <3>5 DEF IInv, TypeOK, MemSafe
  <2>6. QED
    BY <2>4, <2>5
<1>4. QED
  BY <1>2, <1>3

\* IInv is inductive: every block of xdp_upf, and a stutter, keeps it.
THEOREM IInvStep == IInv /\ [Next]_vars => IInv'
<1> SUFFICES ASSUME IInv, [Next]_vars PROVE IInv'
  OBVIOUS
<1>1. CASE Receive
  BY <1>1, ReceiveKeeps
<1>2. CASE EthHeader
  BY <1>2, EthHeaderKeeps
<1>3. CASE VlanTag
  BY <1>3, VlanTagKeeps
<1>4. CASE Dispatch
  BY <1>4, DispatchKeeps
<1>5. CASE IPv4
  BY <1>5, IPv4Keeps
<1>6. CASE UDP
  BY <1>6, UDPKeeps
<1>7. CASE GTP
  BY <1>7, GTPKeeps
<1>8. CASE PdrLookup
  BY <1>8, PdrLookupKeeps
<1>9. CASE UNCHANGED vars
  BY <1>9, StutterKeeps
<1>10. QED
  BY <1>1, <1>2, <1>3, <1>4, <1>5, <1>6, <1>7, <1>8, <1>9 DEF Next

\* The inductive invariant holds in every state of the access program:
\* the IPv4 header checked by the IP block is still in bounds when the UDP
\* block loads ihl, and the VLAN loop has advanced at most one tag per pass.
THEOREM IInvHolds == Spec => []IInv
  BY IInvInit, IInvStep, PTL DEF Spec

\* Type correctness of xdp_upf's state: every offset stays within the
\* headers it can project, every loaded byte is a byte, and teid is
\* either unset or a 32-bit host value, for every MaxLen and field values.
THEOREM TypeCorrect == Spec => []TypeOK
<1>1. IInv => TypeOK
  BY DEF IInv
<1>2. QED
  BY <1>1, IInvInit, IInvStep, PTL DEF Spec

\* Memory safety of the access parser: no load of xdp_upf,
\* validate_ethertype or parse_and_validate_gtp reads a byte at or past
\* data_end, whatever the frame length and header contents.
THEOREM MemorySafety == Spec => []MemSafe
<1>1. IInv => MemSafe
  BY DEF IInv
<1>2. QED
  BY <1>1, IInvInit, IInvStep, PTL DEF Spec

=============================================================================
