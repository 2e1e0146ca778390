----------------------- MODULE AccessParserRefinement -----------------------
(***************************************************************************)
(* Proofs that xdp_upf classifies every frame as the design prescribes:   *)
(* the disposition it returns is Classify of the bytes it loaded, the TEID *)
(* it stores is the wire TEID of a G-PDU on port 2152, and the program     *)
(* refines the abstract FrameClassifier, for every frame length bound and *)
(* every choice of field values.                                          *)
(***************************************************************************)
EXTENDS AccessParserProofs

USE DEF ETH_P_802_3_MIN, ETH_P_IP, ETH_P_8021Q, ETH_P_8021AD, IPPROTO_UDP,
        GTP_PORT, GTP_TYPE_GPDU, IpHeaderEnd, ETH_HLEN, VLAN_HLEN, IPHDR_LEN,
        UDPHDR_LEN, GTPHDR_LEN, MaxOff, Unread, NoTeid

-----------------------------------------------------------------------------
(* Byte order.                                                             *)

\* Splitting a number into its low byte and the rest, and into its low
\* 16 bits and the rest.
LEMMA DivMod256 ==
  ASSUME NEW q \in Int, NEW r \in Int, 0 <= r, r < 256
  PROVE  (q * 256 + r) % 256 = r /\ (q * 256 + r) \div 256 = q
OBVIOUS

LEMMA DivMod65536 ==
  ASSUME NEW q \in Int, NEW r \in Int, 0 <= r, r < 65536
  PROVE  (q * 65536 + r) % 65536 = r /\ (q * 65536 + r) \div 65536 = q
OBVIOUS

\* bpf_htons swaps the two bytes of a 16-bit value.
LEMMA Swap16Bytes ==
  ASSUME NEW a \in Int, NEW b \in Int, 0 <= a, a < 256, 0 <= b, b < 256
  PROVE  /\ a * 256 + b \in Nat /\ a * 256 + b < 65536
         /\ Swap16(a * 256 + b) = b * 256 + a
<1>1. (a * 256 + b) % 256 = b /\ (a * 256 + b) \div 256 = a
  BY DivMod256
<1>2. QED
  BY <1>1 DEF Swap16

\* bpf_ntohs undoes bpf_htons on 16-bit values.
LEMMA SwapSwap16 ==
  ASSUME NEW x \in Nat, x < 65536
  PROVE  Swap16(x) \in Nat /\ Swap16(x) < 65536 /\ Swap16(Swap16(x)) = x
<1> DEFINE hi == x \div 256  lo == x % 256
<1>1. hi \in Int /\ 0 <= hi /\ hi < 256 /\ lo \in Int /\ 0 <= lo /\ lo < 256
  OBVIOUS
<1>2. x = hi * 256 + lo
  OBVIOUS
<1>3. Swap16(x) = lo * 256 + hi
  BY DEF Swap16
<1>4. QED
  BY <1>1, <1>2, <1>3, Swap16Bytes

\* A little-endian host load of a __be16 is the byte-swapped wire value.
LEMMA HostIsSwap16 ==
  ASSUME NEW m, NEW o \in Int,
         m[o] \in Int, 0 <= m[o], m[o] < 256,
         m[o + 1] \in Int, 0 <= m[o + 1], m[o + 1] < 256
  PROVE  /\ WireAt(m, o, 2) \in Nat /\ WireAt(m, o, 2) < 65536
         /\ HostLoad16(m, o) = Swap16(WireAt(m, o, 2))
<1>1. WireAt(m, o, 2) = m[o] * 256 + m[o + 1]
  BY DEF WireAt
<1>2. HostLoad16(m, o) = m[o + 1] * 256 + m[o]
  BY DEF HostLoad16
<1>3. /\ m[o] * 256 + m[o + 1] \in Nat /\ m[o] * 256 + m[o + 1] < 65536
      /\ Swap16(m[o] * 256 + m[o + 1]) = m[o + 1] * 256 + m[o]
  BY Swap16Bytes
<1>4. QED
  BY <1>1, <1>2, <1>3

\* bpf_htonl swaps the two 16-bit halves and the bytes within each.
LEMMA Swap32Halves ==
  ASSUME NEW hi \in Nat, hi < 65536, NEW lo \in Nat, lo < 65536
  PROVE  Swap32(hi * 65536 + lo) = Swap16(lo) * 65536 + Swap16(hi)
<1>1. (hi * 65536 + lo) % 65536 = lo /\ (hi * 65536 + lo) \div 65536 = hi
  BY DivMod65536
<1>2. QED
  BY <1>1 DEF Swap32

\* The same for a __be32: the raw load is bpf_htonl of the wire value.
LEMMA HostIsSwap32 ==
  ASSUME NEW m, NEW o \in Int,
         \A k \in 0 .. 3 : m[o + k] \in Int /\ 0 <= m[o + k] /\ m[o + k] < 256
  PROVE  HostLoad32(m, o) = Swap32(WireAt(m, o, 4))
<1> DEFINE b0 == m[o]  b1 == m[o + 1]  b2 == m[o + 2]  b3 == m[o + 3]
<1>1. /\ b0 \in Int /\ 0 <= b0 /\ b0 < 256 /\ b1 \in Int /\ 0 <= b1 /\ b1 < 256
      /\ b2 \in Int /\ 0 <= b2 /\ b2 < 256 /\ b3 \in Int /\ 0 <= b3 /\ b3 < 256
  <2>1. o + 0 = o
    OBVIOUS
  <2>2. QED
    BY <2>1
<1>2. PICK hi \in Nat : hi = b0 * 256 + b1
  BY <1>1
<1>3. PICK lo \in Nat : lo = b2 * 256 + b3
  BY <1>1
<1>4. hi < 65536 /\ Swap16(hi) = b1 * 256 + b0
  BY <1>1, <1>2, Swap16Bytes
<1>5. lo < 65536 /\ Swap16(lo) = b3 * 256 + b2
  BY <1>1, <1>3, Swap16Bytes
<1>6. WireAt(m, o, 4) = hi * 65536 + lo
  BY <1>2, <1>3 DEF WireAt
<1>7. Swap32(hi * 65536 + lo) = Swap16(lo) * 65536 + Swap16(hi)
  BY <1>4, <1>5, Swap32Halves
<1>8. HostLoad32(m, o) = (b1 * 256 + b0) + 65536 * (b3 * 256 + b2)
  BY DEF HostLoad32, HostLoad16
<1>9. QED
  BY <1>4, <1>5, <1>6, <1>7, <1>8

\* The bytes of a 2-byte big-endian value.
LEMMA Bytes2 ==
  ASSUME NEW a \in Int, NEW b \in Int, 0 <= a, a < 256, 0 <= b, b < 256
  PROVE  ByteOf(a * 256 + b, 2, 0) = a /\ ByteOf(a * 256 + b, 2, 1) = b
<1>1. (a * 256 + b) % 256 = b /\ (a * 256 + b) \div 256 = a
  BY DivMod256
<1>2. QED
  BY <1>1 DEF ByteOf, Weight

\* Reading back the bytes of the wire value of the 4 bytes at o.
LEMMA WireBytes4 ==
  ASSUME NEW m, NEW o \in Int,
         \A k \in 0 .. 3 : m[o + k] \in Int /\ 0 <= m[o + k] /\ m[o + k] < 256
  PROVE  \A k \in 0 .. 3 : ByteOf(WireAt(m, o, 4), 4, k) = m[o + k]
<1>1. o + 0 = o
  OBVIOUS
<1>2. PICK a \in Int : a = m[o] /\ 0 <= a /\ a < 256
  BY <1>1
<1>3. PICK b \in Int : b = m[o + 1] /\ 0 <= b /\ b < 256
  OBVIOUS
<1>4. PICK c \in Int : c = m[o + 2] /\ 0 <= c /\ c < 256
  OBVIOUS
<1>5. PICK d \in Int : d = m[o + 3] /\ 0 <= d /\ d < 256
  OBVIOUS
<1>6. PICK y \in Int : y = a * 256 + b
  OBVIOUS
<1>7. PICK x \in Int : x = y * 256 + c
  OBVIOUS
<1>8. PICK W \in Int : W = x * 256 + d
  OBVIOUS
<1>9. WireAt(m, o, 4) = W
  BY <1>2, <1>3, <1>4, <1>5, <1>6, <1>7, <1>8 DEF WireAt
<1>10. W % 256 = d /\ W \div 256 = x
  BY <1>5, <1>8
<1>11. x % 256 = c
  BY <1>4, <1>7
<1>12. W \div 65536 = y
  BY <1>4, <1>5, <1>7, <1>8
<1>13. y % 256 = b
  BY <1>3, <1>6
<1>14. W \div 16777216 = a
  BY <1>2, <1>3, <1>4, <1>5, <1>6, <1>7, <1>8
<1>15. /\ ByteOf(W, 4, 0) = a /\ ByteOf(W, 4, 1) = b
       /\ ByteOf(W, 4, 2) = c /\ ByteOf(W, 4, 3) = d
  BY <1>2, <1>10, <1>11, <1>12, <1>13, <1>14 DEF ByteOf, Weight
<1>16. TAKE k \in 0 .. 3
<1>17. k = 0 \/ k = 1 \/ k = 2 \/ k = 3
  OBVIOUS
<1>18. CASE k = 0
  BY <1>1, <1>2, <1>9, <1>15, <1>18
<1>19. CASE k = 1
  BY <1>3, <1>9, <1>15, <1>19
<1>20. CASE k = 2
  BY <1>4, <1>9, <1>15, <1>20
<1>21. CASE k = 3
  BY <1>5, <1>9, <1>15, <1>21
<1>22. QED
  BY <1>17, <1>18, <1>19, <1>20, <1>21

\* Reading back byte k of the w-byte wire value of w bytes gives byte k.
LEMMA ByteOfWire ==
  ASSUME NEW m, NEW o \in Int, NEW w \in {1, 2, 4},
         \A k \in 0 .. w - 1 : m[o + k] \in Int /\ 0 <= m[o + k] /\ m[o + k] < 256
  PROVE  \A k \in 0 .. w - 1 : ByteOf(WireAt(m, o, w), w, k) = m[o + k]
<1>1. o + 0 = o
  OBVIOUS
<1>2. PICK a \in Int : a = m[o] /\ 0 <= a /\ a < 256
  BY <1>1
<1>3. CASE w = 1
  <2>1. ByteOf(WireAt(m, o, 1), 1, 0) = m[o]
    BY <1>2 DEF ByteOf, Weight, WireAt
  <2>2. QED
    BY <1>1, <1>3, <2>1
<1>4. CASE w = 2
  <2>1. PICK b \in Int : b = m[o + 1] /\ 0 <= b /\ b < 256
    BY <1>4
  <2>2. ByteOf(WireAt(m, o, 2), 2, 0) = a /\ ByteOf(WireAt(m, o, 2), 2, 1) = b
    <3>1. WireAt(m, o, 2) = a * 256 + b
      BY <1>2, <2>1 DEF WireAt
    <3>2. QED
      BY <1>2, <2>1, <3>1, Bytes2
  <2>3. QED
    BY <1>1, <1>2, <1>4, <2>1, <2>2
<1>5. CASE w = 4
  <2>1. \A k \in 0 .. 3 : m[o + k] \in Int /\ 0 <= m[o + k] /\ m[o + k] < 256
    BY <1>5
  <2>2. \A k \in 0 .. 3 : ByteOf(WireAt(m, o, 4), 4, k) = m[o + k]
    BY <2>1, WireBytes4
  <2>3. QED
    BY <1>5, <2>2
<1>6. QED
  BY <1>3, <1>4, <1>5

-----------------------------------------------------------------------------
(* Loads.                                                                  *)

\* m2 agrees with m on every byte m has read.
Extends(m, m2) == \A i \in Offsets : m[i] # Unread => m2[i] = m[i]

\* A load never changes a byte that an earlier load fixed: when all its
\* bytes are known it reads back their value, otherwise the value chosen
\* agrees with every known byte.
LEMMA FixExtends ==
  ASSUME NEW m \in PktType, NEW o \in Nat, NEW w \in {1, 2, 4},
         o + w <= MaxOff + 1, NEW dom \in SUBSET Int,
         NEW v \in LoadChoices(m, o, w, dom)
  PROVE  Extends(m, Fix(m, o, w, v))
<1>1. SUFFICES ASSUME NEW i \in Offsets, m[i] # Unread
               PROVE  Fix(m, o, w, v)[i] = m[i]
  BY DEF Extends
<1>2. CASE ~(o <= i /\ i < o + w)
  BY <1>2 DEF Fix
<1>3. CASE o <= i /\ i < o + w
  <2>1. PICK k \in 0 .. w - 1 : i = o + k
    BY <1>3 DEF Offsets
  <2>2. Fix(m, o, w, v)[i] = ByteOf(v, w, k)
    BY <1>3, <2>1 DEF Fix
  <2>3. CASE \A j \in 0 .. w - 1 : m[o + j] # Unread
    <3>1. v = WireAt(m, o, w)
      BY <2>3 DEF LoadChoices
    <3>2. \A j \in 0 .. w - 1 : m[o + j] \in Int /\ 0 <= m[o + j] /\ m[o + j] < 256
      <4>1. TAKE j \in 0 .. w - 1
      <4>2. o + j \in Offsets
        BY DEF Offsets
      <4>3. m[o + j] \in Unread .. 255 /\ m[o + j] # Unread
        BY <2>3, <4>2 DEF PktType, ByteRange
      <4>4. QED
        BY <4>3
    <3>3. ByteOf(WireAt(m, o, w), w, k) = m[o + k]
      BY <3>2, ByteOfWire
    <3>4. QED
      BY <2>1, <2>2, <3>1, <3>3
  <2>4. CASE ~(\A j \in 0 .. w - 1 : m[o + j] # Unread)
    <3>1. \A j \in 0 .. w - 1 : m[o + j] \in {Unread, ByteOf(v, w, j)}
      BY <2>4 DEF LoadChoices
    <3>2. QED
      BY <1>1, <2>1, <2>2, <3>1
  <2>5. QED
    BY <2>3, <2>4
<1>4. QED
  BY <1>2, <1>3

\* Extends is a preorder.
LEMMA ExtendsTrans ==
  ASSUME NEW m1, NEW m2, NEW m3, Extends(m1, m2), Extends(m2, m3)
  PROVE  Extends(m1, m3)
BY DEF Extends

\* A window whose bytes are all known keeps them, and so its wire value
\* and its host load, in any extension.
LEMMA ExtendsWire ==
  ASSUME NEW m, NEW m2, Extends(m, m2), NEW o \in Nat, NEW w \in {1, 2, 4},
         o + w <= MaxOff + 1, Known(m, o, w)
  PROVE  /\ Known(m2, o, w)
         /\ WireAt(m2, o, w) = WireAt(m, o, w)
         /\ w = 2 => HostLoad16(m2, o) = HostLoad16(m, o)
<1>1. \A k \in 0 .. w - 1 : m2[o + k] = m[o + k] /\ m[o + k] # Unread
  BY DEF Extends, Known, Offsets
<1>2. Known(m2, o, w)
  BY <1>1 DEF Known
<1>3. o + 0 = o
  OBVIOUS
<1>4. CASE w = 1
  BY <1>1, <1>2, <1>3, <1>4 DEF WireAt
<1>5. CASE w = 2
  BY <1>1, <1>2, <1>3, <1>5 DEF WireAt, HostLoad16
<1>6. CASE w = 4
  BY <1>1, <1>2, <1>3, <1>6 DEF WireAt
<1>7. QED
  BY <1>4, <1>5, <1>6

\* A one-byte load of a field whose values are bytes yields the byte it
\* fixes.
LEMMA LoadByte ==
  ASSUME NEW m \in PktType, NEW o \in Nat, o < MaxOff + 1,
         NEW dom \in SUBSET Int, FitsIn(dom, 256),
         NEW v \in LoadChoices(m, o, 1, dom)
  PROVE  v \in Nat /\ v < 256 /\ Fix(m, o, 1, v)[o] = v
<1>1. o + 0 = o /\ o \in Offsets
  BY DEF Offsets
<1>2. v \in Nat /\ v < 256
  <2>1. CASE m[o] # Unread
    <3>1. v = m[o]
      BY <1>1, <2>1 DEF LoadChoices, WireAt
    <3>2. QED
      BY <1>1, <2>1, <3>1 DEF PktType, ByteRange
  <2>2. CASE m[o] = Unread
    <3>1. ~(\A k \in 0 .. 1 - 1 : m[o + k] # Unread)
      BY <1>1, <2>2
    <3>2. v \in dom
      BY <3>1 DEF LoadChoices
    <3>3. QED
      BY <3>2 DEF FitsIn
  <2>3. QED
    BY <2>1, <2>2
<1>3. Fix(m, o, 1, v)[o] = ByteOf(v, 1, 0)
  BY <1>1 DEF Fix
<1>4. QED
  BY <1>2, <1>3 DEF ByteOf, Weight

\* The known bytes of a byte map are bytes.
LEMMA KnownBytes ==
  ASSUME NEW m \in PktType, NEW o \in Nat, NEW w \in {1, 2, 4},
         o + w <= MaxOff + 1, Known(m, o, w)
  PROVE  \A k \in 0 .. w - 1 : m[o + k] \in Int /\ 0 <= m[o + k] /\ m[o + k] < 256
<1>1. TAKE k \in 0 .. w - 1
<1>2. o + k \in Offsets
  BY DEF Offsets
<1>3. m[o + k] \in Unread .. 255 /\ m[o + k] # Unread
  BY <1>2 DEF PktType, ByteRange, Known
<1>4. QED
  BY <1>3

\* A known 16-bit field: its host load is the byte-swapped wire value,
\* and swapping the host load back gives the wire value.
LEMMA Host16 ==
  ASSUME NEW m \in PktType, NEW o \in Nat, o + 2 <= MaxOff + 1, Known(m, o, 2)
  PROVE  /\ WireAt(m, o, 2) \in Nat /\ WireAt(m, o, 2) < 65536
         /\ HostLoad16(m, o) = Swap16(WireAt(m, o, 2))
         /\ Swap16(HostLoad16(m, o)) = WireAt(m, o, 2)
<1>1. \A k \in 0 .. 1 : m[o + k] \in Int /\ 0 <= m[o + k] /\ m[o + k] < 256
  BY KnownBytes
<1>2. /\ m[o] \in Int /\ 0 <= m[o] /\ m[o] < 256
      /\ m[o + 1] \in Int /\ 0 <= m[o + 1] /\ m[o + 1] < 256
  <2>1. o + 0 = o
    OBVIOUS
  <2>2. QED
    BY <1>1, <2>1
<1>3. /\ WireAt(m, o, 2) \in Nat /\ WireAt(m, o, 2) < 65536
      /\ HostLoad16(m, o) = Swap16(WireAt(m, o, 2))
  BY <1>2, HostIsSwap16
<1>4. Swap16(Swap16(WireAt(m, o, 2))) = WireAt(m, o, 2)
  BY <1>3, SwapSwap16
<1>5. QED
  BY <1>3, <1>4

\* Comparing a host load with bpf_htons of a constant compares the wire
\* value with the constant.
LEMMA Host16Is ==
  ASSUME NEW m \in PktType, NEW o \in Nat, o + 2 <= MaxOff + 1, Known(m, o, 2),
         NEW c \in Nat, c < 65536
  PROVE  HostLoad16(m, o) = Swap16(c) <=> WireAt(m, o, 2) = c
<1>1. Swap16(HostLoad16(m, o)) = WireAt(m, o, 2) /\ Swap16(Swap16(c)) = c
  BY Host16, SwapSwap16
<1>2. HostLoad16(m, o) = Swap16(WireAt(m, o, 2))
  BY Host16
<1>3. QED
  BY <1>1, <1>2

\* Tags counted are 0, 1 or 2.
LEMMA TagsRange ==
  ASSUME NEW m, NEW i
  PROVE  Tags(m) \in 0 .. 2 /\ TagsConsumed(m, i) \in 0 .. 2
BY DEF Tags, TagsConsumed

-----------------------------------------------------------------------------
(* What a later load keeps.                                                *)

\* The Ethernet checks, and whether there is a first tag, survive a load.
LEMMA EthStable ==
  ASSUME NEW m, NEW m2, Extends(m, m2), NEW l, EthChecked(m, l)
  PROVE  /\ EthChecked(m2, l)
         /\ WireAt(m2, 12, 2) = WireAt(m, 12, 2)
         /\ Tag1(m2) = Tag1(m)
<1>1. Known(m2, 12, 2) /\ WireAt(m2, 12, 2) = WireAt(m, 12, 2)
  BY ExtendsWire DEF EthChecked
<1>2. QED
  BY <1>1 DEF EthChecked, Tag1

\* The tag loop's position, and once the loop is over where the layer-3
\* header is and what its ethertype says, survive a load.
LEMMA LoopStable ==
  ASSUME NEW m, NEW m2, Extends(m, m2), NEW l \in Int, l <= MaxOff + 1,
         NEW n, NEW i \in 0 .. 2, NEW h,
         EthChecked(m, l), LoopChecked(m, l, n, i, h)
  PROVE  /\ LoopChecked(m2, l, n, i, h)
         /\ TagsConsumed(m2, i) = TagsConsumed(m, i)
         /\ i = 2 => L3Off(m2) = L3Off(m) /\ L3Type(m2) = L3Type(m)
<1>1. Tag1(m2) = Tag1(m)
  BY EthStable
<1>2. i # 0 /\ Tag1(m) => Known(m2, 16, 2) /\ WireAt(m2, 16, 2) = WireAt(m, 16, 2)
  BY ExtendsWire DEF LoopChecked
<1>3. i # 0 => Tags(m2) = Tags(m)
  <2>1. CASE Tag1(m)
    BY <1>1, <1>2, <2>1 DEF Tags, Tag2
  <2>2. CASE ~Tag1(m)
    BY <1>1, <2>2 DEF Tags, Tag2
  <2>3. QED
    BY <2>1, <2>2
<1>4. TagsConsumed(m2, i) = TagsConsumed(m, i)
  BY <1>1, <1>3 DEF TagsConsumed
<1>5. n \in Nat /\ n - 2 \in Nat /\ n - 2 + 2 <= MaxOff + 1
  <2>1. TagsConsumed(m, i) \in 0 .. 2
    BY TagsRange
  <2>2. QED
    BY <2>1 DEF LoopChecked
<1>6. Known(m2, n - 2, 2) /\ WireAt(m2, n - 2, 2) = WireAt(m, n - 2, 2)
      /\ HostLoad16(m2, n - 2) = HostLoad16(m, n - 2)
  BY <1>5, ExtendsWire DEF LoopChecked
<1>7. LoopChecked(m2, l, n, i, h)
  BY <1>1, <1>2, <1>4, <1>6 DEF LoopChecked
<1>8. ASSUME i = 2 PROVE L3Off(m2) = L3Off(m) /\ L3Type(m2) = L3Type(m)
  <2>1. L3Off(m2) = L3Off(m) /\ L3Off(m) = n
    BY <1>3, <1>8 DEF L3Off, LoopChecked, TagsConsumed
  <2>2. QED
    BY <1>6, <2>1 DEF L3Type
<1>9. QED
  BY <1>4, <1>7, <1>8

\* The IP block's checks survive a load.
LEMMA IpStable ==
  ASSUME NEW m, NEW m2, Extends(m, m2), NEW l \in Int, l <= MaxOff + 1,
         NEW n \in Nat, IpChecked(m, l, n)
  PROVE  IpChecked(m2, l, n)
<1>1. Known(m2, n + 9, 1) /\ WireAt(m2, n + 9, 1) = WireAt(m, n + 9, 1)
  BY ExtendsWire DEF IpChecked
<1>2. QED
  BY <1>1 DEF IpChecked, WireAt

\* The UDP block's checks, where it put the UDP header and the port it
\* read survive a load, once the layer-3 header stays where it was.
LEMMA UdpStable ==
  ASSUME NEW m \in PktType, NEW m2, Extends(m, m2), NEW l \in Int,
         l <= MaxOff + 1, NEW n \in Nat, NEW u,
         L3Off(m2) = L3Off(m), n = L3Off(m), UdpChecked(m, l, n, u)
  PROVE  /\ UdpChecked(m2, l, n, u)
         /\ UdpOff(m2) = UdpOff(m)
         /\ WireAt(m2, u + 2, 2) = WireAt(m, u + 2, 2)
<1>1. n \in Offsets /\ n + 0 = n
  <2>1. Tags(m) \in 0 .. 2
    BY TagsRange
  <2>2. QED
    BY <2>1 DEF L3Off, Offsets
<1>2. m[n] \in Int /\ 0 <= m[n] /\ m[n] < 256 /\ m2[n] = m[n]
  <2>1. m[n] \in Unread .. 255 /\ m[n] # Unread
    BY <1>1 DEF PktType, ByteRange, UdpChecked, Known
  <2>2. QED
    BY <1>1, <2>1 DEF Extends
<1>3. UdpOff(m2) = UdpOff(m)
  BY <1>2 DEF UdpOff
<1>4. u \in Nat /\ u + 2 + 2 <= MaxOff + 1
  BY <1>2 DEF UdpChecked, UdpOff
<1>5. Known(m2, u + 2, 2) /\ WireAt(m2, u + 2, 2) = WireAt(m, u + 2, 2)
  BY <1>4, ExtendsWire DEF UdpChecked
<1>6. Known(m2, n, 1)
  BY <1>1, <1>2 DEF Known
<1>7. QED
  BY <1>3, <1>5, <1>6 DEF UdpChecked

-----------------------------------------------------------------------------
(* The design's classification at the points where xdp_upf decides.       *)

\* Every tag the design steps over fits in the frame and has its
\* encapsulated type read.
TagsFit(m, l) ==
  /\ Tag1(m) => ETH_HLEN + VLAN_HLEN <= l /\ Known(m, 16, 2)
  /\ Tag2(m) => ETH_HLEN + 2 * VLAN_HLEN <= l /\ Known(m, 20, 2)

\* After both iterations of the tag loop, nh_off is the design's layer-3
\* offset, h_proto the host load of the ethertype before it, and the
\* classification turns on that ethertype.
LEMMA LoopDone ==
  ASSUME NEW m \in PktType, NEW l \in Int, NEW n, NEW h,
         EthChecked(m, l), LoopChecked(m, l, n, 2, h)
  PROVE  /\ n = L3Off(m)
         /\ L3Off(m) \in ETH_HLEN .. ETH_HLEN + 2 * VLAN_HLEN
         /\ Known(m, L3Off(m) - 2, 2)
         /\ h = HostLoad16(m, L3Off(m) - 2)
         /\ TagsFit(m, l)
         /\ Classify(m, l) = IF L3Type(m) # ETH_P_IP THEN Drop ELSE ClassifyIPv4(m, l)
<1>1. n = L3Off(m) /\ L3Off(m) \in ETH_HLEN .. ETH_HLEN + 2 * VLAN_HLEN
  <2>1. Tags(m) \in 0 .. 2
    BY TagsRange
  <2>2. QED
    BY <2>1 DEF LoopChecked, TagsConsumed, L3Off
<1>2. TagsFit(m, l)
  <2>1. Tag1(m) => ETH_HLEN + VLAN_HLEN <= l /\ Known(m, 16, 2)
    BY <1>1 DEF LoopChecked, L3Off, Tags
  <2>2. Tag2(m) => ETH_HLEN + 2 * VLAN_HLEN <= l /\ Known(m, 20, 2)
    BY <1>1 DEF LoopChecked, L3Off, Tags
  <2>3. QED
    BY <2>1, <2>2 DEF TagsFit
<1>3. Classify(m, l) = ClassifyTagged(m, l)
  <2>1. WireAt(m, 12, 2) \in Nat
    BY Host16 DEF EthChecked
  <2>2. QED
    BY <2>1 DEF EthChecked, Classify
<1>4. ClassifyTagged(m, l) = IF L3Type(m) # ETH_P_IP THEN Drop ELSE ClassifyIPv4(m, l)
  BY <1>2 DEF TagsFit, ClassifyTagged
<1>5. QED
  BY <1>1, <1>2, <1>3, <1>4 DEF LoopChecked

\* One load of the program inside the checked window: the frame stays a
\* byte map, the loaded field is known afterwards and nothing read before
\* changes.
LEMMA LoadFacts ==
  ASSUME NEW m \in PktType, NEW l \in Int, NEW o \in Nat, NEW w \in {1, 2, 4},
         NEW dom \in SUBSET Int,
         o + w <= l, l <= MaxOff + 1,
         \A i \in Offsets : m[i] # Unread => i < l,
         NEW v \in LoadChoices(m, o, w, dom)
  PROVE  /\ Fix(m, o, w, v) \in PktType
         /\ \A i \in Offsets : Fix(m, o, w, v)[i] # Unread => i < l
         /\ Known(Fix(m, o, w, v), o, w)
         /\ Extends(m, Fix(m, o, w, v))
<1>1. /\ Fix(m, o, w, v) \in PktType
      /\ \A i \in Offsets : Fix(m, o, w, v)[i] # Unread => i < l
      /\ \A k \in 0 .. w - 1 : Fix(m, o, w, v)[o + k] \in Nat
  BY LoadStep, Zenon
<1>2. Known(Fix(m, o, w, v), o, w)
  BY <1>1 DEF Known
<1>3. Extends(m, Fix(m, o, w, v))
  BY FixExtends
<1>4. QED
  BY <1>1, <1>2, <1>3

-----------------------------------------------------------------------------
(* ParseInv is inductive: one lemma per block of xdp_upf.                  *)

\* A new frame: nothing is established yet and teid is reset.
LEMMA ReceiveParse ==
  ASSUME ParseInv, Receive
  PROVE  ParseInv'
BY ReceiveKeeps DEF ParseInv, Receive, TeidRoundTrip, DispositionPerSpec

\* PDR_LOOKUP passes the frame, which the design passes.
LEMMA PdrLookupParse ==
  ASSUME ParseInv, PdrLookup
  PROVE  ParseInv'
<1>1. IInv'
  BY PdrLookupKeeps DEF ParseInv
<1>2. pc' = "idle" /\ verdict' = Pass /\ Classify(pkt, len) = Pass
  BY DEF ParseInv, PdrLookup, Finish, Pass
<1>3. QED
  BY <1>1, <1>2 DEF ParseInv, PdrLookup, TeidRoundTrip, DispositionPerSpec

\* The dispatch on l3_proto is the design's test of the layer-3 ethertype.
LEMMA DispatchParse ==
  ASSUME ParseInv, Dispatch
  PROVE  ParseInv'
<1>1. IInv'
  BY DispatchKeeps DEF ParseInv
<1>2. /\ pc = "dispatch" /\ vlan_i = 2
      /\ EthChecked(pkt, len) /\ LoopChecked(pkt, len, nh_off, 2, h_proto)
      /\ pkt \in PktType /\ len \in Int /\ len <= MaxOff + 1
      /\ teid = NoTeid
  BY IInvFacts DEF ParseInv, Dispatch
<1>3. /\ nh_off = L3Off(pkt) /\ L3Off(pkt) \in ETH_HLEN .. ETH_HLEN + 2 * VLAN_HLEN
      /\ Known(pkt, L3Off(pkt) - 2, 2) /\ h_proto = HostLoad16(pkt, L3Off(pkt) - 2)
      /\ Classify(pkt, len) = IF L3Type(pkt) # ETH_P_IP THEN Drop ELSE ClassifyIPv4(pkt, len)
  BY <1>2, LoopDone
<1>4. h_proto = Swap16(ETH_P_IP) <=> L3Type(pkt) = ETH_P_IP
  <2>1. L3Off(pkt) - 2 \in Nat /\ L3Off(pkt) - 2 + 2 <= MaxOff + 1
    BY <1>3
  <2>2. QED
    BY <1>2, <1>3, <2>1, Host16Is DEF L3Type
<1>5. CASE h_proto = Swap16(ETH_P_IP)
  BY <1>1, <1>2, <1>4, <1>5 DEF ParseInv, Dispatch, TeidRoundTrip, DispositionPerSpec
<1>6. CASE h_proto # Swap16(ETH_P_IP)
  <2>1. pc' = "idle" /\ verdict' = Drop /\ UNCHANGED <<len, pkt, teid>>
    BY <1>6 DEF Dispatch, Finish, Drop
  <2>2. verdict' = Classify(pkt', len')
    BY <1>3, <1>4, <1>6, <2>1
  <2>3. QED
    BY <1>1, <1>2, <2>1, <2>2 DEF ParseInv, TeidRoundTrip, DispositionPerSpec
<1>7. QED
  BY <1>5, <1>6

\* validate_ethertype's Ethernet II test on the host-order ethertype is
\* the design's test on the wire value.
LEMMA EthHeaderParse ==
  ASSUME ParseInv, EthHeader
  PROVE  ParseInv'
<1>1. IInv'
  BY EthHeaderKeeps DEF ParseInv
<1>2. /\ pc = "eth" /\ vlan_i = 0 /\ teid = NoTeid
      /\ pkt \in PktType /\ len \in Int /\ len <= MaxOff + 1
      /\ \A i \in Offsets : pkt[i] # Unread => i < len
  BY IInvFacts DEF ParseInv, IInv, EthHeader
<1>3. CASE ETH_HLEN > len
  <2>1. pc' = "idle" /\ verdict' = Drop /\ UNCHANGED <<len, pkt, teid>>
    BY <1>3 DEF EthHeader, Finish, Drop
  <2>2. verdict' = Classify(pkt', len')
    BY <1>2, <1>3, <2>1 DEF Classify
  <2>3. QED
    BY <1>1, <1>2, <2>1, <2>2 DEF ParseInv, TeidRoundTrip, DispositionPerSpec
<1>4. CASE ~(ETH_HLEN > len)
  <2>1. PICK v \in LoadChoices(pkt, 12, 2, EtherTypes) :
               /\ pkt' = Fix(pkt, 12, 2, v)
               /\ h_proto' = HostLoad16(pkt', 12)
               /\ IF NotEthernetII(h_proto')
                    THEN Finish("XDP_DROP")
                    ELSE /\ pc' = "vlan"
                         /\ UNCHANGED verdict
               /\ UNCHANGED vlan_i
    BY <1>4 DEF EthHeader
  <2>2. /\ nh_off' = ETH_HLEN
        /\ UNCHANGED <<len, udp_off, teid>>
    BY DEF EthHeader
  <2>3. pkt' \in PktType /\ Known(pkt', 12, 2)
    BY <1>2, <1>4, <2>1, LoadFacts, DomainsInt
  <2>4. /\ WireAt(pkt', 12, 2) \in Nat
        /\ Swap16(h_proto') = WireAt(pkt', 12, 2)
    BY <2>1, <2>3, Host16
  <2>5. NotEthernetII(h_proto') <=> WireAt(pkt', 12, 2) < ETH_P_802_3_MIN
    BY <2>4 DEF NotEthernetII
  <2>6. CASE NotEthernetII(h_proto')
    <3>1. pc' = "idle" /\ verdict' = Drop
      BY <2>1, <2>6 DEF Finish, Drop
    <3>2. verdict' = Classify(pkt', len')
      BY <1>2, <1>4, <2>2, <2>3, <2>5, <2>6, <3>1 DEF Classify
    <3>3. QED
      BY <1>1, <1>2, <2>2, <3>1, <3>2 DEF ParseInv, TeidRoundTrip, DispositionPerSpec
  <2>7. CASE ~NotEthernetII(h_proto')
    <3>1. pc' = "vlan" /\ vlan_i' = 0
      BY <1>2, <2>1, <2>7
    <3>2. EthChecked(pkt', len')
      BY <1>2, <1>4, <2>2, <2>3, <2>4, <2>5, <2>7 DEF EthChecked
    <3>3. LoopChecked(pkt', len', nh_off', vlan_i', h_proto')
      BY <1>2, <1>4, <2>1, <2>2, <2>3, <3>1 DEF LoopChecked, TagsConsumed
    <3>4. QED
      BY <1>1, <1>2, <2>2, <3>1, <3>2, <3>3 DEF ParseInv, TeidRoundTrip, DispositionPerSpec
  <2>8. QED
    BY <2>6, <2>7
<1>5. QED
  BY <1>3, <1>4

\* One iteration of the tag loop steps over exactly the tags the design
\* counts: the first iteration tests the ethertype at 12 (Tag1), the
\* second the one at 16 after a first tag (Tag2), and a frame too short
\* for the tag is one the design drops.
LEMMA VlanTagParse ==
  ASSUME ParseInv, VlanTag
  PROVE  ParseInv'
<1> DEFINE W == WireAt(pkt, nh_off - 2, 2)
           isTagH == h_proto \in {Swap16(ETH_P_8021Q), Swap16(ETH_P_8021AD)}
           next == IF vlan_i + 1 = VLAN_LOOP_ITERS THEN "dispatch" ELSE "vlan"
<1>1. IInv'
  BY VlanTagKeeps DEF ParseInv
<1>2. /\ pc = "vlan" /\ vlan_i \in 0 .. 1 /\ teid = NoTeid
      /\ pkt \in PktType /\ len \in Int /\ len <= MaxOff + 1
      /\ \A i \in Offsets : pkt[i] # Unread => i < len
      /\ EthChecked(pkt, len) /\ LoopChecked(pkt, len, nh_off, vlan_i, h_proto)
  BY IInvFacts DEF ParseInv, IInv, VlanTag
<1>3. /\ nh_off = ETH_HLEN + VLAN_HLEN * TagsConsumed(pkt, vlan_i)
      /\ nh_off \in Nat /\ nh_off - 2 \in Nat /\ nh_off <= len
      /\ Known(pkt, nh_off - 2, 2) /\ h_proto = HostLoad16(pkt, nh_off - 2)
  <2>1. TagsConsumed(pkt, vlan_i) \in 0 .. 2
    BY TagsRange
  <2>2. QED
    BY <1>2, <2>1 DEF LoopChecked
<1>4. isTagH <=> IsTag(W)
  <2>1. h_proto = Swap16(ETH_P_8021Q) <=> W = ETH_P_8021Q
    BY <1>2, <1>3, Host16Is
  <2>2. h_proto = Swap16(ETH_P_8021AD) <=> W = ETH_P_8021AD
    BY <1>2, <1>3, Host16Is
  <2>3. QED
    BY <2>1, <2>2 DEF IsTag
<1>5. vlan_i = 0 => nh_off = ETH_HLEN /\ (IsTag(W) <=> Tag1(pkt))
  BY <1>3 DEF TagsConsumed, Tag1
<1>6. vlan_i = 1 /\ Tag1(pkt) => nh_off = ETH_HLEN + VLAN_HLEN /\ (IsTag(W) <=> Tag2(pkt))
  BY <1>3 DEF TagsConsumed, Tag2
<1>7. vlan_i = 1 /\ ~Tag1(pkt) => nh_off = ETH_HLEN /\ ~IsTag(W)
  BY <1>3 DEF TagsConsumed, Tag1
<1>8. Classify(pkt, len) = ClassifyTagged(pkt, len)
  <2>1. WireAt(pkt, 12, 2) \in Nat
    BY <1>2, Host16 DEF EthChecked
  <2>2. QED
    BY <1>2, <2>1 DEF EthChecked, Classify
<1>9. CASE isTagH
  <2>1. nh_off' = nh_off + VLAN_HLEN
    BY <1>9 DEF VlanTag
  <2>2. Tag1(pkt)
    BY <1>2, <1>4, <1>5, <1>7, <1>9
  <2>3. CASE nh_off' > len
    <3>1. pc' = "idle" /\ verdict' = Drop /\ UNCHANGED <<len, pkt, teid>>
      BY <1>9, <2>3 DEF VlanTag, Finish, Drop
    <3>2. ClassifyTagged(pkt, len) = Drop
      <4>1. CASE vlan_i = 0
        BY <1>5, <2>1, <2>2, <2>3, <4>1 DEF ClassifyTagged
      <4>2. CASE vlan_i = 1
        <5>1. nh_off = ETH_HLEN + VLAN_HLEN /\ Tag2(pkt) /\ Known(pkt, 16, 2)
          BY <1>3, <1>4, <1>6, <1>9, <2>2, <4>2
        <5>2. QED
          BY <1>3, <2>1, <2>3, <5>1 DEF ClassifyTagged
      <4>3. QED
        BY <1>2, <4>1, <4>2
    <3>3. QED
      BY <1>1, <1>2, <1>8, <3>1, <3>2 DEF ParseInv, TeidRoundTrip, DispositionPerSpec
  <2>4. CASE ~(nh_off' > len)
    <3>1. PICK v \in LoadChoices(pkt, nh_off + 2, 2, EtherTypes) :
                 /\ pkt' = Fix(pkt, nh_off + 2, 2, v)
                 /\ h_proto' = HostLoad16(pkt', nh_off + 2)
                 /\ vlan_i' = vlan_i + 1
                 /\ pc' = next
                 /\ UNCHANGED verdict
      BY <1>9, <2>1, <2>4 DEF VlanTag
    <3>2. len' = len /\ udp_off' = udp_off /\ teid' = teid
      BY DEF VlanTag
    <3>3. pkt' \in PktType /\ Known(pkt', nh_off + 2, 2) /\ Extends(pkt, pkt')
      BY <1>2, <1>3, <2>1, <2>4, <3>1, LoadFacts, DomainsInt
    <3>4. EthChecked(pkt', len) /\ Tag1(pkt') = Tag1(pkt)
      BY <1>2, <3>3, EthStable
    <3>5. /\ nh_off' = ETH_HLEN + VLAN_HLEN * TagsConsumed(pkt', vlan_i')
          /\ Known(pkt', 16, 2)
      <4>1. CASE vlan_i = 0
        <5>1. nh_off = ETH_HLEN /\ vlan_i' = 1
          BY <1>5, <3>1, <4>1
        <5>2. TagsConsumed(pkt', 1) = 1
          BY <2>2, <3>4 DEF TagsConsumed
        <5>3. Known(pkt', 16, 2)
          BY <3>3, <5>1
        <5>4. QED
          BY <2>1, <5>1, <5>2, <5>3
      <4>2. CASE vlan_i = 1
        <5>1. nh_off = ETH_HLEN + VLAN_HLEN /\ Tag2(pkt) /\ Known(pkt, 16, 2)
          BY <1>3, <1>4, <1>6, <1>9, <2>2, <4>2
        <5>2. Known(pkt', 16, 2) /\ WireAt(pkt', 16, 2) = WireAt(pkt, 16, 2)
          BY <3>3, <5>1, ExtendsWire
        <5>3. Tag2(pkt')
          BY <3>4, <5>1, <5>2 DEF Tag2
        <5>4. QED
          BY <2>1, <3>1, <4>2, <5>1, <5>2, <5>3 DEF TagsConsumed, Tags
      <4>3. QED
        BY <1>2, <4>1, <4>2
    <3>6. LoopChecked(pkt', len', nh_off', vlan_i', h_proto')
      <4>1. nh_off' - 2 = nh_off + 2 /\ nh_off' <= len'
        BY <1>2, <1>3, <2>1, <2>4, <3>2
      <4>2. Known(pkt', nh_off' - 2, 2) /\ h_proto' = HostLoad16(pkt', nh_off' - 2)
        BY <3>1, <3>3, <4>1
      <4>3. QED
        BY <3>5, <4>1, <4>2 DEF LoopChecked
    <3>7. pc' \in {"vlan", "dispatch"} /\ (pc' = "dispatch" => vlan_i' = 2)
      BY <1>2, <3>1 DEF VLAN_LOOP_ITERS
    <3>8. QED
      BY <1>1, <3>2, <1>2, <3>4, <3>6, <3>7 DEF ParseInv, TeidRoundTrip, DispositionPerSpec
  <2>5. QED
    BY <2>3, <2>4
<1>10. CASE ~isTagH
  <2>1. /\ vlan_i' = vlan_i + 1 /\ pc' = next
        /\ UNCHANGED <<pkt, nh_off, h_proto, verdict, len, udp_off, teid>>
    BY <1>10 DEF VlanTag
  <2>2. ~IsTag(W)
    BY <1>4, <1>10
  <2>3. /\ TagsConsumed(pkt, vlan_i + 1) = TagsConsumed(pkt, vlan_i)
        /\ Tag1(pkt) => Known(pkt, 16, 2)
    <3>1. CASE vlan_i = 0
      BY <1>5, <2>2, <3>1 DEF TagsConsumed
    <3>2. CASE vlan_i = 1 /\ Tag1(pkt)
      BY <1>2, <1>6, <2>2, <3>2 DEF TagsConsumed, Tags, LoopChecked
    <3>3. CASE vlan_i = 1 /\ ~Tag1(pkt)
      BY <3>3 DEF TagsConsumed, Tags, Tag2
    <3>4. QED
      BY <1>2, <3>1, <3>2, <3>3
  <2>4. LoopChecked(pkt', len', nh_off', vlan_i', h_proto')
    BY <1>2, <2>1, <2>3 DEF LoopChecked
  <2>5. EthChecked(pkt', len')
    BY <1>2, <2>1
  <2>6. pc' \in {"vlan", "dispatch"} /\ (pc' = "dispatch" => vlan_i' = 2)
    BY <1>2, <2>1 DEF VLAN_LOOP_ITERS
  <2>7. QED
    BY <1>1, <1>2, <2>1, <2>4, <2>5, <2>6 DEF ParseInv, TeidRoundTrip, DispositionPerSpec
<1>11. QED
  BY <1>9, <1>10

\* The facts every block after the tag loop starts from, on the frame as
\* read so far: nh_off is the design's layer-3 offset and the design's
\* classification comes down to its IPv4 stage.
LEMMA AfterLoop ==
  ASSUME ParseInv, pc \in {"ip", "udp", "gtp", "lookup"}
  PROVE  /\ pkt \in PktType /\ len \in Int /\ len <= MaxOff + 1
         /\ \A i \in Offsets : pkt[i] # Unread => i < len
         /\ vlan_i = 2
         /\ EthChecked(pkt, len) /\ LoopChecked(pkt, len, nh_off, 2, h_proto)
         /\ nh_off = L3Off(pkt) /\ nh_off \in ETH_HLEN .. ETH_HLEN + 2 * VLAN_HLEN
         /\ L3Type(pkt) = ETH_P_IP
         /\ Classify(pkt, len) = ClassifyIPv4(pkt, len)
<1>1. /\ pkt \in PktType /\ len \in Int /\ len <= MaxOff + 1
      /\ \A i \in Offsets : pkt[i] # Unread => i < len
      /\ vlan_i = 2
      /\ EthChecked(pkt, len) /\ LoopChecked(pkt, len, nh_off, 2, h_proto)
      /\ L3Type(pkt) = ETH_P_IP
  BY IInvFacts DEF ParseInv
<1>2. QED
  BY <1>1, LoopDone

\* What the blocks up to IP have established survives a later load.
LEMMA ParsedStable ==
  ASSUME NEW m \in PktType, NEW m2, Extends(m, m2), NEW l \in Int, l <= MaxOff + 1,
         NEW n, NEW h, EthChecked(m, l), LoopChecked(m, l, n, 2, h),
         L3Type(m) = ETH_P_IP, IpChecked(m, l, n)
  PROVE  /\ EthChecked(m2, l) /\ LoopChecked(m2, l, n, 2, h)
         /\ L3Off(m2) = L3Off(m) /\ L3Type(m2) = ETH_P_IP
         /\ IpChecked(m2, l, n)
<1>1. n = L3Off(m) /\ n \in Nat
  BY LoopDone
<1>2. QED
  BY <1>1, EthStable, LoopStable, IpStable

\* Past the IP block the design's classification is its UDP stage.
LEMMA IpDone ==
  ASSUME NEW m \in PktType, NEW l \in Int, NEW n, NEW h,
         EthChecked(m, l), LoopChecked(m, l, n, 2, h),
         L3Type(m) = ETH_P_IP, IpChecked(m, l, n)
  PROVE  Classify(m, l) = ClassifyUDP(m, l)
<1>1. /\ n = L3Off(m) /\ L3Off(m) \in ETH_HLEN .. ETH_HLEN + 2 * VLAN_HLEN
      /\ Classify(m, l) = ClassifyIPv4(m, l)
  BY LoopDone
<1>2. QED
  BY <1>1 DEF IpChecked, ClassifyIPv4

\* Past the UDP block, on the GTP port, the design's classification is
\* its GTP stage, and the GTP header starts where the code puts it.
LEMMA UdpDone ==
  ASSUME NEW m \in PktType, NEW l \in Int, NEW n, NEW h, NEW u,
         EthChecked(m, l), LoopChecked(m, l, n, 2, h),
         L3Type(m) = ETH_P_IP, IpChecked(m, l, n), UdpChecked(m, l, n, u),
         WireAt(m, u + 2, 2) = GTP_PORT
  PROVE  /\ Classify(m, l) = ClassifyGTP(m, l)
         /\ u = UdpOff(m) /\ GtpOff(m) = u + UDPHDR_LEN /\ u \in Nat
<1>1. n = L3Off(m) /\ L3Off(m) \in ETH_HLEN .. ETH_HLEN + 2 * VLAN_HLEN
  BY LoopDone
<1>2. Classify(m, l) = ClassifyUDP(m, l)
  BY IpDone
<1>3. m[n] \in Int /\ 0 <= m[n]
  <2>1. n \in Offsets /\ n + 0 = n
    BY <1>1 DEF Offsets
  <2>2. m[n] \in Unread .. 255 /\ m[n] # Unread
    BY <2>1 DEF PktType, ByteRange, UdpChecked, Known
  <2>3. QED
    BY <2>2
<1>4. u = UdpOff(m) /\ u \in Nat
  BY <1>1, <1>3 DEF UdpChecked, UdpOff
<1>5. QED
  BY <1>1, <1>2, <1>4 DEF UdpChecked, ClassifyUDP, GtpOff

\* The IP block's header check and protocol test are the design's IPv4
\* stage on the bytes read.
LEMMA IPv4Parse ==
  ASSUME ParseInv, IPv4
  PROVE  ParseInv'
<1>1. IInv'
  BY IPv4Keeps DEF ParseInv
<1>2. pc = "ip" /\ teid = NoTeid
  BY DEF IPv4, ParseInv
<1>3. /\ pkt \in PktType /\ len \in Int /\ len <= MaxOff + 1
      /\ \A i \in Offsets : pkt[i] # Unread => i < len
      /\ vlan_i = 2
      /\ EthChecked(pkt, len) /\ LoopChecked(pkt, len, nh_off, 2, h_proto)
      /\ nh_off = L3Off(pkt) /\ nh_off \in ETH_HLEN .. ETH_HLEN + 2 * VLAN_HLEN
      /\ L3Type(pkt) = ETH_P_IP
      /\ Classify(pkt, len) = ClassifyIPv4(pkt, len)
  BY <1>2, AfterLoop
<1>4. UNCHANGED <<len, nh_off, vlan_i, h_proto, udp_off, teid>>
  BY DEF IPv4
<1>5. CASE nh_off + IPHDR_LEN > len
  <2>1. pc' = "idle" /\ verdict' = Drop /\ pkt' = pkt
    BY <1>5 DEF IPv4, Finish, Drop
  <2>2. verdict' = Classify(pkt', len')
    BY <1>3, <1>4, <1>5, <2>1 DEF ClassifyIPv4
  <2>3. QED
    BY <1>1, <1>2, <1>4, <2>1, <2>2 DEF ParseInv, TeidRoundTrip, DispositionPerSpec
<1>6. CASE ~(nh_off + IPHDR_LEN > len)
  <2>1. PICK p \in LoadChoices(pkt, nh_off + 9, 1, ProtoVals) :
               /\ pkt' = Fix(pkt, nh_off + 9, 1, p)
               /\ IF p # IPPROTO_UDP
                    THEN Finish("XDP_PASS")
                    ELSE /\ pc' = "udp"
                         /\ UNCHANGED verdict
    BY <1>6 DEF IPv4
  <2>2. /\ pkt' \in PktType /\ Known(pkt', nh_off + 9, 1) /\ Extends(pkt, pkt')
        /\ p \in Nat /\ p < 256 /\ pkt'[nh_off + 9] = p
    <3>1. FitsIn(ProtoVals, 256)
      BY ConstantsOK
    <3>2. QED
      BY <1>3, <1>6, <2>1, <3>1, LoadFacts, LoadByte, DomainsInt
  <2>3. /\ EthChecked(pkt', len) /\ LoopChecked(pkt', len, nh_off, 2, h_proto)
        /\ L3Off(pkt') = L3Off(pkt) /\ L3Type(pkt') = L3Type(pkt)
    BY <1>3, <2>2, EthStable, LoopStable
  <2>4. Classify(pkt', len) = ClassifyIPv4(pkt', len)
    BY <1>3, <2>2, <2>3, LoopDone
  <2>5. CASE p # IPPROTO_UDP
    <3>1. pc' = "idle" /\ verdict' = Pass
      BY <2>1, <2>5 DEF Finish, Pass
    <3>2. ClassifyIPv4(pkt', len) = Pass
      BY <1>3, <1>6, <2>2, <2>3, <2>5 DEF ClassifyIPv4
    <3>3. QED
      BY <1>1, <1>2, <1>4, <2>4, <3>1, <3>2 DEF ParseInv, TeidRoundTrip, DispositionPerSpec
  <2>6. CASE p = IPPROTO_UDP
    <3>1. pc' = "udp" /\ verdict' = verdict
      BY <2>1, <2>6
    <3>2. IpChecked(pkt', len, nh_off)
      BY <1>3, <1>6, <2>2, <2>6 DEF IpChecked
    <3>3. QED
      BY <1>1, <1>2, <1>3, <1>4, <2>3, <3>1, <3>2 DEF ParseInv, TeidRoundTrip, DispositionPerSpec
  <2>7. QED
    BY <2>5, <2>6
<1>7. QED
  BY <1>5, <1>6

\* The UDP block puts the UDP header where the design does (4 * ihl
\* bytes after the IPv4 header, ihl read from the frame), drops a frame
\* too short for it, and its test of the port in host order is the
\* design's test of the wire port.
LEMMA UDPParse ==
  ASSUME ParseInv, UDP
  PROVE  ParseInv'
<1> DEFINE pkt1(x) == Fix(pkt, nh_off, 1, x)
           off(x) == nh_off + 4 * (x % 16)
<1>1. IInv'
  BY UDPKeeps DEF ParseInv
<1>2. pc = "udp" /\ teid = NoTeid /\ IpChecked(pkt, len, nh_off)
  BY DEF UDP, ParseInv
<1>3. /\ pkt \in PktType /\ len \in Int /\ len <= MaxOff + 1
      /\ \A i \in Offsets : pkt[i] # Unread => i < len
      /\ vlan_i = 2
      /\ EthChecked(pkt, len) /\ LoopChecked(pkt, len, nh_off, 2, h_proto)
      /\ nh_off = L3Off(pkt) /\ nh_off \in ETH_HLEN .. ETH_HLEN + 2 * VLAN_HLEN
      /\ L3Type(pkt) = ETH_P_IP
  BY <1>2, AfterLoop
<1>4. /\ len' = len /\ nh_off' = nh_off /\ vlan_i' = vlan_i
      /\ h_proto' = h_proto /\ teid' = teid
  BY DEF UDP
<1>5. PICK b \in LoadChoices(pkt, nh_off, 1, VerIhlVals) :
        /\ udp_off' = off(b)
        /\ IF off(b) + UDPHDR_LEN > len
             THEN /\ Finish("XDP_DROP")
                  /\ pkt' = pkt1(b)
             ELSE \E d \in LoadChoices(pkt1(b), off(b) + 2, 2, PortVals) :
                    /\ pkt' = Fix(pkt1(b), off(b) + 2, 2, d)
                    /\ pc' = IF HostLoad16(pkt', off(b) + 2) = Swap16(GTP_PORT)
                               THEN "gtp" ELSE "lookup"
                    /\ UNCHANGED verdict
  BY DEF UDP
<1>6. /\ pkt1(b) \in PktType
      /\ \A i \in Offsets : pkt1(b)[i] # Unread => i < len
      /\ Known(pkt1(b), nh_off, 1) /\ Extends(pkt, pkt1(b))
      /\ b \in Nat /\ b < 256 /\ pkt1(b)[nh_off] = b
  <2>1. FitsIn(VerIhlVals, 256)
    BY ConstantsOK
  <2>2. nh_off + 1 <= len
    BY <1>2, <1>3 DEF IpChecked
  <2>3. QED
    BY <1>3, <2>1, <2>2, LoadFacts, LoadByte, DomainsInt
<1>7. /\ EthChecked(pkt1(b), len) /\ LoopChecked(pkt1(b), len, nh_off, 2, h_proto)
      /\ L3Off(pkt1(b)) = L3Off(pkt) /\ L3Type(pkt1(b)) = ETH_P_IP
      /\ IpChecked(pkt1(b), len, nh_off)
  BY <1>2, <1>3, <1>6, ParsedStable
<1>8. UdpOff(pkt1(b)) = off(b) /\ off(b) \in Nat
  BY <1>3, <1>6, <1>7 DEF UdpOff
<1>9. Classify(pkt1(b), len) = ClassifyUDP(pkt1(b), len)
  BY <1>3, <1>6, <1>7, IpDone
<1>10. CASE off(b) + UDPHDR_LEN > len
  <2>1. pc' = "idle" /\ verdict' = Drop /\ pkt' = pkt1(b)
    BY <1>5, <1>10 DEF Finish, Drop
  <2>2. ClassifyUDP(pkt1(b), len) = Drop
    BY <1>3, <1>6, <1>7, <1>8, <1>10 DEF ClassifyUDP
  <2>3. verdict' = Classify(pkt', len')
    BY <1>4, <1>9, <2>1, <2>2
  <2>4. QED
    BY <1>1, <1>2, <1>4, <2>1, <2>3 DEF ParseInv, TeidRoundTrip, DispositionPerSpec
<1>11. CASE ~(off(b) + UDPHDR_LEN > len)
  <2>1. PICK d \in LoadChoices(pkt1(b), off(b) + 2, 2, PortVals) :
               /\ pkt' = Fix(pkt1(b), off(b) + 2, 2, d)
               /\ pc' = IF HostLoad16(pkt', off(b) + 2) = Swap16(GTP_PORT)
                          THEN "gtp" ELSE "lookup"
               /\ UNCHANGED verdict
    BY <1>5, <1>11
  <2>2. /\ pkt' \in PktType /\ Known(pkt', off(b) + 2, 2)
        /\ Extends(pkt1(b), pkt')
    BY <1>3, <1>6, <1>8, <1>11, <2>1, LoadFacts, DomainsInt
  <2>3. /\ EthChecked(pkt', len) /\ LoopChecked(pkt', len, nh_off, 2, h_proto)
        /\ L3Off(pkt') = L3Off(pkt1(b)) /\ L3Type(pkt') = ETH_P_IP
        /\ IpChecked(pkt', len, nh_off)
    BY <1>3, <1>6, <1>7, <2>2, ParsedStable
  <2>4. Known(pkt', nh_off, 1) /\ WireAt(pkt', nh_off, 1) = WireAt(pkt1(b), nh_off, 1)
    BY <1>3, <1>6, <2>2, ExtendsWire
  <2>5. UdpChecked(pkt', len, nh_off, off(b))
    <3>1. UdpOff(pkt') = off(b)
      BY <1>3, <1>6, <1>7, <1>8, <2>3, <2>4 DEF UdpOff, WireAt
    <3>2. QED
      BY <1>3, <1>6, <1>8, <1>11, <2>2, <2>4, <3>1 DEF UdpChecked
  <2>6. HostLoad16(pkt', off(b) + 2) = Swap16(GTP_PORT)
          <=> WireAt(pkt', off(b) + 2, 2) = GTP_PORT
    BY <1>3, <1>8, <1>11, <2>2, Host16Is
  <2>7. Classify(pkt', len) = ClassifyUDP(pkt', len)
    BY <1>3, <2>2, <2>3, IpDone
  <2>8. udp_off' = off(b) /\ verdict' = verdict
    BY <1>5, <2>1
  <2>9. CASE WireAt(pkt', off(b) + 2, 2) = GTP_PORT
    <3>1. pc' = "gtp"
      BY <2>1, <2>6, <2>9
    <3>2. QED
      BY <1>1, <1>2, <1>3, <1>4, <2>3, <2>5, <2>8, <2>9, <3>1
         DEF ParseInv, TeidRoundTrip, DispositionPerSpec
  <2>10. CASE WireAt(pkt', off(b) + 2, 2) # GTP_PORT
    <3>1. pc' = "lookup"
      BY <2>1, <2>6, <2>10
    <3>2. ClassifyUDP(pkt', len) = Pass
      BY <1>3, <1>6, <1>7, <1>8, <1>11, <2>3, <2>5, <2>10 DEF UdpChecked, ClassifyUDP
    <3>3. QED
      BY <1>1, <1>2, <1>3, <1>4, <2>3, <2>5, <2>7, <2>8, <3>1, <3>2
         DEF ParseInv, TeidRoundTrip, DispositionPerSpec
  <2>11. QED
    BY <2>9, <2>10
<1>12. QED
  BY <1>10, <1>11

\* The GTP block drops a frame too short for the 8-byte header or that
\* is not a G-PDU, the design's GTP stage; on a G-PDU the TEID it keeps
\* is the wire TEID byte-swapped, the value the lookup then logs.
LEMMA GTPParse ==
  ASSUME ParseInv, GTP
  PROVE  ParseInv'
<1> DEFINE g == udp_off + UDPHDR_LEN
           p1(x) == Fix(pkt, g + 1, 1, x)
<1>1. IInv'
  BY GTPKeeps DEF ParseInv
<1>2. /\ pc = "gtp" /\ teid = NoTeid /\ IpChecked(pkt, len, nh_off)
      /\ UdpChecked(pkt, len, nh_off, udp_off)
      /\ WireAt(pkt, udp_off + 2, 2) = GTP_PORT
  BY DEF GTP, ParseInv
<1>3. /\ pkt \in PktType /\ len \in Int /\ len <= MaxOff + 1
      /\ \A i \in Offsets : pkt[i] # Unread => i < len
      /\ vlan_i = 2
      /\ EthChecked(pkt, len) /\ LoopChecked(pkt, len, nh_off, 2, h_proto)
      /\ nh_off = L3Off(pkt) /\ nh_off \in ETH_HLEN .. ETH_HLEN + 2 * VLAN_HLEN
      /\ L3Type(pkt) = ETH_P_IP
  BY <1>2, AfterLoop
<1>4. /\ len' = len /\ nh_off' = nh_off /\ vlan_i' = vlan_i
      /\ h_proto' = h_proto /\ udp_off' = udp_off
  BY DEF GTP
<1>5. /\ Classify(pkt, len) = ClassifyGTP(pkt, len)
      /\ udp_off = UdpOff(pkt) /\ GtpOff(pkt) = g /\ udp_off \in Nat
  BY <1>2, <1>3, UdpDone
<1>6. CASE GtpWindowEnd(udp_off) > len
  <2>1. pc' = "idle" /\ verdict' = Drop /\ pkt' = pkt /\ teid' = teid
    BY <1>6 DEF GTP, Finish, Drop
  <2>2. ClassifyGTP(pkt, len) = Drop
    BY <1>3, <1>5, <1>6 DEF GtpWindowEnd, ClassifyGTP
  <2>3. QED
    BY <1>1, <1>2, <1>4, <1>5, <2>1, <2>2
       DEF ParseInv, TeidRoundTrip, DispositionPerSpec
<1>7. CASE ~(GtpWindowEnd(udp_off) > len)
  <2>1. PICK t \in LoadChoices(pkt, g + 1, 1, GtpTypeVals) :
               IF t # GTP_TYPE_GPDU
                 THEN /\ Finish("XDP_DROP")
                      /\ pkt' = p1(t)
                      /\ UNCHANGED teid
                 ELSE \E id \in LoadChoices(p1(t), g + 4, 4, TeidVals) :
                        /\ pkt' = Fix(p1(t), g + 4, 4, id)
                        /\ teid' = TeidFromWire(pkt', g + 4)
                        /\ pc' = "lookup"
                        /\ UNCHANGED verdict
    BY <1>7 DEF GTP
  <2>2. /\ g + 1 + 1 <= len /\ g + 4 + 4 <= len /\ g + 1 \in Nat /\ g + 4 \in Nat
    BY <1>3, <1>5, <1>7 DEF GtpWindowEnd
  <2>3. /\ p1(t) \in PktType
        /\ \A i \in Offsets : p1(t)[i] # Unread => i < len
        /\ Known(p1(t), g + 1, 1) /\ Extends(pkt, p1(t))
        /\ t \in Nat /\ t < 256 /\ p1(t)[g + 1] = t
    <3>1. FitsIn(GtpTypeVals, 256)
      BY ConstantsOK
    <3>2. QED
      BY <1>3, <2>2, <3>1, LoadFacts, LoadByte, DomainsInt
  <2>4. /\ EthChecked(p1(t), len) /\ LoopChecked(p1(t), len, nh_off, 2, h_proto)
        /\ L3Off(p1(t)) = L3Off(pkt) /\ L3Type(p1(t)) = ETH_P_IP
        /\ IpChecked(p1(t), len, nh_off)
        /\ UdpChecked(p1(t), len, nh_off, udp_off)
        /\ WireAt(p1(t), udp_off + 2, 2) = GTP_PORT
    <3>1. /\ EthChecked(p1(t), len) /\ LoopChecked(p1(t), len, nh_off, 2, h_proto)
          /\ L3Off(p1(t)) = L3Off(pkt) /\ L3Type(p1(t)) = ETH_P_IP
          /\ IpChecked(p1(t), len, nh_off)
      BY <1>2, <1>3, <2>3, ParsedStable
    <3>2. QED
      BY <1>2, <1>3, <2>3, <3>1, UdpStable
  <2>5. /\ Classify(p1(t), len) = ClassifyGTP(p1(t), len)
        /\ GtpOff(p1(t)) = g
    BY <1>3, <2>3, <2>4, UdpDone
  <2>6. CASE t # GTP_TYPE_GPDU
    <3>1. pc' = "idle" /\ verdict' = Drop /\ pkt' = p1(t) /\ teid' = teid
      BY <2>1, <2>6 DEF Finish, Drop
    <3>2. ClassifyGTP(p1(t), len) = Drop
      BY <1>3, <2>2, <2>3, <2>5, <2>6 DEF ClassifyGTP
    <3>3. QED
      BY <1>1, <1>2, <1>4, <2>5, <3>1, <3>2
         DEF ParseInv, TeidRoundTrip, DispositionPerSpec
  <2>7. CASE t = GTP_TYPE_GPDU
    <3>1. PICK id \in LoadChoices(p1(t), g + 4, 4, TeidVals) :
                 /\ pkt' = Fix(p1(t), g + 4, 4, id)
                 /\ teid' = TeidFromWire(pkt', g + 4)
                 /\ pc' = "lookup"
                 /\ UNCHANGED verdict
      BY <2>1, <2>7
    <3>2. /\ pkt' \in PktType /\ Known(pkt', g + 4, 4) /\ Extends(p1(t), pkt')
      BY <1>3, <2>2, <2>3, <3>1, LoadFacts, DomainsInt
    <3>3. /\ EthChecked(pkt', len) /\ LoopChecked(pkt', len, nh_off, 2, h_proto)
          /\ L3Off(pkt') = L3Off(p1(t)) /\ L3Type(pkt') = ETH_P_IP
          /\ IpChecked(pkt', len, nh_off)
          /\ UdpChecked(pkt', len, nh_off, udp_off)
          /\ WireAt(pkt', udp_off + 2, 2) = GTP_PORT
      <4>1. /\ EthChecked(pkt', len) /\ LoopChecked(pkt', len, nh_off, 2, h_proto)
            /\ L3Off(pkt') = L3Off(p1(t)) /\ L3Type(pkt') = ETH_P_IP
            /\ IpChecked(pkt', len, nh_off)
        BY <1>3, <2>3, <2>4, <3>2, ParsedStable
      <4>2. QED
        BY <1>3, <2>3, <2>4, <3>2, <4>1, UdpStable
    <3>4. /\ Classify(pkt', len) = ClassifyGTP(pkt', len)
          /\ udp_off = UdpOff(pkt') /\ GtpOff(pkt') = g
      BY <1>3, <3>2, <3>3, UdpDone
    <3>5. Known(pkt', g + 1, 1) /\ pkt'[g + 1] = GTP_TYPE_GPDU
      <4>1. g + 1 \in Offsets /\ g + 1 + 0 = g + 1
        BY <1>3, <2>2 DEF Offsets
      <4>2. p1(t)[g + 1] # Unread
        BY <2>3, <4>1 DEF Known
      <4>3. QED
        BY <2>3, <2>7, <3>2, <4>1, <4>2 DEF Extends, Known
    <3>6. ClassifyGTP(pkt', len) = Pass
      BY <1>3, <1>5, <2>2, <3>4, <3>5 DEF ClassifyGTP
    <3>7. teid' = Swap32(WireAt(pkt', g + 4, 4))
      <4>1. \A k \in 0 .. 3 : pkt'[g + 4 + k] \in Int /\ 0 <= pkt'[g + 4 + k]
                                /\ pkt'[g + 4 + k] < 256
        <5>1. \A k \in 0 .. 4 - 1 : pkt'[g + 4 + k] \in Int /\ 0 <= pkt'[g + 4 + k]
                                    /\ pkt'[g + 4 + k] < 256
          BY <1>3, <2>2, <3>2, KnownBytes
        <5>2. 0 .. 4 - 1 = 0 .. 3
          OBVIOUS
        <5>3. QED
          BY <5>1, <5>2, Zenon
      <4>2. HostLoad32(pkt', g + 4) = Swap32(WireAt(pkt', g + 4, 4))
        BY <2>2, <4>1, HostIsSwap32
      <4>3. QED
        BY <3>1, <4>2 DEF TeidFromWire
    <3>8. TeidRoundTrip'
      BY <3>3, <3>4, <3>5, <3>7 DEF TeidRoundTrip
    <3>9. verdict' = verdict
      BY <3>1
    <3>10. QED
      BY <1>1, <1>3, <1>4, <3>1, <3>3, <3>4, <3>6, <3>8, <3>9
         DEF ParseInv, DispositionPerSpec
  <2>8. QED
    BY <2>6, <2>7
<1>8. QED
  BY <1>6, <1>7

\* A step that changes nothing keeps ParseInv.
LEMMA StutterParse ==
  ASSUME ParseInv, UNCHANGED vars
  PROVE  ParseInv'
<1>1. IInv'
  BY StutterKeeps DEF ParseInv
<1>2. QED
  BY <1>1 DEF ParseInv, vars, EthChecked, LoopChecked, IpChecked, UdpChecked,
             TeidRoundTrip, DispositionPerSpec

-----------------------------------------------------------------------------
(* The shape of a step on a frame being parsed.                            *)

\* A block of xdp_upf on the current frame keeps its length, changes no
\* byte it has read, and either goes on with the verdict untouched or
\* returns XDP_PASS or XDP_DROP.
StepShape ==
  /\ pc # "idle" /\ len' = len /\ Extends(pkt, pkt')
  /\ \/ pc' # "idle" /\ verdict' = verdict
     \/ pc' = "idle" /\ verdict' \in Verdicts

\* Nothing read is a preorder's reflexive case: an unchanged frame.
LEMMA ExtendsRefl ==
  ASSUME NEW m
  PROVE  Extends(m, m)
BY DEF Extends

LEMMA EthHeaderShape ==
  ASSUME IInv, EthHeader
  PROVE  StepShape
<1>1. /\ pkt \in PktType /\ len \in Int /\ len <= MaxOff + 1
      /\ \A i \in Offsets : pkt[i] # Unread => i < len
  BY IInvFacts
<1>2. CASE ETH_HLEN > len
  BY <1>2, ExtendsRefl DEF EthHeader, Finish, StepShape, Verdicts
<1>3. CASE ~(ETH_HLEN > len)
  <2>1. PICK v \in LoadChoices(pkt, 12, 2, EtherTypes) :
          /\ pkt' = Fix(pkt, 12, 2, v)
          /\ IF NotEthernetII(HostLoad16(pkt', 12))
               THEN Finish("XDP_DROP")
               ELSE pc' = "vlan" /\ UNCHANGED verdict
    BY <1>3 DEF EthHeader
  <2>2. Extends(pkt, pkt')
    BY <1>1, <1>3, <2>1, LoadFacts, DomainsInt
  <2>3. QED
    BY <2>1, <2>2 DEF EthHeader, Finish, StepShape, Verdicts
<1>4. QED
  BY <1>2, <1>3

LEMMA VlanTagShape ==
  ASSUME IInv, VlanTag
  PROVE  StepShape
<1>1. /\ pkt \in PktType /\ len \in Int /\ len <= MaxOff + 1
      /\ \A i \in Offsets : pkt[i] # Unread => i < len
      /\ nh_off \in Nat
  BY IInvFacts DEF IInv, TypeOK
<1>2. CASE h_proto \in {Swap16(ETH_P_8021Q), Swap16(ETH_P_8021AD)}
  <2>1. CASE nh_off + VLAN_HLEN > len
    BY <1>2, <2>1, ExtendsRefl DEF VlanTag, Finish, StepShape, Verdicts
  <2>2. CASE ~(nh_off + VLAN_HLEN > len)
    <3>1. PICK v \in LoadChoices(pkt, nh_off + 2, 2, EtherTypes) :
            /\ pkt' = Fix(pkt, nh_off + 2, 2, v)
            /\ pc' \in {"dispatch", "vlan"}
            /\ UNCHANGED verdict
      BY <1>2, <2>2 DEF VlanTag
    <3>2. Extends(pkt, pkt')
      BY <1>1, <2>2, <3>1, LoadFacts, DomainsInt
    <3>3. QED
      BY <3>1, <3>2 DEF VlanTag, StepShape
  <2>3. QED
    BY <2>1, <2>2
<1>3. CASE h_proto \notin {Swap16(ETH_P_8021Q), Swap16(ETH_P_8021AD)}
  BY <1>3, ExtendsRefl DEF VlanTag, StepShape
<1>4. QED
  BY <1>2, <1>3

LEMMA DispatchShape ==
  ASSUME IInv, Dispatch
  PROVE  StepShape
BY ExtendsRefl DEF Dispatch, Finish, StepShape, Verdicts

LEMMA PdrLookupShape ==
  ASSUME IInv, PdrLookup
  PROVE  StepShape
BY ExtendsRefl DEF PdrLookup, Finish, StepShape, Verdicts

LEMMA IPv4Shape ==
  ASSUME IInv, IPv4
  PROVE  StepShape
<1>1. /\ pkt \in PktType /\ len \in Int /\ len <= MaxOff + 1
      /\ \A i \in Offsets : pkt[i] # Unread => i < len
      /\ nh_off \in Nat
  BY IInvFacts DEF IInv, TypeOK
<1>2. CASE IpHeaderEnd(nh_off) > len
  BY <1>2, ExtendsRefl DEF IPv4, Finish, StepShape, Verdicts
<1>3. CASE ~(IpHeaderEnd(nh_off) > len)
  <2>1. PICK p \in LoadChoices(pkt, nh_off + 9, 1, ProtoVals) :
          /\ pkt' = Fix(pkt, nh_off + 9, 1, p)
          /\ IF p # IPPROTO_UDP
               THEN Finish("XDP_PASS")
               ELSE pc' = "udp" /\ UNCHANGED verdict
    BY <1>3 DEF IPv4
  <2>2. Extends(pkt, pkt')
    BY <1>1, <1>3, <2>1, LoadFacts, DomainsInt
  <2>3. QED
    BY <2>1, <2>2 DEF IPv4, Finish, StepShape, Verdicts
<1>4. QED
  BY <1>2, <1>3

LEMMA UDPShape ==
  ASSUME IInv, UDP
  PROVE  StepShape
<1> DEFINE pkt1(x) == Fix(pkt, nh_off, 1, x)
           off(x) == nh_off + 4 * (x % 16)
<1>1. /\ pkt \in PktType /\ len \in Int /\ len <= MaxOff + 1
      /\ \A i \in Offsets : pkt[i] # Unread => i < len
      /\ nh_off \in Nat /\ pc = "udp" /\ nh_off + IPHDR_LEN <= len
  BY IInvFacts DEF IInv, TypeOK, UDP
<1>2. PICK b \in LoadChoices(pkt, nh_off, 1, VerIhlVals) :
        IF off(b) + UDPHDR_LEN > len
          THEN /\ Finish("XDP_DROP")
               /\ pkt' = pkt1(b)
          ELSE \E d \in LoadChoices(pkt1(b), off(b) + 2, 2, PortVals) :
                 /\ pkt' = Fix(pkt1(b), off(b) + 2, 2, d)
                 /\ pc' # "idle"
                 /\ UNCHANGED verdict
  BY DEF UDP
<1>3. /\ pkt1(b) \in PktType
      /\ \A i \in Offsets : pkt1(b)[i] # Unread => i < len
      /\ Extends(pkt, pkt1(b))
      /\ b \in Int
  BY <1>1, LoadFacts, LoadChoicesInt, DomainsInt
<1>4. off(b) \in Nat
  BY <1>1, <1>3
<1>5. len' = len
  BY DEF UDP
<1>6. CASE off(b) + UDPHDR_LEN > len
  BY <1>1, <1>2, <1>3, <1>5, <1>6 DEF Finish, StepShape, Verdicts
<1>7. CASE ~(off(b) + UDPHDR_LEN > len)
  <2>1. PICK d \in LoadChoices(pkt1(b), off(b) + 2, 2, PortVals) :
          /\ pkt' = Fix(pkt1(b), off(b) + 2, 2, d)
          /\ pc' # "idle"
          /\ UNCHANGED verdict
    BY <1>2, <1>7
  <2>2. Extends(pkt1(b), pkt')
    BY <1>1, <1>3, <1>4, <1>7, <2>1, LoadFacts, DomainsInt
  <2>3. Extends(pkt, pkt')
    BY <1>3, <2>2, ExtendsTrans
  <2>4. QED
    BY <1>1, <1>5, <2>1, <2>3 DEF StepShape
<1>8. QED
  BY <1>6, <1>7

LEMMA GTPShape ==
  ASSUME IInv, GTP
  PROVE  StepShape
<1> DEFINE g == udp_off + UDPHDR_LEN
           p1(x) == Fix(pkt, g + 1, 1, x)
<1>1. /\ pkt \in PktType /\ len \in Int /\ len <= MaxOff + 1
      /\ \A i \in Offsets : pkt[i] # Unread => i < len
      /\ udp_off \in Nat /\ pc = "gtp" /\ len' = len
  BY IInvFacts DEF IInv, TypeOK, GTP
<1>2. CASE GtpWindowEnd(udp_off) > len
  BY <1>1, <1>2, ExtendsRefl DEF GTP, Finish, StepShape, Verdicts
<1>3. CASE ~(GtpWindowEnd(udp_off) > len)
  <2>1. PICK t \in LoadChoices(pkt, g + 1, 1, GtpTypeVals) :
          IF t # GTP_TYPE_GPDU
            THEN /\ Finish("XDP_DROP")
                 /\ pkt' = p1(t)
            ELSE \E id \in LoadChoices(p1(t), g + 4, 4, TeidVals) :
                   /\ pkt' = Fix(p1(t), g + 4, 4, id)
                   /\ pc' = "lookup"
                   /\ UNCHANGED verdict
    BY <1>3 DEF GTP
  <2>2. g + 1 \in Nat /\ g + 1 + 1 <= len /\ g + 4 \in Nat /\ g + 4 + 4 <= len
    BY <1>1, <1>3 DEF GtpWindowEnd
  <2>3. /\ p1(t) \in PktType
        /\ \A i \in Offsets : p1(t)[i] # Unread => i < len
        /\ Extends(pkt, p1(t))
    BY <1>1, <2>2, LoadFacts, DomainsInt
  <2>4. CASE t # GTP_TYPE_GPDU
    BY <1>1, <2>1, <2>3, <2>4 DEF Finish, StepShape, Verdicts
  <2>5. CASE t = GTP_TYPE_GPDU
    <3>1. PICK id \in LoadChoices(p1(t), g + 4, 4, TeidVals) :
            /\ pkt' = Fix(p1(t), g + 4, 4, id)
            /\ pc' = "lookup"
            /\ UNCHANGED verdict
      BY <2>1, <2>5
    <3>2. Extends(p1(t), pkt')
      BY <1>1, <2>2, <2>3, <3>1, LoadFacts, DomainsInt
    <3>3. Extends(pkt, pkt')
      BY <2>3, <3>2, ExtendsTrans
    <3>4. QED
      BY <1>1, <3>1, <3>3 DEF StepShape
  <2>6. QED
    BY <2>4, <2>5
<1>4. QED
  BY <1>2, <1>3

-----------------------------------------------------------------------------
(* The parse invariant and the properties it carries.                      *)

\* Before the first frame nothing is parsed and no TEID is stored.
THEOREM ParseInvInit == Init => ParseInv
<1> SUFFICES ASSUME Init PROVE ParseInv
  OBVIOUS
<1>1. IInv
  BY IInvInit
<1>2. QED
  BY <1>1 DEF Init, ParseInv, TeidRoundTrip, DispositionPerSpec

\* ParseInv is inductive: each block of xdp_upf, and a stutter, keeps it.
THEOREM ParseInvStep == ParseInv /\ [Next]_vars => ParseInv'
<1> SUFFICES ASSUME ParseInv, [Next]_vars PROVE ParseInv'
  OBVIOUS
<1>1. CASE Receive
  BY <1>1, ReceiveParse
<1>2. CASE EthHeader
  BY <1>2, EthHeaderParse
<1>3. CASE VlanTag
  BY <1>3, VlanTagParse
<1>4. CASE Dispatch
  BY <1>4, DispatchParse
<1>5. CASE IPv4
  BY <1>5, IPv4Parse
<1>6. CASE UDP
  BY <1>6, UDPParse
<1>7. CASE GTP
  BY <1>7, GTPParse
<1>8. CASE PdrLookup
  BY <1>8, PdrLookupParse
<1>9. CASE UNCHANGED vars
  BY <1>9, StutterParse
<1>10. QED
  BY <1>1, <1>2, <1>3, <1>4, <1>5, <1>6, <1>7, <1>8, <1>9 DEF Next

\* The parse invariant holds in every state of the access program.
THEOREM ParseInvHolds == Spec => []ParseInv
  BY ParseInvInit, ParseInvStep, PTL DEF Spec

\* Every frame xdp_upf finishes with gets the disposition the wire-level
\* contract prescribes for its bytes (XDP_DROP or XDP_PASS), for every
\* MaxLen and every set of field values: the byte swaps of
\* validate_ethertype and the UDP port test, the Ethernet II floor, the
\* two-tag cap, the IPv4, UDP and GTP window checks agree with Classify.
THEOREM DispositionCorrect == Spec => []DispositionPerSpec
<1>1. ParseInv => DispositionPerSpec
  BY DEF ParseInv
<1>2. QED
  BY <1>1, ParseInvInit, ParseInvStep, PTL DEF Spec

\* The TEID parse_and_validate_gtp stores is only ever set on a G-PDU to
\* port 2152 and is the wire TEID byte-swapped (the raw host load of the
\* big-endian field), for every MaxLen and set of TEID values.
THEOREM TeidCorrect == Spec => []TeidRoundTrip
<1>1. ParseInv => TeidRoundTrip
  BY DEF ParseInv
<1>2. QED
  BY <1>1, ParseInvInit, ParseInvStep, PTL DEF Spec

-----------------------------------------------------------------------------
(* xdp_upf implements the abstract classifier.                             *)

\* The classifier's view of the frame is the program's: the byte
\* offsets, the unread marker and the classification are the same
\* operators of Wire.
LEMMA AbsWire ==
  /\ Abs!Offsets = Offsets /\ Abs!Unread = Unread /\ Abs!Undecided = Undecided
  /\ \A m, l : Abs!Classify(m, l) = Classify(m, l)
<1>1. /\ Abs!Offsets = Offsets /\ Abs!Unread = Unread /\ Abs!Undecided = Undecided
      /\ Abs!Drop = Drop /\ Abs!Pass = Pass
  BY DEF Abs!Offsets, Abs!MaxOff, Abs!Unread, Abs!Undecided, Abs!Drop, Abs!Pass,
         Abs!ETH_HLEN, Abs!VLAN_HLEN, Abs!UDPHDR_LEN, Abs!GTPHDR_LEN,
         Offsets, Drop, Pass, Undecided
<1>2. \A m, o, w : /\ Abs!WireAt(m, o, w) = WireAt(m, o, w)
                   /\ Abs!Known(m, o, w) = Known(m, o, w)
  BY <1>1 DEF Abs!WireAt, Abs!Known, WireAt, Known
<1>3. \A m : /\ Abs!Tags(m) = Tags(m) /\ Abs!Tag1(m) = Tag1(m) /\ Abs!Tag2(m) = Tag2(m)
  BY <1>2 DEF Abs!Tags, Abs!Tag1, Abs!Tag2, Abs!IsTag, Abs!ETH_P_8021Q,
              Abs!ETH_P_8021AD, Tags, Tag1, Tag2, IsTag
<1>4. \A m : /\ Abs!L3Off(m) = L3Off(m) /\ Abs!L3Type(m) = L3Type(m)
             /\ Abs!UdpOff(m) = UdpOff(m) /\ Abs!GtpOff(m) = GtpOff(m)
  BY <1>2, <1>3 DEF Abs!L3Off, Abs!L3Type, Abs!UdpOff, Abs!GtpOff,
                    Abs!ETH_HLEN, Abs!VLAN_HLEN, Abs!UDPHDR_LEN,
                    L3Off, L3Type, UdpOff, GtpOff
<1>5. \A m, l : /\ Abs!ClassifyGTP(m, l) = ClassifyGTP(m, l)
                /\ Abs!ClassifyUDP(m, l) = ClassifyUDP(m, l)
  <2>1. \A m, l : Abs!ClassifyGTP(m, l) = ClassifyGTP(m, l)
    BY <1>1, <1>2, <1>4 DEF Abs!ClassifyGTP, Abs!GTPHDR_LEN, Abs!GTP_TYPE_GPDU,
                            ClassifyGTP
  <2>2. QED
    BY <1>1, <1>2, <1>4, <2>1 DEF Abs!ClassifyUDP, Abs!UDPHDR_LEN, Abs!GTP_PORT,
                                  ClassifyUDP
<1>6. \A m, l : /\ Abs!ClassifyIPv4(m, l) = ClassifyIPv4(m, l)
                /\ Abs!ClassifyTagged(m, l) = ClassifyTagged(m, l)
  <2>1. \A m, l : Abs!ClassifyIPv4(m, l) = ClassifyIPv4(m, l)
    BY <1>1, <1>2, <1>4, <1>5 DEF Abs!ClassifyIPv4, Abs!IPHDR_LEN,
                                  Abs!IPPROTO_UDP, ClassifyIPv4
  <2>2. QED
    BY <1>1, <1>2, <1>3, <1>4, <2>1
       DEF Abs!ClassifyTagged, Abs!ETH_HLEN, Abs!VLAN_HLEN, Abs!ETH_P_IP,
           ClassifyTagged
<1>7. QED
  BY <1>1, <1>2, <1>6 DEF Abs!Classify, Abs!ETH_HLEN, Abs!ETH_P_802_3_MIN, Classify


\* Every step of xdp_upf is a step of FrameClassifier under the mapping
\* busy = (pc # "idle"): a new frame is Arrive, a block that loads bytes
\* and goes on is Inspect, a block that returns is Decide (the verdict is
\* the design's, by ParseInv), and a stutter is a stutter.
LEMMA RefineStep ==
  ASSUME ParseInv, ParseInv', [Next]_vars
  PROVE  [Abs!Next]_Abs!vars
<1>1. CASE Receive
  <2>1. Abs!Arrive
    BY <1>1, AbsWire DEF Receive, Abs!Arrive
  <2>2. QED
    BY <2>1 DEF Abs!Next
<1>2. CASE StepShape
  <2>1. /\ pkt' \in [Offsets -> Unread .. 255]
        /\ \A o \in Offsets : pkt'[o] # Unread => o < len'
        /\ DispositionPerSpec'
    BY DEF ParseInv, IInv, TypeOK, MemSafe
  <2>2. /\ pc # "idle" /\ len' = len
        /\ \A o \in Offsets : pkt[o] # Unread => pkt'[o] = pkt[o]
    BY <1>2 DEF StepShape, Extends
  <2>3. Abs!Inspected(pkt, pkt')
    BY <2>1, <2>2, AbsWire DEF Abs!Inspected
  <2>4. CASE pc' # "idle" /\ verdict' = verdict
    <3>1. Abs!Inspect
      BY <2>2, <2>3, <2>4 DEF Abs!Inspect
    <3>2. QED
      BY <3>1 DEF Abs!Next
  <2>5. CASE pc' = "idle" /\ verdict' \in Verdicts
    <3>1. verdict' = Classify(pkt', len) /\ verdict' # Undecided
      BY <2>1, <2>2, <2>5 DEF DispositionPerSpec, Verdicts, Undecided
    <3>2. Abs!Decide
      BY <2>2, <2>3, <2>5, <3>1, AbsWire DEF Abs!Decide
    <3>3. QED
      BY <3>2 DEF Abs!Next
  <2>6. QED
    BY <1>2, <2>4, <2>5 DEF StepShape
<1>3. CASE UNCHANGED vars
  BY <1>3 DEF vars, Abs!vars
<1>4. IInv
  BY DEF ParseInv
<1>5. QED
  BY <1>1, <1>2, <1>3, <1>4, EthHeaderShape, VlanTagShape, DispatchShape,
     IPv4Shape, UDPShape, GTPShape, PdrLookupShape DEF Next

\* xdp_upf refines the design's classifier, for every MaxLen and every
\* set of field values: it inspects only bytes inside the frame, never
\* changes a byte it has read, and returns for each frame the disposition
\* the design gives for the bytes it read, which already decide it.
THEOREM XdpImplementsClassifier == Spec => ImplementsClassifier
<1>1. Init => Abs!Init
  BY AbsWire DEF Init, Abs!Init
<1>2. ParseInv /\ ParseInv' /\ [Next]_vars => [Abs!Next]_Abs!vars
  BY RefineStep
<1>3. QED
  BY <1>1, <1>2, ParseInvInit, ParseInvStep, PTL
     DEF Spec, ImplementsClassifier, Abs!Spec

=============================================================================
