-------------------------------- MODULE Wire --------------------------------
(***************************************************************************)
(* The wire format the access program consumes: header sizes and protocol *)
(* numbers, a frame as a map from offsets to bytes (Unread for a byte      *)
(* nobody has looked at), and the classification the design document     *)
(* prescribes for a frame from its bytes (its sections 4.1-4.3 and 7).    *)
(* The classification is stated on the bytes that have been read: it is  *)
(* Undecided while a byte it depends on is still Unread.                  *)
(***************************************************************************)
EXTENDS Integers

\* Header sizes and protocol numbers (linux/if_ether.h, ip.h, udp.h,
\* upf_bpf_common.h, gtp_utils.h).
ETH_HLEN == 14
VLAN_HLEN == 4
IPHDR_LEN == 20
UDPHDR_LEN == 8
GTPHDR_LEN == 8
ETH_P_802_3_MIN == \h0600
ETH_P_IP == \h0800
ETH_P_8021Q == \h8100
ETH_P_8021AD == \h88A8
IPPROTO_UDP == 17
GTP_PORT == 2152
GTP_TYPE_GPDU == 255

\* Every offset any load of the program can reach: two VLAN tags, an IPv4
\* header of the largest ihl (15 words) and the UDP and GTP headers.
MaxOff == ETH_HLEN + 2 * VLAN_HLEN + 4 * 15 + UDPHDR_LEN + GTPHDR_LEN - 1
Offsets == 0 .. MaxOff
Unread == -1

\* Weight of byte k (0 = first on the wire) in a w-byte big-endian field.
Weight(w, k) == IF w - 1 - k = 0 THEN 1
                ELSE IF w - 1 - k = 1 THEN 256
                ELSE IF w - 1 - k = 2 THEN 65536
                ELSE 16777216

\* Byte k of the w-byte wire value v.
ByteOf(v, w, k) == (v \div Weight(w, k)) % 256

\* The wire value of the w bytes at offset o of the byte map m.
WireAt(m, o, w) == CASE w = 1 -> m[o]
                     [] w = 2 -> m[o] * 256 + m[o + 1]
                     [] w = 4 -> ((m[o] * 256 + m[o + 1]) * 256
                                    + m[o + 2]) * 256 + m[o + 3]

\* All w bytes at offset o have been read.
Known(m, o, w) == \A k \in 0 .. w - 1 : m[o + k] # Unread

-----------------------------------------------------------------------------
(* The prescribed classification (design sections 4.1-4.3, 7).           *)

Drop == "XDP_DROP"
Pass == "XDP_PASS"
Undecided == "undecided"

IsTag(t) == t \in {ETH_P_8021Q, ETH_P_8021AD}
\* The first, and the second stacked, tag; a third is never unwrapped.
Tag1(m) == IsTag(WireAt(m, 12, 2))
Tag2(m) == Tag1(m) /\ IsTag(WireAt(m, 16, 2))
Tags(m) == IF Tag2(m) THEN 2 ELSE IF Tag1(m) THEN 1 ELSE 0
\* Where the layer-3 header starts and the ether_type that announces it.
L3Off(m) == ETH_HLEN + VLAN_HLEN * Tags(m)
L3Type(m) == WireAt(m, L3Off(m) - 2, 2)
\* The UDP header after the IPv4 header of 4 * ihl bytes, then GTP.
UdpOff(m) == L3Off(m) + 4 * (m[L3Off(m)] % 16)
GtpOff(m) == UdpOff(m) + UDPHDR_LEN

\* The disposition of the frame of length l whose read bytes are m: the
\* checks of the design in the order it gives them, each on a header only
\* once that header is known to fit, one operator per header.

\* GTP-U (section 4.3): the 8-byte header must fit and be a G-PDU.
ClassifyGTP(m, l) ==
  IF GtpOff(m) + GTPHDR_LEN > l THEN Drop
  ELSE IF ~Known(m, GtpOff(m) + 1, 1) THEN Undecided
  ELSE IF m[GtpOff(m) + 1] # GTP_TYPE_GPDU THEN Drop
  ELSE Pass

\* UDP (section 4.2): after 4 * ihl bytes of IPv4 header; only port 2152
\* goes on to GTP, other UDP traffic passes.
ClassifyUDP(m, l) ==
  IF ~Known(m, L3Off(m), 1) THEN Undecided
  ELSE IF UdpOff(m) + UDPHDR_LEN > l THEN Drop
  ELSE IF ~Known(m, UdpOff(m) + 2, 2) THEN Undecided
  ELSE IF WireAt(m, UdpOff(m) + 2, 2) # GTP_PORT THEN Pass
  ELSE ClassifyGTP(m, l)

\* IPv4 (section 4.2): the fixed header must fit; non-UDP traffic passes.
ClassifyIPv4(m, l) ==
  IF L3Off(m) + IPHDR_LEN > l THEN Drop
  ELSE IF ~Known(m, L3Off(m) + 9, 1) THEN Undecided
  ELSE IF m[L3Off(m) + 9] # IPPROTO_UDP THEN Pass
  ELSE ClassifyUDP(m, l)

\* VLAN tags (section 4.1): each of at most two tags must fit; what
\* follows them must be IPv4.
ClassifyTagged(m, l) ==
  IF Tag1(m) /\ ETH_HLEN + VLAN_HLEN > l THEN Drop
  ELSE IF Tag1(m) /\ ~Known(m, 16, 2) THEN Undecided
  ELSE IF Tag2(m) /\ ETH_HLEN + 2 * VLAN_HLEN > l THEN Drop
  ELSE IF Tag2(m) /\ ~Known(m, 20, 2) THEN Undecided
  ELSE IF L3Type(m) # ETH_P_IP THEN Drop
  ELSE ClassifyIPv4(m, l)

\* The Ethernet header (section 4.1) must fit and be Ethernet II.
Classify(m, l) ==
  IF l < ETH_HLEN THEN Drop
  ELSE IF ~Known(m, 12, 2) THEN Undecided
  ELSE IF WireAt(m, 12, 2) < ETH_P_802_3_MIN THEN Drop
  ELSE ClassifyTagged(m, l)

=============================================================================
