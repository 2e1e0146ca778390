--------------------------- MODULE MC_AccessParser ---------------------------
(* Model-checking instance of AccessParser: frames of every length up to  *)
(* the largest one that fits two tags, a 60-byte IPv4 header, UDP and GTP, *)
(* and for each field the values on both sides of every comparison the    *)
(* code makes.                                                             *)
EXTENDS AccessParser

\* 2 tags + ihl 15 + UDP + GTP = 98 bytes, the last offset any load reaches.
MCMaxLen == 98
\* IPv4, IPv6, ARP, both tag types, and both sides of the 0x0600 floor.
MCEtherTypes == {\h0800, \h86DD, \h0806, \h8100, \h88A8, \h05FF, \h0600}
\* IPv4 with ihl 0 and 1 (malformed, below 5), 5, 6 and 15 (the largest).
MCVerIhlVals == {\h40, \h41, \h45, \h46, \h4F}
\* UDP and TCP.
MCProtoVals == {17, 6}
\* GTP-U and GTP-C.
MCPortVals == {2152, 2123}
\* G-PDU and echo request.
MCGtpTypeVals == {255, 1}
\* An asymmetric TEID (0x00000042, as in the spec's example) and another.
MCTeidVals == {\h00000042, \h01020304}

=============================================================================
