---------------------------- MODULE MC_UpfControl ----------------------------
(* Model-checking instance of UpfControl: two flows, ports that do and do *)
(* not survive the narrowing to 16 bits, two values, a one-entry map so   *)
(* that a new key meets a full map.                                       *)
EXTENDS UpfControl

\* 5000 and 5000 + 65536 narrow to the same uint16_t.
MCUePorts == {5000, 70536}
MCInetPorts == {80}
\* UDP, and 17 + 256 that narrows to it.
MCProtos == {17, 273}
MCMaxEntries == 1

=============================================================================
