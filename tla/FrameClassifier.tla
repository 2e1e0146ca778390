--------------------------- MODULE FrameClassifier ---------------------------
(***************************************************************************)
(* What the access fast path promises (design sections 3, 4.1-4.3, 5, 7), *)
(* with no parsing order in it: frames arrive one at a time; while a      *)
(* frame is being classified, bytes inside the frame (and only those) may *)
(* be inspected, several at once; the frame is finished with the         *)
(* disposition Classify gives for the bytes inspected so far, which must  *)
(* already decide it.                                                      *)
(***************************************************************************)
EXTENDS Wire

CONSTANT MaxLen   \* largest frame length considered

VARIABLES
  busy,     \* a frame is being classified
  len,      \* its length
  pkt,      \* pkt[o]: the byte at offset o once inspected, else Unread
  verdict   \* the disposition of the last finished frame, "none" before

vars == <<busy, len, pkt, verdict>>

\* m2 is m with some more bytes inspected, all inside the frame.
Inspected(m, m2) ==
  /\ m2 \in [Offsets -> Unread .. 255]
  /\ \A o \in Offsets : m[o] # Unread => m2[o] = m[o]
  /\ \A o \in Offsets : m2[o] # Unread => o < len

Init ==
  /\ busy = FALSE
  /\ len = 0
  /\ pkt = [o \in Offsets |-> Unread]
  /\ verdict = "none"

Arrive ==
  /\ ~busy
  /\ busy' = TRUE
  /\ len' \in 0 .. MaxLen
  /\ pkt' = [o \in Offsets |-> Unread]
  /\ verdict' = "none"

Inspect ==
  /\ busy
  /\ Inspected(pkt, pkt')
  /\ UNCHANGED <<busy, len, verdict>>

Decide ==
  /\ busy
  /\ Inspected(pkt, pkt')
  /\ verdict' = Classify(pkt', len)
  /\ verdict' # Undecided
  /\ busy' = FALSE
  /\ UNCHANGED len

Next == Arrive \/ Inspect \/ Decide

Spec == Init /\ [][Next]_vars

=============================================================================
