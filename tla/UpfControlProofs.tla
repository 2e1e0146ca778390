--------------------------- MODULE UpfControlProofs ---------------------------
(***************************************************************************)
(* Proofs about the UPFeBPF control module, for every set of flows, ports, *)
(* protocols and values and every map size: the control state stays well *)
(* typed and the PDR map never holds more keys than max_entries.  The     *)
(* proof rests on the inductive invariant IInv of UpfControl, which adds  *)
(* to TypeOK that the set of stored keys is finite, so that its           *)
(* cardinality is a number that an insert raises by at most one.          *)
(***************************************************************************)
EXTENDS UpfControl, FiniteSetTheorems, TLAPS

-----------------------------------------------------------------------------
(* Initial state.                                                          *)

THEOREM IInvInit == Init => IInv
<1> SUFFICES ASSUME Init PROVE IInv
  OBVIOUS
<1>1. Stored(table) = {}
  BY DEF Init, Stored
<1>2. IsFiniteSet(Stored(table)) /\ Cardinality(Stored(table)) = 0
  BY <1>1, FS_EmptySet
<1>3. PDR_LIST_MAX_SIZE \in Nat
  BY ConstantsOK
<1>4. Cardinality(Stored(table)) <= PDR_LIST_MAX_SIZE
  BY <1>2, <1>3
<1>5. TypeOK
  BY <1>4 DEF Init, TypeOK
<1>6. QED
  BY <1>2, <1>5 DEF Init, IInv

-----------------------------------------------------------------------------
(* One lemma per handler.                                                  *)

\* UPFeBPF::Init: every outcome sets the control fields to well-typed
\* values and leaves the PDR map alone.
LEMMA InitModuleKeeps ==
  ASSUME IInv, InitModule
  PROVE  IInv'
<1>1. PICK failAt \in DOMAIN StepNo :
        LET passed(s) == StepNo[s] < StepNo[failAt] IN
        /\ ifindex' = [r \in Roles |-> IF passed(NameStep[r]) THEN PortOf[r] ELSE NoIf]
        /\ prog' = [r \in Roles |-> IF passed(OpenStep[r]) THEN "open" ELSE "null"]
        /\ xdp' = [p \in Ports |->
                     {r \in Roles : passed(AttachStep[r]) /\ p = AttachTarget(r)'}]
        /\ map_fd' = IF failAt = "done" THEN "valid" ELSE "unset"
        /\ module' = IF failAt = "done" THEN "live" ELSE "destroyed"
        /\ result' = IF failAt = "done" THEN "success" ELSE "failure"
  BY DEF InitModule
<1>2. UNCHANGED <<table, origin, uaf>>
  BY DEF InitModule
<1>3. TypeOK'
  <2>1. Cardinality(Stored(table))' <= PDR_LIST_MAX_SIZE
    BY <1>2 DEF IInv, TypeOK
  <2>2. QED
    BY <1>1, <1>2, <2>1 DEF IInv, TypeOK, Roles, Ports, PortOf, StepNo
<1>4. IsFiniteSet(Stored(table))'
  BY <1>2 DEF IInv, Stored
<1>5. QED
  BY <1>3, <1>4 DEF IInv

\* CommandAddPDR: the upsert writes one key, and a new key only into a map
\* with a free slot.
LEMMA AddPDRKeeps ==
  ASSUME IInv, AddPDR
  PROVE  IInv'
<1>1. PICK a \in Args, v \in PdrValues :
        LET k == KeyOf(a) IN
        IF UpdateOk(table, k)
          THEN /\ table' = [table EXCEPT ![k] = v]
               /\ origin' = [origin EXCEPT ![k] = a]
               /\ result' = "success"
          ELSE /\ result' = "failure"
               /\ UNCHANGED <<table, origin>>
  BY DEF AddPDR
<1>2. UNCHANGED <<module, ifindex, prog, xdp, map_fd, uaf>>
  BY DEF AddPDR
<1> DEFINE k == KeyOf(a)
<1>3. k \in Keys
  BY DEF Keys
<1>4. PDR_LIST_MAX_SIZE \in Nat
  BY ConstantsOK
<1>5. CASE UpdateOk(table, k)
  <2>1. table' = [table EXCEPT ![k] = v] /\ origin' = [origin EXCEPT ![k] = a]
        /\ result' = "success"
    BY <1>1, <1>5
  <2>2. Stored(table') \subseteq Stored(table) \cup {k}
    BY <2>1, <1>3 DEF Stored
  <2>3. IsFiniteSet(Stored(table) \cup {k})
        /\ Cardinality(Stored(table) \cup {k}) =
             IF k \in Stored(table) THEN Cardinality(Stored(table))
             ELSE Cardinality(Stored(table)) + 1
    BY FS_AddElement DEF IInv
  <2>4. IsFiniteSet(Stored(table'))
        /\ Cardinality(Stored(table')) <= Cardinality(Stored(table) \cup {k})
    BY <2>2, <2>3, FS_Subset
  <2>5. Cardinality(Stored(table) \cup {k}) <= PDR_LIST_MAX_SIZE
    <3>1. Cardinality(Stored(table)) \in Nat
      BY FS_CardinalityType DEF IInv
    <3>2. CASE k \in Stored(table)
      BY <2>3, <3>2 DEF IInv, TypeOK
    <3>3. CASE k \notin Stored(table)
      <4>1. table[k] = NoEntry
        BY <3>3, <1>3 DEF Stored
      <4>2. Cardinality(Stored(table)) < PDR_LIST_MAX_SIZE
        BY <4>1, <1>5 DEF UpdateOk
      <4>3. QED
        BY <2>3, <3>1, <3>3, <4>2, <1>4
    <3>4. QED
      BY <3>2, <3>3
  <2>6. Cardinality(Stored(table')) \in Nat
    BY <2>4, FS_CardinalityType
  <2>10. Cardinality(Stored(table) \cup {k}) \in Nat
    BY <2>3, FS_CardinalityType
  <2>7. Cardinality(Stored(table')) <= PDR_LIST_MAX_SIZE
    BY <2>4, <2>5, <2>6, <2>10, <1>4
  <2>9. TypeOK'
    BY <2>1, <1>2, <1>3, <2>7 DEF IInv, TypeOK
  <2>8. QED
    BY <2>4, <2>9, <1>2 DEF IInv
<1>6. CASE ~UpdateOk(table, k)
  BY <1>1, <1>2, <1>6 DEF IInv, TypeOK, Stored
<1>7. QED
  BY <1>5, <1>6

\* CommandClear: whichever detaches succeed, the attachments only shrink,
\* every present program becomes closed and the PDR map is untouched.
LEMMA ClearKeeps ==
  ASSUME IInv, Clear
  PROVE  IInv'
<1> DEFINE present == {r \in Roles : prog[r] # "null"}
<1>1. PICK detached \in SUBSET present : xdp' = Detach(xdp, detached)
  BY DEF Clear
<1>2. /\ prog' = [r \in Roles |-> IF r \in present THEN "closed" ELSE prog[r]]
      /\ uaf' = (uaf \/ \E r \in present : prog[r] = "closed")
      /\ result' = "success"
      /\ UNCHANGED <<module, ifindex, map_fd, table, origin>>
  BY DEF Clear
<1>3. xdp' \in [Ports -> SUBSET Roles]
  BY <1>1 DEF Detach, IInv, TypeOK
<1>4. prog' \in [Roles -> {"null", "open", "closed"}]
  BY <1>2 DEF IInv, TypeOK
<1>5. Cardinality(Stored(table))' <= PDR_LIST_MAX_SIZE
  BY <1>2 DEF IInv, TypeOK
<1>6. TypeOK'
  BY <1>2, <1>3, <1>4, <1>5 DEF IInv, TypeOK
<1>7. QED
  BY <1>2, <1>6 DEF IInv, Stored

LEMMA StutterKeeps ==
  ASSUME IInv, UNCHANGED vars
  PROVE  IInv'
  BY DEF IInv, TypeOK, Stored, vars

THEOREM IInvStep == IInv /\ [Next]_vars => IInv'
<1> SUFFICES ASSUME IInv, [Next]_vars PROVE IInv'
  OBVIOUS
<1>1. CASE InitModule
  BY <1>1, InitModuleKeeps
<1>2. CASE AddPDR
  BY <1>2, AddPDRKeeps
<1>3. CASE Clear
  BY <1>3, ClearKeeps
<1>4. CASE UNCHANGED vars
  BY <1>4, StutterKeeps
<1>5. QED
  BY <1>1, <1>2, <1>3, <1>4 DEF Next

-----------------------------------------------------------------------------
(* The properties.                                                         *)

\* The invariant holds in every state of the control module.
THEOREM IInvHolds == Spec => []IInv
  BY IInvInit, IInvStep, PTL DEF Spec

\* The control state stays well typed and the PDR map never holds more
\* keys than max_entries, whatever sequence of Init outcomes, add-pdr and
\* clear commands runs (the map's E2BIG check in CommandAddPDR's update).
THEOREM UpfTypeCorrect == Spec => []TypeOK
<1>1. IInv => TypeOK
  BY DEF IInv
<1>2. QED
  BY <1>1, IInvHolds, PTL

=============================================================================
