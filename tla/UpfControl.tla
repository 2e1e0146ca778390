----------------------------- MODULE UpfControl -----------------------------
(***************************************************************************)
(* The control plane of the UPF: the BESS module UPFeBPF                   *)
(* (upf_bpf_main.cc) with its three entry points Init, CommandAddPDR       *)
(* ("add-pdr") and CommandClear ("clear"), the XDP attachments it makes    *)
(* on the two ports, and the PDR hash map pdr_list_m (upf_bpf_maps.h)      *)
(* that add-pdr writes.  BESS runs the commands one at a time              *)
(* (Command::THREAD_UNSAFE), so each handler is one atomic action; the     *)
(* libbpf/libxdp calls that can fail are nondeterministic outcomes.        *)
(***************************************************************************)
EXTENDS Integers, FiniteSets

CONSTANTS
  Flows,              \* abstract 32-bit key fields: tunnel dst, TEID, UE ip, inet ip
  UePorts,            \* values of the request's uesrcport (protobuf uint32)
  InetPorts,          \* values of the request's inetsrcport (protobuf uint32)
  Protos,             \* values of the request's protoid (protobuf uint32)
  PdrValues,          \* abstract PDR values (pdr_id, fse_id, ctr_id, qer_id, far_id)
  PDR_LIST_MAX_SIZE   \* max_entries of pdr_list_m (10000 in the code)

ASSUME ConstantsOK ==
  /\ UePorts \subseteq Nat
  /\ InetPorts \subseteq Nat
  /\ Protos \subseteq Nat
  /\ PDR_LIST_MAX_SIZE \in Nat \ {0}

Roles == {"access", "core"}          \* prog_access_ / prog_core_
Ports == {"access_if", "core_if"}    \* the interfaces the two names resolve to
NoIf == "no_if"                       \* PortConf's if_index_ 0 before initPorts
NoEntry == "NoEntry"
NoReq == <<>>

\* The add-pdr arguments that make the key, and the packed pdr_key_t they
\* become: the 16-bit ports and the 8-bit protocol are plain C narrowing
\* assignments from the protobuf fields.
Args == Flows \X UePorts \X InetPorts \X Protos
KeyOf(a) == <<a[1], a[2] % 65536, a[3] % 65536, a[4] % 256>>
Keys == {KeyOf(a) : a \in Args}

VARIABLES
  module,   \* BESS module: "none" before creation, "live", or "destroyed"
  ifindex,  \* ifindex[r]: if_index_ of the PortConf of role r
  prog,     \* prog[r]: the xdp_program pointer: "null", "open" or "closed"
  xdp,      \* xdp[p]: the roles whose program is attached to interface p
  map_fd,   \* pdr_map_fd_: "unset", or "valid"
  table,    \* pdr_list_m: table[k] is the value stored under key k
  origin,   \* history: the add-pdr arguments that last wrote table[k]
  uaf,      \* history: a closed xdp_program was passed to libxdp
  result    \* CommandResponse of the last handler

vars == <<module, ifindex, prog, xdp, map_fd, table, origin, uaf, result>>

-----------------------------------------------------------------------------
(* The PDR hash map (BPF_MAP_TYPE_HASH, max_entries PDR_LIST_MAX_SIZE).    *)

Stored(t) == {k \in Keys : t[k] # NoEntry}

\* Mutant: a new key admitted when the map already holds max_entries.
MutUpdateOk(t, k) == t[k] # NoEntry \/ Cardinality(Stored(t)) <= PDR_LIST_MAX_SIZE

\* bpf_map_update_elem(BPF_ANY): an existing key is overwritten; a new key
\* needs a free slot, or the update fails with E2BIG.
UpdateOk(t, k) == t[k] # NoEntry \/ Cardinality(Stored(t)) < PDR_LIST_MAX_SIZE

-----------------------------------------------------------------------------
(* Pieces of the handlers that the mutants change.                        *)

\* xdp_program__attach(prog_r, r_port_.getIfIndex(), XDP_MODE_NATIVE, 0).
AttachTarget(r) == ifindex[r]

\* xdp_program__detach(prog_r, r_port_.getIfIndex(), ...) for each role r
\* of D, the roles whose detach succeeds: each leaves the interface its
\* PortConf names.  The return value is never looked at, so a role whose
\* detach failed simply stays attached.
Detach(x, D) == [p \in Ports |-> x[p] \ {r \in D : ifindex[r] = p}]

-----------------------------------------------------------------------------
(* The handlers.                                                           *)

Init ==
  /\ module = "none"
  /\ ifindex = [r \in Roles |-> NoIf]
  /\ prog = [r \in Roles |-> "null"]
  /\ xdp = [p \in Ports |-> {}]
  /\ map_fd = "unset"
  /\ table = [k \in Keys |-> NoEntry]
  /\ origin = [k \in Keys |-> NoReq]
  /\ uaf = FALSE
  /\ result = "none"

\* The steps of UPFeBPF::Init, numbered in the order it takes them; Init
\* stops at the first that fails.
StepNo == [access_name |-> 1, core_name |-> 2, open_access |-> 3,
           attach_access |-> 4, open_core |-> 5, attach_core |-> 6,
           map_fd |-> 7, done |-> 8]
NameStep == [access |-> "access_name", core |-> "core_name"]
OpenStep == [access |-> "open_access", core |-> "open_core"]
AttachStep == [access |-> "attach_access", core |-> "attach_core"]
\* if_nametoindex of the configured access_port and core_port names.
PortOf == [access |-> "access_if", core |-> "core_if"]

\* UPFeBPF::Init with initPorts, openAndLoadAccess and openAndLoadCore.
\* failAt is the step that fails ("done": none does).  Every step before it
\* has taken effect; a failure is returned as CommandFailure, upon which
\* BESS deletes the module object.  UPFeBPF has no DeInit and its
\* destructor releases nothing.
InitModule ==
  /\ module = "none"
  /\ \E failAt \in DOMAIN StepNo :
       LET passed(s) == StepNo[s] < StepNo[failAt] IN
       /\ ifindex' = [r \in Roles |-> IF passed(NameStep[r]) THEN PortOf[r] ELSE NoIf]
       /\ prog' = [r \in Roles |-> IF passed(OpenStep[r]) THEN "open" ELSE "null"]
       /\ xdp' = [p \in Ports |->
                    {r \in Roles : passed(AttachStep[r]) /\ p = AttachTarget(r)'}]
       /\ map_fd' = IF failAt = "done" THEN "valid" ELSE "unset"
       /\ module' = IF failAt = "done" THEN "live" ELSE "destroyed"
       /\ result' = IF failAt = "done" THEN "success" ELSE "failure"
  /\ UNCHANGED <<table, origin, uaf>>

\* CommandAddPDR: build the key and value from the arguments and upsert.
AddPDR ==
  /\ module = "live"
  /\ \E a \in Args, v \in PdrValues :
       LET k == KeyOf(a) IN
       IF UpdateOk(table, k)
         THEN /\ table' = [table EXCEPT ![k] = v]
              /\ origin' = [origin EXCEPT ![k] = a]
              /\ result' = "success"
         ELSE /\ result' = "failure"
              /\ UNCHANGED <<table, origin>>
  /\ UNCHANGED <<module, ifindex, prog, xdp, map_fd, uaf>>

\* CommandClear: each non-null program is detached from its port, which
\* may fail (detached: the roles whose detach succeeds; on a program
\* already closed the call is a use after free, with any outcome), and is
\* closed whatever the detach returned.  The pointers are not reset, so a
\* closed program stays non-null.
Clear ==
  /\ module = "live"
  /\ LET present == {r \in Roles : prog[r] # "null"} IN
     /\ \E detached \in SUBSET present : xdp' = Detach(xdp, detached)
     /\ prog' = [r \in Roles |-> IF r \in present THEN "closed" ELSE prog[r]]
     /\ uaf' = (uaf \/ \E r \in present : prog[r] = "closed")
  /\ result' = "success"
  /\ UNCHANGED <<module, ifindex, map_fd, table, origin>>

Next == InitModule \/ AddPDR \/ Clear

Spec == Init /\ [][Next]_vars

-----------------------------------------------------------------------------
(* Properties.                                                            *)

TypeOK ==
  /\ module \in {"none", "live", "destroyed"}
  /\ ifindex \in [Roles -> Ports \cup {NoIf}]
  /\ prog \in [Roles -> {"null", "open", "closed"}]
  /\ xdp \in [Ports -> SUBSET Roles]
  /\ map_fd \in {"unset", "valid"}
  /\ table \in [Keys -> PdrValues \cup {NoEntry}]
  /\ Cardinality(Stored(table)) <= PDR_LIST_MAX_SIZE
  /\ origin \in [Keys -> Args \cup {NoReq}]
  /\ uaf \in BOOLEAN
  /\ result \in {"none", "success", "failure"}

\* The inductive invariant behind TypeOK: the map's key count is finite.
IInv ==
  /\ TypeOK
  /\ IsFiniteSet(Stored(table))

\* The spec (4.5, 6): clear detaches and releases both programs.  No XDP
\* program stays attached once CommandClear has closed the only handle
\* that could detach it.  CommandClear ignores the result of
\* xdp_program__detach and closes the program anyway.
NoOrphanedAttachment == \A p \in Ports : \A r \in xdp[p] : prog[r] # "closed"

\* The spec (4.5) calls clear idempotent.  CommandClear never resets
\* prog_access_/prog_core_, so a second clear hands the programs it already
\* closed to xdp_program__detach and xdp_program__close again.
NoUseAfterClose == ~uaf

\* The spec (4.5, 7): an attach failure must not leave the other program
\* attached; partial initialisation must not remain.  Init returns failure
\* without detaching what it attached, and BESS then deletes the module.
FailedInitLeavesNothingAttached ==
  module = "destroyed" => \A p \in Ports : xdp[p] = {}

\* A rule is only ever replaced by an add-pdr naming the same flow: an entry
\* written for one set of key arguments is never overwritten by a request
\* with different ones (the key narrows 32-bit ports and protocol).
NoSilentAlias ==
  [][\A k \in Keys : origin[k] # NoReq => origin'[k] = origin[k]]_vars

=============================================================================
