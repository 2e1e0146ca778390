# Formal models of the eBPF/XDP UPF (upf-epc, `src/upf-ebpf`)

This directory holds TLA+ models of the user-plane function's eBPF fast path and
its BESS control module. It also holds the TLC configurations that check the
models, and TLAPS proofs of the central safety properties.

## 1. The system and its parts

| Part | Source | Role |
|---|---|---|
| Frame Envelope Resolver | `ebpf/parse_utils.h` `validate_ethertype` | Checks that the Ethernet header fits and that the frame is Ethernet II (the `bpf_ntohs(h_proto) >= 0x0600` floor). Unwraps at most two 802.1Q/802.1ad tags in an unrolled loop. |
| IPv4/UDP demultiplexer | `ebpf/upf_bpf_main_access.bpf.c` `xdp_upf` | The `l3_proto` switch: IPv4 is parsed, and IPv6, ARP and anything else are dropped. Then the IPv4 bounds check, the non-UDP pass, the UDP header placed at `iph + 4*ihl`, and the GTP port test. |
| GTP-U decoder | `ebpf/gtp_utils.h` `parse_and_validate_gtp` | Checks that the 8-byte GTPv1 header fits, that its type is G-PDU (255), and copies the raw `__be32` TEID. |
| PDR lookup stage | `xdp_upf` label `PDR_LOOKUP` | Logs `teid` and returns `XDP_PASS`. No key is built and no table is queried (spec §9). |
| PDR table | `ebpf/upf_bpf_maps.h` `pdr_list_m`, `upf_bpf_structs.h` | A BPF hash map with 10,000 entries. The control plane writes it; the fast path never reads it in this code. |
| Control module | `upf_bpf_main.cc`, `upf_bpf_main.h`, `port_conf.cc` | The BESS module `UPFeBPF` with three handlers. `Init` resolves the ports, then opens and attaches the access and the core XDP programs, then gets the map fd. `add-pdr` upserts into the map. `clear` detaches and closes both programs. |
| Core XDP program | `ebpf/upf_bpf_main_core.bpf.c` | A pass-through placeholder. |

How the parts interact:
- The kernel runs `xdp_upf` once per frame on the access port. Executions share no per-packet state.
- The control module runs its handlers one at a time (`Command::THREAD_UNSAFE`). It attaches the programs and writes `pdr_list_m`.

## 2. Modules

### `Wire.tla`: the wire format, and the classification the design prescribes

This module holds what both the access program's model and its abstract specification use:
- the header sizes and protocol numbers;
- the frame as a map from offset to byte (`Unread` for a byte nobody has loaded);
- `WireAt`, the big-endian value of a field.

`Classify(m, l)` is the disposition that design sections 4.1–4.3 and 7 prescribe for a frame of length `l`. It is written as a decision list in the design's order. Each header is consulted only once it is known to fit. The result is `Undecided` while a byte the decision needs is still `Unread`.

### `FrameClassifier.tla`: the abstract fast path

What the access program promises, with no parsing order in it. It has three actions:
- `Arrive`: a frame arrives;
- `Inspect`: bytes are inspected, only inside the frame, and several may be inspected at once;
- `Decide`: the frame is finished with `Classify` of the inspected bytes, which must already decide it.

### `AccessParser.tla`: the access XDP program

- **State.**
  - `pc` is the labelled block about to run.
  - `len` is `data_end - data`.
  - `pkt` holds the frame bytes in wire order. A byte is `Unread` until its first load.
  - `nh_off` and `h_proto` are `validate_ethertype`'s outputs. `h_proto` is the raw host load of the `__be16`.
  - `vlan_i` is the loop iteration.
  - `udp_off` is the UDP header offset.
  - `teid` is the local `teid`, which is `NoTeid` while uninitialised.
  - `verdict` is the XDP action returned.
- **Lazy bytes.** Frames are unconstrained input. When a field is first loaded, its bytes are fixed to one of a small set of interesting values for that field (`LoadChoices`, `Fix`). So every frame built from those values is explored, and only the bytes the code actually reads are enumerated.
- **Byte order.** Loads follow a little-endian host:
  - `HostLoad16` and `HostLoad32` model the raw loads of `__be16` and `__be32` fields;
  - `Swap16` is `bpf_htons`/`bpf_ntohs`.
- **Actions.** One per block:
  - `Receive`: a new frame arrives;
  - `EthHeader`: `validate_ethertype` up to the loop;
  - `VlanTag`: one loop iteration;
  - `Dispatch`: the switch, together with the `IP6`, `ARP` and `DROP` labels;
  - `IPv4`;
  - `UDP`;
  - `GTP`: the whole of `parse_and_validate_gtp`;
  - `PdrLookup`.

  Every guard and early return of the code is a branch of its action.
- **Refinement.** `Abs == INSTANCE FrameClassifier WITH busy <- (pc # "idle")` maps the program onto the abstract classifier. The other variables (`len`, `pkt`, `verdict`) map to themselves. `ImplementsClassifier == Abs!Spec` is checked as a property and proved in `AccessParserRefinement.tla`. So every load of the program is an `Inspect` inside the frame, every `return` is a `Decide` with the prescribed disposition, and no decision rests on a byte the program never read.

### `UpfControl.tla`: the BESS module and the PDR map

- **State.**
  - `module`: BESS creates the module, and deletes it when `Init` fails.
  - `ifindex`: the two `PortConf` indices.
  - `prog`: the `xdp_program` pointers (`null`, `open` or `closed`).
  - `xdp`: the programs attached to each interface, which is kernel state.
  - `map_fd`.
  - `table`: `pdr_list_m`.
  - `result`: the last `CommandResponse`.
  - Two history variables: `origin` (the request that last wrote each key) and `uaf` (a closed program was handed to libxdp).
- **Actions.**
  - `InitModule` is the whole of `Init`. Its steps are numbered in the code's order (`StepNo`). It picks nondeterministically the step that fails, from port resolution to the map fd, or that none fails. Every earlier step has taken effect; nothing is undone.
  - `AddPDR` builds the packed key, including the C narrowing of the 32-bit protobuf ports and protocol (`KeyOf`). It then upserts under the `max_entries` bound (`UpdateOk`).
  - `Clear` tries to detach every non-null program and closes it whatever the detach returned. The set of detaches that succeed is chosen nondeterministically (`Detach(xdp, detached)` for `detached \in SUBSET present`), because the code never looks at the result of `xdp_program__detach`. The pointers are left as they are.

Each `MC_*.tla` module only gives the constants their values.

## 3. Runs

| Run | Expect | Properties | What it shows |
|---|---|---|---|
| `access_parser` (`MC_AccessParser.cfg`) | pass | `TypeOK`, `MemSafe`, `DispositionPerSpec`, `TeidRoundTrip`, `ParseInv`, `ImplementsClassifier` | No load reads past `data_end` (`MemSafe`). Every finished frame gets the disposition `Classify` gives from the bytes read (`DispositionPerSpec`). A stored TEID is exactly the four wire bytes of a G-PDU on port 2152 (`TeidRoundTrip`). The program refines `FrameClassifier` (`ImplementsClassifier`). `ParseInv`, the inductive invariant behind the proofs of these, holds on the instance. |
| `upf_control` (`MC_UpfControl.cfg`) | pass | `TypeOK` | Over every order of `Init` outcomes, `add-pdr` and `clear`, failed attaches and detaches included, the map never holds more than `max_entries` keys; this is part of `TypeOK`. |
| `uninit_teid` | violation | `LookupUsesExtractedTeid` | A UDP frame to a port other than 2152 falls through to `PDR_LOOKUP` and reads `teid` uninitialised (`upf_bpf_main_access.bpf.c:96,110`). |
| `short_ihl` | violation | `UdpAfterIpHeader` | `ihl < 5` is not rejected, so the "UDP header" overlaps the IPv4 header (line 90). |
| `gtp_flags` | violation | `GtpV1Only` | The GTP flags byte is never loaded (`GTP_FLAGS` at `gtp_utils.h:48` is unused), so a header of any version with type 255 yields a TEID. |
| `double_clear` | violation | `NoUseAfterClose` | `clear` never resets `prog_access_`/`prog_core_`, so a second `clear` detaches and closes freed programs. The spec calls it idempotent. |
| `failed_init` | violation | `FailedInitLeavesNothingAttached` | When `openAndLoadCore` or the map fd fails, `Init` returns failure with the access program still attached, and no handle is left to detach it. |
| `detach_failure` | violation | `NoOrphanedAttachment` | `clear` ignores the result of `xdp_program__detach` (lines 184 and 190), closes the program anyway and returns success. A failed detach leaves the program attached with its only handle closed. The spec says `clear` detaches and releases both programs and calls it best-effort, but says nothing of a detach that fails. |
| `key_alias` | violation | `NoSilentAlias` | Ports 5000 and 70536, or protocols 17 and 273, give the same key, so one rule silently overwrites another. |

A mutant backs each property of the passing runs (see `PROJECT.json`), and TLC must then find the property violated:
- the Ethernet II floor on the unswapped value;
- a three-iteration VLAN loop;
- a GTP window check that ends before the TEID;
- an IPv4 check that covers only the bytes up to the protocol field (breaks `ImplementsClassifier`);
- an `ntohl` on the TEID;
- `<=` instead of `<` in the map capacity.

**Bounds.**
- `access_parser`:
  - Frames are up to 98 bytes, one past the last offset any load can reach: 14 + 2 × 4 bytes of tags, an IPv4 header of ihl 15, and the UDP and GTP headers. Every length below that cuts some header.
  - Ethertypes include both tag types, IPv4, IPv6, ARP, and the two values on either side of the 0x0600 floor.
  - ihl takes the values 0, 1, 5, 6 and 15.
  - Protocols are UDP and TCP; ports are 2152 and 2123; GTP types are 255 and 1.
  - TEIDs are two values whose byte order is visible.

  This gives 20,725 distinct states.
- `upf_control`:
  - Two flows, and port and protocol values that alias after narrowing.
  - A one-entry map, so that a new key meets a full map while an overwrite still succeeds.

**Deadlock.**
- `access_parser` checks deadlock: `Receive` is always enabled when idle.
- `upf_control` does not. After a failed `Init`, BESS deletes the module and none of its handlers can run again, so stopping there is the system's real behaviour.

**Fairness.** None is assumed, and no run checks a liveness property. The properties are all safety properties. `UpfControl`'s commands come from an external management plane, so nothing must eventually happen there.

## 4. Proofs (TLAPS)

### `AccessParserProofs.tla`

These hold for every value of the constants allowed by `ConstantsOK`:
- `MaxLen` is at most one past the largest reachable offset;
- every field value set fits its field width.

| Theorem | Statement |
|---|---|
| `IInvInit`, `IInvStep` | `Init => IInv` and `IInv /\ [Next]_vars => IInv'` |
| `IInvHolds` | `Spec => []IInv` |
| `TypeCorrect` | `Spec => []TypeOK` |
| `MemorySafety` | `Spec => []MemSafe` |

`MemSafe` alone is not inductive. The UDP block loads the `ihl` byte at `nh_off`, but the check that licenses this load was made in the earlier IP block. So `IInv` adds three facts:
- at `pc = "udp"`, `nh_off + 20 <= len`;
- in the VLAN loop, `nh_off <= 14 + 4 * vlan_i` with `vlan_i <= 1`;
- at `pc = "eth"`, `vlan_i = 0`.

The proof of `IInvStep` has one lemma per action. Each rests on `LoadStep`: a load that passed its bounds check fixes only bytes below `len` and keeps the byte map well typed.

### `AccessParserRefinement.tla`

This module proves, under the same `ConstantsOK`, that the access program classifies every frame as the design says it should.

| Theorem | Statement |
|---|---|
| `ParseInvInit`, `ParseInvStep` | `Init => ParseInv` and `ParseInv /\ [Next]_vars => ParseInv'` |
| `ParseInvHolds` | `Spec => []ParseInv` |
| `DispositionCorrect` | `Spec => []DispositionPerSpec` |
| `TeidCorrect` | `Spec => []TeidRoundTrip` |
| `XdpImplementsClassifier` | `Spec => ImplementsClassifier`, i.e. `Spec => Abs!Spec` |

**The inductive invariant.** Neither `DispositionPerSpec` nor `TeidRoundTrip` is inductive. Each speaks only of finished frames or a stored TEID, and says nothing of the checks made so far. `ParseInv` (in `AccessParser.tla`, checked by the `access_parser` run) adds, block by block:
- past `EthHeader`, the Ethernet header fits and its type was read and is at least 0x0600 (`EthChecked`);
- after `i` loop iterations:
  - `nh_off` is 14 plus 4 per tag consumed;
  - `h_proto` is the host load of the two bytes before `nh_off`;
  - a consumed tag's inner type was read (`LoopChecked`);
- past the loop, `vlan_i = 2` and the layer-3 type is IPv4;
- past `IPv4`, the 20-byte header fits and the protocol read is UDP (`IpChecked`);
- past `UDP`:
  - `udp_off` is `UdpOff` of the bytes read;
  - the UDP header fits;
  - the port was read (`UdpChecked`);
- at `gtp`, the port is 2152;
- at `lookup`, `Classify` already says `XDP_PASS`;
- `teid` is unset before `lookup`.

**The argument.** There is one lemma per block: `ReceiveParse`, ..., `GTPParse`. Each follows that block's branches. The lemmas they rest on come in four layers.
- **Byte order.** A host load is the byte swap of the wire value: `HostIsSwap16` and `HostIsSwap32`. So the code's test of `h_proto` and the port against `bpf_htons` constants is the design's test of the wire value (`Host16Is`).
- **Loads.** A load inside the checked window:
  - keeps the frame a byte map;
  - fixes only bytes below `len`;
  - never changes a byte read earlier (`LoadFacts`, `FixExtends`, `Extends`).
- **Stability.** What a block has checked survives later loads: `EthStable`, `LoopStable`, `IpStable`, `UdpStable`, `ParsedStable`.
- **Decision points.** After the loop, and after the IP and UDP blocks, `Classify` of the bytes read reduces to its next stage: `LoopDone`, `IpDone`, `UdpDone`.

**The refinement.** Under `busy <- (pc # "idle")`, `RefineStep` maps each step as follows:
- `Receive` is `Arrive`.
- Every other block has the shape `StepShape`: it keeps `len`, only extends `pkt`, and either goes on with `verdict` unchanged or returns a verdict. Such a step is an `Inspect` or a `Decide`. The bytes stay in the frame by `MemSafe'`, and the verdict is the design's by `DispositionPerSpec'`.
- A stutter is a stutter.

`AbsWire` identifies the instance's copies of `Wire`'s operators with the program's.

### `UpfControlProofs.tla`

These hold for every set of flows, ports, protocols and values, and every `PDR_LIST_MAX_SIZE >= 1`.

| Theorem | Statement |
|---|---|
| `IInvHolds` | `Spec => []IInv` (from `IInvInit`, `IInvStep`) |
| `UpfTypeCorrect` | `Spec => []TypeOK`, including `Cardinality(Stored(table)) <= PDR_LIST_MAX_SIZE` |

`UpfControl!IInv` adds one fact to `TypeOK`: the set of stored keys is finite. Without it the cardinality of that set is not known to be a number, and an insert could not be shown to raise it by at most one. The argument for each handler:
- In `Init` and `clear`, every outcome, including every set of failing detaches, gives well-typed control fields and leaves the map alone.
- In `add-pdr`, the upsert adds at most one key, and only when there is room for it (`FS_AddElement`, `FS_Subset`).

### Only model-checked

- Liveness. No liveness property is stated, and the prover could not reach one: temporal reasoning under fairness, `ENABLED`, induction over data with an operator parameter, and modules that reach a `RECURSIVE` operator are out of TLAPS's reach, and would stay with TLC.
- The findings of the violation runs (`LookupUsesExtractedTeid`, `UdpAfterIpHeader`, `GtpV1Only`, and the control-plane ones). They are counterexamples that TLC finds, not theorems.
- The proofs cover `Spec` for every constant value that `ConstantsOK` allows. The runs check the same invariants on one concrete instance, and a mutant of the code shows that each one can fail.

## 5. Not modelled

- The core XDP program: it is a constant `XDP_PASS`.
- `pbLogLevelToEbpf` and logging: a pure mapping and output.
- `ProcessBatch`: it is empty.
- The libbpf/libxdp internals: every call is a success or a failure.
- A fast-path reader of `pdr_list_m`: none exists in the code, so the torn-read concern of spec §4.4/§5 has no code to check.
- The unchecked `xdp_program__from_bpf_obj` result is folded into the attach step.

## 6. Further work

- A composed model of the control plane and a fast-path reader of `pdr_list_m`, once the code performs the lookup of design section 4.4.
