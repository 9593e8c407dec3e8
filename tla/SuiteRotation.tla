---------------------------- MODULE SuiteRotation ----------------------------
(***************************************************************************)
(* Signature suites over the life of a chain.  At start a node builds its  *)
(* suite context, a registry of suites and a rotation from an old to a new *)
(* one, from the genesis file or, on production networks, from the         *)
(* schedule compiled into the release (genesis.rs,                         *)
(* production_rotation_schedule.rs, suite_registry.rs).  After that the    *)
(* height alone decides with which suites outputs are created and spent.   *)
(*                                                                         *)
(* A configuration is a value; what is optional is a sequence of at most   *)
(* one element.  Every node has its own genesis file and command line, the *)
(* schedule is the same for all.                                           *)
(***************************************************************************)
EXTENDS Checks, TLC

CONSTANTS
  Nodes,
  Networks,     \* --network as given: <<name, how it is written>>
  Packs,        \* genesis files: [desc, registry]
  Schedules,    \* compiled schedules: [version, keys, mainnet, testnet]
  Manifests,    \* compiled verifier bindings: [version, unique_keys, entries]
  MaxHeight,
  MaxItems      \* MAX_EXPLICIT_SUITE_REGISTRY_ITEMS

VARIABLES
  network,    \* the network of all nodes, as each of them was told
  pack,
  schedule,
  manifest,
  ctx,        \* each node's suite context
  phase,      \* per node: "off", "up", "refused" or "panic"
  height,
  coins       \* unspent outputs: [suite, created]

vars == <<network, pack, schedule, manifest, ctx, phase, height, coins>>

SUITE_ID_SENTINEL == 0
SUITE_ID_ML_DSA_87 == 1
is_structural_witness_carrier_suite_id(s) == s \in 240..254

(***************************************************************************)
(* Registry.  Parameters are lengths, cost and algorithm; lengths and cost *)
(* other than the canonical ones are what matters, not how they differ.    *)
(***************************************************************************)
CanonicalParams == [pubkey_len |-> 5, sig_len |-> 7, verify_cost |-> 8, alg_name |-> "ML-DSA-87"]
default_registry == SUITE_ID_ML_DSA_87 :> CanonicalParams
is_canonical_default_live_manifest(registry) == registry = default_registry

MAX_SUITE_REGISTRY_PARAM_LEN == 9
LenOk(n) == n # 0 /\ n <= MAX_SUITE_REGISTRY_PARAM_LEN
\* normalize_suite_alg_name takes the canonical name in any case.
AlgOk(item) == item.alg_name \in {"ML-DSA-87", "ml-dsa-87"}
validate_suite_registry_item(item) ==
  Check(/\ item.suite_id # SUITE_ID_SENTINEL
        /\ ~is_structural_witness_carrier_suite_id(item.suite_id)
        /\ item.verify_cost # 0, "bad suite_registry")
    ?? (Check(LenOk(item.pubkey_len) /\ LenOk(item.sig_len), "bad suite_registry")
    ?? (Check(AlgOk(item), "bad suite_registry")
    ?? Check(/\ item.pubkey_len = CanonicalParams.pubkey_len
             /\ item.sig_len = CanonicalParams.sig_len
             /\ item.verify_cost = CanonicalParams.verify_cost, "bad suite_registry")))

\* A list that is not empty, over the default entry; a suite is listed once.
CheckRegistry(items) ==
  Check(Len(items) <= MaxItems, "bad suite_registry")
    ?? FirstError([i \in 1..Len(items) |->
         Check(\A j \in 1..(i - 1) : items[j].suite_id # items[i].suite_id, "bad suite_registry")
           ?? validate_suite_registry_item(items[i])])
Listed(items) ==
  LET ids == {items[i].suite_id : i \in 1..Len(items)}
  IN  [s \in ids |->
         LET i == CHOOSE i \in 1..Len(items) : items[i].suite_id = s
         IN  [pubkey_len |-> items[i].pubkey_len, sig_len |-> items[i].sig_len,
              verify_cost |-> items[i].verify_cost, alg_name |-> "ML-DSA-87"]]
build_suite_registry_from_json(items) ==
  IF items = <<>> THEN default_registry ELSE Listed(items) @@ default_registry
\* with_suites asserts that no carrier is registered.
Panics(registry) == \E s \in DOMAIN registry : is_structural_witness_carrier_suite_id(s)

(***************************************************************************)
(* Verifier bindings: the compiled manifest that says which verifier is    *)
(* bound to an algorithm with given lengths.                               *)
(***************************************************************************)
RuntimeTuple(e) == <<e.alg_name, e.pubkey_len, e.sig_len>>
ValidEntry(entries, i) ==
  LET e == entries[i]
  IN  /\ "" \notin {e.alg_name, e.runtime_binding, e.openssl_alg, e.live_binding_name}
      /\ e.pubkey_len # 0 /\ e.sig_len # 0
      /\ \A j \in 1..(i - 1) : /\ entries[j].live_binding_name # e.live_binding_name
                               /\ RuntimeTuple(entries[j]) # RuntimeTuple(e)
      /\ e.runtime_binding = "openssl_digest32_v1"
      /\ e.alg_name = "ML-DSA-87" /\ e.openssl_alg = "ML-DSA-87"
      /\ e.pubkey_len = CanonicalParams.pubkey_len /\ e.sig_len = CanonicalParams.sig_len
      /\ e.live_binding_name = "verify_sig_openssl_digest32_v1"
load_live_binding_policy_from_json(m) ==
  /\ m.unique_keys
  /\ m.version = 1
  /\ m.entries # <<>>
  /\ \A i \in 1..Len(m.entries) : ValidEntry(m.entries, i)
live_binding_policy_runtime_entry(m, params) ==
  IF ~load_live_binding_policy_from_json(m) THEN "invalid policy"
  ELSE Check(\E i \in 1..Len(m.entries) :
               RuntimeTuple(m.entries[i]) = <<params.alg_name, params.pubkey_len, params.sig_len>>,
             "not found")

(***************************************************************************)
(* Descriptors.  A sunset height of zero is none.                          *)
(***************************************************************************)
validate(d, registry) ==
  Check(d.old # d.new, "same suite")
    ?? (Check(d.old \in DOMAIN registry, "old not registered")
    ?? (Check(d.new \in DOMAIN registry, "new not registered")
    ?? (Check(d.create_height < d.spend_height, "create_height")
    ?? Check(d.sunset_height = 0 \/ d.sunset_height > d.spend_height, "sunset_height"))))
validate_v1_production_rotation_descriptor(d, registry) ==
  validate(d, registry) ?? Check(d.sunset_height # 0, "finite H4 required")
Production == {"mainnet", "testnet"}
validate_rotation_descriptor_for_normalized_network(net, d, registry) ==
  IF net \in Production THEN validate_v1_production_rotation_descriptor(d, registry)
  ELSE validate(d, registry)

(***************************************************************************)
(* The live sets: H1 = create_height, H2 = spend_height, H4 = sunset.      *)
(***************************************************************************)
NoDescriptor == <<>>

\* Mutant: outputs of the old suite are made until its sunset.
native_create_suites_UntilSunset(rotation, h) ==
  IF rotation = NoDescriptor THEN {SUITE_ID_ML_DSA_87}
  ELSE LET d == rotation[1] IN
       {s \in {d.old, d.new} :
          \/ s = d.old /\ (d.sunset_height = 0 \/ h <= d.sunset_height)
          \/ s = d.new /\ h >= d.create_height}

native_create_suites(rotation, h) ==
  IF rotation = NoDescriptor THEN {SUITE_ID_ML_DSA_87}
  ELSE LET d == rotation[1]
       IN  IF h < d.create_height THEN {d.old}
           ELSE IF h < d.spend_height THEN {d.old, d.new}
           ELSE {d.new}
native_spend_suites(rotation, h) ==
  IF rotation = NoDescriptor THEN {SUITE_ID_ML_DSA_87}
  ELSE LET d == rotation[1]
       IN  IF h < d.create_height THEN {d.old}
           ELSE IF d.sunset_height # 0 /\ h >= d.sunset_height THEN {d.new}
           ELSE {d.old, d.new}

(***************************************************************************)
(* The compiled schedule: activation only, validated whole against the     *)
(* default registry before the slot of the node's network is looked up.    *)
(***************************************************************************)
parse_descriptor_slot_wire(slot) ==
  Check(slot = NoDescriptor \/ SUITE_ID_SENTINEL \notin {slot[1].old, slot[1].new}, "sentinel suite")
validate_descriptor_wire(slot, net, registry) ==
  IF slot = NoDescriptor THEN Ok
  ELSE validate_rotation_descriptor_for_normalized_network(net, slot[1], registry)
parse_schedule_with_registry(s, registry) ==
  Check(s.version = 1, "unsupported version")
    ?? (Check(s.keys \subseteq Production, "unknown network entry")
    ?? (Check("mainnet" \in s.keys, "networks.mainnet missing")
    ?? (parse_descriptor_slot_wire(s.mainnet)
    ?? (Check("testnet" \in s.keys, "networks.testnet missing")
    ?? (parse_descriptor_slot_wire(s.testnet)
    ?? (validate_descriptor_wire(s.mainnet, "mainnet", registry)
    ?? validate_descriptor_wire(s.testnet, "testnet", registry)))))))
Slot(s, net) == IF net = "mainnet" THEN s.mainnet ELSE s.testnet

(***************************************************************************)
(* The suite context.  A file's other fields are checked first; without a  *)
(* file, or without an overlay in it, the node runs on the defaults.       *)
(***************************************************************************)
DefaultContext == [rotation |-> NoDescriptor, registry |-> default_registry]
canonical_config_network_name(raw) ==
  Check(raw[1] \in Production \cup {"devnet"}, "unknown network")

build_production_context(p, net, s) ==
  LET registry == default_registry
  IN  [verdict |-> Check(p.desc = NoDescriptor, "local descriptor")
                     ?? (parse_schedule_with_registry(s, registry)
                     ?? Check(Slot(s, net) # NoDescriptor \/ is_canonical_default_live_manifest(registry),
                              "invalid empty-slot registry")),
       ctx |-> [rotation |-> Slot(s, net), registry |-> registry]]

build_local_context(p, net) ==
  LET registry == build_suite_registry_from_json(p.registry)
  IN  [verdict |-> CheckRegistry(p.registry)
                     ?? IF Panics(registry) THEN "panic"
                        ELSE IF p.desc = NoDescriptor THEN Ok
                        ELSE validate_rotation_descriptor_for_normalized_network(net, p.desc[1], registry),
       ctx |-> [rotation |-> p.desc, registry |-> registry]]

build_suite_context_from_descriptor(p, raw, s) ==
  LET known == canonical_config_network_name(raw)
      net == raw[1]
  IN  IF known # Ok THEN [verdict |-> known, ctx |-> DefaultContext]
      ELSE IF net \in Production THEN build_production_context(p, net, s)
      ELSE build_local_context(p, net)

\* chain_id: "missing", "malformed", "devnet" or "other".
load_genesis_config(file, raw, s) ==
  IF file = <<>> THEN [verdict |-> Ok, ctx |-> DefaultContext]
  ELSE LET p == file[1]
           built == build_suite_context_from_descriptor(p, raw, s)
       IN  [verdict |-> Check(~p.removed_keys, "unsupported genesis field")
                          ?? (Check(p.chain_id \notin {"missing", "malformed"}, "chain_id_hex")
                          ?? built.verdict),
            ctx |-> built.ctx]

(***************************************************************************)
(* The machine.                                                            *)
(***************************************************************************)
Init ==
  /\ network \in Networks
  /\ schedule \in Schedules
  /\ manifest \in Manifests
  /\ pack \in [Nodes -> {<<>>} \cup {<<p>> : p \in Packs}]
  /\ ctx = [n \in Nodes |-> DefaultContext]
  /\ phase = [n \in Nodes |-> "off"]
  /\ height = [n \in Nodes |-> 0]
  /\ coins = [n \in Nodes |-> {}]

Boot(n) ==
  LET loaded == load_genesis_config(pack[n], network, schedule)
  IN  /\ phase[n] = "off"
      /\ phase' = [phase EXCEPT ![n] = CASE loaded.verdict = Ok -> "up"
                                         [] loaded.verdict = "panic" -> "panic"
                                         [] OTHER -> "refused"]
      /\ ctx' = IF loaded.verdict = Ok THEN [ctx EXCEPT ![n] = loaded.ctx] ELSE ctx
      /\ UNCHANGED <<network, pack, schedule, manifest, height, coins>>

CanCreate(n, s) ==
  s \in native_create_suites(ctx[n].rotation, height[n])
CanSpend(n, s) ==
  s \in native_spend_suites(ctx[n].rotation, height[n]) \cap DOMAIN ctx[n].registry

Create(n, s) ==
  /\ phase[n] = "up" /\ CanCreate(n, s)
  /\ coins' = [coins EXCEPT ![n] = @ \cup {[suite |-> s, created |-> height[n]]}]
  /\ UNCHANGED <<network, pack, schedule, manifest, ctx, phase, height>>

Spend(n) ==
  /\ phase[n] = "up"
  /\ \E c \in coins[n] :
       /\ CanSpend(n, c.suite)
       /\ coins' = [coins EXCEPT ![n] = @ \ {c}]
  /\ UNCHANGED <<network, pack, schedule, manifest, ctx, phase, height>>

NextBlock(n) ==
  /\ phase[n] = "up" /\ height[n] < MaxHeight
  /\ height' = [height EXCEPT ![n] = @ + 1]
  /\ UNCHANGED <<network, pack, schedule, manifest, ctx, phase, coins>>

Next ==
  \E n \in Nodes :
    \/ Boot(n)
    \/ \E s \in 1..3 : Create(n, s)
    \/ Spend(n)
    \/ NextBlock(n)

Spec == Init /\ [][Next]_vars

(***************************************************************************)
(* Properties.                                                             *)
(***************************************************************************)
\* No genesis file makes a node panic: what with_suites asserts was checked
\* item by item before (suite_registry.rs with_suites, genesis.rs).
BootNeverPanics == \A n \in Nodes : phase[n] # "panic"

\* An output made under the create set is spendable from its own height on,
\* and stops being so only if it uses the old suite of a rotation whose sunset
\* has come; a holder of it then had the whole window from the create cutoff
\* to the sunset to move it.
CreatedIsSpendable ==
  \A n \in Nodes : \A c \in coins[n] :
    \/ CanSpend(n, c.suite)
    \/ /\ ctx[n].rotation # NoDescriptor
       /\ LET d == ctx[n].rotation[1]
          IN  /\ c.suite = d.old
              /\ d.sunset_height # 0
              /\ height[n] >= d.sunset_height
              /\ height[n] - c.created > d.sunset_height - d.spend_height

\* Nodes of one release on one production network use the same suites at
\* every height, whatever their operators wrote in their genesis files.
ProductionNodesAgree ==
  network[1] \in Production =>
    \A m, n \in Nodes : phase[m] = "up" /\ phase[n] = "up" => ctx[m] = ctx[n]

\* With a manifest that loads at all, every suite a node registers resolves to
\* a verifier: the checks of the genesis file, of the defaults and of the
\* manifest, in three files, agree on one algorithm and its lengths.
EverySuiteVerifies ==
  load_live_binding_policy_from_json(manifest) =>
    \A n \in Nodes : phase[n] = "up" =>
      \A s \in DOMAIN ctx[n].registry :
        live_binding_policy_runtime_entry(manifest, ctx[n].registry[s]) = Ok
==============================================================================
