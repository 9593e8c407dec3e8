---------------------------- MODULE TxAdmission ----------------------------
(***************************************************************************)
(* The checks a transaction meets on its way into the pool                 *)
(* (add_tx_with_source) and on its way to a peer (relay_metadata), both in *)
(* txpool.rs: the cheap fee check made before any signature is verified,   *)
(* the CORE_SIMPLICITY gate, the consensus rules of BlockApply, the policy *)
(* for anchors and data, and the rolling fee floor.                        *)
(*                                                                         *)
(* A refusal is an error code, and Kind tells whether the caller may try   *)
(* again.  A transaction is the one of BlockApply with its weight, the     *)
(* length of its data and how its bytes parse.  Reservations, capacity and *)
(* commit are TxPool's: here the pool may refuse for capacity or evict     *)
(* anything.                                                               *)
(***************************************************************************)
EXTENDS Covenants

CONSTANTS
  Genesis,             \* outpoint -> coin, the UTXO set at the start
  Txs,                 \* transactions that may arrive
  Configs,             \* TxPoolConfig: floor, min_da, surcharge, anchors, gate, store
  Times,               \* height -> timestamp of its header
  MTP_WINDOW,          \* timestamps in the median (11 in the code)
  COINBASE_MATURITY,
  U64_MAX,             \* u64::MAX, for values
  LAST_HEIGHT,         \* u64::MAX, for heights
  MaxPool              \* bound: transactions in the pool

VARIABLES
  cfg,     \* the configuration, fixed
  utxos,   \* ChainState::utxos
  height,  \* ChainState::height, NoTip before the genesis block
  pool,    \* transactions of the pool
  cand     \* the transaction at hand, or NoTx

vars == <<cfg, utxos, height, pool, cand>>

NoTip == -1
NoValue == -1
DEFAULT_MEMPOOL_MIN_FEE_RATE == 1

txid(tx) == <<tx.nonce, tx.kind, tx.inputs, tx.outputs, tx.da_bytes>>
Spent(tx) == {tx.inputs[i].op : i \in DOMAIN tx.inputs}
CovAt(op) == Cov[utxos[op].lock]

\* TxPoolAdmitErrorKind of a refusal.
Kind(v) ==
  CASE v = Ok -> Ok
    [] v \in {"Duplicate", "DoubleSpend"} -> "Conflict"
    [] v \in {"FeeFloor", "Capacity", "HeightOverflow", "MissingHeader"} -> "Unavailable"
    [] OTHER -> "Rejected"

-----------------------------------------------------------------------------
(* The context of the next block.                                          *)

next_block_height == IF height = NoTip THEN 0 ELSE height + 1
HeightError == Check(height # LAST_HEIGHT, "HeightOverflow")

\* `prev' is newest first.
mtp_median(next_height, prev) ==
  LET n == Min({MTP_WINDOW, next_height, Len(prev)})
  IN  IF n = 0 THEN 0 ELSE SortSeq(SubSeq(prev, 1, n), <)[(n - 1) \div 2 + 1]

HeaderError == Check(cfg.store # "failing" \/ next_block_height = 0, "MissingHeader")

\* height of the next block -> the median it is checked with.
next_block_mtp ==
  [h \in 0..LAST_HEIGHT |->
     mtp_median(h, [i \in 1..Min({MTP_WINDOW, h}) |-> Times[h - i]])]
NoStore == [h \in 0..LAST_HEIGHT |-> 0]

\* The consensus rules at the next height, for the median times of a node.
At(mtp) ==
  INSTANCE BlockApply WITH
    work <- utxos, height <- next_block_height, Mtp <- mtp,
    issued <- 0, open <- FALSE, claimed <- 0, count <- 0, nonces <- {}, fees <- 0,
    err <- Ok, perr <- Ok, queue <- <<>>, last <- Ok,
    CoinbaseOutputs <- {}, Nonces <- {}, Outputs <- {}, Inputs <- LAMBDA u : {},
    Witnesses <- LAMBDA u, i : {}, Subsidy <- 0, MaxHeight <- LAST_HEIGHT, MaxTxs <- 0

\* Covenant checks with the Simplicity deployment forced active
\* (ActiveSimplicityGenesisRotation).
Forced == INSTANCE Covenants WITH SimplicityFrom <- 0

-----------------------------------------------------------------------------
(* The rolling floor and the cheap check for it.                           *)

fee_rate_below_floor(fee, weight, floor) ==
  weight = 0 \/ fee < weight * Max({floor, DEFAULT_MEMPOOL_MIN_FEE_RATE})

validate_fee_floor(fee, weight, floor) ==
  Check(~fee_rate_below_floor(fee, weight, floor), "FeeFloor")

\* The value of the only input, when nothing but its signature can be wrong.
fee_precheck_p2pk_input_value(tx) ==
  LET in == tx.inputs[1]
      w == tx.witness[1]
  IN  IF /\ Len(tx.inputs) = 1 /\ Len(tx.witness) = 1
         /\ in.enc = "ok"
         /\ in.op \in DOMAIN utxos
         /\ CovAt(in.op).kind = "p2pk"
         /\ utxos[in.op].coinbase =>
              next_block_height - utxos[in.op].creation_height >= COINBASE_MATURITY
         /\ w.suite \in NativeSpend[next_block_height] \cap Registered
         /\ w.form = "canonical"
         /\ CovAt(in.op).size = "ok"
         /\ CovAt(in.op).suite = w.suite
         /\ CovAt(in.op).key = w.key
      THEN utxos[in.op].value ELSE NoValue

fee_precheck_p2pk_output_value(tx) ==
  LET total == Sum([i \in DOMAIN tx.outputs |-> tx.outputs[i].value])
  IN  IF /\ \A i \in DOMAIN tx.outputs :
              LET c == Cov[tx.outputs[i].lock]
              IN  /\ c.kind = "p2pk" /\ tx.outputs[i].value # 0 /\ c.size = "ok"
                  /\ c.suite \in NativeCreate[next_block_height]
         /\ total <= U64_MAX
      THEN total ELSE NoValue

\* Everything this check cannot judge is left to the full one.
cheap_fee_floor_precheck(tx) ==
  LET input_value == fee_precheck_p2pk_input_value(tx)
      output_value == fee_precheck_p2pk_output_value(tx)
  IN  IF /\ tx.kind = 0 /\ tx.da_bytes = 0 /\ tx.nonce # 0
         /\ input_value # NoValue /\ output_value # NoValue
         /\ output_value <= input_value /\ tx.weight # 0
      THEN validate_fee_floor(input_value - output_value, tx.weight, cfg.floor)
      ELSE Ok

-----------------------------------------------------------------------------
(* Policy.                                                                 *)

covenant_policy_kind(tx) ==
  CASE \E i \in DOMAIN tx.outputs : Cov[tx.outputs[i].lock].kind = "simplicity" -> "output"
    [] \E op \in Spent(tx) \cap DOMAIN utxos : CovAt(op).kind = "simplicity" -> "spend"
    [] OTHER -> "none"

reject_missing_policy_inputs(tx) == Check(Spent(tx) \subseteq DOMAIN utxos, "MissingUtxo")

\* A malformed covenant keeps its own error.
reject_core_simplicity_pre_activation(tx) ==
  IF covenant_policy_kind(tx) = "none" \/ next_block_height >= SimplicityFrom
  THEN Ok
  ELSE Forced!validate_tx_covenants_genesis(tx, next_block_height) ?? "PreActive"

\* The gate both paths pass before the consensus rules.
SimplicityGate(tx) ==
  IF cfg.gate /\ covenant_policy_kind(tx) # "none"
  THEN reject_missing_policy_inputs(tx) ?? reject_core_simplicity_pre_activation(tx)
  ELSE Ok

reject_non_coinbase_anchor_outputs(tx) ==
  Check(\A i \in DOMAIN tx.outputs : Cov[tx.outputs[i].lock].kind # "anchor", "Anchor")

SumIn(tx) == Sum([i \in DOMAIN tx.inputs |-> utxos[tx.inputs[i].op].value])
SumOut(tx) == Sum([i \in DOMAIN tx.outputs |-> tx.outputs[i].value])

FeeError(tx) ==
  Check(tx.inputs # <<>> /\ Spent(tx) \subseteq DOMAIN utxos, "NoFee")
    ?? Check(SumOut(tx) <= SumIn(tx), "NoFee")

\* Sums are u128 and cannot overflow.
compute_fee_no_verify(tx) == SumIn(tx) - SumOut(tx)

\* The relay term is exact; the data terms are u64 and refuse on overflow.
reject_da_anchor_tx_policy(tx, floor) ==
  LET da_floor == tx.da_bytes * cfg.min_da
      da_surcharge == tx.da_bytes * cfg.surcharge
      required == Max({tx.weight * floor, da_floor + da_surcharge})
  IN  IF tx.da_bytes = 0 THEN Ok
      ELSE Check(da_floor <= U64_MAX, "DaOverflow")
             ?? Check(da_surcharge <= U64_MAX, "DaOverflow")
             ?? Check(da_floor + da_surcharge <= U64_MAX, "DaOverflow")
             ?? (IF required = 0 THEN Ok
                 ELSE FeeError(tx) ?? Check(compute_fee_no_verify(tx) >= required, "DaFee"))

apply_policy(tx, floor) ==
  (IF cfg.anchors THEN reject_non_coinbase_anchor_outputs(tx) ELSE Ok)
    ?? reject_da_anchor_tx_policy(tx, floor)
    ?? (IF cfg.gate THEN reject_core_simplicity_pre_activation(tx) ELSE Ok)

apply_post_consensus_policy_without_floor(tx) == apply_policy(tx, 0)

apply_post_consensus_policy_with_floor(tx, fee) ==
  apply_post_consensus_policy_without_floor(tx) ?? validate_fee_floor(fee, tx.weight, cfg.floor)

-----------------------------------------------------------------------------
(* The two paths.                                                          *)

Parsed(tx) == Check(tx.form = "ok", "Parse")
Context == HeightError ?? HeaderError
Consensus(tx, defer) ==
  IF cfg.store = "none" THEN At(NoStore)!apply_non_coinbase_tx(tx, defer)
  ELSE At(next_block_mtp)!apply_non_coinbase_tx(tx, defer)
Fee(tx) == SumIn(tx) - SumOut(tx)

relay_metadata(tx) ==
  Parsed(tx) ?? Context ?? SimplicityGate(tx) ?? Consensus(tx, FALSE)
    ?? apply_post_consensus_policy_with_floor(tx, Fee(tx))

\* A claimed outpoint refuses every other transaction (PendingOutpoint).
Claims(tx) ==
  Check(\A p \in pool : txid(p) # txid(tx), "Duplicate")
    ?? Check(\A p \in pool : Spent(p) \cap Spent(tx) = {}, "DoubleSpend")

\* Mutant: the floor is asked before the policy, as the cheap check is.
add_tx_with_source_FloorFirst(tx) ==
  Parsed(tx) ?? Context ?? cheap_fee_floor_precheck(tx) ?? SimplicityGate(tx)
    ?? Consensus(tx, FALSE) ?? validate_fee_floor(Fee(tx), tx.weight, cfg.floor)
    ?? apply_post_consensus_policy_without_floor(tx) ?? Claims(tx)

\* The checks of add_tx_with_source up to capacity.
add_tx_with_source(tx) ==
  Parsed(tx) ?? Context ?? cheap_fee_floor_precheck(tx) ?? SimplicityGate(tx)
    ?? Consensus(tx, FALSE)
    ?? apply_post_consensus_policy_without_floor(tx)
    ?? Claims(tx)
    ?? validate_fee_floor(Fee(tx), tx.weight, cfg.floor)

-----------------------------------------------------------------------------
\* The median time past of a block, by counting the headers before it.
TimePast ==
  [h \in 0..LAST_HEIGHT |->
     LET w == {i \in 0..(h - 1) : i >= h - MTP_WINDOW}
         half == (Cardinality(w) + 1) \div 2
     IN  IF w = {} THEN 0
         ELSE CHOOSE t \in {Times[i] : i \in w} :
                /\ Cardinality({i \in w : Times[i] < t}) < half
                /\ Cardinality({i \in w : Times[i] <= t}) >= half]

NoTx == [form |-> "none"]

Init ==
  /\ cfg \in Configs
  /\ utxos = Genesis
  /\ height \in {NoTip, 0}
  /\ pool = {}
  /\ cand = NoTx

Receive ==
  /\ cand = NoTx
  /\ cand' \in Txs
  /\ UNCHANGED <<cfg, utxos, height, pool>>

\* Under pressure the pool evicts others or refuses the candidate.
Handle ==
  /\ cand # NoTx
  /\ \/ UNCHANGED pool
     \/ /\ add_tx_with_source(cand) = Ok
        /\ \E kept \in SUBSET pool :
             /\ pool' = kept \cup {cand}
             /\ Cardinality(pool') <= MaxPool
  /\ cand' = NoTx
  /\ UNCHANGED <<cfg, utxos, height>>

\* The next block confirms some of the pool; what it spends leaves the pool.
ConnectBlock ==
  /\ cand = NoTx
  /\ height < LAST_HEIGHT
  /\ height' = next_block_height
  /\ \/ UNCHANGED <<utxos, pool>>
     \/ \E p \in pool :
          /\ At(TimePast)!apply_non_coinbase_tx(p, FALSE) = Ok
          /\ utxos' = [o \in DOMAIN utxos \ Spent(p) |-> utxos[o]]
          /\ pool' = {q \in pool : Spent(q) \cap Spent(p) = {}}
  /\ UNCHANGED <<cfg, cand>>

Next == Receive \/ Handle \/ ConnectBlock

Spec == Init /\ [][Next]_vars

-----------------------------------------------------------------------------
(* Properties.                                                             *)

\* The fee due, in unbounded arithmetic.
Due(tx) ==
  Max({tx.weight * Max({cfg.floor, DEFAULT_MEMPOOL_MIN_FEE_RATE}),
       tx.da_bytes * (cfg.min_da + cfg.surcharge)})

\* A transaction is only told to come back when coming back can help: a
\* refusal for the fee floor, the cheap one included, is never given to a
\* transaction that the consensus rules or the policy refuse for good.  A bad
\* signature is the one defect the cheap check does not look for
\* (cheap_fee_floor_precheck, fee_precheck_p2pk_input_value).
TransientIsNotTerminal ==
  add_tx_with_source(cand) = "FeeFloor" =>
    /\ Parsed(cand) = Ok
    /\ Consensus(cand, TRUE) = Ok
    /\ apply_policy(cand, 0) = Ok
    /\ Fee(cand) < Due(cand)

\* What may be relayed is what the pool takes: the two paths give the same
\* kind of answer, unless the pool holds a rival or a below-floor signature
\* was never looked at (relay_metadata, add_tx_with_source).
RelayAgreesWithAdmission ==
  LET admit == add_tx_with_source(cand)
      relay == relay_metadata(cand)
  IN  \/ Kind(admit) = Kind(relay)
      \/ Kind(admit) = "Conflict" /\ (relay = Ok \/ relay = "FeeFloor")
      \/ admit = "FeeFloor" /\ relay = "SigInvalid"

\* Fees are compared exactly: a transaction that passes everything but the
\* fee rules is taken if and only if it pays what is due, however large the
\* sums, except that data terms beyond u64 refuse it
\* (reject_da_anchor_tx_policy, compute_fee_no_verify, validate_fee_floor).
PaysExactly ==
  /\ Parsed(cand) = Ok /\ Context = Ok /\ SimplicityGate(cand) = Ok
  /\ Consensus(cand, FALSE) = Ok
  /\ cfg.anchors => reject_non_coinbase_anchor_outputs(cand) = Ok
  => (relay_metadata(cand) = Ok) <=>
       /\ Fee(cand) >= Due(cand)
       /\ cand.da_bytes * (cfg.min_da + cfg.surcharge) <= U64_MAX

\* The policy reason for a CORE_SIMPLICITY transaction never hides a missing
\* input or a malformed covenant (reject_missing_policy_inputs,
\* reject_core_simplicity_pre_activation).
PolicyNeverMasks ==
  add_tx_with_source(cand) = "PreActive" =>
    /\ Spent(cand) \subseteq DOMAIN utxos
    /\ \A i \in DOMAIN cand.outputs :
         LET c == Cov[cand.outputs[i].lock]
         IN  /\ c.size = "ok"
             /\ c.kind = "p2pk" => c.suite \in NativeCreate[next_block_height]
             /\ c.kind \in {"p2pk", "simplicity"} => cand.outputs[i].value > 0

\* What the pool takes, the next block may carry: the height and the median
\* time it is judged by are those of the next block (next_block_height,
\* next_block_mtp, mtp_median).
AdmittedIsConnectable ==
  add_tx_with_source(cand) = Ok =>
    At(TimePast)!apply_non_coinbase_tx(cand, FALSE) = Ok
=============================================================================
