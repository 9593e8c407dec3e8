----------------------------- MODULE BlockApply -----------------------------
(***************************************************************************)
(* Connecting a block to the in-memory UTXO set: the sequential path, the  *)
(* path that defers signatures to one queue per block                      *)
(* (connect_block_inmem.rs, utxo_basic.rs), and the precomputed contexts   *)
(* with their worker check (precompute.rs, tx_validate_worker.rs).         *)
(*                                                                         *)
(* Both connect paths run on the same block, one transaction at a step:    *)
(* `err' is the sequential verdict so far, `perr' the verdict of the       *)
(* deferring path, which goes on past a bad signature until it flushes.    *)
(* The transactions of a block are drawn as it is read.                    *)
(***************************************************************************)
EXTENDS Covenants

CONSTANTS
  Genesis,            \* outpoint -> coin, the UTXO set at the start
  CoinbaseOutputs,    \* output lists a coinbase may carry
  Nonces, Outputs,    \* nonces and output lists of other transactions
  Inputs(_),          \* input lists, given the UTXO set
  Witnesses(_, _),    \* witnesses, given the UTXO set and the inputs
  Subsidy,            \* block_subsidy, the same at every modelled height
  COINBASE_MATURITY,
  Mtp,                \* height -> median time past
  MaxHeight, MaxTxs   \* bounds: blocks, transactions of one block

VARIABLES
  utxos,    \* InMemoryChainState::utxos
  issued,   \* already_generated, genesis coins included
  height,   \* height of the block being connected, or of the last one
  open,     \* a block is being connected
  claimed,  \* value of its coinbase outputs
  work,     \* work_utxos
  count,    \* transactions read
  nonces,   \* seen_nonces
  fees,     \* sum_fees
  err, perr, \* verdicts of the two paths
  queue,    \* SigCheckQueue of the deferring path: does each signature verify?
  last      \* history: verdicts on the last transaction, and what it showed

block == <<open, claimed, work, count, nonces, fees, err, perr, queue>>
vars == <<utxos, issued, height, block, last>>

Total(coins) == MapThenSumSet(LAMBDA o : coins[o].value, DOMAIN coins)
Value(outs) == Sum([i \in DOMAIN outs |-> outs[i].value])
Outpoints(tx) == {tx.inputs[i].op : i \in DOMAIN tx.inputs}
Carried(out) == Cov[out.lock].kind \notin {"anchor", "da_commit"}

\* Outputs that enter the UTXO set; anchors and commitments do not.
NewCoins(id, outs, coinbase, h) ==
  [o \in {Append(id, i) : i \in {j \in DOMAIN outs : Carried(outs[j])}} |->
     [value |-> outs[o[3]].value, lock |-> outs[o[3]].lock,
      creation_height |-> h, coinbase |-> coinbase]]

Idle == [front |-> Ok, err |-> Ok, pre |-> Ok, local |-> Ok, signers |-> {}, secrets |-> {}]

Init ==
  /\ utxos = Genesis
  /\ issued = Total(Genesis)
  /\ height = 0
  /\ open = FALSE /\ claimed = 0 /\ work = Genesis /\ count = 0
  /\ nonces = {} /\ fees = 0 /\ err = Ok /\ perr = Ok /\ queue = <<>>
  /\ last = Idle

-----------------------------------------------------------------------------
(* One transaction on a UTXO set (utxo_basic.rs).                          *)

is_coinbase_tx(tx) ==
  tx.nonce = 0 /\ Len(tx.inputs) = 1 /\ tx.witness = <<>> /\ tx.inputs[1].enc = "coinbase"

validate_non_coinbase_block_tx(tx, seen) ==
  Check(~is_coinbase_tx(tx), "CoinbaseInvalid")
    ?? Check(tx.inputs # <<>>, IF tx.nonce = 0 THEN "TxNonceInvalid" ELSE "Parse")
    ?? Check(tx.nonce \notin seen, "NonceReplay")

validate_apply_inputs(tx) ==
  Check(tx.nonce # 0, "TxNonceInvalid") ?? Check(tx.inputs # <<>>, "Parse")
    ?? validate_tx_covenants_genesis(tx, height)

validate_non_coinbase_input_encoding(in) ==
  Check(in.enc # "coinbase", "Parse") ?? Check(in.enc # "script", "Parse")
    ?? Check(in.enc # "sequence", "SequenceInvalid")

validate_input_availability(coin) ==
  Check(Carried(coin), "MissingUtxo")
    ?? Check(coin.coinbase => height - coin.creation_height >= COINBASE_MATURITY,
             "CoinbaseImmature")

\* Input i up to its entry: encoding, duplicates, presence, availability.
FindInput(tx, i, avail(_)) ==
  LET in == tx.inputs[i]
  IN  validate_non_coinbase_input_encoding(in)
        ?? Check(\A j \in 1..(i - 1) : tx.inputs[j].op # in.op, "Parse")
        ?? Check(in.op \in DOMAIN work, "MissingUtxo")
        ?? avail(work[in.op])

Coin(tx, i) == work[tx.inputs[i].op]
CovOf(tx, i) == Cov[Coin(tx, i).lock]
VaultInputs(tx, n) ==
  {i \in 1..n : tx.inputs[i].op \in DOMAIN work /\ CovOf(tx, i).kind = "vault"}

\* The witness cursor after the first n inputs.
Cursor(tx, n) ==
  Sum([i \in 1..n |-> IF tx.inputs[i].op \in DOMAIN work
                      THEN witness_slots(CovOf(tx, i)) ELSE 0])

validate_input_covenant(tx, i) ==
  Check(Cardinality(VaultInputs(tx, i)) <= 1, "VaultMultiInputForbidden")
    ?? Check(CovOf(tx, i).kind # "simplicity", "CovenantTypeInvalid")
    ?? check_spend_covenant(CovOf(tx, i))

record_resolved_input(tx, i) == Check(Cursor(tx, i) <= Len(tx.witness), "Parse")

resolve_input(tx, i) ==
  FindInput(tx, i, validate_input_availability)
    ?? validate_input_covenant(tx, i) ?? record_resolved_input(tx, i)

resolve_inputs(tx) ==
  FirstError([i \in DOMAIN tx.inputs |-> resolve_input(tx, i)])
    ?? Check(Cursor(tx, Len(tx.inputs)) = Len(tx.witness), "Parse")

Assigned(tx, i) == SubSeq(tx.witness, Cursor(tx, i - 1) + 1, Cursor(tx, i))

\* A vault input is only captured here; its signatures come last.
validate_resolved_spend(tx, i, defer) ==
  LET c == CovOf(tx, i)
      ws == Assigned(tx, i)
  IN  CASE c.kind = "p2pk" -> validate_p2pk_spend_q(c, ws[1], height, defer)
        [] c.kind = "multisig" -> validate_threshold_sig_spend_q(c, ws, height, defer)
        [] c.kind = "stealth" -> validate_stealth_spend_q(c, ws[1], height, defer)
        [] c.kind = "htlc" ->
             validate_htlc_spend_q(c, ws[1], ws[2], height, Mtp[height], defer)
        [] OTHER -> Ok

has_owner_authorized_input(tx, owner) ==
  \E i \in DOMAIN tx.inputs :
    Coin(tx, i).lock = owner /\ CovOf(tx, i).kind \in {"p2pk", "multisig"}

validate_vault_creation(tx) ==
  FirstError([j \in DOMAIN tx.outputs |->
    LET c == Cov[tx.outputs[j].lock]
    IN  IF c.kind # "vault" THEN Ok
        ELSE parse_vault_covenant_data(c)
               ?? Check(has_owner_authorized_input(tx, c.owner), "VaultOwnerAuthRequired")])

validate_owner_and_sponsor(tx, c) ==
  Check(\E i \in DOMAIN tx.inputs : Coin(tx, i).lock = c.owner, "VaultOwnerAuthRequired")
    ?? Check(\A i \in DOMAIN tx.inputs : CovOf(tx, i).kind = "vault" \/ Coin(tx, i).lock = c.owner,
             "VaultFeeSponsorForbidden")

validate_destinations(tx, c) ==
  Check(\A j \in DOMAIN tx.outputs :
          /\ Cov[tx.outputs[j].lock].kind \in {"p2pk", "multisig", "htlc"}
          /\ hash_in_sorted_32(c.whitelist, tx.outputs[j].lock),
        "VaultOutputNotWhitelisted")

validate_vault_spend(tx, defer) ==
  FirstError([i \in DOMAIN tx.inputs |->
    LET c == CovOf(tx, i)
    IN  IF c.kind # "vault" THEN Ok
        ELSE validate_owner_and_sponsor(tx, c)
               ?? Check(\A j \in DOMAIN tx.outputs : Cov[tx.outputs[j].lock].kind # "vault",
                        "VaultOutputNotWhitelisted")
               ?? validate_threshold_sig_spend_q(c, Assigned(tx, i), height, defer)
               ?? validate_destinations(tx, c)])

SumIn(tx) == Sum([i \in DOMAIN tx.inputs |-> Coin(tx, i).value])
SumInVault(tx) ==
  Sum([i \in DOMAIN tx.inputs |-> IF CovOf(tx, i).kind = "vault" THEN Coin(tx, i).value ELSE 0])

\* Mutant: a vault may pay the fee.
finish_VaultFee(tx) == Check(Value(tx.outputs) <= SumIn(tx), "ValueConservation")

\* sum_in_vault is zero without a vault input.
finish(tx) ==
  Check(Value(tx.outputs) <= SumIn(tx), "ValueConservation")
    ?? Check(Value(tx.outputs) >= SumInVault(tx), "ValueConservation")

front_checks(tx) == validate_apply_inputs(tx) ?? resolve_inputs(tx)

apply_non_coinbase_tx(tx, defer) ==
  front_checks(tx)
    ?? FirstError([i \in DOMAIN tx.inputs |-> validate_resolved_spend(tx, i, defer)])
    ?? validate_vault_creation(tx)
    ?? validate_vault_spend(tx, defer)
    ?? finish(tx)

\* The UTXO set after an accepted transaction.
Applied(tx, id) ==
  NewCoins(id, tx.outputs, FALSE, height) @@ [o \in DOMAIN work \ Outpoints(tx) |-> work[o]]

\* Signatures the deferring path pushes: the inputs' in order, a vault's last.
Pushed(tx, i) ==
  LET ws == IF CovOf(tx, i).kind = "htlc" THEN <<Assigned(tx, i)[2]>> ELSE Assigned(tx, i)
      sigs == SelectSeq(ws, LAMBDA w : w.suite # SENTINEL)
  IN  [n \in DOMAIN sigs |-> sigs[n].good]

\* Mutant: a threshold check rolls the queue back when it passes, too.
PushedByTx_SingleKeys(tx) ==
  FlattenSeq([i \in DOMAIN tx.inputs |->
                IF CovOf(tx, i).kind \in {"multisig", "vault"} THEN <<>> ELSE Pushed(tx, i)])

PushedByTx(tx) ==
  LET vault == VaultInputs(tx, Len(tx.inputs))
      order == SetToSortSeq(DOMAIN tx.inputs \ vault, <) \o SetToSeq(vault)
  IN  FlattenSeq([n \in DOMAIN order |-> Pushed(tx, order[n])])

-----------------------------------------------------------------------------
(* The precomputed context and the worker that checks it.                  *)

validate_precompute_entry(coin) ==
  Check(Carried(coin), "MissingUtxo")
    ?? Check(coin.coinbase => height - coin.creation_height >= COINBASE_MATURITY,
             "CoinbaseImmature")

Simplicities(tx) ==
  {i \in DOMAIN tx.inputs : tx.inputs[i].op \in DOMAIN work /\ CovOf(tx, i).kind = "simplicity"}

\* Collection stops at the first CORE_SIMPLICITY input.
Collected(tx) == 1..Min(Simplicities(tx) \cup {Len(tx.inputs)})

collect_precompute_inputs(tx) ==
  FirstError([i \in Collected(tx) |->
    FindInput(tx, i, validate_precompute_entry)
      ?? Check(witness_slots(CovOf(tx, i)) > 0, "CovenantTypeInvalid")])

precompute_witness_bounds(tx) ==
  IF Simplicities(tx) # {}
  THEN Check(Cursor(tx, Min(Simplicities(tx)) - 1) <= Len(tx.witness), "Parse")
         ?? "CovenantTypeInvalid"
  ELSE Check(Cursor(tx, Len(tx.inputs)) = Len(tx.witness), "Parse")

precompute_tx_context(tx) ==
  validate_apply_inputs(tx) ?? collect_precompute_inputs(tx) ?? precompute_witness_bounds(tx)
    ?? Check(Value(tx.outputs) <= SumIn(tx), "ValueConservation")

\* The worker defers signatures to a queue of its own and flushes it.
validate_tx_local(tx) ==
  FirstError([i \in DOMAIN tx.inputs |->
                IF CovOf(tx, i).kind = "vault"
                THEN validate_threshold_sig_spend_q(CovOf(tx, i), Assigned(tx, i), height, TRUE)
                ELSE validate_resolved_spend(tx, i, TRUE)])
    ?? Check(\A i \in DOMAIN tx.inputs : FALSE \notin Range(Pushed(tx, i)), "SigInvalid")

-----------------------------------------------------------------------------
(* The block.                                                              *)

\* apply_coinbase_outputs, on a coinbase that passed the preflight.
apply_coinbase_outputs(outs) ==
  FirstError([i \in DOMAIN outs |->
    Check(Cov[outs[i].lock].kind # "vault", "CoinbaseInvalid")
      ?? validate_tx_output_covenant_genesis(0, outs[i], height + 1)])
    ?? validate_simplicity_output_group_cap(outs)

BeginBlock ==
  /\ ~open /\ height < MaxHeight
  /\ \E outs \in CoinbaseOutputs :
       /\ apply_coinbase_outputs(outs) = Ok
       /\ height' = height + 1
       /\ open' = TRUE
       /\ claimed' = Value(outs)
       /\ work' = NewCoins(<<height + 1, 0>>, outs, TRUE, height + 1) @@ utxos
  /\ count' = 0 /\ nonces' = {} /\ fees' = 0 /\ err' = Ok /\ perr' = Ok /\ queue' = <<>>
  /\ last' = Idle
  /\ UNCHANGED <<utxos, issued>>

\* What the history keeps of a transaction and its verdicts.
Observed(tx, verdict) ==
  LET pre == precompute_tx_context(tx)
      sigs == {n \in DOMAIN tx.witness : tx.witness[n].good}
  IN  [front |-> front_checks(tx), err |-> verdict, pre |-> pre,
       local |-> IF pre = Ok THEN validate_tx_local(tx) ELSE Ok,
       signers |-> IF verdict = Ok THEN {tx.witness[n].key : n \in sigs} ELSE {},
       secrets |-> IF verdict = Ok
                   THEN {tx.witness[n].preimage : n \in DOMAIN tx.witness} ELSE {}]

\* One transaction on both paths; an error of the deferring path ends it.
ApplyTx ==
  /\ open /\ perr = Ok /\ count < MaxTxs
  /\ \E n \in Nonces, outs \in Outputs, ins \in Inputs(work) : \E ws \in Witnesses(work, ins) :
       LET tx == [nonce |-> n, kind |-> 0, inputs |-> ins, outputs |-> outs, witness |-> ws]
           dup == validate_non_coinbase_block_tx(tx, nonces)
           seq == dup ?? apply_non_coinbase_tx(tx, FALSE)
           par == dup ?? apply_non_coinbase_tx(tx, TRUE)
       IN  /\ err' = (err ?? seq)
           /\ perr' = par
           /\ queue' = IF par = Ok THEN queue \o PushedByTx(tx) ELSE <<>>
           /\ work' = IF par = Ok THEN Applied(tx, <<height, count + 1>>) ELSE work
           /\ fees' = IF par = Ok THEN fees + SumIn(tx) - Value(tx.outputs) ELSE fees
           /\ nonces' = nonces \cup {tx.nonce}
           /\ last' = IF err = Ok /\ dup = Ok THEN Observed(tx, seq) ELSE Idle
  /\ count' = count + 1
  /\ UNCHANGED <<utxos, issued, height, open, claimed>>

validate_coinbase_value_bound == Check(claimed <= Subsidy + fees, "SubsidyExceeded")

flush == Check(FALSE \notin Range(queue), "SigInvalid")

\* finalize_connected_block, the state untouched by a block with an error.
EndBlock ==
  /\ open
  /\ LET accepted == (perr ?? flush ?? validate_coinbase_value_bound) = Ok
     IN  /\ utxos' = IF accepted THEN work ELSE utxos
         /\ issued' = IF accepted THEN issued + Subsidy ELSE issued
         /\ height' = IF accepted THEN height ELSE height - 1
         /\ work' = IF accepted THEN work ELSE utxos
  /\ open' = FALSE
  /\ claimed' = 0 /\ count' = 0 /\ nonces' = {} /\ fees' = 0
  /\ err' = Ok /\ perr' = Ok /\ queue' = <<>>
  /\ last' = Idle

Next == BeginBlock \/ ApplyTx \/ EndBlock

Spec == Init /\ [][Next]_vars

-----------------------------------------------------------------------------
(* Properties.                                                             *)

Spent == DOMAIN work \ DOMAIN work'
Made == DOMAIN work' \ DOMAIN work

\* The verdict of the path that defers signatures agrees with the sequential
\* one at every point of a block: deferral changes when a signature error is
\* surfaced, never whether the block is accepted (queue_or_verify_signature).
PathsAgree == open => (err = Ok <=> (perr ?? flush) = Ok)

\* No value is made or lost while a block is applied, and the coins of the
\* chain never exceed what was issued: outputs that do not enter the UTXO set
\* carry nothing, and the coinbase takes no more than subsidy and fees.
SupplyIsExact ==
  /\ open => Total(work) + fees = Total(utxos) + claimed
  /\ Total(utxos) <= issued

\* A transaction that spends a vault pays its whole value, and whatever else
\* it pays, to the vault's whitelist, and takes its fee from the owner alone.
VaultsAreFenced ==
  open /\ open' =>
    \A o \in Spent :
      LET c == Cov[work[o].lock]
      IN  c.kind = "vault" =>
            /\ \A n \in Made : work'[n].lock \in Range(c.whitelist)
            /\ MapThenSumSet(LAMBDA n : work'[n].value, Made) >= work[o].value
            /\ \A p \in Spent \ {o} : work[p].lock = c.owner

Consented(c, shown) ==
  CASE c.kind \in {"p2pk", "stealth"} -> c.key \in shown.signers
    [] c.kind \in {"multisig", "vault"} ->
         Cardinality(Range(c.keys) \cap shown.signers) >= c.threshold
    [] c.kind = "htlc" ->
         \/ c.claim \in shown.signers /\ c.hash \in shown.secrets
         \/ /\ c.refund \in shown.signers
            /\ (IF c.mode = "height" THEN height ELSE Mtp[height]) >= c.lock
    [] OTHER -> FALSE

\* Whatever a block spends without an error was signed for: by the key, by a
\* threshold of the keys, by the claimant who reveals the preimage, or by the
\* refund key once the lock has passed.
SpentWithConsent ==
  open /\ open' /\ err' = Ok =>
    \A o \in Spent : Consented(Cov[work[o].lock], last')

\* Every coin can be spent by the rules that will be applied to it: what
\* creation admits, the looser and the stricter parsers of spending accept.
CoinsAreWellFormed ==
  \A o \in DOMAIN work :
    LET c == Cov[work[o].lock]
    IN  c.kind # "simplicity" =>
          check_spend_covenant(c) = Ok /\ witness_slots(c) > 0 /\ c.size = "ok"

\* The whitelist of a vault on the chain, which spending does not check again,
\* is one the binary search finds every entry of, and its owner is not in it.
WhitelistsAreUsable ==
  \A o \in DOMAIN work :
    LET c == Cov[work[o].lock]
    IN  c.kind = "vault" =>
          /\ \A d \in Range(c.whitelist) : hash_in_sorted_32(c.whitelist, d)
          /\ c.owner \notin Range(c.whitelist)

\* The owner of a vault on the chain is a lock that signatures open, so the
\* owner check of a vault spend need not look at the type of the input.
VaultOwnersCanSign ==
  \A o \in DOMAIN work :
    LET c == Cov[work[o].lock]
    IN  c.kind = "vault" => Cov[c.owner].kind \in {"p2pk", "multisig"}

VaultPolicy == {"VaultMultiInputForbidden", "VaultOwnerAuthRequired",
                "VaultFeeSponsorForbidden", "VaultOutputNotWhitelisted", "ValueConservation"}

\* Precomputation and the worker accept whatever the sequential path accepts,
\* and leave nothing but the vault policy to the commit stage.
PrecomputeIsSound ==
  /\ last.err = Ok => last.pre = Ok /\ last.local = Ok
  /\ last.pre = Ok /\ last.local = Ok => last.err \in {Ok} \cup VaultPolicy

=============================================================================
