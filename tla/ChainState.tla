----------------------------- MODULE ChainState -----------------------------
(***************************************************************************)
(* The chain state's algebra: connecting a block to the unspent-output    *)
(* set, recording what it spent, and disconnecting it again               *)
(* (rubin-consensus connect_block_inmem.rs, utxo_basic.rs, subsidy.rs;    *)
(* rubin-node chainstate.rs, undo.rs).                                    *)
(*                                                                         *)
(* A hash has no collisions: a transaction stands for its own txid and a  *)
(* block for its own block hash.  Signatures, covenants, proof of work    *)
(* and timestamps only refuse more blocks and are left out.               *)
(***************************************************************************)
EXTENDS Integers, SequencesExt, FiniteSetsExt

CONSTANTS
    Genesis,                  \* the coinbase of the genesis block
    Coinbases,                \* the coinbase transactions a miner may build
    Txs,                      \* the other transactions a block may hold
    MaxBody,                  \* bound: other transactions in one block
    MaxHeight,                \* bound: height of the chain
    COINBASE_MATURITY,
    MINEABLE_CAP, EMISSION_SPEED_FACTOR, TAIL_EMISSION_PER_BLOCK,
    Zero,                     \* the zero hash
    Err                       \* the error of a refused operation

VARIABLES
    state,                    \* ChainState
    chain,                    \* the canonical blocks, genesis first
    undos                     \* the undo record stored with each of them

vars == <<state, chain, undos>>

Outpoint(tx, i) == [txid |-> tx, vout |-> i - 1]

\* is_spendable_output: anchors and DA commitments never enter the set.
Created(tx) == {Outpoint(tx, i) : i \in {j \in DOMAIN tx.outputs : tx.outputs[j].spendable}}

Entry(op, height, coinbase) ==
    [value |-> op.txid.outputs[op.vout + 1].value,
     creation_height |-> height, created_by_coinbase |-> coinbase]

\* HashMap::insert for every spendable output: an entry in the way is replaced.
Insert(utxos, tx, height, coinbase) ==
    [op \in DOMAIN utxos \union Created(tx) |->
        IF op \in Created(tx) THEN Entry(op, height, coinbase) ELSE utxos[op]]

Without(utxos, ops) == [op \in DOMAIN utxos \ ops |-> utxos[op]]

SumOutputs(tx) == MapThenSumSet(LAMBDA i : tx.outputs[i].value, DOMAIN tx.outputs)

SumInputs(tx, utxos) == MapThenSumSet(LAMBDA i : utxos[tx.inputs[i]].value, DOMAIN tx.inputs)

-----------------------------------------------------------------------------
(* Connect. *)

block_subsidy(height, already_generated) ==
    LET base_reward == (MINEABLE_CAP - already_generated) \div 2^EMISSION_SPEED_FACTOR
    IN  CASE height = 0 -> 0
          [] height # 0 /\ already_generated >= MINEABLE_CAP -> TAIL_EMISSION_PER_BLOCK
          [] height # 0 /\ already_generated < MINEABLE_CAP ->
                Max({base_reward, TAIL_EMISSION_PER_BLOCK})

validate_coinbase_structure(coinbase, height) ==
    /\ coinbase.tx_nonce = 0
    /\ coinbase.outputs # <<>>
    /\ coinbase.locktime = height

validate_genesis_identity(height, txs) == height = 0 => txs = <<Genesis>>

\* The subtraction is guarded: an entry above the height is immature too.
validate_input_availability(entry, height) ==
    entry.created_by_coinbase =>
        /\ height >= entry.creation_height
        /\ height - entry.creation_height >= COINBASE_MATURITY

\* One transaction after the coinbase, against the map the ones before it left.
apply_non_coinbase_tx(work, tx, height) ==
    LET ops == ToSet(tx.inputs)
        sum_in == SumInputs(tx, work.utxos)
    IN  IF /\ tx.tx_nonce \notin work.seen_nonces \union {0}
           /\ tx.inputs # <<>> /\ IsInjective(tx.inputs)
           /\ ops \subseteq DOMAIN work.utxos
           /\ \A op \in ops : validate_input_availability(work.utxos[op], height)
           /\ SumOutputs(tx) <= sum_in
        THEN [utxos |-> Insert(Without(work.utxos, ops), tx, height, FALSE),
              sum_fees |-> work.sum_fees + sum_in - SumOutputs(tx),
              seen_nonces |-> work.seen_nonces \union {tx.tx_nonce}]
        ELSE Err

apply_coinbase_then_non_coinbase_txs(txs, utxos, height) ==
    FoldLeft(LAMBDA work, tx : IF work = Err THEN Err ELSE apply_non_coinbase_tx(work, tx, height),
             [utxos |-> Insert(utxos, txs[1], height, TRUE), sum_fees |-> 0, seen_nonces |-> {}],
             Tail(txs))

validate_coinbase_value_bound(coinbase, height, already_generated, sum_fees) ==
    height # 0 => SumOutputs(coinbase) <= block_subsidy(height, already_generated) + sum_fees

next_height(s) == IF s.has_tip THEN s.height + 1 ELSE 0

already_generated_after_block(height, already_generated) ==
    already_generated + block_subsidy(height, already_generated)

\* The last check on the block and the new unspent-output set and counter.
finalize_connected_block(s, block, height, work) ==
    IF validate_coinbase_value_bound(block.txs[1], height, s.already_generated, work.sum_fees)
    THEN [has_tip |-> TRUE, height |-> height, tip_hash |-> block, utxos |-> work.utxos,
          already_generated |-> already_generated_after_block(height, s.already_generated)]
    ELSE Err

\* connect_block: the state after the block, or Err with the state as it was.
connect_block(s, block) ==
    LET height == next_height(s)
        work == apply_coinbase_then_non_coinbase_txs(block.txs, s.utxos, height)
    IN  IF /\ s.has_tip => block.prev_block_hash = s.tip_hash
           /\ validate_genesis_identity(height, block.txs)
           /\ validate_coinbase_structure(block.txs[1], height)
           /\ work # Err
        THEN finalize_connected_block(s, block, height, work)
        ELSE Err

-----------------------------------------------------------------------------
(* The undo record. *)

\* Mutant: the entry is rebuilt at the spending height.
spend_for_undo_Rebuilt(u, op, prev) ==
    CASE op \in u.block_outputs -> [u EXCEPT !.block_outputs = @ \ {op}]
      [] op \notin u.block_outputs /\ op \notin DOMAIN prev -> Err
      [] OTHER -> [u EXCEPT !.spent_prev_outpoints = @ \union {op},
                            !.spent = Append(@, [outpoint |-> op, entry |->
                                [prev[op] EXCEPT !.created_by_coinbase = FALSE]])]

\* One input: made by this block, missing, spent twice, or recorded.
spend_for_undo(u, op, prev) ==
    CASE op \in u.block_outputs -> [u EXCEPT !.block_outputs = @ \ {op}]
      [] op \notin u.block_outputs /\ op \notin DOMAIN prev -> Err
      [] op \notin u.block_outputs /\ op \in DOMAIN prev /\ op \in u.spent_prev_outpoints -> Err
      [] OTHER -> [u EXCEPT !.spent_prev_outpoints = @ \union {op},
                            !.spent = Append(@, [outpoint |-> op, entry |-> prev[op]])]

\* One transaction: its inputs unless it is the coinbase, then its outputs.
undo_tx(u, tx, i, prev) ==
    LET spent == FoldLeft(LAMBDA w, op : IF w = Err THEN Err ELSE spend_for_undo(w, op, prev),
                          [u EXCEPT !.spent = <<>>], IF i = 1 THEN <<>> ELSE tx.inputs)
    IN  IF spent = Err
        THEN Err
        ELSE [spent EXCEPT !.block_outputs = @ \union Created(tx), !.txs = Append(@, spent.spent)]

\* build_block_undo, against the state captured before the connect.
build_block_undo(prev, block, height) ==
    LET u == FoldLeftDomain(LAMBDA w, i : IF w = Err THEN Err ELSE undo_tx(w, block.txs[i], i, prev.utxos),
                 [spent_prev_outpoints |-> {}, block_outputs |-> {}, spent |-> <<>>, txs |-> <<>>],
                 block.txs)
    IN  IF u = Err
        THEN Err
        ELSE [block_height |-> height, previous_already_generated |-> prev.already_generated,
              txs |-> u.txs]

-----------------------------------------------------------------------------
(* Disconnect. *)

\* The outputs of the block that a later transaction of it spends.
same_block_spent_outpoints(txs) ==
    {op \in UNION {Created(txs[i]) : i \in DOMAIN txs} :
        \E i, j \in DOMAIN txs : i < j /\ op \in Created(txs[i]) /\ op \in ToSet(txs[j].inputs)}

\* Remove this transaction's outputs; one that is gone was spent in the block.
remove_created(w, tx, same_block_spent) ==
    IF Created(tx) \subseteq DOMAIN w.utxos \union same_block_spent
    THEN [w EXCEPT !.utxos = Without(@, Created(tx))]
    ELSE Err

\* Restore one spent output, at most once and never over an unspent one.
restore_spent(w, spent) ==
    IF spent.outpoint \in w.restored \union DOMAIN w.utxos
    THEN Err
    ELSE [restored |-> w.restored \union {spent.outpoint},
          utxos |-> [op \in DOMAIN w.utxos \union {spent.outpoint} |->
                        IF op = spent.outpoint THEN spent.entry ELSE w.utxos[op]]]

disconnect_tx(w, tx, spent, same_block_spent) ==
    FoldLeft(LAMBDA x, sp : IF x = Err THEN Err ELSE restore_spent(x, sp),
             remove_created(w, tx, same_block_spent), spent)

\* The tip, height and emission counter once the work map is accepted.
after_disconnect(s, block, undo, utxos) ==
    [has_tip |-> s.height # 0,
     height |-> Max({s.height - 1, 0}),
     tip_hash |-> IF s.height = 0 THEN Zero ELSE block.prev_block_hash,
     utxos |-> utxos,
     already_generated |-> undo.previous_already_generated]

\* disconnect_block: last transaction first; Err leaves the state as it was.
disconnect_block(s, block, undo) ==
    LET same_block_spent == same_block_spent_outpoints(block.txs)
        work == FoldRightDomain(LAMBDA i, w :
                    IF w = Err THEN Err
                    ELSE disconnect_tx(w, block.txs[i], undo.txs[i], same_block_spent),
                    block.txs, [utxos |-> s.utxos, restored |-> {}])
    IN  IF /\ s.has_tip
           /\ s.height = undo.block_height
           /\ Len(undo.txs) = Len(block.txs)
           /\ s.tip_hash = block
           /\ work # Err
        THEN after_disconnect(s, block, undo, work.utxos)
        ELSE Err

-----------------------------------------------------------------------------
(* The engine's use of them. *)

NewState == [has_tip |-> FALSE, height |-> 0, tip_hash |-> Zero, utxos |-> <<>>,
             already_generated |-> 0]

Init ==
    /\ state = NewState
    /\ chain = <<>>
    /\ undos = <<>>

\* The blocks a peer or the miner may offer on the tip.
Bodies == {<<cb>> \o body : cb \in Coinbases \union {Genesis}, body \in BoundedSeq(Txs, MaxBody)}

Offered == [prev_block_hash : {state.tip_hash}, txs : Bodies]

\* A direct apply: connect, build the undo record from the snapshot, store both.
Connect(block) ==
    LET next == connect_block(state, block)
        undo == build_block_undo(state, block, next_height(state))
    IN  /\ next_height(state) <= MaxHeight
        /\ next # Err
        /\ undo # Err
        /\ state' = next
        /\ chain' = Append(chain, block)
        /\ undos' = Append(undos, undo)

\* A disconnect of the tip with its stored undo record.
Disconnect ==
    /\ chain # <<>>
    /\ LET next == disconnect_block(state, Last(chain), Last(undos))
       IN  next # Err /\ state' = next
    /\ chain' = Front(chain)
    /\ undos' = Front(undos)

Next == (\E block \in Offered : Connect(block)) \/ Disconnect

Spec == Init /\ [][Next]_vars

-----------------------------------------------------------------------------
(* Properties.  They read the ledger off the chain, not off the folds. *)

\* Where the transactions of a chain sit: block number and index in the block.
Places(blocks) == UNION {{<<b, i>> : i \in DOMAIN blocks[b].txs} : b \in DOMAIN blocks}

TxAt(blocks, p) == blocks[p[1]].txs[p[2]]

Before(p, q) == p[1] < q[1] \/ (p[1] = q[1] /\ p[2] < q[2])

Spent(blocks) == UNION {ToSet(TxAt(blocks, p).inputs) : p \in Places(blocks)}

\* The outputs a chain has made and not spent, each with the height of its block.
Balance(blocks) ==
    LET made == UNION {Created(TxAt(blocks, p)) : p \in Places(blocks)}
        place(op) == CHOOSE p \in Places(blocks) : TxAt(blocks, p) = op.txid
    IN  [op \in made \ Spent(blocks) |-> Entry(op, place(op)[1] - 1, place(op)[2] = 1)]

\* The emission of heights 1..h.
Emission(h) == FoldLeft(LAMBDA total, i : total + block_subsidy(i, total), 0, [i \in 1..h |-> i])

\* However the node got to its tip, the unspent-output set is what the chain
\* made and did not spend: a disconnect leaves no output behind and restores
\* each spent one with its height and coinbase flag (disconnect_block).
UtxosAreChainBalance == state.utxos = Balance(chain)

\* Tip, height and already_generated are those of the chain, also after a
\* disconnect and a different reconnect (apply_connected_block, disconnect_block).
TipMatchesChain ==
    /\ state.has_tip = (chain # <<>>)
    /\ state.has_tip => state.tip_hash = Last(chain) /\ state.height = Len(chain) - 1
    /\ state.already_generated = Emission(state.height)

\* The stored undo record of the tip always disconnects it: none of
\* disconnect_block's consistency errors can occur for a block that connected.
TipIsReversible == chain # <<>> => disconnect_block(state, Last(chain), Last(undos)) # Err

\* A block that connects has an undo record: build_block_undo, which tracks the
\* block's outputs on its own, never refuses what connect_block accepted.
UndoAlwaysBuilds ==
    \A block \in Offered :
        connect_block(state, block) # Err => build_block_undo(state, block, next_height(state)) # Err

\* Every input in the chain spends an output made at an earlier place of the
\* same chain, and no two inputs spend the same one (resolve_input).
SpendsAreBackedOnce ==
    \A p \in Places(chain) : \A i \in DOMAIN TxAt(chain, p).inputs :
        LET op == TxAt(chain, p).inputs[i]
        IN  /\ \E q \in Places(chain) : Before(q, p) /\ op \in Created(TxAt(chain, q))
            /\ \A q \in Places(chain) : \A j \in DOMAIN TxAt(chain, q).inputs :
                   TxAt(chain, q).inputs[j] = op => q = p /\ j = i

\* No block spends a coinbase output less than COINBASE_MATURITY blocks above it,
\* also when the output was restored by a disconnect (validate_input_availability).
CoinbaseSpendsAreMature ==
    \A p, q \in Places(chain) :
        p[2] = 1 /\ Created(TxAt(chain, p)) \intersect ToSet(TxAt(chain, q).inputs) # {}
            => q[1] - p[1] >= COINBASE_MATURITY

\* The unspent value never exceeds the genesis allocation and the emission of
\* the chain's heights: fees only move value (validate_coinbase_value_bound).
SupplyIsBounded ==
    chain # <<>> =>
        MapThenSumSet(LAMBDA op : state.utxos[op].value, DOMAIN state.utxos)
            <= SumOutputs(Genesis) + Emission(Len(chain) - 1)

\* No txid occurs twice in a chain, so add_outputs and apply_coinbase_outputs,
\* which insert without looking, never replace an unspent output.
TxidsAreUnique == \A p, q \in Places(chain) : TxAt(chain, p) = TxAt(chain, q) => p = q

=============================================================================
