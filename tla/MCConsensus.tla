------------------------------ MODULE MCConsensus ------------------------------
(***************************************************************************)
(* The parts that decide what a valid chain is and write it down, each on  *)
(* a small instance of its own.  A behaviour picks one part and runs it;   *)
(* the others stand still, so that the states are those of the parts, one  *)
(* beside the other.                                                       *)
(***************************************************************************)
EXTENDS Integers, Sequences, SequencesExt, FiniteSets, TLC

CONSTANTS
  Parts,            \* the parts a run works on
  Err, Zero, faulty, good, h1, h2, n1, n2, panics, spoiled, wide

-----------------------------------------------------------------------------
(* A small ledger: coinbases for each height, transactions that chain inside
   a block, conflict, spend coinbases, repeat an input or try to make value. *)

SpentOutput(tx, i) == [txid |-> tx, vout |-> i - 1]

LedgerOut(value) == [value |-> value, spendable |-> TRUE]

Anchor == [value |-> 0, spendable |-> FALSE]

Coinbase(height, outputs) ==
    [inputs |-> <<>>, outputs |-> outputs, tx_nonce |-> 0, locktime |-> height]

LedgerTx(nonce, inputs, outputs) ==
    [inputs |-> inputs, outputs |-> outputs, tx_nonce |-> nonce, locktime |-> 0]

LedgerGenesis == Coinbase(0, <<LedgerOut(3)>>)

LedgerCoinbases ==
    {Coinbase(h, outs) : h \in 1..5, outs \in {<<LedgerOut(1)>>, <<LedgerOut(1), LedgerOut(1)>>, <<Anchor, LedgerOut(4)>>}}

\* Pays a fee of 1; both outputs can be spent in the same block.
Split == LedgerTx(1, <<SpentOutput(LedgerGenesis, 1)>>, <<LedgerOut(1), LedgerOut(1)>>)

\* Spends the genesis output that Split spends.
Rival == LedgerTx(2, <<SpentOutput(LedgerGenesis, 1)>>, <<Anchor, LedgerOut(3)>>)

\* Spends an output of Split and a mined coinbase.
Join == LedgerTx(3, <<SpentOutput(Split, 2), SpentOutput(Coinbase(1, <<Anchor, LedgerOut(4)>>), 2)>>, <<LedgerOut(4)>>)

\* Makes value out of an output of Split.
Mint == LedgerTx(3, <<SpentOutput(Split, 1)>>, <<LedgerOut(5)>>)

\* Names one input twice.
Twice == LedgerTx(4, <<SpentOutput(Split, 1), SpentOutput(Split, 1)>>, <<LedgerOut(2)>>)

\* Spends the first output of Split.
Chained == LedgerTx(5, <<SpentOutput(Split, 1)>>, <<LedgerOut(1)>>)

\* Spends a later coinbase and the output of Chained.
Reward == LedgerTx(6, <<SpentOutput(Chained, 1), SpentOutput(Coinbase(2, <<LedgerOut(1), LedgerOut(1)>>), 1)>>, <<LedgerOut(1), Anchor>>)

LedgerTxs == {Split, Rival, Join, Mint, Twice, Chained, Reward}

-----------------------------------------------------------------------------
(* Blocks under covenants: vaults, hashed time locks, and plain coins. *)

LockP2pk(k) == [kind |-> "p2pk", size |-> "ok", suite |-> 1, key |-> k]
Multisig(t, ks) == [kind |-> "multisig", size |-> "ok", threshold |-> t, keys |-> ks]
Vault(o, t, ks, wl) ==
  [kind |-> "vault", size |-> "ok", owner |-> o, threshold |-> t, keys |-> ks, whitelist |-> wl]
Htlc(m, l) ==
  [kind |-> "htlc", size |-> "ok", hash |-> "secret", mode |-> m, lock |-> l, claim |-> 1, refund |-> 2]
LockPlain(k, z) == [kind |-> k, size |-> z]

C(v, l) == [value |-> v, lock |-> l, creation_height |-> 0, coinbase |-> FALSE]
LockSig(k, g) == [suite |-> 1, key |-> k, form |-> "canonical", good |-> g, path |-> "none", preimage |-> "none"]
Other(k, s, f) == [suite |-> s, key |-> k, form |-> f, good |-> TRUE, path |-> "none", preimage |-> "none"]
Absent == [suite |-> 0, key |-> 0, form |-> "empty", good |-> FALSE, path |-> "none", preimage |-> "none"]
Selector(k, p, x) == [suite |-> 0, key |-> k, form |-> "canonical", good |-> FALSE, path |-> p, preimage |-> x]

LockOut(v, l) == [value |-> v, lock |-> l]
LockIn(o) == [op |-> o, enc |-> "ok"]
Pairs(S) == {<<a>> : a \in S} \cup {<<a, b>> : a, b \in S}
OneSuite == [h \in 0..2 |-> {1}]
TwoSuites == [h \in 0..2 |-> IF h < 2 THEN {1} ELSE {1, 2}]
LockTime == [h \in 0..2 |-> 10 * h]
SlotsOf(c) ==
  CASE c.kind \in {"multisig", "vault"} -> Len(c.keys)
    [] c.kind = "htlc" -> 2
    [] OTHER -> 1
Slots(cov, coins, ins) ==
  FoldLeft(LAMBDA n, i : n + IF i.op \in DOMAIN coins THEN SlotsOf(cov[coins[i.op].lock]) ELSE 1, 0, ins)

\* Vaults: owner 1, destinations 2 and 3, and vaults that may not be made.
VaultCov == <<LockP2pk(1), LockP2pk(2), Multisig(1, <<1, 2>>), Vault(1, 1, <<2>>, <<2, 3>>),
              Vault(1, 1, <<2>>, <<3, 2>>), Vault(1, 1, <<2>>, <<1, 2>>), LockPlain("anchor", "ok"),
              Htlc("height", 1), Vault(8, 1, <<2>>, <<2, 3>>)>>
VaultGenesis == (<<0, 0, 1>> :> C(2, 1)) @@ (<<0, 0, 2>> :> C(1, 8)) @@ (<<0, 0, 3>> :> C(2, 4))
VaultOuts == {LockOut(v, l) : v \in {1, 2}, l \in {1, 2, 4}} \cup {LockOut(2, l) : l \in {5, 6, 9}}
               \cup {LockOut(v, 7) : v \in {0, 1}}
VaultOutputs ==
  {<<o>> : o \in VaultOuts}
    \cup {<<LockOut(1, 4), LockOut(1, 1)>>, <<LockOut(1, 2), LockOut(1, 1)>>, <<LockOut(1, 2), LockOut(1, 2)>>, <<LockOut(1, 2), LockOut(0, 7)>>}
\* One input, alone or beside the coin of the owner.
VaultInputLists(coins) ==
  UNION {{<<LockIn(o)>>, <<LockIn(o), LockIn(<<0, 0, 1>>)>>} : o \in DOMAIN coins}
VaultWitnesses(coins, ins) ==
  [1..Slots(VaultCov, coins, ins) -> {LockSig(1, TRUE), LockSig(2, TRUE), Selector(1, "claim", "secret")}]
VaultCoinbase == {<<LockOut(1, 2)>>}

\* Hashed time locks, a stealth key and 2-of-2 signers, of two suites.
LockCov == <<LockP2pk(1), Htlc("height", 2), Htlc("timestamp", 20), Multisig(2, <<1, 2>>),
             [kind |-> "stealth", size |-> "ok", key |-> 2],
             [LockP2pk(2) EXCEPT !.suite = 2], Multisig(2, <<2, 1>>), Multisig(3, <<1, 2>>)>>
LockGenesis == (<<0, 0, 1>> :> C(1, 2)) @@ (<<0, 0, 2>> :> C(1, 3)) @@ (<<0, 0, 3>> :> C(1, 4)) @@ (<<0, 0, 4>> :> C(1, 5))
LockOutputs == {<<LockOut(1, l)>> : l \in {1, 4, 6, 7, 8}}
LockItems == {LockSig(1, TRUE), LockSig(2, TRUE), LockSig(2, FALSE), Other(2, 2, "canonical"), Other(1, 1, "length"),
              Other(1, 1, "sighash"),
              Absent, Selector(1, "claim", "secret"), Selector(1, "claim", "guess"),
              Selector(1, "claim", "badlength"), Selector(2, "refund", "none"),
              Selector(1, "refund", "none"), Selector(2, "none", "none")}
LockInputLists(coins) == {<<LockIn(o)>> : o \in DOMAIN coins}
LockWitnesses(coins, ins) == [1..Slots(LockCov, coins, ins) -> LockItems]
LockCoinbase == {<<LockOut(1, 1)>>}

\* LockPlain coins: every way an input or a witness can be wrong, two
\* transactions to a block, deferred and bad signatures.
PlainCov == <<LockP2pk(1), LockP2pk(2), Multisig(1, <<1, 2>>), [kind |-> "simplicity", size |-> "ok", cmr |-> 1],
              LockPlain("da_commit", "ok"), LockPlain("reserved", "ok"), LockPlain("stealth", "mismatch")>>
PlainGenesis == (<<0, 0, 1>> :> [C(1, 1) EXCEPT !.coinbase = TRUE]) @@ (<<0, 0, 2>> :> C(1, 3))
PlainOutputs == {<<LockOut(1, 2)>>, <<LockOut(2, 2)>>, <<LockOut(1, 4)>>, <<LockOut(1, 6)>>, <<LockOut(1, 7)>>}
Missing == [op |-> <<0, 0, 9>>, enc |-> "ok"]
PlainInputLists(coins) ==
  {<<>>} \cup Pairs({LockIn(o) : o \in DOMAIN coins}) \cup {<<LockIn(o), Missing>> : o \in DOMAIN coins}
    \cup {<<[op |-> <<0, 0, 1>>, enc |-> e]>> : e \in {"coinbase", "script", "sequence"}}
PlainWitnesses(coins, ins) ==
  UNION {[1..m -> {LockSig(1, TRUE), LockSig(1, FALSE), Absent}] : m \in 0..Slots(PlainCov, coins, ins)}
PlainCoinbase == {<<LockOut(1, 1)>>, <<LockOut(2, 2)>>, <<LockOut(1, 4)>>}

-----------------------------------------------------------------------------
(* Admission: every way a transaction can be wrong, and rivals for a coin. *)

AdmP2pk(k, s) == [kind |-> "p2pk", size |-> "ok", suite |-> s, key |-> k]
AdmCov ==
  <<AdmP2pk(1, 1), AdmP2pk(2, 2), [AdmP2pk(1, 1) EXCEPT !.size = "mismatch"],
    [kind |-> "anchor", size |-> "ok"], [kind |-> "da_commit", size |-> "ok"],
    [kind |-> "simplicity", size |-> "ok", cmr |-> 1],
    [kind |-> "htlc", size |-> "ok", hash |-> "secret", mode |-> "timestamp", lock |-> 4,
     claim |-> 2, refund |-> 1]>>

\* The second suite is introduced at height 1; the deployment at height 3.
AdmSuites == [h \in 0..4 |-> IF h < 1 THEN {1} ELSE {1, 2}]
AdmTimes == [h \in 0..4 |-> <<1, 6, 4, 2, 7>>[h + 1]]

AdmCoin(v, l) == [value |-> v, lock |-> l, creation_height |-> 0, coinbase |-> FALSE]
AdmGenesis ==
  <<AdmCoin(6, 1), [AdmCoin(6, 1) EXCEPT !.coinbase = TRUE], AdmCoin(6, 3), AdmCoin(6, 2), AdmCoin(7, 6), AdmCoin(6, 7),
    AdmCoin(7, 1)>>

AdmSig(k, s, f, g) == [suite |-> s, key |-> k, form |-> f, good |-> g, path |-> "none", preimage |-> "none"]
Good == AdmSig(1, 1, "canonical", TRUE)
Refund == [suite |-> 0, key |-> 1, form |-> "canonical", good |-> FALSE, path |-> "refund", preimage |-> "none"]
AdmIn(o) == [op |-> o, enc |-> "ok"]
AdmOut(v, l) == [value |-> v, lock |-> l]

AdmPlain(ins, ws, outs, n, w) ==
  [form |-> "ok", kind |-> 0, nonce |-> n, inputs |-> ins, witness |-> ws, outputs |-> outs,
   weight |-> w, da_bytes |-> 0]

OneInput == {<<AdmIn(o)>> : o \in {1, 2, 3, 4, 5, 9}} \cup {<<[op |-> 1, enc |-> e]>> : e \in {"coinbase", "script", "sequence"}}
OneWitness == {<<Good>>, <<AdmSig(1, 1, "canonical", FALSE)>>, <<AdmSig(2, 1, "canonical", TRUE)>>,
               <<AdmSig(2, 2, "canonical", TRUE)>>, <<AdmSig(1, 1, "length", TRUE)>>,
               <<AdmSig(1, 1, "sighash", TRUE)>>, <<>>, <<Good, Good>>}
SomeOutputs == {<<AdmOut(v, 1)>> : v \in {0, 2, 4, 5, 7}} \cup {<<AdmOut(4, l)>> : l \in {2, 3, 6}}
  \cup {<<AdmOut(4, 1), AdmOut(0, 4)>>, <<AdmOut(4, 1), AdmOut(1, 4)>>, <<AdmOut(7, 1), AdmOut(7, 1)>>, <<AdmOut(2, 6), AdmOut(2, 3)>>}
PlainTxs ==
  {AdmPlain(ins, ws, outs, n, w) :
     ins \in OneInput, ws \in OneWitness, outs \in SomeOutputs, n \in {0, 1}, w \in {1, 2}}
    \cup {[AdmPlain(<<AdmIn(1)>>, <<Good>>, <<AdmOut(4, 1)>>, 1, 1) EXCEPT !.form = f] : f \in {"unparsable", "trailing"}}
    \cup {AdmPlain(<<AdmIn(6)>>, <<Refund, Good>>, <<AdmOut(4, 1)>>, 1, 1)}

\* Data transactions; the sum of two inputs exceeds U64_MAX.
DaTxs ==
  {[AdmPlain(ins, [i \in DOMAIN ins |-> Good], outs, 1, w) EXCEPT !.kind = 1, !.da_bytes = d] :
     ins \in {<<AdmIn(1)>>, <<AdmIn(1), AdmIn(7)>>, <<AdmIn(9)>>, <<>>},
     outs \in {<<AdmOut(v, 1), AdmOut(0, 5)>> : v \in 1..5}, w \in {1, 2, 4}, d \in 0..3}

\* Two rivals for the first coin, a double of one of them, a bystander.
RivalTxs ==
  {AdmPlain(<<AdmIn(1)>>, <<AdmSig(1, 1, "canonical", g)>>, <<AdmOut(v, 1)>>, 1, w) : v \in {2, 4, 5}, g \in BOOLEAN, w \in {1, 2}}
    \cup {AdmPlain(<<AdmIn(2)>>, <<Good>>, <<AdmOut(4, 1)>>, 1, 1), AdmPlain(<<AdmIn(1), AdmIn(2)>>, <<Good, Good>>, <<AdmOut(4, 1)>>, 1, 2),
          AdmPlain(<<AdmIn(4)>>, <<AdmSig(2, 2, "canonical", TRUE)>>, <<AdmOut(4, 2)>>, 1, 1)}
    \cup {tx \in DaTxs : tx.inputs = <<AdmIn(1)>> /\ tx.weight = 2 /\ tx.da_bytes = 1}

Cfg(f, d, s, a, g, st) == [floor |-> f, min_da |-> d, surcharge |-> s, anchors |-> a, gate |-> g, store |-> st]
AdmConfigs == {Cfg(0, 1, 0, TRUE, TRUE, "ok"), Cfg(2, 1, 1, FALSE, FALSE, "ok"), Cfg(2, 0, 0, TRUE, TRUE, "none"),
              Cfg(1, 1, 3, TRUE, TRUE, "failing"), Cfg(1, 1, 3, TRUE, FALSE, "ok")}

-----------------------------------------------------------------------------
(* Templates: up to three candidates and data sets, sound or unsound in one way. *)

\* Confirmed outputs 1 to 20, worth ten each; 101 and up are made on the way.
Worth == [o \in 1 .. 20 |-> 10]

MinerPlain(nonce, in, weight) ==
    [kind |-> "plain", nonce |-> nonce, ins |-> {in}, made |-> {100 + nonce}, out |-> 5,
     weight |-> weight, payload |-> <<>>, anchor |-> FALSE, valid |-> TRUE, canonical |-> TRUE]

MinerCommit(d, nonce, in, count, of) ==
    [MinerPlain(nonce, in, 2) EXCEPT !.kind = "commit"]
       @@ [id |-> d, count |-> count, outs |-> <<[length |-> 32, of |-> of]>>]

MinerChunk(d, nonce, in, index, payload) ==
    [MinerPlain(nonce, in, 2) EXCEPT !.kind = "chunk", !.payload = payload]
       @@ [id |-> d, index |-> index, hash |-> payload]

Set(d, commit, txs) ==
    [da_id |-> d, commit |-> commit,
     chunks |-> [i \in DOMAIN txs |-> [index |-> i - 1, tx |-> txs[i]]]]

OneChunk(d, nonce, in, chunk) == Set(d, MinerCommit(d, nonce, in, 1, <<d>>), <<chunk>>)

Pool == {MinerPlain(1, 1, 2), MinerPlain(3, 3, 5), MinerPlain(5, 5, 3), MinerChunk(9, 4, 4, 0, <<9>>)}

Flats ==
    Pool \cup
    {MinerPlain(2, 1, 2),                                    \* spends what 1 spends
     MinerPlain(1, 2, 2),                                    \* has the nonce of 1
     [MinerPlain(6, 6, 2) EXCEPT !.anchor = TRUE],
     MinerPlain(0, 4, 2),
     MinerPlain(1, 7, 11),                                   \* too heavy
     MinerPlain(7, 107, 2),                                  \* spends what is not there
     [MinerPlain(8, 8, 2) EXCEPT !.canonical = FALSE]}

DataSets ==
    {OneChunk(1, 11, 11, MinerChunk(1, 12, 12, 0, <<1>>)),
     OneChunk(1, 13, 13, MinerChunk(1, 14, 14, 0, <<1>>)),   \* the same id again
     OneChunk(2, 15, 15, MinerChunk(2, 16, 1, 0, <<2>>)),    \* spends what 1 spends
     OneChunk(3, 17, 17, MinerChunk(3, 18, 18, 1, <<3>>)),   \* a chunk of another place
     OneChunk(4, 19, 19, MinerChunk(4, 20, 19, 0, <<4>>)),   \* spends an output twice
     OneChunk(5, 21, 16, MinerChunk(5, 22, 111, 0, <<5>>)),  \* spends another set's output
     OneChunk(6, 23, 20, MinerChunk(6, 24, 123, 0, <<6>>)),  \* spends its own commit's
     OneChunk(7, 25, 9, [MinerChunk(7, 26, 10, 0, <<7>>) EXCEPT !.canonical = FALSE]),
     Set(8, MinerCommit(8, 27, 7, 1, <<1>>), <<MinerChunk(8, 28, 8, 0, <<8>>)>>),
     Set(9, MinerCommit(9, 29, 7, 2, <<1, 2, 3>>),
         <<MinerChunk(9, 30, 8, 0, <<1, 2>>), MinerChunk(9, 31, 9, 1, <<3>>)>>)}

MinerLists(S, n) == UNION {[1 .. k -> S] : k \in 0 .. n}

Input(l, p, s) == [list |-> l, pool |-> p, sets |-> s]

AnyInputs ==
    {Input(l, {}, s) : l \in MinerLists(Flats, 2), s \in MinerLists(DataSets, 1)}
      \cup {Input(l, {}, s) : l \in MinerLists(Flats, 1), s \in MinerLists(DataSets, 2)}
      \cup {Input(<<>>, p, s) : p \in SUBSET Pool, s \in MinerLists(DataSets, 1)}
      \cup {Input(<<>>, {}, s) : s \in MinerLists(DataSets, 3)}

Default == [max_tx_per_block |-> 0, anti_abuse |-> TRUE, reject_anchor_outputs |-> TRUE,
            max_da_bytes_per_block |-> 2, min_fee_rate |-> 1, min_da_fee_rate |-> 2,
            da_surcharge_per_byte |-> 0]

AllConfigs ==
    {Default,
     [Default EXCEPT !.anti_abuse = FALSE],
     [Default EXCEPT !.max_tx_per_block = 3],
     [Default EXCEPT !.max_da_bytes_per_block = 0, !.min_fee_rate = 0, !.min_da_fee_rate = 0],
     [Default EXCEPT !.da_surcharge_per_byte = 4]}

-----------------------------------------------------------------------------
(* Signature checks: a block's queue, and transaction workers. *)


SigVerdict == [s \in {good, wide, spoiled, faulty, panics} |-> CASE s \in {good, wide} -> "valid" [] s = spoiled -> "invalid" [] s = faulty -> "error" [] s = panics -> "panic"]
SigBytes == [s \in {good, wide, spoiled, faulty, panics} |-> IF s = wide THEN 2 ELSE 1]
NoBatches == {}

SigTx(i, s) == [index |-> i, sigs |-> s]
\* Transactions of one and two signatures, submitted in and out of order.
Batches ==
  {<<SigTx(1, <<good, wide>>), SigTx(2, <<wide, good>>), SigTx(3, <<good>>)>>, <<SigTx(1, <<good>>), SigTx(2, <<good, spoiled>>), SigTx(3, <<faulty>>)>>,
   <<SigTx(3, <<good, spoiled>>), SigTx(1, <<wide, faulty>>)>>, <<SigTx(2, <<panics>>), SigTx(3, <<wide, spoiled>>), SigTx(1, <<good>>)>>,
   <<SigTx(2, <<faulty>>), SigTx(1, <<panics, spoiled>>)>>, <<SigTx(1, <<spoiled>>)>>, <<SigTx(1, <<wide>>)>>}

-----------------------------------------------------------------------------
(* Blocks of up to four transactions around two data sets. *)

DaCommit(d, n, o) == [kind |-> "commit", id |-> d, count |-> n, outs |-> o, payload |-> <<>>]
DaManifest(d, n, o) == [DaCommit(d, n, o) EXCEPT !.payload = <<9>>]
DaChunk(d, i, p) == [kind |-> "chunk", id |-> d, index |-> i, payload |-> p, hash |-> p]
To(p) == [length |-> 32, of |-> p]

OneSet ==
  {DaCommit(1, n, o) : n \in {0, 1, 2}, o \in {<<To(<<1>>)>>, <<To(<<1, 1, 2>>)>>}}
    \cup {DaManifest(1, 2, <<To(<<1, 1, 2>>)>>), DaCommit(1, 3, <<To(<<1, 2, 1>>)>>)}
    \cup {DaCommit(1, 1, o) : o \in {<<>>, <<To(<<1>>), To(<<1>>)>>, <<[length |-> 31, of |-> <<1>>]>>}}
    \cup {DaChunk(1, i, p) : i \in {0, 1, 2}, p \in {<<1>>, <<1, 2>>}}
    \cup {[DaChunk(1, 0, <<1>>) EXCEPT !.hash = <<2>>], DaChunk(1, 1, <<2>>),
          DaCommit(2, 1, <<To(<<1>>)>>), DaChunk(2, 0, <<1>>)}

\* Three sets of one chunk each, in any order.
ThreeSets == {DaCommit(d, 1, <<To(<<d>>)>>) : d \in 1..3} \cup {DaChunk(d, 0, <<d>>) : d \in 1..3}

-----------------------------------------------------------------------------
(* Headers: windows of three, a median of three or four times. *)

\* Hashes in no order related to arrival.
Hashes == <<5, 9, 2, 7, 1, 8, 4, 6, 3, 10>>

\* Just outside and just inside both ends of the allowed times.
EdgeOffsets == {0, 1, 9, 10}
MoreOffsets == {-3, 0, 1, 2, 9, 10}
Readings == 0..20

-----------------------------------------------------------------------------
(* Suites: descriptors over three suites, genesis files with one fault each. *)

Item(s) == [suite_id |-> s, pubkey_len |-> 5, sig_len |-> 7, verify_cost |-> 8, alg_name |-> "ML-DSA-87"]
SuiteLists ==
  {<<>>, <<Item(2)>>, <<Item(1), Item(2)>>, <<Item(2), Item(3)>>, <<Item(2), Item(2)>>,
   <<Item(1), Item(2), Item(3)>>, <<Item(0)>>, <<Item(240)>>, <<Item(2), Item(254)>>}
    \cup {<<[Item(2) EXCEPT !.pubkey_len = k]>> : k \in {0, 6, 10}}
    \cup {<<[Item(1) EXCEPT !.sig_len = k]>> : k \in {0, 6, 10}}
    \cup {<<[Item(2) EXCEPT !.verify_cost = k]>> : k \in {0, 9}}
    \cup {<<[Item(2) EXCEPT !.alg_name = a]>> : a \in {"ml-dsa-87", "other"}}
Descriptors ==
  [old : 0..2, new : 1..3, create_height : 0..2, spend_height : 0..3, sunset_height : {0} \cup 2..5]
File(d, items) == [desc |-> d, registry |-> items, removed_keys |-> FALSE, chain_id |-> "devnet"]
Broken == {[File(<<>>, <<>>) EXCEPT !.removed_keys = TRUE]}
            \cup {[File(<<>>, <<>>) EXCEPT !.chain_id = c] : c \in {"missing", "malformed", "other"}}
RotationPacks ==
  Broken
    \cup {File(<<>>, items) : items \in SuiteLists}
    \cup {File(<<d>>, items) : d \in Descriptors, items \in {<<>>, <<Item(2)>>, <<Item(2), Item(3)>>}}
Early == [old |-> 1, new |-> 2, create_height |-> 0, spend_height |-> 1, sunset_height |-> 2]
AgreementPacks ==
  {File(d, items) : d \in {<<>>, <<Early>>}, items \in {<<>>, <<Item(2)>>, <<Item(2), Item(3)>>}}
SuiteSlots == {<<>>, <<Early>>, <<[Early EXCEPT !.sunset_height = 0]>>, <<[Early EXCEPT !.new = 0]>>}
Schedule(m, t) == [version |-> 1, keys |-> {"mainnet", "testnet"}, mainnet |-> m, testnet |-> t]
EmptySchedule == {Schedule(<<>>, <<>>)}
SomeSchedules ==
  {Schedule(m, t) : m \in SuiteSlots, t \in SuiteSlots}
    \cup {[Schedule(<<>>, <<>>) EXCEPT !.version = 2]}
    \cup {[Schedule(<<>>, <<>>) EXCEPT !.keys = k] : k \in {{"mainnet"}, {"testnet"}, {"mainnet", "testnet", "devnet"}}}
Devnet == {<<"devnet", "plain">>}
AllNetworks == {<<n, w>> : n \in {"", "devnet", "testnet", "mainnet", "regtest"}, w \in {"plain", "mixed case"}}

Binding == [alg_name |-> "ML-DSA-87", pubkey_len |-> 5, sig_len |-> 7, openssl_alg |-> "ML-DSA-87",
            runtime_binding |-> "openssl_digest32_v1", live_binding_name |-> "verify_sig_openssl_digest32_v1"]
SuiteManifest(entries) == [version |-> 1, unique_keys |-> TRUE, entries |-> entries]
Shipped == {SuiteManifest(<<Binding>>)}
SomeManifests ==
  {SuiteManifest(es) : es \in {<<>>, <<Binding>>, <<Binding, Binding>>,
                          <<Binding, [Binding EXCEPT !.sig_len = 6, !.live_binding_name = "other"]>>}}
    \cup {[SuiteManifest(<<Binding>>) EXCEPT !.version = 2], [SuiteManifest(<<Binding>>) EXCEPT !.unique_keys = FALSE]}
    \cup {SuiteManifest(<<[Binding EXCEPT !.pubkey_len = k]>>) : k \in {0, 6}}
    \cup {SuiteManifest(<<[Binding EXCEPT !.sig_len = k]>>) : k \in {0, 6}}
    \cup {SuiteManifest(<<[Binding EXCEPT !.alg_name = a]>>) : a \in {"", "other"}}
    \cup {SuiteManifest(<<[Binding EXCEPT !.openssl_alg = a]>>) : a \in {"", "other"}}
    \cup {SuiteManifest(<<[Binding EXCEPT !.runtime_binding = a]>>) : a \in {"", "other"}}
    \cup {SuiteManifest(<<[Binding EXCEPT !.live_binding_name = a]>>) : a \in {"", "other"}}
BindingPacks == {File(<<>>, items) : items \in SuiteLists}

-----------------------------------------------------------------------------
(* Undo records: one with a supply beyond u64, one too large to save. *)

U(h, s, t, b) == [height |-> h, supply |-> s, txs |-> t, bytes |-> b]
UndoUndos == {U(1, 2, <<1>>, 6), U(1, 5, <<1>>, 3), U(1, 2, <<1, 2>>, 7)}

-----------------------------------------------------------------------------
(* Snapshots: two outputs of one transaction, one beyond u64, one empty. *)

StateCoin(t, v, n) == [txid |-> t, vout |-> v, value |-> n]
S(h, n, utxos) == [has_tip |-> TRUE, height |-> h, tip_hash |-> h, supply |-> n, utxos |-> utxos]
StateStates == {[has_tip |-> FALSE, height |-> 0, tip_hash |-> 0, supply |-> 0, utxos |-> {}], S(1, 5, {StateCoin(1, 0, 3), StateCoin(1, 1, 4), StateCoin(2, 0, 1)})}


VARIABLES
  part,             \* the part at work; all others stand still
  state, chain, undos,
  utxos, issued, height, open, claimed, work, count, nonces, fees, err, perr, queue,
  last,
  cfg, adm_utxos, adm_height, pool, cand,
  flat, sets, given, miner_cfg, template, outcome,
  sig_queue, marks, failed, mode, jobs, next, slot, thread, cancelled, cache, out,
  txs, sequential, parallel,
  headers, canonical,
  bytes, phase, left, tx, core_end, witness_bytes, item,
  admitted, file, used,
  network, pack, schedule, manifest, ctx, suite_phase, suite_height, coins,
  files, written, faults, undo_last,
  snapshot_file, index, saved, snapshot_state, snapshot_faults

-----------------------------------------------------------------------------
(* The parts. *)

Ledger == INSTANCE ChainState WITH
  Genesis <- LedgerGenesis, Coinbases <- LedgerCoinbases, Txs <- LedgerTxs,
  MaxBody <- 3, MaxHeight <- 5, COINBASE_MATURITY <- 2, MINEABLE_CAP <- 8,
  EMISSION_SPEED_FACTOR <- 1, TAIL_EMISSION_PER_BLOCK <- 1

Vaults == INSTANCE BlockApply WITH
  Cov <- VaultCov, NativeCreate <- OneSuite, NativeSpend <- OneSuite,
  Registered <- {1, 2}, SimplicityFrom <- 1, MAX_KEYS <- 2, MAX_WHITELIST <- 2,
  MAX_GROUP <- 1, Genesis <- VaultGenesis, CoinbaseOutputs <- VaultCoinbase,
  Nonces <- {1}, Outputs <- VaultOutputs, Inputs <- VaultInputLists,
  Witnesses <- VaultWitnesses, Subsidy <- 1, COINBASE_MATURITY <- 2,
  Mtp <- LockTime, MaxHeight <- 2, MaxTxs <- 1

Locks == INSTANCE BlockApply WITH
  Cov <- LockCov, NativeCreate <- TwoSuites, NativeSpend <- TwoSuites,
  Registered <- {1, 2}, SimplicityFrom <- 1, MAX_KEYS <- 2, MAX_WHITELIST <- 2,
  MAX_GROUP <- 1, Genesis <- LockGenesis, CoinbaseOutputs <- LockCoinbase,
  Nonces <- {1}, Outputs <- LockOutputs, Inputs <- LockInputLists,
  Witnesses <- LockWitnesses, Subsidy <- 1, COINBASE_MATURITY <- 1, Mtp <- LockTime,
  MaxHeight <- 2, MaxTxs <- 1

Paths == INSTANCE BlockApply WITH
  Cov <- PlainCov, NativeCreate <- OneSuite, NativeSpend <- OneSuite,
  Registered <- {1, 2}, SimplicityFrom <- 1, MAX_KEYS <- 2, MAX_WHITELIST <- 2,
  MAX_GROUP <- 1, Genesis <- PlainGenesis, CoinbaseOutputs <- PlainCoinbase,
  Nonces <- {0, 1, 2}, Outputs <- PlainOutputs, Inputs <- PlainInputLists,
  Witnesses <- PlainWitnesses, Subsidy <- 1, COINBASE_MATURITY <- 1,
  Mtp <- LockTime, MaxHeight <- 1, MaxTxs <- 2

Admission == INSTANCE TxAdmission WITH
  Cov <- AdmCov, NativeCreate <- AdmSuites, NativeSpend <- AdmSuites,
  Registered <- {1, 2}, SimplicityFrom <- 3, MAX_KEYS <- 2, MAX_WHITELIST <- 2,
  MAX_GROUP <- 1, Genesis <- AdmGenesis, Txs <- PlainTxs, Configs <- AdmConfigs,
  Times <- AdmTimes, MTP_WINDOW <- 3, COINBASE_MATURITY <- 2, U64_MAX <- 7,
  LAST_HEIGHT <- 4, MaxPool <- 0, utxos <- adm_utxos, height <- adm_height

DataFees == INSTANCE TxAdmission WITH
  Cov <- AdmCov, NativeCreate <- AdmSuites, NativeSpend <- AdmSuites,
  Registered <- {1, 2}, SimplicityFrom <- 3, MAX_KEYS <- 2, MAX_WHITELIST <- 2,
  MAX_GROUP <- 1, Genesis <- AdmGenesis, Txs <- DaTxs, Configs <- AdmConfigs,
  Times <- AdmTimes, MTP_WINDOW <- 3, COINBASE_MATURITY <- 2, U64_MAX <- 7,
  LAST_HEIGHT <- 4, MaxPool <- 0, utxos <- adm_utxos, height <- adm_height

Rivals == INSTANCE TxAdmission WITH
  Cov <- AdmCov, NativeCreate <- AdmSuites, NativeSpend <- AdmSuites,
  Registered <- {1, 2}, SimplicityFrom <- 3, MAX_KEYS <- 2, MAX_WHITELIST <- 2,
  MAX_GROUP <- 1, Genesis <- AdmGenesis, Txs <- RivalTxs, Configs <- AdmConfigs,
  Times <- AdmTimes, MTP_WINDOW <- 3, COINBASE_MATURITY <- 2, U64_MAX <- 7,
  LAST_HEIGHT <- 4, MaxPool <- 2, utxos <- adm_utxos, height <- adm_height

Mining == INSTANCE Miner WITH
  Inputs <- AnyInputs, Configs <- AllConfigs, Value <- Worth, COINBASE_WEIGHT <- 2,
  MAX_BLOCK_WEIGHT <- 12, MAX_DA_BATCHES_PER_BLOCK <- 2, MAX_DA_CHUNK_COUNT <- 2,
  MAX_DA_BYTES_PER_BLOCK <- 3, cfg <- miner_cfg

Signatures == INSTANCE SigWorkers WITH
  Sig <- {good, wide, spoiled, faulty, panics}, Verdict <- SigVerdict,
  Bytes <- SigBytes, Registry <- {"current", "rotated"}, TxBatches <- NoBatches,
  MAX_TASKS <- 3, MAX_BYTES <- 4, MaxWorkers <- 2, Capacity <- 1, MaxMarks <- 2,
  queue <- sig_queue

Workers == INSTANCE SigWorkers WITH
  Sig <- {good, wide, spoiled, faulty, panics}, Verdict <- SigVerdict,
  Bytes <- SigBytes, Registry <- {"current", "rotated"}, TxBatches <- Batches,
  MAX_TASKS <- 0, MAX_BYTES <- 4, MaxWorkers <- 3, Capacity <- 1, MaxMarks <- 0,
  queue <- sig_queue

DaSets == INSTANCE DaBlock WITH
  Candidates <- OneSet, MaxTxs <- 4, MAX_DA_BATCHES_PER_BLOCK <- 1,
  MAX_DA_CHUNK_COUNT <- 2, MAX_DA_BYTES_PER_BLOCK <- 4

DaBatch == INSTANCE DaBlock WITH
  Candidates <- ThreeSets, MaxTxs <- 6, MAX_DA_BATCHES_PER_BLOCK <- 2,
  MAX_DA_CHUNK_COUNT <- 2, MAX_DA_BYTES_PER_BLOCK <- 6

Forks == INSTANCE HeaderSchedule WITH
  WINDOW_SIZE <- 3, TARGET_BLOCK_INTERVAL <- 2, MAX_TIMESTAMP_STEP_PER_BLOCK <- 5,
  MAX_FUTURE_DRIFT <- 9, MTP_WINDOW <- 3, POW_LIMIT <- 15, GenesisTarget <- 6,
  HashRank <- Hashes, Offsets <- EdgeOffsets, Clocks <- Readings, MaxHeaders <- 7,
  MaxForks <- 3

Headers == INSTANCE HeaderSchedule WITH
  WINDOW_SIZE <- 3, TARGET_BLOCK_INTERVAL <- 2, MAX_TIMESTAMP_STEP_PER_BLOCK <- 5,
  MAX_FUTURE_DRIFT <- 9, MTP_WINDOW <- 4, POW_LIMIT <- 15, GenesisTarget <- 3,
  HashRank <- Hashes, Offsets <- MoreOffsets, Clocks <- Readings, MaxHeaders <- 9,
  MaxForks <- 0

Wire == INSTANCE TxWire WITH
  FD <- 3, U16 <- 5, U32 <- 6, U64 <- 7, TxKinds <- {0, 1, 2, 3},
  MAX_TX_INPUTS <- 1, MAX_TX_OUTPUTS <- 1, MAX_WITNESS_ITEMS <- 1,
  MAX_SCRIPT_SIG_BYTES <- 3, MAX_COVENANT_DATA_PER_OUTPUT <- 7,
  MAX_DA_MANIFEST_BYTES_PER_TX <- 3, MAX_DA_CHUNK_COUNT <- 2, CHUNK_BYTES <- 4,
  MAX_WITNESS_BYTES_PER_TX <- 20, MAX_SIMPLICITY_ENVELOPE_BYTES <- 4,
  MAX_SIMPLICITY_PROGRAM_BYTES <- 1, MIN_HTLC_PREIMAGE_BYTES <- 1,
  MAX_HTLC_PREIMAGE_BYTES <- 2, KEY_ID_BYTES <- 1, PubkeyBytes <- 2, SigBytes <- 2,
  MaxString <- 3

Witness == INSTANCE TxWire WITH
  FD <- 3, U16 <- 5, U32 <- 6, U64 <- 7, TxKinds <- {0, 3}, MAX_TX_INPUTS <- 0,
  MAX_TX_OUTPUTS <- 0, MAX_WITNESS_ITEMS <- 2, MAX_SCRIPT_SIG_BYTES <- 6,
  MAX_COVENANT_DATA_PER_OUTPUT <- 7, MAX_DA_MANIFEST_BYTES_PER_TX <- 3,
  MAX_DA_CHUNK_COUNT <- 2, CHUNK_BYTES <- 4, MAX_WITNESS_BYTES_PER_TX <- 14,
  MAX_SIMPLICITY_ENVELOPE_BYTES <- 4, MAX_SIMPLICITY_PROGRAM_BYTES <- 1,
  MIN_HTLC_PREIMAGE_BYTES <- 1, MAX_HTLC_PREIMAGE_BYTES <- 2, KEY_ID_BYTES <- 1,
  PubkeyBytes <- 2, SigBytes <- 2, MaxString <- 5

Body == INSTANCE BlockBody WITH
  TxNonces <- {1, 2}, Witnesses <- {0, 1}, MaxOthers <- 3, Heights <- {1, 2}

Rotation == INSTANCE SuiteRotation WITH
  Nodes <- {n1}, Networks <- Devnet, Packs <- RotationPacks,
  Schedules <- EmptySchedule, Manifests <- Shipped, MaxHeight <- 6, MaxItems <- 2,
  phase <- suite_phase, height <- suite_height

Agreement == INSTANCE SuiteRotation WITH
  Nodes <- {n1, n2}, Networks <- AllNetworks, Packs <- AgreementPacks,
  Schedules <- SomeSchedules, Manifests <- Shipped, MaxHeight <- 1, MaxItems <- 2,
  phase <- suite_phase, height <- suite_height

Bindings == INSTANCE SuiteRotation WITH
  Nodes <- {n1}, Networks <- Devnet, Packs <- BindingPacks,
  Schedules <- EmptySchedule, Manifests <- SomeManifests, MaxHeight <- 1,
  MaxItems <- 2, phase <- suite_phase, height <- suite_height

Undo == INSTANCE UndoRecords WITH
  Keys <- {h1, h2}, Undos <- UndoUndos, U64Max <- 4, FrameBytes <- 5, FileMax <- 15,
  MaxFaults <- 1, last <- undo_last

Snapshot == INSTANCE StateFile WITH
  States <- StateStates, U64Max <- 4, MaxFaults <- 2, file <- snapshot_file,
  state <- snapshot_state, faults <- snapshot_faults

-----------------------------------------------------------------------------
(* One part works; the variables of the others are not in use. *)

LedgerVars == <<state, chain, undos>>
ApplyVars == <<utxos, issued, height, open, claimed, work, count, nonces, fees, err,
    perr, queue, last>>
AdmissionVars == <<cfg, adm_utxos, adm_height, pool, cand>>
MinerVars == <<flat, sets, given, miner_cfg, template, outcome>>
SigVars == <<sig_queue, marks, failed, mode, jobs, next, slot, thread, cancelled,
    cache, out>>
DaVars == <<txs, sequential, parallel>>
HeaderVars == <<headers, canonical>>
WireVars == <<bytes, phase, left, tx, core_end, witness_bytes, item>>
BodyVars == <<admitted, file, used>>
SuiteVars == <<network, pack, schedule, manifest, ctx, suite_phase, suite_height,
    coins>>
UndoVars == <<files, written, faults, undo_last>>
StateVars == <<snapshot_file, index, saved, snapshot_state, snapshot_faults>>

NoLedger ==
  /\ state = 0 /\ chain = 0 /\ undos = 0
NoApply ==
  /\ utxos = 0 /\ issued = 0 /\ height = 0 /\ open = 0 /\ claimed = 0 /\ work = 0
  /\ count = 0 /\ nonces = 0 /\ fees = 0 /\ err = 0 /\ perr = 0 /\ queue = 0
  /\ last = 0
NoAdmission ==
  /\ cfg = 0 /\ adm_utxos = 0 /\ adm_height = 0 /\ pool = 0 /\ cand = 0
NoMiner ==
  /\ flat = 0 /\ sets = 0 /\ given = 0 /\ miner_cfg = 0 /\ template = 0 /\ outcome = 0
NoSig ==
  /\ sig_queue = 0 /\ marks = 0 /\ failed = 0 /\ mode = 0 /\ jobs = 0 /\ next = 0
  /\ slot = 0 /\ thread = 0 /\ cancelled = 0 /\ cache = 0 /\ out = 0
NoDa ==
  /\ txs = 0 /\ sequential = 0 /\ parallel = 0
NoHeader ==
  /\ headers = 0 /\ canonical = 0
NoWire ==
  /\ bytes = 0 /\ phase = 0 /\ left = 0 /\ tx = 0 /\ core_end = 0 /\ witness_bytes = 0
  /\ item = 0
NoBody ==
  /\ admitted = 0 /\ file = 0 /\ used = 0
NoSuite ==
  /\ network = 0 /\ pack = 0 /\ schedule = 0 /\ manifest = 0 /\ ctx = 0
  /\ suite_phase = 0 /\ suite_height = 0 /\ coins = 0
NoUndo ==
  /\ files = 0 /\ written = 0 /\ faults = 0 /\ undo_last = 0
NoState ==
  /\ snapshot_file = 0 /\ index = 0 /\ saved = 0 /\ snapshot_state = 0
  /\ snapshot_faults = 0

AllVars == <<part, LedgerVars, ApplyVars, AdmissionVars, MinerVars, SigVars, DaVars,
  HeaderVars, WireVars, BodyVars, SuiteVars, UndoVars, StateVars>>

PartsInit ==
  /\ part \in Parts
  /\ IF part = "ledger" THEN Ledger!Init ELSE NoLedger
  /\ CASE part = "vaults" -> Vaults!Init
       [] part = "locks" -> Locks!Init
       [] part = "paths" -> Paths!Init
       [] OTHER -> NoApply
  /\ CASE part = "admission" -> Admission!Init
       [] part = "data fees" -> DataFees!Init
       [] part = "rivals" -> Rivals!Init
       [] OTHER -> NoAdmission
  /\ IF part = "miner" THEN Mining!Init ELSE NoMiner
  /\ CASE part = "signatures" -> Signatures!Init
       [] part = "workers" -> Workers!Init
       [] OTHER -> NoSig
  /\ CASE part = "data sets" -> DaSets!Init
       [] part = "batches" -> DaBatch!Init
       [] OTHER -> NoDa
  /\ CASE part = "forks" -> Forks!Init
       [] part = "headers" -> Headers!Init
       [] OTHER -> NoHeader
  /\ CASE part = "wire" -> Wire!Init
       [] part = "witness" -> Witness!Init
       [] OTHER -> NoWire
  /\ IF part = "body" THEN Body!Init ELSE NoBody
  /\ CASE part = "rotation" -> Rotation!Init
       [] part = "agreement" -> Agreement!Init
       [] part = "bindings" -> Bindings!Init
       [] OTHER -> NoSuite
  /\ IF part = "undo" THEN Undo!Init ELSE NoUndo
  /\ IF part = "snapshot" THEN Snapshot!Init ELSE NoState

PartsNext ==
  /\ UNCHANGED part
  /\ IF part = "ledger" THEN Ledger!Next ELSE UNCHANGED LedgerVars
  /\ CASE part = "vaults" -> Vaults!Next
       [] part = "locks" -> Locks!Next
       [] part = "paths" -> Paths!Next
       [] OTHER -> UNCHANGED ApplyVars
  /\ CASE part = "admission" -> Admission!Next
       [] part = "data fees" -> DataFees!Next
       [] part = "rivals" -> Rivals!Next
       [] OTHER -> UNCHANGED AdmissionVars
  /\ IF part = "miner" THEN Mining!Next ELSE UNCHANGED MinerVars
  /\ CASE part = "signatures" -> Signatures!Next
       [] part = "workers" -> Workers!Next
       [] OTHER -> UNCHANGED SigVars
  /\ CASE part = "data sets" -> DaSets!Next
       [] part = "batches" -> DaBatch!Next
       [] OTHER -> UNCHANGED DaVars
  /\ CASE part = "forks" -> Forks!Next
       [] part = "headers" -> Headers!Next
       [] OTHER -> UNCHANGED HeaderVars
  /\ CASE part = "wire" -> Wire!Next
       [] part = "witness" -> Witness!Next
       [] OTHER -> UNCHANGED WireVars
  /\ IF part = "body" THEN Body!Next ELSE UNCHANGED BodyVars
  /\ CASE part = "rotation" -> Rotation!Next
       [] part = "agreement" -> Agreement!Next
       [] part = "bindings" -> Bindings!Next
       [] OTHER -> UNCHANGED SuiteVars
  /\ IF part = "undo" THEN Undo!Next ELSE UNCHANGED UndoVars
  /\ IF part = "snapshot" THEN Snapshot!Next ELSE UNCHANGED StateVars

PartsSpec == PartsInit /\ [][PartsNext]_AllVars

-----------------------------------------------------------------------------
(* Properties. *)

\* Undo records do not depend on which block is which.
BlockSymmetry == Permutations({h1, h2})

\* The unspent outputs, the tip and the emission are those of the chain,
\* however many blocks were connected and disconnected to reach it; every
\* block of it can be undone; every input spends one earlier output, once, and
\* a coinbase no sooner than it matures (chainstate.rs, undo.rs).
LedgerIsTheChain ==
  part = "ledger" =>
    /\ Ledger!UtxosAreChainBalance
    /\ Ledger!TipMatchesChain
    /\ Ledger!TipIsReversible
    /\ Ledger!UndoAlwaysBuilds
    /\ Ledger!SupplyIsBounded
    /\ Ledger!SpendsAreBackedOnce
    /\ Ledger!CoinbaseSpendsAreMature
    /\ Ledger!TxidsAreUnique

\* Applying a block makes and loses no value, every coin it leaves can be
\* spent by the rules that will be applied to it, a vault's value goes to its
\* whitelist alone, and whatever is spent was signed for by those the covenant
\* names (utxo_basic.rs, vault.rs, htlc.rs, spend_verify.rs).
CoinsKeepTheirCovenants ==
  /\ [](part = "vaults" => /\ Vaults!SupplyIsExact
                           /\ Vaults!WhitelistsAreUsable
                           /\ Vaults!VaultOwnersCanSign)
  /\ [](part = "locks" => Locks!CoinsAreWellFormed)
  /\ [][/\ part = "vaults" => Vaults!VaultsAreFenced
        /\ part = "locks" => Locks!SpentWithConsent]_AllVars

\* What the pool admits would connect in the next block and pays exactly the
\* fee it was admitted for; a refusal as too cheap is never given to a
\* transaction that could not be admitted at any fee, and the relay's cheap
\* verdict agrees with the pool's (txpool.rs).
AdmissionIsExact ==
  /\ part = "admission" => /\ Admission!TransientIsNotTerminal
                           /\ Admission!PolicyNeverMasks
                           /\ Admission!AdmittedIsConnectable
  /\ part = "data fees" => /\ DataFees!PaysExactly
                           /\ DataFees!TransientIsNotTerminal
  /\ part = "rivals" => Rivals!RelayAgreesWithAdmission


\* Deferred signatures, precomputed contexts, worker threads and the pool's
\* helpers for data sets accept what the sequential path accepts, and report
\* the failure it would report (connect_block_parallel.rs, sig_queue.rs,
\* tx_validate_worker.rs, da_verify_parallel.rs).
ValidationPathsAgree ==
  /\ part = "paths" => Paths!PathsAgree /\ Paths!PrecomputeIsSound
  /\ part = "signatures" => /\ Signatures!TypeOK
                           /\ Signatures!FirstErrorWins
                           /\ Signatures!QueueIsExact
  /\ part = "workers" => /\ Workers!TxErrorIsSmallest
                         /\ Workers!NothingSlipsThrough
                         /\ Workers!CacheIsSound
  /\ part = "data sets" => DaSets!AcceptsWholeSets /\ DaSets!PoolAgrees
  /\ part = "batches" => DaBatch!AcceptsWholeSets /\ DaBatch!PoolAgrees

\* A parsed transaction is the only spelling of itself and its weight counts
\* the bytes it came in; a block read back from disk is the admitted one, and
\* no header has two bodies (tx.rs, weight.rs, block_basic.rs, merkle.rs).
WireAndBodyAreExact ==
  /\ [](part = "wire" => /\ Wire!TypeOK
                         /\ Wire!ParsedIsCanonical
                         /\ Wire!SizesAreTheWire)
  /\ [](part = "witness" => /\ Witness!PathItemsAgree
                            /\ Witness!WitnessCountIsExact
                            /\ Witness!DefaultWeightIsLegacy)
  /\ [](part = "body" => Body!LoadedIsAdmitted /\ Body!AdmittedLoads)
  /\ [][part = "body" => Body!OneBodyPerHeader]_AllVars

\* On every fork each header has one target and a window of its own ancestors,
\* median time never goes back, the heaviest tip is canonical and a replay
\* agrees; under a rotation no boot panics, what is created can be spent until
\* a sunset announced in time, and production nodes agree
\* (pow.rs, block_basic.rs, sync.rs, suite_registry.rs, genesis.rs).
SchedulesAreSound ==
  /\ part = "forks" => Forks!SlidWindowIsAncestry /\ Forks!TipIsHeaviest
  /\ part = "headers" => /\ Headers!TypeOK
                        /\ Headers!ScheduleIsDefined
                         /\ Headers!MedianNeverGoesBack
                         /\ Headers!MinedIsAccepted
                         /\ Headers!ReplayAgrees
  /\ part = "rotation" => Rotation!BootNeverPanics /\ Rotation!CreatedIsSpendable
  /\ part = "agreement" => Agreement!ProductionNodesAgree
  /\ part = "bindings" => Bindings!EverySuiteVerifies

\* An undo record or a snapshot that loads is one that was written, whatever a
\* fault did to the file; what was saved loads again, an undo record is never
\* replaced, and equal states give equal files (undo.rs, blockstore.rs,
\* chainstate.rs).
RecordsAreTrue ==
  /\ [](part = "undo" => /\ Undo!OpensAsWritten
                         /\ Undo!SchemaFaultsAreIntact
                         /\ Undo!PutIsReadBack
                         /\ Undo!FittingIsSaved)
  /\ [](part = "snapshot" => /\ Snapshot!SavedIsLoaded
                             /\ Snapshot!OnlyWrittenLoads
                             /\ Snapshot!SchemaFaultsAreIntact
                             /\ Snapshot!OrderFree)
  /\ [][/\ part = "undo" => Undo!NeverReplaced
        /\ part = "snapshot" => Snapshot!SameStateSameFile]_AllVars
=============================================================================
