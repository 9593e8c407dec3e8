------------------------------ MODULE BlockBody ------------------------------
(***************************************************************************)
(* What a block header says about its body.  A block is admitted by        *)
(* validate_block_basic (side branch) or by the connect path, is kept as a *)
(* file, and is read back for a disconnect or a branch walk: then only the *)
(* commitments of the header and of the coinbase are checked, and they     *)
(* must pin down every byte.                                               *)
(*                                                                         *)
(* Hashes are terms: two hashes are equal when they were made the same way *)
(* from the same things.  A file may rot in any way between its write and  *)
(* its read.  The rules about time, size, DA sets and covenants have their *)
(* own modules and are taken as met here.                                  *)
(***************************************************************************)
EXTENDS Checks, FiniteSets

CONSTANTS
  TxNonces,     \* nonces of plain transactions
  Witnesses,    \* what a witness may be; 0 is the empty one
  MaxOthers,    \* most transactions beside the coinbase
  Heights       \* lock times a coinbase may carry

VARIABLES
  admitted,   \* the block admitted last
  file,       \* what is on disk under its hash
  used        \* what the last load returned

vars == <<admitted, file, used>>

(***************************************************************************)
(* Transactions and their identifiers.  Outputs matter as far as they may  *)
(* be witness commitments.                                                 *)
(***************************************************************************)
Tx(shape, nonce, locktime, outputs, wit) ==
  [shape |-> shape, nonce |-> nonce, locktime |-> locktime, outputs |-> outputs, wit |-> wit]
Code(shape) == CASE shape = "coinbase" -> 1 [] shape = "plain" -> 2 [] OTHER -> 3
txid(t) == <<10, <<Code(t.shape)>>, <<t.nonce>>, <<t.locktime>>>> \o t.outputs
wtxid(t) == <<11, txid(t), <<t.wit>>>>
txids(txs) == <<>> \o [i \in 1..Len(txs) |-> txid(txs[i])]
wtxids(txs) == <<>> \o [i \in 1..Len(txs) |-> wtxid(txs[i])]

(***************************************************************************)
(* merkle_root_tagged, level by level.                                     *)
(***************************************************************************)
\* Mutant: an odd last node is paired with itself.
Parents_Pairs(level, node_tag) ==
  [i \in 1..((Len(level) + 1) \div 2) |->
     IF 2 * i > Len(level) THEN <<node_tag, level[2 * i - 1], level[2 * i - 1]>>
     ELSE <<node_tag, level[2 * i - 1], level[2 * i]>>]

\* The odd one out is carried forward unchanged.
Parents(level, node_tag) ==
  [i \in 1..((Len(level) + 1) \div 2) |->
     IF 2 * i > Len(level) THEN level[2 * i - 1]
     ELSE <<node_tag, level[2 * i - 1], level[2 * i]>>]
merkle_root_tagged(ids, leaf_tag, node_tag) ==
  LET level[k \in 0..Len(ids)] ==
        IF k = 0 THEN <<>> \o [i \in 1..Len(ids) |-> <<leaf_tag, ids[i]>>]
        ELSE LET below == level[k - 1]
             IN  IF Len(below) = 1 THEN below ELSE <<>> \o Parents(below, node_tag)
  IN  level[Len(ids)][1]
merkle_root_txids(ids) == merkle_root_tagged(ids, 0, 1)
\* The coinbase holds the commitment, so its own place is a zero.
witness_merkle_root_wtxids(ids) == merkle_root_tagged([ids EXCEPT ![1] = <<0>>], 2, 3)
witness_commitment_hash(txs) == <<12, witness_merkle_root_wtxids(wtxids(txs))>>

(***************************************************************************)
(* The checks.  A raw block is a header, the announced count and what      *)
(* follows it.                                                             *)
(***************************************************************************)
block_hash(raw) == raw.header
parse_block_bytes(raw) ==
  Check(raw.tx_count # 0, "BlockErrCoinbaseInvalid")
    ?? (Check(raw.tx_count <= Len(raw.txs), "BlockErrParse")
    ?? Check(raw.tx_count = Len(raw.txs), "BlockErrParse"))

is_coinbase_tx(t) == t.shape = "coinbase" /\ t.nonce = 0 /\ t.wit = 0

\* The chain the block is offered to.
ExpectedPrev == 1
ExpectedTarget == 1
Height == 1

validate_header_commitments(raw) ==
  Check(raw.header.target # 0, "BlockErrTargetInvalid")
    ?? (Check(raw.header.pow, "BlockErrPowInvalid")
    ?? (Check(raw.header.target = ExpectedTarget, "BlockErrTargetInvalid")
    ?? (Check(raw.header.prev = ExpectedPrev, "BlockErrLinkageInvalid")
    ?? Check(raw.header.root = merkle_root_txids(txids(raw.txs)), "BlockErrMerkleInvalid"))))

validate_coinbase_witness_commitment(txs) ==
  Check(Cardinality({i \in 1..Len(txs[1].outputs) :
                       txs[1].outputs[i] = witness_commitment_hash(txs)}) = 1,
        "BlockErrWitnessCommitment")

validate_parsed_block_preflight(raw) ==
  validate_header_commitments(raw) ?? validate_coinbase_witness_commitment(raw.txs)

validate_coinbase_structure(txs) ==
  Check(is_coinbase_tx(txs[1]), "BlockErrCoinbaseInvalid")
    ?? (Check(txs[1].outputs # <<>>, "BlockErrCoinbaseInvalid")
    ?? Check(txs[1].locktime = Height, "BlockErrCoinbaseInvalid"))

validate_non_coinbase_nonce_and_input_count(t) ==
  Check(~(t.nonce = 0 /\ t.shape = "no_input"), "TxErrTxNonceInvalid")
    ?? Check(t.shape # "no_input", "TxErrParse")
validate_non_coinbase_block_tx(txs, i) ==
  Check(~is_coinbase_tx(txs[i]), "BlockErrCoinbaseInvalid")
    ?? (validate_non_coinbase_nonce_and_input_count(txs[i])
    ?? Check(\A j \in 2..(i - 1) : txs[j].nonce # txs[i].nonce, "TxErrNonceReplay"))
validate_block_tx_semantics(txs) ==
  validate_coinbase_structure(txs)
    ?? FirstError([i \in 1..(Len(txs) - 1) |-> validate_non_coinbase_block_tx(txs, i + 1)])

\* A side block: parse, preflight, semantics.
validate_block_basic(raw) ==
  parse_block_bytes(raw)
    ?? (validate_parsed_block_preflight(raw) ?? validate_block_tx_semantics(raw.txs))

\* A block that is connected: the same preflight and coinbase check, and the others as they
\* are applied.
validate_connect_preflight(raw) ==
  validate_parsed_block_preflight(raw) ?? validate_coinbase_structure(raw.txs)
ConnectChecks(raw) ==
  parse_block_bytes(raw)
    ?? (validate_connect_preflight(raw)
    ?? FirstError([i \in 1..(Len(raw.txs) - 1) |-> validate_non_coinbase_block_tx(raw.txs, i + 1)]))

validate_stored_block_commitments(raw) ==
  Check(is_coinbase_tx(raw.txs[1]), "BlockErrCoinbaseInvalid")
    ?? (Check(raw.header.root = merkle_root_txids(txids(raw.txs)), "BlockErrMerkleInvalid")
    ?? validate_coinbase_witness_commitment(raw.txs))

load_verified_stored_block(raw, lookup_hash) ==
  parse_block_bytes(raw)
    ?? (Check(block_hash(raw) = lookup_hash, "Corrupt")
    ?? validate_stored_block_commitments(raw))

(***************************************************************************)
(* What may arrive, and what a file may become.                            *)
(***************************************************************************)
PlainTxs == {Tx("plain", n, 0, <<>>, w) : n \in TxNonces, w \in Witnesses}
WrongTxs == {Tx("coinbase", 0, Height, <<>>, 0), Tx("no_input", 0, 0, <<>>, 0),
             Tx("no_input", 1, 0, <<>>, 0)}
Others == UNION {[1..n -> PlainTxs] : n \in 0..MaxOthers} \cup {<<t>> : t \in WrongTxs}
\* A coinbase with the commitment of these transactions, once, twice or not at all.
OutputLists(others) ==
  LET c == witness_commitment_hash(<<Tx("coinbase", 0, Height, <<>>, 0)>> \o others)
  IN  {<<>>, <<c>>, <<c, <<9>>>>, <<c, c>>, <<<<9>>>>}
Coinbases(others) ==
  {Tx(shape, 0, l, outs, w) : shape \in {"coinbase", "no_input"}, l \in Heights,
                              outs \in OutputLists(others), w \in Witnesses}
Header(root, prev, target, pow) == [root |-> root, prev |-> prev, target |-> target, pow |-> pow]
Good(txs) == Header(merkle_root_txids(txids(txs)), ExpectedPrev, ExpectedTarget, TRUE)
Raw(header, count, txs) == [header |-> header, tx_count |-> count, txs |-> txs]
\* Whole blocks, and ones with one thing wrong in the frame or the header.
Arriving(txs) ==
  {Raw(Good(txs), Len(txs), txs)}
    \cup {Raw(Good(txs), c, txs) : c \in {0, Len(txs) - 1, Len(txs) + 1}}
    \cup {Raw([Good(txs) EXCEPT !.root = <<9>>], Len(txs), txs),
          Raw([Good(txs) EXCEPT !.prev = 2], Len(txs), txs),
          Raw([Good(txs) EXCEPT !.target = 0], Len(txs), txs),
          Raw([Good(txs) EXCEPT !.target = 2], Len(txs), txs),
          Raw([Good(txs) EXCEPT !.pow = FALSE], Len(txs), txs)}

NoBlock == Raw(Header(<<0>>, 0, 0, FALSE), 0, <<>>)
Missing == Raw(Header(<<0>>, 0, 0, FALSE), 1, <<>>)

Init == admitted = NoBlock /\ file = Missing /\ used = NoBlock

\* Another body under the header of the admitted block.
SameHeader ==
  {Raw(admitted.header, Len(o) + 1, <<[admitted.txs[1] EXCEPT !.wit = w]>> \o o) :
     o \in Others, w \in Witnesses}
    \cup {[admitted EXCEPT !.tx_count = @ + d] : d \in {-1, 1}}

\* store_block writes the file of an admitted block.
Store(raw, v) ==
  /\ v = Ok
  /\ admitted' = raw /\ file' = raw /\ used' = NoBlock
FirstBlock(checked(_)) ==
  /\ admitted = NoBlock
  /\ \E o \in Others : \E cb \in Coinbases(o) : \E raw \in Arriving(<<cb>> \o o) :
       Store(raw, checked(raw))
SameHeaderBlock(checked(_)) ==
  /\ admitted # NoBlock
  /\ \E raw \in SameHeader : Store(raw, checked(raw))
StoreSideBlock == FirstBlock(validate_block_basic) \/ SameHeaderBlock(validate_block_basic)
ConnectBlock == FirstBlock(ConnectChecks) \/ SameHeaderBlock(ConnectChecks)

\* The file is lost, cut short, or holds other transactions under this or another header.
Rot ==
  /\ admitted # NoBlock /\ file = admitted
  /\ file' \in {Missing, Raw(Good(<<admitted.txs[1]>>), 1, <<admitted.txs[1]>>)} \cup SameHeader
  /\ used' = NoBlock
  /\ UNCHANGED admitted

LoadStored ==
  /\ admitted # NoBlock
  /\ LET v == IF file = Missing THEN "NotFound"
              ELSE load_verified_stored_block(file, block_hash(admitted))
     IN  used' = IF v = Ok THEN file ELSE NoBlock
  /\ UNCHANGED <<admitted, file>>

Next == StoreSideBlock \/ ConnectBlock \/ Rot \/ LoadStored

Spec == Init /\ [][Next]_vars

(***************************************************************************)
(* Properties.                                                             *)
(***************************************************************************)
(* A disconnect works on bytes read back from disk: whatever became of the  *)
(* file, bytes that pass the stored-block check are the admitted block,     *)
(* down to the last witness byte.                                           *)
LoadedIsAdmitted == used # NoBlock => used = admitted

(* A file nobody touched is never refused as corrupt: every block that      *)
(* either admission path lets in passes the stored-block check.             *)
AdmittedLoads ==
  admitted # NoBlock /\ file = admitted =>
    load_verified_stored_block(file, block_hash(admitted)) = Ok

(* Two admitted blocks with one hash are one block: no second body, and no  *)
(* changed witness, is ever admitted under a header that is stored.         *)
OneBodyPerHeader ==
  admitted # NoBlock /\ block_hash(admitted') = block_hash(admitted) => admitted' = admitted
=============================================================================
