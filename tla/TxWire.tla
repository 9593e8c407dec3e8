------------------------------- MODULE TxWire -------------------------------
(***************************************************************************)
(* The wire format of a transaction: the parser of tx.rs reads a string    *)
(* field by field and refuses it at the first wrong one; marshal_tx of     *)
(* tx_helpers.rs writes a transaction; weight.rs computes from a parsed    *)
(* transaction the sizes of its parts without writing it.                  *)
(*                                                                         *)
(* A wire string is a sequence of tokens <<value, width in bytes>>.  The   *)
(* input is not chosen in advance: every action reads the next part of it  *)
(* with whatever value it may have there.  Widths are the code's; the      *)
(* thresholds of the size encoding and the caps are scaled down.           *)
(***************************************************************************)
EXTENDS Checks, TLC

CONSTANTS
  FD,                  \* first tag of a long size (0xfd)
  U16, U32, U64,       \* greatest values of the three long forms
  TxKinds,             \* kinds that are read: 0 plain, 1 DA commit, 2 DA chunk, 3 unknown
  MAX_TX_INPUTS, MAX_TX_OUTPUTS, MAX_WITNESS_ITEMS,
  MAX_SCRIPT_SIG_BYTES, MAX_COVENANT_DATA_PER_OUTPUT,
  MAX_DA_MANIFEST_BYTES_PER_TX, MAX_DA_CHUNK_COUNT, CHUNK_BYTES,
  MAX_WITNESS_BYTES_PER_TX,
  MAX_SIMPLICITY_ENVELOPE_BYTES, MAX_SIMPLICITY_PROGRAM_BYTES,
  MIN_HTLC_PREIMAGE_BYTES, MAX_HTLC_PREIMAGE_BYTES,
  KEY_ID_BYTES,        \* the 32 bytes of an HTLC selector's key id
  PubkeyBytes, SigBytes, \* ML_DSA_87_PUBKEY_BYTES and ML_DSA_87_SIG_BYTES
  MaxString            \* longest string the input has room for

VARIABLES
  bytes,      \* what has been read
  phase,      \* the part that is read next, "done", or the error
  left,       \* inputs, outputs or witness items still to come
  tx,         \* the fields read so far
  core_end,   \* length of the part that txid hashes
  witness_bytes,
  item        \* the witness item read last, also a refused one

vars == <<bytes, phase, left, tx, core_end, witness_bytes, item>>

SUITE_ID_SENTINEL == 0
SUITE_ID_ML_DSA_87 == 1
SUITE_ID_SIMPLICITY_ENVELOPE == 2
UnknownSuite == 3
Suites == {SUITE_ID_SENTINEL, SUITE_ID_ML_DSA_87, SUITE_ID_SIMPLICITY_ENVELOPE, UnknownSuite}
COV_TYPE_ANCHOR == 2
TX_WIRE_VERSION == 1

\* Bytes of strings that some check looks at; the others are all zero.
Bytes == 0..2
Zeros(n) == [i \in 1..n |-> 0]
Width(wire) == Sum([i \in 1..Len(wire) |-> wire[i][2]])
Wire(s) == [i \in 1..Len(s) |-> <<s[i], 1>>]
Concat(ss) == LET c[n \in 0..Len(ss)] == IF n = 0 THEN <<>> ELSE c[n - 1] \o ss[n] IN c[Len(ss)]

(***************************************************************************)
(* Sizes.  A read is the tokens it consumes, the value they stand for and  *)
(* whether they are its shortest form.                                     *)
(***************************************************************************)
Size(wire, v, minimal) == [wire |-> wire, n |-> v, minimal_ok |-> minimal]

\* Mutant: any of the four forms of a size is read.
CompactSizes_AnyForm ==
  {Size(<<<<t, 1>>>>, t, TRUE) : t \in 0..(FD - 1)}
    \cup {Size(<<<<FD, 1>>, <<v, 2>>>>, v, TRUE) : v \in 0..U16}

CompactSizes ==
  {Size(<<<<t, 1>>>>, t, TRUE) : t \in 0..(FD - 1)}
    \cup {Size(<<<<FD, 1>>, <<v, 2>>>>, v, v >= FD) : v \in 0..U16}
    \cup {Size(<<<<FD + 1, 1>>, <<v, 4>>>>, v, v > U16) : v \in 0..U32}
    \cup {Size(<<<<FD + 2, 1>>, <<v, 8>>>>, v, v > U32) : v \in 0..U64}
Minimal(size) == Check(size.minimal_ok, "TxErrParse")
AtMost(size, cap) == Minimal(size) ?? Check(size.n <= cap, "TxErrParse")

encode_compact_size(n) ==
  CASE n < FD -> <<<<n, 1>>>>
    [] n \in FD..U16 -> <<<<FD, 1>>, <<n, 2>>>>
    [] n \in (U16 + 1)..U32 -> <<<<FD + 1, 1>>, <<n, 4>>>>
    [] OTHER -> <<<<FD + 2, 1>>, <<n, 8>>>>

compact_size_len(n) ==
  CASE n < FD -> 1
    [] n \in FD..U16 -> 3
    [] n \in (U16 + 1)..U32 -> 5
    [] OTHER -> 9

(***************************************************************************)
(* marshal_tx.  Fields that nothing inspects are fixed, distinct numbers.  *)
(***************************************************************************)
da_core_fields_bytes(t) ==
  CASE t.tx_kind = 1 ->
         <<<<t.da.da_id, 32>>, <<t.da.chunk_count, 2>>, <<t.da.retl_domain_id, 32>>,
           <<t.da.batch_number, 8>>, <<t.da.tx_data_root, 32>>, <<t.da.state_root, 32>>,
           <<t.da.withdrawals_root, 32>>, <<t.da.batch_sig_suite, 1>>>>
         \o encode_compact_size(Len(t.da.batch_sig)) \o Wire(t.da.batch_sig)
    [] t.tx_kind = 2 ->
         <<<<t.da.da_id, 32>>, <<t.da.chunk_index, 2>>, <<t.da.chunk_hash, 32>>>>
    [] OTHER -> <<>>

CoreBytes(t) ==
  <<<<t.version, 4>>, <<t.tx_kind, 1>>, <<t.tx_nonce, 8>>>>
    \o encode_compact_size(Len(t.inputs))
    \o Concat([i \in 1..Len(t.inputs) |->
         <<<<t.inputs[i].prev_txid, 32>>, <<t.inputs[i].prev_vout, 4>>>>
           \o encode_compact_size(Len(t.inputs[i].script_sig)) \o Wire(t.inputs[i].script_sig)
           \o <<<<t.inputs[i].sequence, 4>>>>])
    \o encode_compact_size(Len(t.outputs))
    \o Concat([i \in 1..Len(t.outputs) |->
         <<<<t.outputs[i].value, 8>>, <<t.outputs[i].covenant_type, 2>>>>
           \o encode_compact_size(Len(t.outputs[i].covenant_data))
           \o Wire(t.outputs[i].covenant_data)])
    \o <<<<t.locktime, 4>>>>
    \o da_core_fields_bytes(t)
WitnessBytes(t) ==
  encode_compact_size(Len(t.witness))
    \o Concat([i \in 1..Len(t.witness) |->
         <<<<t.witness[i].suite_id, 1>>>>
           \o encode_compact_size(Len(t.witness[i].pubkey)) \o Wire(t.witness[i].pubkey)
           \o encode_compact_size(Len(t.witness[i].signature)) \o Wire(t.witness[i].signature)])
marshal_tx(t) ==
  CoreBytes(t) \o WitnessBytes(t) \o encode_compact_size(Len(t.da_payload)) \o Wire(t.da_payload)

(***************************************************************************)
(* Weight.                                                                 *)
(***************************************************************************)
tx_base_size(t) ==
  4 + 1 + 8 + compact_size_len(Len(t.inputs))
    + Sum([i \in 1..Len(t.inputs) |->
        32 + 4 + compact_size_len(Len(t.inputs[i].script_sig)) + Len(t.inputs[i].script_sig) + 4])
    + compact_size_len(Len(t.outputs))
    + Sum([i \in 1..Len(t.outputs) |->
        8 + 2 + compact_size_len(Len(t.outputs[i].covenant_data))
          + Len(t.outputs[i].covenant_data)])
    + 4 + Width(da_core_fields_bytes(t))

WitnessSize(t) ==
  compact_size_len(Len(t.witness))
    + Sum([i \in 1..Len(t.witness) |->
        1 + compact_size_len(Len(t.witness[i].pubkey)) + Len(t.witness[i].pubkey)
          + compact_size_len(Len(t.witness[i].signature)) + Len(t.witness[i].signature)])

tx_da_size(t) == compact_size_len(Len(t.da_payload)) + Len(t.da_payload)

VERIFY_COST_ML_DSA_87 == 8
VERIFY_COST_UNKNOWN_SUITE == 64
SIMPLICITY_BASE_VERIFY_COST == 64
has_expected_mldsa87_shape(w) == Len(w.pubkey) = PubkeyBytes /\ Len(w.signature) = SigBytes + 1
legacy_sig_cost(w) ==
  CASE w.suite_id = SUITE_ID_SENTINEL -> 0
    [] w.suite_id = SUITE_ID_SIMPLICITY_ENVELOPE -> SIMPLICITY_BASE_VERIFY_COST
    [] w.suite_id = SUITE_ID_ML_DSA_87 ->
         IF has_expected_mldsa87_shape(w) THEN VERIFY_COST_ML_DSA_87 ELSE 0
    [] OTHER -> VERIFY_COST_UNKNOWN_SUITE

\* SuiteRegistry::default_registry and the suites of DefaultRotationProvider.
default_registry ==
  SUITE_ID_ML_DSA_87 :> [pubkey_len |-> PubkeyBytes, sig_len |-> SigBytes,
                         verify_cost |-> VERIFY_COST_ML_DSA_87]
native_spend_suites == {SUITE_ID_ML_DSA_87}
RegisteredCost(w, p) ==
  IF Len(w.pubkey) = p.pubkey_len /\ Len(w.signature) = p.sig_len + 1 THEN p.verify_cost ELSE 0
registry_sig_cost(w) ==
  IF w.suite_id = SUITE_ID_SENTINEL THEN 0
  ELSE IF w.suite_id = SUITE_ID_SIMPLICITY_ENVELOPE THEN SIMPLICITY_BASE_VERIFY_COST
  ELSE IF w.suite_id \notin native_spend_suites \cap DOMAIN default_registry
       THEN VERIFY_COST_UNKNOWN_SUITE
  ELSE RegisteredCost(w, default_registry[w.suite_id])

WITNESS_DISCOUNT_DIVISOR == 4
tx_weight(t, costs) ==
  WITNESS_DISCOUNT_DIVISOR * tx_base_size(t) + WitnessSize(t) + tx_da_size(t) + Sum(costs)
tx_weight_and_stats(t) ==
  tx_weight(t, [i \in 1..Len(t.witness) |-> legacy_sig_cost(t.witness[i])])
tx_weight_and_stats_at_height(t) ==
  tx_weight(t, [i \in 1..Len(t.witness) |-> registry_sig_cost(t.witness[i])])

(***************************************************************************)
(* The shape of a witness item.                                            *)
(***************************************************************************)
PreimageLen(sig) == sig[2] + (U16 + 1) * sig[3]
is_canonical_htlc_claim_signature(sig) ==
  /\ sig[1] = 0
  /\ PreimageLen(sig) \in MIN_HTLC_PREIMAGE_BYTES..MAX_HTLC_PREIMAGE_BYTES
  /\ Len(sig) = 3 + PreimageLen(sig)

is_canonical_sentinel_witness(pub_len, sig) ==
  \/ pub_len = 0 /\ sig = <<>>
  \/ pub_len = KEY_ID_BYTES /\ sig = <<1>>
  \/ pub_len = KEY_ID_BYTES /\ Len(sig) >= 3 /\ is_canonical_htlc_claim_signature(sig)

\* The sighash byte is dropped; version 1, a program and a witness, each with
\* its size before it, fill the rest exactly.
validate_simplicity_envelope_signature(sig) ==
  LET n == Len(sig) - 1 IN
  /\ Len(sig) >= 2
  /\ n <= MAX_SIMPLICITY_ENVELOPE_BYTES
  /\ sig[1] = 1
  /\ n >= 2 /\ sig[2] <= MAX_SIMPLICITY_PROGRAM_BYTES
  /\ n >= 3 + sig[2]
  /\ n = 3 + sig[2] + sig[3 + sig[2]]

validate_witness_item_shape(w) ==
  CASE w.suite_id = SUITE_ID_SENTINEL ->
         Check(is_canonical_sentinel_witness(Len(w.pubkey), w.signature), "TxErrParse")
    [] w.suite_id = SUITE_ID_ML_DSA_87 ->
         Check(has_expected_mldsa87_shape(w), "TxErrSigNoncanonical")
    [] w.suite_id = SUITE_ID_SIMPLICITY_ENVELOPE ->
         Check(w.pubkey = <<>> /\ validate_simplicity_envelope_signature(w.signature),
               "TxErrParse")
    [] OTHER -> Ok

validate_witness_item_ordered(w, total) ==
  Check(w.suite_id = SUITE_ID_SENTINEL \/ w.signature # <<>>, "TxErrParse")
    ?? (Check(total <= MAX_WITNESS_BYTES_PER_TX, "TxErrWitnessOverflow")
    ?? validate_witness_item_shape(w))

(***************************************************************************)
(* The parser.                                                             *)
(***************************************************************************)
NoItem == [suite_id |-> UnknownSuite, pubkey |-> <<>>, signature |-> <<>>]
NoTx == [version |-> 0, tx_kind |-> 0, tx_nonce |-> 0, inputs |-> <<>>, outputs |-> <<>>,
         locktime |-> 0, da |-> [kind |-> 0], witness |-> <<>>, da_payload |-> <<>>]
Phases == {"prefix", "in_count", "inputs", "out_count", "outputs", "core", "wit_count",
           "witness", "payload"}

Init ==
  /\ bytes = <<>> /\ phase = "prefix" /\ left = 0 /\ tx = NoTx
  /\ core_end = 0 /\ witness_bytes = 0 /\ item = NoItem

\* A refused string leaves the error, and the witness item if it is the reason.
Fail(code, reason) ==
  /\ phase' = code /\ item' = reason
  /\ bytes' = <<>> /\ left' = 0 /\ tx' = NoTx /\ core_end' = 0 /\ witness_bytes' = 0
Read(verdict, wire, t, p, k) ==
  IF verdict # Ok THEN Fail(verdict, NoItem)
  ELSE /\ bytes' = bytes \o wire /\ tx' = t /\ phase' = p /\ left' = k
       /\ core_end' = IF p = "wit_count" THEN Width(bytes') ELSE core_end
       /\ UNCHANGED <<witness_bytes, item>>
\* A counted list: its reader comes next while something is left of it.
Counted(n, p, after) == IF n > 0 THEN p ELSE after

\* The input ends inside the part that is read (every reader's EOF).
EndOfInput == phase \in Phases /\ Fail("TxErrParse", NoItem)

ParsePrefix ==
  /\ phase = "prefix"
  /\ \E version \in {TX_WIRE_VERSION, 2}, kind \in TxKinds :
       Read(Check(version = TX_WIRE_VERSION, "TxErrParse")
              ?? Check(kind \in {0, 1, 2}, "TxErrParse"),
            <<<<version, 4>>, <<kind, 1>>, <<41, 8>>>>,
            [tx EXCEPT !.version = version, !.tx_kind = kind, !.tx_nonce = 41],
            "in_count", 0)

ParseInputCount ==
  /\ phase = "in_count"
  /\ \E size \in CompactSizes :
       Read(AtMost(size, MAX_TX_INPUTS), size.wire, tx,
            Counted(size.n, "inputs", "out_count"), size.n)

ParseInput ==
  /\ phase = "inputs"
  /\ \E size \in CompactSizes :
       Read(AtMost(size, MAX_SCRIPT_SIG_BYTES),
            <<<<42, 32>>, <<43, 4>>>> \o size.wire \o Wire(Zeros(size.n)) \o <<<<44, 4>>>>,
            [tx EXCEPT !.inputs = Append(@, [prev_txid |-> 42, prev_vout |-> 43,
                                             script_sig |-> Zeros(size.n), sequence |-> 44])],
            Counted(left - 1, "inputs", "out_count"), left - 1)

ParseOutputCount ==
  /\ phase = "out_count"
  /\ \E size \in CompactSizes :
       Read(AtMost(size, MAX_TX_OUTPUTS), size.wire, tx,
            Counted(size.n, "outputs", "core"), size.n)

ParseOutput ==
  /\ phase = "outputs"
  /\ \E size \in CompactSizes :
       Read(AtMost(size, MAX_COVENANT_DATA_PER_OUTPUT),
            <<<<45, 8>>, <<COV_TYPE_ANCHOR, 2>>>> \o size.wire \o Wire(Zeros(size.n)),
            [tx EXCEPT !.outputs = Append(@, [value |-> 45, covenant_type |-> COV_TYPE_ANCHOR,
                                              covenant_data |-> Zeros(size.n)])],
            Counted(left - 1, "outputs", "core"), left - 1)

\* The lock time and the part of the core that belongs to the kind.
ParseCore ==
  /\ phase = "core"
  /\ CASE tx.tx_kind = 1 ->
            \E count \in 0..(MAX_DA_CHUNK_COUNT + 1), size \in CompactSizes :
              LET t == [tx EXCEPT !.locktime = 46,
                          !.da = [da_id |-> 51, chunk_count |-> count, retl_domain_id |-> 52,
                                  batch_number |-> 53, tx_data_root |-> 54, state_root |-> 55,
                                  withdrawals_root |-> 56, batch_sig_suite |-> 57,
                                  batch_sig |-> Zeros(size.n)]]
              IN  Read(Check(count \in 1..MAX_DA_CHUNK_COUNT, "TxErrParse")
                         ?? AtMost(size, MAX_DA_MANIFEST_BYTES_PER_TX),
                       <<<<46, 4>>, <<51, 32>>, <<count, 2>>, <<52, 32>>, <<53, 8>>, <<54, 32>>,
                         <<55, 32>>, <<56, 32>>, <<57, 1>>>> \o size.wire \o Wire(Zeros(size.n)),
                       t, "wit_count", 0)
       [] tx.tx_kind = 2 ->
            \E index \in 0..MAX_DA_CHUNK_COUNT :
              Read(Check(index < MAX_DA_CHUNK_COUNT, "TxErrParse"),
                   <<<<46, 4>>, <<58, 32>>, <<index, 2>>, <<59, 32>>>>,
                   [tx EXCEPT !.locktime = 46,
                      !.da = [da_id |-> 58, chunk_index |-> index, chunk_hash |-> 59]],
                   "wit_count", 0)
       [] OTHER -> Read(Ok, <<<<46, 4>>>>, [tx EXCEPT !.locktime = 46], "wit_count", 0)

ParseWitnessCount ==
  /\ phase = "wit_count"
  /\ \E size \in CompactSizes :
       LET verdict == Minimal(size)
                        ?? Check(size.n <= MAX_WITNESS_ITEMS, "TxErrWitnessOverflow")
       IN  IF verdict # Ok THEN Fail(verdict, NoItem)
           ELSE /\ bytes' = bytes \o size.wire /\ left' = size.n
                /\ phase' = Counted(size.n, "witness", "payload")
                /\ witness_bytes' = Width(size.wire)
                /\ UNCHANGED <<tx, core_end, item>>

\* A size and a string of that many bytes, of which the input has room for MaxString.
\* A size in a long form, or without its bytes, ends as the end of the input does.
Strings(size, inspected) ==
  IF ~size.minimal_ok \/ size.n > MaxString THEN {}
  ELSE IF inspected THEN [1..size.n -> Bytes] ELSE {Zeros(size.n)}

ParseWitnessItem ==
  /\ phase = "witness"
  /\ \E suite \in Suites, pub_len \in CompactSizes, sig_len \in CompactSizes :
       \E pubkey \in Strings(pub_len, FALSE),
          signature \in Strings(sig_len, suite \in {SUITE_ID_SENTINEL, SUITE_ID_SIMPLICITY_ENVELOPE}) :
         LET w == [suite_id |-> suite, pubkey |-> pubkey, signature |-> signature]
             wire == <<<<suite, 1>>>> \o pub_len.wire \o Wire(pubkey)
                       \o sig_len.wire \o Wire(signature)
             total == witness_bytes + Width(wire)
             verdict == validate_witness_item_ordered(w, total)
         IN  IF verdict # Ok THEN Fail(verdict, w)
             ELSE /\ bytes' = bytes \o wire /\ left' = left - 1 /\ item' = w
                  /\ tx' = [tx EXCEPT !.witness = Append(@, w)]
                  /\ phase' = Counted(left - 1, "witness", "payload")
                  /\ witness_bytes' = total
                  /\ UNCHANGED core_end

\* A plain transaction carries no DA bytes, a commit up to a manifest, a chunk one to
\* CHUNK_BYTES.
PayloadSizes(kind) ==
  CASE kind = 1 -> 0..MAX_DA_MANIFEST_BYTES_PER_TX
    [] kind = 2 -> 1..CHUNK_BYTES
    [] OTHER -> {0}
ParsePayload ==
  /\ phase = "payload"
  /\ \E size \in CompactSizes :
       Read(Minimal(size) ?? Check(size.n \in PayloadSizes(tx.tx_kind), "TxErrParse"),
            size.wire \o Wire(Zeros(size.n)),
            [tx EXCEPT !.da_payload = Zeros(size.n)], "done", 0)

Next ==
  \/ EndOfInput \/ ParsePrefix
  \/ ParseInputCount \/ ParseInput \/ ParseOutputCount \/ ParseOutput
  \/ ParseCore
  \/ ParseWitnessCount \/ ParseWitnessItem \/ ParsePayload

Spec == Init /\ [][Next]_vars

(***************************************************************************)
(* Properties.                                                             *)
(***************************************************************************)
(* parse_tx hashes the bytes it read, while relay, storage and block        *)
(* assembly write a transaction with marshal_tx: the two must be the same   *)
(* string, and the core end where the parser says, or one transaction has   *)
(* two identifiers.                                                         *)
ParsedIsCanonical ==
  phase = "done" => marshal_tx(tx) = bytes /\ core_end = Width(CoreBytes(tx))

(* weight.rs adds up sizes that nobody writes: base, witness and DA part of *)
(* a parsed transaction are exactly the bytes it arrived in, so that a      *)
(* block's weight bounds its length.                                        *)
SizesAreTheWire ==
  phase = "done" =>
    /\ tx_base_size(tx) = core_end
    /\ tx_base_size(tx) + WitnessSize(tx) + tx_da_size(tx) = Width(bytes)

(* With the default rotation and registry a transaction weighs what it      *)
(* weighs for the callers that pass neither and take the fixed costs.       *)
DefaultWeightIsLegacy ==
  phase = "done" => tx_weight_and_stats_at_height(tx) = tx_weight_and_stats(tx)

(* The parser's running count is the length of the witness part, sizes      *)
(* included, so that the cap on it holds for what is on the wire.           *)
WitnessCountIsExact ==
  phase \in {"witness", "payload"} =>
    /\ core_end + witness_bytes = Width(bytes)
    /\ tx.witness # <<>> => witness_bytes <= MAX_WITNESS_BYTES_PER_TX

\* The layout checks of parse_htlc_selector and the two spend paths.
HtlcPathLayout(w) ==
  /\ w.signature # <<>>
  /\ \/ /\ w.signature[1] = 0
        /\ Len(w.signature) >= 3
        /\ PreimageLen(w.signature) >= MIN_HTLC_PREIMAGE_BYTES
        /\ PreimageLen(w.signature) <= MAX_HTLC_PREIMAGE_BYTES
        /\ Len(w.signature) = 3 + PreimageLen(w.signature)
     \/ w.signature[1] = 1 /\ Len(w.signature) = 1

(* The parser and the HTLC spend look at the same path item in two places:  *)
(* what the parser lets through is a path the spend can read, and what the  *)
(* spend could read is never refused by the parser.                         *)
PathItemsAgree ==
  item.suite_id = SUITE_ID_SENTINEL /\ Len(item.pubkey) = KEY_ID_BYTES =>
    /\ phase \in {"witness", "payload", "done"} => HtlcPathLayout(item)
    /\ phase = "TxErrParse" => ~HtlcPathLayout(item)

TypeOK ==
  /\ phase \in Phases \cup {"done", "TxErrParse", "TxErrWitnessOverflow", "TxErrSigNoncanonical"}
  /\ left \in 0..U64
  /\ Len(tx.inputs) <= MAX_TX_INPUTS /\ Len(tx.outputs) <= MAX_TX_OUTPUTS
  /\ Len(tx.witness) + left <= MAX_WITNESS_ITEMS \/ phase \in {"inputs", "outputs"}
  /\ phase \notin Phases \cup {"done"} => bytes = <<>>
=============================================================================
