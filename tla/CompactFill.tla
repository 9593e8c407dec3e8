---------------------------- MODULE CompactFill ----------------------------
(***************************************************************************)
(* One compact block from announcement to block: the announcer turns a     *)
(* stored block into short ids and prefilled transactions, the receiver    *)
(* fills the gaps from its own pool, asks for the rest by index, and puts  *)
(* the answer into the open slots (p2p_runtime.rs: encode/decode of        *)
(* cmpctblock, getblocktxn and blocktxn, reconstruct_compact_block,        *)
(* handle_getblocktxn, compact_fill_response_transactions).                *)
(*                                                                         *)
(* A short id is a keyed hash cut to six bytes: which transactions collide *)
(* is arbitrary and chosen anew for every announcement.  Positions and     *)
(* indexes count from 0, as in the code.                                   *)
(***************************************************************************)
EXTENDS Integers, Sequences, FiniteSets

CONSTANTS
  Tx,                 \* transactions
  Size,               \* their sizes; 0 is no transaction at all
  NonCanonical,       \* those parse_tx does not read to their last byte
  Blocks,             \* blocks the announcer may announce: sequences of transactions
  Pools,              \* what select_transactions may return: sequences
  ShortIdMaps,        \* the keyed hash of the announcement: functions from Tx
  OddPayloads,        \* payloads of a peer that is not this code
  MAX_BLOCK_BYTES, MAX_RELAY_MSG_BYTES,
  MAX_COMPACT_RELAY_ENTRIES,
  COMPACT_LOCAL_TX_CANDIDATE_BYTES_LIMIT,
  BLOCK_HEADER_BYTES, COMPACT_SHORT_ID_BYTES, COMPACT_RELAY_INDEX_BYTES,
  HASH_BYTES, MAX_COMPACT_SIZE_BYTES,
  ONE_BYTE_MAX,       \* largest number a one-byte compact size holds
  None

VARIABLES
  blk,       \* the announced block
  sid,       \* compact_shortid under the announcement's nonces
  pool,      \* the receiver's candidates
  wire,      \* the message under way
  out,       \* the receiver's outstanding request
  announced, \* the announcer still owes an answer for this announcement
  outcome    \* None, "applied", "fallback", "refused", or "banned by ..."

vars == <<blk, sid, pool, wire, out, announced, outcome>>

compact_size_wire_len(n) == IF n <= ONE_BYTE_MAX THEN 1 ELSE MAX_COMPACT_SIZE_BYTES

SumOver(S, f(_)) ==
  LET sum[T \in SUBSET S] == IF T = {} THEN 0 ELSE LET t == CHOOSE t \in T : TRUE IN f(t) + sum[T \ {t}]
  IN sum[S]

SizeOf(s) == LET at(i) == Size[s[i]] IN SumOver(DOMAIN s, at)

\* validate_blocktxn_transaction_size along a list.
SizesOk(s) == (\A i \in DOMAIN s : Size[s[i]] > 0) /\ SizeOf(s) <= MAX_BLOCK_BYTES

validate_compact_relay_tx(t) == t \notin NonCanonical

(***************************************************************************)
(* The cmpctblock payload: [short, pre], pre a sequence of [index, tx].    *)
(***************************************************************************)
Entries(p) == Len(p.short) + Len(p.pre)

PreTxs(p) == [i \in DOMAIN p.pre |-> p.pre[i].tx]

PreIndexes(p) == {p.pre[i].index : i \in DOMAIN p.pre}

PayloadLen(p) ==
  LET entry(i) == COMPACT_RELAY_INDEX_BYTES + compact_size_wire_len(Size[p.pre[i].tx]) + Size[p.pre[i].tx]
  IN BLOCK_HEADER_BYTES + compact_size_wire_len(Len(p.short)) + compact_size_wire_len(Len(p.pre))
     + Len(p.short) * COMPACT_SHORT_ID_BYTES + SumOver(DOMAIN p.pre, entry)

\* cmpctblock_payload_byte_len: `prev_plus_one` makes the indexes ascend.
ByteLenOk(p) ==
  /\ Entries(p) > 0 /\ Entries(p) <= MAX_BLOCK_BYTES
  /\ \A i \in DOMAIN p.pre : p.pre[i].index < Entries(p)
  /\ \A i \in 2 .. Len(p.pre) : p.pre[i].index >= p.pre[i - 1].index + 1
  /\ PayloadLen(p) <= MAX_RELAY_MSG_BYTES

EncodeOk(p) ==
  /\ ByteLenOk(p)
  /\ SizesOk(PreTxs(p))
  /\ \A i \in DOMAIN p.pre : validate_compact_relay_tx(p.pre[i].tx)

DecodeOk(p) ==
  /\ PayloadLen(p) <= MAX_RELAY_MSG_BYTES
  /\ Entries(p) > 0 /\ Entries(p) <= MAX_BLOCK_BYTES
  /\ \A i \in DOMAIN p.pre : p.pre[i].index < Entries(p)
  /\ \A i \in DOMAIN p.pre : i > 1 => ~(p.pre[i].index <= p.pre[i - 1].index)
  /\ SizesOk(PreTxs(p))
  /\ \A i \in DOMAIN p.pre : validate_compact_relay_tx(p.pre[i].tx)

\* compact_block_hash_from_payload: the layout again, without parsing transactions.
LayoutOk(p) ==
  /\ PayloadLen(p) <= MAX_RELAY_MSG_BYTES
  /\ Entries(p) > 0 /\ Entries(p) <= MAX_BLOCK_BYTES
  /\ \A i \in DOMAIN p.pre : p.pre[i].index < Entries(p)
  /\ \A i \in DOMAIN p.pre : i > 1 => ~(p.pre[i].index <= p.pre[i - 1].index)
  /\ SizesOk(PreTxs(p))

(***************************************************************************)
(* Reconstruction.                                                         *)
(***************************************************************************)
\* compact_local_tx_index, then the short ids of the prefilled transactions
\* (`blocked`) are marked ambiguous.
compact_local_tx_index(txs, blocked) ==
  LET step[n \in 0 .. Len(txs)] ==
        IF n = 0 THEN [index |-> [s \in {} |-> None], bytes |-> 0]
        ELSE LET a == step[n - 1]
                 t == txs[n] IN
             IF \/ Size[t] = 0 \/ Size[t] > MAX_BLOCK_BYTES
                \/ Size[t] > COMPACT_LOCAL_TX_CANDIDATE_BYTES_LIMIT - a.bytes
                \/ t \in NonCanonical
             THEN a
             ELSE IF sid[t] \in DOMAIN a.index
             THEN [a EXCEPT !.index[sid[t]] = None]
             ELSE [index |-> [s \in DOMAIN a.index \cup {sid[t]} |-> IF s = sid[t] THEN t ELSE a.index[s]],
                   bytes |-> a.bytes + Size[t]]
      idx == step[Len(txs)].index
  IN [s \in DOMAIN idx \cup blocked |-> IF s \in blocked THEN None ELSE idx[s]]

\* Positions that carry a short id, in order.
Open(p) ==
  LET next[i \in 0 .. Entries(p)] ==
        IF i = 0 THEN <<>>
        ELSE IF i - 1 \in PreIndexes(p) THEN next[i - 1] ELSE Append(next[i - 1], i - 1)
  IN next[Entries(p)]


\* compact_missing: a short id the index resolves fills its slot; when the same
\* short id comes again, both slots are left to be asked for.
compact_missing(p, index) ==
  LET open == Open(p)
      walk[k \in 0 .. Len(p.short)] ==
        IF k = 0 THEN [missing |-> <<>>, hit |-> [i \in {} |-> None], first |-> [s \in {} |-> None]]
        ELSE LET a == walk[k - 1]
                 i == open[k]
                 s == p.short[k]
                 ask(j) == [index |-> j, sid |-> s] IN
             IF s \notin DOMAIN index \/ index[s] = None
             THEN [a EXCEPT !.missing = Append(@, ask(i))]
             ELSE IF s \notin DOMAIN a.first
             THEN [a EXCEPT !.hit = [j \in DOMAIN @ \cup {i} |-> IF j = i THEN index[s] ELSE @[j]],
                            !.first = [r \in DOMAIN @ \cup {s} |-> IF r = s THEN i ELSE @[r]]]
             ELSE IF a.first[s] = None
             THEN [a EXCEPT !.missing = Append(@, ask(i))]
             ELSE [missing |-> a.missing \o <<ask(a.first[s]), ask(i)>>,
                   hit |-> [j \in DOMAIN a.hit \ {a.first[s]} |-> a.hit[j]],
                   first |-> [a.first EXCEPT ![s] = None]]
  IN walk[Len(p.short)]

\* reconstruct_compact_block: "error", or the slots (None where open) with what
\* is missing.
Reconstruct(p) ==
  LET index == compact_local_tx_index(pool, {sid[p.pre[i].tx] : i \in DOMAIN p.pre})
      found == compact_missing(p, index)
      preAt(i) == p.pre[CHOOSE j \in DOMAIN p.pre : p.pre[j].index = i].tx
      slots == [n \in 1 .. Entries(p) |->
                  IF n - 1 \in PreIndexes(p) THEN preAt(n - 1)
                  ELSE IF n - 1 \in DOMAIN found.hit THEN found.hit[n - 1] ELSE None]
      present == SelectSeq(slots, LAMBDA t : t # None)
  IN IF Len(found.missing) > MAX_COMPACT_RELAY_ENTRIES \/ ~SizesOk(present)
     THEN [sort |-> "error", slots |-> <<>>, missing |-> <<>>, present |-> 0]
     ELSE [sort |-> IF found.missing = <<>> THEN "whole" ELSE "part",
           slots |-> slots, missing |-> found.missing, present |-> SizeOf(present)]

(***************************************************************************)
(* The exchange.                                                           *)
(***************************************************************************)
NoRequest == [missing |-> <<>>, slots |-> <<>>, cap |-> 0]

Compact(b, pre) ==
  LET at == {i \in DOMAIN b : i - 1 \in pre}
      seqOf(S) == CHOOSE f \in [1 .. Cardinality(S) -> S] : \A i, j \in DOMAIN f : i < j => f[i] < f[j]
      ins == seqOf(at)
      outs == seqOf(DOMAIN b \ at)
  IN [short |-> [k \in DOMAIN outs |-> sid[b[outs[k]]]],
      pre |-> [k \in DOMAIN ins |-> [index |-> ins[k] - 1, tx |-> b[ins[k]]]]]

Nothing == [cmd |-> "none"]

Init ==
  /\ blk \in Blocks /\ pool \in Pools /\ sid \in ShortIdMaps
  /\ wire = Nothing /\ out = NoRequest
  /\ announced = FALSE /\ outcome = None

\* write_message marks the announcement once the frame is out.
Announce(pre) ==
  /\ wire = Nothing /\ ~announced /\ out = NoRequest /\ outcome = None
  /\ EncodeOk(Compact(blk, pre)) /\ LayoutOk(Compact(blk, pre))
  /\ wire' = [cmd |-> "cmpctblock", p |-> Compact(blk, pre)]
  /\ announced' = TRUE
  /\ UNCHANGED <<blk, sid, pool, out, outcome>>

OddAnnounce(p) ==
  /\ wire = Nothing /\ ~announced /\ out = NoRequest /\ outcome = None
  /\ wire' = [cmd |-> "cmpctblock", p |-> p]
  /\ UNCHANGED <<blk, sid, pool, out, announced, outcome>>

\* process_compact_transactions: the block's own commitments decide.
Process(txs, fallback) ==
  CASE ~SizesOk(txs) -> "fallback"
    [] SizesOk(txs) /\ txs = blk -> "applied"
    [] SizesOk(txs) /\ txs # blk /\ fallback -> "fallback"
    [] OTHER -> "refused"

blocktxn_payload_cap(r) ==
  HASH_BYTES + compact_size_wire_len(Len(r.missing)) + MAX_BLOCK_BYTES - r.present
  + Len(r.missing) * MAX_COMPACT_SIZE_BYTES

\* handle_cmpctblock after the header checks, no request outstanding.
HandleCmpct ==
  LET p == wire.p
      r == Reconstruct(p) IN
  /\ wire.cmd = "cmpctblock"
  /\ IF ~DecodeOk(p)
     THEN outcome' = "banned by receiver" /\ wire' = Nothing /\ UNCHANGED out
     ELSE CASE r.sort = "error" ->
                 /\ outcome' = IF p.short # <<>> THEN "fallback" ELSE "refused"
                 /\ wire' = Nothing /\ UNCHANGED out
            [] r.sort = "whole" ->
                 /\ outcome' = Process(r.slots, p.short # <<>>)
                 /\ wire' = Nothing /\ UNCHANGED out
            [] r.sort = "part" ->
                 /\ out' = [missing |-> r.missing, slots |-> r.slots, cap |-> blocktxn_payload_cap(r)]
                 /\ wire' = [cmd |-> "getblocktxn", indexes |-> [k \in DOMAIN r.missing |-> r.missing[k].index]]
                 /\ UNCHANGED outcome
  /\ UNCHANGED <<blk, sid, pool, announced>>

compact_block_transactions_by_index(b, indexes) == [k \in DOMAIN indexes |-> b[indexes[k] + 1]]

\* handle_getblocktxn at the announcer, which has the block.
HandleGetBlockTxn ==
  LET ix == wire.indexes
      txs == compact_block_transactions_by_index(blk, ix) IN
  /\ wire.cmd = "getblocktxn"
  /\ announced' = FALSE
  /\ CASE \/ Len(ix) > MAX_COMPACT_RELAY_ENTRIES
          \/ \E i, j \in DOMAIN ix : i # j /\ ix[i] = ix[j]
          \/ announced /\ \E i \in DOMAIN ix : ix[i] >= Len(blk) ->
            outcome' = "banned by announcer" /\ wire' = Nothing
       [] OTHER ->
            /\ wire' = IF announced THEN [cmd |-> "blocktxn", txs |-> txs] ELSE Nothing
            /\ UNCHANGED outcome
  /\ UNCHANGED <<blk, sid, pool, out>>

BlockTxnLen(txs) ==
  LET entry(k) == compact_size_wire_len(Size[txs[k]]) + Size[txs[k]]
  IN HASH_BYTES + compact_size_wire_len(Len(txs)) + SumOver(DOMAIN txs, entry)

\* compact_fill_response_transactions.
FillError(txs) ==
  CASE Len(txs) # Len(out.missing) -> "ban"
    [] \E k \in DOMAIN txs : out.slots[out.missing[k].index + 1] # None -> "ban"
    [] OTHER -> IF \E k \in DOMAIN txs : sid[txs[k]] # out.missing[k].sid THEN "mismatch" ELSE "none"

Fill(txs) ==
  [n \in DOMAIN out.slots |->
     IF out.slots[n] # None THEN out.slots[n]
     ELSE txs[CHOOSE k \in DOMAIN txs : out.missing[k].index = n - 1]]

\* handle_blocktxn for the active request.
HandleBlockTxn ==
  /\ wire.cmd = "blocktxn"
  /\ wire' = Nothing /\ out' = NoRequest
  /\ outcome' = CASE BlockTxnLen(wire.txs) > out.cap -> "banned by receiver"
                  [] OTHER -> CASE FillError(wire.txs) = "ban" -> "banned by receiver"
                                [] FillError(wire.txs) = "mismatch" -> "fallback"
                                [] OTHER -> Process(Fill(wire.txs), TRUE)
  /\ UNCHANGED <<blk, sid, pool, announced>>

Next ==
  \/ \E pre \in SUBSET (0 .. Len(blk) - 1) : Announce(pre)
  \/ \E p \in OddPayloads : OddAnnounce(p)
  \/ HandleCmpct \/ HandleGetBlockTxn \/ HandleBlockTxn

Spec == Init /\ [][Next]_vars

-----------------------------------------------------------------------------
(***************************************************************************)
(* Properties.                                                             *)
(***************************************************************************)
\* A candidate of the pool that is not in the block has the short id of a
\* transaction that is.
FalseGuess ==
  \E i \in DOMAIN pool, j \in DOMAIN blk :
    sid[pool[i]] = sid[blk[j]] /\ \A k \in DOMAIN blk : pool[i] # blk[k]

\* Whatever collides inside the block and whatever of it the pool holds, an
\* announcement of a stored block is completed by at most one request and needs
\* no full block, unless a foreign transaction of the pool has the short id of
\* one of its transactions or too many are missing for one request.
ExactWithoutCollision ==
  OddPayloads = {} /\ outcome # None /\ ~FalseGuess /\ Len(blk) <= MAX_COMPACT_RELAY_ENTRIES
    => outcome = "applied"

\* Two nodes that run this code never ban each other over a compact block: the
\* request is one the announcer serves, and the answer fits the cap the receiver
\* computed before it knew the transactions (again unless a foreign transaction
\* of the pool was mistaken for one of the block).
HonestNeverBanned ==
  OddPayloads = {} /\ ~FalseGuess => outcome \notin {"banned by receiver", "banned by announcer"}

\* A payload is decoded exactly if encode_cmpctblock_payload can produce it, and
\* what can be produced is also recognised when it is announced.
CodecsAgree ==
  wire.cmd = "cmpctblock" => /\ EncodeOk(wire.p) <=> DecodeOk(wire.p)
                             /\ EncodeOk(wire.p) => LayoutOk(wire.p)

\* The request names every open slot of the block once and no other, whoever
\* sent the announcement: no slot stays empty and none is written twice.
RequestCoversGaps ==
  out # NoRequest =>
    /\ {out.missing[k].index + 1 : k \in DOMAIN out.missing} = {n \in DOMAIN out.slots : out.slots[n] = None}
    /\ \A j, k \in DOMAIN out.missing : j # k => out.missing[j].index # out.missing[k].index
=============================================================================
