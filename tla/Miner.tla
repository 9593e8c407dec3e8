------------------------------- MODULE Miner --------------------------------
(***************************************************************************)
(* Block template construction (miner.rs): which transactions of the pool  *)
(* or of the caller's list, and which whole data sets of the relay, the    *)
(* miner puts in its next block.  The candidates are looked at one by one, *)
(* so are the sets, and the running totals carried from one to the next    *)
(* decide.  The template is then judged by the rules of a block: module    *)
(* DaBlock for the data sets, and the spending of outputs in block order.  *)
(*                                                                         *)
(* A transaction's input is the output it spends, its weight and payload   *)
(* are given, and an output is worth what Value says.  Signatures and      *)
(* covenants (module Covenants) hold or do not: field valid.               *)
(***************************************************************************)
EXTENDS Naturals, Sequences, FiniteSets, SequencesExt

CONSTANTS
    Inputs,         \* the caller's list, the pool, and the sets the relay offers
    Configs,        \* miner configurations
    Value,          \* the value of every confirmed output
    COINBASE_WEIGHT,
    MAX_BLOCK_WEIGHT,
    MAX_DA_BATCHES_PER_BLOCK,
    MAX_DA_CHUNK_COUNT,
    MAX_DA_BYTES_PER_BLOCK

VARIABLES
    flat,       \* candidates not looked at yet
    sets,       \* data sets not looked at yet
    given,      \* the candidates and sets the search began with
    cfg,
    template,   \* what has been selected, and the running totals
    outcome     \* "searching", "template", or "aborted"

vars == <<flat, sets, given, cfg, template, outcome>>

DA == INSTANCE DaBlock
        WITH Candidates <- {}, MaxTxs <- 0, txs <- flat, sequential <- flat, parallel <- flat

max_selected == IF cfg.max_tx_per_block = 0 THEN 1023 ELSE cfg.max_tx_per_block - 1
remaining_weight_budget == MAX_BLOCK_WEIGHT - COINBASE_WEIGHT

Empty == [parsed |-> <<>>, weight |-> 0, policy_da |-> 0, provider_da |-> 0,
          batches |-> 0, da_ids |-> {}, nonces |-> {}, inputs |-> {}]

IsDa(tx) == tx.kind \in {"commit", "chunk"}
da_bytes(tx) == IF IsDa(tx) THEN Len(tx.payload) ELSE 0

-----------------------------------------------------------------------------
(* Policy.                                                                 *)

\* Not an amount when an input is not a confirmed output.
compute_fee_no_verify(tx) ==
    LET total == MapThenSumSet(LAMBDA o : Value[o], tx.ins)
    IN IF tx.ins # {} /\ tx.ins \subseteq DOMAIN Value /\ tx.out <= total
       THEN {total - tx.out}
       ELSE {}

reject_da_anchor_tx_policy(tx) ==
    LET relay_floor == tx.weight * cfg.min_fee_rate
        da_required == da_bytes(tx) * (cfg.min_da_fee_rate + cfg.da_surcharge_per_byte)
        required == IF relay_floor > da_required THEN relay_floor ELSE da_required
    IN /\ da_bytes(tx) > 0
       /\ required > 0
       /\ \A fee \in compute_fee_no_verify(tx) : fee < required

apply_policy_rejects(tx) ==
    /\ cfg.anti_abuse
    /\ \/ cfg.reject_anchor_outputs /\ tx.anchor
       \/ reject_da_anchor_tx_policy(tx)

\* The total with these bytes, if they fit.
updated_policy_da_bytes(current, bytes, max) ==
    IF bytes = 0 \/ max = 0 THEN {current}
    ELSE {next \in {current + bytes} : next <= max}

\* The policy's data bytes with this transaction, if policy takes it.
reject_candidate(tx, policy_da) ==
    IF apply_policy_rejects(tx) THEN {}
    ELSE IF cfg.anti_abuse
    THEN updated_policy_da_bytes(policy_da, da_bytes(tx), cfg.max_da_bytes_per_block)
    ELSE {policy_da}

\* No nonce and no input twice, in the group or with what is selected.
collect_complete_da_set_group_inputs(group, t) ==
    /\ \A i \in DOMAIN group :
          /\ group[i].nonce # 0 /\ group[i].nonce \notin t.nonces
          /\ group[i].ins \cap t.inputs = {}
    /\ \A i, j \in DOMAIN group :
          i # j => group[i].nonce # group[j].nonce /\ group[i].ins \cap group[j].ins = {}

Added(t, group) ==
    [t EXCEPT !.parsed = @ \o group,
              !.weight = @ + FoldSet(LAMBDA i, n : n + group[i].weight, 0, DOMAIN group),
              !.nonces = @ \cup {group[i].nonce : i \in DOMAIN group},
              !.inputs = @ \cup UNION {group[i].ins : i \in DOMAIN group}]

-----------------------------------------------------------------------------
(* Candidates.                                                             *)

\* Data transactions never come in by themselves, and are passed over before
\* the count is reached; bytes are not limited here.
pick_flat_candidate_raw(txs, max) ==
    LET plain == SelectSeq(txs, LAMBDA tx : ~IsDa(tx))
    IN SubSeq(plain, 1, IF Len(plain) < max THEN Len(plain) ELSE max)

Fee(tx) == CHOOSE fee \in compute_fee_no_verify(tx) : TRUE

\* Fee rate, then fee, then the lighter, then the transaction id.
compare_entries_for_mining(a, b) ==
    LET ra == Fee(a) * b.weight
        rb == Fee(b) * a.weight
    IN \/ ra > rb
       \/ ra = rb /\ Fee(a) > Fee(b)
       \/ ra = rb /\ Fee(a) = Fee(b) /\ a.weight < b.weight
       \/ ra = rb /\ Fee(a) = Fee(b) /\ a.weight = b.weight /\ a.nonce < b.nonce

\* From the pool, best first, as long as the bytes fit.
select_transactions_with_filter(pool, max, max_bytes) ==
    LET best == SelectSeq(SetToSortSeq(pool, compare_entries_for_mining), LAMBDA tx : ~IsDa(tx))
        upto[i \in 0 .. Len(best)] ==
          IF i = 0 THEN [txs |-> <<>>, bytes |-> 0]
          ELSE LET sel == upto[i - 1]
               IN IF Len(sel.txs) >= max \/ best[i].weight > max_bytes - sel.bytes
                  THEN sel
                  ELSE [txs |-> Append(sel.txs, best[i]), bytes |-> sel.bytes + best[i].weight]
    IN upto[Len(best)].txs

\* The caller's list when there is one, the pool otherwise.
candidate_transactions(list, pool) ==
    IF max_selected = 0 THEN <<>>
    ELSE IF list # <<>> THEN pick_flat_candidate_raw(list, max_selected)
    ELSE select_transactions_with_filter(pool, max_selected, MAX_BLOCK_WEIGHT)

\* One candidate: policy, nonce and inputs, weight; a candidate that fails
\* one of them leaves no trace.
take_flat(t, tx) ==
    LET next == reject_candidate(tx, t.policy_da)
    IN IF \/ next = {}
          \/ ~collect_complete_da_set_group_inputs(<<tx>>, t)
          \/ tx.weight > remaining_weight_budget - t.weight
       THEN t
       ELSE [Added(t, <<tx>>) EXCEPT !.policy_da = CHOOSE n \in next : TRUE]

-----------------------------------------------------------------------------
(* Data sets.                                                              *)

Group(set) == <<set.commit>> \o [i \in DOMAIN set.chunks |-> set.chunks[i].tx]

\* A commit with exactly one commitment output, to the chunks' payloads.
complete_da_commitment_matches(set) ==
    /\ Len(set.commit.outs) = 1
    /\ set.commit.outs[1].length = 32
    /\ set.commit.outs[1].of = DA!da_payload_commitment(
          [n \in 0 .. Len(set.chunks) - 1 |-> set.chunks[n + 1].tx], Len(set.chunks))

CommitShape(set) ==
    /\ set.commit.kind = "commit"
    /\ set.commit.id = set.da_id
    /\ set.commit.count \in 1 .. MAX_DA_CHUNK_COUNT
    /\ Len(set.chunks) = set.commit.count
    /\ set.commit.ins # {}


ChunkShape(set, i) ==
    /\ set.chunks[i].index = i - 1
    /\ set.chunks[i].tx.kind = "chunk"
    /\ set.chunks[i].tx.id = set.da_id
    /\ set.chunks[i].tx.index = i - 1
    /\ set.chunks[i].tx.ins # {}
    /\ set.chunks[i].tx.hash = set.chunks[i].tx.payload

\* Whether the set is a whole one; one that is not is passed over.
parse_complete_da_set_candidate(set) ==
    /\ CommitShape(set)
    /\ \A i \in DOMAIN set.chunks : ChunkShape(set, i)
    /\ complete_da_commitment_matches(set)

\* The parser meets a transaction that is not canonical before it meets a
\* reason to pass the set over.
Unparsable(set) ==
    \/ ~set.commit.canonical
    \/ /\ CommitShape(set)
       /\ \E i \in DOMAIN set.chunks :
             /\ set.chunks[i].index = i - 1
             /\ ~set.chunks[i].tx.canonical
             /\ \A j \in 1 .. i - 1 : ChunkShape(set, j)

DaOf(set) == FoldSet(LAMBDA i, n : n + da_bytes(Group(set)[i]), 0, DOMAIN Group(set))

\* The outputs that exist when transaction i of the group is applied, the
\* group's own included, starting from the confirmed ones it spends.
Unspent(group, i) ==
    (DOMAIN Value \cup UNION {group[j].made : j \in 1 .. i - 1})
        \ UNION {group[j].ins : j \in 1 .. i - 1}

validate_complete_da_set_group_consensus(group) ==
    \A i \in DOMAIN group : group[i].valid /\ group[i].ins \subseteq Unspent(group, i)

\* The policy's data bytes after each transaction of the group.
PolicyOf(group, from) ==
    LET after[i \in 0 .. Len(group)] ==
          IF i = 0 THEN {from}
          ELSE UNION {reject_candidate(group[i], n) : n \in after[i - 1]}
    IN after[Len(group)]

project_complete_da_set_group(group, t) ==
    IF /\ collect_complete_da_set_group_inputs(group, t)
       /\ Added(t, group).weight <= remaining_weight_budget
       /\ validate_complete_da_set_group_consensus(group)
    THEN PolicyOf(group, t.policy_da)
    ELSE {}

provider_budget ==
    IF cfg.anti_abuse /\ cfg.max_da_bytes_per_block \in 1 .. MAX_DA_BYTES_PER_BLOCK
    THEN cfg.max_da_bytes_per_block
    ELSE MAX_DA_BYTES_PER_BLOCK

\* The set is passed over without being parsed.
SkipUnparsed(t, set) ==
    \/ set.da_id \in t.da_ids
    \/ Len(set.chunks) + 1 > max_selected - Len(t.parsed)

\* One data set: whole or not at all.
take_set(t, set) ==
    LET group == Group(set)
        provider == updated_policy_da_bytes(t.provider_da, DaOf(set), provider_budget)
        policy == project_complete_da_set_group(group, t)
    IN IF ~parse_complete_da_set_candidate(set) \/ provider = {} \/ policy = {}
       THEN t
       ELSE [Added(t, group) EXCEPT !.policy_da = CHOOSE n \in policy : TRUE,
                                    !.provider_da = CHOOSE n \in provider : TRUE,
                                    !.batches = @ + 1,
                                    !.da_ids = @ \cup {set.da_id}]

-----------------------------------------------------------------------------
Init ==
    /\ cfg \in Configs
    /\ \E in \in Inputs :
          /\ flat = candidate_transactions(in.list, in.pool)
          /\ sets = in.sets
    /\ given = [flat |-> flat, sets |-> sets]
    /\ template = Empty
    /\ outcome = "searching"

\* The loop over the candidates.
TakeFlat ==
    /\ outcome = "searching" /\ flat # <<>>
    /\ Len(template.parsed) < max_selected
    /\ IF Head(flat).canonical
       THEN template' = take_flat(template, Head(flat)) /\ UNCHANGED outcome
       ELSE outcome' = "aborted" /\ UNCHANGED template
    /\ flat' = Tail(flat)
    /\ UNCHANGED <<sets, given, cfg>>

Full == Len(template.parsed) >= max_selected

FlatDone == flat = <<>> \/ Full

\* The loop over the data sets, entered with places and weight to spare.
TakeSet ==
    /\ outcome = "searching" /\ FlatDone
    /\ sets # <<>> /\ ~Full
    /\ template.batches > 0 \/ template.weight < remaining_weight_budget
    /\ template.batches < MAX_DA_BATCHES_PER_BLOCK
    /\ IF SkipUnparsed(template, Head(sets)) THEN UNCHANGED <<template, outcome>>
       ELSE IF Unparsable(Head(sets)) THEN outcome' = "aborted" /\ UNCHANGED template
       ELSE template' = take_set(template, Head(sets)) /\ UNCHANGED outcome
    /\ sets' = Tail(sets)
    /\ UNCHANGED <<flat, given, cfg>>

Finish ==
    /\ outcome = "searching" /\ FlatDone
    /\ \/ sets = <<>> \/ Full
       \/ template.batches = 0 /\ template.weight >= remaining_weight_budget
       \/ template.batches >= MAX_DA_BATCHES_PER_BLOCK
    /\ outcome' = "template"
    /\ UNCHANGED <<flat, sets, given, cfg, template>>

Next == TakeFlat \/ TakeSet \/ Finish

Spec == Init /\ [][Next]_vars

-----------------------------------------------------------------------------
(* Properties.                                                             *)

Txs == {template.parsed[i] : i \in DOMAIN template.parsed}
Total(F(_)) == FoldSet(LAMBDA i, n : n + F(template.parsed[i]), 0, DOMAIN template.parsed)

\* The candidates the pool offers spend confirmed outputs and are valid at
\* the tip; the caller's list and a pool that has not been cleaned up since
\* the tip moved may hold others.
FlatIsSound ==
    \A i \in DOMAIN given.flat : given.flat[i].valid /\ given.flat[i].ins \subseteq DOMAIN Value

\* The miner never spends its proof of work on a block its own node refuses:
\* with sound candidates, and whatever data sets the relay offers, the
\* finished template spends no output twice or before it exists, repeats no
\* nonce, stays within the block's weight and count, and holds whole data
\* sets within the block's limits.
TemplateIsValid ==
    outcome = "template" /\ FlatIsSound =>
        /\ validate_complete_da_set_group_consensus(template.parsed)
        /\ \A i, j \in DOMAIN template.parsed :
              i # j => /\ template.parsed[i].nonce # template.parsed[j].nonce
                       /\ template.parsed[i].ins \cap template.parsed[j].ins = {}
        /\ 0 \notin {tx.nonce : tx \in Txs}
        /\ COINBASE_WEIGHT + Total(LAMBDA tx : tx.weight) <= MAX_BLOCK_WEIGHT
        /\ Len(template.parsed) <= max_selected
        /\ DA!ValidateBlock(template.parsed) = "ok"

\* The policy for data bytes is kept over candidates and sets together.
PolicyIsKept ==
    outcome = "template" /\ cfg.anti_abuse =>
        /\ cfg.max_da_bytes_per_block > 0 =>
              Total(da_bytes) <= cfg.max_da_bytes_per_block
        /\ \A tx \in Txs : ~apply_policy_rejects(tx)

\* The template when only the given candidates and sets are looked at.
Selected(f, s) ==
    LET flats[i \in 0 .. Len(f)] ==
          IF i = 0 THEN Empty
          ELSE IF Len(flats[i - 1].parsed) >= max_selected THEN flats[i - 1]
          ELSE take_flat(flats[i - 1], f[i])
        with[i \in 0 .. Len(s)] ==
          IF i = 0 THEN flats[Len(f)]
          ELSE IF \/ Len(with[i - 1].parsed) >= max_selected
                  \/ with[i - 1].batches >= MAX_DA_BATCHES_PER_BLOCK
                  \/ i = 1 /\ with[0].weight >= remaining_weight_budget
                  \/ SkipUnparsed(with[i - 1], s[i])
          THEN with[i - 1]
          ELSE take_set(with[i - 1], s[i])
    IN with[Len(s)].parsed

Without(s, i) == [j \in 1 .. Len(s) - 1 |-> IF j < i THEN s[j] ELSE s[j + 1]]

\* What is passed over leaves no trace: without a candidate or a set that was
\* not selected the template is the same.  So no candidate can keep another
\* one out without being in the block itself.
PassedOverLeavesNoTrace ==
    outcome = "template" =>
        /\ \A i \in DOMAIN given.flat :
              given.flat[i] \notin Txs =>
                  Selected(Without(given.flat, i), given.sets) = template.parsed
        /\ \A i \in DOMAIN given.sets :
              given.sets[i].commit \notin Txs =>
                  Selected(given.flat, Without(given.sets, i)) = template.parsed
=============================================================================
