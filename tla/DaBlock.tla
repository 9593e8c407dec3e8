------------------------------- MODULE DaBlock ------------------------------
(***************************************************************************)
(* Data sets in a block (block_basic/da_set.rs): a commit transaction      *)
(* promises chunks under its da_id, chunk transactions carry them, and a   *)
(* block is accepted only with whole sets.  The helpers that do the same   *)
(* with a pool of threads (da_verify_parallel.rs) are modelled beside it:  *)
(* their results are reduced in the order of submission, which SigWorkers  *)
(* shows to be independent of the threads, so here a batch is a sequence.  *)
(*                                                                         *)
(* A payload is a sequence of bytes, and a hash is its preimage: the hash  *)
(* of a chunk is the payload it was made of, a commitment the concatenated *)
(* payloads it was made of.                                                *)
(***************************************************************************)
EXTENDS Checks, FiniteSets, SequencesExt

CONSTANTS Candidates,              \* transactions a block may be made of
          MaxTxs,                  \* of a block
          MAX_DA_BATCHES_PER_BLOCK,
          MAX_DA_CHUNK_COUNT,
          MAX_DA_BYTES_PER_BLOCK

VARIABLES txs,          \* the block's transactions after the coinbase
          sequential,   \* what block validation makes of them
          parallel      \* what the pool's helpers make of them

vars == <<txs, sequential, parallel>>

Commits(ts) == SelectSeq(ts, LAMBDA t : t.kind = "commit")
Chunks(ts) == SelectSeq(ts, LAMBDA t : t.kind = "chunk")
Ids(ts) == {ts[i].id : i \in DOMAIN ts}
InOrder(ids) == SetToSortSeq(ids, LAMBDA a, b : a < b)
DaBytes(ts) == Sum([i \in DOMAIN ts |-> IF ts[i].kind = "plain" THEN 0 ELSE Len(ts[i].payload)])

-----------------------------------------------------------------------------
(* Block validation.                                                       *)

validate_da_chunk_hashes(ts) ==
  Check(\A i \in DOMAIN Chunks(ts) : Chunks(ts)[i].hash = Chunks(ts)[i].payload, "DaChunkHashInvalid")

\* The maps keep the first transaction of a key and note that there are more.
collect_da_commits_and_chunks(ts) ==
  LET co == Commits(ts)
      ch == Chunks(ts)
      OfId(s, d) == SelectSeq(s, LAMBDA t : t.id = d)
      Indexed(d, n) == SelectSeq(ch, LAMBDA t : t.id = d /\ t.index = n)
      Indexes(d) == {t.index : t \in ToSet(OfId(ch, d))}
  IN [commits |-> [d \in Ids(co) |-> Head(OfId(co, d))],
      chunks |-> [d \in Ids(ch) |-> [n \in Indexes(d) |-> Head(Indexed(d, n))]],
      duplicate_commit_ids |-> {d \in Ids(co) : Len(OfId(co, d)) > 1},
      duplicate_chunk_indexes |-> [d \in Ids(ch) |-> {n \in Indexes(d) : Len(Indexed(d, n)) > 1}]]

\* Per set: no index twice, as many indexes as promised, none missing.
validate_da_set_completeness(sets) ==
  LET ids == InOrder(DOMAIN sets.commits)
      Whole(d) ==
        LET has == IF d \in DOMAIN sets.chunks THEN DOMAIN sets.chunks[d] ELSE {}
        IN Check(d \in DOMAIN sets.chunks => sets.duplicate_chunk_indexes[d] = {}, "DaIncomplete")
             ?? Check(Cardinality(has) = sets.commits[d].count, "DaIncomplete")
             ?? Check(d \in DOMAIN sets.chunks, "DaIncomplete")
             ?? Check(0..(sets.commits[d].count - 1) \subseteq has, "DaIncomplete")
  IN FirstError([i \in DOMAIN ids |-> Whole(ids[i])])

validate_da_set_structure(sets) ==
  Check(DOMAIN sets.chunks \subseteq DOMAIN sets.commits, "DaSetInvalid")
    ?? Check(sets.duplicate_commit_ids = {}, "DaSetInvalid")
    ?? validate_da_set_completeness(sets)
    ?? Check(Cardinality(DOMAIN sets.commits) <= MAX_DA_BATCHES_PER_BLOCK, "DaBatchExceeded")
    ?? Check(\A d \in DOMAIN sets.commits : sets.commits[d].count \in 1..MAX_DA_CHUNK_COUNT, "TxErrParse")

\* Mutant: the chunks are joined in the wrong order.
da_payload_commitment_Backwards(chunks, count) ==
  FlattenSeq([i \in 1..count |-> chunks[count - i].payload])

\* The payloads of chunks 0 to count - 1, one after the other.
da_payload_commitment(chunks, count) ==
  FlattenSeq([i \in 1..count |-> chunks[i - 1].payload])

\* Exactly one output of the right length carries the commitment.
da_commit_output_commitment(outs) ==
  Check(\A i \in DOMAIN outs : outs[i].length = 32, "DaPayloadCommitInvalid")
    ?? Check(Len(outs) = 1, "DaPayloadCommitInvalid")

validate_da_payload_commitments(sets) ==
  LET ids == InOrder(DOMAIN sets.commits)
  IN FirstError([i \in DOMAIN ids |->
       LET c == sets.commits[ids[i]]
       IN da_commit_output_commitment(c.outs)
            ?? Check(c.outs[1].of = da_payload_commitment(sets.chunks[ids[i]], c.count), "DaPayloadCommitInvalid")])

validate_da_set_integrity(ts) ==
  validate_da_chunk_hashes(ts)
    ?? LET sets == collect_da_commits_and_chunks(ts)
       IN validate_da_set_structure(sets) ?? validate_da_payload_commitments(sets)

\* The resource limits are looked at before the sets.
ValidateBlock(ts) ==
  Check(DaBytes(ts) <= MAX_DA_BYTES_PER_BLOCK, "WeightExceeded") ?? validate_da_set_integrity(ts)

-----------------------------------------------------------------------------
(* The pool's helpers, called in turn: tasks for the chunk hashes, their   *)
(* verification, tasks for the commitments, their verification.            *)

\* Every commit and chunk counts against the cap, whatever its task.
collect_da_chunk_hash_tasks(ts) ==
  [error |-> Check(DaBytes(ts) <= MAX_DA_BYTES_PER_BLOCK, "DaBatchExceeded"),
   tasks |-> [i \in DOMAIN Chunks(ts) |-> [payload |-> Chunks(ts)[i].payload, expected |-> Chunks(ts)[i].hash]]]

verify_da_chunk_hashes_parallel(tasks) ==
  FirstError([i \in DOMAIN tasks |-> Check(tasks[i].payload = tasks[i].expected, "DaChunkHashInvalid")])

\* The maps keep the last transaction of a key and note that there were more.
collect_da_payload_structure(ts) == collect_da_commits_and_chunks(Reverse(ts))

validate_da_payload_chunk_completeness(sets) ==
  LET ids == InOrder(DOMAIN sets.commits)
      Whole(d) ==
        LET has == IF d \in DOMAIN sets.chunks THEN DOMAIN sets.chunks[d] ELSE {}
        IN Check(d \in DOMAIN sets.chunks => sets.duplicate_chunk_indexes[d] = {}, "DaIncomplete")
             ?? Check(Cardinality(has) = sets.commits[d].count, "DaIncomplete")
             ?? Check(d \in DOMAIN sets.chunks, "DaIncomplete")
             ?? Check(\A n \in 0..(sets.commits[d].count - 1) : n \in has, "DaIncomplete")
  IN FirstError([i \in DOMAIN ids |-> Whole(ids[i])])

validate_da_payload_bounds(sets) ==
  Check(Cardinality(DOMAIN sets.commits) <= MAX_DA_BATCHES_PER_BLOCK, "DaBatchExceeded")
    ?? Check(\A d \in DOMAIN sets.commits : sets.commits[d].count \in 1..MAX_DA_CHUNK_COUNT, "TxErrParse")

validate_da_payload_structure(sets) ==
  Check(DOMAIN sets.chunks \subseteq DOMAIN sets.commits, "DaSetInvalid")
    ?? Check(sets.duplicate_commit_ids = {}, "DaSetInvalid")
    ?? validate_da_payload_chunk_completeness(sets)
    ?? validate_da_payload_bounds(sets)

\* The number of outputs is looked at before the length of the first.
da_payload_commitment_output(outs) ==
  Check(Len(outs) = 1, "DaPayloadCommitInvalid") ?? Check(outs[1].length = 32, "DaPayloadCommitInvalid")

\* Every set's output is looked at before any commitment is verified.
CommitOutputs(sets) ==
  LET ids == InOrder(DOMAIN sets.commits)
  IN FirstError([i \in DOMAIN ids |-> da_payload_commitment_output(sets.commits[ids[i]].outs)])

build_da_payload_commit_tasks(sets) ==
  LET ids == InOrder(DOMAIN sets.commits)
      Payloads(d) == [i \in 1..sets.commits[d].count |-> sets.chunks[d][i - 1].payload]
  IN [i \in DOMAIN ids |-> [payloads |-> Payloads(ids[i]), expected |-> sets.commits[ids[i]].outs[1].of]]

verify_da_payload_commits_parallel(tasks) ==
  FirstError([i \in DOMAIN tasks |->
    Check(Sum([k \in DOMAIN tasks[i].payloads |-> Len(tasks[i].payloads[k])]) <= MAX_DA_BYTES_PER_BLOCK, "DaBatchExceeded")
      ?? Check(FlattenSeq(tasks[i].payloads) = tasks[i].expected, "DaPayloadCommitInvalid")])

collect_da_payload_commit_tasks(ts) ==
  LET sets == collect_da_payload_structure(ts)
  IN Check(DaBytes(ts) <= MAX_DA_BYTES_PER_BLOCK, "DaBatchExceeded")
       ?? validate_da_payload_structure(sets)
       ?? CommitOutputs(sets)
       ?? verify_da_payload_commits_parallel(build_da_payload_commit_tasks(sets))

ValidateWithPool(ts) ==
  LET hashes == collect_da_chunk_hash_tasks(ts)
  IN hashes.error ?? verify_da_chunk_hashes_parallel(hashes.tasks) ?? collect_da_payload_commit_tasks(ts)

-----------------------------------------------------------------------------
Init == txs = <<>> /\ sequential = Ok /\ parallel = Ok

\* A block with one transaction more is validated, both ways.
Extend(t) ==
  /\ Len(txs) < MaxTxs
  /\ txs' = Append(txs, t)
  /\ sequential' = ValidateBlock(txs')
  /\ parallel' = ValidateWithPool(txs')

Next == \E t \in Candidates : Extend(t)

Spec == Init /\ [][Next]_vars

-----------------------------------------------------------------------------
(* Properties.                                                             *)

\* What an accepted block holds, said without maps: every da_id in use has
\* one commit, whose chunks 0 .. count - 1 are each there once, intact, and
\* add up to the one commitment the commit carries.
WholeSets(ts) ==
  /\ DaBytes(ts) <= MAX_DA_BYTES_PER_BLOCK
  /\ Cardinality(Ids(Commits(ts)) \cup Ids(Chunks(ts))) <= MAX_DA_BATCHES_PER_BLOCK
  /\ \A i \in DOMAIN ts : ts[i].kind = "chunk" => ts[i].hash = ts[i].payload
  /\ \A d \in Ids(Commits(ts)) \cup Ids(Chunks(ts)) :
       \E i \in DOMAIN ts :
         LET c == ts[i]
             mine == {k \in DOMAIN ts : ts[k].kind = "chunk" /\ ts[k].id = d}
         IN /\ c.kind = "commit" /\ c.id = d /\ c.count \in 1..MAX_DA_CHUNK_COUNT
            /\ \A k \in DOMAIN ts : ts[k].kind = "commit" /\ ts[k].id = d => k = i
            /\ Cardinality(mine) = c.count
            /\ \E place \in [0..(c.count - 1) -> mine] :
                 /\ \A n \in 0..(c.count - 1) : ts[place[n]].index = n
                 /\ c.outs = <<[length |-> 32, of |-> FlattenSeq([n \in 1..c.count |-> ts[place[n - 1]].payload])]>>

\* Block validation accepts exactly the blocks whose data sets are whole,
\* whatever the order of commits and chunks in the block.
AcceptsWholeSets == (sequential = Ok) <=> WholeSets(txs)

\* The pool's helpers reject the same blocks with the same code as block
\* validation; only the byte cap has a code of its own, being part of the
\* resource limits there.
PoolAgrees ==
  IF DaBytes(txs) > MAX_DA_BYTES_PER_BLOCK
  THEN sequential = "WeightExceeded" /\ parallel = "DaBatchExceeded"
  ELSE parallel = sequential
=============================================================================
