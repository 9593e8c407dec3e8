------------------------------- MODULE DaRelay -------------------------------
(***************************************************************************)
(* The staging area for data-availability sets that peers relay           *)
(* (rubin-node da_relay.rs): a commit and its chunks arrive one by one,   *)
(* from several peers, are charged to byte budgets, and are joined into a *)
(* complete set, expired, released with their peer or consumed by a block.*)
(*                                                                         *)
(* A payload is a sequence of symbols and a hash has no collisions: a      *)
(* chunk hash stands for the payload it names and a payload commitment for *)
(* the concatenation it names.  Every operation runs under the one mutex   *)
(* around DaRelayState, so each is one step.  The arrival clock            *)
(* (received_time), which only orders a listing, is left out.              *)
(***************************************************************************)
EXTENDS Integers, FiniteSetsExt, SequencesExt

CONSTANTS
    DaIds,                    \* identifiers of data-availability sets
    PeerKeys,                 \* quota keys of remote hosts
    Local,                    \* the empty key: a transaction of this node
    Commits,                  \* the commit transactions that may arrive
    Chunks,                   \* the chunk transactions that may arrive
    MAX_DA_CHUNK_COUNT, CHUNK_BYTES,
    orphan_pool_bytes, orphan_pool_per_peer_bytes, orphan_pool_per_da_id_bytes,
    orphan_commit_overhead_bytes, orphan_ttl_blocks, pinned_payload_bytes,
    MaxAdvance,               \* bound: blocks accepted in one step
    None, Err

\* DaRelayCaps::validate.
caps_validate ==
    /\ {orphan_pool_bytes, orphan_pool_per_peer_bytes, orphan_pool_per_da_id_bytes,
        orphan_commit_overhead_bytes, orphan_ttl_blocks, pinned_payload_bytes} \subseteq Nat \ {0}
    /\ orphan_pool_per_peer_bytes <= orphan_pool_bytes
    /\ orphan_pool_per_da_id_bytes <= orphan_pool_bytes
    /\ orphan_commit_overhead_bytes <= orphan_pool_bytes

VARIABLE relay                \* DaRelayState

Keys == PeerKeys \union {Local}

Get(map, key) == IF key \in DOMAIN map THEN map[key] ELSE 0

\* Counters of a map are dropped when they reach zero.
Put(map, updates) ==
    LET value(k) == IF k \in DOMAIN updates THEN updates[k] ELSE map[k]
    IN  [k \in {j \in DOMAIN map \union DOMAIN updates : value(j) # 0} |-> value(k)]

SumOf(map) == MapThenSumSet(LAMBDA k : map[k], DOMAIN map)

Keep(map, keys) == [k \in DOMAIN map \intersect keys |-> map[k]]

-----------------------------------------------------------------------------
(* One set: DaRelaySetRecord. *)

new_record(da_id) ==
    [da_id |-> da_id, state |-> "OrphanChunks", payload_bytes |-> 0,
     ttl_blocks_remaining |-> 0, wire_bytes |-> 0, peer_bytes |-> <<>>,
     commit |-> None, chunks |-> <<>>, replaceable_chunks |-> {}]

Indexes(commit) == 0 .. commit.chunk_count - 1

\* A chunk that still waits is charged for its transaction and its payload.
orphan_chunk_accounting_bytes(chunk) == chunk.wire_bytes + Len(chunk.payload)

validate_chunk_insert(r, index) ==
    \/ index \in DOMAIN r.chunks /\ index \in r.replaceable_chunks
    \/ /\ index \notin DOMAIN r.chunks
       /\ r.commit # None => index < r.commit.chunk_count

prune_chunks_outside_commit(r) ==
    [r EXCEPT !.chunks = Keep(@, Indexes(r.commit)),
              !.replaceable_chunks = @ \intersect Indexes(r.commit)]

recompute_wire_bytes(r) ==
    LET held == DOMAIN r.chunks
        commit_bytes == IF r.commit = None THEN 0 ELSE r.commit.wire_bytes
        owners == {r.chunks[i].peer : i \in held}
                      \union (IF r.commit = None THEN {} ELSE {r.commit.peer})
        charged(k) ==
            (IF r.commit # None /\ r.commit.peer = k THEN commit_bytes ELSE 0)
            + MapThenSumSet(LAMBDA i : orphan_chunk_accounting_bytes(r.chunks[i]),
                            {i \in held : r.chunks[i].peer = k})
    IN  [r EXCEPT !.wire_bytes = commit_bytes + MapThenSumSet(LAMBDA i : r.chunks[i].wire_bytes, held),
                  !.peer_bytes = [k \in owners |-> charged(k)]]

\* completion_snapshot: the chunks in order, when the commit can be tested.
Completable(r) ==
    /\ r.commit # None /\ r.state # "CompleteSet"
    /\ \A i \in Indexes(r.commit) : i \in DOMAIN r.chunks \ r.replaceable_chunks

payload_commitment(r) ==
    FlattenSeq([n \in 1 .. r.commit.chunk_count |-> r.chunks[n - 1].payload])

missing_chunk_indexes(r) ==
    IF r.commit = None \/ r.state = "CompleteSet" THEN {}
    ELSE {i \in Indexes(r.commit) : i \notin DOMAIN r.chunks \/ i \in r.replaceable_chunks}

mark_complete(r) ==
    [r EXCEPT !.payload_bytes = Len(payload_commitment(r)), !.state = "CompleteSet",
              !.ttl_blocks_remaining = 0, !.replaceable_chunks = {},
              !.chunks = [i \in DOMAIN @ |-> [@[i] EXCEPT !.payload = <<>>]]]

orphan_peer_bytes(r) == IF r.state = "CompleteSet" THEN <<>> ELSE r.peer_bytes

orphan_wire_bytes(r) == SumOf(orphan_peer_bytes(r))

orphan_commit_bytes(r) ==
    IF r.state = "CompleteSet" \/ r.commit = None THEN 0 ELSE r.commit.wire_bytes

pinned_payload_accounting_bytes(r) == IF r.state = "CompleteSet" THEN r.payload_bytes ELSE 0

empty_incomplete(r) == r.state # "CompleteSet" /\ r.commit = None /\ DOMAIN r.chunks = {}

\* The set without what one peer delivered; the set itself when that is nothing.
without_peer_quota_key(r, key) ==
    LET drop_commit == r.commit # None /\ r.commit.peer = key
        indexes == {i \in DOMAIN r.chunks : r.chunks[i].peer = key}
        uncommitted == r.commit = None \/ drop_commit
    IN  IF r.state = "CompleteSet" \/ r.wire_bytes = 0 \/ (~drop_commit /\ indexes = {}) THEN r
        ELSE recompute_wire_bytes(
                [r EXCEPT !.commit = IF drop_commit THEN None ELSE @,
                          !.chunks = Keep(@, DOMAIN @ \ indexes),
                          !.replaceable_chunks = IF uncommitted THEN {} ELSE @ \ indexes,
                          !.payload_bytes = 0,
                          !.state = IF uncommitted THEN "OrphanChunks" ELSE @])

-----------------------------------------------------------------------------
(* The budgets. *)

\* The new value of a counter, or Err: below zero, or above its cap.
project_counter(current, remove, add, cap) ==
    IF remove > current \/ current - remove + add > cap THEN Err ELSE current - remove + add

\* project_peer_counter for every key that pays before or after the change.
project_peer_bytes(s, old, new) ==
    [k \in DOMAIN old \union DOMAIN new |->
        project_counter(Get(s.by_peer, k), Get(old, k), Get(new, k), orphan_pool_per_peer_bytes)]

Failed(map) == \E k \in DOMAIN map : map[k] = Err

\* apply_record: every budget is projected first; one refusal refuses the change.
apply_record(s, r) ==
    LET da_id == r.da_id
        old == IF da_id \in DOMAIN s.sets THEN s.sets[da_id] ELSE new_record(da_id)
        old_bytes == orphan_wire_bytes(old)
        new_bytes == orphan_wire_bytes(r)
        peers == project_peer_bytes(s, orphan_peer_bytes(old), orphan_peer_bytes(r))
        orphan == project_counter(s.orphan_bytes, old_bytes, new_bytes, orphan_pool_bytes)
        by_id == project_counter(Get(s.by_da_id, da_id), old_bytes, new_bytes, orphan_pool_per_da_id_bytes)
        overhead == project_counter(s.commit_overhead, orphan_commit_bytes(old), orphan_commit_bytes(r),
                                    orphan_commit_overhead_bytes)
        pinned == project_counter(s.pinned, pinned_payload_accounting_bytes(old),
                                  pinned_payload_accounting_bytes(r), pinned_payload_bytes)
    IN  IF Failed(peers) \/ Err \in {orphan, by_id, overhead, pinned} THEN Err
        ELSE [orphan_bytes |-> orphan, commit_overhead |-> overhead, pinned |-> pinned,
              by_peer |-> Put(s.by_peer, peers),
              by_da_id |-> Put(s.by_da_id, [k \in {da_id} |-> by_id]),
              sets |-> [k \in DOMAIN s.sets \union {da_id} |-> IF k = da_id THEN r ELSE s.sets[k]]]

\* project_ttl_expiry and apply_ttl_expiry_projection: drop whole sets at once.
expire(s, ids) ==
    LET removed(k) == MapThenSumSet(LAMBDA d : Get(orphan_peer_bytes(s.sets[d]), k), ids)
        owners == UNION {DOMAIN orphan_peer_bytes(s.sets[d]) : d \in ids}
        peers == [k \in owners |->
                    project_counter(Get(s.by_peer, k), removed(k), 0, orphan_pool_per_peer_bytes)]
        by_id == [d \in ids |->
                    project_counter(Get(s.by_da_id, d), orphan_wire_bytes(s.sets[d]), 0,
                                    orphan_pool_per_da_id_bytes)]
        orphan == project_counter(s.orphan_bytes,
                                  MapThenSumSet(LAMBDA d : orphan_wire_bytes(s.sets[d]), ids), 0,
                                  orphan_pool_bytes)
        overhead == project_counter(s.commit_overhead,
                                    MapThenSumSet(LAMBDA d : orphan_commit_bytes(s.sets[d]), ids), 0,
                                    orphan_commit_overhead_bytes)
    IN  IF Failed(peers) \/ Failed(by_id) \/ Err \in {orphan, overhead} THEN Err
        ELSE [s EXCEPT !.orphan_bytes = orphan, !.commit_overhead = overhead,
                       !.by_peer = Put(@, peers), !.by_da_id = Put(@, by_id),
                       !.sets = Keep(@, DOMAIN @ \ ids)]

-----------------------------------------------------------------------------
(* Staging. *)

OrElse(result, s) == IF result = Err THEN s ELSE result

\* A commit that the chunks on hand contradict is kept and those chunks go.
DropMatchingChunks(s, r) ==
    OrElse(apply_record(s, recompute_wire_bytes(
        [r EXCEPT !.chunks = Keep(@, DOMAIN @ \ Indexes(r.commit)),
                  !.replaceable_chunks = @ \ Indexes(r.commit),
                  !.payload_bytes = 0, !.state = "StagedCommit"])), s)

\* A chunk that contradicts the commit is refused; the chunks of the stored set
\* become replaceable when they are, one by one, those the test was made with.
MarkMatchingChunksReplaceable(s, r) ==
    LET old == s.sets[r.da_id]
        same == \A i \in Indexes(r.commit) :
                    /\ i \in DOMAIN old.chunks
                    /\ old.chunks[i].chunk_hash = r.chunks[i].chunk_hash
    IN  IF r.da_id \in DOMAIN s.sets /\ same
        THEN OrElse(apply_record(s, [old EXCEPT !.replaceable_chunks = @ \union Indexes(r.commit)]), s)
        ELSE s

prepare_and_apply_record(s, record, mismatch_action) ==
    LET r == recompute_wire_bytes(record)
    IN  CASE ~Completable(r) -> OrElse(apply_record(s, r), s)
          [] Completable(r) /\ payload_commitment(r) = r.commit.payload_commitment ->
                OrElse(apply_record(s, mark_complete(r)), s)
          [] Completable(r) /\ payload_commitment(r) # r.commit.payload_commitment ->
                IF mismatch_action = "DropMatchingChunks" THEN DropMatchingChunks(s, r)
                ELSE MarkMatchingChunksReplaceable(s, r)

Stored(s, da_id) == IF da_id \in DOMAIN s.sets THEN s.sets[da_id] ELSE new_record(da_id)

stage_incomplete_da_commit(s, key, tx) ==
    LET r == [Stored(s, tx.da_id) EXCEPT
                !.commit = [peer |-> key, chunk_count |-> tx.chunk_count, wire_bytes |-> tx.wire_bytes,
                            payload_commitment |-> tx.payload_commitment],
                !.state = "StagedCommit", !.ttl_blocks_remaining = orphan_ttl_blocks]
    IN  IF /\ tx.chunk_count \in 1 .. MAX_DA_CHUNK_COUNT
           /\ tx.wire_bytes # 0
           /\ Stored(s, tx.da_id).commit = None
        THEN prepare_and_apply_record(s, prune_chunks_outside_commit(r), "DropMatchingChunks")
        ELSE s

validate_da_chunk(tx) ==
    /\ tx.chunk_index < MAX_DA_CHUNK_COUNT
    /\ Len(tx.payload) \in 1 .. CHUNK_BYTES
    /\ tx.wire_bytes >= Len(tx.payload)

Inserted(r, key, tx) ==
    LET chunk == [peer |-> key, chunk_hash |-> tx.chunk_hash, payload |-> tx.payload,
                  wire_bytes |-> tx.wire_bytes]
    IN  [r EXCEPT !.chunks = [i \in DOMAIN @ \union {tx.chunk_index} |->
                                 IF i = tx.chunk_index THEN chunk ELSE @[i]],
                  !.replaceable_chunks = @ \ {tx.chunk_index}]

stage_incomplete_da_chunk(s, key, tx) ==
    LET current == Stored(s, tx.da_id)
        r == IF current.commit # None THEN current
             ELSE [current EXCEPT !.state = "OrphanChunks", !.ttl_blocks_remaining = orphan_ttl_blocks]
    IN  IF /\ validate_da_chunk(tx)
           /\ validate_chunk_insert(current, tx.chunk_index)
           /\ tx.chunk_hash = tx.payload
        THEN prepare_and_apply_record(s, Inserted(r, key, tx), "MarkMatchingChunksReplaceable")
        ELSE s

-----------------------------------------------------------------------------
(* Expiry, release and consumption. *)

\* Only sets with an entry in by_da_id are visited.
Waiting(s) == {d \in DOMAIN s.by_da_id : d \in DOMAIN s.sets /\ s.sets[d].state # "CompleteSet"}

advance_orphan_ttl_by(s, blocks) ==
    LET expiring == {d \in Waiting(s) : s.sets[d].ttl_blocks_remaining <= blocks}
        aged == [s EXCEPT !.sets = [d \in DOMAIN @ |->
                    IF d \in Waiting(s) \ expiring
                    THEN [@[d] EXCEPT !.ttl_blocks_remaining = @ - blocks] ELSE @[d]]]
    IN  IF expire(s, expiring) = Err THEN s ELSE expire(aged, expiring)

\* One set of release_peer_quota_key; an error keeps what was done so far.
release_from(work, da_id, key) ==
    LET s == work.s
        r == s.sets[da_id]
        updated == without_peer_quota_key(r, key)
        result == IF empty_incomplete(updated) THEN expire(s, {da_id}) ELSE apply_record(s, updated)
    IN  IF work.failed \/ da_id \notin Waiting(s) \/ updated = r THEN work
        ELSE [s |-> OrElse(result, s), failed |-> result = Err]

release_peer_quota_key(s, key) ==
    IF Get(s.by_peer, key) = 0 THEN s
    ELSE FoldLeft(LAMBDA work, d : release_from(work, d, key),
                  [s |-> s, failed |-> FALSE], SetToSeq(DOMAIN s.by_da_id)).s

\* Mutant: the set goes and its payload stays pinned.
consume_complete_set_KeepsPin(s, da_id) ==
    IF Stored(s, da_id).state # "CompleteSet" THEN s ELSE [s EXCEPT !.sets = Keep(@, DOMAIN @ \ {da_id})]

consume_complete_set(s, da_id) ==
    LET r == Stored(s, da_id)
        pinned == project_counter(s.pinned, pinned_payload_accounting_bytes(r), 0, pinned_payload_bytes)
    IN  IF r.state # "CompleteSet" \/ pinned = Err THEN s
        ELSE [s EXCEPT !.pinned = pinned, !.sets = Keep(@, DOMAIN @ \ {da_id})]

\* What the miner is offered: complete sets in the order of their identifiers,
\* each one that still fits.
complete_da_set_candidates(s, max_payload_bytes) ==
    LET complete == {d \in DOMAIN s.sets : s.sets[d].state = "CompleteSet"}
        take(work, d) ==
            IF work.bytes + s.sets[d].payload_bytes <= max_payload_bytes
            THEN [bytes |-> work.bytes + s.sets[d].payload_bytes, ids |-> work.ids \union {d}]
            ELSE work
    IN  FoldLeft(take, [bytes |-> 0, ids |-> {}], SetToSeq(complete)).ids

-----------------------------------------------------------------------------

Init ==
    /\ caps_validate
    /\ relay = [orphan_bytes |-> 0, by_peer |-> <<>>, by_da_id |-> <<>>,
                commit_overhead |-> 0, pinned |-> 0, sets |-> <<>>]

\* stage_relay_da_tx_bytes of a transaction that was relayed or made here.
StageCommit(key, tx) == relay' = stage_incomplete_da_commit(relay, key, tx)

StageChunk(key, tx) == relay' = stage_incomplete_da_chunk(relay, key, tx)

\* Blocks were accepted.
AdvanceTtl(blocks) == relay' = advance_orphan_ttl_by(relay, blocks)

\* The last connection of a host is gone.
ReleasePeer(key) == relay' = release_peer_quota_key(relay, key)

\* A canonical block carries the set.
Consume(da_id) == relay' = consume_complete_set(relay, da_id)

Next ==
    \/ \E key \in Keys, tx \in Commits : StageCommit(key, tx)
    \/ \E key \in Keys, tx \in Chunks : StageChunk(key, tx)
    \/ \E blocks \in 1 .. MaxAdvance : AdvanceTtl(blocks)
    \/ \E key \in PeerKeys : ReleasePeer(key)
    \/ \E da_id \in DaIds : Consume(da_id)

Spec == Init /\ [][Next]_relay

-----------------------------------------------------------------------------
(* Properties. *)

Incomplete == {d \in DOMAIN relay.sets : relay.sets[d].state # "CompleteSet"}

Complete == DOMAIN relay.sets \ Incomplete

\* What a set holds of one key, counted from the transactions themselves.
Held(d, key) ==
    LET r == relay.sets[d]
    IN  (IF r.commit # None /\ r.commit.peer = key THEN r.commit.wire_bytes ELSE 0)
        + MapThenSumSet(LAMBDA i : orphan_chunk_accounting_bytes(r.chunks[i]),
                        {i \in DOMAIN r.chunks : r.chunks[i].peer = key})

HeldBy(key) == MapThenSumSet(LAMBDA d : Held(d, key), Incomplete)

HeldIn(d) == MapThenSumSet(LAMBDA key : Held(d, key), Keys)

TypeOK ==
    /\ {relay.orphan_bytes, relay.commit_overhead, relay.pinned} \subseteq Nat
    /\ DOMAIN relay.sets \subseteq DaIds
    /\ \A d \in DOMAIN relay.sets : \A i \in DOMAIN relay.sets[d].chunks :
          i \in 0 .. MAX_DA_CHUNK_COUNT - 1 /\ relay.sets[d].chunks[i].peer \in Keys

\* After any order of arrivals, expiries, disconnections and blocks, the five
\* counters are exactly what the retained transactions add up to: nothing is
\* charged twice, leaked or given back twice (apply_record, project_ttl_expiry,
\* release_peer_quota_key, consume_complete_set).
AccountingIsExact ==
    /\ relay.orphan_bytes = MapThenSumSet(HeldIn, Incomplete)
    /\ \A key \in Keys : Get(relay.by_peer, key) = HeldBy(key)
    /\ \A d \in DaIds : Get(relay.by_da_id, d) = IF d \in Incomplete THEN HeldIn(d) ELSE 0
    /\ relay.commit_overhead = MapThenSumSet(LAMBDA d : orphan_commit_bytes(relay.sets[d]), Incomplete)
    /\ relay.pinned = MapThenSumSet(LAMBDA d : relay.sets[d].payload_bytes, Complete)

\* No budget is ever exceeded, also while a set turns complete and its bytes
\* move from the orphan budgets to the pinned one.
BudgetsHold ==
    /\ MapThenSumSet(HeldBy, Keys) <= orphan_pool_bytes
    /\ \A key \in Keys : HeldBy(key) <= orphan_pool_per_peer_bytes
    /\ \A d \in Incomplete : HeldIn(d) <= orphan_pool_per_da_id_bytes
    /\ MapThenSumSet(LAMBDA d : relay.sets[d].payload_bytes, Complete) <= pinned_payload_bytes

\* A complete set, which is what the miner is offered, holds every chunk of its
\* commit and the payloads they name are what the commit commits to.
CompleteSetsMatchCommit ==
    \A d \in Complete :
        LET r == relay.sets[d]
        IN  /\ r.commit # None
            /\ DOMAIN r.chunks = Indexes(r.commit)
            /\ FlattenSeq([n \in 1 .. r.commit.chunk_count |-> r.chunks[n - 1].chunk_hash])
                   = r.commit.payload_commitment

\* A stored set that has its commit and is not complete still lacks a chunk, so
\* that the next chunk to arrive tests the commitment again; a mismatch never
\* leaves a set which nothing can complete and nobody asks for.
StagedSetsLackChunks ==
    \A d \in Incomplete : relay.sets[d].commit # None => missing_chunk_indexes(relay.sets[d]) # {}

\* The miner's offer keeps within the bytes it asked for, and leaves out no
\* complete set for which there is still room.
CandidatesFillTheRoom ==
    \A room \in 0 .. pinned_payload_bytes :
        LET ids == complete_da_set_candidates(relay, room)
            bytes == MapThenSumSet(LAMBDA d : relay.sets[d].payload_bytes, ids)
        IN  /\ ids \subseteq Complete /\ bytes <= room
            /\ \A d \in Complete \ ids : bytes + relay.sets[d].payload_bytes > room

\* The first chunk kept for an index stays: as long as the set holds the index,
\* no later chunk, of this or another peer, takes its place.
FirstSeenChunkStays ==
    \A d \in DOMAIN relay.sets \intersect DOMAIN relay'.sets :
      \A i \in DOMAIN relay.sets[d].chunks \intersect DOMAIN relay'.sets[d].chunks :
         /\ relay'.sets[d].chunks[i].chunk_hash = relay.sets[d].chunks[i].chunk_hash
         /\ relay'.sets[d].chunks[i].peer = relay.sets[d].chunks[i].peer

\* Releasing a host leaves nothing in the orphan budgets that it delivered, and
\* takes no byte from any other host.
ReleaseFreesTheHost ==
    \A key \in PeerKeys : ReleasePeer(key) =>
      /\ HeldBy(key)' = 0
      /\ \A other \in Keys \ {key} : HeldBy(other)' = HeldBy(other)

=============================================================================
