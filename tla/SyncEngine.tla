----------------------------- MODULE SyncEngine -----------------------------
(***************************************************************************)
(* The canonical chain of a Rubin node: the in-memory SyncEngine (chain    *)
(* state, canonical index, persistence-fault latch, admission owner), the  *)
(* files of its BlockStore and ChainState snapshot, and the startup        *)
(* reconcile.  One step of the model is one durable write (or the memory   *)
(* work between two of them), so a crash or a power loss may fall between  *)
(* any two writes of an apply, a disconnect, a reorg, a rollback or a      *)
(* startup.  Every write has the three outcomes of io_utils.rs: done,      *)
(* failed before the namespace commit (nothing visible), failed after it   *)
(* (visible, but not known to be durable).                                 *)
(*                                                                         *)
(* A ChainState is abstracted to the sequence of blocks connected to it    *)
(* (its UTXO set is a function of that sequence), the canonical index is   *)
(* the sequence of its hashes.                                             *)
(***************************************************************************)
EXTENDS Integers, Sequences

CONSTANTS
    Block,            \* block hashes that can be delivered
    Genesis,          \* the configured genesis hash
    NoBlock,          \* the all-zero hash: "no tip", "no parent"
    Chain,            \* Chain[b]: the ancestry b's header commits to, b last
    Work,             \* Work[b]: cumulative work of Chain[b]
    HashRank,         \* HashRank[b]: position of b in the hash order
    Malformed,        \* blocks that fail the basic validation
    Invalid,          \* blocks that fail connect_block, the malformed included
    SmallUtxo,        \* tips whose UTXO set is at most the small cutoff
    SnapshotInterval, \* CHAIN_STATE_SNAPSHOT_INTERVAL_BLOCKS
    TargetFromStore,  \* stock_devnet_target_schedule: targets come from stored headers
    WindowSize,       \* WINDOW_SIZE, the retarget window
    ManualDisconnect, \* whether disconnect_tip is called outside a reorg
    MaxLost           \* bound: artifact files lost by the environment

Front(s) == SubSeq(s, 1, Len(s) - 1)

Tip(s) == IF s = <<>> THEN NoBlock ELSE s[Len(s)]

Elems(s) == {s[i] : i \in 1..Len(s)}

\* A header commits to its whole ancestry; only the genesis has no parent.
ASSUME ChainAssumption ==
    /\ Genesis \in Block
    /\ NoBlock \notin Block
    /\ Chain \in [Block -> Seq(Block)]
    /\ \A b \in Block :
         /\ Len(Chain[b]) > 0
         /\ Tip(Chain[b]) = b
         /\ Chain[b][1] = Genesis
         /\ \A i \in 1..Len(Chain[b]) : Chain[Chain[b][i]] = SubSeq(Chain[b], 1, i)

ASSUME WorkAssumption ==
    /\ Work \in [Block -> Nat]
    /\ HashRank \in [Block -> Nat]
    /\ \A b, c \in Block : HashRank[b] = HashRank[c] => b = c
    /\ \A b \in Block : Len(Chain[b]) > 1 => Work[Tip(Front(Chain[b]))] < Work[b]

ASSUME ParameterAssumption ==
    /\ Invalid \subseteq Block
    /\ Malformed \subseteq Invalid
    /\ Genesis \notin Invalid
    /\ SmallUtxo \subseteq Block
    /\ SnapshotInterval \in Nat \ {0}
    /\ TargetFromStore \in BOOLEAN
    /\ WindowSize \in Nat \ {0}
    /\ ManualDisconnect \in BOOLEAN
    /\ MaxLost \in Nat

Parent(b) == Tip(Front(Chain[b]))

\* The typed result of one atomic write.
Outcome == {"ok", "before", "after"}

\* The write (or decision) the process performs next.
Stage ==
    {"down", "boot_truncate", "boot_save", "idle",
     "block", "header", "undo", "index", "save", "rewind",
     "side_block", "side_header",
     "disconnect_next", "connect_next",
     "truncate", "disconnect_save", "restore",
     "rollback_index", "rollback_save"}

VARIABLES
    \* the datadir as the file system shows it
    blocks, headers, undos,   \* artifacts present under blocks/, headers/, undo/
    disk_index,               \* blockstore index.json
    disk_state,               \* chainstate snapshot
    unsynced,                 \* the one commit whose parent sync failed
    lost,                     \* artifact files lost so far
    \* the running engine
    stage,
    chain_state,              \* SyncEngine.chain_state
    canonical,                \* BlockStore.index.canonical (and its cache)
    tip_timestamp,            \* the block whose timestamp tip_timestamp holds
    persistence_fault,        \* SyncEngine.persistence_fault.is_some()
    reload_error,             \* StoragePersistenceFault.reload_error.is_some()
    owner,                    \* PendingOutpointOwner fence
    stable_tip,               \* PendingOutpointOwner.stable_tip
    job                       \* locals of the operation in flight

disk == <<blocks, headers, undos, disk_index, disk_state, unsynced, lost>>
engine == <<chain_state, canonical, tip_timestamp, persistence_fault,
            reload_error, owner, stable_tip, job>>
vars == <<disk, stage, engine>>

NoJob == [kind |-> "none", block |-> NoBlock, disconnects |-> 0, connects |-> <<>>,
          snapshot |-> <<>>, len_before |-> 0, old |-> <<>>, old_timestamp |-> NoBlock,
          base |-> 0, suffix |-> <<>>]

Synced == [file |-> "none", prior |-> <<>>]

-----------------------------------------------------------------------------
(* Durable writes. *)

\* save_blockstore_index_serializable_typed: the whole index replaced by rename.
save_blockstore_index(r, s) ==
    /\ disk_index' = IF r = "before" THEN disk_index ELSE s
    /\ unsynced' = IF r = "after" THEN [file |-> "index", prior |-> disk_index] ELSE unsynced
    /\ UNCHANGED <<blocks, headers, undos, disk_state, lost>>

\* ChainState::save_atomic: the snapshot replaced by rename.
save_atomic(r, s) ==
    /\ disk_state' = IF r = "before" THEN disk_state ELSE s
    /\ unsynced' = IF r = "after" THEN [file |-> "state", prior |-> disk_state] ELSE unsynced
    /\ UNCHANGED <<blocks, headers, undos, disk_index, lost>>

\* write_file_if_absent: an artifact linked under its hash, or found there.
write_file_if_absent(r, name, present, b) ==
    unsynced' = IF r = "after" /\ b \notin present
                THEN [file |-> name, prior |-> <<b>>] ELSE unsynced

Created(r, present, b) == IF r = "before" THEN present ELSE present \union {b}

\* handle_persistence_error: only a post-commit error latches the engine; what
\* it then reloads from disk (if anything) may itself fail to load.
handle_persistence_error(r, reload) ==
    /\ persistence_fault' = (persistence_fault \/ r = "after")
    /\ reload_error' \in IF r = "after" /\ reload THEN BOOLEAN ELSE {reload_error}

\* Mutant: the index is not reloaded after a post-commit error.
CommitToMemory_NoReload(r, s) == canonical' = IF r = "ok" THEN s ELSE canonical

\* truncate_canonical / rollback_canonical commit to memory only after the
\* disk; a post-commit error makes the engine reload the index it can see.
CommitToMemory(r, s) ==
    canonical' = IF r = "ok" \/ (r = "after" /\ ~reload_error') THEN s ELSE canonical

\* finish_pending_outpoint_transition_success
finish_success ==
    /\ owner' = "open"
    /\ stable_tip' = Tip(chain_state')
    /\ stage' = "idle"
    /\ job' = NoJob

\* Mutant: the old tip is reopened without comparing the chain state to it.
finish_failure_Unproven(proven_old) ==
    /\ owner' = IF proven_old /\ ~persistence_fault' THEN "open" ELSE "unavailable"
    /\ stage' = "idle"
    /\ job' = NoJob
    /\ UNCHANGED stable_tip

\* finish_pending_outpoint_transition_failure
finish_failure(proven_old) ==
    /\ owner' = IF proven_old /\ ~persistence_fault' /\ chain_state' = job.old
                THEN "open" ELSE "unavailable"
    /\ stage' = "idle"
    /\ job' = NoJob
    /\ UNCHANGED stable_tip

\* The error return of one apply or disconnect: a reorg answers it with
\* rollback_apply_block, which does nothing once the engine is latched.
Fail(proven_old) ==
    IF job.kind = "reorg" /\ ~persistence_fault'
    THEN stage' = "rollback_index" /\ UNCHANGED <<owner, stable_tip, job>>
    ELSE finish_failure(proven_old)

-----------------------------------------------------------------------------
(* apply_block_with_target: connect in memory, then commit. *)

\* Snapshot cadence: genesis, a small UTXO set, or every interval.
should_persist_chainstate_snapshot(s) ==
    \/ Len(s) = 1
    \/ Tip(s) \in SmallUtxo
    \/ (Len(s) - 1) % SnapshotInterval = 0

\* The in-memory connect of b, with the locals the commit needs; a height gap
\* above the index is refused before any write.
Connect(b, j) ==
    /\ Len(chain_state) <= Len(canonical)
    /\ chain_state' = Append(chain_state, b)
    /\ job' = [j EXCEPT !.block = b, !.snapshot = chain_state, !.len_before = Len(canonical)]
    /\ stage' = "block"

\* target_context_for_candidate: under the stock schedule the target of b is
\* derived from the stored headers below it, one or (at a boundary) a window.
target_context_for_candidate(b) ==
    LET height == Len(Chain[b]) - 1
        window == IF height % WindowSize = 0 THEN WindowSize ELSE 1
    IN TargetFromStore =>
         \A i \in 1..height : i > height - window => Chain[b][i] \in headers

\* apply_direct_if_possible: b extends the tip (or is the genesis of an empty
\* chain); a b that fails connect_block is rejected with nothing changed.
ApplyDirect(b) ==
    /\ stage = "idle"
    /\ ~persistence_fault
    /\ Parent(b) = Tip(chain_state)
    /\ target_context_for_candidate(b)
    /\ b \notin Invalid
    /\ owner = "open"
    /\ owner' = "transition"
    /\ Connect(b, [NoJob EXCEPT !.kind = "apply", !.old = chain_state,
                                !.old_timestamp = tip_timestamp])
    /\ UNCHANGED <<disk, canonical, tip_timestamp, persistence_fault, reload_error, stable_tip>>

\* The error of a block, header or undo write: the connect is undone in memory.
ArtifactError(r) ==
    /\ chain_state' = job.snapshot
    /\ handle_persistence_error(r, FALSE)
    /\ Fail(r = "before")

ArtifactStored(next) ==
    /\ stage' = next
    /\ UNCHANGED <<chain_state, persistence_fault, reload_error, owner, stable_tip, job>>

\* persist_block_bytes, first half.
WriteBlock ==
    /\ stage = "block"
    /\ \E r \in Outcome :
         /\ blocks' = Created(r, blocks, job.block)
         /\ write_file_if_absent(r, "block", blocks, job.block)
         /\ IF r = "ok" THEN ArtifactStored("header") ELSE ArtifactError(r)
    /\ UNCHANGED <<headers, undos, disk_index, disk_state, lost, canonical, tip_timestamp>>

\* Mutant: the index is written without the undo record before it.
WriteHeader_SkipUndo ==
    /\ stage = "header"
    /\ \E r \in Outcome :
         /\ headers' = Created(r, headers, job.block)
         /\ write_file_if_absent(r, "header", headers, job.block)
         /\ IF r = "ok" THEN ArtifactStored("index") ELSE ArtifactError(r)
    /\ UNCHANGED <<blocks, undos, disk_index, disk_state, lost, canonical, tip_timestamp>>

\* persist_block_bytes, second half.
WriteHeader ==
    /\ stage = "header"
    /\ \E r \in Outcome :
         /\ headers' = Created(r, headers, job.block)
         /\ write_file_if_absent(r, "header", headers, job.block)
         /\ IF r = "ok" THEN ArtifactStored("undo") ELSE ArtifactError(r)
    /\ UNCHANGED <<blocks, undos, disk_index, disk_state, lost, canonical, tip_timestamp>>

\* The outcome of a connected and committed block.
Applied ==
    /\ tip_timestamp' = job.block
    /\ IF job.kind = "reorg"
       THEN stage' = "connect_next" /\ UNCHANGED <<owner, stable_tip, job>>
       ELSE finish_success

\* Where a committed block goes next: the snapshot, or straight to success.
Committed ==
    /\ UNCHANGED <<chain_state, persistence_fault, reload_error>>
    /\ IF should_persist_chainstate_snapshot(chain_state)
       THEN stage' = "save" /\ UNCHANGED <<tip_timestamp, owner, stable_tip, job>>
       ELSE Applied

\* commit_canonical_block: the same hash already stands at this height.
SameHashReplay ==
    Len(job.snapshot) < Len(canonical) /\ canonical[Len(job.snapshot) + 1] = job.block

\* put_undo, before any tip advance; a same-hash replay ends here.
WriteUndo ==
    /\ stage = "undo"
    /\ \E r \in Outcome :
         /\ undos' = Created(r, undos, job.block)
         /\ write_file_if_absent(r, "undo", undos, job.block)
         /\ CASE r = "ok" /\ SameHashReplay -> Committed
              [] r = "ok" /\ ~SameHashReplay -> ArtifactStored("index") /\ UNCHANGED tip_timestamp
              [] OTHER -> ArtifactError(r) /\ UNCHANGED tip_timestamp
    /\ UNCHANGED <<blocks, headers, disk_index, disk_state, lost, canonical>>

\* set_canonical_tip: drop canonical[height..], push the hash, save.
set_canonical_tip(b) == Append(SubSeq(canonical, 1, Len(job.snapshot)), b)

WriteIndex ==
    /\ stage = "index"
    /\ \E r \in Outcome :
         /\ save_blockstore_index(r, set_canonical_tip(job.block))
         /\ canonical' = IF r = "before" THEN canonical ELSE set_canonical_tip(job.block)
         /\ CASE r = "ok" -> Committed
              [] r = "before" -> ArtifactError(r) /\ UNCHANGED tip_timestamp
              [] r = "after" -> /\ handle_persistence_error(r, TRUE)
                                /\ UNCHANGED <<chain_state, tip_timestamp>>
                                /\ Fail(FALSE)

\* The cadence snapshot; a pre-commit failure rewinds an index that grew.
SaveSnapshot ==
    /\ stage = "save"
    /\ \E r \in Outcome :
         /\ save_atomic(r, chain_state)
         /\ CASE r = "ok" -> UNCHANGED <<chain_state, persistence_fault, reload_error>> /\ Applied
              [] r = "before" /\ Len(canonical) > job.len_before ->
                   /\ stage' = "rewind"
                   /\ UNCHANGED <<chain_state, persistence_fault, reload_error,
                                  tip_timestamp, owner, stable_tip, job>>
              [] r = "before" /\ Len(canonical) <= job.len_before ->
                   /\ ArtifactError(r)
                   /\ UNCHANGED tip_timestamp
              [] r = "after" -> /\ handle_persistence_error(r, TRUE)
                                /\ UNCHANGED <<chain_state, tip_timestamp>>
                                /\ Fail(FALSE)
    /\ UNCHANGED canonical

\* truncate_canonical(canonical_len_before) after a failed snapshot.
Rewind ==
    /\ stage = "rewind"
    /\ \E r \in Outcome :
         /\ save_blockstore_index(r, SubSeq(canonical, 1, job.len_before))
         /\ handle_persistence_error(r, TRUE)
         /\ CommitToMemory(r, SubSeq(canonical, 1, job.len_before))
         /\ chain_state' = job.snapshot
         /\ Fail(r = "ok")
    /\ UNCHANGED tip_timestamp

-----------------------------------------------------------------------------
(* apply_block_with_reorg: blocks that do not extend the tip. *)

\* find_canonical_height
find_canonical_height(h) == (CHOOSE i \in 1..Len(canonical) : canonical[i] = h) - 1

\* The walk down Chain[b] stops at its fork-th block, the first ancestor found on
\* the canonical index; every block above it is loaded from blocks/.
collect_branch_to_canonical(b, fork) ==
    /\ Chain[b][fork] \in Elems(canonical)
    /\ \A i \in (fork + 1)..(Len(Chain[b]) - 1) :
         Chain[b][i] \notin Elems(canonical) /\ Chain[b][i] \in blocks

\* chain_work reads the header of every ancestor.
chain_work_readable(b) == Elems(Chain[b]) \subseteq headers

\* Mutant: a tie always switches.
should_switch_to_branch_AnyTie(b) == Work[b] >= Work[Tip(chain_state)]

\* Fork choice: more cumulative work, or equal work and the smaller hash.
should_switch_to_branch(b) ==
    LET tip == Tip(chain_state) IN
    \/ Work[b] > Work[tip]
    \/ Work[b] = Work[tip] /\ HashRank[b] < HashRank[tip]

\* Mutant: apply_block_with_reorg without mutation_allowed.
SideDelivery_NoLatch(b, fork) ==
    /\ stage = "idle"
    /\ chain_state # <<>>
    /\ Parent(b) # Tip(chain_state)
    /\ collect_branch_to_canonical(b, fork)
    /\ chain_work_readable(Tip(chain_state))
    /\ chain_work_readable(Chain[b][fork])

\* A delivery that reaches the branch evaluation.
SideDelivery(b, fork) ==
    /\ stage = "idle"
    /\ ~persistence_fault
    /\ chain_state # <<>>
    /\ Parent(b) # Tip(chain_state)
    /\ collect_branch_to_canonical(b, fork)
    /\ chain_work_readable(Tip(chain_state))
    /\ chain_work_readable(Chain[b][fork])

Ancestors(b) == 1..(Len(Chain[b]) - 1)

\* The branch loses: a block that passes the basic validation is stored,
\* unless its header is already there.
StoreSide(b) ==
    /\ \E fork \in Ancestors(b) : SideDelivery(b, fork)
    /\ ~should_switch_to_branch(b)
    /\ target_context_for_candidate(b)
    /\ b \notin Malformed
    /\ b \notin headers
    /\ stage' = "side_block"
    /\ job' = [NoJob EXCEPT !.kind = "side", !.block = b]
    /\ UNCHANGED <<disk, chain_state, canonical, tip_timestamp, persistence_fault,
                   reload_error, owner, stable_tip>>

SideWritten(r, next) ==
    /\ handle_persistence_error(r, FALSE)
    /\ stage' = IF r = "ok" THEN next ELSE "idle"
    /\ job' = IF stage' = "idle" THEN NoJob ELSE job
    /\ UNCHANGED <<disk_index, disk_state, undos, lost, chain_state, canonical,
                   tip_timestamp, owner, stable_tip>>

\* Mutant: the header is written although the block write failed.
WriteSideBlock_IgnoreError ==
    /\ stage = "side_block"
    /\ \E r \in Outcome :
         /\ blocks' = Created(r, blocks, job.block)
         /\ write_file_if_absent(r, "block", blocks, job.block)
         /\ SideWritten("ok", "side_header")
    /\ UNCHANGED headers

\* store_block, first half: block bytes.
WriteSideBlock ==
    /\ stage = "side_block"
    /\ \E r \in Outcome :
         /\ blocks' = Created(r, blocks, job.block)
         /\ write_file_if_absent(r, "block", blocks, job.block)
         /\ SideWritten(r, "side_header")
    /\ UNCHANGED headers

\* store_block, second half: header bytes.
WriteSideHeader ==
    /\ stage = "side_header"
    /\ \E r \in Outcome :
         /\ headers' = Created(r, headers, job.block)
         /\ write_file_if_absent(r, "header", headers, job.block)
         /\ SideWritten(r, "idle")
    /\ UNCHANGED blocks

\* current_disconnect_tip and prepare_disconnect: engine and store agree on
\* the tip and every block above the ancestor has its bytes and undo.
prepare_canonical_disconnect_packet(base) ==
    /\ canonical # <<>>
    /\ Len(chain_state) = Len(canonical)
    /\ Tip(chain_state) = Tip(canonical)
    /\ \A i \in (base + 1)..Len(canonical) :
         /\ canonical[i] \in blocks \intersect undos
         /\ i > 1 => canonical[i - 1] \in headers

\* apply_preferred_branch up to the first disconnect: the whole branch is
\* previewed on a copy, so an invalid block in it changes nothing.
StartReorg(b) ==
    \E fork \in Ancestors(b) :
    LET base == find_canonical_height(Chain[b][fork]) + 1
        branch == SubSeq(Chain[b], fork + 1, Len(Chain[b]))
    IN /\ SideDelivery(b, fork)
       /\ should_switch_to_branch(b)
       /\ prepare_canonical_disconnect_packet(base)
       /\ \A i \in 1..Len(branch) :
            target_context_for_candidate(branch[i]) /\ branch[i] \notin Invalid
       /\ owner = "open"
       /\ owner' = "transition"
       /\ stage' = "disconnect_next"
       /\ job' = [NoJob EXCEPT !.kind = "reorg",
                               !.disconnects = Len(canonical) - base,
                               !.connects = branch,
                               !.old = chain_state,
                               !.old_timestamp = tip_timestamp,
                               !.base = base,
                               !.suffix = SubSeq(canonical, base + 1, Len(canonical))]
       /\ UNCHANGED <<disk, chain_state, canonical, tip_timestamp, persistence_fault,
                      reload_error, stable_tip>>

\* disconnect_tip called on its own.
DisconnectTip ==
    /\ ManualDisconnect
    /\ stage = "idle"
    /\ ~persistence_fault
    /\ prepare_canonical_disconnect_packet(Len(canonical) - 1)
    /\ owner = "open"
    /\ owner' = "transition"
    /\ stage' = "disconnect_next"
    /\ job' = [NoJob EXCEPT !.kind = "disconnect", !.disconnects = 1, !.old = chain_state,
                            !.old_timestamp = tip_timestamp]
    /\ UNCHANGED <<disk, chain_state, canonical, tip_timestamp, persistence_fault,
                   reload_error, stable_tip>>

-----------------------------------------------------------------------------
(* disconnect_prepared_tip, once per prepared block. *)

\* Take the next prepared block off the chain state, or go on.
DisconnectNext ==
    /\ stage = "disconnect_next"
    /\ IF job.disconnects > 0
       THEN /\ chain_state' = Front(chain_state)
            /\ job' = [job EXCEPT !.disconnects = @ - 1, !.snapshot = chain_state,
                                  !.len_before = Len(canonical)]
            /\ stage' = "truncate"
            /\ UNCHANGED <<owner, stable_tip>>
       ELSE /\ UNCHANGED chain_state
            /\ IF job.kind = "reorg"
               THEN stage' = "connect_next" /\ UNCHANGED <<owner, stable_tip, job>>
               ELSE finish_success
    /\ UNCHANGED <<disk, canonical, tip_timestamp, persistence_fault, reload_error>>

\* truncate_canonical first; its pre-commit failure restores the chain state.
Truncate ==
    LET short == SubSeq(canonical, 1, job.len_before - 1) IN
    /\ stage = "truncate"
    /\ \E r \in Outcome :
         /\ save_blockstore_index(r, short)
         /\ handle_persistence_error(r, TRUE)
         /\ CommitToMemory(r, short)
         /\ chain_state' = IF r = "before" THEN job.snapshot ELSE chain_state
         /\ IF r = "ok"
            THEN stage' = "disconnect_save" /\ UNCHANGED <<owner, stable_tip, job>>
            ELSE Fail(TRUE)
    /\ UNCHANGED tip_timestamp

\* Then the snapshot of the parent state.
DisconnectSave ==
    /\ stage = "disconnect_save"
    /\ \E r \in Outcome :
         /\ save_atomic(r, chain_state)
         /\ handle_persistence_error(r, TRUE)
         /\ tip_timestamp' = IF r = "ok" THEN Tip(chain_state) ELSE tip_timestamp
         /\ IF r = "after"
            THEN Fail(TRUE)
            ELSE /\ stage' = IF r = "ok" THEN "disconnect_next" ELSE "restore"
                 /\ UNCHANGED <<owner, stable_tip, job>>
    /\ UNCHANGED <<chain_state, canonical>>

\* Mutant: the rollback keeps one row too few.
rollback_canonical_OffByOne(base, suffix) ==
    SubSeq(canonical, 1, IF base < Len(canonical) THEN base - 1 ELSE Len(canonical) - 1) \o suffix

\* rollback_canonical: keep at most base entries, append the suffix.
rollback_canonical(base, suffix) ==
    SubSeq(canonical, 1, IF base < Len(canonical) THEN base ELSE Len(canonical)) \o suffix

\* Mutant: a restore that failed sends the disconnect back to its snapshot.
Restore_Retry ==
    LET again == rollback_canonical(job.len_before - 1, <<Tip(job.snapshot)>>) IN
    /\ stage = "restore"
    /\ \E r \in Outcome :
         /\ save_blockstore_index(r, again)
         /\ handle_persistence_error(r, TRUE)
         /\ CommitToMemory(r, again)
         /\ chain_state' = IF r = "before" THEN chain_state ELSE job.snapshot
         /\ UNCHANGED tip_timestamp
         /\ IF r = "before"
            THEN stage' = "disconnect_save" /\ UNCHANGED <<owner, stable_tip, job>>
            ELSE Fail(TRUE)

\* A failed snapshot re-appends the tip; the chain state follows the index.
Restore ==
    LET again == rollback_canonical(job.len_before - 1, <<Tip(job.snapshot)>>) IN
    /\ stage = "restore"
    /\ \E r \in Outcome :
         /\ save_blockstore_index(r, again)
         /\ handle_persistence_error(r, TRUE)
         /\ CommitToMemory(r, again)
         /\ chain_state' = IF r = "before" THEN chain_state ELSE job.snapshot
         /\ tip_timestamp' = IF r = "before" THEN Tip(chain_state) ELSE tip_timestamp
         /\ Fail(TRUE)

-----------------------------------------------------------------------------
(* The connect half of a reorg, and its rollback. *)

\* The next branch block, the end of the branch, or a local I/O failure while
\* its target and timestamp context is read from the store.
ConnectNext ==
    /\ stage = "connect_next"
    /\ \/ /\ job.connects # <<>>
          /\ Connect(Head(job.connects), [job EXCEPT !.connects = Tail(@)])
          /\ UNCHANGED <<owner, stable_tip>>
       \/ /\ job.connects # <<>>
          /\ UNCHANGED chain_state
          /\ UNCHANGED persistence_fault
          /\ Fail(TRUE)
       \/ /\ job.connects = <<>>
          /\ UNCHANGED chain_state
          /\ finish_success
    /\ UNCHANGED <<disk, canonical, tip_timestamp, persistence_fault, reload_error>>

\* rollback_apply_block, phase 1: the canonical index.
RollbackIndex ==
    LET again == rollback_canonical(job.base, job.suffix) IN
    /\ stage = "rollback_index"
    /\ \E r \in Outcome :
         /\ save_blockstore_index(r, again)
         /\ handle_persistence_error(r, TRUE)
         /\ CommitToMemory(r, again)
         /\ chain_state' = IF r = "before" THEN chain_state ELSE job.old
         /\ tip_timestamp' = IF r = "before" THEN tip_timestamp ELSE job.old_timestamp
         /\ IF r = "ok"
            THEN stage' = "rollback_save" /\ UNCHANGED <<owner, stable_tip, job>>
            ELSE finish_failure(FALSE)

\* rollback_apply_block, phase 2: the snapshot.
RollbackSave ==
    /\ stage = "rollback_save"
    /\ \E r \in Outcome :
         /\ save_atomic(r, chain_state)
         /\ handle_persistence_error(r, TRUE)
         /\ UNCHANGED chain_state
         /\ finish_failure(r = "ok")
    /\ UNCHANGED <<canonical, tip_timestamp>>
-----------------------------------------------------------------------------
(* Crash, power loss, damage and startup. *)

\* The process is gone: the engine's memory is back to nothing.
Exit ==
    /\ stage' = "down"
    /\ chain_state' = <<>>
    /\ canonical' = <<>>
    /\ tip_timestamp' = NoBlock
    /\ persistence_fault' = FALSE
    /\ reload_error' = FALSE
    /\ owner' = "none"
    /\ stable_tip' = NoBlock
    /\ job' = NoJob

\* The process dies between two writes; the file system lives on.
Crash ==
    /\ stage # "down"
    /\ Exit
    /\ UNCHANGED disk

\* The datadir once the unsynced commit is taken back.
Reverted ==
    [blocks  |-> IF unsynced.file = "block" THEN blocks \ Elems(unsynced.prior) ELSE blocks,
     headers |-> IF unsynced.file = "header" THEN headers \ Elems(unsynced.prior) ELSE headers,
     undos   |-> IF unsynced.file = "undo" THEN undos \ Elems(unsynced.prior) ELSE undos,
     index   |-> IF unsynced.file = "index" THEN unsynced.prior ELSE disk_index,
     state   |-> IF unsynced.file = "state" THEN unsynced.prior ELSE disk_state]

\* The machine dies: the commit whose parent was never synced may be gone.
PowerLoss ==
    /\ unsynced # Synced
    /\ Exit
    /\ blocks' = Reverted.blocks
    /\ headers' = Reverted.headers
    /\ undos' = Reverted.undos
    /\ disk_index' = Reverted.index
    /\ disk_state' = Reverted.state
    /\ unsynced' = Synced
    /\ UNCHANGED lost

\* The environment removes a file of a stopped node (the index is never lost).
LoseFile ==
    /\ stage = "down"
    /\ lost < MaxLost
    /\ lost' = lost + 1
    /\ \/ \E b \in blocks : blocks' = blocks \ {b} /\ UNCHANGED <<headers, undos, disk_state>>
       \/ \E b \in headers : headers' = headers \ {b} /\ UNCHANGED <<blocks, undos, disk_state>>
       \/ \E b \in undos : undos' = undos \ {b} /\ UNCHANGED <<blocks, headers, disk_state>>
       \/ disk_state # <<>> /\ disk_state' = <<>> /\ UNCHANGED <<blocks, headers, undos>>
    /\ UNCHANGED <<disk_index, unsynced, stage, engine>>

Complete(b) == b \in headers \intersect blocks \intersect undos

\* Mutant: the scan does not look at the undo records.
complete_prefix_NoUndo(s, n) ==
    /\ \A i \in 1..n : s[i] \in headers \intersect blocks
    /\ n < Len(s) => s[n + 1] \notin headers \intersect blocks

\* The scan of truncate_incomplete_canonical_suffix ends after n complete rows.
complete_prefix(s, n) ==
    /\ \A i \in 1..n : Complete(s[i])
    /\ n < Len(s) => ~Complete(s[n + 1])

\* reclaim_atomic_scratch syncs every parent; load_chain_state, open, and
\* verify_genesis_anchor.  Without a complete row 0 the startup is refused.
Startup ==
    /\ stage = "down"
    /\ disk_index # <<>> => disk_index[1] = Genesis
    /\ \E n \in 0..Len(disk_index) :
         /\ complete_prefix(disk_index, n)
         /\ n = 0 => disk_index = <<>>
         /\ stage' = IF n = Len(disk_index) THEN "boot_save" ELSE "boot_truncate"
    /\ chain_state' = disk_state
    /\ canonical' = disk_index
    /\ unsynced' = Synced
    /\ UNCHANGED <<blocks, headers, undos, disk_index, disk_state, lost, tip_timestamp,
                   persistence_fault, reload_error, owner, stable_tip, job>>

\* truncate_incomplete_canonical_suffix; an error of the write is fatal.
BootTruncate ==
    /\ stage = "boot_truncate"
    /\ \E r \in Outcome, n \in 0..Len(canonical) :
         /\ complete_prefix(canonical, n)
         /\ save_blockstore_index(r, SubSeq(canonical, 1, n))
         /\ \/ /\ r = "ok"
               /\ canonical' = SubSeq(canonical, 1, n)
               /\ stage' = "boot_save"
               /\ UNCHANGED <<chain_state, tip_timestamp, persistence_fault, reload_error,
                              owner, stable_tip, job>>
            \/ r # "ok" /\ Exit

\* Where the replay of a snapshot s starts: above it when its tip stands at its
\* own height on the index, otherwise from genesis on an empty state.
replay_base(s, index) ==
    IF s # <<>> /\ Len(s) <= Len(index) /\ index[Len(s)] = Tip(s) THEN s ELSE <<>>

\* reconcile_chain_state_with_block_store, after the truncation.
reconcile(s, index) ==
    LET base == replay_base(s, index) IN base \o SubSeq(index, Len(base) + 1, Len(index))

\* Every replayed block connects to the state below it.
replay_connects(s, index) ==
    \A i \in (Len(replay_base(s, index)) + 1)..Len(index) :
        /\ index[i] \notin Invalid
        /\ target_context_for_candidate(index[i])
        /\ Parent(index[i]) = Tip(SubSeq(reconcile(s, index), 1, i - 1))

\* The reconciled state is saved before the engine exists; then SyncEngine::new
\* and bind_pending_outpoint_owner.
BootSave ==
    LET s == reconcile(chain_state, canonical) IN
    /\ stage = "boot_save"
    /\ replay_connects(chain_state, canonical)
    /\ \E r \in Outcome :
         /\ save_atomic(r, s)
         /\ \/ /\ r = "ok"
               /\ chain_state' = s
               /\ tip_timestamp' = Tip(s)
               /\ stage' = "idle"
               /\ owner' = "open"
               /\ stable_tip' = Tip(s)
               /\ UNCHANGED <<canonical, persistence_fault, reload_error, job>>
            \/ r # "ok" /\ Exit

-----------------------------------------------------------------------------
\* A store just created by BlockStore::create, before the first startup.
Init ==
    /\ blocks = {}
    /\ headers = {}
    /\ undos = {}
    /\ disk_index = <<>>
    /\ disk_state = <<>>
    /\ unsynced = Synced
    /\ lost = 0
    /\ stage = "down"
    /\ chain_state = <<>>
    /\ canonical = <<>>
    /\ tip_timestamp = NoBlock
    /\ persistence_fault = FALSE
    /\ reload_error = FALSE
    /\ owner = "none"
    /\ stable_tip = NoBlock
    /\ job = NoJob

\* The next write or decision of the operation in flight.
Step ==
    \/ WriteBlock \/ WriteHeader \/ WriteUndo \/ WriteIndex \/ SaveSnapshot \/ Rewind
    \/ WriteSideBlock \/ WriteSideHeader
    \/ DisconnectNext \/ Truncate \/ DisconnectSave \/ Restore
    \/ ConnectNext \/ RollbackIndex \/ RollbackSave
    \/ BootTruncate \/ BootSave

Next ==
    \/ \E b \in Block : ApplyDirect(b) \/ StoreSide(b) \/ StartReorg(b)
    \/ DisconnectTip
    \/ Step
    \/ Startup
    \/ Crash \/ PowerLoss \/ LoseFile

Spec == Init /\ [][Next]_vars

-----------------------------------------------------------------------------
(* Properties. *)

Job ==
    [kind : {"none", "apply", "side", "reorg", "disconnect"}, block : Block \union {NoBlock},
     disconnects : Nat, connects : Seq(Block), snapshot : Seq(Block), len_before : Nat,
     old : Seq(Block), old_timestamp : Block \union {NoBlock}, base : Nat, suffix : Seq(Block)]

Commit ==
    [file : {"none", "block", "header", "undo", "index", "state"}, prior : Seq(Block)]

Owner == {"none", "open", "transition", "unavailable"}

\* Every variable holds a value of its kind (the fields of BlockStore and
\* SyncEngine, the locals of the operation in flight).
TypeOK ==
    /\ blocks \subseteq Block
    /\ headers \subseteq Block
    /\ undos \subseteq Block
    /\ disk_index \in Seq(Block)
    /\ disk_state \in Seq(Block)
    /\ unsynced \in Commit
    /\ lost \in Nat
    /\ stage \in Stage
    /\ chain_state \in Seq(Block)
    /\ canonical \in Seq(Block)
    /\ tip_timestamp \in Block \union {NoBlock}
    /\ persistence_fault \in BOOLEAN
    /\ reload_error \in BOOLEAN
    /\ owner \in Owner
    /\ stable_tip \in Block \union {NoBlock}
    /\ job \in Job

\* While the owner admits transactions (it is open only between transitions,
\* finish_pending_outpoint_transition_*), chain state, canonical index and
\* index.json are the same chain, the admission tip is its tip, and even a power
\* loss at this moment leaves that chain on disk.
AdmissionOnDurableTip ==
    owner = "open" =>
        /\ chain_state = canonical
        /\ canonical = disk_index
        /\ disk_index = Reverted.index
        /\ stable_tip = Tip(chain_state)
        /\ tip_timestamp = Tip(chain_state)

\* index.json of a datadir image is a valid chain from genesis whose every row
\* has header, block and undo, and the snapshot is a valid chain of its own.
Recoverable(image) ==
    /\ image.index # <<>> => image.index = Chain[Tip(image.index)]
    /\ image.state # <<>> => image.state = Chain[Tip(image.state)]
    /\ Elems(image.index) \subseteq (image.headers \intersect image.blocks \intersect image.undos)
    /\ (Elems(image.index) \union Elems(image.state)) \intersect Invalid = {}

\* Wherever a crash or power loss falls (between any two writes of an apply, a
\* disconnect, a reorg, its rollback or a startup), the datadir it leaves is one
\* that the startup reconcile accepts and can replay.
EveryImageRecoverable ==
    lost = 0 =>
        /\ Recoverable(Reverted)
        /\ Recoverable([blocks |-> blocks, headers |-> headers, undos |-> undos,
                        index |-> disk_index, state |-> disk_state])

\* How much of the chain it started from an operation may not touch.
Untouched ==
    CASE job.kind = "reorg" -> job.base
      [] job.kind = "disconnect" -> Len(job.old) - 1
      [] OTHER -> Len(job.old)

\* A crash or power loss in the middle of a transition never costs a block at or
\* below the common ancestor of a reorg, below the tip of a disconnect, or of the
\* chain an apply extends.
CrashKeepsForkBase ==
    owner = "transition" =>
        \A index \in {disk_index, Reverted.index} :
            /\ Len(index) >= Untouched
            /\ \A i \in 1..Untouched : index[i] = job.old[i]

\* persist_block_bytes writes the block before its header, so a header (what
\* has_block tests before a block is fetched again) never stands for bytes that
\* are missing, whatever write failed or was taken back.
HeaderImpliesBlock ==
    lost = 0 => headers \subseteq blocks /\ Reverted.headers \subseteq Reverted.blocks

\* A side block is validated before it is stored: bytes that fail the basic
\* validation never reach blocks/.
MalformedNeverStored == blocks \intersect Malformed = {}

\* A post-commit write error inside a transition (handle_persistence_error)
\* leaves the latched engine showing what the disk shows: the chain state and,
\* unless the reload failed too, the canonical index equal the visible index.json.
LatchedViewIsDisk ==
    [][persistence_fault' /\ ~persistence_fault /\ job.kind # "side" =>
         /\ chain_state' = disk_index'
         /\ reload_error' \/ canonical' = disk_index']_vars

\* The blocks of the canonical index of a running node all have their header,
\* bytes and undo, also after files were lost while it was stopped.
RunningRowsComplete ==
    stage \notin {"down", "boot_truncate"} => \A b \in Elems(canonical) : Complete(b)

Better(b, c) == Work[b] > Work[c] \/ (Work[b] = Work[c] /\ HashRank[b] < HashRank[c])

\* A transition reopens admission either at the tip it started from or at a tip
\* that fork choice prefers to it: no failed write in a reorg or its rollback
\* leaves a half-switched chain open.
ReopenOnlyAtPreferredTip ==
    [][owner = "transition" /\ owner' = "open" /\ job.kind # "disconnect" =>
         \/ stable_tip' = stable_tip
         \/ stable_tip = NoBlock
         \/ Better(stable_tip', stable_tip)]_vars

\* mutation_allowed: once latched, nothing is written until the process has gone
\* down, whichever entry point is called.
LatchStopsWrites ==
    [][persistence_fault => UNCHANGED disk \/ stage' = "down"]_vars

\* Of disconnect_prepared_tip a comment says that a restart which finds the
\* snapshot ahead of the truncated index "detects and rejects this".
AheadSnapshotRejected ==
    [][stage = "boot_save" /\ Len(chain_state) > Len(canonical) => stage' # "idle"]_vars

\* Of prepare_preferred_branch a comment says that every ancestor whose header
\* the target derivation needs "is already stored" once the branch is collected.
BranchAncestorsStored ==
    \A b \in Block : \A fork \in Ancestors(b) :
        stage = "idle" /\ collect_branch_to_canonical(b, fork) =>
            \A i \in fork..(Len(Chain[b]) - 1) : Chain[b][i] \in headers

=============================================================================
