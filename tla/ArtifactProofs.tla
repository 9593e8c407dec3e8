------------------------- MODULE ArtifactProofs -------------------------
(***************************************************************************)
(* The inductive invariant about the artifact files of SyncEngine: the     *)
(* rows of the canonical index always have their header, block and undo    *)
(* files, in memory while the node runs, and on disk in every crash image. *)
(* Then what a step says of an earlier state: the view a latch leaves, and *)
(* the tip at which a transition reopens admission.                        *)
(***************************************************************************)
EXTENDS SyncEngineProofs

\* The blocks with all their files.
Files == blocks \intersect headers \intersect undos

\* Every row of a chain is one of files.
Stored(s, files) == \A i \in 1..Len(s) : s[i] \in files

\* A running node: its index, and the chains an operation may write back, have
\* their files; the block being applied has the files written so far.
RunInv ==
    stage \notin {"down", "boot_truncate"} =>
        /\ Stored(canonical, Files)
        /\ Stored(job.old, Files)
        /\ Stored(job.snapshot, Files)
        /\ stage \in {"header", "undo", "index", "side_header"} => job.block \in blocks
        /\ stage \in {"undo", "index"} => job.block \in headers
        /\ stage = "index" => job.block \in undos

\* The datadir, also after the unsynced commit is taken back.
ImageInv ==
    lost = 0 =>
        /\ headers \subseteq blocks
        /\ Stored(disk_index, Files)
        /\ unsynced.file = "index" => Stored(unsynced.prior, Files)
        /\ unsynced.file \in {"block", "header", "undo"} =>
             \A i \in 1..Len(unsynced.prior), j \in 1..Len(disk_index) :
                 unsynced.prior[i] # disk_index[j]
        /\ unsynced.file = "block" =>
             \A i \in 1..Len(unsynced.prior) : unsynced.prior[i] \notin headers

\* The second inductive invariant, on top of IInv.
AInv == RunInv /\ ImageInv

-----------------------------------------------------------------------------
(* Stored chains. *)

\* The empty chain needs no files.
LEMMA StoredEmpty ==
    ASSUME NEW files
    PROVE  Stored(<<>>, files)
BY DEF Stored

\* More files never hurt.
LEMMA StoredGrows ==
    ASSUME NEW s, NEW files, NEW more, files \subseteq more, Stored(s, files)
    PROVE  Stored(s, more)
BY Zenon DEF Stored

\* Any part of a stored chain is stored.
LEMMA StoredPart ==
    ASSUME NEW s \in Seq(Block), NEW files, Stored(s, files), NEW m \in Nat, NEW n \in Int,
           m >= 1, n <= Len(s)
    PROVE  Stored(SubSeq(s, m, n), files)
<1>1. /\ \A i \in 1..Len(SubSeq(s, m, n)) : m + i - 1 \in 1..Len(s)
      /\ \A i \in 1..Len(SubSeq(s, m, n)) : SubSeq(s, m, n)[i] = s[m + i - 1]
  OBVIOUS
<1> QED
  BY <1>1, Zenon DEF Stored

\* A prefix of a stored chain is stored (truncate_canonical).
LEMMA StoredPrefix ==
    ASSUME NEW s \in Seq(Block), NEW files, Stored(s, files), NEW n \in Int, n <= Len(s)
    PROVE  Stored(SubSeq(s, 1, n), files)
BY StoredPart

\* A stored chain with a stored block on top.
LEMMA StoredAppend ==
    ASSUME NEW s \in Seq(Block), NEW files, Stored(s, files), NEW b \in Block, b \in files
    PROVE  Stored(Append(s, b), files)
<1>1. \A i \in 1..Len(Append(s, b)) :
        \/ i \in 1..Len(s) /\ Append(s, b)[i] = s[i]
        \/ Append(s, b)[i] = b
  OBVIOUS
<1> QED
  BY <1>1, Zenon DEF Stored

\* Two stored chains one after the other.
LEMMA StoredConcat ==
    ASSUME NEW s \in Seq(Block), NEW t \in Seq(Block), NEW files, Stored(s, files), Stored(t, files)
    PROVE  Stored(s \o t, files)
<1>1. /\ Len(s \o t) = Len(s) + Len(t)
      /\ \A i \in 1..(Len(s) + Len(t)) :
           (s \o t)[i] = IF i <= Len(s) THEN s[i] ELSE t[i - Len(s)]
  BY ConcatProperties, Zenon
<1> SUFFICES ASSUME NEW i \in 1..(Len(s) + Len(t))
             PROVE  (s \o t)[i] \in files
  BY <1>1, Zenon DEF Stored
<1>2. CASE i <= Len(s)
  <2>1. i \in 1..Len(s)
    BY <1>2
  <2> QED
    BY <1>1, <1>2, <2>1, Zenon DEF Stored
<1>3. CASE ~(i <= Len(s))
  <2>1. i - Len(s) \in 1..Len(t)
    BY <1>3
  <2> QED
    BY <1>1, <1>3, <2>1, Zenon DEF Stored
<1> QED
  BY <1>2, <1>3, Zenon

-----------------------------------------------------------------------------
(* Every step preserves the invariant. *)

\* A step that writes no artifact and leaves only stored chains behind.
LEMMA ChainStep ==
    ASSUME IInv, AInv, ~persistence_fault, stage # "down",
           UNCHANGED <<blocks, headers, undos, lost>>,
           stage' \notin {"header", "undo", "index", "side_header"},
           stage' \notin {"down", "boot_truncate"} =>
               Stored(canonical', Files) /\ Stored(job'.old, Files) /\ Stored(job'.snapshot, Files),
           lost = 0 => Stored(disk_index', Files),
           \/ unsynced' = unsynced
           \/ unsynced'.file = "state"
           \/ unsynced'.file = "index" /\ unsynced'.prior = disk_index
    PROVE  AInv'
<1>1. unsynced = Synced
  BY Zenon DEF IInv, PhaseInv
<1>2. Files' = Files
  BY Zenon DEF Files
<1>3. RunInv'
  BY <1>2, Zenon DEF RunInv
<1>4. ImageInv'
  BY <1>1, <1>2 DEF AInv, ImageInv, Synced
<1> QED
  BY <1>3, <1>4, Zenon DEF AInv

\* The two ways in which a save of the snapshot or of the index leaves the disk.
LEMMA SavedState ==
    ASSUME NEW r \in Outcome, NEW s, save_atomic(r, s)
    PROVE  /\ UNCHANGED <<blocks, headers, undos, disk_index, lost>>
           /\ unsynced' = unsynced \/ unsynced'.file = "state"
BY Zenon DEF save_atomic

\* What save_blockstore_index_serializable_typed changes and leaves alone.
LEMMA SavedIndex ==
    ASSUME NEW r \in Outcome, NEW s, save_blockstore_index(r, s)
    PROVE  /\ UNCHANGED <<blocks, headers, undos, lost>>
           /\ disk_index' \in {disk_index, s}
           /\ unsynced' = unsynced \/ (unsynced'.file = "index" /\ unsynced'.prior = disk_index)
BY Zenon DEF save_blockstore_index

\* The job after an operation failed: unchanged, or none.
LEMMA FailedJob ==
    ASSUME RunInv, stage \notin {"down", "boot_truncate"}, NEW p, Fail(p)
    PROVE  /\ stage' \in {"idle", "rollback_index"}
           /\ Stored(job'.old, Files) /\ Stored(job'.snapshot, Files)
BY StoredEmpty DEF Fail, finish_failure, RunInv, NoJob

\* A step that adds an artifact of job.block, durably or not.
LEMMA GrowStep ==
    ASSUME IInv, AInv, stage \notin {"down", "boot_truncate"},
           blocks \subseteq blocks', headers \subseteq headers', undos \subseteq undos',
           UNCHANGED <<disk_index, lost, canonical>>,
           job' = job \/ job' = NoJob,
           lost = 0 => headers' \subseteq blocks',
           stage' \in {"header", "undo", "index", "side_header"} => job'.block \in blocks',
           stage' \in {"undo", "index"} => job'.block \in headers',
           stage' = "index" => job'.block \in undos',
           \/ unsynced' = Synced
           \/ /\ unsynced'.prior = <<job.block>>
              /\ \/ unsynced'.file = "block" /\ job.block \notin blocks /\ headers' = headers
                 \/ unsynced'.file = "header" /\ job.block \notin headers
                 \/ unsynced'.file = "undo" /\ job.block \notin undos
    PROVE  AInv'
<1>1. Files \subseteq Files'
  BY Zenon DEF Files
<1>2. /\ Stored(canonical', Files') /\ Stored(job'.old, Files') /\ Stored(job'.snapshot, Files')
      /\ lost = 0 => Stored(disk_index', Files')
  BY <1>1, StoredGrows, StoredEmpty DEF AInv, RunInv, ImageInv, NoJob
<1>3. RunInv'
  BY <1>2, Zenon DEF RunInv
<1>4. ImageInv'
  <2> SUFFICES ASSUME lost = 0
               PROVE  /\ unsynced'.file \in {"block", "header", "undo"} =>
                           \A i \in 1..Len(unsynced'.prior), j \in 1..Len(disk_index) :
                               unsynced'.prior[i] # disk_index[j]
                      /\ unsynced'.file = "block" =>
                           \A i \in 1..Len(unsynced'.prior) : unsynced'.prior[i] \notin headers'
                      /\ unsynced'.file # "index"
    BY <1>2, Zenon DEF ImageInv
  <2>1. CASE unsynced' = Synced
    BY <2>1, Zenon DEF Synced
  <2>2. CASE unsynced' # Synced
    <3>1. /\ \A i \in 1..Len(unsynced'.prior) : unsynced'.prior[i] = job.block
          /\ unsynced'.file # "index"
      BY <2>2
    <3>2. \A j \in 1..Len(disk_index) : disk_index[j] \in Files
      BY Zenon DEF AInv, ImageInv, Stored
    <3>3. job.block \notin Files
      BY <2>2, Zenon DEF Files
    <3>4. unsynced'.file = "block" => job.block \notin headers'
      BY <2>2, Zenon DEF AInv, ImageInv
    <3> QED
      BY <3>1, <3>2, <3>3, <3>4, Zenon
  <2> QED
    BY <2>1, <2>2, Zenon
<1> QED
  BY <1>3, <1>4, Zenon DEF AInv

\* The stage and the job after an artifact was written, or failed to be.
LEMMA ArtifactJob ==
    ASSUME NEW r \in Outcome, NEW next, r = "ok" => ArtifactStored(next), r # "ok" => ArtifactError(r)
    PROVE  /\ job' = job \/ job' = NoJob
           /\ \/ r = "ok" /\ stage' = next /\ job' = job
              \/ stage' \in {"idle", "rollback_index"}
BY Zenon DEF ArtifactStored, ArtifactError, Fail, finish_failure

\* WriteBlock, WriteHeader and WriteUndo.
LEMMA WriteArtifactStep ==
    ASSUME IInv, AInv, WriteBlock \/ WriteHeader \/ WriteUndo
    PROVE  AInv'
<1>1. unsynced = Synced /\ stage \in {"block", "header", "undo"}
  BY Zenon DEF WriteBlock, WriteHeader, WriteUndo, IInv, PhaseInv
<1>2. CASE WriteBlock
  <2>1. PICK r \in Outcome :
           /\ blocks' = Created(r, blocks, job.block)
           /\ write_file_if_absent(r, "block", blocks, job.block)
           /\ IF r = "ok" THEN ArtifactStored("header") ELSE ArtifactError(r)
    BY <1>2, Zenon DEF WriteBlock
  <2>2. /\ job' = job \/ job' = NoJob
        /\ \/ r = "ok" /\ stage' = "header" /\ job' = job
           \/ stage' \in {"idle", "rollback_index"}
    BY <2>1, ArtifactJob, Zenon
  <2>3. UNCHANGED <<headers, undos, disk_index, lost, canonical>>
    BY <1>2, Zenon DEF WriteBlock
  <2>4. blocks \subseteq blocks' /\ (r = "ok" => job.block \in blocks')
    BY <2>1, Zenon DEF Created
  <2>5. \/ unsynced' = Synced
        \/ unsynced'.prior = <<job.block>> /\ unsynced'.file = "block" /\ job.block \notin blocks
    BY <1>1, <2>1, Zenon DEF write_file_if_absent
  <2>6. lost = 0 => headers' \subseteq blocks'
    BY <2>3, <2>4, Zenon DEF AInv, ImageInv
  <2> QED
    BY <1>1, <2>2, <2>3, <2>4, <2>5, <2>6, GrowStep, Zenon
<1>3. CASE WriteHeader
  <2>1. PICK r \in Outcome :
           /\ headers' = Created(r, headers, job.block)
           /\ write_file_if_absent(r, "header", headers, job.block)
           /\ IF r = "ok" THEN ArtifactStored("undo") ELSE ArtifactError(r)
    BY <1>3, Zenon DEF WriteHeader
  <2>2. /\ job' = job \/ job' = NoJob
        /\ \/ r = "ok" /\ stage' = "undo" /\ job' = job
           \/ stage' \in {"idle", "rollback_index"}
    BY <2>1, ArtifactJob, Zenon
  <2>3. UNCHANGED <<blocks, undos, disk_index, lost, canonical>> /\ stage = "header"
    BY <1>3, Zenon DEF WriteHeader
  <2>4. /\ headers \subseteq headers' /\ (r = "ok" => job.block \in headers')
        /\ headers' \subseteq headers \union {job.block}
    BY <2>1, Zenon DEF Created
  <2>5. \/ unsynced' = Synced
        \/ unsynced'.prior = <<job.block>> /\ unsynced'.file = "header" /\ job.block \notin headers
    BY <1>1, <2>1, Zenon DEF write_file_if_absent
  <2>6. job.block \in blocks
    BY <2>3, Zenon DEF AInv, RunInv
  <2>7. lost = 0 => headers' \subseteq blocks'
    BY <2>3, <2>4, <2>6, Zenon DEF AInv, ImageInv
  <2> QED
    BY <1>1, <2>2, <2>3, <2>4, <2>5, <2>6, <2>7, GrowStep, Zenon
<1>4. CASE WriteUndo
  <2>1. ~SameHashReplay
    BY <1>4 DEF IInv, ApplyInv, ApplyStage, TypeOK, WriteUndo, SameHashReplay
  <2>2. PICK r \in Outcome :
           /\ undos' = Created(r, undos, job.block)
           /\ write_file_if_absent(r, "undo", undos, job.block)
           /\ r = "ok" => ArtifactStored("index")
           /\ r # "ok" => ArtifactError(r)
    BY <1>4, <2>1, Zenon DEF WriteUndo
  <2>3. /\ job' = job \/ job' = NoJob
        /\ \/ r = "ok" /\ stage' = "index" /\ job' = job
           \/ stage' \in {"idle", "rollback_index"}
    BY <2>2, ArtifactJob, Zenon
  <2>4. UNCHANGED <<blocks, headers, disk_index, lost, canonical>> /\ stage = "undo"
    BY <1>4, Zenon DEF WriteUndo
  <2>5. undos \subseteq undos' /\ (r = "ok" => job.block \in undos')
    BY <2>2, Zenon DEF Created
  <2>6. \/ unsynced' = Synced
        \/ unsynced'.prior = <<job.block>> /\ unsynced'.file = "undo" /\ job.block \notin undos
    BY <1>1, <2>2, Zenon DEF write_file_if_absent
  <2>7. job.block \in blocks /\ job.block \in headers /\ (lost = 0 => headers' \subseteq blocks')
    BY <2>4, Zenon DEF AInv, RunInv, ImageInv
  <2> QED
    BY <1>1, <2>3, <2>4, <2>5, <2>6, <2>7, GrowStep, Zenon
<1> QED
  BY <1>2, <1>3, <1>4, Zenon

\* WriteSideBlock and WriteSideHeader.
LEMMA WriteSideStep ==
    ASSUME IInv, AInv, WriteSideBlock \/ WriteSideHeader
    PROVE  AInv'
<1>1. unsynced = Synced /\ stage \in {"side_block", "side_header"}
  BY Zenon DEF WriteSideBlock, WriteSideHeader, IInv, PhaseInv
<1>2. CASE WriteSideBlock
  <2>1. PICK r \in Outcome :
           /\ blocks' = Created(r, blocks, job.block)
           /\ write_file_if_absent(r, "block", blocks, job.block)
           /\ SideWritten(r, "side_header")
    BY <1>2, Zenon DEF WriteSideBlock
  <2>2. /\ UNCHANGED <<headers, undos, disk_index, lost, canonical>>
        /\ \/ r = "ok" /\ stage' = "side_header" /\ job' = job
           \/ stage' = "idle" /\ job' = NoJob
    BY <1>2, <2>1, Zenon DEF WriteSideBlock, SideWritten
  <2>3. blocks \subseteq blocks' /\ (r = "ok" => job.block \in blocks')
    BY <2>1, Zenon DEF Created
  <2>4. \/ unsynced' = Synced
        \/ unsynced'.prior = <<job.block>> /\ unsynced'.file = "block" /\ job.block \notin blocks
    BY <1>1, <2>1, Zenon DEF write_file_if_absent
  <2>5. lost = 0 => headers' \subseteq blocks'
    BY <2>2, <2>3, Zenon DEF AInv, ImageInv
  <2> QED
    BY <1>1, <2>2, <2>3, <2>4, <2>5, GrowStep, Zenon
<1>3. CASE WriteSideHeader
  <2>1. PICK r \in Outcome :
           /\ headers' = Created(r, headers, job.block)
           /\ write_file_if_absent(r, "header", headers, job.block)
           /\ SideWritten(r, "idle")
    BY <1>3, Zenon DEF WriteSideHeader
  <2>2. /\ UNCHANGED <<blocks, undos, disk_index, lost, canonical>>
        /\ stage' = "idle" /\ job' = NoJob
    BY <1>3, <2>1, Zenon DEF WriteSideHeader, SideWritten
  <2>3. headers \subseteq headers' /\ headers' \subseteq headers \union {job.block}
    BY <2>1, Zenon DEF Created
  <2>4. \/ unsynced' = Synced
        \/ unsynced'.prior = <<job.block>> /\ unsynced'.file = "header" /\ job.block \notin headers
    BY <1>1, <2>1, Zenon DEF write_file_if_absent
  <2>5. job.block \in blocks
    BY <1>1, <1>3, Zenon DEF WriteSideHeader, AInv, RunInv
  <2>6. lost = 0 => headers' \subseteq blocks'
    BY <2>2, <2>3, <2>5, Zenon DEF AInv, ImageInv
  <2> QED
    BY <1>1, <2>2, <2>3, <2>4, <2>6, GrowStep, Zenon
<1> QED
  BY <1>2, <1>3, Zenon

\* What CommitToMemory makes of the index in memory.
LEMMA Remembered ==
    ASSUME NEW r \in Outcome, NEW s, CommitToMemory(r, s)
    PROVE  canonical' \in {canonical, s}
BY Zenon DEF CommitToMemory

\* The operations that start: ApplyDirect, StoreSide, StartReorg, DisconnectTip.
LEMMA StartStep ==
    ASSUME IInv, AInv,
           \/ \E b \in Block : ApplyDirect(b) \/ StoreSide(b) \/ StartReorg(b)
           \/ DisconnectTip
    PROVE  AInv'
<1>1. /\ stage = "idle" /\ ~persistence_fault
      /\ UNCHANGED <<blocks, headers, undos, disk_index, unsynced, lost, canonical>>
      /\ stage' \in {"block", "side_block", "disconnect_next"}
  BY ZenonT(60), Zenon DEF ApplyDirect, Connect, StoreSide, StartReorg, SideDelivery, DisconnectTip, disk
<1>2. /\ job'.old \in {chain_state, <<>>} /\ job'.snapshot \in {chain_state, <<>>}
      /\ job'.old # <<>> \/ job'.snapshot # <<>> => owner = "open"
  <2>1. ASSUME NEW b \in Block, ApplyDirect(b)
        PROVE  job'.old = chain_state /\ job'.snapshot = chain_state /\ owner = "open"
    BY <2>1, ZenonT(60), Zenon DEF ApplyDirect, Connect, NoJob
  <2>2. ASSUME NEW b \in Block, StoreSide(b)
        PROVE  job'.old = <<>> /\ job'.snapshot = <<>>
    BY <2>2, ZenonT(60), Zenon DEF StoreSide, NoJob
  <2>3. ASSUME NEW b \in Block, StartReorg(b)
        PROVE  job'.old = chain_state /\ job'.snapshot = <<>> /\ owner = "open"
    BY <2>3, Zenon DEF StartReorg, NoJob
  <2>4. ASSUME DisconnectTip
        PROVE  job'.old = chain_state /\ job'.snapshot = <<>> /\ owner = "open"
    BY <2>4, Zenon DEF DisconnectTip, NoJob
  <2> QED
    BY <2>1, <2>2, <2>3, <2>4, Zenon
<1>3. owner = "open" => chain_state = canonical
  BY Zenon DEF IInv, OpenInv
<1>4. Stored(canonical, Files) /\ Stored(<<>>, Files) /\ (lost = 0 => Stored(disk_index, Files))
  BY <1>1, StoredEmpty, Zenon DEF AInv, RunInv, ImageInv
<1>5. Stored(job'.old, Files) /\ Stored(job'.snapshot, Files)
  BY <1>2, <1>3, <1>4, Zenon
<1> QED
  BY <1>1, <1>4, <1>5, ChainStep, Zenon

\* WriteIndex, SaveSnapshot and Rewind.
LEMMA CommitStep ==
    ASSUME IInv, AInv, WriteIndex \/ SaveSnapshot \/ Rewind
    PROVE  AInv'
<1>1. stage \in {"index", "save", "rewind"}
  BY ZenonT(60), Zenon DEF WriteIndex, SaveSnapshot, Rewind
<1>2. /\ ~persistence_fault /\ canonical \in Seq(Block) /\ job.snapshot \in Seq(Block)
      /\ job.block \in Block /\ job.len_before \in Nat
      /\ Stored(canonical, Files) /\ Stored(job.old, Files) /\ Stored(job.snapshot, Files)
      /\ lost = 0 => Stored(disk_index, Files)
  BY <1>1, Zenon DEF IInv, TypeOK, Job, PhaseInv, ApplyInv, SaveInv, ApplyStage, SaveStage, AInv,
     RunInv, ImageInv
<1>3. CASE WriteIndex
  <2> DEFINE s == set_canonical_tip(job.block)
  <2>1. PICK r \in Outcome :
           /\ save_blockstore_index(r, s)
           /\ canonical' = IF r = "before" THEN canonical ELSE s
           /\ \/ Committed
              \/ ArtifactError(r)
              \/ Fail(FALSE)
    BY <1>3, Zenon DEF WriteIndex, Outcome
  <2>2. Stored(s, Files)
    <3>1. stage = "index" /\ job.block \in Files
      BY <1>3, Zenon DEF WriteIndex, AInv, RunInv, Files
    <3>2. canonical = job.snapshot
      BY <3>1, Zenon DEF IInv, ApplyInv, ApplyStage
    <3>3. SubSeq(canonical, 1, Len(job.snapshot)) = canonical
      BY <1>2, <3>2
    <3> QED
      BY <1>2, <3>1, <3>3, StoredAppend, Zenon DEF set_canonical_tip
  <2> HIDE DEF s
  <2>3. /\ job' = job \/ job' = NoJob
        /\ stage' \in {"save", "connect_next", "idle", "rollback_index"}
    BY <2>1, Zenon DEF Committed, Applied, finish_success, ArtifactError, Fail, finish_failure
  <2>4. Stored(job'.old, Files) /\ Stored(job'.snapshot, Files)
    BY <1>2, <2>3, StoredEmpty DEF NoJob
  <2> QED
    BY <1>1, <1>2, <2>1, <2>2, <2>3, <2>4, SavedIndex, ChainStep, Zenon
<1>4. CASE SaveSnapshot
  <2>1. PICK r \in Outcome :
           /\ save_atomic(r, chain_state)
           /\ \/ Applied
              \/ stage' = "rewind" /\ job' = job
              \/ ArtifactError(r)
              \/ Fail(FALSE)
    <3>1. Len(canonical) > job.len_before \/ Len(canonical) <= job.len_before
      BY <1>2
    <3> QED
      BY <1>4, <3>1, Zenon DEF SaveSnapshot, Outcome
  <2>2. /\ job' = job \/ job' = NoJob
        /\ stage' \in {"rewind", "connect_next", "idle", "rollback_index"}
        /\ canonical' = canonical
    BY <1>4, <2>1, Zenon DEF SaveSnapshot, Applied, finish_success, ArtifactError, Fail,
       finish_failure
  <2>3. Stored(job'.old, Files) /\ Stored(job'.snapshot, Files)
    BY <1>2, <2>2, StoredEmpty DEF NoJob
  <2> QED
    BY <1>1, <1>2, <2>1, <2>2, <2>3, SavedState, ChainStep, Zenon
<1>5. CASE Rewind
  <2> DEFINE s == SubSeq(canonical, 1, job.len_before)
  <2>1. PICK r \in Outcome :
           /\ save_blockstore_index(r, s)
           /\ CommitToMemory(r, s)
           /\ Fail(r = "ok")
    BY <1>5, Zenon DEF Rewind
  <2>2. Stored(s, Files)
    <3>1. /\ stage = "rewind" /\ canonical = Append(job.snapshot, job.block)
          /\ job.len_before = Len(job.snapshot)
      BY <1>5, Zenon DEF Rewind, IInv, SaveInv, SaveStage
    <3>2. job.len_before <= Len(canonical) /\ job.len_before \in Int
      BY <1>2, <3>1
    <3>3. Stored(canonical, Files) /\ canonical \in Seq(Block)
      BY <1>2, Zenon
    <3> QED
      BY <3>2, <3>3, StoredPrefix, Zenon DEF s
  <2> HIDE DEF s
  <2>3. /\ stage' \in {"idle", "rollback_index"}
        /\ Stored(job'.old, Files) /\ Stored(job'.snapshot, Files)
    BY <1>1, <2>1, FailedJob, Zenon DEF AInv
  <2>4. canonical' \in {canonical, s}
    BY <2>1, Remembered, Zenon
  <2> QED
    BY <1>1, <1>2, <2>1, <2>2, <2>3, <2>4, SavedIndex, ChainStep, Zenon
<1> QED
  BY <1>3, <1>4, <1>5, Zenon

\* DisconnectNext, Truncate, DisconnectSave and Restore.
LEMMA DisconnectStep ==
    ASSUME IInv, AInv, DisconnectNext \/ Truncate \/ DisconnectSave \/ Restore
    PROVE  AInv'
<1>1. stage \in DisconnectStage
  BY Zenon DEF DisconnectNext, Truncate, DisconnectSave, Restore, DisconnectStage
<1>2. /\ ~persistence_fault /\ canonical \in Seq(Block) /\ job.snapshot \in Seq(Block)
      /\ job.len_before \in Nat /\ job \in Job /\ stage \notin {"down", "boot_truncate"}
      /\ Stored(canonical, Files) /\ Stored(job.old, Files) /\ Stored(job.snapshot, Files)
      /\ lost = 0 => Stored(disk_index, Files)
  BY <1>1, Zenon DEF IInv, TypeOK, Job, PhaseInv, DisconnectStage, AInv, RunInv, ImageInv
<1>3. CASE DisconnectNext
  <2>1. /\ UNCHANGED <<blocks, headers, undos, disk_index, unsynced, lost, canonical>>
        /\ stage' \in {"truncate", "connect_next", "idle"}
        /\ \/ job' = [job EXCEPT !.disconnects = @ - 1, !.snapshot = chain_state,
                                 !.len_before = Len(canonical)]
           \/ job' = job
           \/ job' = NoJob
        /\ stage = "disconnect_next"
    BY <1>3, Zenon DEF DisconnectNext, finish_success, disk
  <2>2. chain_state = canonical
    BY <2>1, Zenon DEF IInv, DisconnectInv
  <2>3. Stored(job'.old, Files) /\ Stored(job'.snapshot, Files)
    <3>1. CASE job' = [job EXCEPT !.disconnects = @ - 1, !.snapshot = chain_state,
                                  !.len_before = Len(canonical)]
      <4>1. job'.old = job.old /\ job'.snapshot = chain_state
        BY <1>2, <3>1, Zenon DEF Job
      <4> QED
        BY <1>2, <2>2, <4>1, Zenon
    <3>2. CASE job' = job \/ job' = NoJob
      BY <1>2, <3>2, StoredEmpty, SMTT(60) DEF NoJob
    <3> QED
      BY <2>1, <3>1, <3>2, Zenon
  <2> QED
    BY <1>2, <2>1, <2>3, ChainStep, Zenon
<1>4. CASE Truncate
  <2> DEFINE s == SubSeq(canonical, 1, job.len_before - 1)
  <2>1. PICK r \in Outcome :
           /\ save_blockstore_index(r, s)
           /\ CommitToMemory(r, s)
           /\ \/ stage' = "disconnect_save" /\ job' = job
              \/ Fail(TRUE)
    BY <1>4, ZenonT(60), Zenon DEF Truncate
  <2>2. Stored(s, Files)
    <3>1. job.len_before - 1 \in Int /\ job.len_before - 1 <= Len(canonical)
      BY <1>2, <1>4 DEF Truncate, IInv, DisconnectInv
    <3>2. Stored(canonical, Files) /\ canonical \in Seq(Block)
      BY <1>2, Zenon
    <3> QED
      BY <3>1, <3>2, StoredPrefix, Zenon DEF s
  <2> HIDE DEF s
  <2>3. /\ stage' \in {"disconnect_save", "idle", "rollback_index"}
        /\ Stored(job'.old, Files) /\ Stored(job'.snapshot, Files)
    BY <1>2, <2>1, FailedJob, Zenon DEF AInv
  <2>4. canonical' \in {canonical, s}
    BY <2>1, Remembered, Zenon
  <2> QED
    BY <1>2, <2>1, <2>2, <2>3, <2>4, SavedIndex, ChainStep, Zenon
<1>5. CASE DisconnectSave
  <2>1. PICK r \in Outcome :
           /\ save_atomic(r, chain_state)
           /\ \/ stage' \in {"disconnect_next", "restore"} /\ job' = job
              \/ Fail(TRUE)
    BY <1>5, Zenon DEF DisconnectSave
  <2>2. /\ stage' \in {"disconnect_next", "restore", "idle", "rollback_index"}
        /\ Stored(job'.old, Files) /\ Stored(job'.snapshot, Files)
        /\ canonical' = canonical
    BY <1>2, <1>5, <2>1, FailedJob, ZenonT(60), Zenon DEF AInv, DisconnectSave
  <2> QED
    BY <1>2, <2>1, <2>2, SavedState, ChainStep, Zenon
<1>6. CASE Restore
  <2> DEFINE s == rollback_canonical(job.len_before - 1, <<Tip(job.snapshot)>>)
  <2>1. PICK r \in Outcome :
           /\ save_blockstore_index(r, s)
           /\ CommitToMemory(r, s)
           /\ Fail(TRUE)
    BY <1>6, Zenon DEF Restore
  <2>2. Stored(s, Files)
    <3> DEFINE n == IF job.len_before - 1 < Len(canonical) THEN job.len_before - 1 ELSE Len(canonical)
    <3>1. job.snapshot # <<>>
      BY <1>6, Zenon DEF Restore, IInv, DisconnectInv
    <3>2. Tip(job.snapshot) \in Block /\ Tip(job.snapshot) \in Files
      BY <1>2, <3>1 DEF Tip, Stored
    <3>3. <<Tip(job.snapshot)>> \in Seq(Block) /\ Stored(<<Tip(job.snapshot)>>, Files)
      BY <3>2 DEF Stored
    <3>4. n \in Int /\ n <= Len(canonical)
      BY <1>2
    <3>5. SubSeq(canonical, 1, n) \in Seq(Block) /\ Stored(SubSeq(canonical, 1, n), Files)
      BY <1>2, <3>4, PrefixType, StoredPart
    <3> HIDE DEF n
    <3>6. Stored(SubSeq(canonical, 1, n) \o <<Tip(job.snapshot)>>, Files)
      BY <3>3, <3>5, StoredConcat, Zenon
    <3> QED
      BY <3>6, Zenon DEF rollback_canonical, n
  <2> HIDE DEF s
  <2>3. /\ stage' \in {"idle", "rollback_index"}
        /\ Stored(job'.old, Files) /\ Stored(job'.snapshot, Files)
    BY <1>2, <2>1, FailedJob, Zenon DEF AInv
  <2>4. canonical' \in {canonical, s}
    BY <2>1, Remembered, Zenon
  <2> QED
    BY <1>2, <2>1, <2>2, <2>3, <2>4, SavedIndex, ChainStep, Zenon
<1> QED
  BY <1>3, <1>4, <1>5, <1>6, Zenon

\* ConnectNext, RollbackIndex and RollbackSave.
LEMMA ReorgStep ==
    ASSUME IInv, AInv, ConnectNext \/ RollbackIndex \/ RollbackSave
    PROVE  AInv'
<1>1. stage \in ReorgStage
  BY Zenon DEF ConnectNext, RollbackIndex, RollbackSave, ReorgStage
<1>2. /\ ~persistence_fault /\ canonical \in Seq(Block) /\ job.snapshot \in Seq(Block)
      /\ job.old \in Seq(Block) /\ job.base \in Nat /\ job \in Job
      /\ stage \notin {"down", "boot_truncate"}
      /\ Stored(canonical, Files) /\ Stored(job.old, Files) /\ Stored(job.snapshot, Files)
      /\ lost = 0 => Stored(disk_index, Files)
  BY <1>1, Zenon DEF IInv, TypeOK, Job, PhaseInv, ReorgStage, AInv, RunInv, ImageInv
<1>3. CASE ConnectNext
  <2>1. /\ UNCHANGED <<blocks, headers, undos, disk_index, unsynced, lost, canonical>>
        /\ stage = "connect_next"
        /\ \/ Connect(Head(job.connects), [job EXCEPT !.connects = Tail(@)])
           \/ Fail(TRUE)
           \/ finish_success
    BY <1>3, Zenon DEF ConnectNext, disk
  <2>2. chain_state = canonical
    BY <2>1, Zenon DEF IInv, DisconnectInv
  <2>3. CASE Connect(Head(job.connects), [job EXCEPT !.connects = Tail(@)])
    <3>1. job'.old = job.old /\ job'.snapshot = chain_state /\ stage' = "block"
      BY <1>2, <2>3, Zenon DEF Connect, Job
    <3> QED
      BY <1>2, <2>1, <2>2, <3>1, ChainStep, Zenon
  <2>4. CASE Fail(TRUE)
    BY <1>2, <2>1, <2>4, FailedJob, ChainStep, ZenonT(60), Zenon DEF AInv
  <2>5. CASE finish_success
    <3>1. stage' = "idle" /\ job'.old = <<>> /\ job'.snapshot = <<>>
      BY <2>5, Zenon DEF finish_success, NoJob
    <3> QED
      BY <1>2, <2>1, <3>1, StoredEmpty, ChainStep, Zenon
  <2> QED
    BY <2>1, <2>3, <2>4, <2>5, Zenon
<1>4. CASE RollbackIndex
  <2> DEFINE s == rollback_canonical(job.base, job.suffix)
  <2>1. PICK r \in Outcome :
           /\ save_blockstore_index(r, s)
           /\ CommitToMemory(r, s)
           /\ \/ stage' = "rollback_save" /\ job' = job
              \/ finish_failure(FALSE)
    BY <1>4, Zenon DEF RollbackIndex
  <2>2. Stored(s, Files)
    <3> DEFINE n == IF job.base < Len(canonical) THEN job.base ELSE Len(canonical)
    <3>1. job.suffix = SubSeq(job.old, job.base + 1, Len(job.old))
      BY <1>4, Zenon DEF RollbackIndex, IInv, PhaseInv, ReorgStage, ReorgInv
    <3>2. job.base + 1 \in Nat /\ job.base + 1 >= 1 /\ Len(job.old) \in Int
      BY <1>2
    <3>3. job.suffix \in Seq(Block) /\ Stored(job.suffix, Files)
      BY <1>2, <3>1, <3>2, StoredPart, SMTT(60) DEF Job
    <3>4. n \in Int /\ n <= Len(canonical)
      BY <1>2
    <3>5. SubSeq(canonical, 1, n) \in Seq(Block) /\ Stored(SubSeq(canonical, 1, n), Files)
      BY <1>2, <3>4, PrefixType, StoredPart
    <3> HIDE DEF n
    <3>6. Stored(SubSeq(canonical, 1, n) \o job.suffix, Files)
      BY <3>3, <3>5, StoredConcat, ZenonT(60), Zenon
    <3> QED
      BY <3>6, Zenon DEF rollback_canonical, n
  <2> HIDE DEF s
  <2>3. stage' \in {"rollback_save", "idle"} /\ (job' = job \/ job' = NoJob)
    BY <2>1, Zenon DEF finish_failure
  <2>4. Stored(job'.old, Files) /\ Stored(job'.snapshot, Files)
    BY <1>2, <2>3, StoredEmpty DEF NoJob
  <2>5. canonical' \in {canonical, s}
    BY <2>1, Remembered, Zenon
  <2> QED
    BY <1>2, <2>1, <2>2, <2>3, <2>4, <2>5, SavedIndex, ChainStep, Zenon
<1>5. CASE RollbackSave
  <2>1. PICK r \in Outcome : save_atomic(r, chain_state) /\ finish_failure(r = "ok")
    BY <1>5, Zenon DEF RollbackSave
  <2>2. stage' = "idle" /\ job'.old = <<>> /\ job'.snapshot = <<>> /\ canonical' = canonical
    BY <1>5, <2>1, Zenon DEF finish_failure, NoJob, RollbackSave
  <2> QED
    BY <1>2, <2>1, <2>2, SavedState, StoredEmpty, ChainStep, Zenon
<1> QED
  BY <1>3, <1>4, <1>5, Zenon

\* A step that ends the process, or happens while it is down, need only keep the
\* datadir in order.
LEMMA DownStep ==
    ASSUME stage' = "down", ImageInv'
    PROVE  AInv'
BY Zenon DEF AInv, RunInv

\* The rows found complete by the startup scan are stored.
LEMMA CompleteRows ==
    ASSUME NEW s \in Seq(Block), NEW n \in 0..Len(s), complete_prefix(s, n)
    PROVE  Stored(SubSeq(s, 1, n), Files)
<1>1. /\ Len(SubSeq(s, 1, n)) = n
      /\ \A i \in 1..n : SubSeq(s, 1, n)[i] = s[i]
  BY PrefixType
<1> QED
  BY <1>1, Zenon DEF Stored, complete_prefix, Complete, Files

\* Startup, BootTruncate and BootSave.
LEMMA BootStep ==
    ASSUME IInv, AInv, Startup \/ BootTruncate \/ BootSave
    PROVE  AInv'
<1>1. CASE Startup
  <2>1. PICK n \in 0..Len(disk_index) :
           /\ complete_prefix(disk_index, n)
           /\ stage' = IF n = Len(disk_index) THEN "boot_save" ELSE "boot_truncate"
    BY <1>1, Zenon DEF Startup
  <2>2. /\ UNCHANGED <<blocks, headers, undos, disk_index, lost, job>> /\ unsynced' = Synced
        /\ canonical' = disk_index /\ disk_index \in Seq(Block) /\ job = NoJob
    BY <1>1, Zenon DEF Startup, IInv, TypeOK, PhaseInv
  <2>3. Files' = Files
    BY <2>2, Zenon DEF Files
  <2>4. ImageInv'
    BY <2>2, <2>3, Zenon DEF AInv, ImageInv, Synced
  <2>5. stage' = "boot_save" => Stored(canonical', Files)
    <3>1. n = Len(disk_index) => SubSeq(disk_index, 1, n) = disk_index
      BY <2>2
    <3> QED
      BY <2>1, <2>2, <3>1, CompleteRows, Zenon
  <2>6. RunInv'
    BY <2>1, <2>2, <2>3, <2>5, StoredEmpty, Zenon DEF RunInv, NoJob
  <2> QED
    BY <2>4, <2>6, Zenon DEF AInv
<1>2. CASE BootTruncate
  <2>1. PICK r \in Outcome, n \in 0..Len(canonical) :
           /\ complete_prefix(canonical, n)
           /\ save_blockstore_index(r, SubSeq(canonical, 1, n))
           /\ \/ /\ canonical' = SubSeq(canonical, 1, n)
                 /\ stage' = "boot_save"
                 /\ job' = job
              \/ Exit
    BY <1>2, Zenon DEF BootTruncate
  <2>2. /\ stage = "boot_truncate" /\ ~persistence_fault /\ job = NoJob /\ canonical \in Seq(Block)
        /\ lost = 0 => Stored(disk_index, Files)
    BY <1>2, Zenon DEF BootTruncate, IInv, TypeOK, PhaseInv, AInv, ImageInv
  <2>3. Stored(SubSeq(canonical, 1, n), Files)
    BY <2>1, <2>2, CompleteRows, Zenon
  <2>4. /\ stage' \in {"boot_save", "down"} /\ job' = NoJob
        /\ stage' = "boot_save" => canonical' = SubSeq(canonical, 1, n)
    BY <2>1, <2>2, Zenon DEF Exit
  <2>5. Stored(job'.old, Files) /\ Stored(job'.snapshot, Files)
    BY <2>4, StoredEmpty, Zenon DEF NoJob
  <2> QED
    BY <2>1, <2>2, <2>3, <2>4, <2>5, SavedIndex, ChainStep, Zenon
<1>3. CASE BootSave
  <2>1. PICK r \in Outcome :
           /\ save_atomic(r, reconcile(chain_state, canonical))
           /\ \/ stage' = "idle" /\ UNCHANGED <<canonical, job>>
              \/ Exit
    BY <1>3, Zenon DEF BootSave
  <2>2. /\ stage = "boot_save" /\ ~persistence_fault /\ job = NoJob
        /\ Stored(canonical, Files) /\ (lost = 0 => Stored(disk_index, Files))
    BY <1>3, Zenon DEF BootSave, IInv, PhaseInv, AInv, RunInv, ImageInv
  <2>3. /\ stage' \in {"idle", "down"} /\ job' = NoJob
        /\ stage' = "idle" => canonical' = canonical
    BY <2>1, <2>2, Zenon DEF Exit
  <2>4. Stored(job'.old, Files) /\ Stored(job'.snapshot, Files)
    BY <2>3, StoredEmpty, Zenon DEF NoJob
  <2> QED
    BY <2>1, <2>2, <2>3, <2>4, SavedState, ChainStep, Zenon
<1> QED
  BY <1>1, <1>2, <1>3, Zenon

\* The datadir that a power loss leaves keeps every file of its index.
LEMMA ImageReverted ==
    ASSUME IInv, AInv, lost = 0
    PROVE  /\ Reverted.headers \subseteq Reverted.blocks
           /\ Stored(Reverted.index, Reverted.blocks \intersect Reverted.headers \intersect Reverted.undos)
<1> DEFINE gone == Elems(unsynced.prior)
           f == unsynced.file
<1>1. /\ headers \subseteq blocks /\ Stored(disk_index, Files)
      /\ f = "index" => Stored(unsynced.prior, Files)
      /\ f \in {"block", "header", "undo"} => \A j \in 1..Len(disk_index) : disk_index[j] \notin gone
      /\ f = "block" => gone \intersect headers = {}
  BY Zenon DEF AInv, ImageInv, Elems
<1>2. f \in {"none", "block", "header", "undo", "index", "state"}
  BY Zenon DEF IInv, TypeOK, Commit
<1> HIDE DEF gone, f
<1>3. /\ Reverted.blocks = IF f = "block" THEN blocks \ gone ELSE blocks
      /\ Reverted.headers = IF f = "header" THEN headers \ gone ELSE headers
      /\ Reverted.undos = IF f = "undo" THEN undos \ gone ELSE undos
      /\ Reverted.index = IF f = "index" THEN unsynced.prior ELSE disk_index
  BY Zenon DEF Reverted, gone, f
<1>4. CASE f = "index"
  BY <1>1, <1>3, <1>4, Zenon DEF Files
<1>5. CASE f \in {"none", "state"}
  BY <1>1, <1>3, <1>5, Zenon DEF Files
<1>6. CASE f \in {"block", "header", "undo"}
  <2>1. Reverted.headers \subseteq Reverted.blocks
    BY <1>1, <1>3, <1>6, Zenon
  <2>2. Stored(disk_index, Reverted.blocks \intersect Reverted.headers \intersect Reverted.undos)
    BY <1>1, <1>3, <1>6, Zenon DEF Stored, Files
  <2> QED
    BY <1>3, <1>6, <2>1, <2>2, Zenon
<1> QED
  BY <1>2, <1>4, <1>5, <1>6, Zenon

\* Crash, PowerLoss and LoseFile: an unsynced commit that is taken back takes no
\* file of an indexed row, and no block whose header stays.
LEMMA LossStep ==
    ASSUME IInv, AInv, Crash \/ PowerLoss \/ LoseFile
    PROVE  AInv'
<1>1. CASE Crash
  <2>1. stage' = "down" /\ UNCHANGED <<blocks, headers, undos, disk_index, unsynced, lost>>
    BY <1>1, Zenon DEF Crash, Exit, disk
  <2>2. ImageInv'
    BY <2>1, Zenon DEF AInv, ImageInv, Stored, Files
  <2> QED
    BY <2>1, <2>2, DownStep, Zenon
<1>2. CASE LoseFile
  <2>1. stage' = "down" /\ lost' # 0
    BY <1>2 DEF LoseFile, IInv, TypeOK
  <2> QED
    BY <2>1, DownStep, Zenon DEF ImageInv
<1>3. CASE PowerLoss
  <2>1. /\ stage' = "down" /\ unsynced' = Synced /\ lost' = lost
        /\ blocks' = Reverted.blocks /\ headers' = Reverted.headers /\ undos' = Reverted.undos
        /\ disk_index' = Reverted.index
    BY <1>3, Zenon DEF PowerLoss, Exit
  <2>2. ASSUME lost = 0
        PROVE  headers' \subseteq blocks' /\ Stored(disk_index', Files')
    BY <2>1, <2>2, ImageReverted, Zenon DEF Files
  <2>3. ImageInv'
    BY <2>1, <2>2, Zenon DEF ImageInv, Synced
  <2> QED
    BY <2>1, <2>3, DownStep, Zenon
<1> QED
  BY <1>1, <1>2, <1>3, Zenon

-----------------------------------------------------------------------------
(* The theorems. *)

\* Every step, and stuttering, preserves AInv.
LEMMA NextArtifacts ==
    ASSUME IInv, AInv, [Next]_vars
    PROVE  AInv'
<1>1. CASE UNCHANGED vars
  <2>1. UNCHANGED <<blocks, headers, undos, disk_index, unsynced, lost, stage, canonical, job>>
    BY <1>1, Zenon DEF vars, disk, engine
  <2>2. Files' = Files
    BY <2>1, Zenon DEF Files
  <2>3. RunInv'
    BY <2>1, <2>2, Zenon DEF AInv, RunInv
  <2>4. ImageInv'
    BY <2>1, <2>2, Zenon DEF AInv, ImageInv
  <2> QED
    BY <2>3, <2>4, Zenon DEF AInv
<1>2. CASE \E b \in Block : ApplyDirect(b) \/ StoreSide(b) \/ StartReorg(b)
  BY <1>2, StartStep, Zenon
<1>3. CASE DisconnectTip
  BY <1>3, StartStep, Zenon
<1>4. CASE WriteBlock \/ WriteHeader \/ WriteUndo
  BY <1>4, WriteArtifactStep, Zenon
<1>5. CASE WriteIndex \/ SaveSnapshot \/ Rewind
  BY <1>5, CommitStep, Zenon
<1>6. CASE WriteSideBlock \/ WriteSideHeader
  BY <1>6, WriteSideStep, Zenon
<1>7. CASE DisconnectNext \/ Truncate \/ DisconnectSave \/ Restore
  BY <1>7, DisconnectStep, Zenon
<1>8. CASE ConnectNext \/ RollbackIndex \/ RollbackSave
  BY <1>8, ReorgStep, Zenon
<1>9. CASE Startup \/ BootTruncate \/ BootSave
  BY <1>9, BootStep, Zenon
<1>10. CASE Crash \/ PowerLoss \/ LoseFile
  BY <1>10, LossStep, Zenon
<1> QED
  BY <1>1, <1>2, <1>3, <1>4, <1>5, <1>6, <1>7, <1>8, <1>9, <1>10, Zenon DEF Next, Step

-----------------------------------------------------------------------------
\* AInv holds in every state of the node.
THEOREM ArtifactInvariance == Spec => [](IInv /\ AInv)
<1>1. Init => AInv
  BY StoredEmpty DEF Init, AInv, RunInv, ImageInv, Synced
<1>2. IInv /\ AInv /\ [Next]_vars => AInv'
  BY NextArtifacts, Zenon
<1> QED
  BY <1>1, <1>2, Invariance, PTL DEF Spec

\* Whatever write fails, wherever the process or the machine dies, the datadir
\* left behind (if nothing else removed a file) is one the startup reconcile accepts
\* and can replay: index and snapshot are valid chains, every row has its files.
THEOREM RecoverySafety == Spec => []EveryImageRecoverable
<1>1. IInv /\ AInv => EveryImageRecoverable
  <2> SUFFICES ASSUME IInv, AInv, lost = 0
               PROVE  /\ Recoverable(Reverted)
                      /\ Recoverable([blocks |-> blocks, headers |-> headers, undos |-> undos,
                                      index |-> disk_index, state |-> disk_state])
    BY Zenon DEF EveryImageRecoverable
  <2>1. Good(disk_index) /\ Good(disk_state) /\ Good(Reverted.index) /\ Good(Reverted.state)
    BY Zenon DEF IInv, GoodInv, Reverted
  <2>2. ASSUME NEW s, Good(s)
        PROVE  Elems(s) \intersect Invalid = {} /\ (s # <<>> => s = Chain[Tip(s)])
    BY <2>2, Zenon DEF Good, Elems
  <2>3. ASSUME NEW s, NEW files, Stored(s, files)
        PROVE  Elems(s) \subseteq files
    BY <2>3, Zenon DEF Stored, Elems
  <2>4. Elems(disk_index) \subseteq Files
    BY <2>3, Zenon DEF AInv, ImageInv
  <2>5. Elems(Reverted.index) \subseteq
          Reverted.blocks \intersect Reverted.headers \intersect Reverted.undos
    BY <2>3, ImageReverted, Zenon
  <2>6. Recoverable(Reverted)
    BY <2>1, <2>2, <2>5, Zenon DEF Recoverable
  <2>7. Recoverable([blocks |-> blocks, headers |-> headers, undos |-> undos,
                     index |-> disk_index, state |-> disk_state])
    BY <2>1, <2>2, <2>4, Zenon DEF Recoverable, Files
  <2> QED
    BY <2>6, <2>7, Zenon
<1> QED
  BY <1>1, ArtifactInvariance, PTL

\* persist_block_bytes writes the block before its header: a header never stands
\* for missing bytes, also after a power loss.
THEOREM HeaderSafety == Spec => []HeaderImpliesBlock
<1>1. IInv /\ AInv => HeaderImpliesBlock
  BY ImageReverted, Zenon DEF AInv, ImageInv, HeaderImpliesBlock
<1> QED
  BY <1>1, ArtifactInvariance, PTL

\* The rows of a running node's index have their files, also when any number of
\* files were lost while it was stopped (truncate_incomplete_canonical_suffix).
THEOREM RunningRowsSafety == Spec => []RunningRowsComplete
<1>1. AInv => RunningRowsComplete
  BY Zenon DEF AInv, RunInv, RunningRowsComplete, Stored, Elems, Files, Complete
<1> QED
  BY <1>1, ArtifactInvariance, PTL

-----------------------------------------------------------------------------
(* A latched engine shows what the disk shows. *)

\* What a step that latches the engine leaves in memory.
Latched ==
    persistence_fault' /\ ~persistence_fault /\ job.kind # "side" =>
        /\ chain_state' = disk_index'
        /\ reload_error' \/ canonical' = disk_index'

\* An artifact write that failed after its link: the connect is undone, and the
\* chain below it is the one on disk.
LEMMA ArtifactLatches ==
    ASSUME IInv, stage \in ApplyStage, NEW r, ArtifactError(r),
           UNCHANGED <<disk_index, canonical>>
    PROVE  Latched
BY Zenon DEF IInv, ApplyInv, ArtifactError, Latched

\* The write of the index inside a truncate, a rewind, a restore or a rollback:
\* what is committed to memory is what was written.
LEMMA IndexLatches ==
    ASSUME ~persistence_fault, NEW r \in Outcome, NEW s,
           save_blockstore_index(r, s), handle_persistence_error(r, TRUE),
           CommitToMemory(r, s), r = "after" => chain_state' = s
    PROVE  Latched
<1>1. persistence_fault' => r = "after"
  BY Zenon DEF handle_persistence_error
<1> QED
  BY <1>1, Zenon DEF Latched, save_blockstore_index, CommitToMemory

\* The steps of an apply.
LEMMA ApplyLatches ==
    ASSUME IInv, WriteBlock \/ WriteHeader \/ WriteUndo \/ WriteIndex \/ SaveSnapshot \/ Rewind
    PROVE  Latched
<1>1. stage \in ApplyStage \union SaveStage /\ ~persistence_fault
  BY Zenon DEF WriteBlock, WriteHeader, WriteUndo, WriteIndex, SaveSnapshot, Rewind, ApplyStage,
     SaveStage, IInv, PhaseInv
<1>2. CASE WriteBlock \/ WriteHeader
  <2>1. stage \in ApplyStage /\ UNCHANGED <<disk_index, canonical>>
    BY <1>2, Zenon DEF WriteBlock, WriteHeader, ApplyStage
  <2>2. persistence_fault' = persistence_fault \/ \E r \in Outcome : ArtifactError(r)
    BY <1>2, Zenon DEF WriteBlock, WriteHeader, ArtifactStored
  <2> QED
    BY <1>1, <2>1, <2>2, ArtifactLatches, Zenon DEF Latched
<1>3. CASE WriteUndo
  <2>1. stage \in ApplyStage /\ UNCHANGED <<disk_index, canonical>>
    BY <1>3, Zenon DEF WriteUndo, ApplyStage
  <2>2. persistence_fault' = persistence_fault \/ \E r \in Outcome : ArtifactError(r)
    <3>1. PICK r \in Outcome :
             CASE r = "ok" /\ SameHashReplay -> Committed
               [] r = "ok" /\ ~SameHashReplay -> ArtifactStored("index") /\ UNCHANGED tip_timestamp
               [] OTHER -> ArtifactError(r) /\ UNCHANGED tip_timestamp
      BY <1>3, Zenon DEF WriteUndo
    <3> QED
      BY <3>1, Zenon DEF Committed, ArtifactStored
  <2> QED
    BY <1>1, <2>1, <2>2, ArtifactLatches, Zenon DEF Latched
<1>4. CASE WriteIndex
  <2>1. /\ stage = "index" /\ canonical = job.snapshot /\ job.snapshot \in Seq(Block)
        /\ chain_state = Append(job.snapshot, job.block)
    BY <1>4, Zenon DEF WriteIndex, IInv, TypeOK, Job, ApplyInv, ApplyStage
  <2>2. set_canonical_tip(job.block) = chain_state
    BY <2>1, PrefixWhole, Zenon DEF set_canonical_tip
  <2>3. PICK r \in Outcome :
           /\ save_blockstore_index(r, chain_state)
           /\ canonical' = IF r = "before" THEN canonical ELSE chain_state
           /\ r = "ok" => Committed
           /\ r = "before" => ArtifactError(r)
           /\ r = "after" => UNCHANGED chain_state
    BY <1>4, <2>2, Zenon DEF WriteIndex, Outcome
  <2>4. CASE r = "ok"
    BY <1>1, <2>3, <2>4, Zenon DEF Committed, Latched
  <2>5. CASE r = "before"
    <3>1. UNCHANGED <<disk_index, canonical>> /\ stage \in ApplyStage
      BY <2>1, <2>3, <2>5, Zenon DEF save_blockstore_index, ApplyStage
    <3> QED
      BY <2>3, <2>5, <3>1, ArtifactLatches, Zenon
  <2>6. CASE r = "after"
    BY <2>3, <2>6, Zenon DEF save_blockstore_index, Latched
  <2> QED
    BY <2>4, <2>5, <2>6, Zenon DEF Outcome
<1>5. CASE SaveSnapshot
  <2>1. /\ stage = "save" /\ canonical = chain_state /\ disk_index = chain_state
        /\ canonical' = canonical /\ disk_index' = disk_index
    BY <1>5, Zenon DEF SaveSnapshot, IInv, SaveInv, SaveStage, save_atomic
  <2>2. persistence_fault' = persistence_fault \/ chain_state' = chain_state
    <3>1. /\ canonical = Append(job.snapshot, job.block) /\ job.len_before = Len(job.snapshot)
          /\ job.snapshot \in Seq(Block) /\ job.block \in Block
      BY <2>1, Zenon DEF IInv, TypeOK, Job, SaveInv, SaveStage
    <3>2. Len(canonical) > job.len_before /\ ~(Len(canonical) <= job.len_before)
      BY <3>1, AppendFacts
    <3>3. PICK r \in Outcome :
             /\ r = "ok" => UNCHANGED chain_state
             /\ r = "before" => UNCHANGED chain_state
             /\ r = "after" => UNCHANGED chain_state
      BY <1>5, <3>2, Zenon DEF SaveSnapshot, Outcome
    <3> QED
      BY <3>3, Zenon DEF Outcome
  <2> QED
    BY <2>1, <2>2, Zenon DEF Latched
<1>6. CASE Rewind
  <2>1. SubSeq(canonical, 1, job.len_before) = job.snapshot
    <3>1. /\ canonical = Append(job.snapshot, job.block) /\ job.len_before = Len(job.snapshot)
          /\ job.snapshot \in Seq(Block) /\ job.block \in Block
      BY <1>6, Zenon DEF Rewind, IInv, TypeOK, Job, SaveInv, SaveStage
    <3> QED
      BY <3>1, AppendFacts, Zenon
  <2>2. PICK r \in Outcome :
           /\ save_blockstore_index(r, job.snapshot)
           /\ handle_persistence_error(r, TRUE)
           /\ CommitToMemory(r, job.snapshot)
           /\ chain_state' = job.snapshot
    BY <1>6, <2>1, Zenon DEF Rewind
  <2> QED
    BY <1>1, <2>2, IndexLatches, Zenon
<1> QED
  BY <1>2, <1>3, <1>4, <1>5, <1>6, Zenon

\* The steps of a disconnect and of a rollback.
LEMMA UndoLatches ==
    ASSUME IInv, Truncate \/ DisconnectSave \/ Restore \/ RollbackIndex \/ RollbackSave
    PROVE  Latched
<1>1. CASE Truncate
  <2>1. stage = "truncate"
    BY <1>1, Zenon DEF Truncate
  <2>2. /\ ~persistence_fault /\ job.snapshot \in Seq(Block) /\ job.snapshot # <<>>
        /\ chain_state = Front(job.snapshot) /\ job.len_before = Len(job.snapshot)
        /\ canonical = job.snapshot
    BY <2>1, DisconnectFacts, Zenon DEF IInv, DisconnectInv
  <2>3. SubSeq(canonical, 1, job.len_before - 1) = chain_state
    BY <2>2, Zenon DEF Front
  <2>4. PICK r \in Outcome :
           /\ save_blockstore_index(r, chain_state)
           /\ handle_persistence_error(r, TRUE)
           /\ CommitToMemory(r, chain_state)
           /\ chain_state' = IF r = "before" THEN job.snapshot ELSE chain_state
    BY <1>1, <2>3, ZenonT(60), Zenon DEF Truncate
  <2> QED
    BY <2>2, <2>4, IndexLatches, Zenon
<1>2. CASE DisconnectSave \/ RollbackSave
  <2>1. canonical = disk_index /\ chain_state = disk_index
    BY <1>2, Zenon DEF DisconnectSave, RollbackSave, IInv, DisconnectInv
  <2>2. UNCHANGED <<chain_state, canonical, disk_index>>
    BY <1>2, Zenon DEF DisconnectSave, RollbackSave, save_atomic
  <2> QED
    BY <2>1, <2>2, Zenon DEF Latched
<1>3. CASE Restore
  <2>1. stage = "restore"
    BY <1>3, Zenon DEF Restore
  <2>2. /\ ~persistence_fault /\ job.snapshot \in Seq(Block) /\ job.snapshot # <<>>
        /\ chain_state = Front(job.snapshot) /\ job.len_before = Len(job.snapshot)
        /\ canonical = chain_state
    BY <2>1, DisconnectFacts, Zenon DEF IInv, DisconnectInv
  <2>3. rollback_canonical(job.len_before - 1, <<Tip(job.snapshot)>>) = job.snapshot
    <3>1. /\ chain_state \in Seq(Block) /\ Len(chain_state) = Len(job.snapshot) - 1
          /\ chain_state \o <<Tip(job.snapshot)>> = job.snapshot
      BY <2>2, FrontFacts, Zenon
    <3>2. ~(job.len_before - 1 < Len(canonical))
      BY <2>2, <3>1
    <3>3. SubSeq(canonical, 1, Len(canonical)) = chain_state
      BY <2>2, <3>1, PrefixWhole, Zenon
    <3> QED
      BY <3>1, <3>2, <3>3, Zenon DEF rollback_canonical
  <2>4. PICK r \in Outcome :
           /\ save_blockstore_index(r, job.snapshot)
           /\ handle_persistence_error(r, TRUE)
           /\ CommitToMemory(r, job.snapshot)
           /\ chain_state' = IF r = "before" THEN chain_state ELSE job.snapshot
    BY <1>3, <2>3, ZenonT(60), Zenon DEF Restore
  <2> QED
    BY <2>2, <2>4, IndexLatches, Zenon
<1>4. CASE RollbackIndex
  <2>1. /\ ~persistence_fault /\ job.kind = "reorg"
        /\ job.old \in Seq(Block) /\ canonical \in Seq(Block) /\ job.base \in Nat
        /\ job.base <= Len(canonical) /\ job.base <= Len(job.old)
        /\ \A i \in 1..job.base : canonical[i] = job.old[i]
        /\ job.suffix = SubSeq(job.old, job.base + 1, Len(job.old))
    BY <1>4, ZenonT(60), Zenon DEF RollbackIndex, IInv, TypeOK, Job, PhaseInv, ReorgStage, ReorgInv
  <2>2. rollback_canonical(job.base, job.suffix) = job.old
    <3>1. (IF job.base < Len(canonical) THEN job.base ELSE Len(canonical)) = job.base
      BY <2>1
    <3>2. SubSeq(canonical, 1, job.base) \o SubSeq(job.old, job.base + 1, Len(job.old)) = job.old
      BY <2>1, RollbackFacts, Zenon
    <3> QED
      BY <2>1, <3>1, <3>2, ZenonT(60), Zenon DEF rollback_canonical
  <2>3. PICK r \in Outcome :
           /\ save_blockstore_index(r, job.old)
           /\ handle_persistence_error(r, TRUE)
           /\ CommitToMemory(r, job.old)
           /\ chain_state' = IF r = "before" THEN chain_state ELSE job.old
    BY <1>4, <2>2, ZenonT(60), Zenon DEF RollbackIndex
  <2> QED
    BY <2>1, <2>3, IndexLatches, Zenon
<1> QED
  BY <1>1, <1>2, <1>3, <1>4, Zenon

\* Every step of the node.
LEMMA NextLatches ==
    ASSUME IInv, Next
    PROVE  Latched
<1>1. CASE \E b \in Block : ApplyDirect(b) \/ StoreSide(b) \/ StartReorg(b)
  BY <1>1, Zenon DEF ApplyDirect, StoreSide, StartReorg, Latched
<1>2. CASE DisconnectTip \/ DisconnectNext \/ ConnectNext
  BY <1>2, Zenon DEF DisconnectTip, DisconnectNext, ConnectNext, Latched
<1>3. CASE WriteBlock \/ WriteHeader \/ WriteUndo \/ WriteIndex \/ SaveSnapshot \/ Rewind
  BY <1>3, ApplyLatches, Zenon
<1>4. CASE WriteSideBlock \/ WriteSideHeader
  BY <1>4, Zenon DEF WriteSideBlock, WriteSideHeader, IInv, PhaseInv, Latched
<1>5. CASE Truncate \/ DisconnectSave \/ Restore \/ RollbackIndex \/ RollbackSave
  BY <1>5, UndoLatches, Zenon
<1>6. CASE Startup \/ BootTruncate \/ BootSave
  BY <1>6, Zenon DEF Startup, BootTruncate, BootSave, Exit, Latched
<1>7. CASE Crash \/ PowerLoss \/ LoseFile
  BY <1>7, Zenon DEF Crash, PowerLoss, LoseFile, Exit, engine, Latched
<1> QED
  BY <1>1, <1>2, <1>3, <1>4, <1>5, <1>6, <1>7, Zenon DEF Next, Step

\* A write error after the namespace commit (handle_persistence_error) leaves the
\* engine showing the visible index.json, at whichever of the writes of an apply,
\* a disconnect, a reorg or a rollback it strikes.
THEOREM LatchedViewSafety == Spec => LatchedViewIsDisk
<1>1. IInv /\ [Next]_vars =>
        [persistence_fault' /\ ~persistence_fault /\ job.kind # "side" =>
           /\ chain_state' = disk_index'
           /\ reload_error' \/ canonical' = disk_index']_vars
  BY NextLatches, Zenon DEF Latched
<1> QED
  BY <1>1, Invariance, PTL DEF Spec, LatchedViewIsDisk

-----------------------------------------------------------------------------
(* Admission reopens at a preferred tip only, and malformed bytes are not kept. *)

\* The stages of an operation that has not failed so far.
Forward == ApplyStage \union SaveStage \union DisconnectStage \union {"connect_next"}

\* The tip the operation is on its way to.
Target ==
    IF job.connects # <<>> THEN Tip(job.connects)
    ELSE IF stage = "connect_next" THEN Tip(chain_state) ELSE job.block

Preferred(b) == stable_tip = NoBlock \/ Better(b, stable_tip)

\* An apply or a reorg is on its way to a tip that fork choice prefers to the one
\* admission was closed at, and a reorg does not run out of blocks before it
\* connects one; what is about to be stored passed the basic validation.
PreferInv ==
    /\ stage \in Forward /\ job.kind # "disconnect" => Preferred(Target)
    /\ stage \in DisconnectStage /\ job.kind = "reorg" => job.connects # <<>>
    /\ job.kind = "apply" => job.connects = <<>>
    /\ job.kind = "side" => job.block \notin Malformed
    /\ blocks \intersect Malformed = {}

\* What a step that ends a transition may do to the admission tip.
Reopened ==
    owner = "transition" /\ owner' = "open" /\ job.kind # "disconnect" =>
        stable_tip' = stable_tip \/ Preferred(stable_tip')

\* The last block of a branch, before and after its first block is connected.
LEMMA TailFacts ==
    ASSUME NEW c \in Seq(Block), c # <<>>
    PROVE  /\ Head(c) \in Block /\ Tail(c) \in Seq(Block)
           /\ Tail(c) # <<>> => Tip(Tail(c)) = Tip(c)
           /\ Tail(c) = <<>> => Head(c) = Tip(c)
<1>1. /\ Len(c) \in Nat /\ Len(c) >= 1 /\ Head(c) = c[1] /\ Head(c) \in Block
      /\ Tail(c) \in Seq(Block) /\ Len(Tail(c)) = Len(c) - 1
      /\ \A i \in 1..(Len(c) - 1) : Tail(c)[i] = c[i + 1]
  OBVIOUS
<1>2. Tail(c) # <<>> => Len(Tail(c)) >= 1
  BY <1>1
<1>3. Tail(c) = <<>> => Len(c) = 1
  BY <1>1
<1>4. Tip(c) = c[Len(c)]
  BY Zenon DEF Tip
<1>5. ASSUME Tail(c) # <<>> PROVE Tip(Tail(c)) = Tip(c)
  <2>1. Tip(Tail(c)) = Tail(c)[Len(c) - 1]
    BY <1>1, <1>5, Zenon DEF Tip
  <2>2. Len(c) - 1 \in 1..(Len(c) - 1) /\ (Len(c) - 1) + 1 = Len(c)
    BY <1>1, <1>2, <1>5
  <2> QED
    BY <1>1, <1>4, <2>1, <2>2, Zenon
<1> QED
  BY <1>1, <1>3, <1>4, <1>5, Zenon

\* A block has more work than the chain it extends.
LEMMA ChildIsBetter ==
    ASSUME NEW s \in Seq(Block), Good(s), s # <<>>, NEW b \in Block, Parent(b) = Tip(s)
    PROVE  Better(b, Tip(s))
<1>1. Tip(s) \in Block
  BY FrontFacts, Zenon
<1>2. Chain[b] \in Seq(Block) /\ Chain[b] # <<>> /\ Front(Chain[b]) # <<>>
  BY <1>1, ChainAssumption, Zenon DEF Parent, Tip
<1>3. Len(Chain[b]) > 1
  BY <1>2 DEF Front
<1>4. Work[Tip(s)] < Work[b] /\ Work[Tip(s)] \in Nat /\ Work[b] \in Nat
  BY <1>1, <1>3, WorkAssumption, Zenon DEF Parent
<1>5. Work[b] > Work[Tip(s)]
  BY <1>4, Zenon
<1> QED
  BY <1>5, Zenon DEF Better

\* A step that leaves the forward stages, or stays in them with the same target.
LEMMA PreferKept ==
    ASSUME PreferInv, job' \in {job, NoJob}, blocks' \intersect Malformed = {},
           \/ stage' \notin Forward
           \/ /\ UNCHANGED <<job, stable_tip>> /\ stage \in Forward /\ Target' = Target
              /\ stage' \in DisconnectStage => stage \in DisconnectStage
    PROVE  PreferInv'
<1>1. NoJob.kind = "none"
  BY Zenon DEF NoJob
<1>2. stage' \notin Forward => stage' \notin DisconnectStage
  BY Zenon DEF Forward
<1> QED
  BY <1>1, <1>2, Zenon DEF PreferInv, Preferred

\* An operation that ends without success reopens where it started.
LEMMA FailReopens ==
    ASSUME NEW p, Fail(p) \/ finish_failure(p)
    PROVE  /\ stage' \in {"idle", "rollback_index"} /\ stage' \notin Forward
           /\ job' \in {job, NoJob} /\ Reopened
BY Zenon DEF Fail, finish_failure, Reopened, Forward, ApplyStage, SaveStage, DisconnectStage

\* The end of an applied block: success of an apply, or the reorg's next block.
LEMMA AppliedPrefers ==
    ASSUME IInv, PreferInv, stage \in ApplyStage \union SaveStage, Applied,
           UNCHANGED chain_state, blocks' \intersect Malformed = {}
    PROVE  PreferInv' /\ Reopened
<1>1. /\ stage \in Forward /\ job.kind \in {"apply", "reorg"} /\ stage # "connect_next"
      /\ Tip(chain_state) = job.block
  <2>1. /\ chain_state = Append(job.snapshot, job.block) /\ job.block \in Block
        /\ job.snapshot \in Seq(Block)
    BY Zenon DEF IInv, TypeOK, Job, ApplyInv, SaveInv
  <2> QED
    BY <2>1, AppendFacts, Zenon DEF IInv, PhaseInv, Forward, ApplyStage, SaveStage
<1>2. CASE job.kind = "reorg"
  <2>1. stage' = "connect_next" /\ UNCHANGED <<owner, stable_tip, job>>
    BY <1>2, Zenon DEF Applied
  <2>2. Target' = Target
    BY <1>1, <2>1, Zenon DEF Target
  <2>3. stage' \notin DisconnectStage
    BY <2>1, Zenon DEF DisconnectStage
  <2> QED
    BY <1>1, <2>1, <2>2, <2>3, PreferKept, Zenon DEF Reopened
<1>3. CASE job.kind = "apply"
  <2>1. finish_success
    BY <1>3, Zenon DEF Applied
  <2>2. stage' \notin Forward /\ job' = NoJob /\ stable_tip' = job.block
    BY <1>1, <2>1, Zenon DEF finish_success, Forward, ApplyStage, SaveStage, DisconnectStage
  <2>3. Preferred(job.block)
    BY <1>1, <1>3, Zenon DEF PreferInv, Target
  <2> QED
    BY <2>2, <2>3, PreferKept, Zenon DEF Reopened
<1> QED
  BY <1>1, <1>2, <1>3, Zenon

\* The next write of the same operation.
LEMMA OnwardPrefers ==
    ASSUME PreferInv, stage \in Forward, stage # "connect_next", stage' # "connect_next",
           UNCHANGED <<owner, stable_tip, job>>, blocks' \intersect Malformed = {},
           stage' \in DisconnectStage => stage \in DisconnectStage
    PROVE  PreferInv' /\ Reopened
<1>1. Target' = Target
  BY Zenon DEF Target
<1> QED
  BY <1>1, PreferKept, Zenon DEF Reopened

\* The steps of an apply.
LEMMA ApplyPrefers ==
    ASSUME IInv, PreferInv,
           WriteBlock \/ WriteHeader \/ WriteUndo \/ WriteIndex \/ SaveSnapshot \/ Rewind
    PROVE  PreferInv' /\ Reopened
<1>1. /\ stage \in ApplyStage \union SaveStage /\ stage \in Forward
      /\ stage # "connect_next" /\ stage \notin DisconnectStage
  BY Zenon DEF WriteBlock, WriteHeader, WriteUndo, WriteIndex, SaveSnapshot, Rewind, ApplyStage,
     SaveStage, DisconnectStage, Forward
<1>2. blocks' \intersect Malformed = {}
  <2>1. blocks' = blocks \/ (stage = "block" /\ blocks' = blocks \union {job.block})
    BY Zenon DEF WriteBlock, WriteHeader, WriteUndo, WriteIndex, SaveSnapshot, Rewind, Created,
       save_blockstore_index, save_atomic
  <2>2. stage = "block" => job.block \notin Malformed
    <3>1. ASSUME stage = "block" PROVE job.block \notin Invalid
      <4>1. /\ Good(chain_state) /\ chain_state = Append(job.snapshot, job.block)
            /\ job.snapshot \in Seq(Block) /\ job.block \in Block
        BY <3>1, Zenon DEF IInv, TypeOK, Job, GoodInv, ApplyInv, ApplyStage
      <4>2. /\ Len(job.snapshot) + 1 \in 1..Len(chain_state)
            /\ chain_state[Len(job.snapshot) + 1] = job.block
        BY <4>1
      <4> QED
        BY <4>1, <4>2, Zenon DEF Good
    <3> QED
      BY <3>1, ParameterAssumption, Zenon
  <2> QED
    BY <2>1, <2>2, Zenon DEF PreferInv
<1>3. \/ Applied /\ UNCHANGED chain_state
      \/ /\ stage' \in {"header", "undo", "index", "save", "rewind"}
         /\ UNCHANGED <<owner, stable_tip, job>>
      \/ \E p \in BOOLEAN : Fail(p)
  <2>1. CASE WriteBlock \/ WriteHeader
    BY <2>1, Zenon DEF WriteBlock, WriteHeader, ArtifactStored, ArtifactError
  <2>2. CASE WriteUndo
    <3>1. PICK r \in Outcome :
             CASE r = "ok" /\ SameHashReplay -> Committed
               [] r = "ok" /\ ~SameHashReplay -> ArtifactStored("index") /\ UNCHANGED tip_timestamp
               [] OTHER -> ArtifactError(r) /\ UNCHANGED tip_timestamp
      BY <2>2, Zenon DEF WriteUndo
    <3>2. Committed \/ ArtifactStored("index") \/ ArtifactError(r)
      BY <3>1, Zenon
    <3> QED
      BY <3>2, Zenon DEF Committed, ArtifactStored, ArtifactError
  <2>3. CASE WriteIndex
    <3>1. PICK r \in Outcome : Committed \/ ArtifactError(r) \/ Fail(FALSE)
      BY <2>3, Zenon DEF WriteIndex, Outcome
    <3> QED
      BY <3>1, Zenon DEF Committed, ArtifactError
  <2>4. CASE SaveSnapshot
    <3>1. Len(canonical) > job.len_before \/ Len(canonical) <= job.len_before
      BY DEF IInv, TypeOK, Job
    <3>2. PICK r \in Outcome :
             \/ Applied /\ UNCHANGED chain_state
             \/ stage' = "rewind" /\ UNCHANGED <<owner, stable_tip, job>>
             \/ ArtifactError(r)
             \/ Fail(FALSE)
      BY <2>4, <3>1, Zenon DEF SaveSnapshot, Outcome
    <3> QED
      BY <3>2, Zenon DEF ArtifactError
  <2>5. CASE Rewind
    BY <2>5, Zenon DEF Rewind
  <2> QED
    BY <2>1, <2>2, <2>3, <2>4, <2>5, Zenon
<1>4. CASE Applied /\ UNCHANGED chain_state
  BY <1>1, <1>2, <1>4, AppliedPrefers, Zenon
<1>5. CASE /\ stage' \in {"header", "undo", "index", "save", "rewind"}
           /\ UNCHANGED <<owner, stable_tip, job>>
  <2>1. stage' # "connect_next" /\ stage' \notin DisconnectStage
    BY <1>5, Zenon DEF DisconnectStage
  <2> QED
    BY <1>1, <1>2, <1>5, <2>1, OnwardPrefers, Zenon
<1>6. CASE \E p \in BOOLEAN : Fail(p)
  BY <1>2, <1>6, FailReopens, PreferKept, Zenon
<1> QED
  BY <1>3, <1>4, <1>5, <1>6, Zenon

\* The steps of a disconnect, of the connect half of a reorg and of its rollback.
LEMMA ReorgPrefers ==
    ASSUME IInv, PreferInv,
           \/ DisconnectNext \/ Truncate \/ DisconnectSave \/ Restore
           \/ ConnectNext \/ RollbackIndex \/ RollbackSave
    PROVE  PreferInv' /\ Reopened
<1>1. blocks' = blocks /\ blocks' \intersect Malformed = {}
  BY Zenon DEF DisconnectNext, Truncate, DisconnectSave, Restore, ConnectNext, RollbackIndex,
     RollbackSave, save_blockstore_index, save_atomic, disk, PreferInv
<1>2. CASE Truncate \/ DisconnectSave \/ Restore \/ RollbackIndex \/ RollbackSave
  <2>1. \/ /\ stage \in {"truncate", "disconnect_save"}
           /\ stage' \in {"disconnect_save", "disconnect_next", "restore"}
           /\ UNCHANGED <<owner, stable_tip, job>>
        \/ stage' = "rollback_save" /\ UNCHANGED <<owner, stable_tip, job>>
        \/ \E p \in BOOLEAN : Fail(p) \/ finish_failure(p)
    BY <1>2, Zenon DEF Truncate, DisconnectSave, Restore, RollbackIndex, RollbackSave
  <2>2. CASE /\ stage \in {"truncate", "disconnect_save"}
             /\ stage' \in {"disconnect_save", "disconnect_next", "restore"}
             /\ UNCHANGED <<owner, stable_tip, job>>
    <3>1. /\ stage \in DisconnectStage /\ stage \in Forward
          /\ stage # "connect_next" /\ stage' # "connect_next"
      BY <2>2, Zenon DEF Forward, DisconnectStage
    <3> QED
      BY <1>1, <2>2, <3>1, OnwardPrefers, Zenon
  <2>3. CASE stage' = "rollback_save" /\ UNCHANGED <<owner, stable_tip, job>>
    <3>1. stage' \notin Forward /\ Reopened
      BY <2>3, Zenon DEF Forward, ApplyStage, SaveStage, DisconnectStage, Reopened
    <3> QED
      BY <1>1, <2>3, <3>1, PreferKept, Zenon
  <2>4. CASE \E p \in BOOLEAN : Fail(p) \/ finish_failure(p)
    BY <1>1, <2>4, FailReopens, PreferKept, Zenon
  <2> QED
    BY <2>1, <2>2, <2>3, <2>4, Zenon
<1>3. CASE DisconnectNext
  <2>1. /\ stage = "disconnect_next" /\ stage \in DisconnectStage /\ stage \in Forward
        /\ stage # "connect_next" /\ job \in Job /\ job.kind \in {"disconnect", "reorg"}
    BY <1>3, Zenon DEF DisconnectNext, DisconnectStage, Forward, IInv, TypeOK, PhaseInv
  <2>2. CASE /\ stage' = "truncate" /\ UNCHANGED <<owner, stable_tip>>
             /\ job' = [job EXCEPT !.disconnects = @ - 1, !.snapshot = chain_state,
                                   !.len_before = Len(canonical)]
    <3>1. job'.kind = job.kind /\ job'.connects = job.connects /\ job'.block = job.block
      BY <2>1, <2>2, Zenon DEF Job
    <3>2. stage' \in DisconnectStage /\ stage' # "connect_next"
      BY <2>2, Zenon DEF DisconnectStage
    <3>3. /\ Target = IF job.connects # <<>> THEN Tip(job.connects) ELSE job.block
          /\ Target' = IF job'.connects # <<>> THEN Tip(job'.connects) ELSE job'.block
      BY <2>1, <3>2, Zenon DEF Target
    <3>4. Target' = Target
      BY <3>1, <3>3, Zenon
    <3> QED
      BY <1>1, <2>1, <2>2, <3>1, <3>2, <3>4, Zenon DEF PreferInv, Preferred, Reopened
  <2>3. CASE /\ job.kind = "reorg" /\ stage' = "connect_next"
             /\ UNCHANGED <<owner, stable_tip, job>>
    <3>1. Target' = Target /\ stage' \notin DisconnectStage
      BY <2>1, <2>3, Zenon DEF PreferInv, Target, DisconnectStage
    <3> QED
      BY <1>1, <2>1, <2>3, <3>1, PreferKept, Zenon DEF Reopened
  <2>4. CASE job.kind # "reorg" /\ finish_success
    <3>1. stage' \notin Forward /\ job' = NoJob /\ Reopened
      BY <2>1, <2>4, Zenon DEF finish_success, Reopened, Forward, ApplyStage, SaveStage,
         DisconnectStage
    <3> QED
      BY <1>1, <3>1, PreferKept, Zenon
  <2> QED
    BY <1>3, <2>2, <2>3, <2>4, Zenon DEF DisconnectNext
<1>4. CASE ConnectNext
  <2>1. /\ stage = "connect_next" /\ stage \in Forward /\ job \in Job /\ job.kind = "reorg"
        /\ job.connects \in Seq(Block)
    BY <1>4, Zenon DEF ConnectNext, Forward, IInv, TypeOK, PhaseInv, ReorgStage, Job
  <2>2. CASE /\ job.connects # <<>>
             /\ Connect(Head(job.connects), [job EXCEPT !.connects = Tail(@)])
             /\ UNCHANGED <<owner, stable_tip>>
    <3> DEFINE b == Head(job.connects)
               rest == Tail(job.connects)
    <3>1. /\ stage' = "block"
          /\ job' = [job EXCEPT !.connects = rest, !.block = b, !.snapshot = chain_state,
                                !.len_before = Len(canonical)]
      BY <2>2, Zenon DEF Connect
    <3> HIDE DEF b, rest
    <3>2. job'.kind = "reorg" /\ job'.connects = rest /\ job'.block = b
      BY <2>1, <3>1, Zenon DEF Job
    <3>3. (rest # <<>> => Tip(rest) = Tip(job.connects)) /\ (rest = <<>> => b = Tip(job.connects))
      BY <2>1, <2>2, TailFacts, Zenon DEF b, rest
    <3>4. Target' = Target /\ stage' \notin DisconnectStage
      BY <2>2, <3>1, <3>2, <3>3, Zenon DEF Target, DisconnectStage
    <3> QED
      BY <1>1, <2>1, <2>2, <3>2, <3>4, Zenon DEF PreferInv, Preferred, Reopened
  <2>3. CASE Fail(TRUE)
    BY <1>1, <2>3, FailReopens, PreferKept, Zenon
  <2>4. CASE job.connects = <<>> /\ UNCHANGED chain_state /\ finish_success
    <3>1. stage' \notin Forward /\ job' = NoJob /\ stable_tip' = Tip(chain_state)
      BY <2>4, Zenon DEF finish_success, Forward, ApplyStage, SaveStage, DisconnectStage
    <3>2. Preferred(Tip(chain_state))
      BY <2>1, <2>4, Zenon DEF PreferInv, Target
    <3> QED
      BY <1>1, <3>1, <3>2, PreferKept, Zenon DEF Reopened
  <2> QED
    BY <1>4, <2>2, <2>3, <2>4, Zenon DEF ConnectNext
<1> QED
  BY <1>2, <1>3, <1>4, Zenon

\* The deliveries that open an operation: a child of the tip has more work, and a
\* branch is taken when fork choice prefers it.
LEMMA StartPrefers ==
    ASSUME IInv, PreferInv, NEW b \in Block,
           ApplyDirect(b) \/ StoreSide(b) \/ StartReorg(b) \/ DisconnectTip
    PROVE  PreferInv' /\ Reopened
<1>1. /\ stage = "idle" /\ blocks' = blocks /\ stable_tip' = stable_tip
      /\ blocks' \intersect Malformed = {} /\ Reopened
      /\ NoJob \in Job /\ NoJob.connects = <<>>
  <2>1. stage = "idle" /\ blocks' = blocks /\ stable_tip' = stable_tip
    BY Zenon DEF ApplyDirect, StoreSide, StartReorg, DisconnectTip, SideDelivery, disk
  <2>2. NoJob.connects = <<>>
    BY Zenon DEF NoJob
  <2> QED
    BY <2>1, <2>2, NoJobType, Zenon DEF PreferInv, Reopened
<1>2. CASE ApplyDirect(b)
  <2>1. /\ stage' = "block" /\ owner = "open" /\ Parent(b) = Tip(chain_state)
        /\ job' = [NoJob EXCEPT !.kind = "apply", !.old = chain_state,
                                !.old_timestamp = tip_timestamp, !.block = b,
                                !.snapshot = chain_state, !.len_before = Len(canonical)]
    BY <1>2, Zenon DEF ApplyDirect, Connect
  <2>2. job'.kind = "apply" /\ job'.connects = <<>> /\ job'.block = b
    BY <1>1, <2>1, Zenon DEF Job
  <2>3. /\ Target' = b /\ stage' \notin DisconnectStage
    BY <2>1, <2>2, Zenon DEF Target, DisconnectStage
  <2>4. /\ stable_tip = Tip(chain_state) /\ chain_state \in Seq(Block) /\ Good(chain_state)
    BY <2>1, Zenon DEF IInv, TypeOK, OpenInv, GoodInv
  <2>5. stable_tip = NoBlock \/ Better(b, stable_tip)
    BY <2>1, <2>4, ChildIsBetter, Zenon DEF Tip
  <2> QED
    BY <1>1, <2>2, <2>3, <2>5, Zenon DEF PreferInv, Preferred
<1>3. CASE StoreSide(b)
  <2>1. /\ stage' = "side_block" /\ b \notin Malformed
        /\ job' = [NoJob EXCEPT !.kind = "side", !.block = b]
    BY <1>3, Zenon DEF StoreSide
  <2>2. job'.kind = "side" /\ job'.block = b
    BY <1>1, <2>1, Zenon DEF Job
  <2>3. stage' \notin Forward /\ stage' \notin DisconnectStage
    BY <2>1, Zenon DEF Forward, ApplyStage, SaveStage, DisconnectStage
  <2> QED
    BY <1>1, <2>1, <2>2, <2>3, Zenon DEF PreferInv
<1>4. CASE StartReorg(b)
  <2>1. PICK fork \in Ancestors(b) :
           /\ should_switch_to_branch(b)
           /\ owner = "open"
           /\ stage' = "disconnect_next"
           /\ LET base == find_canonical_height(Chain[b][fork]) + 1
              IN  job' = [NoJob EXCEPT !.kind = "reorg",
                                       !.disconnects = Len(canonical) - base,
                                       !.connects = SubSeq(Chain[b], fork + 1, Len(Chain[b])),
                                       !.old = chain_state, !.old_timestamp = tip_timestamp,
                                       !.base = base,
                                       !.suffix = SubSeq(canonical, base + 1, Len(canonical))]
    BY <1>4, Zenon DEF StartReorg
  <2> DEFINE branch == SubSeq(Chain[b], fork + 1, Len(Chain[b]))
  <2>2. job'.kind = "reorg" /\ job'.connects = branch
    BY <1>1, <2>1, Zenon DEF Job
  <2>3. branch # <<>> /\ Tip(branch) = b
    <3>1. /\ Chain[b] \in Seq(Block) /\ Len(Chain[b]) \in Nat \ {0}
          /\ Chain[b][Len(Chain[b])] = b
      BY ChainFacts, Zenon
    <3>2. fork \in 1..(Len(Chain[b]) - 1)
      BY <2>1, Zenon DEF Ancestors
    <3>5. Len(branch) = Len(Chain[b]) - fork
          /\ \A i \in 1..(Len(Chain[b]) - fork) : branch[i] = Chain[b][fork + i]
      BY <3>1, <3>2, BranchFacts, Zenon
    <3> HIDE DEF branch
    <3>6. /\ Len(Chain[b]) - fork \in 1..(Len(Chain[b]) - fork) /\ Len(Chain[b]) - fork # 0
          /\ fork + (Len(Chain[b]) - fork) = Len(Chain[b])
      BY <3>1, <3>2
    <3>3. branch[Len(branch)] = Chain[b][Len(Chain[b])]
      BY <3>5, <3>6, Zenon
    <3>4. branch # <<>>
      <4>1. Len(<<>>) = 0
        OBVIOUS
      <4> QED BY <3>5, <3>6, <4>1, Zenon
    <3> QED
      BY <3>1, <3>3, <3>4, Zenon DEF Tip
  <2> HIDE DEF branch
  <2>4. Target' = b
    BY <2>2, <2>3, Zenon DEF Target
  <2>5. Better(b, stable_tip)
    BY <2>1, Zenon DEF IInv, OpenInv, should_switch_to_branch, Better
  <2> QED
    BY <1>1, <2>2, <2>3, <2>4, <2>5, Zenon DEF PreferInv, Preferred
<1>5. CASE DisconnectTip
  <2>1. job' = [NoJob EXCEPT !.kind = "disconnect", !.disconnects = 1, !.old = chain_state,
                             !.old_timestamp = tip_timestamp]
    BY <1>5, Zenon DEF DisconnectTip
  <2>2. job'.kind = "disconnect"
    BY <1>1, <2>1, Zenon DEF Job
  <2> QED
    BY <1>1, <2>2, Zenon DEF PreferInv
<1> QED
  BY <1>2, <1>3, <1>4, <1>5, Zenon

\* Side writes, startups, crashes and lost files.
LEMMA OthersPrefer ==
    ASSUME IInv, PreferInv,
           \/ WriteSideBlock \/ WriteSideHeader \/ Startup \/ BootTruncate \/ BootSave
           \/ Crash \/ PowerLoss \/ LoseFile
    PROVE  PreferInv' /\ Reopened
<1>1. CASE WriteSideBlock \/ WriteSideHeader
  <2>1. /\ stage' \in {"side_header", "idle"} /\ job' \in {job, NoJob} /\ job.kind = "side"
        /\ UNCHANGED owner
        /\ blocks' \in {blocks, blocks \union {job.block}}
    BY <1>1, Zenon DEF WriteSideBlock, WriteSideHeader, SideWritten, Created, IInv, PhaseInv
  <2>2. blocks' \intersect Malformed = {}
    BY <2>1, Zenon DEF PreferInv
  <2>3. stage' \notin Forward /\ Reopened
    BY <2>1, Zenon DEF Forward, ApplyStage, SaveStage, DisconnectStage, Reopened
  <2> QED
    BY <2>1, <2>2, <2>3, PreferKept, Zenon
<1>2. CASE \/ Startup \/ BootTruncate \/ BootSave \/ Crash \/ PowerLoss \/ LoseFile
  <2>1. /\ stage' \in {"down", "boot_truncate", "boot_save", "idle"}
        /\ job' \in {job, NoJob} /\ blocks' \subseteq blocks
        /\ owner' = "open" => owner # "transition"
    <3>1. CASE Startup \/ LoseFile
      BY <1>2, <3>1, Zenon DEF Startup, LoseFile, engine
    <3>2. CASE BootTruncate \/ BootSave
      BY <1>2, <3>2, Zenon DEF BootTruncate, BootSave, Exit, save_blockstore_index, save_atomic,
         IInv, PhaseInv
    <3>3. CASE Crash \/ PowerLoss
      BY <1>2, <3>3, Zenon DEF Crash, PowerLoss, Exit, Reverted, disk
    <3> QED
      BY <1>2, <3>1, <3>2, <3>3, Zenon
  <2>2. blocks' \intersect Malformed = {}
    BY <2>1, Zenon DEF PreferInv
  <2>3. stage' \notin Forward /\ Reopened
    BY <2>1, Zenon DEF Forward, ApplyStage, SaveStage, DisconnectStage, Reopened
  <2> QED
    BY <2>1, <2>2, <2>3, PreferKept, Zenon
<1> QED
  BY <1>1, <1>2, Zenon

\* Every step of the node.
LEMMA NextPrefers ==
    ASSUME IInv, PreferInv, Next
    PROVE  PreferInv' /\ Reopened
<1>1. CASE \E b \in Block : ApplyDirect(b) \/ StoreSide(b) \/ StartReorg(b)
  BY <1>1, StartPrefers, Zenon
<1>2. CASE DisconnectTip
  BY <1>2, StartPrefers, ChainAssumption, Zenon
<1>3. CASE WriteBlock \/ WriteHeader \/ WriteUndo \/ WriteIndex \/ SaveSnapshot \/ Rewind
  BY <1>3, ApplyPrefers, Zenon
<1>4. CASE \/ DisconnectNext \/ Truncate \/ DisconnectSave \/ Restore
           \/ ConnectNext \/ RollbackIndex \/ RollbackSave
  BY <1>4, ReorgPrefers, Zenon
<1>5. CASE \/ WriteSideBlock \/ WriteSideHeader \/ Startup \/ BootTruncate \/ BootSave
           \/ Crash \/ PowerLoss \/ LoseFile
  BY <1>5, OthersPrefer, Zenon
<1> QED
  BY <1>1, <1>2, <1>3, <1>4, <1>5, Zenon DEF Next, Step

\* PreferInv holds in every state of the node.
THEOREM PreferInvariance == Spec => []PreferInv
<1>1. Init => PreferInv
  BY DEF Init, PreferInv, Forward, ApplyStage, SaveStage, DisconnectStage, NoJob
<1>2. IInv /\ PreferInv /\ [Next]_vars => PreferInv'
  <2>1. ASSUME PreferInv, UNCHANGED vars PROVE PreferInv'
    <3>1. UNCHANGED <<blocks, stage, chain_state, stable_tip, job>>
      BY <2>1, Zenon DEF vars, disk, engine
    <3>2. Target' = Target
      BY <3>1, Zenon DEF Target
    <3> QED
      BY <2>1, <3>1, <3>2, Zenon DEF PreferInv, Preferred
  <2> QED
    BY <2>1, NextPrefers, Zenon
<1> QED
  BY <1>1, <1>2, Invariance, PTL DEF Spec

\* Admission (finish_pending_outpoint_transition_success / _failure) reopens at the
\* tip it was closed at or at one fork choice prefers to it, for every block tree,
\* every delivery order and every failed write: no half-switched chain is opened.
THEOREM ReopenSafety == Spec => ReopenOnlyAtPreferredTip
<1>1. IInv /\ PreferInv /\ [Next]_vars =>
        [owner = "transition" /\ owner' = "open" /\ job.kind # "disconnect" =>
           \/ stable_tip' = stable_tip
           \/ stable_tip = NoBlock
           \/ Better(stable_tip', stable_tip)]_vars
  BY NextPrefers, Zenon DEF Reopened, Preferred
<1> QED
  BY <1>1, Invariance, PreferInvariance, PTL DEF Spec, ReopenOnlyAtPreferredTip

\* Bytes that fail the basic validation (validate_block_basic of store_side_block,
\* connect_block of an apply) never reach blocks/.
THEOREM MalformedSafety == Spec => []MalformedNeverStored
<1>1. PreferInv => MalformedNeverStored
  BY Zenon DEF PreferInv, MalformedNeverStored
<1> QED
  BY <1>1, PreferInvariance, PTL

=============================================================================
