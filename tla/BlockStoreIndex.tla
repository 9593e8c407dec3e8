--------------------------- MODULE BlockStoreIndex ---------------------------
(***************************************************************************)
(* The canonical index of the block store: the list of rows in memory, its *)
(* decoded copy (the height -> hash cache), the index file, and the block, *)
(* header and undo files the rows stand for.  Every operation of           *)
(* blockstore.rs that changes one of them is an action, with a disk that   *)
(* may fail at any of its writes, before or after the new content took its *)
(* place.  What is inside an undo record is UndoRecords' subject, how one  *)
(* file is replaced AtomicFile's; here a file is absent, holds what the    *)
(* caller writes ("same"), holds something else, or cannot be read.        *)
(***************************************************************************)
EXTENDS Integers, Sequences, FiniteSets, TLC

CONSTANTS
  Hashes,      \* block hashes
  MaxLen,      \* bound: rows in the index
  MaxFaults    \* bound: files lost or damaged at rest

ASSUME BoundsAssumption == MaxLen \in Nat /\ MaxFaults \in Nat

VARIABLES
  index,       \* index.canonical
  cache,       \* canonical_hash_by_height
  disk,        \* the rows of index.json
  files,       \* [Hashes -> [Kinds -> Contents]]
  bare,        \* hashes made canonical without their files (set_canonical_tip, put_block)
  astray,      \* a truncate or a rollback failed after its write took effect
  faults       \* files lost or damaged so far

vars == <<index, cache, disk, files, bare, astray, faults>>

Kinds == {"block", "header", "undo"}
Contents == {"absent", "same", "other", "unreadable"}
Stages == {"before", "after"}

\* One write of a call fails, at this stage; or none does.
Steps == {"block", "header", "undo", "index"}
Faults == [at : Steps, stage : Stages] \cup {[at |-> "none", stage |-> "before"]}

Prefix(s, n) == SubSeq(s, 1, n)

Init ==
  /\ index = << >> /\ cache = << >> /\ disk = << >>
  /\ files = [h \in Hashes |-> [k \in Kinds |-> "absent"]]
  /\ bare = {} /\ astray = FALSE /\ faults = 0

-----------------------------------------------------------------------------
\* The steps of a call.  A working state w carries the store through them:
\* its verdict is "ok" until a step fails, and no later step runs then.

Start == [index |-> index, cache |-> cache, disk |-> disk, files |-> files, verdict |-> "ok"]

Fail(w, v) == [w EXCEPT !.verdict = v]

Written(fs, h, k) == [fs EXCEPT ![h][k] = "same"]

\* Mutant: what differs is written over.
write_file_if_absent_Overwrites(w, h, k, fault) ==
  IF w.verdict # "ok" THEN w
  ELSE IF fault.at = k THEN Fail(w, fault.stage)
  ELSE [w EXCEPT !.files = Written(@, h, k)]

\* write_file_if_absent: an existing file is compared, never replaced, and
\* its directory is synced again; a missing one is written.
write_file_if_absent(w, h, k, fault) ==
  LET hit == fault.at = k
      there == w.files[h][k]
      written == [w EXCEPT !.files = Written(@, h, k)]
  IN  IF w.verdict # "ok" THEN w
      ELSE IF there \in {"other", "unreadable"} THEN Fail(w, "before")
      ELSE IF there = "same"
           THEN IF hit /\ fault.stage = "after" THEN Fail(w, "after") ELSE w
      ELSE IF ~hit THEN written
      ELSE IF fault.stage = "before" THEN Fail(w, "before")
      ELSE Fail(written, "after")

\* validate_header_matches_hash, then the block file, then the header file.
persist_block_bytes(w, h, headerOk, fault) ==
  LET checked == IF w.verdict = "ok" /\ ~headerOk THEN Fail(w, "before") ELSE w
  IN  write_file_if_absent(write_file_if_absent(checked, h, "block", fault), h, "header", fault)

build_canonical_hash_cache(canonical) == canonical

\* Mutant: a failed index write always restores the rows in memory.
set_canonical_tip_AlwaysRestores(w, height, h, fault) ==
  LET rows == Append(Prefix(w.index, height), h)
      there == height < Len(w.index) /\ w.index[height + 1] = h
  IN  IF w.verdict # "ok" THEN w
      ELSE IF height > Len(w.index) THEN Fail(w, "before")
      ELSE IF there THEN w
      ELSE IF fault.at # "index"
           THEN [w EXCEPT !.index = rows, !.cache = rows, !.disk = rows]
      ELSE IF fault.stage = "before" THEN Fail(w, "before")
      ELSE [w EXCEPT !.disk = rows, !.verdict = "after"]

\* The rows from height on are split off, the hash is pushed, the index is
\* saved; a save that never took effect puts the old rows back.
set_canonical_tip(w, height, h, fault) ==
  LET rows == Append(Prefix(w.index, height), h)
      hashes == Append(Prefix(w.cache, height), h)
      there == height < Len(w.index) /\ w.index[height + 1] = h
      set == [w EXCEPT !.index = rows, !.cache = hashes, !.disk = rows]
  IN  IF w.verdict # "ok" THEN w
      ELSE IF height > Len(w.index) THEN Fail(w, "before")
      ELSE IF there THEN w
      ELSE IF fault.at # "index" THEN set
      ELSE IF fault.stage = "before" THEN Fail(w, "before")
      ELSE Fail(set, "after")

\* Mutant: the cache keeps its rows.
truncate_canonical_KeepsCache(w, n, fault) ==
  LET rows == Prefix(w.index, n)
  IN  IF n > Len(w.index) THEN Fail(w, "before")
      ELSE IF n = Len(w.index) THEN w
      ELSE IF fault.at # "index" THEN [w EXCEPT !.disk = rows, !.index = rows]
      ELSE IF fault.stage = "before" THEN Fail(w, "before")
      ELSE [w EXCEPT !.disk = rows, !.verdict = "after"]

\* The shorter index is saved first, memory follows only a save that
\* reported success.
truncate_canonical(w, n, fault) ==
  LET rows == Prefix(w.index, n)
  IN  IF n > Len(w.index) THEN Fail(w, "before")
      ELSE IF n = Len(w.index) THEN w
      ELSE IF fault.at # "index"
           THEN [w EXCEPT !.disk = rows, !.index = rows, !.cache = Prefix(@, n)]
      ELSE IF fault.stage = "before" THEN Fail(w, "before")
      ELSE [w EXCEPT !.disk = rows, !.verdict = "after"]

rollback_canonical(w, base, suffix, fault) ==
  LET clamped == IF base < Len(w.index) THEN base ELSE Len(w.index)
      rows == Prefix(w.index, clamped) \o suffix
  IN  IF fault.at # "index"
      THEN [w EXCEPT !.disk = rows, !.index = rows, !.cache = build_canonical_hash_cache(rows)]
      ELSE IF fault.stage = "before" THEN Fail(w, "before")
      ELSE [w EXCEPT !.disk = rows, !.verdict = "after"]

\* rewind_to_height also shortens memory after a write that took effect.
rewind_to_height(w, height, fault) ==
  LET cut == truncate_canonical(w, height + 1, fault)
  IN  IF w.index = << >> THEN w
      ELSE IF height >= Len(w.index) THEN Fail(w, "before")
      ELSE IF cut.verdict = "after"
           THEN [cut EXCEPT !.index = Prefix(@, height + 1), !.cache = Prefix(@, height + 1)]
      ELSE cut

\* Mutant: the tip moves before the undo record is written, and a failure to
\* write that is one after a commit.
commit_canonical_block_TipFirst(w, height, h, headerOk, undoHeight, fault) ==
  LET bytes == persist_block_bytes(w, h, headerOk, fault)
      replay == height < Len(w.cache) /\ w.cache[height + 1] = h
      tipped == IF replay THEN bytes ELSE set_canonical_tip(bytes, height, h, fault)
      undone == write_file_if_absent(tipped, h, "undo", fault)
  IN  IF undoHeight # height \/ height > Len(w.index) THEN Fail(w, "before")
      ELSE IF tipped.verdict = "ok" /\ undone.verdict = "before" THEN Fail(undone, "after")
      ELSE undone

\* Mutant: a replay of a canonical block returns at once.
commit_canonical_block_ReplayReturns(w, height, h, headerOk, undoHeight, fault) ==
  LET undone == write_file_if_absent(persist_block_bytes(w, h, headerOk, fault), h, "undo", fault)
      replay == height < Len(w.cache) /\ w.cache[height + 1] = h
  IN  IF undoHeight # height \/ height > Len(w.index) THEN Fail(w, "before")
      ELSE IF replay THEN w
      ELSE set_canonical_tip(undone, height, h, fault)

\* Block and header, then undo, then the tip: the row appears last.
commit_canonical_block(w, height, h, headerOk, undoHeight, fault) ==
  LET undone == write_file_if_absent(persist_block_bytes(w, h, headerOk, fault), h, "undo", fault)
      replay == height < Len(w.cache) /\ w.cache[height + 1] = h
  IN  IF undoHeight # height \/ height > Len(w.index) THEN Fail(w, "before")
      ELSE IF replay THEN undone
      ELSE set_canonical_tip(undone, height, h, fault)

-----------------------------------------------------------------------------
\* The calls.

Finish(w) ==
  /\ index' = w.index /\ cache' = w.cache /\ disk' = w.disk /\ files' = w.files
  /\ UNCHANGED faults

Commit(height, h, headerOk, undoHeight, fault) ==
  /\ Finish(commit_canonical_block(Start, height, h, headerOk, undoHeight, fault))
  /\ UNCHANGED <<bare, astray>>

put_block(height, h, headerOk, fault) ==
  /\ Finish(set_canonical_tip(persist_block_bytes(Start, h, headerOk, fault), height, h, fault))
  /\ bare' = bare \cup {h}
  /\ UNCHANGED astray

SetTip(height, h, fault) ==
  /\ Finish(set_canonical_tip(Start, height, h, fault))
  /\ bare' = bare \cup {h}
  /\ UNCHANGED astray

store_block(h, headerOk, fault) ==
  /\ Finish(persist_block_bytes(Start, h, headerOk, fault))
  /\ UNCHANGED <<bare, astray>>

put_undo(h, fault) ==
  /\ Finish(write_file_if_absent(Start, h, "undo", fault))
  /\ UNCHANGED <<bare, astray>>

Rewind(height, fault) ==
  /\ Finish(rewind_to_height(Start, height, fault))
  /\ UNCHANGED <<bare, astray>>

Truncate(n, fault) ==
  /\ LET w == truncate_canonical(Start, n, fault)
     IN  Finish(w) /\ astray' = (astray \/ w.verdict = "after")
  /\ UNCHANGED bare

Rollback(base, suffix, fault) ==
  /\ LET w == rollback_canonical(Start, base, suffix, fault)
     IN  Finish(w) /\ astray' = (astray \/ w.verdict = "after")
  /\ bare' = bare \cup {suffix[i] : i \in DOMAIN suffix}

\* reload_persistence_state after a failed call, and BlockStore::open in a
\* new process: both take the rows of the file.
reload_persistence_state ==
  /\ index' = disk /\ cache' = build_canonical_hash_cache(disk)
  /\ astray' = FALSE
  /\ UNCHANGED <<disk, files, bare, faults>>

\* Environment: a file is lost, damaged or made unreadable at rest.
FileFault(h, k, c) ==
  /\ faults < MaxFaults
  /\ files[h][k] = "same" /\ c # "same"
  /\ files' = [files EXCEPT ![h][k] = c]
  /\ faults' = faults + 1
  /\ UNCHANGED <<index, cache, disk, bare, astray>>

Heights == 0..MaxLen
Suffixes == UNION {[1..n -> Hashes] : n \in 0..MaxLen}

Next ==
  \/ \E height \in 0..(MaxLen - 1), h \in Hashes, ok \in BOOLEAN, f \in Faults :
        \/ \E u \in Heights : Commit(height, h, ok, u, f)
        \/ put_block(height, h, ok, f)
        \/ SetTip(height, h, f)
        \/ store_block(h, ok, f)
        \/ put_undo(h, f)
  \/ \E n \in Heights, f \in Faults : Rewind(n, f) \/ Truncate(n, f)
  \/ \E base \in Heights, f \in Faults, suffix \in Suffixes :
        base + Len(suffix) <= MaxLen /\ Rollback(base, suffix, f)
  \/ reload_persistence_state
  \/ \E h \in Hashes, k \in Kinds, c \in Contents : FileFault(h, k, c)

Spec == Init /\ [][Next]_vars

\* Blocks are interchangeable.
Symmetry == Permutations(Hashes)

-----------------------------------------------------------------------------
(* Properties. *)

\* Rows, files and bounds are of their types.
TypeOK ==
  /\ index \in Suffixes /\ cache \in Suffixes /\ disk \in Suffixes
  /\ files \in [Hashes -> [Kinds -> Contents]]
  /\ bare \subseteq Hashes /\ astray \in BOOLEAN /\ faults \in 0..MaxFaults

\* The decoded copy the lookups are served from is the list of rows that is
\* written to disk: every operation changes both, or neither.
CacheIsIndex == cache = index

\* Memory and the index file hold the same rows, unless a truncate or a
\* rollback failed after its write took effect and nothing was reloaded yet:
\* the case SyncEngine answers with reload_persistence_state and a latch.
MemoryIsDisk == index # disk => astray

\* A row that reached the index file through commit_canonical_block has its
\* block, its header and its undo record on disk (unless a file was lost
\* since): no crash, and no failure of any write, leaves a canonical block
\* that cannot be disconnected.
RowsHaveFiles ==
  faults = 0 => \A i \in DOMAIN disk : disk[i] \in bare \/ \A k \in Kinds : files[disk[i]][k] # "absent"

\* What commit_canonical_block promises, in any state the store can be in
\* and whatever write fails: a success leaves the three files in place and the
\* row at its height, with nothing below it touched and nothing at all touched
\* when the row was there already (a replay after a crash), healing files
\* that were lost; a failure before any namespace commit leaves memory and
\* the index file as they were.
CommitKeepsItsWord ==
  \A height \in 0..(MaxLen - 1), h \in Hashes, ok \in BOOLEAN, u \in Heights, f \in Faults :
    LET w == commit_canonical_block(Start, height, h, ok, u, f)
        replay == height < Len(index) /\ index[height + 1] = h
    IN  /\ w.verdict = "ok" =>
             /\ \A k \in Kinds : w.files[h][k] = "same"
             /\ w.index = IF replay THEN index ELSE Append(Prefix(index, height), h)
             /\ w.cache = w.index
             /\ ~astray => w.disk = w.index
        /\ w.verdict = "before" => w.index = index /\ w.disk = disk /\ w.cache = cache

\* No call replaces a file of a block once it is there: what is at rest is
\* compared with what would be written, and stays.
NeverReplaced ==
  [][faults' = faults => \A h \in Hashes, k \in Kinds :
       files[h][k] # "absent" => files'[h][k] = files[h][k]]_vars
=============================================================================
