-------------------------- MODULE BlockStoreProofs --------------------------
(***************************************************************************)
(* The block store keeps its rows, their decoded copy, the index file and  *)
(* the files of its blocks in step, for any blocks, any number of rows and *)
(* any sequence of calls and failures.                                     *)
(***************************************************************************)
EXTENDS BlockStoreIndex, SequenceTheorems, TLAPS

\* The store as a call carries it from step to step.
Works ==
  [index : Seq(Hashes), cache : Seq(Hashes), disk : Seq(Hashes),
   files : [Hashes -> [Kinds -> Contents]], verdict : {"ok", "before", "after"}]

\* No file that is there in the first is another one, or gone, in the second.
Keeps(old, new) ==
  \A g \in Hashes, j \in Kinds : old[g][j] # "absent" => new[g][j] = old[g][j]

\* The hashes in a list of rows.
RowsOf(s) == {s[i] : i \in DOMAIN s}

\* A step from w to v that works on files: it keeps the rows and what is
\* there, does nothing after a failure and never turns one into a success.
FileStep(w, v) ==
  /\ v \in Works
  /\ v.index = w.index /\ v.cache = w.cache /\ v.disk = w.disk
  /\ Keeps(w.files, v.files)
  /\ w.verdict # "ok" => v = w
  /\ v.verdict = "ok" => w.verdict = "ok"

\* A step from w to v that works on rows and adds only those of new: it keeps
\* the files, and the rows in memory and their decoded copy stay in step.
RowStep(w, v, new) ==
  /\ v \in Works
  /\ v.files = w.files
  /\ w.cache = w.index => v.cache = v.index
  /\ RowsOf(v.index) \subseteq RowsOf(w.index) \cup new
  /\ RowsOf(v.disk) \subseteq RowsOf(w.index) \cup RowsOf(w.disk) \cup new
  /\ v.verdict = "before" => v.index = w.index /\ v.cache = w.cache /\ v.disk = w.disk

-----------------------------------------------------------------------------
(* What the steps of a call do. *)

\* write_file_if_absent touches one file and that only if it was missing; it
\* reports success only with the caller's content in place.
LEMMA WriteIfAbsent ==
  ASSUME NEW w \in Works, NEW h \in Hashes, NEW k \in Kinds, NEW fault \in Faults
  PROVE  LET v == write_file_if_absent(w, h, k, fault)
         IN  FileStep(w, v) /\ (v.verdict = "ok" => v.files[h][k] = "same")
  <1> DEFINE v == write_file_if_absent(w, h, k, fault)
             written == [w EXCEPT !.files = Written(@, h, k)]
  <1>1. w.files[h][k] \in {"absent", "same", "other", "unreadable"} /\ w.verdict \in {"ok", "before", "after"}
    BY DEF Works, Contents
  <1>2. /\ Written(w.files, h, k) \in [Hashes -> [Kinds -> Contents]]
        /\ Written(w.files, h, k)[h][k] = "same"
        /\ w.files[h][k] = "absent" => Keeps(w.files, Written(w.files, h, k))
    BY Zenon DEF Works, Contents, Written, Keeps
  <1>3. /\ written \in Works /\ written.index = w.index /\ written.cache = w.cache /\ written.disk = w.disk
        /\ written.verdict = w.verdict /\ written.files = Written(w.files, h, k)
    BY <1>2, Zenon DEF Works
  <1>4. \A x \in {w, written}, c \in {"before", "after"} :
          /\ Fail(x, c) \in Works /\ Fail(x, c).verdict = c
          /\ Fail(x, c).index = x.index /\ Fail(x, c).cache = x.cache /\ Fail(x, c).disk = x.disk
          /\ Fail(x, c).files = x.files
    BY <1>3, Zenon DEF Works, Fail
  <1>5. CASE w.verdict # "ok"
    <2>1. v = w
      BY <1>5, Zenon DEF write_file_if_absent
    <2> QED BY <2>1, <1>5, Zenon DEF FileStep, Keeps
  <1>6. CASE w.verdict = "ok" /\ w.files[h][k] \in {"other", "unreadable"}
    <2>1. v = Fail(w, "before")
      BY <1>6, Zenon DEF write_file_if_absent
    <2> QED BY <2>1, <1>4, <1>6, Zenon DEF FileStep, Keeps
  <1>7. CASE w.verdict = "ok" /\ w.files[h][k] = "same"
    <2>1. v = w \/ v = Fail(w, "after")
      BY <1>7, Zenon DEF write_file_if_absent
    <2> QED BY <2>1, <1>4, <1>7, Zenon DEF FileStep, Keeps
  <1>8. CASE w.verdict = "ok" /\ w.files[h][k] = "absent"
    <2>1. v = written \/ v = Fail(w, "before") \/ v = Fail(written, "after")
      BY <1>8, Zenon DEF write_file_if_absent
    <2>2. CASE v = written
      BY <2>2, <1>2, <1>3, <1>8, Zenon DEF FileStep
    <2>3. CASE v = Fail(w, "before")
      BY <2>3, <1>4, <1>8, Zenon DEF FileStep, Keeps
    <2>4. CASE v = Fail(written, "after")
      <3>1. /\ v \in Works /\ v.verdict = "after" /\ v.index = written.index /\ v.cache = written.cache
            /\ v.disk = written.disk /\ v.files = written.files
        BY <2>4, <1>4, Zenon
      <3> QED BY <3>1, <1>2, <1>3, <1>8, Zenon DEF FileStep
    <2> QED BY <2>1, <2>2, <2>3, <2>4, Zenon
  <1> QED BY <1>1, <1>5, <1>6, <1>7, <1>8, Zenon

\* Two file steps in a row are one.
LEMMA FileSteps ==
  ASSUME NEW w \in Works, NEW u, NEW v, FileStep(w, u), FileStep(u, v)
  PROVE  FileStep(w, v)
  <1>1. Keeps(w.files, v.files)
    BY Zenon DEF FileStep, Keeps
  <1> QED BY <1>1, Zenon DEF FileStep

\* persist_block_bytes is a file step, and succeeds only with a header that has
\* the block's hash and with both files in place.
LEMMA PersistBytes ==
  ASSUME NEW w \in Works, NEW h \in Hashes, NEW ok \in BOOLEAN, NEW fault \in Faults
  PROVE  LET v == persist_block_bytes(w, h, ok, fault)
         IN  /\ FileStep(w, v)
             /\ v.verdict = "ok" => v.files[h]["block"] = "same" /\ v.files[h]["header"] = "same"
  <1> DEFINE checked == IF w.verdict = "ok" /\ ~ok THEN Fail(w, "before") ELSE w
             b == write_file_if_absent(checked, h, "block", fault)
             v == write_file_if_absent(b, h, "header", fault)
  <1>1. FileStep(w, checked)
    BY Zenon DEF FileStep, Works, Keeps, Fail
  <1>2. checked \in Works
    BY <1>1, Zenon DEF FileStep
  <1>3. FileStep(checked, b) /\ (b.verdict = "ok" => b.files[h]["block"] = "same")
    BY <1>2, WriteIfAbsent, Zenon DEF Kinds
  <1>4. b \in Works
    BY <1>3, Zenon DEF FileStep
  <1>5. FileStep(b, v) /\ (v.verdict = "ok" => v.files[h]["header"] = "same")
    BY <1>4, WriteIfAbsent, Zenon DEF Kinds
  <1>6. FileStep(w, v)
    BY <1>1, <1>2, <1>3, <1>4, <1>5, FileSteps, Zenon
  <1>7. v.verdict = "ok" => v.files[h]["block"] = "same"
    BY <1>3, <1>5, Zenon DEF FileStep, Keeps, Kinds
  <1> QED BY <1>5, <1>6, <1>7, Zenon DEF persist_block_bytes

\* The rows below a height.
LEMMA CutRows ==
  ASSUME NEW s \in Seq(Hashes), NEW n \in 0..Len(s)
  PROVE  /\ Prefix(s, n) \in Seq(Hashes) /\ RowsOf(Prefix(s, n)) \subseteq RowsOf(s)
         /\ Len(Prefix(s, n)) = n /\ \A i \in 1..n : Prefix(s, n)[i] = s[i]
  <1>1. /\ Prefix(s, n) \in Seq(Hashes) /\ Len(Prefix(s, n)) = n
        /\ \A i \in 1..n : Prefix(s, n)[i] = s[i]
    BY SubSeqProperties DEF Prefix
  <1>2. RowsOf(Prefix(s, n)) \subseteq RowsOf(s)
    BY <1>1 DEF RowsOf
  <1> QED BY <1>1, <1>2, Zenon

\* The rows below a height, with one more.
LEMMA CutAndPushed ==
  ASSUME NEW s \in Seq(Hashes), NEW n \in 0..Len(s), NEW h \in Hashes
  PROVE  /\ Append(Prefix(s, n), h) \in Seq(Hashes)
         /\ RowsOf(Append(Prefix(s, n), h)) \subseteq RowsOf(s) \cup {h}
  <1>0. n \in Nat
    BY LenProperties
  <1>1. /\ Prefix(s, n) \in Seq(Hashes) /\ Len(Prefix(s, n)) = n
        /\ \A i \in 1..n : Prefix(s, n)[i] = s[i]
    BY CutRows, Zenon
  <1>3. /\ Append(Prefix(s, n), h) \in Seq(Hashes)
        /\ Len(Append(Prefix(s, n), h)) = n + 1
        /\ \A i \in 1..n : Append(Prefix(s, n), h)[i] = s[i]
        /\ Append(Prefix(s, n), h)[n + 1] = h
    BY <1>1, AppendProperties
  <1>4. RowsOf(Append(Prefix(s, n), h)) \subseteq RowsOf(s) \cup {h}
    <2> SUFFICES ASSUME NEW i \in 1..(n + 1) PROVE Append(Prefix(s, n), h)[i] \in RowsOf(s) \cup {h}
      BY <1>3 DEF RowsOf
    <2>1. CASE i = n + 1
      BY <2>1, <1>3, Zenon
    <2>2. CASE i \in 1..n
      BY <2>2, <1>3 DEF RowsOf
    <2>3. i = n + 1 \/ i \in 1..n
      BY <1>0
    <2> QED BY <2>1, <2>2, <2>3, Zenon
  <1> QED BY <1>3, <1>4, Zenon

\* set_canonical_tip adds one row, the last one, and keeps memory and the index
\* file in step even when it fails after its write.
LEMMA SetsTip ==
  ASSUME NEW w \in Works, NEW height \in Nat, NEW h \in Hashes, NEW fault \in Faults, w.cache = w.index
  PROVE  LET v == set_canonical_tip(w, height, h, fault)
             there == height < Len(w.index) /\ w.index[height + 1] = h
         IN  /\ RowStep(w, v, {h})
             /\ w.index = w.disk => v.index = v.disk
             /\ w.verdict # "ok" => v = w
             /\ v.verdict = "ok" =>
                  /\ w.verdict = "ok"
                  /\ v.index = IF there THEN w.index ELSE Append(Prefix(w.index, height), h)
                  /\ v.disk = IF there THEN w.disk ELSE v.index
  <1> DEFINE v == set_canonical_tip(w, height, h, fault)
             there == height < Len(w.index) /\ w.index[height + 1] = h
             rows == Append(Prefix(w.index, height), h)
             set == [w EXCEPT !.index = rows, !.cache = rows, !.disk = rows]
  <1>1. w.index \in Seq(Hashes) /\ Len(w.index) \in Nat
    BY LenProperties, Zenon DEF Works
  <1>2. CASE v = w /\ (w.verdict # "ok" \/ there)
    BY <1>2, Zenon DEF RowStep
  <1>3. CASE v = Fail(w, "before") /\ w.verdict = "ok"
    <2>1. /\ v \in Works /\ v.index = w.index /\ v.cache = w.cache /\ v.disk = w.disk /\ v.files = w.files
          /\ v.verdict = "before"
      BY <1>3, Zenon DEF Fail, Works
    <2> QED BY <2>1, <1>3, Zenon DEF RowStep
  <1>4. CASE height <= Len(w.index) /\ w.verdict = "ok" /\ ~there /\ (v = set \/ v = Fail(set, "after"))
    <2>1. rows \in Seq(Hashes) /\ RowsOf(rows) \subseteq RowsOf(w.index) \cup {h}
      BY <1>1, <1>4, CutAndPushed
    <2>2. /\ v \in Works /\ v.index = rows /\ v.cache = rows /\ v.disk = rows /\ v.files = w.files
          /\ v.verdict \in {"ok", "after"}
      BY <1>4, <2>1, Zenon DEF Works, Fail
    <2> QED BY <2>1, <2>2, <1>4, Zenon DEF RowStep
  <1> QED BY <1>1, <1>2, <1>3, <1>4 DEF set_canonical_tip

\* truncate_canonical adds no row; memory follows the index file unless the
\* call fails after its write.
LEMMA Truncates ==
  ASSUME NEW w \in Works, NEW n \in Nat, NEW fault \in Faults, w.cache = w.index, w.verdict = "ok"
  PROVE  LET v == truncate_canonical(w, n, fault)
         IN  /\ RowStep(w, v, {})
             /\ w.index = w.disk /\ v.verdict # "after" => v.index = v.disk
             /\ v.verdict = "after" =>
                  /\ n < Len(w.index) /\ v.disk = Prefix(w.index, n)
                  /\ v.index = w.index /\ v.cache = w.cache
  <1> DEFINE v == truncate_canonical(w, n, fault)
             rows == Prefix(w.index, n)
  <1>1. w.index \in Seq(Hashes) /\ Len(w.index) \in Nat
    BY LenProperties, Zenon DEF Works
  <1>2. CASE v = w
    BY <1>2, Zenon DEF RowStep
  <1>3. CASE v = Fail(w, "before")
    <2>1. /\ v \in Works /\ v.index = w.index /\ v.cache = w.cache /\ v.disk = w.disk /\ v.files = w.files
          /\ v.verdict = "before"
      BY <1>3, Zenon DEF Fail, Works
    <2> QED BY <2>1, Zenon DEF RowStep
  <1>4. CASE /\ n < Len(w.index)
             /\ \/ v = [w EXCEPT !.disk = rows, !.index = rows, !.cache = Prefix(@, n)]
                \/ v = [w EXCEPT !.disk = rows, !.verdict = "after"]
    <2>1. rows \in Seq(Hashes) /\ RowsOf(rows) \subseteq RowsOf(w.index)
      <3>1. n \in 0..Len(w.index)
        BY <1>1, <1>4
      <3> QED BY <1>1, <3>1, CutRows, Zenon
    <2>2. CASE v = [w EXCEPT !.disk = rows, !.index = rows, !.cache = Prefix(@, n)]
      <3>1. /\ v \in Works /\ v.index = rows /\ v.cache = rows /\ v.disk = rows /\ v.files = w.files
            /\ v.verdict = "ok"
        BY <2>1, <2>2, Zenon DEF Works
      <3> QED BY <3>1, <2>1, Zenon DEF RowStep
    <2>3. CASE v = [w EXCEPT !.disk = rows, !.verdict = "after"]
      <3>1. /\ v \in Works /\ v.index = w.index /\ v.cache = w.cache /\ v.disk = rows /\ v.files = w.files
            /\ v.verdict = "after"
        BY <2>1, <2>3, Zenon DEF Works
      <3>2. RowStep(w, v, {})
        BY <3>1, <2>1, Zenon DEF RowStep
      <3> QED BY <3>1, <3>2, <1>4, Zenon
    <2> QED BY <1>4, <2>2, <2>3, Zenon
  <1> QED BY <1>1, <1>2, <1>3, <1>4 DEF truncate_canonical

\* rewind_to_height adds no row, and memory follows the index file also when the
\* call fails after its write.
LEMMA Rewinds ==
  ASSUME NEW w \in Works, NEW height \in Nat, NEW fault \in Faults, w.cache = w.index, w.verdict = "ok"
  PROVE  LET v == rewind_to_height(w, height, fault)
         IN  RowStep(w, v, {}) /\ (w.index = w.disk => v.index = v.disk)
  <1> DEFINE cut == truncate_canonical(w, height + 1, fault)
             v == rewind_to_height(w, height, fault)
  <1>1. /\ RowStep(w, cut, {})
        /\ w.index = w.disk /\ cut.verdict # "after" => cut.index = cut.disk
        /\ cut.verdict = "after" => /\ height + 1 < Len(w.index) /\ cut.disk = Prefix(w.index, height + 1)
                                   /\ cut.index = w.index /\ cut.cache = w.cache
    BY Truncates
  <1>2. CASE v = w \/ (v = cut /\ cut.verdict # "after")
    BY <1>1, <1>2, Zenon DEF RowStep
  <1>3. CASE v = Fail(w, "before")
    <2>1. /\ v \in Works /\ v.index = w.index /\ v.cache = w.cache /\ v.disk = w.disk /\ v.files = w.files
          /\ v.verdict = "before"
      BY <1>3, Zenon DEF Fail, Works
    <2> QED BY <2>1, Zenon DEF RowStep
  <1>4. CASE /\ cut.verdict = "after"
             /\ v = [cut EXCEPT !.index = Prefix(@, height + 1), !.cache = Prefix(@, height + 1)]
    <2>1. cut \in Works /\ cut.disk \in Seq(Hashes) /\ cut.files = w.files
      BY <1>1, Zenon DEF RowStep, Works
    <2>4. Prefix(cut.index, height + 1) = cut.disk /\ Prefix(cut.cache, height + 1) = cut.disk
      BY <1>1, <1>4, Zenon
    <2>5. v = [cut EXCEPT !.index = cut.disk, !.cache = cut.disk]
      BY <1>4, <2>4, Zenon
    <2>2. /\ v \in Works /\ v.index = cut.disk /\ v.cache = cut.disk /\ v.disk = cut.disk
          /\ v.files = w.files /\ v.verdict = "after"
      BY <1>4, <2>1, <2>5, Zenon DEF Works
    <2>3. RowsOf(cut.disk) \subseteq RowsOf(w.index)
      <3>1. w.index \in Seq(Hashes) /\ Len(w.index) \in Nat
        BY LenProperties, Zenon DEF Works
      <3>2. height + 1 \in 0..Len(w.index)
        BY <1>1, <1>4, <3>1
      <3> QED BY <1>1, <1>4, <3>1, <3>2, CutRows, Zenon
    <2> QED BY <2>2, <2>3, Zenon DEF RowStep
  <1> QED BY <1>2, <1>3, <1>4, Zenon DEF rewind_to_height

\* rollback_canonical adds the rows it is given and no others; memory follows
\* the index file unless the call fails after its write.
LEMMA RollsBack ==
  ASSUME NEW w \in Works, NEW base \in Nat, NEW suffix \in Seq(Hashes), NEW fault \in Faults,
         w.cache = w.index, w.verdict = "ok"
  PROVE  LET v == rollback_canonical(w, base, suffix, fault)
         IN  /\ RowStep(w, v, RowsOf(suffix))
             /\ w.index = w.disk /\ v.verdict # "after" => v.index = v.disk
  <1> DEFINE v == rollback_canonical(w, base, suffix, fault)
             clamped == IF base < Len(w.index) THEN base ELSE Len(w.index)
             rows == Prefix(w.index, clamped) \o suffix
  <1>1. w.index \in Seq(Hashes) /\ Len(w.index) \in Nat
    BY LenProperties, Zenon DEF Works
  <1>2. clamped \in 0..Len(w.index) /\ clamped \in Nat
    BY <1>1
  <1>3. rows \in Seq(Hashes) /\ RowsOf(rows) \subseteq RowsOf(w.index) \cup RowsOf(suffix)
    <2> HIDE DEF clamped
    <2>1. /\ Prefix(w.index, clamped) \in Seq(Hashes) /\ Len(Prefix(w.index, clamped)) = clamped
          /\ \A i \in 1..clamped : Prefix(w.index, clamped)[i] = w.index[i]
      BY <1>1, <1>2, CutRows, Zenon
    <2>2. /\ rows \in Seq(Hashes) /\ Len(rows) = clamped + Len(suffix) /\ Len(suffix) \in Nat
          /\ \A i \in 1..(clamped + Len(suffix)) :
               rows[i] = IF i <= clamped THEN Prefix(w.index, clamped)[i] ELSE suffix[i - clamped]
      BY <2>1, ConcatProperties, LenProperties
    <2> HIDE DEF rows
    <2> SUFFICES ASSUME NEW i \in 1..(clamped + Len(suffix))
                 PROVE  rows[i] \in RowsOf(w.index) \cup RowsOf(suffix)
      BY <2>2 DEF RowsOf
    <2>3. CASE i <= clamped
      <3>1. i \in 1..clamped /\ i \in 1..Len(w.index)
        BY <2>3, <1>1, <1>2, <2>2
      <3> QED BY <3>1, <2>1, <2>2, <2>3, <1>1 DEF RowsOf
    <2>4. CASE ~(i <= clamped)
      <3>1. i - clamped \in 1..Len(suffix)
        BY <2>4, <1>2, <2>2
      <3> QED BY <3>1, <2>2, <2>4 DEF RowsOf
    <2> QED BY <2>3, <2>4, Zenon
  <1>4. \/ v = Fail(w, "before")
        \/ v = [w EXCEPT !.disk = rows, !.index = rows, !.cache = rows]
        \/ v = [w EXCEPT !.disk = rows, !.verdict = "after"]
    BY Zenon DEF rollback_canonical, build_canonical_hash_cache
  <1> HIDE DEF rows, v
  <1>5. CASE v = Fail(w, "before")
    <2>1. /\ v \in Works /\ v.index = w.index /\ v.cache = w.cache /\ v.disk = w.disk /\ v.files = w.files
          /\ v.verdict = "before"
      BY <1>5, Zenon DEF Fail, Works
    <2> QED BY <2>1, Zenon DEF RowStep, v
  <1>6. CASE v = [w EXCEPT !.disk = rows, !.index = rows, !.cache = rows]
    <2>1. /\ v \in Works /\ v.index = rows /\ v.cache = rows /\ v.disk = rows /\ v.files = w.files
          /\ v.verdict = "ok"
      BY <1>3, <1>6, Zenon DEF Works
    <2> QED BY <2>1, <1>3, Zenon DEF RowStep, v
  <1>7. CASE v = [w EXCEPT !.disk = rows, !.verdict = "after"]
    <2>1. /\ v \in Works /\ v.index = w.index /\ v.cache = w.cache /\ v.disk = rows /\ v.files = w.files
          /\ v.verdict = "after"
      BY <1>3, <1>7, Zenon DEF Works
    <2> QED BY <2>1, <1>3, Zenon DEF RowStep, v
  <1> QED BY <1>4, <1>5, <1>6, <1>7, Zenon

\* What a commit of h at a height makes of the store: the row is new only with
\* all the files in place, a success leaves both, a failure before any commit
\* to the namespace leaves the rows alone.
CommitStep(w, v, height, h) ==
  LET replay == height < Len(w.index) /\ w.index[height + 1] = h
  IN  /\ v \in Works /\ v.cache = v.index /\ Keeps(w.files, v.files)
      /\ w.index = w.disk => v.index = v.disk
      /\ \/ v.index = w.index /\ v.disk = w.disk
         \/ /\ RowsOf(v.index) \subseteq RowsOf(w.index) \cup {h}
            /\ RowsOf(v.disk) \subseteq RowsOf(w.index) \cup RowsOf(w.disk) \cup {h}
            /\ \A k \in Kinds : v.files[h][k] = "same"
      /\ v.verdict = "before" => v.index = w.index /\ v.disk = w.disk /\ v.cache = w.cache
      /\ v.verdict = "ok" =>
           /\ \A k \in Kinds : v.files[h][k] = "same"
           /\ v.index = IF replay THEN w.index ELSE Append(Prefix(w.index, height), h)
           /\ v.disk = IF replay THEN w.disk ELSE v.index

\* commit_canonical_block adds its row last: the row is new only when the three
\* files are in place.
LEMMA Commits ==
  ASSUME NEW w \in Works, NEW height \in Nat, NEW h \in Hashes, NEW ok \in BOOLEAN, NEW u \in Nat,
         NEW fault \in Faults, w.cache = w.index, w.verdict = "ok"
  PROVE  CommitStep(w, commit_canonical_block(w, height, h, ok, u, fault), height, h)
  <1> DEFINE v == commit_canonical_block(w, height, h, ok, u, fault)
             replay == height < Len(w.index) /\ w.index[height + 1] = h
             bytes == persist_block_bytes(w, h, ok, fault)
             undone == write_file_if_absent(bytes, h, "undo", fault)
             tipped == set_canonical_tip(undone, height, h, fault)
  <1>1. /\ FileStep(w, bytes)
        /\ bytes.verdict = "ok" => bytes.files[h]["block"] = "same" /\ bytes.files[h]["header"] = "same"
    BY PersistBytes, Zenon
  <1>2. bytes \in Works
    BY <1>1, Zenon DEF FileStep
  <1>3. FileStep(bytes, undone) /\ (undone.verdict = "ok" => undone.files[h]["undo"] = "same")
    BY <1>2, WriteIfAbsent, Zenon DEF Kinds
  <1>4. /\ FileStep(w, undone)
        /\ undone.verdict = "ok" => \A k \in Kinds : undone.files[h][k] = "same"
    <2>1. FileStep(w, undone)
      BY <1>1, <1>2, <1>3, FileSteps, Zenon
    <2>2. ASSUME undone.verdict = "ok"
          PROVE  undone.files[h]["block"] = "same" /\ undone.files[h]["header"] = "same"
      BY <1>1, <1>3, <2>2, Zenon DEF FileStep, Keeps, Kinds
    <2> QED BY <1>3, <2>1, <2>2, Zenon DEF Kinds
  <1>5. /\ undone \in Works /\ undone.index = w.index /\ undone.cache = w.cache /\ undone.disk = w.disk
        /\ undone.cache = undone.index /\ Keeps(w.files, undone.files)
    BY <1>4, Zenon DEF FileStep
  <1>6. /\ RowStep(undone, tipped, {h})
        /\ undone.index = undone.disk => tipped.index = tipped.disk
        /\ undone.verdict # "ok" => tipped = undone
        /\ tipped.verdict = "ok" =>
             /\ undone.verdict = "ok"
             /\ tipped.index = IF replay THEN w.index ELSE Append(Prefix(w.index, height), h)
             /\ tipped.disk = IF replay THEN w.disk ELSE tipped.index
    <2> DEFINE there == height < Len(undone.index) /\ undone.index[height + 1] = h
    <2> HIDE DEF undone
    <2>1. /\ RowStep(undone, tipped, {h})
          /\ undone.index = undone.disk => tipped.index = tipped.disk
          /\ undone.verdict # "ok" => tipped = undone
          /\ tipped.verdict = "ok" =>
               /\ undone.verdict = "ok"
               /\ tipped.index = IF there THEN undone.index ELSE Append(Prefix(undone.index, height), h)
               /\ tipped.disk = IF there THEN undone.disk ELSE tipped.index
      BY <1>5, SetsTip, Zenon
    <2> HIDE DEF tipped
    <2> QED BY <2>1, <1>5, Zenon
  <1>7. \/ v = Fail(w, "before")
        \/ v = undone /\ replay
        \/ v = tipped /\ ~replay
    BY Zenon DEF commit_canonical_block
  <1> HIDE DEF v, replay, bytes, undone, tipped
  <1>8. CASE v = Fail(w, "before")
    <2>1. /\ v \in Works /\ v.index = w.index /\ v.cache = w.cache /\ v.disk = w.disk /\ v.files = w.files
          /\ v.verdict = "before"
      BY <1>8, Zenon DEF Fail, Works
    <2> QED BY <2>1, Zenon DEF Keeps, v, CommitStep
  <1>9. CASE v = undone /\ replay
    BY <1>4, <1>5, <1>9, Zenon DEF v, replay, CommitStep
  <1>10. CASE v = tipped /\ ~replay
    <2>1. CASE undone.verdict # "ok"
      BY <1>5, <1>6, <1>10, <2>1, Zenon DEF v, replay, RowStep, CommitStep
    <2>2. CASE undone.verdict = "ok"
      BY <1>4, <1>5, <1>6, <1>10, <2>2, Zenon DEF v, replay, RowStep, CommitStep
    <2> QED BY <2>1, <2>2, Zenon
  <1> QED BY <1>7, <1>8, <1>9, <1>10, Zenon

-----------------------------------------------------------------------------
(* The invariant. *)

\* A row is there on trust (set_canonical_tip, put_block and rollback_canonical
\* ask for no files), or has all of its files.
Backed(g) == g \in bare \/ \A k \in Kinds : files[g][k] # "absent"

\* The rows in memory are backed like those of the index file: a reload and a
\* rollback turn the one into the other.
IInv ==
  /\ index \in Seq(Hashes) /\ disk \in Seq(Hashes)
  /\ files \in [Hashes -> [Kinds -> Contents]]
  /\ faults \in Nat /\ astray \in BOOLEAN
  /\ CacheIsIndex
  /\ MemoryIsDisk
  /\ faults = 0 => \A g \in RowsOf(index) \cup RowsOf(disk) : Backed(g)

\* A call starts with what memory and disk hold.
LEMMA StartsWell ==
  ASSUME IInv
  PROVE  /\ Start \in Works /\ Start.index = index /\ Start.cache = cache /\ Start.disk = disk
         /\ Start.files = files /\ Start.verdict = "ok" /\ Start.cache = Start.index
  BY Zenon DEF IInv, Start, Works, CacheIsIndex

\* A call that ends in v keeps the invariant and the files if every row it adds
\* is backed.
LEMMA CallKeeps ==
  ASSUME IInv, NEW v \in Works, Finish(v), bare \subseteq bare', astray' \in BOOLEAN,
         v.cache = v.index, Keeps(files, v.files), v.index # v.disk => astray',
         \A g \in RowsOf(v.index) \cup RowsOf(v.disk) :
           \/ g \in RowsOf(index) \cup RowsOf(disk) \cup bare'
           \/ \A k \in Kinds : v.files[g][k] # "absent"
  PROVE  IInv' /\ Keeps(files, files') /\ faults' = faults
  <1>1. /\ index' = v.index /\ cache' = v.cache /\ disk' = v.disk /\ files' = v.files /\ faults' = faults
    BY Zenon DEF Finish
  <1>2. /\ index' \in Seq(Hashes) /\ disk' \in Seq(Hashes)
        /\ files' \in [Hashes -> [Kinds -> Contents]]
    BY <1>1, Zenon DEF Works
  <1>3. \A s \in Seq(Hashes) : RowsOf(s) \subseteq Hashes
    BY ElementOfSeq DEF RowsOf
  <1>4. ASSUME faults' = 0, NEW g \in RowsOf(index') \cup RowsOf(disk')
        PROVE  g \in bare' \/ \A k \in Kinds : files'[g][k] # "absent"
    <2>1. CASE g \in RowsOf(index) \cup RowsOf(disk)
      <3>1. g \in Hashes /\ Backed(g)
        BY <1>1, <1>3, <1>4, <2>1, Zenon DEF IInv
      <3> QED BY <3>1, <1>1, Zenon DEF Backed, Keeps
    <2> QED BY <1>1, <1>4, <2>1, Zenon
  <1> QED BY <1>1, <1>2, <1>4, Zenon DEF IInv, CacheIsIndex, MemoryIsDisk, Backed

\* The bounded lists of rows the steps draw on are lists of rows.
LEMMA SuffixesAreRows == Suffixes \subseteq Seq(Hashes)
  <1> SUFFICES ASSUME NEW n \in 0..MaxLen, NEW s \in [1..n -> Hashes] PROVE s \in Seq(Hashes)
    BY Zenon DEF Suffixes
  <1>1. n \in Nat
    BY BoundsAssumption
  <1> QED BY <1>1, SeqDef

\* A row step from the start of a call whose new rows are taken on trust.
LEMMA RowCallKeeps ==
  ASSUME IInv, NEW u \in Works, FileStep(Start, u), NEW v, NEW new, RowStep(u, v, new), Finish(v),
         bare' = bare \cup new, astray' \in BOOLEAN, v.index # v.disk => astray'
  PROVE  IInv' /\ Keeps(files, files') /\ faults' = faults
  <1>1. /\ u.index = index /\ u.cache = u.index /\ u.disk = disk /\ Keeps(files, u.files)
    BY StartsWell, Zenon DEF FileStep
  <1>2. /\ v \in Works /\ v.cache = v.index /\ Keeps(files, v.files)
        /\ RowsOf(v.index) \cup RowsOf(v.disk) \subseteq RowsOf(index) \cup RowsOf(disk) \cup bare'
    BY <1>1, Zenon DEF RowStep
  <1> QED BY <1>2, CallKeeps, Zenon

\* Nothing done yet is a file step.
LEMMA NoStep == ASSUME IInv PROVE FileStep(Start, Start)
  BY StartsWell, Zenon DEF FileStep, Keeps

\* Every step keeps the invariant, and only a fault at rest touches a file that
\* is there.
LEMMA StepKeeps ==
  ASSUME IInv, [Next]_vars
  PROVE  IInv' /\ (faults' = faults => Keeps(files, files'))
  <1>0. /\ Start \in Works /\ Start.index = index /\ Start.cache = cache /\ Start.disk = disk
        /\ Start.files = files /\ Start.verdict = "ok" /\ Start.cache = Start.index
        /\ FileStep(Start, Start) /\ astray \in BOOLEAN
    BY StartsWell, NoStep, Zenon DEF IInv
  <1>a. index = disk \/ astray
    BY Zenon DEF IInv, MemoryIsDisk
  <1>1. ASSUME NEW height \in 0..(MaxLen - 1), NEW h \in Hashes, NEW ok \in BOOLEAN, NEW f \in Faults,
               NEW u \in Heights, Commit(height, h, ok, u, f)
        PROVE  IInv' /\ Keeps(files, files')
    <2> DEFINE v == commit_canonical_block(Start, height, h, ok, u, f)
    <2>1. height \in Nat /\ u \in Nat
      BY BoundsAssumption DEF Heights
    <2>2. /\ v \in Works /\ v.cache = v.index /\ Keeps(files, v.files)
          /\ index = disk => v.index = v.disk
          /\ \/ v.index = index /\ v.disk = disk
             \/ /\ RowsOf(v.index) \subseteq RowsOf(index) \cup {h}
                /\ RowsOf(v.disk) \subseteq RowsOf(index) \cup RowsOf(disk) \cup {h}
                /\ \A k \in Kinds : v.files[h][k] = "same"
      <3>1. CommitStep(Start, v, height, h)
        BY <1>0, <2>1, Commits, Zenon
      <3> HIDE DEF v
      <3> QED BY <1>0, <3>1, Zenon DEF CommitStep
    <2>3. Finish(v) /\ bare' = bare /\ astray' = astray
      BY <1>1, Zenon DEF Commit
    <2> HIDE DEF v
    <2>4. \A g \in RowsOf(v.index) \cup RowsOf(v.disk) :
            g \in RowsOf(index) \cup RowsOf(disk) \/ \A k \in Kinds : v.files[g][k] # "absent"
      BY <2>2, Zenon
    <2> QED BY <1>0, <1>a, <2>2, <2>3, <2>4, CallKeeps, Zenon
  <1>2. ASSUME NEW height \in 0..(MaxLen - 1), NEW h \in Hashes, NEW ok \in BOOLEAN, NEW f \in Faults,
               put_block(height, h, ok, f)
        PROVE  IInv' /\ Keeps(files, files')
    <2> DEFINE u == persist_block_bytes(Start, h, ok, f)
               v == set_canonical_tip(u, height, h, f)
    <2>1. height \in Nat
      BY BoundsAssumption
    <2>2. FileStep(Start, u) /\ u \in Works /\ u.cache = u.index /\ u.index = index /\ u.disk = disk
      BY <1>0, PersistBytes DEF FileStep
    <2>3. Finish(v) /\ bare' = bare \cup {h} /\ astray' = astray
      BY <1>2, Zenon DEF put_block
    <2> HIDE DEF u
    <2>4. RowStep(u, v, {h}) /\ (u.index = u.disk => v.index = v.disk)
      BY <2>1, <2>2, SetsTip, Zenon
    <2> HIDE DEF v
    <2> QED BY <1>0, <1>a, <2>2, <2>3, <2>4, RowCallKeeps, Zenon
  <1>3. ASSUME NEW height \in 0..(MaxLen - 1), NEW h \in Hashes, NEW f \in Faults, SetTip(height, h, f)
        PROVE  IInv' /\ Keeps(files, files')
    <2> DEFINE v == set_canonical_tip(Start, height, h, f)
    <2>1. height \in Nat
      BY BoundsAssumption
    <2>2. Finish(v) /\ bare' = bare \cup {h} /\ astray' = astray
      BY <1>3, Zenon DEF SetTip
    <2>3. RowStep(Start, v, {h}) /\ (index = disk => v.index = v.disk)
      BY <1>0, <2>1, SetsTip, Zenon
    <2> HIDE DEF v
    <2> QED BY <1>0, <1>a, <2>2, <2>3, RowCallKeeps, Zenon
  <1>4. ASSUME NEW v, FileStep(Start, v), Finish(v), UNCHANGED <<bare, astray>>
        PROVE  IInv' /\ Keeps(files, files')
    <2>1. v \in Works /\ v.cache = v.index /\ v.index = index /\ v.disk = disk /\ Keeps(files, v.files)
      BY <1>0, <1>4, Zenon DEF FileStep
    <2> QED BY <1>0, <1>a, <1>4, <2>1, CallKeeps, Zenon
  <1>5. ASSUME NEW h \in Hashes, NEW ok \in BOOLEAN, NEW f \in Faults, store_block(h, ok, f)
        PROVE  IInv' /\ Keeps(files, files')
    <2>1. FileStep(Start, persist_block_bytes(Start, h, ok, f))
      BY <1>0, PersistBytes, Zenon
    <2> QED BY <1>4, <1>5, <2>1, Zenon DEF store_block
  <1>6. ASSUME NEW h \in Hashes, NEW f \in Faults, put_undo(h, f)
        PROVE  IInv' /\ Keeps(files, files')
    <2>1. FileStep(Start, write_file_if_absent(Start, h, "undo", f))
      BY <1>0, WriteIfAbsent, Zenon DEF Kinds
    <2> QED BY <1>4, <1>6, <2>1, Zenon DEF put_undo
  <1>7. ASSUME NEW height \in Heights, NEW f \in Faults, Rewind(height, f)
        PROVE  IInv' /\ Keeps(files, files')
    <2> DEFINE v == rewind_to_height(Start, height, f)
    <2>1. height \in Nat
      BY BoundsAssumption DEF Heights
    <2>2. Finish(v) /\ bare' = bare \cup {} /\ astray' = astray
      BY <1>7, Zenon DEF Rewind
    <2>3. RowStep(Start, v, {}) /\ (index = disk => v.index = v.disk)
      BY <1>0, <2>1, Rewinds, Zenon
    <2> HIDE DEF v
    <2> QED BY <1>0, <1>a, <2>2, <2>3, RowCallKeeps, Zenon
  <1>8. ASSUME NEW n \in Heights, NEW f \in Faults, Truncate(n, f)
        PROVE  IInv' /\ Keeps(files, files')
    <2> DEFINE v == truncate_canonical(Start, n, f)
    <2>1. n \in Nat
      BY BoundsAssumption DEF Heights
    <2>2. Finish(v) /\ bare' = bare \cup {} /\ astray' = (astray \/ v.verdict = "after")
      BY <1>8, Zenon DEF Truncate
    <2>3. RowStep(Start, v, {}) /\ (index = disk /\ v.verdict # "after" => v.index = v.disk)
      BY <1>0, <2>1, Truncates, Zenon
    <2> HIDE DEF v
    <2> QED BY <1>0, <1>a, <2>2, <2>3, RowCallKeeps, Zenon
  <1>9. ASSUME NEW base \in Heights, NEW f \in Faults, NEW suffix \in Suffixes, Rollback(base, suffix, f)
        PROVE  IInv' /\ Keeps(files, files')
    <2> DEFINE v == rollback_canonical(Start, base, suffix, f)
    <2>1. base \in Nat /\ suffix \in Seq(Hashes)
      BY BoundsAssumption, SuffixesAreRows DEF Heights
    <2>2. Finish(v) /\ bare' = bare \cup RowsOf(suffix) /\ astray' = (astray \/ v.verdict = "after")
      BY <1>9, Zenon DEF Rollback, RowsOf
    <2>3. RowStep(Start, v, RowsOf(suffix)) /\ (index = disk /\ v.verdict # "after" => v.index = v.disk)
      BY <1>0, <2>1, RollsBack, Zenon
    <2> HIDE DEF v
    <2> QED BY <1>0, <1>a, <2>2, <2>3, RowCallKeeps, Zenon
  <1>10. CASE reload_persistence_state
    BY <1>10, Zenon DEF reload_persistence_state, build_canonical_hash_cache, IInv, CacheIsIndex, MemoryIsDisk,
                 Backed, Keeps
  <1>11. ASSUME NEW h \in Hashes, NEW k \in Kinds, NEW c \in Contents, FileFault(h, k, c)
         PROVE  IInv' /\ faults' # faults
    <2>1. files' \in [Hashes -> [Kinds -> Contents]]
      BY <1>11, Zenon DEF FileFault, IInv
    <2>2. faults' \in Nat /\ faults' # 0 /\ faults' # faults
      BY <1>11 DEF FileFault, IInv
    <2> QED BY <1>11, <2>1, <2>2, Zenon DEF FileFault, IInv, CacheIsIndex, MemoryIsDisk
  <1>12. CASE UNCHANGED vars
    BY <1>12, Zenon DEF vars, IInv, CacheIsIndex, MemoryIsDisk, Backed, Keeps
  <1> QED BY <1>1, <1>2, <1>3, <1>5, <1>6, <1>7, <1>8, <1>9, <1>10, <1>11, <1>12, Zenon DEF Next

-----------------------------------------------------------------------------
(* Theorems. *)

\* IInv holds in every state the block store can be in.
THEOREM Invariance == Spec => []IInv
  <1>1. Init => IInv
    <2> SUFFICES ASSUME Init PROVE IInv
      BY Zenon
    <2>1. index \in Seq(Hashes) /\ RowsOf(index) = {}
      BY EmptySeq DEF Init, RowsOf
    <2>2. files \in [Hashes -> [Kinds -> Contents]]
      BY Zenon DEF Init, Contents
    <2> QED BY <2>1, <2>2, Zenon DEF Init, IInv, CacheIsIndex, MemoryIsDisk
  <1>2. IInv /\ [Next]_vars => IInv'
    BY StepKeeps, Zenon
  <1> QED BY <1>1, <1>2, PTL DEF Spec

\* The decoded hash cache that serves the lookups is the list of rows.
THEOREM CacheAlwaysIndex == Spec => []CacheIsIndex
  <1>1. IInv => CacheIsIndex
    BY Zenon DEF IInv
  <1> QED BY <1>1, Invariance, PTL

\* Memory and the index file differ only after a truncate or rollback that
\* failed after its write, until the next reload.
THEOREM MemoryFollowsDisk == Spec => []MemoryIsDisk
  <1>1. IInv => MemoryIsDisk
    BY Zenon DEF IInv
  <1> QED BY <1>1, Invariance, PTL

\* A row that commit_canonical_block made canonical has its three files,
\* whichever writes failed on the way.
THEOREM CommittedRowsHaveFiles == Spec => []RowsHaveFiles
  <1>1. IInv => RowsHaveFiles
    BY Zenon DEF IInv, RowsHaveFiles, Backed, RowsOf
  <1> QED BY <1>1, Invariance, PTL

\* commit_canonical_block keeps its word in every state the store can be in.
THEOREM CommitIsHonest == Spec => []CommitKeepsItsWord
  <1>1. IInv => CommitKeepsItsWord
    <2> SUFFICES ASSUME IInv, NEW height \in 0..(MaxLen - 1), NEW h \in Hashes, NEW ok \in BOOLEAN,
                        NEW u \in Heights, NEW f \in Faults
                 PROVE  LET w == commit_canonical_block(Start, height, h, ok, u, f)
                            replay == height < Len(index) /\ index[height + 1] = h
                        IN  /\ w.verdict = "ok" =>
                                 /\ \A k \in Kinds : w.files[h][k] = "same"
                                 /\ w.index = IF replay THEN index ELSE Append(Prefix(index, height), h)
                                 /\ w.cache = w.index
                                 /\ ~astray => w.disk = w.index
                            /\ w.verdict = "before" => w.index = index /\ w.disk = disk /\ w.cache = cache
      BY Zenon DEF CommitKeepsItsWord
    <2> DEFINE w == commit_canonical_block(Start, height, h, ok, u, f)
               replay == height < Len(index) /\ index[height + 1] = h
    <2>1. height \in Nat /\ u \in Nat
      BY BoundsAssumption DEF Heights
    <2>2. /\ Start \in Works /\ Start.index = index /\ Start.cache = cache /\ Start.disk = disk
          /\ Start.verdict = "ok" /\ Start.cache = Start.index
      BY StartsWell, Zenon
    <2>3. ~astray => disk = index
      BY Zenon DEF IInv, MemoryIsDisk
    <2>4. /\ w.cache = w.index
          /\ index = disk => w.index = w.disk
          /\ w.verdict = "before" => w.index = index /\ w.disk = disk /\ w.cache = cache
          /\ w.verdict = "ok" =>
               /\ \A k \in Kinds : w.files[h][k] = "same"
               /\ w.index = IF replay THEN index ELSE Append(Prefix(index, height), h)
      <3>1. CommitStep(Start, w, height, h)
        BY <2>1, <2>2, Commits, Zenon
      <3> HIDE DEF w
      <3> QED BY <2>2, <3>1, Zenon DEF CommitStep
    <2> HIDE DEF w, replay
    <2> QED BY <2>3, <2>4, Zenon DEF w, replay
  <1> QED BY <1>1, Invariance, PTL

\* No call replaces a file of a block once it is there.
THEOREM FilesAreNeverReplaced == Spec => NeverReplaced
  <1>1. IInv /\ [Next]_vars => (faults' = faults => Keeps(files, files'))
    BY StepKeeps, Zenon
  <1>2. IInv /\ [Next]_vars =>
          [faults' = faults => \A h \in Hashes, k \in Kinds :
             files[h][k] # "absent" => files'[h][k] = files[h][k]]_vars
    BY <1>1, Zenon DEF Keeps
  <1> QED BY <1>2, Invariance, PTL DEF Spec, NeverReplaced
=============================================================================
