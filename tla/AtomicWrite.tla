---------------------------- MODULE AtomicWrite -----------------------------
(***************************************************************************)
(* The durable writer of io_utils.rs on one directory: threads of several  *)
(* processes write destinations through one scratch file, under a mutex of *)
(* the process and a lock file of the directory.  Every system call is a   *)
(* step that may succeed or fail, a process may die between any two, and a *)
(* power loss takes back what was not synced: file data not fsynced is     *)
(* torn, directory entries go back to the last synced or written-back      *)
(* ones.  Inodes are explicit, because a hard link and a stale scratch     *)
(* file can name the same one.                                             *)
(***************************************************************************)
EXTENDS Naturals, FiniteSets, TLC

CONSTANTS
    Writer,     \* threads
    Process,    \* processes, each the set of its threads
    Path,       \* destinations in the directory
    CreateOnly, \* destinations written with CreateIfAbsent, the rest with Overwrite
    Value,      \* file contents
    Torn,       \* an incomplete content
    Inode,      \* bound: inodes of the file system
    NoInode, NoWriter, Absent

ASSUME WriterAssumption ==
    /\ \A w \in Writer : \E q \in Process : w \in q
    /\ \A q, r \in Process : q \intersect r # {} => q = r
    /\ CreateOnly \subseteq Path
    /\ NoWriter \notin Writer
    /\ NoInode \notin Inode
    /\ Torn \notin Value
    /\ Absent \notin Value
    /\ Absent # Torn

VARIABLES
    \* the file system
    scratch,     \* inode of the scratch entry (ATOMIC_WRITE_SCRATCH_LEAF)
    entry,       \* entry[p]: inode of destination p
    disk_scratch, disk_entry,  \* the same entries as a power loss leaves them
    content,     \* content[i]
    synced,      \* synced[i]: the content of i is on disk
    lock,        \* holder of the lock file (ATOMIC_WRITE_LOCK_LEAF)
    \* the processes
    process,     \* process[q]: "down", "starting" or "up"
    mutex,       \* mutex[q]: holder of ATOMIC_WRITE_PROCESS_MUTEX
    pc,          \* pc[w]: the next system call of thread w
    request,     \* request[w]: <<path, value>>, or <<>> for none or a reclaim
    handle,      \* handle[w]: inode of the open scratch file
    result       \* result[w]: the result so far

directory == <<scratch, entry, disk_scratch, disk_entry>>
data == <<content, synced>>
vars == <<directory, data, lock, process, mutex, pc, request, handle, result>>

Pc == {"idle", "look", "sync_existing", "mutex", "lock", "unlink", "open", "write", "fsync",
       "commit", "cleanup", "sync", "return"}

\* The calls made with both guards held.
Locked == {"unlink", "open", "write", "fsync", "commit", "cleanup", "sync", "return"}

Init ==
    /\ scratch = NoInode
    /\ entry = [p \in Path |-> NoInode]
    /\ disk_scratch = NoInode
    /\ disk_entry = [p \in Path |-> NoInode]
    /\ content = [i \in Inode |-> Torn]
    /\ synced = [i \in Inode |-> FALSE]
    /\ lock = NoWriter
    /\ process = [q \in Process |-> "down"]
    /\ mutex = [q \in Process |-> NoWriter]
    /\ pc = [w \in Writer |-> "idle"]
    /\ request = [w \in Writer |-> <<>>]
    /\ handle = [w \in Writer |-> NoInode]
    /\ result = [w \in Writer |-> "none"]

Reading(p) == IF entry[p] = NoInode THEN Absent ELSE content[entry[p]]

Goto(w, next) == pc' = [pc EXCEPT ![w] = next]

\* A first failure decides the result; later ones are secondary causes.
Result(w, r) == result' = [result EXCEPT ![w] = IF @ = "ok" THEN r ELSE @]

\* The process of thread w, and the threads of process q.
ProcessOf(w) == CHOOSE q \in Process : w \in q

Of(q) == {w \in Writer : ProcessOf(w) = q}

\* Process q is gone: its threads, its guards and its open files with it.
Gone(q) ==
    /\ process' = [process EXCEPT ![q] = "down"]
    /\ mutex' = [mutex EXCEPT ![q] = NoWriter]
    /\ lock' = IF lock \in Of(q) THEN NoWriter ELSE lock
    /\ pc' = [w \in Writer |-> IF w \in Of(q) THEN "idle" ELSE pc[w]]
    /\ request' = [w \in Writer |-> IF w \in Of(q) THEN <<>> ELSE request[w]]
    /\ handle' = [w \in Writer |-> IF w \in Of(q) THEN NoInode ELSE handle[w]]
    /\ result' = [w \in Writer |-> IF w \in Of(q) THEN "none" ELSE result[w]]

Reclaiming(w) == process[ProcessOf(w)] = "starting"

-----------------------------------------------------------------------------
(* The calls of one write, in order. *)

\* write_file_atomic_typed, or write_file_if_absent and put_undo, which look
\* for an existing artifact first.
Begin(w, p, v) ==
    /\ process[ProcessOf(w)] = "up"
    /\ pc[w] = "idle"
    /\ request' = [request EXCEPT ![w] = <<p, v>>]
    /\ result' = [result EXCEPT ![w] = "ok"]
    /\ Goto(w, IF p \in CreateOnly THEN "look" ELSE "mutex")
    /\ UNCHANGED <<directory, data, lock, process, mutex, handle>>

\* read_existing, with no guard held: equal bytes only need the directory synced,
\* other bytes (or a read error) are refused.
Look(w) ==
    LET p == request[w][1]
        v == request[w][2] IN
    /\ pc[w] = "look"
    /\ \/ /\ Reading(p) = Absent
          /\ Goto(w, "mutex")
          /\ UNCHANGED result
       \/ /\ Reading(p) = v
          /\ Goto(w, "sync_existing")
          /\ UNCHANGED result
       \/ /\ Goto(w, "return")
          /\ Result(w, "before")
    /\ UNCHANGED <<directory, data, lock, process, mutex, request, handle>>

\* fsync of the directory: its entries are on disk.
sync_atomic_parent ==
    /\ disk_scratch' = scratch
    /\ disk_entry' = entry
    /\ UNCHANGED <<scratch, entry>>

SyncExisting(w) ==
    /\ pc[w] = "sync_existing"
    /\ \/ sync_atomic_parent /\ UNCHANGED result
       \/ UNCHANGED directory /\ Result(w, "after")
    /\ Goto(w, "return")
    /\ UNCHANGED <<data, lock, process, mutex, request, handle>>

TakeMutex(w) ==
    /\ pc[w] = "mutex"
    /\ mutex[ProcessOf(w)] = NoWriter
    /\ mutex' = [mutex EXCEPT ![ProcessOf(w)] = w]
    /\ Goto(w, "lock")
    /\ UNCHANGED <<directory, data, lock, process, request, handle, result>>

\* A failed write before the scratch file is touched; a failed reclaim ends
\* the process with exit code 2.
Refuse(w) ==
    IF Reclaiming(w)
    THEN Gone(ProcessOf(w))
    ELSE /\ Goto(w, "return")
         /\ Result(w, "before")
         /\ UNCHANGED <<lock, process, mutex, request, handle>>

\* Mutant: the lock file is opened but not locked.
TakeLock_NoTryLock(w) ==
    /\ pc[w] = "lock"
    /\ lock' = w
    /\ Goto(w, "unlink")
    /\ UNCHANGED <<directory, data, process, mutex, request, handle, result>>

\* file_lock::acquire never waits: a held lock, like an unusable lock file, is an error.
TakeLock(w) ==
    /\ pc[w] = "lock"
    /\ \/ /\ lock = NoWriter
          /\ lock' = w
          /\ Goto(w, "unlink")
          /\ UNCHANGED <<process, mutex, request, handle, result>>
       \/ Refuse(w)
    /\ UNCHANGED <<directory, data>>

\* Mutant: a scratch file that is still there is truncated and used again.
PreUnlink_Truncate(w) ==
    /\ pc[w] = "unlink"
    /\ IF scratch = NoInode \/ Reclaiming(w)
       THEN /\ Goto(w, IF Reclaiming(w) THEN "sync" ELSE "open")
            /\ UNCHANGED <<data, handle>>
       ELSE /\ handle' = [handle EXCEPT ![w] = scratch]
            /\ content' = [content EXCEPT ![scratch] = Torn]
            /\ Goto(w, "write")
            /\ UNCHANGED synced
    /\ UNCHANGED <<directory, lock, process, mutex, request, result>>

\* pre_unlink_atomic_scratch: remove what a crash may have left.
PreUnlink(w) ==
    /\ pc[w] = "unlink"
    /\ \/ /\ scratch' = NoInode
          /\ Goto(w, IF Reclaiming(w) THEN "sync" ELSE "open")
          /\ UNCHANGED <<entry, disk_scratch, disk_entry, lock, process, mutex, request,
                         handle, result>>
       \/ Refuse(w) /\ UNCHANGED directory
    /\ UNCHANGED data

\* Inodes that neither a name, a name on disk nor an open file refers to.
Free ==
    Inode \ ({scratch, disk_scratch} \union {entry[p] : p \in Path}
             \union {disk_entry[p] : p \in Path} \union {handle[w] : w \in Writer})

\* pre_commit_failure: result "before", then the scratch file is removed.
PreCommitFailure(w) ==
    /\ Result(w, "before")
    /\ Goto(w, "cleanup")

\* open_atomic_scratch with create_new: a fresh inode (the chmod after it may
\* fail), or an error.
OpenScratch(w) ==
    /\ pc[w] = "open"
    /\ \/ \E i \in Free :
            /\ scratch = NoInode
            /\ scratch' = i
            /\ content' = [content EXCEPT ![i] = Torn]
            /\ synced' = [synced EXCEPT ![i] = FALSE]
            /\ \/ /\ handle' = [handle EXCEPT ![w] = i]
                  /\ Goto(w, "write")
                  /\ UNCHANGED result
               \/ PreCommitFailure(w) /\ UNCHANGED handle
       \/ PreCommitFailure(w) /\ UNCHANGED <<scratch, handle, data>>
    /\ UNCHANGED <<entry, disk_scratch, disk_entry, lock, process, mutex, request>>

\* write_all into the open file; an error leaves it torn.
WriteData(w) ==
    /\ pc[w] = "write"
    /\ \/ /\ content' = [content EXCEPT ![handle[w]] = request[w][2]]
          /\ Goto(w, "fsync")
          /\ UNCHANGED <<handle, result>>
       \/ /\ PreCommitFailure(w)
          /\ handle' = [handle EXCEPT ![w] = NoInode]
          /\ UNCHANGED content
    /\ UNCHANGED <<directory, synced, lock, process, mutex, request>>

\* Mutant: an fsync error is ignored.
FileSync_IgnoreError(w) ==
    /\ pc[w] = "fsync"
    /\ \/ synced' = [synced EXCEPT ![handle[w]] = TRUE]
       \/ UNCHANGED synced
    /\ Goto(w, "commit")
    /\ handle' = [handle EXCEPT ![w] = NoInode]
    /\ UNCHANGED <<directory, content, lock, process, mutex, request, result>>

\* sync_all, after which the file is closed.
FileSync(w) ==
    /\ pc[w] = "fsync"
    /\ \/ /\ synced' = [synced EXCEPT ![handle[w]] = TRUE]
          /\ Goto(w, "commit")
          /\ UNCHANGED result
       \/ PreCommitFailure(w) /\ UNCHANGED synced
    /\ handle' = [handle EXCEPT ![w] = NoInode]
    /\ UNCHANGED <<directory, content, lock, process, mutex, request>>

\* rename of the scratch file over the destination.
Rename(w, p) ==
    /\ p \notin CreateOnly
    /\ scratch # NoInode
    /\ entry' = [entry EXCEPT ![p] = scratch]
    /\ scratch' = NoInode
    /\ Goto(w, "cleanup")
    /\ UNCHANGED <<disk_scratch, disk_entry, result>>

\* hard_link of the scratch file; EEXIST is fine when the bytes are equal.
HardLink(w, p, v) ==
    /\ p \in CreateOnly
    /\ scratch # NoInode
    /\ \/ entry[p] = NoInode /\ entry' = [entry EXCEPT ![p] = scratch]
       \/ Reading(p) = v /\ UNCHANGED entry
    /\ Goto(w, "cleanup")
    /\ UNCHANGED <<scratch, disk_scratch, disk_entry, result>>

\* The namespace commit.
CommitName(w) ==
    /\ pc[w] = "commit"
    /\ \/ Rename(w, request[w][1])
       \/ HardLink(w, request[w][1], request[w][2])
       \/ PreCommitFailure(w) /\ UNCHANGED directory
    /\ UNCHANGED <<data, lock, process, mutex, request, handle>>

\* cleanup_atomic_scratch: after the commit its error makes the result "after".
Cleanup(w) ==
    /\ pc[w] = "cleanup"
    /\ \/ scratch' = NoInode /\ UNCHANGED result
       \/ Result(w, "after") /\ UNCHANGED scratch
    /\ Goto(w, "sync")
    /\ UNCHANGED <<entry, disk_scratch, disk_entry, data, lock, process, mutex, request, handle>>

\* Mutant: the error of the directory sync is ignored.
SyncParent_IgnoreError(w) ==
    /\ pc[w] = "sync"
    /\ sync_atomic_parent \/ UNCHANGED directory
    /\ Goto(w, "return")
    /\ UNCHANGED <<data, lock, process, mutex, request, handle, result>>

\* sync_atomic_parent; a reclaim that fails here ends the process.
SyncParent(w) ==
    /\ pc[w] = "sync"
    /\ \/ /\ sync_atomic_parent
          /\ Goto(w, "return")
          /\ UNCHANGED <<lock, process, mutex, request, handle, result>>
       \/ /\ ~Reclaiming(w)
          /\ Goto(w, "return")
          /\ Result(w, "after")
          /\ UNCHANGED <<directory, lock, process, mutex, request, handle>>
       \/ Reclaiming(w) /\ Gone(ProcessOf(w)) /\ UNCHANGED directory
    /\ UNCHANGED data

\* The guards are dropped and the result returned; a reclaim lets the node start.
ReturnResult(w) ==
    /\ pc[w] = "return"
    /\ Goto(w, "idle")
    /\ mutex' = [mutex EXCEPT ![ProcessOf(w)] = IF @ = w THEN NoWriter ELSE @]
    /\ lock' = IF lock = w THEN NoWriter ELSE lock
    /\ process' = [process EXCEPT ![ProcessOf(w)] = "up"]
    /\ request' = [request EXCEPT ![w] = <<>>]
    /\ result' = [result EXCEPT ![w] = "none"]
    /\ UNCHANGED <<directory, data, handle>>

-----------------------------------------------------------------------------
(* Start-up, crash, power loss, and the kernel's own write-back. *)

\* main.rs: a new process reclaims the directory before anything else.
Start(w) ==
    /\ process[ProcessOf(w)] = "down"
    /\ process' = [process EXCEPT ![ProcessOf(w)] = "starting"]
    /\ Goto(w, "mutex")
    /\ UNCHANGED <<directory, data, lock, mutex, request, handle, result>>

Crash(q) ==
    /\ process[q] # "down"
    /\ Gone(q)
    /\ UNCHANGED <<directory, data>>

\* The kernel writes one entry to disk on its own.  (It may write file data too;
\* that such data is lost in a power loss is the worse case.)
WriteBack ==
    /\ \/ \E p \in Path : /\ disk_entry' = [disk_entry EXCEPT ![p] = entry[p]]
                          /\ UNCHANGED disk_scratch
       \/ disk_scratch' = scratch /\ UNCHANGED disk_entry
    /\ UNCHANGED <<scratch, entry, data, lock, process, mutex, pc, request, handle, result>>

\* All processes die; entries go back to the disk's, unsynced data is torn.
PowerLoss ==
    /\ scratch' = disk_scratch
    /\ entry' = disk_entry
    /\ content' = [i \in Inode |-> IF synced[i] THEN content[i] ELSE Torn]
    /\ lock' = NoWriter
    /\ process' = [q \in Process |-> "down"]
    /\ mutex' = [q \in Process |-> NoWriter]
    /\ pc' = [w \in Writer |-> "idle"]
    /\ request' = [w \in Writer |-> <<>>]
    /\ handle' = [w \in Writer |-> NoInode]
    /\ result' = [w \in Writer |-> "none"]
    /\ UNCHANGED <<disk_scratch, disk_entry, synced>>

-----------------------------------------------------------------------------
\* The next system call of thread w.
Step(w) ==
    \/ Look(w) \/ SyncExisting(w) \/ TakeMutex(w) \/ TakeLock(w) \/ PreUnlink(w)
    \/ OpenScratch(w) \/ WriteData(w) \/ FileSync(w) \/ CommitName(w) \/ Cleanup(w)
    \/ SyncParent(w) \/ ReturnResult(w)

Next ==
    \/ \E w \in Writer : Step(w) \/ Start(w)
    \/ \E w \in Writer, p \in Path, v \in Value : Begin(w, p, v)
    \/ \E q \in Process : Crash(q)
    \/ WriteBack \/ PowerLoss

Spec == Init /\ [][Next]_vars

\* Inodes are interchangeable, and so are values.
Symmetry == Permutations(Inode) \union Permutations(Value)

-----------------------------------------------------------------------------
(* Properties. *)

\* Every variable holds a value of its kind, and the locals of write_atomic_file
\* are there when a call uses them: an open file to write, a request to commit.
TypeOK ==
    /\ scratch \in Inode \union {NoInode}
    /\ entry \in [Path -> Inode \union {NoInode}]
    /\ disk_scratch \in Inode \union {NoInode}
    /\ disk_entry \in [Path -> Inode \union {NoInode}]
    /\ content \in [Inode -> Value \union {Torn}]
    /\ synced \in [Inode -> BOOLEAN]
    /\ lock \in Writer \union {NoWriter}
    /\ process \in [Process -> {"down", "starting", "up"}]
    /\ mutex \in [Process -> Writer \union {NoWriter}]
    /\ pc \in [Writer -> Pc]
    /\ request \in [Writer -> {<<>>} \union (Path \X Value)]
    /\ handle \in [Writer -> Inode \union {NoInode}]
    /\ result \in [Writer -> {"none", "ok", "before", "after"}]
    /\ \A w \in Writer :
         /\ pc[w] \in {"write", "fsync"} <=> handle[w] # NoInode
         /\ request[w] = <<>> <=> pc[w] = "idle" \/ Reclaiming(w)

\* No reader, now or after a power loss, finds a destination with part of its
\* bytes: the inode of a destination is complete and its data was synced before
\* the rename or link of write_atomic_file_locked, and no later write through a
\* stale scratch name reaches it.
NeverTorn ==
    \A p \in Path : \A i \in {entry[p], disk_entry[p]} :
        i # NoInode => content[i] # Torn /\ synced[i]

\* The fixed scratch name is used by one thread of all processes at a time,
\* although a process may die with the lock and another may take it.
OneInTheDirectory ==
    \A w, u \in Writer :
        pc[w] \in Locked \ {"return"} /\ pc[u] \in Locked \ {"return"} => w = u

\* The bytes of the destinations, as AtomicFile speaks of them.
Contents(names) == [p \in Path |-> IF names[p] = NoInode THEN Absent ELSE content[names[p]]]

\* The write of w has been committed, or found in place, and has not returned.
Committed(w) == pc[w] \in {"sync_existing", "cleanup", "sync", "return"} /\ result[w] \in {"ok", "after"}

Abstract ==
    INSTANCE AtomicFile WITH
        file <- Contents(entry),
        durable <- Contents(disk_entry),
        committed <- [w \in Writer |-> Committed(w)],
        result <- [w \in Writer |-> IF pc[w] = "return" THEN result[w] ELSE "none"]

\* The writer implements AtomicFile: one atomic change of the destination, no
\* replaced artifact, and errors that say truthfully whether the change is visible
\* (AtomicWriteStage), under every failing call, crash and power loss.
ImplementsAtomicFile == Abstract!Spec

=============================================================================
