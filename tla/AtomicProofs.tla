---------------------------- MODULE AtomicProofs ----------------------------
(***************************************************************************)
(* The durable writer never leaves a torn destination and implements       *)
(* AtomicFile, for any number of threads, processes, destinations, values  *)
(* and inodes.                                                             *)
(***************************************************************************)
EXTENDS AtomicWrite, TLAPS

\* The calls that touch the scratch file or a destination.
Exclusive == Locked \ {"return"}

\* The values of the variables, and the locals of a call.
Types ==
    /\ scratch \in Inode \union {NoInode}
    /\ entry \in [Path -> Inode \union {NoInode}]
    /\ disk_scratch \in Inode \union {NoInode}
    /\ disk_entry \in [Path -> Inode \union {NoInode}]
    /\ content \in [Inode -> Value \union {Torn}]
    /\ synced \in [Inode -> BOOLEAN]
    /\ lock \in Writer \union {NoWriter}
    /\ process \in [Process -> {"down", "starting", "up"}]
    /\ mutex \in [Process -> Writer \union {NoWriter}]
    /\ pc \in [Writer -> Pc]
    /\ request \in [Writer -> {<<>>} \union (Path \X Value)]
    /\ handle \in [Writer -> Inode \union {NoInode}]
    /\ result \in [Writer -> {"none", "ok", "before", "after"}]

Locals(w) ==
    /\ pc[w] \in {"write", "fsync"} <=> handle[w] # NoInode
    /\ request[w] = <<>> <=> pc[w] = "idle" \/ Reclaiming(w)

\* A reclaim is the only thread of its process and makes no other calls than
\* these; a result is known only where the code has one.
Phase(w) ==
    /\ process[ProcessOf(w)] = "down" => pc[w] = "idle"
    /\ Reclaiming(w) => pc[w] \in {"idle", "mutex", "lock", "unlink", "sync", "return"}
    /\ \A u \in Writer :
         Reclaiming(w) /\ ProcessOf(u) = ProcessOf(w) /\ pc[w] # "idle" /\ pc[u] # "idle" => u = w
    /\ IF pc[w] = "idle" \/ Reclaiming(w) THEN result[w] = "none"
       ELSE IF pc[w] \in {"cleanup", "sync", "return"} THEN result[w] \in {"ok", "before", "after"}
       ELSE result[w] = "ok"
    /\ pc[w] \in {"look", "sync_existing"} => request[w][1] \in CreateOnly

\* The open file is the scratch file and nobody's destination; what is about
\* to be committed is complete and synced; what was committed can be read.
Scratch(w) ==
    /\ pc[w] \in {"write", "fsync"} =>
         /\ handle[w] = scratch
         /\ \A p \in Path : entry[p] # scratch /\ disk_entry[p] # scratch
    /\ pc[w] \in {"fsync", "commit"} => scratch \in Inode /\ content[scratch] = request[w][2]
    /\ pc[w] = "commit" => synced[scratch]
    /\ pc[w] \in {"sync_existing", "cleanup", "sync"} /\ result[w] \in {"ok", "after"} =>
         Reading(request[w][1]) = request[w][2]

IInv ==
    /\ Types
    /\ \A w \in Writer : Locals(w)
    /\ \A w \in Writer : pc[w] \in Exclusive => lock = w
    /\ \A w \in Writer : Phase(w)
    /\ \A w \in Writer : Scratch(w)
    /\ NeverTorn

-----------------------------------------------------------------------------
(* The invariant is inductive. *)

\* Every thread belongs to a process.
LEMMA Processes == \A w \in Writer : ProcessOf(w) \in Process
  BY WriterAssumption, Zenon DEF ProcessOf

\* An empty directory and no process.
LEMMA InitHolds == Init => IInv
  <1> SUFFICES ASSUME Init PROVE IInv
    BY Zenon
  <1>1. Types
    BY Zenon DEF Init, Types, Pc
  <1>2. ASSUME NEW w \in Writer PROVE Locals(w) /\ Phase(w) /\ Scratch(w) /\ pc[w] \notin Exclusive
    <2>1. ~Reclaiming(w) /\ process[ProcessOf(w)] = "down"
      BY Processes, Zenon DEF Init, Reclaiming
    <2> QED BY <2>1, Zenon DEF Init, Locals, Phase, Scratch, Exclusive, Locked
  <1>3. NeverTorn
    BY Zenon DEF Init, NeverTorn
  <1> QED BY <1>1, <1>2, <1>3, Zenon DEF IInv

\* A step that leaves the processes and the requests alone, and moves only the
\* thread w, from one call to another.
Moves(w, next) ==
    /\ UNCHANGED <<process, request>>
    /\ Goto(w, next)
    /\ \A u \in Writer \ {w} : handle'[u] = handle[u] /\ result'[u] = result[u]

\* Such a step takes w to a call it has the locals and the guards for.
Fits(w, next) ==
    /\ Moves(w, next) /\ pc[w] # "idle" /\ next # "idle"
    /\ next \in {"write", "fsync"} <=> handle'[w] # NoInode
    /\ IF Reclaiming(w) THEN next \in {"mutex", "lock", "unlink", "sync", "return"} /\ result'[w] = "none"
       ELSE IF next \in {"cleanup", "sync", "return"} THEN result'[w] \in {"ok", "before", "after"}
       ELSE result'[w] = "ok"
    /\ next \in {"look", "sync_existing"} => request[w][1] \in CreateOnly
    /\ lock' = lock \/ (lock = NoWriter /\ lock' = w)
    /\ next \in Exclusive => lock' = w

\* It keeps the invariant if it keeps the files in order.
LEMMA MoveKeeps ==
  ASSUME IInv, NEW w \in Writer, NEW next \in Pc, Fits(w, next), Types', NeverTorn',
         \A u \in Writer : Scratch(u)'
  PROVE  IInv'
  <1> SUFFICES ASSUME NEW u \in Writer PROVE Locals(u)' /\ Phase(u)' /\ (pc'[u] \in Exclusive => lock' = u)
    BY Zenon DEF IInv
  <1>1. /\ \A x \in Writer : pc'[x] = IF x = w THEN next ELSE pc[x]
        /\ \A x \in Writer : Reclaiming(x)' <=> Reclaiming(x)
        /\ UNCHANGED <<process, request>>
    BY Zenon DEF Fits, Moves, Goto, Reclaiming, IInv, Types
  <1>2. Locals(u) /\ Phase(u) /\ Phase(w) /\ Locals(w)
    BY Zenon DEF IInv
  <1>3. Locals(u)'
    <2>1. CASE u = w
      BY <1>1, <1>2, <2>1, Zenon DEF Locals, Fits
    <2>2. CASE u # w
      BY <1>1, <1>2, <2>2, Zenon DEF Locals, Fits, Moves
    <2> QED BY <2>1, <2>2, Zenon
  <1>4. Phase(u)'
    <2>1. CASE u = w
      BY <1>1, <1>2, <2>1, Zenon DEF Phase, Fits
    <2>2. CASE u # w
      BY <1>1, <1>2, <2>2, Zenon DEF Phase, Fits, Moves
    <2> QED BY <2>1, <2>2, Zenon
  <1>5. pc'[u] \in Exclusive => lock' = u
    BY <1>1, WriterAssumption, Zenon DEF Fits, IInv
  <1> QED BY <1>3, <1>4, <1>5, Zenon

\* A thread at work that is not a reclaim has a request.
LEMMA HasRequest ==
  ASSUME IInv, NEW w \in Writer, pc[w] # "idle", ~Reclaiming(w)
  PROVE  request[w] \in Path \X Value /\ request[w][1] \in Path /\ request[w][2] \in Value
  <1>1. request[w] \in {<<>>} \union (Path \X Value) /\ request[w] # <<>>
    BY Zenon DEF IInv, Types, Locals
  <1>2. request[w] \in Path \X Value
    BY <1>1, Zenon
  <1> QED BY <1>2, Zenon

\* Only one thread makes the calls that need the lock file.
LEMMA OneHolder ==
  ASSUME IInv, NEW w \in Writer, NEW u \in Writer, pc[w] \in Exclusive, pc[u] \in Exclusive
  PROVE  u = w
  BY Zenon DEF IInv

\* A move that leaves file contents, the scratch name and the destinations
\* alone keeps the facts about the scratch file and the destinations, and only
\* entries the readers see, or saw before, get to the disk.
LEMMA QuietKeeps ==
  ASSUME IInv, UNCHANGED <<scratch, entry, content, synced, request>>,
         \A p \in Path : disk_entry'[p] \in {entry[p], disk_entry[p]},
         \A u \in Writer : \/ pc'[u] = pc[u] /\ handle'[u] = handle[u] /\ result'[u] = result[u]
                           \/ pc'[u] \notin {"sync_existing", "write", "fsync", "commit", "cleanup", "sync"}
                           \/ pc'[u] = "sync_existing" /\ Reading(request[u][1]) = request[u][2]
  PROVE  NeverTorn' /\ \A u \in Writer : Scratch(u)'
  <1>1. NeverTorn'
    BY DEF IInv, NeverTorn
  <1>2. ASSUME NEW u \in Writer PROVE Scratch(u)'
    <2>1. Reading(request[u][1])' = Reading(request[u][1])
      BY Zenon DEF Reading
    <2>2. Scratch(u)
      BY Zenon DEF IInv
    <2> QED BY <2>1, <2>2, Zenon DEF Scratch
  <1> QED BY <1>1, <1>2, Zenon

\* A step of the lock holder that keeps what create-only destinations hold
\* keeps the facts about the other threads.
LEMMA HolderKeeps ==
  ASSUME IInv, NEW w \in Writer, NEW next \in Pc, Fits(w, next), pc[w] \in Exclusive,
         \A p \in CreateOnly : Reading(p) # Absent => Reading(p)' = Reading(p)
  PROVE  \A u \in Writer \ {w} : Scratch(u)'
  <1> SUFFICES ASSUME NEW u \in Writer \ {w} PROVE Scratch(u)'
    BY Zenon
  <1>1. pc[u] \notin Exclusive
    BY OneHolder, Zenon
  <1>2. pc'[u] = pc[u] /\ result'[u] = result[u] /\ request' = request
    BY Zenon DEF Fits, Moves, Goto, IInv, Types
  <1>3. ASSUME pc[u] = "sync_existing", result[u] \in {"ok", "after"}
        PROVE  Reading(request[u][1])' = request[u][2]
    <2>1. ~Reclaiming(u) /\ request[u][1] \in CreateOnly
      BY <1>3, Zenon DEF IInv, Phase
    <2>2. request[u][2] \in Value /\ Reading(request[u][1]) = request[u][2]
      BY <1>3, <2>1, HasRequest, Zenon DEF IInv, Scratch
    <2>3. Reading(request[u][1]) # Absent
      BY <2>2, WriterAssumption, Zenon
    <2>4. Reading(request[u][1])' = Reading(request[u][1])
      BY <2>1, <2>3, <1>2, Zenon DEF Reading
    <2> QED BY <2>2, <2>4, Zenon
  <1> QED BY <1>1, <1>2, <1>3, Zenon DEF Scratch, Exclusive, Locked

\* A thread starts a write.
LEMMA BeginKeeps ==
  ASSUME IInv, NEW w \in Writer, NEW p \in Path, NEW v \in Value, Begin(w, p, v)
  PROVE  IInv'
  <1>1. /\ UNCHANGED <<directory, data, lock, process, mutex, handle>>
        /\ pc[w] = "idle" /\ ~Reclaiming(w)
        /\ \A u \in Writer : Reclaiming(u)' <=> Reclaiming(u)
        /\ \A u \in Writer : u # w => pc'[u] = pc[u] /\ request'[u] = request[u] /\ result'[u] = result[u]
        /\ pc'[w] = IF p \in CreateOnly THEN "look" ELSE "mutex"
        /\ request'[w] = <<p, v>> /\ result'[w] = "ok"
    BY Zenon DEF Begin, Goto, Reclaiming, IInv, Types
  <1>2. Types'
    <2>1. /\ pc' \in [Writer -> Pc] /\ request' \in [Writer -> {<<>>} \union (Path \X Value)]
          /\ result' \in [Writer -> {"none", "ok", "before", "after"}]
      BY Zenon DEF Begin, Goto, IInv, Types, Pc
    <2> QED BY <1>1, <2>1, Zenon DEF IInv, Types, directory, data
  <1>3. ASSUME NEW u \in Writer
        PROVE  Locals(u)' /\ Phase(u)' /\ Scratch(u)' /\ (pc'[u] \in Exclusive => lock' = u)
    <2>1. Locals(u) /\ Phase(u) /\ Scratch(u) /\ (pc[u] \in Exclusive => lock = u)
      BY Zenon DEF IInv
    <2>2. Locals(u)'
      BY <1>1, <2>1 DEF Locals
    <2>3. Phase(u)'
      <3>1. process[ProcessOf(w)] = "up"
        BY Zenon DEF Begin
      <3> QED BY <1>1, <2>1, <3>1 DEF Phase, Reclaiming
    <2>4. Scratch(u)' /\ (pc'[u] \in Exclusive => lock' = u)
      BY <1>1, <2>1, Zenon DEF Scratch, directory, data, Reading, Exclusive, Locked
    <2> QED BY <2>2, <2>3, <2>4, Zenon
  <1>4. NeverTorn'
    BY <1>1, Zenon DEF IInv, NeverTorn, directory, data
  <1> QED BY <1>2, <1>3, <1>4, Zenon DEF IInv

\* A process starts; its first thread reclaims the directory.
LEMMA StartKeeps ==
  ASSUME IInv, NEW w \in Writer, Start(w)
  PROVE  IInv'
  <1>0. ProcessOf(w) \in Process
    BY Processes, Zenon
  <1>1. /\ UNCHANGED <<directory, data, lock, mutex, request, handle, result>>
        /\ process[ProcessOf(w)] = "down" /\ process'[ProcessOf(w)] = "starting"
        /\ \A u \in Writer : ProcessOf(u) # ProcessOf(w) => process'[ProcessOf(u)] = process[ProcessOf(u)]
        /\ \A u \in Writer : ProcessOf(u) = ProcessOf(w) => pc[u] = "idle"
        /\ \A u \in Writer : pc'[u] = IF u = w THEN "mutex" ELSE pc[u]
    BY <1>0, Processes, Zenon DEF Start, Goto, IInv, Types, Phase
  <1>2. Types'
    <2>1. process' \in [Process -> {"down", "starting", "up"}] /\ pc' \in [Writer -> Pc]
      BY Zenon DEF Start, Goto, IInv, Types, Pc
    <2> QED BY <1>1, <2>1, Zenon DEF IInv, Types, directory, data
  <1>3. ASSUME NEW u \in Writer
        PROVE  Locals(u)' /\ Phase(u)' /\ Scratch(u)' /\ (pc'[u] \in Exclusive => lock' = u)
    <2>1. Locals(u) /\ Phase(u) /\ Scratch(u) /\ (pc[u] \in Exclusive => lock = u)
      BY Zenon DEF IInv
    <2>2. Locals(u)' /\ Phase(u)'
      <3>1. CASE ProcessOf(u) = ProcessOf(w)
        BY <1>1, <2>1, <3>1, Zenon DEF Locals, Phase, Reclaiming
      <3>2. CASE ProcessOf(u) # ProcessOf(w)
        BY <1>1, <2>1, <3>2, Zenon DEF Locals, Phase, Reclaiming
      <3> QED BY <3>1, <3>2, Zenon
    <2>4. Scratch(u)' /\ (pc'[u] \in Exclusive => lock' = u)
      BY <1>1, <2>1, Zenon DEF Scratch, directory, data, Reading, Exclusive, Locked
    <2> QED BY <2>2, <2>4, Zenon
  <1>4. NeverTorn'
    BY <1>1, Zenon DEF IInv, NeverTorn, directory, data
  <1> QED BY <1>2, <1>3, <1>4, Zenon DEF IInv

\* A process ends, by a crash or a failed reclaim, and leaves the files alone.
LEMMA GoneKeeps ==
  ASSUME IInv, NEW q \in Process, Gone(q), UNCHANGED <<directory, data>>
  PROVE  IInv'
  <1>1. /\ \A u \in Writer : ProcessOf(u) = q =>
             /\ pc'[u] = "idle" /\ request'[u] = <<>> /\ handle'[u] = NoInode /\ result'[u] = "none"
             /\ process'[ProcessOf(u)] = "down"
        /\ \A u \in Writer : ProcessOf(u) # q =>
             /\ pc'[u] = pc[u] /\ request'[u] = request[u] /\ handle'[u] = handle[u] /\ result'[u] = result[u]
             /\ process'[ProcessOf(u)] = process[ProcessOf(u)] /\ (lock = u => lock' = u)
    BY Processes, Zenon DEF Gone, Of, IInv, Types
  <1>2. Types'
    <2>1. /\ process' \in [Process -> {"down", "starting", "up"}]
          /\ mutex' \in [Process -> Writer \union {NoWriter}]
          /\ lock' \in Writer \union {NoWriter}
      BY Zenon DEF Gone, IInv, Types
    <2>2. /\ pc' \in [Writer -> Pc]
          /\ request' \in [Writer -> {<<>>} \union (Path \X Value)]
          /\ handle' \in [Writer -> Inode \union {NoInode}]
          /\ result' \in [Writer -> {"none", "ok", "before", "after"}]
      BY Zenon DEF Gone, IInv, Types, Pc
    <2> QED BY <2>1, <2>2, Zenon DEF IInv, Types, directory, data
  <1>3. ASSUME NEW u \in Writer
        PROVE  Locals(u)' /\ Phase(u)' /\ Scratch(u)' /\ (pc'[u] \in Exclusive => lock' = u)
    <2>1. Locals(u) /\ Phase(u) /\ Scratch(u) /\ (pc[u] \in Exclusive => lock = u)
      BY Zenon DEF IInv
    <2>2. CASE ProcessOf(u) = q
      BY <1>1, <2>2, Zenon DEF Locals, Phase, Scratch, Reclaiming, Exclusive, Locked
    <2>3. CASE ProcessOf(u) # q
      <3>1. Locals(u)'
        BY <1>1, <2>1, <2>3, Zenon DEF Locals, Reclaiming
      <3>2. Phase(u)'
        BY <1>1, <2>1, <2>3, Zenon DEF Phase, Reclaiming
      <3>3. Scratch(u)' /\ (pc'[u] \in Exclusive => lock' = u)
        BY <1>1, <2>1, <2>3 DEF Scratch, directory, data, Reading
      <3> QED BY <3>1, <3>2, <3>3, Zenon
    <2> QED BY <2>2, <2>3, Zenon
  <1>4. NeverTorn'
    BY Zenon DEF IInv, NeverTorn, directory, data
  <1> QED BY <1>2, <1>3, <1>4, Zenon DEF IInv

\* A power loss takes all processes and what was not synced; the destinations
\* on disk were.
LEMMA PowerLossKeeps ==
  ASSUME IInv, PowerLoss
  PROVE  IInv'
  <1>1. Types'
    BY Zenon DEF PowerLoss, IInv, Types, Pc
  <1>2. ASSUME NEW u \in Writer
        PROVE  Locals(u)' /\ Phase(u)' /\ Scratch(u)' /\ pc'[u] \notin Exclusive
    <2>1. pc'[u] = "idle" /\ request'[u] = <<>> /\ handle'[u] = NoInode /\ result'[u] = "none"
      BY Zenon DEF PowerLoss
    <2>2. process'[ProcessOf(u)] = "down" /\ ~Reclaiming(u)'
      BY Processes, Zenon DEF PowerLoss, Reclaiming
    <2> QED BY <2>1, <2>2, Zenon DEF Locals, Phase, Scratch, Exclusive, Locked
  <1>3. NeverTorn'
    <2> SUFFICES ASSUME NEW p \in Path, disk_entry[p] # NoInode
                 PROVE  content'[disk_entry[p]] # Torn /\ synced'[disk_entry[p]]
      BY Zenon DEF NeverTorn, PowerLoss
    <2>1. disk_entry[p] \in Inode /\ content[disk_entry[p]] # Torn /\ synced[disk_entry[p]]
      BY Zenon DEF IInv, NeverTorn, Types
    <2> QED BY <2>1, Zenon DEF PowerLoss
  <1> QED BY <1>1, <1>2, <1>3, Zenon DEF IInv

\* The look for an existing artifact, with no guard held.
LEMMA LookKeeps ==
  ASSUME IInv, NEW w \in Writer, Look(w)
  PROVE  IInv'
  <1>1. /\ pc[w] = "look" /\ ~Reclaiming(w) /\ result[w] = "ok" /\ handle[w] = NoInode
        /\ request[w][1] \in CreateOnly
    BY Zenon DEF Look, IInv, Phase, Locals
  <1>2. UNCHANGED <<directory, data, lock, process, mutex, request, handle>>
    BY Zenon DEF Look
  <1>3. PICK next \in {"mutex", "sync_existing", "return"} :
          /\ Goto(w, next)
          /\ next = "sync_existing" => Reading(request[w][1]) = request[w][2]
          /\ IF next = "return" THEN Result(w, "before") ELSE UNCHANGED result
    BY Zenon DEF Look
  <1>4. Types'
    <2>1. pc' \in [Writer -> Pc] /\ result' \in [Writer -> {"none", "ok", "before", "after"}]
      BY <1>3, Zenon DEF Goto, Result, IInv, Types, Pc
    <2> QED BY <1>2, <2>1, Zenon DEF IInv, Types, directory, data
  <1>5. Fits(w, next)
    BY <1>1, <1>2, <1>3, Zenon DEF Fits, Moves, Goto, Result, IInv, Types, Exclusive, Locked
  <1>6. NeverTorn' /\ \A u \in Writer : Scratch(u)'
    <2>1. \A u \in Writer : u # w => pc'[u] = pc[u] /\ handle'[u] = handle[u] /\ result'[u] = result[u]
      BY <1>2, <1>3, Zenon DEF Goto, Result, IInv, Types
    <2>2. pc'[w] = next
      BY <1>3, Zenon DEF Goto, IInv, Types
    <2> QED BY <1>2, <1>3, <2>1, <2>2, QuietKeeps, Zenon DEF directory, data
  <1> QED BY <1>4, <1>5, <1>6, MoveKeeps, Zenon DEF Pc

\* An equal artifact was found; the directory is synced.
LEMMA SyncExistingKeeps ==
  ASSUME IInv, NEW w \in Writer, SyncExisting(w)
  PROVE  IInv'
  <1>1. pc[w] = "sync_existing" /\ ~Reclaiming(w) /\ result[w] = "ok" /\ handle[w] = NoInode
    BY Zenon DEF SyncExisting, IInv, Phase, Locals
  <1>2. /\ UNCHANGED <<data, lock, process, mutex, request, handle, scratch, entry>>
        /\ Goto(w, "return") /\ (UNCHANGED result \/ Result(w, "after"))
        /\ disk_scratch' \in {scratch, disk_scratch} /\ disk_entry' \in {entry, disk_entry}
    BY Zenon DEF SyncExisting, sync_atomic_parent, directory
  <1>3. Types'
    <2>1. pc' \in [Writer -> Pc] /\ result' \in [Writer -> {"none", "ok", "before", "after"}]
      BY <1>2 DEF Goto, Result, IInv, Types, Pc
    <2> QED BY <1>2, <2>1, Zenon DEF IInv, Types, data
  <1>4. Fits(w, "return")
    BY <1>1, <1>2, Zenon DEF Fits, Moves, Goto, Result, IInv, Types, Exclusive, Locked
  <1>5. NeverTorn' /\ \A u \in Writer : Scratch(u)'
    <2>1. /\ \A u \in Writer : u # w => pc'[u] = pc[u] /\ handle'[u] = handle[u] /\ result'[u] = result[u]
          /\ pc'[w] = "return"
      BY <1>2, Zenon DEF Goto, Result, IInv, Types
    <2> QED BY <1>2, <2>1, QuietKeeps, Zenon DEF data
  <1> QED BY <1>3, <1>4, <1>5, MoveKeeps, Zenon DEF Pc

\* The process mutex is taken.
LEMMA TakeMutexKeeps ==
  ASSUME IInv, NEW w \in Writer, TakeMutex(w)
  PROVE  IInv'
  <1>1. pc[w] = "mutex" /\ handle[w] = NoInode /\ result[w] = (IF Reclaiming(w) THEN "none" ELSE "ok")
    BY Zenon DEF TakeMutex, IInv, Phase, Locals
  <1>2. UNCHANGED <<directory, data, lock, process, request, handle, result>> /\ Goto(w, "lock")
    BY Zenon DEF TakeMutex
  <1>3. Types'
    <2>1. pc' \in [Writer -> Pc] /\ mutex' \in [Process -> Writer \union {NoWriter}]
      BY <1>2, Zenon DEF TakeMutex, Goto, IInv, Types, Pc
    <2> QED BY <1>2, <2>1, Zenon DEF IInv, Types, directory, data
  <1>4. Fits(w, "lock")
    BY <1>1, <1>2, Zenon DEF Fits, Moves, Goto, IInv, Types, Exclusive, Locked
  <1>5. NeverTorn' /\ \A u \in Writer : Scratch(u)'
    <2>1. \A u \in Writer : pc'[u] = IF u = w THEN "lock" ELSE pc[u]
      BY <1>2, Zenon DEF Goto, IInv, Types
    <2> QED BY <1>2, <2>1, QuietKeeps, Zenon DEF directory, data
  <1> QED BY <1>3, <1>4, <1>5, MoveKeeps, Zenon DEF Pc

\* A write refused, or a reclaim that ends its process, before the scratch file
\* is touched.
LEMMA RefuseKeeps ==
  ASSUME IInv, NEW w \in Writer, pc[w] \in {"lock", "unlink"}, Refuse(w), UNCHANGED <<directory, data>>
  PROVE  IInv'
  <1>1. CASE Reclaiming(w)
    <2>1. Gone(ProcessOf(w)) /\ ProcessOf(w) \in Process
      BY <1>1, Processes, Zenon DEF Refuse
    <2> QED BY <2>1, GoneKeeps, Zenon
  <1>2. CASE ~Reclaiming(w)
    <2>1. handle[w] = NoInode /\ result[w] = "ok"
      BY <1>2, Zenon DEF IInv, Phase, Locals
    <2>2. UNCHANGED <<lock, process, mutex, request, handle>> /\ Goto(w, "return") /\ Result(w, "before")
      BY <1>2, Zenon DEF Refuse
    <2>3. Types'
      <3>1. pc' \in [Writer -> Pc] /\ result' \in [Writer -> {"none", "ok", "before", "after"}]
        BY <2>2, Zenon DEF Goto, Result, IInv, Types, Pc
      <3> QED BY <2>2, <3>1, Zenon DEF IInv, Types, directory, data
    <2>4. Fits(w, "return")
      BY <1>2, <2>1, <2>2, Zenon DEF Fits, Moves, Goto, Result, IInv, Types, Exclusive, Locked
    <2>5. NeverTorn' /\ \A u \in Writer : Scratch(u)'
      <3>1. /\ \A u \in Writer : u # w => pc'[u] = pc[u] /\ result'[u] = result[u]
            /\ pc'[w] = "return"
        BY <2>2, Zenon DEF Goto, Result, IInv, Types
      <3> QED BY <2>2, <3>1, QuietKeeps, Zenon DEF directory, data
    <2> QED BY <2>3, <2>4, <2>5, MoveKeeps, Zenon DEF Pc
  <1> QED BY <1>1, <1>2, Zenon

\* The lock file is locked, or is not.
LEMMA TakeLockKeeps ==
  ASSUME IInv, NEW w \in Writer, TakeLock(w)
  PROVE  IInv'
  <1>1. pc[w] = "lock" /\ handle[w] = NoInode /\ result[w] = (IF Reclaiming(w) THEN "none" ELSE "ok")
    BY Zenon DEF TakeLock, IInv, Phase, Locals
  <1>2. CASE Refuse(w)
    BY <1>1, <1>2, RefuseKeeps, Zenon DEF TakeLock
  <1>3. CASE /\ lock = NoWriter /\ lock' = w /\ Goto(w, "unlink")
             /\ UNCHANGED <<directory, data, process, mutex, request, handle, result>>
    <2>1. Types'
      <3>1. pc' \in [Writer -> Pc] /\ lock' \in Writer \union {NoWriter}
        BY <1>3, Zenon DEF Goto, IInv, Types, Pc
      <3> QED BY <1>3, <3>1, Zenon DEF IInv, Types, directory, data
    <2>2. Fits(w, "unlink")
      BY <1>1, <1>3, Zenon DEF Fits, Moves, Goto, IInv, Types, Exclusive, Locked
    <2>3. NeverTorn' /\ \A u \in Writer : Scratch(u)'
      <3>1. \A u \in Writer : pc'[u] = IF u = w THEN "unlink" ELSE pc[u]
        BY <1>3, Zenon DEF Goto, IInv, Types
      <3> QED BY <1>3, <3>1, QuietKeeps, Zenon DEF directory, data
    <2> QED BY <2>1, <2>2, <2>3, MoveKeeps, Zenon DEF Pc
  <1> QED BY <1>2, <1>3, Zenon DEF TakeLock

\* What a reader of any destination sees depends on its entry and content only.
LEMMA SameReading ==
  ASSUME UNCHANGED entry,
         \A p \in Path : entry[p] # NoInode => content'[entry[p]] = content[entry[p]]
  PROVE  \A p \in Path : Reading(p)' = Reading(p)
  BY Zenon DEF Reading

\* The old scratch file is unlinked, or is not.
LEMMA PreUnlinkKeeps ==
  ASSUME IInv, NEW w \in Writer, PreUnlink(w)
  PROVE  IInv'
  <1> DEFINE next == IF Reclaiming(w) THEN "sync" ELSE "open"
  <1>1. pc[w] = "unlink" /\ handle[w] = NoInode /\ result[w] = (IF Reclaiming(w) THEN "none" ELSE "ok")
    BY Zenon DEF PreUnlink, IInv, Phase, Locals
  <1>2. CASE Refuse(w) /\ UNCHANGED directory
    BY <1>1, <1>2, RefuseKeeps, Zenon DEF PreUnlink
  <1>3. CASE /\ scratch' = NoInode /\ Goto(w, next)
             /\ UNCHANGED <<entry, disk_scratch, disk_entry, data, lock, process, mutex, request,
                            handle, result>>
    <2>1. Types'
      <3>1. pc' \in [Writer -> Pc]
        BY <1>3, Zenon DEF Goto, IInv, Types, Pc
      <3> QED BY <1>3, <3>1, Zenon DEF IInv, Types, data
    <2>2. Fits(w, next)
      <3>1. lock = w
        BY <1>1, Zenon DEF IInv, Exclusive, Locked
      <3> QED BY <1>1, <1>3, <3>1, Zenon DEF Fits, Moves, IInv, Types
    <2>3. NeverTorn'
      BY <1>3, Zenon DEF IInv, NeverTorn, data
    <2>4. \A u \in Writer \ {w} : Scratch(u)'
      <3>1. \A p \in CreateOnly : Reading(p)' = Reading(p)
        BY <1>3, SameReading, WriterAssumption, Zenon DEF data
      <3> HIDE DEF next
      <3>2. next \in Pc
        BY Zenon DEF next, Pc
      <3> QED BY <1>1, <2>2, <3>1, <3>2, HolderKeeps, Zenon DEF Exclusive, Locked
    <2>5. Scratch(w)'
      <3>1. pc'[w] = next /\ result'[w] = result[w]
        BY <1>3, Zenon DEF Goto, IInv, Types
      <3> QED BY <1>1, <3>1, Zenon DEF Scratch
    <2>6. next \in Pc
      BY Zenon DEF Pc
    <2> HIDE DEF next
    <2> QED BY <2>1, <2>2, <2>3, <2>4, <2>5, <2>6, MoveKeeps, Zenon
  <1> QED BY <1>2, <1>3, Zenon DEF PreUnlink

\* A failure before the commit: the next call removes the scratch file.
LEMMA PreCommitFailureKeeps ==
  ASSUME IInv, NEW w \in Writer, pc[w] \in {"open", "write", "fsync", "commit"},
         Goto(w, "cleanup"), Result(w, "before"), UNCHANGED <<lock, process, mutex, request>>,
         handle' = [handle EXCEPT ![w] = NoInode], Types', NeverTorn',
         \A p \in CreateOnly : Reading(p) # Absent => Reading(p)' = Reading(p)
  PROVE  IInv'
  <1>1. ~Reclaiming(w) /\ result[w] = "ok" /\ lock = w
    BY Zenon DEF IInv, Phase, Exclusive, Locked
  <1>2. pc'[w] = "cleanup" /\ result'[w] = "before" /\ handle'[w] = NoInode
    BY <1>1, Zenon DEF Goto, Result, IInv, Types
  <1>3. Fits(w, "cleanup")
    BY <1>1, <1>2, Zenon DEF Fits, Moves, Goto, Result, IInv, Types
  <1>4. \A u \in Writer \ {w} : Scratch(u)'
    BY <1>3, HolderKeeps, Zenon DEF Exclusive, Locked, Pc
  <1>5. Scratch(w)'
    BY <1>2, Zenon DEF Scratch
  <1> QED BY <1>3, <1>4, <1>5, MoveKeeps, Zenon DEF Pc

\* The scratch file is created, or is not.
LEMMA OpenScratchKeeps ==
  ASSUME IInv, NEW w \in Writer, OpenScratch(w)
  PROVE  IInv'
  <1>1. pc[w] = "open" /\ handle[w] = NoInode /\ ~Reclaiming(w) /\ result[w] = "ok" /\ lock = w
    BY Zenon DEF OpenScratch, IInv, Phase, Locals, Exclusive, Locked
  <1>2. UNCHANGED <<entry, disk_scratch, disk_entry, lock, process, mutex, request>>
    BY Zenon DEF OpenScratch
  <1>3. handle = [handle EXCEPT ![w] = NoInode]
    BY <1>1, Zenon DEF IInv, Types
  <1>4. CASE PreCommitFailure(w) /\ UNCHANGED <<scratch, handle, data>>
    <2>1. Types'
      <3>1. pc' \in [Writer -> Pc] /\ result' \in [Writer -> {"none", "ok", "before", "after"}]
        BY <1>4, Zenon DEF PreCommitFailure, Goto, Result, IInv, Types, Pc
      <3> QED BY <1>2, <1>4, <3>1, Zenon DEF IInv, Types, data
    <2>2. NeverTorn'
      BY <1>2, <1>4, Zenon DEF IInv, NeverTorn, data
    <2>3. \A p \in CreateOnly : Reading(p)' = Reading(p)
      BY <1>2, <1>4, SameReading, WriterAssumption, Zenon DEF data
    <2> QED BY <1>1, <1>2, <1>3, <1>4, <2>1, <2>2, <2>3, PreCommitFailureKeeps, Zenon DEF PreCommitFailure
  <1>5. ASSUME NEW i \in Free, scratch' = i, content' = [content EXCEPT ![i] = Torn],
               synced' = [synced EXCEPT ![i] = FALSE],
               \/ handle' = [handle EXCEPT ![w] = i] /\ Goto(w, "write") /\ UNCHANGED result
               \/ PreCommitFailure(w) /\ UNCHANGED handle
        PROVE  IInv'
    <2>1. i \in Inode /\ \A p \in Path : entry[p] # i /\ disk_entry[p] # i
      BY Zenon DEF Free
    <2>2. Types'
      <3>1. /\ content' \in [Inode -> Value \union {Torn}] /\ synced' \in [Inode -> BOOLEAN]
            /\ scratch' \in Inode \union {NoInode} /\ handle' \in [Writer -> Inode \union {NoInode}]
        BY <1>5, <2>1, Zenon DEF IInv, Types
      <3>2. pc' \in [Writer -> Pc] /\ result' \in [Writer -> {"none", "ok", "before", "after"}]
        BY <1>5 DEF PreCommitFailure, Goto, Result, IInv, Types, Pc
      <3> QED BY <1>2, <3>1, <3>2, Zenon DEF IInv, Types
    <2>3. \A j \in Inode : j # i => content'[j] = content[j] /\ synced'[j] = synced[j]
      BY <1>5, Zenon DEF IInv, Types
    <2>4. \A p \in Path : entry[p] \in Inode \union {NoInode} /\ disk_entry[p] \in Inode \union {NoInode}
      BY Zenon DEF IInv, Types
    <2>5. NeverTorn'
      BY <1>2, <2>1, <2>3, <2>4 DEF IInv, NeverTorn
    <2>6. \A p \in CreateOnly : Reading(p)' = Reading(p)
      BY <1>2, <2>1, <2>3, <2>4, SameReading, WriterAssumption, Zenon
    <2>7. CASE PreCommitFailure(w) /\ UNCHANGED handle
      BY <1>1, <1>2, <1>3, <2>2, <2>5, <2>6, <2>7, PreCommitFailureKeeps, Zenon DEF PreCommitFailure
    <2>8. CASE handle' = [handle EXCEPT ![w] = i] /\ Goto(w, "write") /\ UNCHANGED result
      <3>1. pc'[w] = "write" /\ handle'[w] = i /\ result'[w] = "ok" /\ i # NoInode
        BY <1>1, <2>1, <2>8, WriterAssumption DEF Goto, IInv, Types
      <3>2. Fits(w, "write")
        BY <1>1, <1>2, <2>8, <3>1, Zenon DEF Fits, Moves, IInv, Types
      <3>3. \A u \in Writer \ {w} : Scratch(u)'
        BY <1>1, <2>6, <3>2, HolderKeeps, Zenon DEF Exclusive, Locked, Pc
      <3>4. Scratch(w)'
        BY <1>2, <1>5, <2>1, <3>1, Zenon DEF Scratch
      <3> QED BY <2>2, <2>5, <3>2, <3>3, <3>4, MoveKeeps, Zenon DEF Pc
    <2> QED BY <1>5, <2>7, <2>8, Zenon
  <1> QED BY <1>4, <1>5, Zenon DEF OpenScratch

\* The bytes are written to the scratch file, which no name of a destination
\* refers to.
LEMMA WriteDataKeeps ==
  ASSUME IInv, NEW w \in Writer, WriteData(w)
  PROVE  IInv'
  <1>1. pc[w] = "write" /\ ~Reclaiming(w) /\ result[w] = "ok" /\ lock = w
    BY Zenon DEF WriteData, IInv, Phase, Exclusive, Locked
  <1>2. /\ handle[w] \in Inode /\ handle[w] = scratch
        /\ \A p \in Path : entry[p] # handle[w] /\ disk_entry[p] # handle[w]
    BY <1>1, Zenon DEF IInv, Locals, Scratch, Types
  <1>3. UNCHANGED <<directory, synced, lock, process, mutex, request>>
    BY Zenon DEF WriteData
  <1>4. CASE PreCommitFailure(w) /\ handle' = [handle EXCEPT ![w] = NoInode] /\ UNCHANGED content
    <2>1. Types'
      <3>1. /\ pc' \in [Writer -> Pc] /\ result' \in [Writer -> {"none", "ok", "before", "after"}]
            /\ handle' \in [Writer -> Inode \union {NoInode}]
        BY <1>4, Zenon DEF PreCommitFailure, Goto, Result, IInv, Types, Pc
      <3> QED BY <1>3, <1>4, <3>1, Zenon DEF IInv, Types, directory
    <2>2. NeverTorn'
      BY <1>3, <1>4, Zenon DEF IInv, NeverTorn, directory
    <2>3. \A p \in CreateOnly : Reading(p)' = Reading(p)
      BY <1>3, <1>4, SameReading, WriterAssumption, Zenon DEF directory
    <2> QED BY <1>1, <1>3, <1>4, <2>1, <2>2, <2>3, PreCommitFailureKeeps, Zenon DEF PreCommitFailure
  <1>5. CASE /\ content' = [content EXCEPT ![handle[w]] = request[w][2]]
             /\ Goto(w, "fsync") /\ UNCHANGED <<handle, result>>
    <2>1. request[w][2] \in Value
      BY <1>1, HasRequest, Zenon
    <2>2. Types'
      <3>1. content' \in [Inode -> Value \union {Torn}] /\ pc' \in [Writer -> Pc]
        BY <1>2, <1>5, <2>1, Zenon DEF Goto, IInv, Types, Pc
      <3> QED BY <1>3, <1>5, <3>1, Zenon DEF IInv, Types, directory
    <2>3. /\ \A j \in Inode : j # handle[w] => content'[j] = content[j]
          /\ content'[handle[w]] = request[w][2]
          /\ pc'[w] = "fsync"
      BY <1>2, <1>5, Zenon DEF Goto, IInv, Types
    <2>4. \A p \in Path : entry[p] \in Inode \union {NoInode} /\ disk_entry[p] \in Inode \union {NoInode}
      BY Zenon DEF IInv, Types
    <2>5. NeverTorn'
      BY <1>2, <1>3, <2>3, <2>4 DEF IInv, NeverTorn, directory
    <2>6. \A p \in CreateOnly : Reading(p)' = Reading(p)
      BY <1>2, <1>3, <2>3, <2>4, SameReading, WriterAssumption, Zenon DEF directory
    <2>7. Fits(w, "fsync")
      <3>1. handle[w] # NoInode
        BY <1>2, WriterAssumption, Zenon
      <3> QED BY <1>1, <1>3, <1>5, <3>1, Zenon DEF Fits, Moves
    <2>8. \A u \in Writer \ {w} : Scratch(u)'
      BY <1>1, <2>6, <2>7, HolderKeeps, Zenon DEF Exclusive, Locked, Pc
    <2>9. Scratch(w)'
      BY <1>2, <1>3, <1>5, <2>3, Zenon DEF Scratch, directory
    <2> QED BY <2>2, <2>5, <2>7, <2>8, <2>9, MoveKeeps, Zenon DEF Pc
  <1> QED BY <1>4, <1>5, Zenon DEF WriteData

\* The bytes are on disk and the file is closed, or the sync failed.
LEMMA FileSyncKeeps ==
  ASSUME IInv, NEW w \in Writer, FileSync(w)
  PROVE  IInv'
  <1>1. pc[w] = "fsync" /\ ~Reclaiming(w) /\ result[w] = "ok" /\ lock = w
    BY Zenon DEF FileSync, IInv, Phase, Exclusive, Locked
  <1>2. handle[w] \in Inode /\ handle[w] = scratch /\ content[scratch] = request[w][2]
    BY <1>1, Zenon DEF IInv, Locals, Scratch, Types
  <1>3. /\ UNCHANGED <<directory, content, lock, process, mutex, request>>
        /\ handle' = [handle EXCEPT ![w] = NoInode]
    BY Zenon DEF FileSync
  <1>4. \A p \in CreateOnly : Reading(p)' = Reading(p)
    BY <1>3, SameReading, WriterAssumption, Zenon DEF directory
  <1>5. handle' \in [Writer -> Inode \union {NoInode}] /\ handle'[w] = NoInode
    BY <1>3, Zenon DEF IInv, Types
  <1>6. CASE PreCommitFailure(w) /\ UNCHANGED synced
    <2>1. Types'
      <3>1. pc' \in [Writer -> Pc] /\ result' \in [Writer -> {"none", "ok", "before", "after"}]
        BY <1>6, Zenon DEF PreCommitFailure, Goto, Result, IInv, Types, Pc
      <3> QED BY <1>3, <1>5, <1>6, <3>1, Zenon DEF IInv, Types, directory
    <2>2. NeverTorn'
      BY <1>3, <1>6, Zenon DEF IInv, NeverTorn, directory
    <2> QED BY <1>1, <1>3, <1>4, <1>6, <2>1, <2>2, PreCommitFailureKeeps, Zenon DEF PreCommitFailure
  <1>7. CASE synced' = [synced EXCEPT ![handle[w]] = TRUE] /\ Goto(w, "commit") /\ UNCHANGED result
    <2>1. Types'
      <3>1. synced' \in [Inode -> BOOLEAN] /\ pc' \in [Writer -> Pc]
        BY <1>7, Zenon DEF Goto, IInv, Types, Pc
      <3> QED BY <1>3, <1>5, <1>7, <3>1, Zenon DEF IInv, Types, directory
    <2>2. \A j \in Inode : synced[j] => synced'[j]
      BY <1>7, Zenon DEF IInv, Types
    <2>3. synced'[scratch] /\ pc'[w] = "commit"
      BY <1>2, <1>7, Zenon DEF Goto, IInv, Types
    <2>4. NeverTorn'
      <3>1. \A p \in Path : entry[p] \in Inode \union {NoInode} /\ disk_entry[p] \in Inode \union {NoInode}
        BY Zenon DEF IInv, Types
      <3> QED BY <1>3, <2>2, <3>1, Zenon DEF IInv, NeverTorn, directory
    <2>5. Fits(w, "commit")
      <3>1. \A u \in Writer \ {w} : handle'[u] = handle[u]
        BY <1>3, Zenon DEF IInv, Types
      <3> QED BY <1>1, <1>3, <1>5, <1>7, <3>1, Zenon DEF Fits, Moves
    <2>6. \A u \in Writer \ {w} : Scratch(u)'
      BY <1>1, <1>4, <2>5, HolderKeeps, Zenon DEF Exclusive, Locked, Pc
    <2>7. Scratch(w)'
      BY <1>2, <1>3, <2>3, Zenon DEF Scratch, directory
    <2> QED BY <2>1, <2>4, <2>5, <2>6, <2>7, MoveKeeps, Zenon DEF Pc
  <1> QED BY <1>6, <1>7, Zenon DEF FileSync

\* The entry of the destination changes to the synced scratch file, is equal
\* already, or stays.
LEMMA CommitNameKeeps ==
  ASSUME IInv, NEW w \in Writer, CommitName(w)
  PROVE  IInv'
  <1> DEFINE p == request[w][1]
             v == request[w][2]
  <1>1. pc[w] = "commit" /\ ~Reclaiming(w) /\ result[w] = "ok" /\ lock = w /\ handle[w] = NoInode
    BY Zenon DEF CommitName, IInv, Phase, Locals, Exclusive, Locked
  <1>2. scratch \in Inode /\ content[scratch] = v /\ synced[scratch] /\ scratch # NoInode
    BY <1>1, WriterAssumption, Zenon DEF IInv, Scratch
  <1>3. p \in Path /\ v \in Value
    BY <1>1, HasRequest, Zenon
  <1>4. UNCHANGED <<data, lock, process, mutex, request, handle>>
    BY Zenon DEF CommitName
  <1>5. CASE PreCommitFailure(w) /\ UNCHANGED directory
    <2>1. Types'
      <3>1. pc' \in [Writer -> Pc] /\ result' \in [Writer -> {"none", "ok", "before", "after"}]
        BY <1>5, Zenon DEF PreCommitFailure, Goto, Result, IInv, Types, Pc
      <3> QED BY <1>4, <1>5, <3>1, Zenon DEF IInv, Types, directory, data
    <2>2. NeverTorn'
      BY <1>4, <1>5, Zenon DEF IInv, NeverTorn, directory, data
    <2>3. \A x \in CreateOnly : Reading(x)' = Reading(x)
      BY <1>4, <1>5, SameReading, WriterAssumption, Zenon DEF directory, data
    <2>4. handle = [handle EXCEPT ![w] = NoInode]
      BY <1>1, Zenon DEF IInv, Types
    <2> QED BY <1>1, <1>4, <1>5, <2>1, <2>2, <2>3, <2>4, PreCommitFailureKeeps, Zenon DEF PreCommitFailure
  <1>6. ASSUME entry' = [entry EXCEPT ![p] = scratch] \/ (Reading(p) = v /\ UNCHANGED entry),
               scratch' \in {scratch, NoInode}, UNCHANGED <<disk_scratch, disk_entry, result>>,
               Goto(w, "cleanup"), p \in CreateOnly => entry[p] = NoInode \/ UNCHANGED entry
        PROVE  IInv'
    <2>1. Types'
      <3>1. /\ entry' \in [Path -> Inode \union {NoInode}] /\ scratch' \in Inode \union {NoInode}
            /\ pc' \in [Writer -> Pc]
        BY <1>2, <1>6, Zenon DEF Goto, IInv, Types, Pc
      <3> QED BY <1>4, <1>6, <3>1, Zenon DEF IInv, Types, data
    <2>2. /\ \A x \in Path : entry'[x] = entry[x] \/ entry'[x] = scratch
          /\ \A x \in Path : x # p => entry'[x] = entry[x]
          /\ pc'[w] = "cleanup" /\ result'[w] = "ok"
      BY <1>1, <1>6, Zenon DEF Goto, IInv, Types
    <2>3. NeverTorn'
      <3>1. content[scratch] # Torn
        BY <1>2, <1>3, WriterAssumption, Zenon
      <3> QED BY <1>2, <1>4, <1>6, <2>2, <3>1 DEF IInv, NeverTorn, data
    <2>4. Reading(p)' = v
      <3>1. CASE UNCHANGED entry /\ Reading(p) = v
        BY <1>4, <3>1, Zenon DEF Reading, data
      <3>2. CASE entry' = [entry EXCEPT ![p] = scratch]
        <4>1. entry'[p] = scratch
          BY <1>3, <3>2, Zenon DEF IInv, Types
        <4> QED BY <1>2, <1>4, <4>1, Zenon DEF Reading, data
      <3> QED BY <1>6, <3>1, <3>2, Zenon
    <2>5. \A x \in CreateOnly : Reading(x) # Absent => Reading(x)' = Reading(x)
      <3> SUFFICES ASSUME NEW x \in CreateOnly, Reading(x) # Absent PROVE Reading(x)' = Reading(x)
        BY Zenon
      <3>1. x \in Path
        BY WriterAssumption, Zenon
      <3>2. entry'[x] = entry[x]
        BY <1>6, <2>2, <3>1, Zenon DEF Reading
      <3> QED BY <1>4, <3>2, Zenon DEF Reading, data
    <2>6. Fits(w, "cleanup")
      BY <1>1, <1>4, <1>6, Zenon DEF Fits, Moves
    <2>7. \A u \in Writer \ {w} : Scratch(u)'
      BY <1>1, <2>5, <2>6, HolderKeeps, Zenon DEF Exclusive, Locked, Pc
    <2>8. Scratch(w)'
      BY <1>4, <2>2, <2>4, Zenon DEF Scratch, Reading
    <2> QED BY <2>1, <2>3, <2>6, <2>7, <2>8, MoveKeeps, Zenon DEF Pc
  <1>7. CASE Rename(w, p)
    BY <1>6, <1>7, Zenon DEF Rename
  <1>8. CASE HardLink(w, p, v)
    BY <1>6, <1>8, Zenon DEF HardLink
  <1> QED BY <1>5, <1>7, <1>8, Zenon DEF CommitName

\* The scratch name is removed, or is not.
LEMMA CleanupKeeps ==
  ASSUME IInv, NEW w \in Writer, Cleanup(w)
  PROVE  IInv'
  <1>1. /\ pc[w] = "cleanup" /\ ~Reclaiming(w) /\ result[w] \in {"ok", "before", "after"} /\ lock = w
        /\ handle[w] = NoInode
    BY Zenon DEF Cleanup, IInv, Phase, Locals, Exclusive, Locked
  <1>2. /\ UNCHANGED <<entry, disk_scratch, disk_entry, data, lock, process, mutex, request, handle>>
        /\ scratch' \in {scratch, NoInode} /\ (UNCHANGED result \/ Result(w, "after")) /\ Goto(w, "sync")
    BY Zenon DEF Cleanup
  <1>3. Types'
    <2>1. pc' \in [Writer -> Pc] /\ result' \in [Writer -> {"none", "ok", "before", "after"}]
      BY <1>2 DEF Goto, Result, IInv, Types, Pc
    <2> QED BY <1>2, <2>1, Zenon DEF IInv, Types, data
  <1>4. /\ pc'[w] = "sync" /\ result'[w] \in {"ok", "before", "after"}
        /\ result'[w] \in {"ok", "after"} => result[w] \in {"ok", "after"}
    BY <1>1, <1>2, Zenon DEF Goto, Result, IInv, Types
  <1>5. \A p \in Path : Reading(p)' = Reading(p)
    BY <1>2, SameReading, Zenon DEF data
  <1>6. NeverTorn'
    BY <1>2, Zenon DEF IInv, NeverTorn, data
  <1>7. Fits(w, "sync")
    <2>1. \A u \in Writer \ {w} : result'[u] = result[u]
      BY <1>2, Zenon DEF Result, IInv, Types
    <2> QED BY <1>1, <1>2, <1>4, <2>1, Zenon DEF Fits, Moves
  <1>8. \A u \in Writer \ {w} : Scratch(u)'
    BY <1>1, <1>5, <1>7, HolderKeeps, WriterAssumption, Zenon DEF Exclusive, Locked, Pc
  <1>9. Scratch(w)'
    <2>1. Scratch(w)
      BY Zenon DEF IInv
    <2>2. Reading(request[w][1])' = Reading(request[w][1])
      BY <1>2, Zenon DEF Reading, data
    <2> QED BY <1>1, <1>2, <1>4, <2>1, <2>2, Zenon DEF Scratch
  <1> QED BY <1>3, <1>6, <1>7, <1>8, <1>9, MoveKeeps, Zenon DEF Pc

\* The directory is synced, or is not; a failed reclaim ends its process.
LEMMA SyncParentKeeps ==
  ASSUME IInv, NEW w \in Writer, SyncParent(w)
  PROVE  IInv'
  <1>1. /\ pc[w] = "sync" /\ handle[w] = NoInode
        /\ IF Reclaiming(w) THEN result[w] = "none" ELSE result[w] \in {"ok", "before", "after"}
    BY Zenon DEF SyncParent, IInv, Phase, Locals
  <1>2. CASE Reclaiming(w) /\ Gone(ProcessOf(w)) /\ UNCHANGED directory
    BY <1>2, Processes, GoneKeeps, Zenon DEF SyncParent
  <1>3. CASE /\ UNCHANGED <<data, lock, process, mutex, request, handle, scratch, entry>>
             /\ disk_scratch' \in {scratch, disk_scratch} /\ disk_entry' \in {entry, disk_entry}
             /\ Goto(w, "return") /\ (UNCHANGED result \/ (~Reclaiming(w) /\ Result(w, "after")))
    <2>1. Types'
      <3>1. pc' \in [Writer -> Pc] /\ result' \in [Writer -> {"none", "ok", "before", "after"}]
        BY <1>3 DEF Goto, Result, IInv, Types, Pc
      <3> QED BY <1>3, <3>1, Zenon DEF IInv, Types, data
    <2>2. Fits(w, "return")
      BY <1>1, <1>3, Zenon DEF Fits, Moves, Goto, Result, IInv, Types, Exclusive, Locked
    <2>3. NeverTorn' /\ \A u \in Writer : Scratch(u)'
      <3>1. /\ \A u \in Writer : u # w => pc'[u] = pc[u] /\ result'[u] = result[u]
            /\ pc'[w] = "return"
        BY <1>3, Zenon DEF Goto, Result, IInv, Types
      <3> QED BY <1>3, <3>1, QuietKeeps, Zenon DEF data
    <2> QED BY <2>1, <2>2, <2>3, MoveKeeps, Zenon DEF Pc
  <1> QED BY <1>2, <1>3, Zenon DEF SyncParent, sync_atomic_parent, directory

\* The guards are dropped; the end of a reclaim starts the node.
LEMMA ReturnResultKeeps ==
  ASSUME IInv, NEW w \in Writer, ReturnResult(w)
  PROVE  IInv'
  <1>1. /\ UNCHANGED <<directory, data, handle>>
        /\ pc[w] = "return" /\ pc'[w] = "idle" /\ request'[w] = <<>> /\ result'[w] = "none"
        /\ \A u \in Writer : u # w => pc'[u] = pc[u] /\ request'[u] = request[u] /\ result'[u] = result[u]
        /\ \A u \in Writer : u # w /\ lock = u => lock' = u
    BY Zenon DEF ReturnResult, Goto, IInv, Types
  <1>2. ProcessOf(w) \in Process
    BY Processes, Zenon
  <1>3. \A u \in Writer : process'[ProcessOf(u)] = IF ProcessOf(u) = ProcessOf(w) THEN "up"
                                                   ELSE process[ProcessOf(u)]
    BY Processes, Zenon DEF ReturnResult, IInv, Types
  <1>4. Types'
    <2>1. /\ process' \in [Process -> {"down", "starting", "up"}]
          /\ mutex' \in [Process -> Writer \union {NoWriter}]
          /\ lock' \in Writer \union {NoWriter}
      BY <1>2, Zenon DEF ReturnResult, IInv, Types
    <2>2. /\ pc' \in [Writer -> Pc]
          /\ request' \in [Writer -> {<<>>} \union (Path \X Value)]
          /\ result' \in [Writer -> {"none", "ok", "before", "after"}]
      BY Zenon DEF ReturnResult, Goto, IInv, Types, Pc
    <2> QED BY <1>1, <2>1, <2>2, Zenon DEF IInv, Types, directory, data
  <1>5. ASSUME NEW u \in Writer
        PROVE  Locals(u)' /\ Phase(u)' /\ Scratch(u)' /\ (pc'[u] \in Exclusive => lock' = u)
    <2>1. Locals(u) /\ Phase(u) /\ Scratch(u) /\ (pc[u] \in Exclusive => lock = u) /\ Phase(w) /\ Locals(w)
      BY Zenon DEF IInv
    <2>2. CASE u = w
      BY <1>1, <1>3, <2>1, <2>2, Zenon DEF Locals, Phase, Scratch, Reclaiming, Exclusive, Locked
    <2>3. CASE u # w
      <3>1. CASE ProcessOf(u) # ProcessOf(w)
        <4>1. Locals(u)'
          BY <1>1, <1>3, <2>1, <2>3, <3>1, Zenon DEF Locals, Reclaiming
        <4>2. Phase(u)'
          BY <1>1, <1>3, <2>1, <2>3, <3>1, Zenon DEF Phase, Reclaiming
        <4> QED BY <1>1, <2>1, <2>3, <4>1, <4>2, Zenon DEF Scratch, Reading, directory, data
      <3>2. CASE ProcessOf(u) = ProcessOf(w)
        <4>1. Reclaiming(u) => pc[u] = "idle"
          BY <1>1, <2>1, <2>3, <3>2, Zenon DEF Phase, Reclaiming
        <4>2. ~Reclaiming(u)' /\ process'[ProcessOf(u)] = "up"
          BY <1>3, <3>2, Zenon DEF Reclaiming
        <4>3. Locals(u)'
          BY <1>1, <2>1, <2>3, <4>1, <4>2, Zenon DEF Locals
        <4>4. Phase(u)'
          BY <1>1, <2>1, <2>3, <4>1, <4>2, Zenon DEF Phase
        <4> QED BY <1>1, <2>1, <2>3, <4>3, <4>4, Zenon DEF Scratch, Reading, directory, data
      <3> QED BY <3>1, <3>2, Zenon
    <2> QED BY <2>2, <2>3, Zenon
  <1>6. NeverTorn'
    BY <1>1, Zenon DEF IInv, NeverTorn, directory, data
  <1> QED BY <1>4, <1>5, <1>6, Zenon DEF IInv

\* The kernel writes an entry to disk on its own.
LEMMA WriteBackKeeps ==
  ASSUME IInv, WriteBack
  PROVE  IInv'
  <1>1. UNCHANGED <<scratch, entry, data, lock, process, mutex, pc, request, handle, result>>
    BY Zenon DEF WriteBack
  <1>2. \A p \in Path : disk_entry'[p] \in {entry[p], disk_entry[p]}
    BY Zenon DEF WriteBack, IInv, Types
  <1>3. Types'
    <2>1. disk_entry' \in [Path -> Inode \union {NoInode}] /\ disk_scratch' \in Inode \union {NoInode}
      BY DEF WriteBack, IInv, Types
    <2> QED BY <1>1, <2>1, Zenon DEF IInv, Types, data
  <1>4. NeverTorn' /\ \A u \in Writer : Scratch(u)'
    BY <1>1, <1>2, QuietKeeps, Zenon DEF data
  <1>5. \A u \in Writer : Locals(u)' /\ Phase(u)' /\ (pc'[u] \in Exclusive => lock' = u)
    BY <1>1, Zenon DEF IInv, Locals, Phase, Reclaiming
  <1> QED BY <1>3, <1>4, <1>5, Zenon DEF IInv

\* Every step keeps the invariant.
LEMMA StepKeeps == IInv /\ [Next]_vars => IInv'
  <1> SUFFICES ASSUME IInv, [Next]_vars PROVE IInv'
    BY Zenon
  <1>1. ASSUME NEW w \in Writer, Step(w) PROVE IInv'
    BY <1>1, LookKeeps, SyncExistingKeeps, TakeMutexKeeps, TakeLockKeeps, PreUnlinkKeeps, OpenScratchKeeps,
       WriteDataKeeps, FileSyncKeeps, CommitNameKeeps, CleanupKeeps, SyncParentKeeps, ReturnResultKeeps, Zenon
       DEF Step
  <1>2. ASSUME NEW q \in Process, Crash(q) PROVE IInv'
    BY <1>2, GoneKeeps, Zenon DEF Crash
  <1>3. CASE UNCHANGED vars
    <2>1. UNCHANGED <<scratch, entry, disk_scratch, disk_entry, content, synced, lock, process, mutex, pc,
                      request, handle, result>>
      BY <1>3, Zenon DEF vars, directory, data
    <2>2. Types'
      BY <2>1, Zenon DEF IInv, Types
    <2>3. NeverTorn' /\ \A u \in Writer : Scratch(u)'
      BY <2>1, QuietKeeps, Zenon
    <2>4. \A u \in Writer : Locals(u)' /\ Phase(u)' /\ (pc'[u] \in Exclusive => lock' = u)
      BY <2>1, Zenon DEF IInv, Locals, Phase, Reclaiming
    <2> QED BY <2>2, <2>3, <2>4, Zenon DEF IInv
  <1> QED BY <1>1, <1>2, <1>3, StartKeeps, BeginKeeps, WriteBackKeeps, PowerLossKeeps, Zenon DEF Next

-----------------------------------------------------------------------------
(* The refinement. *)

\* The state of AtomicFile.
File == Contents(entry)
Durable == Contents(disk_entry)
Commits == [w \in Writer |-> Committed(w)]
Results == [w \in Writer |-> IF pc[w] = "return" THEN result[w] ELSE "none"]

\* The write of thread w is over in the state after the step.
CommittedNext(w) ==
    pc'[w] \in {"sync_existing", "cleanup", "sync", "return"} /\ result'[w] \in {"ok", "after"}

\* What readers see changes only with the entries and the contents they name.
LEMMA FileSame ==
  ASSUME UNCHANGED entry,
         \A p \in Path : entry[p] # NoInode => content'[entry[p]] = content[entry[p]]
  PROVE  File' = File
  BY Zenon DEF File, Contents

\* So does what a power loss leaves.
LEMMA DurableSame ==
  ASSUME UNCHANGED disk_entry,
         \A p \in Path : disk_entry[p] # NoInode => content'[disk_entry[p]] = content[disk_entry[p]]
  PROVE  Durable' = Durable
  BY Zenon DEF Durable, Contents

\* A step that AtomicFile does not see.
LEMMA Stutters ==
  ASSUME NEW w \in Writer, \A u \in Writer \ {w} : pc'[u] = pc[u] /\ result'[u] = result[u],
         File' = File, Durable' = Durable, UNCHANGED request,
         CommittedNext(w) = Committed(w),
         (IF pc'[w] = "return" THEN result'[w] ELSE "none") = (IF pc[w] = "return" THEN result[w] ELSE "none")
  PROVE  UNCHANGED Abstract!vars
  <1>1. Commits' = Commits
    BY Zenon DEF Commits, Committed, CommittedNext
  <1>2. Results' = Results
    BY Zenon DEF Results
  <1> QED BY <1>1, <1>2, Zenon DEF Abstract!vars, File, Durable, Commits, Results

\* A write begins.
LEMMA BeginRefines ==
  ASSUME IInv, NEW w \in Writer, NEW p \in Path, NEW v \in Value, Begin(w, p, v)
  PROVE  Abstract!Begin(w, p, v)
  <1>1. /\ pc[w] = "idle" /\ request[w] = <<>> /\ UNCHANGED <<directory, data>>
        /\ request' = [request EXCEPT ![w] = <<p, v>>]
    BY Zenon DEF Begin, IInv, Locals
  <1>2. /\ \A u \in Writer : u # w => pc'[u] = pc[u] /\ result'[u] = result[u]
        /\ pc'[w] \in {"look", "mutex"}
    BY Zenon DEF Begin, Goto, IInv, Types
  <1>3. File' = File /\ Durable' = Durable
    BY <1>1, FileSame, DurableSame, Zenon DEF directory, data
  <1>4. Commits' = Commits
    BY <1>1, <1>2, Zenon DEF Commits, Committed
  <1>5. Results' = Results
    BY <1>1, <1>2, Zenon DEF Results
  <1> QED BY <1>1, <1>3, <1>4, <1>5, Zenon DEF Abstract!Begin, File, Durable, Commits, Results

\* A write becomes visible, or is found in place.
LEMMA CommitRefines ==
  ASSUME IInv, NEW w \in Writer, pc[w] # "idle", ~Reclaiming(w),
         \A u \in Writer \ {w} : pc'[u] = pc[u] /\ result'[u] = result[u],
         pc[w] # "return", pc'[w] # "return", ~Committed(w), CommittedNext(w),
         UNCHANGED request, Durable' = Durable,
         File' = [File EXCEPT ![request[w][1]] = request[w][2]],
         request[w][1] \in CreateOnly => File[request[w][1]] \in {Absent, request[w][2]}
  PROVE  Abstract!Next
  <1>1. PICK p \in Path, v \in Value : request[w] = <<p, v>>
    BY HasRequest
  <1>2. Commits' = [Commits EXCEPT ![w] = TRUE] /\ Results' = Results /\ ~Commits[w] /\ Results[w] = "none"
    <2>1. Commits' = [Commits EXCEPT ![w] = TRUE] /\ ~Commits[w]
      BY Zenon DEF Commits, Committed, CommittedNext
    <2>2. Results' = Results /\ Results[w] = "none"
      BY Zenon DEF Results
    <2> QED BY <2>1, <2>2, Zenon
  <1>3. Abstract!Commit(w, p, v)
    BY <1>1, <1>2 DEF Abstract!Commit, File, Durable, Commits, Results
  <1> QED BY <1>3, Zenon DEF Abstract!Next

\* The result of a write is known: it says whether the write is visible, and
\* "ok" that it is durable.
LEMMA FinishRefines ==
  ASSUME IInv, NEW w \in Writer, pc[w] # "idle", ~Reclaiming(w),
         \A u \in Writer \ {w} : pc'[u] = pc[u] /\ result'[u] = result[u],
         pc[w] # "return", pc'[w] = "return", result'[w] \in {"ok", "before", "after"},
         result'[w] = "before" <=> ~Committed(w),
         UNCHANGED request, File' = File, Durable' \in {Durable, File},
         result'[w] = "ok" => File[request[w][1]] = request[w][2] /\ Durable' = File
  PROVE  Abstract!Next
  <1>0. PICK r \in {"ok", "before", "after"} : result'[w] = r
    BY Zenon
  <1>1. PICK p \in Path, v \in Value : request[w] = <<p, v>>
    BY HasRequest
  <1>2. /\ Commits' = Commits /\ Results' = [Results EXCEPT ![w] = r] /\ Results[w] = "none"
        /\ r = "before" <=> ~Commits[w]
    <2>1. Commits' = Commits /\ (r = "before" <=> ~Commits[w])
      BY <1>0, Zenon DEF Commits, Committed
    <2>2. Results' = [Results EXCEPT ![w] = r] /\ Results[w] = "none"
      BY <1>0, Zenon DEF Results
    <2> QED BY <2>1, <2>2, Zenon
  <1>3. Abstract!Flush
    <2>1. Durable = [x \in Path |-> Durable[x]] /\ File = [x \in Path |-> File[x]]
      BY Zenon DEF Durable, File, Contents
    <2>2. CASE Durable' = Durable
      <3>1. Durable' = [x \in Path |-> IF x \in {} THEN File[x] ELSE Durable[x]]
        BY <2>1, <2>2, Zenon
      <3>2. {} \in SUBSET Path
        BY Zenon
      <3> QED BY <3>1, <3>2, Zenon DEF Abstract!Flush, Durable, File
    <2>3. CASE Durable' = File
      <3>1. Durable' = [x \in Path |-> IF x \in Path THEN File[x] ELSE Durable[x]]
        BY <2>1, <2>3, Zenon
      <3>2. Path \in SUBSET Path
        BY Zenon
      <3> QED BY <3>1, <3>2, Zenon DEF Abstract!Flush, Durable, File
    <2> QED BY <2>2, <2>3, Zenon
  <1>4. r = "ok" => File[p] = v /\ Durable'[p] = v
    BY <1>0, <1>1
  <1>5. Abstract!Finish(w, p, v, r)
    BY <1>1, <1>2, <1>3, <1>4, Zenon DEF Abstract!Finish, File, Durable, Commits, Results
  <1>6. r \in Abstract!Result
    BY Zenon DEF Abstract!Result
  <1> QED BY <1>5, <1>6, Zenon DEF Abstract!Next

\* A process ends with the writes it had in flight.
LEMMA GoneRefines ==
  ASSUME IInv, NEW q \in Process, Gone(q), UNCHANGED <<directory, data>>
  PROVE  Abstract!Next
  <1> DEFINE W == {w \in Writer : ProcessOf(w) = q}
  <1>1. /\ pc' = [w \in Writer |-> IF w \in W THEN "idle" ELSE pc[w]]
        /\ request' = [w \in Writer |-> IF w \in W THEN <<>> ELSE request[w]]
        /\ result' = [w \in Writer |-> IF w \in W THEN "none" ELSE result[w]]
    BY Zenon DEF Gone, Of
  <1>2. W \in SUBSET Writer
    BY Zenon
  <1> HIDE DEF W
  <1>3. File' = File /\ Durable' = Durable
    BY FileSame, DurableSame, Zenon DEF directory, data
  <1>4. Commits' = [w \in Writer |-> w \notin W /\ Commits[w]]
    BY <1>1, Zenon DEF Commits, Committed
  <1>5. Results' = [w \in Writer |-> IF w \in W THEN "none" ELSE Results[w]]
    BY <1>1, Zenon DEF Results
  <1>6. Abstract!Crash(W)
    BY <1>1, <1>3, <1>4, <1>5, Zenon DEF Abstract!Crash, File, Durable, Commits, Results
  <1> QED BY <1>2, <1>6, Zenon DEF Abstract!Next

\* A power loss.
LEMMA PowerLossRefines ==
  ASSUME IInv, PowerLoss
  PROVE  Abstract!PowerLoss
  <1>1. \A p \in Path : disk_entry[p] # NoInode => content'[disk_entry[p]] = content[disk_entry[p]]
    <2> SUFFICES ASSUME NEW p \in Path, disk_entry[p] # NoInode
                 PROVE  content'[disk_entry[p]] = content[disk_entry[p]]
      BY Zenon
    <2>1. disk_entry[p] \in Inode /\ synced[disk_entry[p]]
      BY Zenon DEF IInv, NeverTorn, Types
    <2> QED BY <2>1, Zenon DEF PowerLoss
  <1>2. Durable' = Durable
    BY <1>1, DurableSame, Zenon DEF PowerLoss
  <1>3. File' = Durable
    BY <1>1, Zenon DEF PowerLoss, File, Durable, Contents
  <1>4. Commits' = [w \in Writer |-> FALSE]
    BY Zenon DEF PowerLoss, Commits, Committed
  <1>5. Results' = [w \in Writer |-> "none"]
    BY Zenon DEF PowerLoss, Results
  <1>6. request' = [w \in Writer |-> <<>>]
    BY Zenon DEF PowerLoss
  <1> QED BY <1>2, <1>3, <1>4, <1>5, <1>6, Zenon DEF Abstract!PowerLoss, File, Durable, Commits, Results

\* An entry reaches the disk.
LEMMA WriteBackRefines ==
  ASSUME IInv, WriteBack
  PROVE  Abstract!Next \/ UNCHANGED Abstract!vars
  <1>1. UNCHANGED <<entry, content, pc, request, result>>
    BY Zenon DEF WriteBack, data
  <1>2. File' = File /\ Commits' = Commits /\ Results' = Results
    BY <1>1, Zenon DEF File, Contents, Commits, Committed, Results
  <1>3. CASE UNCHANGED disk_entry
    <2>1. Durable' = Durable
      BY <1>1, <1>3, DurableSame, Zenon
    <2> QED BY <1>1, <1>2, <2>1, Zenon DEF Abstract!vars, File, Durable, Commits, Results
  <1>4. ASSUME NEW p \in Path, disk_entry' = [disk_entry EXCEPT ![p] = entry[p]]
        PROVE  Abstract!Next
    <2>1. Durable' = [x \in Path |-> IF x \in {p} THEN File[x] ELSE Durable[x]]
      <3>1. \A x \in Path : disk_entry'[x] = IF x = p THEN entry[x] ELSE disk_entry[x]
        BY <1>4, Zenon DEF IInv, Types
      <3> QED BY <1>1, <3>1, Zenon DEF Durable, File, Contents
    <2>2. {p} \in SUBSET Path
      BY Zenon
    <2>3. Abstract!Flush
      BY <2>1, <2>2, Zenon DEF Abstract!Flush, File, Durable
    <2> QED BY <1>1, <1>2, <2>3, Zenon DEF Abstract!Next, File, Durable, Commits, Results
  <1> QED BY <1>3, <1>4, Zenon DEF WriteBack

\* The part of a step that the thread w sees of itself.
LEMMA Moved ==
  ASSUME IInv, NEW w \in Writer, NEW next, Goto(w, next),
         UNCHANGED result \/ Result(w, "before") \/ Result(w, "after")
  PROVE  /\ pc'[w] = next /\ \A u \in Writer \ {w} : pc'[u] = pc[u] /\ result'[u] = result[u]
         /\ UNCHANGED result => result'[w] = result[w]
         /\ result[w] # "ok" => result'[w] = result[w]
         /\ Result(w, "before") /\ result[w] = "ok" => result'[w] = "before"
         /\ Result(w, "after") /\ result[w] = "ok" => result'[w] = "after"
  BY Zenon DEF Goto, Result, IInv, Types

\* The look finds nothing, or the same bytes (the write is in place), or refuses.
LEMMA LookRefines ==
  ASSUME IInv, NEW w \in Writer, Look(w)
  PROVE  Abstract!Next \/ UNCHANGED Abstract!vars
  <1>1. pc[w] = "look" /\ ~Reclaiming(w) /\ result[w] = "ok" /\ ~Committed(w) /\ UNCHANGED <<directory, data, request>>
    BY Zenon DEF Look, IInv, Phase, Committed
  <1>2. File' = File /\ Durable' = Durable
    BY <1>1, FileSame, DurableSame, Zenon DEF directory, data
  <1>3. CASE Goto(w, "mutex") /\ UNCHANGED result
    <2>1. /\ pc'[w] = "mutex" /\ \A u \in Writer \ {w} : pc'[u] = pc[u] /\ result'[u] = result[u]
      BY <1>3, Moved, Zenon
    <2> QED BY <1>1, <1>2, <2>1, Stutters, Zenon DEF Committed, CommittedNext
  <1>4. CASE Reading(request[w][1]) = request[w][2] /\ Goto(w, "sync_existing") /\ UNCHANGED result
    <2>1. /\ pc'[w] = "sync_existing" /\ result'[w] = "ok"
          /\ \A u \in Writer \ {w} : pc'[u] = pc[u] /\ result'[u] = result[u]
      BY <1>1, <1>4, Moved, Zenon
    <2>2. request[w][1] \in Path
      BY <1>1, HasRequest, Zenon
    <2>3. File[request[w][1]] = request[w][2]
      BY <1>4, <2>2, Zenon DEF File, Contents, Reading
    <2>4. File' = [File EXCEPT ![request[w][1]] = request[w][2]]
      BY <1>2, <2>2, <2>3, Zenon DEF File, Contents
    <2> QED BY <1>1, <1>2, <2>1, <2>3, <2>4, CommitRefines, Zenon DEF CommittedNext
  <1>5. CASE Goto(w, "return") /\ Result(w, "before")
    <2>1. /\ pc'[w] = "return" /\ result'[w] = "before"
          /\ \A u \in Writer \ {w} : pc'[u] = pc[u] /\ result'[u] = result[u]
      BY <1>1, <1>5, Moved, Zenon
    <2> QED BY <1>1, <1>2, <2>1, FinishRefines, Zenon
  <1> QED BY <1>3, <1>4, <1>5, Zenon DEF Look

\* An equal artifact is made durable, or the error says it is visible.
LEMMA SyncExistingRefines ==
  ASSUME IInv, NEW w \in Writer, SyncExisting(w)
  PROVE  Abstract!Next
  <1>1. /\ pc[w] = "sync_existing" /\ ~Reclaiming(w) /\ result[w] = "ok" /\ Committed(w)
        /\ UNCHANGED <<entry, data, request>> /\ Goto(w, "return")
        /\ Reading(request[w][1]) = request[w][2]
    BY Zenon DEF SyncExisting, IInv, Phase, Scratch, Committed, sync_atomic_parent, directory
  <1>2. File' = File
    BY <1>1, FileSame, Zenon DEF data
  <1>3. File[request[w][1]] = request[w][2]
    BY <1>1, HasRequest, Zenon DEF File, Contents, Reading
  <1>4. CASE sync_atomic_parent /\ UNCHANGED result
    <2>1. /\ pc'[w] = "return" /\ result'[w] = "ok"
          /\ \A u \in Writer \ {w} : pc'[u] = pc[u] /\ result'[u] = result[u]
      BY <1>1, <1>4, Moved, Zenon
    <2>2. Durable' = File
      BY <1>1, <1>4, Zenon DEF sync_atomic_parent, data, Durable, File, Contents
    <2> QED BY <1>1, <1>2, <1>3, <2>1, <2>2, FinishRefines, Zenon
  <1>5. CASE UNCHANGED directory /\ Result(w, "after")
    <2>1. /\ pc'[w] = "return" /\ result'[w] = "after"
          /\ \A u \in Writer \ {w} : pc'[u] = pc[u] /\ result'[u] = result[u]
      BY <1>1, <1>5, Moved, Zenon
    <2>2. Durable' = Durable
      BY <1>1, <1>5, DurableSame, Zenon DEF directory, data
    <2> QED BY <1>1, <1>2, <2>1, <2>2, FinishRefines, Zenon
  <1> QED BY <1>4, <1>5, Zenon DEF SyncExisting

\* A refused write changed nothing; a failed reclaim ends its process.
LEMMA RefuseRefines ==
  ASSUME IInv, NEW w \in Writer, pc[w] \in {"lock", "unlink"}, Refuse(w), UNCHANGED <<directory, data>>
  PROVE  Abstract!Next
  <1>1. CASE Reclaiming(w)
    BY <1>1, Processes, GoneRefines, Zenon DEF Refuse
  <1>2. CASE ~Reclaiming(w)
    <2>1. result[w] = "ok" /\ ~Committed(w) /\ UNCHANGED request /\ Goto(w, "return") /\ Result(w, "before")
      BY <1>2, Zenon DEF IInv, Phase, Refuse, Committed
    <2>2. /\ pc'[w] = "return" /\ result'[w] = "before"
          /\ \A u \in Writer \ {w} : pc'[u] = pc[u] /\ result'[u] = result[u]
      BY <2>1, Moved, Zenon
    <2>3. File' = File /\ Durable' = Durable
      BY FileSame, DurableSame, Zenon DEF directory, data
    <2> QED BY <1>2, <2>1, <2>2, <2>3, FinishRefines, Zenon
  <1> QED BY <1>1, <1>2, Zenon

\* The guards, and the old scratch file.
LEMMA PrepareRefines ==
  ASSUME IInv, NEW w \in Writer, TakeMutex(w) \/ TakeLock(w) \/ PreUnlink(w)
  PROVE  Abstract!Next \/ UNCHANGED Abstract!vars
  <1>1. CASE /\ pc[w] \in {"mutex", "lock", "unlink"}
             /\ UNCHANGED <<entry, disk_entry, data, request, result>>
             /\ \E next \in {"lock", "unlink", "open", "sync"} : Goto(w, next) /\ (next = "sync" => Reclaiming(w))
    <2>1. PICK next \in {"lock", "unlink", "open", "sync"} : Goto(w, next) /\ (next = "sync" => Reclaiming(w))
      BY <1>1, Zenon
    <2>2. /\ pc'[w] = next /\ result'[w] = result[w]
          /\ \A u \in Writer \ {w} : pc'[u] = pc[u] /\ result'[u] = result[u]
      BY <1>1, <2>1, Moved, Zenon
    <2>3. File' = File /\ Durable' = Durable
      BY <1>1, FileSame, DurableSame, Zenon DEF data
    <2>4. Reclaiming(w) => result[w] = "none"
      BY Zenon DEF IInv, Phase
    <2> QED BY <1>1, <2>1, <2>2, <2>3, <2>4, Stutters, Zenon DEF Committed, CommittedNext
  <1>2. CASE pc[w] \in {"lock", "unlink"} /\ Refuse(w) /\ UNCHANGED <<directory, data>>
    BY <1>2, RefuseRefines, Zenon
  <1> QED BY <1>1, <1>2, Zenon DEF TakeMutex, TakeLock, PreUnlink, directory

\* The scratch file is made, written and synced, or one of these fails: none
\* of it can be seen through a destination.
LEMMA ScratchRefines ==
  ASSUME IInv, NEW w \in Writer, OpenScratch(w) \/ WriteData(w) \/ FileSync(w)
  PROVE  UNCHANGED Abstract!vars
  <1>1. /\ pc[w] \in {"open", "write", "fsync"} /\ result[w] = "ok"
        /\ UNCHANGED <<entry, disk_entry, request>>
    BY Zenon DEF OpenScratch, WriteData, FileSync, IInv, Phase, directory
  <1>2. PICK i \in Inode \union {NoInode} :
          /\ \A j \in Inode : j # i => content'[j] = content[j]
          /\ \A p \in Path : i # NoInode => entry[p] # i /\ disk_entry[p] # i
    <2>1. CASE UNCHANGED content
      BY <2>1, Zenon
    <2>2. ASSUME NEW i \in Free, content' = [content EXCEPT ![i] = Torn]
          PROVE  /\ \A j \in Inode : j # i => content'[j] = content[j]
                 /\ \A p \in Path : entry[p] # i /\ disk_entry[p] # i
      BY <2>2, Zenon DEF Free, IInv, Types
    <2>3. ASSUME pc[w] = "write", content' = [content EXCEPT ![handle[w]] = request[w][2]]
          PROVE  /\ handle[w] \in Inode
                 /\ \A j \in Inode : j # handle[w] => content'[j] = content[j]
                 /\ \A p \in Path : entry[p] # handle[w] /\ disk_entry[p] # handle[w]
      BY <2>3, Zenon DEF IInv, Types, Locals, Scratch
    <2>4. Free \subseteq Inode
      BY Zenon DEF Free
    <2> QED BY <2>1, <2>2, <2>3, <2>4, Zenon DEF OpenScratch, WriteData, FileSync, data
  <1>3. \A p \in Path : entry[p] \in Inode \union {NoInode} /\ disk_entry[p] \in Inode \union {NoInode}
    BY Zenon DEF IInv, Types
  <1>4. File' = File /\ Durable' = Durable
    BY <1>1, <1>2, <1>3, FileSame, DurableSame, Zenon
  <1>5. \/ \E next \in {"write", "fsync", "commit"} : Goto(w, next) /\ UNCHANGED result
        \/ Goto(w, "cleanup") /\ Result(w, "before")
    BY Zenon DEF OpenScratch, WriteData, FileSync, PreCommitFailure
  <1>6. CASE Goto(w, "cleanup") /\ Result(w, "before")
    <2>1. /\ pc'[w] = "cleanup" /\ result'[w] = "before"
          /\ \A u \in Writer \ {w} : pc'[u] = pc[u] /\ result'[u] = result[u]
      BY <1>1, <1>6, Moved, Zenon
    <2> QED BY <1>1, <1>4, <2>1, Stutters, Zenon DEF Committed, CommittedNext
  <1>7. ASSUME NEW next \in {"write", "fsync", "commit"}, Goto(w, next), UNCHANGED result
        PROVE  UNCHANGED Abstract!vars
    <2>1. /\ pc'[w] = next /\ \A u \in Writer \ {w} : pc'[u] = pc[u] /\ result'[u] = result[u]
      BY <1>7, Moved, Zenon
    <2> QED BY <1>1, <1>4, <2>1, Stutters, Zenon DEF Committed, CommittedNext
  <1> QED BY <1>5, <1>6, <1>7, Zenon

\* The namespace commit is the commit of AtomicFile.
LEMMA CommitNameRefines ==
  ASSUME IInv, NEW w \in Writer, CommitName(w)
  PROVE  Abstract!Next \/ UNCHANGED Abstract!vars
  <1> DEFINE p == request[w][1]
             v == request[w][2]
  <1>1. pc[w] = "commit" /\ ~Reclaiming(w) /\ result[w] = "ok" /\ ~Committed(w) /\ UNCHANGED <<data, request>>
    BY Zenon DEF CommitName, IInv, Phase, Committed
  <1>2. scratch \in Inode /\ content[scratch] = v /\ scratch # NoInode
    BY <1>1, WriterAssumption, Zenon DEF IInv, Scratch
  <1>3. p \in Path /\ v \in Value
    BY <1>1, HasRequest, Zenon
  <1>4. CASE PreCommitFailure(w) /\ UNCHANGED directory
    <2>1. /\ pc'[w] = "cleanup" /\ result'[w] = "before"
          /\ \A u \in Writer \ {w} : pc'[u] = pc[u] /\ result'[u] = result[u]
      BY <1>1, <1>4, Moved, Zenon DEF PreCommitFailure
    <2>2. File' = File /\ Durable' = Durable
      BY <1>1, <1>4, FileSame, DurableSame, Zenon DEF directory, data
    <2> QED BY <1>1, <2>1, <2>2, Stutters, Zenon DEF Committed, CommittedNext
  <1>5. ASSUME entry' = [entry EXCEPT ![p] = scratch] \/ (Reading(p) = v /\ UNCHANGED entry),
               UNCHANGED <<disk_entry, result>>, Goto(w, "cleanup"),
               p \in CreateOnly => Reading(p) \in {Absent, v}
        PROVE  Abstract!Next
    <2>1. /\ pc'[w] = "cleanup" /\ result'[w] = "ok"
          /\ \A u \in Writer \ {w} : pc'[u] = pc[u] /\ result'[u] = result[u]
      BY <1>1, <1>5, Moved, Zenon
    <2>2. Durable' = Durable
      BY <1>1, <1>5, DurableSame, Zenon DEF data
    <2>3. File[p] = Reading(p)
      BY <1>3, Zenon DEF File, Contents, Reading
    <2>4. File' = [File EXCEPT ![p] = v]
      <3>1. CASE Reading(p) = v /\ UNCHANGED entry
        BY <1>1, <1>3, <2>3, <3>1, Zenon DEF File, Contents, data
      <3>2. CASE entry' = [entry EXCEPT ![p] = scratch]
        <4>1. \A x \in Path : entry'[x] = IF x = p THEN scratch ELSE entry[x]
          BY <3>2, Zenon DEF IInv, Types
        <4> HIDE DEF p, v
        <4> QED BY <1>1, <1>2, <1>3, <4>1, Zenon DEF File, Contents, data
      <3> QED BY <1>5, <3>1, <3>2, Zenon
    <2> QED BY <1>1, <1>5, <2>1, <2>2, <2>3, <2>4, CommitRefines, Zenon DEF CommittedNext
  <1>6. CASE Rename(w, p)
    BY <1>5, <1>6, Zenon DEF Rename
  <1>7. CASE HardLink(w, p, v)
    <2>1. Reading(p) \in {Absent, v}
      BY <1>7, Zenon DEF HardLink, Reading
    <2> QED BY <1>5, <1>7, <2>1, Zenon DEF HardLink
  <1> QED BY <1>4, <1>6, <1>7, Zenon DEF CommitName

\* Removing the scratch name changes nothing a reader sees.
LEMMA CleanupRefines ==
  ASSUME IInv, NEW w \in Writer, Cleanup(w)
  PROVE  UNCHANGED Abstract!vars
  <1>1. /\ pc[w] = "cleanup" /\ result[w] \in {"ok", "before", "after"}
        /\ UNCHANGED <<entry, disk_entry, data, request>> /\ Goto(w, "sync")
        /\ UNCHANGED result \/ Result(w, "after")
    BY Zenon DEF Cleanup, IInv, Phase
  <1>2. /\ pc'[w] = "sync" /\ \A u \in Writer \ {w} : pc'[u] = pc[u] /\ result'[u] = result[u]
        /\ result'[w] \in {"ok", "after"} <=> result[w] \in {"ok", "after"}
    BY <1>1, Moved, Zenon
  <1>3. File' = File /\ Durable' = Durable
    BY <1>1, FileSame, DurableSame, Zenon DEF data
  <1> QED BY <1>1, <1>2, <1>3, Stutters, Zenon DEF Committed, CommittedNext

\* After the directory sync the result says what is durable.
LEMMA SyncParentRefines ==
  ASSUME IInv, NEW w \in Writer, SyncParent(w)
  PROVE  Abstract!Next
  <1>1. /\ pc[w] = "sync" /\ UNCHANGED data
        /\ IF Reclaiming(w) THEN result[w] = "none" ELSE result[w] \in {"ok", "before", "after"}
        /\ result[w] \in {"ok", "after"} => Reading(request[w][1]) = request[w][2]
    BY Zenon DEF SyncParent, IInv, Phase, Scratch
  <1>2. CASE Reclaiming(w) /\ Gone(ProcessOf(w)) /\ UNCHANGED directory
    BY <1>1, <1>2, Processes, GoneRefines, Zenon
  <1>3. CASE sync_atomic_parent /\ Goto(w, "return") /\ UNCHANGED <<request, result>>
    <2>1. /\ pc'[w] = "return" /\ result'[w] = result[w]
          /\ \A u \in Writer \ {w} : pc'[u] = pc[u] /\ result'[u] = result[u]
      BY <1>3, Moved, Zenon
    <2>2. File' = File /\ Durable' = File
      BY <1>1, <1>3, Zenon DEF sync_atomic_parent, data, Durable, File, Contents
    <2>3. CASE ~Reclaiming(w)
      <3>1. result[w] = "ok" => File[request[w][1]] = request[w][2]
        BY <1>1, <2>3, HasRequest, Zenon DEF File, Contents, Reading
      <3> QED BY <1>1, <1>3, <2>1, <2>2, <2>3, <3>1, FinishRefines, Zenon DEF Committed
    <2>4. CASE Reclaiming(w)
      <3>1. Commits' = Commits /\ Results' = Results
        BY <1>1, <2>1, <2>4, Zenon DEF Commits, Committed, Results
      <3>2. Durable' = [x \in Path |-> IF x \in Path THEN File[x] ELSE Durable[x]]
        BY <2>2, Zenon DEF File, Contents
      <3>3. Abstract!Flush
        <4>1. Path \in SUBSET Path
          BY Zenon
        <4> QED BY <3>2, <4>1, Zenon DEF Abstract!Flush, File, Durable
      <3> QED BY <1>3, <2>2, <3>1, <3>3, Zenon DEF Abstract!Next, File, Durable, Commits, Results
    <2> QED BY <2>3, <2>4, Zenon
  <1>4. CASE ~Reclaiming(w) /\ Goto(w, "return") /\ Result(w, "after") /\ UNCHANGED <<directory, request>>
    <2>1. /\ pc'[w] = "return" /\ result'[w] = (IF result[w] = "ok" THEN "after" ELSE result[w])
          /\ \A u \in Writer \ {w} : pc'[u] = pc[u] /\ result'[u] = result[u]
      BY <1>4, Moved, Zenon
    <2>2. File' = File /\ Durable' = Durable
      BY <1>1, <1>4, FileSame, DurableSame, Zenon DEF directory, data
    <2> QED BY <1>1, <1>4, <2>1, <2>2, FinishRefines, Zenon DEF Committed
  <1> QED BY <1>2, <1>3, <1>4, Zenon DEF SyncParent

\* The result is returned, or a reclaim ends.
LEMMA ReturnRefines ==
  ASSUME IInv, NEW w \in Writer, ReturnResult(w)
  PROVE  Abstract!Next \/ UNCHANGED Abstract!vars
  <1>1. /\ UNCHANGED <<directory, data>> /\ pc[w] = "return" /\ pc'[w] = "idle" /\ result'[w] = "none"
        /\ request' = [request EXCEPT ![w] = <<>>]
        /\ \A u \in Writer \ {w} : pc'[u] = pc[u] /\ result'[u] = result[u]
    BY Zenon DEF ReturnResult, Goto, IInv, Types
  <1>2. File' = File /\ Durable' = Durable
    BY <1>1, FileSame, DurableSame, Zenon DEF directory, data
  <1>3. CASE Reclaiming(w)
    <2>1. result[w] = "none" /\ request[w] = <<>>
      BY <1>3, Zenon DEF IInv, Phase, Locals
    <2>2. UNCHANGED request
      BY <1>1, <2>1, Zenon DEF IInv, Types
    <2> QED BY <1>1, <1>2, <2>1, <2>2, Stutters, Zenon DEF Committed, CommittedNext
  <1>4. CASE ~Reclaiming(w)
    <2>1. result[w] # "none"
      BY <1>1, <1>4, Zenon DEF IInv, Phase
    <2>2. Commits' = [Commits EXCEPT ![w] = FALSE]
      BY <1>1, Zenon DEF Commits, Committed
    <2>3. Results' = [Results EXCEPT ![w] = "none"] /\ Results[w] # "none"
      BY <1>1, <2>1, Zenon DEF Results
    <2>4. Abstract!Return(w)
      BY <1>1, <1>2, <2>2, <2>3, Zenon DEF Abstract!Return, File, Durable, Commits, Results
    <2> QED BY <2>4, Zenon DEF Abstract!Next
  <1> QED BY <1>3, <1>4, Zenon

\* A process starts.
LEMMA StartRefines ==
  ASSUME IInv, NEW w \in Writer, Start(w)
  PROVE  UNCHANGED Abstract!vars
  <1>1. /\ UNCHANGED <<directory, data, request, result>> /\ pc[w] = "idle" /\ pc'[w] = "mutex"
        /\ \A u \in Writer \ {w} : pc'[u] = pc[u] /\ result'[u] = result[u]
    BY Zenon DEF Start, Goto, IInv, Types, Phase
  <1>2. File' = File /\ Durable' = Durable
    BY <1>1, FileSame, DurableSame, Zenon DEF directory, data
  <1> QED BY <1>1, <1>2, Stutters, Zenon DEF Committed, CommittedNext

\* Every step of the writer is one of AtomicFile, or changes nothing there.
LEMMA NextRefines == IInv /\ [Next]_vars => [Abstract!Next]_(Abstract!vars)
  <1> SUFFICES ASSUME IInv, [Next]_vars PROVE Abstract!Next \/ UNCHANGED Abstract!vars
    BY Zenon
  <1>1. ASSUME NEW w \in Writer, Step(w) PROVE Abstract!Next \/ UNCHANGED Abstract!vars
    BY <1>1, LookRefines, SyncExistingRefines, PrepareRefines, ScratchRefines, CommitNameRefines,
       CleanupRefines, SyncParentRefines, ReturnRefines, Zenon DEF Step
  <1>2. ASSUME NEW w \in Writer, NEW p \in Path, NEW v \in Value, Begin(w, p, v) PROVE Abstract!Next
    BY <1>2, BeginRefines, Zenon DEF Abstract!Next
  <1>3. ASSUME NEW q \in Process, Crash(q) PROVE Abstract!Next
    BY <1>3, GoneRefines, Zenon DEF Crash
  <1>4. CASE PowerLoss
    BY <1>4, PowerLossRefines, Zenon DEF Abstract!Next
  <1>5. CASE UNCHANGED vars
    <2>1. UNCHANGED <<entry, disk_entry, content, pc, request, result>>
      BY <1>5, Zenon DEF vars, directory, data
    <2> QED BY <2>1, Zenon DEF Abstract!vars, Contents, Committed
  <1> QED BY <1>1, <1>2, <1>3, <1>4, <1>5, StartRefines, WriteBackRefines, Zenon DEF Next

-----------------------------------------------------------------------------
(* Theorems. *)

\* IInv holds in every state of the writer.
THEOREM Invariance == Spec => []IInv
  BY InitHolds, StepKeeps, PTL DEF Spec

\* The variables keep their types, and a call of write_atomic_file_locked has
\* the open file and the request it uses.
THEOREM TypeCorrectness == Spec => []TypeOK
  <1>1. IInv => TypeOK
    BY Zenon DEF IInv, Types, Locals, TypeOK
  <1> QED BY <1>1, Invariance, PTL

\* No destination is ever torn, for readers or after a power loss.
THEOREM DestinationsAreWhole == Spec => []NeverTorn
  <1>1. IInv => NeverTorn
    BY Zenon DEF IInv
  <1> QED BY <1>1, Invariance, PTL

\* One thread of all processes works on the scratch file at a time.
THEOREM DirectoryIsExclusive == Spec => []OneInTheDirectory
  <1>1. IInv => OneInTheDirectory
    BY Zenon DEF IInv, OneInTheDirectory, Exclusive
  <1> QED BY <1>1, Invariance, PTL

\* The writer of io_utils.rs implements AtomicFile.
THEOREM Refinement == Spec => ImplementsAtomicFile
  <1>1. Init => Abstract!Init
    BY Zenon DEF Init, Abstract!Init, Contents, Committed
  <1> QED BY <1>1, Invariance, NextRefines, PTL DEF Spec, ImplementsAtomicFile, Abstract!Spec
=============================================================================
