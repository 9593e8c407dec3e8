------------------------------- MODULE NodeRun -------------------------------
(***************************************************************************)
(* The life of rubin-node processes on one data directory: the order in    *)
(* which `run` (main.rs) refuses, opens or creates the store, repairs it,  *)
(* serves and stops, with the writer lock of datadir_lock.rs between the   *)
(* processes.  What the store holds is abstracted to the chain its index   *)
(* and its snapshot belong to and how long they are; how reconcile repairs *)
(* them is module SyncEngine, how a file is written is module AtomicFile.  *)
(***************************************************************************)
EXTENDS Naturals, FiniteSets

CONSTANTS Procs,     \* processes an operator may start on the directory
          Chains,    \* genesis hashes
          Configs,   \* the flags `run` branches on; defect: what a check of them objects to
          MaxLen,    \* bound: rows of the canonical index
          Disks      \* the directories an operator may have to begin with

NoProc == "no process"
NoChain == "no chain"
NoHash == "no hash"      \* a genesis file without genesis_hash_hex

File(kind, of, len) == [kind |-> kind, of |-> of, len |-> len]
Absent == File("absent", NoChain, 0)
Damaged == File("damaged", NoChain, 0)
Empty == File("ok", NoChain, 0)
Rows(g, n) == IF n = 0 THEN Empty ELSE File("ok", g, n)

VARIABLES
  dir,        \* the data directory exists
  leaf,       \* .rubin.lock: "absent", "ok", "unusable"
  holder,     \* the process whose descriptor holds the advisory lock
  made,       \* blockstore root, blocks, headers, undo: how many exist
  index,      \* blockstore/index.json, the creation commit marker
  snapshot,   \* chainstate.json
  scratch,    \* parents with a leftover scratch file of an atomic write
  proc        \* the processes

disk == <<dir, leaf, made, index, snapshot, scratch>>
vars == <<dir, leaf, holder, made, index, snapshot, scratch, proc>>

Off == {"off", "exited", "killed"}
Idle == [pc |-> "off", cfg |-> CHOOSE c \in Configs : TRUE, fresh |-> FALSE, state |-> Empty,
         signal |-> "uninstalled", flag |-> FALSE, wake |-> 0, p2p |-> FALSE, rpc |-> FALSE,
         saving |-> FALSE, code |-> 0]

Init ==
  /\ \E d \in Disks : /\ dir = d.dir /\ leaf = d.leaf /\ made = d.made /\ index = d.index
                      /\ snapshot = d.snapshot /\ scratch = d.scratch
  /\ holder = NoProc
  /\ proc = [p \in Procs |-> Idle]

At(p, pc) == proc[p].pc = pc
Cfg(p) == proc[p].cfg
Goto(p, pc) == proc' = [proc EXCEPT ![p].pc = pc]

(* `run` returns: the datadir lock is dropped, main exits with the code.   *)
Exit(p, code) ==
  /\ proc' = [proc EXCEPT ![p].pc = "exited", ![p].code = code]
  /\ holder' = IF holder = p THEN NoProc ELSE holder

(***************************************************************************)
(* Before the storage lifecycle.                                           *)
(***************************************************************************)

RefusedBeforeStorage(c) ==
  \/ c.defect = "config"
  \/ c.create /\ (c.dry \/ c.scan)
  \/ ~c.scan /\ c.defect = "genesis"

Start(p, c) ==
  /\ proc[p].pc \in Off
  /\ proc' = [proc EXCEPT ![p] =
       IF RefusedBeforeStorage(c)
       THEN [Idle EXCEPT !.cfg = c, !.pc = "exited", !.code = 2]
       ELSE [Idle EXCEPT !.cfg = c, !.pc = IF c.scan THEN "scan" ELSE "storage"]]
  /\ UNCHANGED <<disk, holder>>

(* --legacy-exposure-scan: only a chain state with a tip is reported on.   *)
LegacyScan(p) ==
  /\ At(p, "scan")
  /\ Exit(p, IF snapshot.kind = "ok" /\ snapshot.len > 0 THEN 0 ELSE 2)
  /\ UNCHANGED disk

(***************************************************************************)
(* create_or_open_block_store.                                             *)
(***************************************************************************)

require_create_paths == made = 0 /\ snapshot.kind = "absent"

require_initialized == made = 4 /\ index.kind # "absent"

(* BlockStore::open reads only: every directory, then a decodable marker.  *)
Openable == require_initialized /\ index.kind = "ok"

Storage(p) ==
  /\ At(p, "storage")
  /\ LET c == Cfg(p)
         next == IF c.create THEN (IF require_create_paths THEN "mkdir" ELSE "refuse")
                 ELSE IF c.dry THEN (IF Openable THEN "load" ELSE "refuse")
                 ELSE IF dir THEN "lock" ELSE "refuse"
     IN  IF next = "refuse" THEN Exit(p, 2)
         ELSE Goto(p, next) /\ UNCHANGED holder
  /\ UNCHANGED disk

MakeDir(p) ==
  /\ At(p, "mkdir")
  /\ \/ dir' = TRUE /\ Goto(p, "lock") /\ UNCHANGED holder
     \/ Exit(p, 2) /\ UNCHANGED dir
  /\ UNCHANGED <<leaf, made, index, snapshot, scratch>>

(* datadir_lock::acquire: opening creates the leaf; a second descriptor    *)
(* never waits.                                                            *)
Acquire(p) ==
  /\ At(p, "lock")
  /\ leaf' = IF leaf = "absent" THEN "ok" ELSE leaf
  /\ IF leaf # "unusable" /\ holder = NoProc
     THEN /\ holder' = p
          /\ Goto(p, IF Cfg(p).create THEN "recheck" ELSE "open")
     ELSE Exit(p, 2)
  /\ UNCHANGED <<dir, made, index, snapshot, scratch>>

Open(p) ==
  /\ At(p, "open")
  /\ IF Openable THEN Goto(p, "reclaim") /\ UNCHANGED holder ELSE Exit(p, 2)
  /\ UNCHANGED disk

Recheck(p) ==
  /\ At(p, "recheck")
  /\ IF require_create_paths THEN Goto(p, "root") /\ UNCHANGED holder ELSE Exit(p, 2)
  /\ UNCHANGED disk

(* BlockStore::create: the root exclusively, then the three directories.   *)
CreateRoot(p) ==
  /\ At(p, "root")
  /\ \/ made = 0 /\ made' = 1 /\ Goto(p, "dirs") /\ UNCHANGED holder
     \/ Exit(p, 2) /\ UNCHANGED made
  /\ UNCHANGED <<dir, leaf, index, snapshot, scratch>>

CreateDirs(p) ==
  /\ At(p, "dirs") /\ made < 4
  /\ \/ made' = made + 1 /\ Goto(p, "dirs") /\ UNCHANGED holder
     \/ Exit(p, 2) /\ UNCHANGED made
  /\ UNCHANGED <<dir, leaf, index, snapshot, scratch>>

(* The marker is written last; a failed write may leave its scratch file,  *)
(* and may have failed only after the rename.                              *)
CreateIndex(p) ==
  /\ At(p, "dirs") /\ made = 4
  /\ \/ /\ index' = Empty /\ UNCHANGED <<scratch, holder>>
        /\ proc' = [proc EXCEPT ![p].pc = "reclaim", ![p].fresh = TRUE]
     \/ /\ index' \in {index, Empty} /\ scratch' \in {scratch, scratch \cup {"store"}}
        /\ Exit(p, 2)
  /\ UNCHANGED <<dir, leaf, made, snapshot>>

(***************************************************************************)
(* From the opened store to the engine.                                    *)
(***************************************************************************)

reclaimed(p) == IF proc[p].fresh THEN {"data"} ELSE {"data", "store"}

Reclaim(p) ==
  /\ At(p, "reclaim")
  /\ \/ scratch' = scratch \ reclaimed(p) /\ Goto(p, "load") /\ UNCHANGED holder
     \/ Exit(p, 2) /\ UNCHANGED scratch
  /\ UNCHANGED <<dir, leaf, made, index, snapshot>>

(* load_chain_state: an absent file is an empty state, a damaged one is    *)
(* refused.  A dry run repairs nothing: it goes on to its report.          *)
Load(p) ==
  /\ At(p, "load")
  /\ IF snapshot.kind = "damaged" THEN Exit(p, 2)
     ELSE /\ proc' = [proc EXCEPT ![p].pc = IF Cfg(p).dry THEN "engine" ELSE "anchor",
                        ![p].state = IF snapshot.kind = "absent" THEN Empty ELSE snapshot]
          /\ UNCHANGED holder
  /\ UNCHANGED disk

verify_genesis_anchor(g) == index.len = 0 \/ index.of = g

Anchor(p) ==
  /\ At(p, "anchor")
  /\ LET g == Cfg(p).genesis
     IN  IF g # NoHash /\ verify_genesis_anchor(g)
         THEN Goto(p, "reconcile") /\ UNCHANGED holder
         ELSE Exit(p, 2)
  /\ UNCHANGED disk

(* An incomplete suffix of the index is cut off on disk; the state in      *)
(* memory is brought to what is left.  Failing may follow the cut.         *)
Reconcile(p) ==
  /\ At(p, "reconcile")
  /\ \E n \in 0 .. index.len :
       /\ index' = Rows(index.of, n)
       /\ \/ /\ proc' = [proc EXCEPT ![p].pc = "save", ![p].state = Rows(index.of, n)]
             /\ UNCHANGED <<holder, scratch>>
          \/ Exit(p, 2) /\ scratch' \in {scratch, scratch \cup {"store"}}
  /\ UNCHANGED <<dir, leaf, made, snapshot>>

Save(p) ==
  /\ At(p, "save")
  /\ \/ /\ snapshot' = proc[p].state /\ UNCHANGED <<scratch, holder>>
        /\ Goto(p, "engine")
     \/ /\ snapshot' \in {snapshot, proc[p].state} /\ scratch' \in {scratch, scratch \cup {"data"}}
        /\ Exit(p, 2)
  /\ UNCHANGED <<dir, leaf, made, index>>

(* SyncEngine::new, the effective configuration, the banners; a dry run    *)
(* ends here.                                                              *)
Engine(p) ==
  /\ At(p, "engine")
  /\ \/ IF Cfg(p).dry THEN Exit(p, 0)
        ELSE Goto(p, IF Cfg(p).mine = "no" THEN "signals" ELSE "mine") /\ UNCHANGED holder
     \/ \E code \in {1, 2} : Exit(p, code)
  /\ UNCHANGED disk

(***************************************************************************)
(* --mine-blocks: the block is committed to the index, then the snapshot   *)
(* is saved (apply_block; not for every block), before any service starts. *)
(***************************************************************************)

Commit(p, pc, saving) ==
  /\ index.len < MaxLen
  /\ index' = Rows(Cfg(p).genesis, index.len + 1)
  /\ proc' = [proc EXCEPT ![p].pc = pc, ![p].state = index', ![p].saving = saving]
  /\ UNCHANGED <<dir, leaf, holder, made, snapshot, scratch>>

MineCommit(p) == At(p, "mine") /\ Commit(p, "mine_save", FALSE)

MineSave(p) ==
  /\ At(p, "mine_save")
  /\ snapshot' \in {snapshot, proc[p].state}
  /\ IF Cfg(p).mine = "exit" THEN Exit(p, 0) ELSE Goto(p, "signals") /\ UNCHANGED holder
  /\ UNCHANGED <<dir, leaf, made, index, scratch>>

MineFails(p) ==
  /\ \/ At(p, "mine")
     \/ At(p, "mine_save")
  /\ Exit(p, 2)
  /\ scratch' \in {scratch, scratch \cup {"data"}}
  /\ UNCHANGED <<dir, leaf, made, index, snapshot>>

(***************************************************************************)
(* Services, and how they are stopped.                                     *)
(***************************************************************************)

(* install_production_stop_signal: from here a signal is caught.           *)
InstallSignals(p) ==
  /\ At(p, "signals")
  /\ \/ /\ proc' = [proc EXCEPT ![p].pc = "p2p", ![p].signal = "installed"]
        /\ UNCHANGED holder
     \/ Exit(p, 2)
  /\ UNCHANGED disk

StartP2p(p) ==
  /\ At(p, "p2p")
  /\ \/ /\ proc' = [proc EXCEPT ![p].pc = "check", ![p].p2p = TRUE]
        /\ UNCHANGED holder
     \/ Exit(p, 2)
  /\ UNCHANGED disk

maybe_shutdown_if_requested(p, next) ==
  /\ Goto(p, IF proc[p].flag THEN "close_rpc" ELSE next)
  /\ UNCHANGED <<disk, holder>>

CheckBeforeRpc(p) ==
  At(p, "check") /\ maybe_shutdown_if_requested(p, IF Cfg(p).rpc THEN "rpc" ELSE "check_again")

(* handle_rpc_start_error_after_maybe_stop: the server refuses to become   *)
(* ready once a stop was requested, which is a clean stop; every other     *)
(* failure closes the peer service and is reported.                        *)
RpcStartFails(p) ==
  /\ At(p, "rpc")
  /\ \/ proc[p].flag /\ Goto(p, "close_rpc")
     \/ Goto(p, "close_p2p_and_fail")
  /\ UNCHANGED <<disk, holder>>

StartRpc(p) ==
  /\ At(p, "rpc") /\ ~proc[p].flag
  /\ proc' = [proc EXCEPT ![p].pc = "check_again", ![p].rpc = TRUE]
  /\ UNCHANGED <<disk, holder>>

(* A service thread is between a commit and its save.                      *)
Applying(p) == proc[p].saving

(* Mutant: a failed RPC start returns with the peer service open.          *)
CloseP2pAndFail_Leaves(p) ==
  /\ At(p, "close_p2p_and_fail") /\ ~Applying(p)
  /\ Exit(p, 2)
  /\ UNCHANGED disk

CloseP2pAndFail(p) ==
  /\ At(p, "close_p2p_and_fail") /\ ~Applying(p)
  /\ proc' = [proc EXCEPT ![p].pc = "exited", ![p].code = 2, ![p].p2p = FALSE]
  /\ holder' = IF holder = p THEN NoProc ELSE holder
  /\ UNCHANGED disk

CheckAfterRpc(p) == At(p, "check_again") /\ maybe_shutdown_if_requested(p, "wait")

(* wait_for_stop: the flag first, then a blocking receive of the wake.     *)
WaitForStop(p) ==
  /\ At(p, "wait")
  /\ Goto(p, IF proc[p].flag THEN "close_rpc" ELSE "recv")
  /\ UNCHANGED <<disk, holder>>

Recv(p) ==
  /\ At(p, "recv") /\ proc[p].wake > 0
  /\ proc' = [proc EXCEPT ![p].pc = "close_rpc", ![p].wake = @ - 1]
  /\ UNCHANGED <<disk, holder>>

(* shutdown_owned_services: the RPC server first; its error is the code.   *)
CloseRpc(p) ==
  /\ At(p, "close_rpc")
  /\ \E code \in IF proc[p].rpc THEN {0, 1} ELSE {0} :
       proc' = [proc EXCEPT ![p].pc = "close_p2p", ![p].rpc = FALSE, ![p].code = code]
  /\ UNCHANGED <<disk, holder>>

(* Closing joins the session threads, so no block is left half applied.    *)
CloseP2p(p) ==
  /\ At(p, "close_p2p") /\ ~Applying(p)
  /\ proc' = [proc EXCEPT ![p].pc = "exited", ![p].p2p = FALSE]
  /\ holder' = IF holder = p THEN NoProc ELSE holder
  /\ UNCHANGED disk

(* A service thread applies a block: committed, then, for some blocks,     *)
(* the snapshot saved.                                                     *)
ServeCommit(p) ==
  proc[p].p2p /\ ~Applying(p) /\ \E saving \in BOOLEAN : Commit(p, proc[p].pc, saving)

ServeSave(p) ==
  /\ Applying(p)
  /\ snapshot' = proc[p].state
  /\ proc' = [proc EXCEPT ![p].saving = FALSE]
  /\ UNCHANGED <<dir, leaf, holder, made, index, scratch>>

(* The stop thread: one signal, the flag, then at most one pending wake.   *)
Signal(p) ==
  /\ proc[p].signal = "installed" /\ proc[p].pc \notin Off
  /\ proc' = [proc EXCEPT ![p].signal = "caught"]
  /\ UNCHANGED <<disk, holder>>

StoreFlag(p) ==
  /\ proc[p].signal = "caught" /\ proc[p].pc \notin Off
  /\ proc' = [proc EXCEPT ![p].signal = "flagged", ![p].flag = TRUE]
  /\ UNCHANGED <<disk, holder>>

SendWake(p) ==
  /\ proc[p].signal = "flagged" /\ proc[p].pc \notin Off
  /\ proc' = [proc EXCEPT ![p].signal = "done", ![p].wake = 1]
  /\ UNCHANGED <<disk, holder>>

(* The process dies at any point (a signal before the handler is there     *)
(* included); the kernel drops its lock.  A write in flight may leave its  *)
(* scratch file.                                                           *)
Kill(p) ==
  /\ proc[p].pc \notin Off
  /\ proc' = [proc EXCEPT ![p] = [Idle EXCEPT !.cfg = Cfg(p), !.pc = "killed"]]
  /\ holder' = IF holder = p THEN NoProc ELSE holder
  /\ scratch' \in {scratch}
       \cup (IF (At(p, "dirs") /\ made = 4) \/ At(p, "reconcile") \/ At(p, "mine")
             THEN {scratch \cup {"store"}} ELSE {})
       \cup (IF At(p, "save") \/ At(p, "mine_save") \/ Applying(p)
             THEN {scratch \cup {"data"}} ELSE {})
  /\ UNCHANGED <<dir, leaf, made, index, snapshot>>

Main(p) ==
  \/ LegacyScan(p) \/ Storage(p) \/ MakeDir(p) \/ Acquire(p) \/ Open(p) \/ Recheck(p)
  \/ CreateRoot(p) \/ CreateDirs(p) \/ CreateIndex(p) \/ Reclaim(p) \/ Load(p) \/ Anchor(p)
  \/ Reconcile(p) \/ Save(p) \/ Engine(p) \/ MineCommit(p) \/ MineSave(p) \/ MineFails(p)
  \/ InstallSignals(p) \/ StartP2p(p) \/ CheckBeforeRpc(p) \/ RpcStartFails(p) \/ StartRpc(p)
  \/ CloseP2pAndFail(p) \/ CheckAfterRpc(p) \/ WaitForStop(p) \/ Recv(p) \/ CloseRpc(p)
  \/ CloseP2p(p)

StopThread(p) == StoreFlag(p) \/ SendWake(p)

Next == \E p \in Procs :
  \/ \E c \in Configs : Start(p, c)
  \/ Main(p) \/ ServeCommit(p) \/ ServeSave(p) \/ Signal(p) \/ StopThread(p) \/ Kill(p)

Spec == Init /\ [][Next]_vars

(***************************************************************************)
(* Properties.                                                             *)
(***************************************************************************)

Stored == <<made, index, snapshot, scratch>>

(* Whoever changes the store, the snapshot or their scratch files holds    *)
(* the writer lock of the directory: two processes never write in turns    *)
(* (create_or_open_block_store keeps the lock to the end of run).          *)
OnlyHolderWrites ==
  \A p \in Procs : proc'[p] # proc[p] /\ Stored' # Stored => holder = p

Serving(p) == proc[p].p2p \/ proc[p].rpc

(* No process is between its opened store and its exit without the lock,   *)
(* and none exits with a service still running (shutdown_owned_services,   *)
(* handle_rpc_start_error_after_maybe_stop).                               *)
Mutating == {"open", "recheck", "root", "dirs", "reclaim", "anchor", "reconcile", "save", "engine",
             "mine", "mine_save", "signals", "p2p", "check", "rpc", "check_again", "wait", "recv",
             "close_rpc", "close_p2p", "close_p2p_and_fail"}
WorksUnderLock == \A p \in Procs : ((proc[p].pc \in Mutating /\ ~Cfg(p).dry) \/ Serving(p)) => holder = p

(* --dry-run, --legacy-exposure-scan and every refused command line leave  *)
(* the file system as it was: no mkdir, no lock leaf, no repair, no save.  *)
ReadersTouchNothing ==
  \A p \in Procs :
    LET c == proc'[p].cfg
    IN  proc'[p] # proc[p] /\ (c.dry \/ c.scan \/ RefusedBeforeStorage(c)) => disk' = disk

(* A directory whose index belongs to another genesis is never truncated,  *)
(* replayed or given another snapshot: the anchor is verified first.       *)
ForeignIsUntouched ==
  \A p \in Procs : holder = p /\ index.len > 0 /\ index.of # Cfg(p).genesis
    => index' = index /\ snapshot' = snapshot

(* Past the storage lifecycle the store is whole: a root left half made by *)
(* a crash is neither opened nor completed by anyone.                      *)
Opened == {"reclaim", "load", "anchor", "reconcile", "save", "engine", "mine", "mine_save",
           "signals", "p2p", "check", "rpc", "check_again", "wait", "recv"}
OpenedIsWhole == \A p \in Procs : proc[p].pc \in Opened => made = 4 /\ index.kind = "ok"

(* A created store starts from nothing: --create-store never adopts a      *)
(* snapshot or rows that were in the directory before it.                  *)
FreshIsEmpty ==
  \A p \in Procs : proc[p].fresh /\ proc[p].pc \in {"reclaim", "load", "anchor", "reconcile"}
    => index = Empty /\ snapshot = Absent /\ proc[p].state = Empty

(* A writer loads the directory only when every scratch file of an earlier *)
(* crash is gone, although a fresh store reclaims one parent only.         *)
LoadsClean ==
  \A p \in Procs : proc[p].pc \in {"load", "anchor"} /\ ~Cfg(p).dry => scratch = {}

(* A serving process ends with 0 or 1 only because it was told to stop.    *)
CleanExitWasAsked ==
  \A p \in Procs : At(p, "exited") /\ proc[p].signal # "uninstalled" /\ proc[p].code # 2
    => proc[p].flag

=============================================================================
