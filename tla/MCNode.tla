------------------------------ MODULE MCNode ------------------------------
(***************************************************************************)
(* The node's threads and processes, each part on a small instance of its  *)
(* own.  A behaviour picks one part and runs it; the others stand still,   *)
(* so that the states are those of the parts, one beside the other.  The   *)
(* service lifecycle is extended, the other parts are instantiated.        *)
(***************************************************************************)
EXTENDS ServiceLifecycle, Integers, Sequences, FiniteSets, TLC

CONSTANTS
  Parts,            \* the parts a run works on
  NoBlock, a1, a2, b1, b2, c1, c2, far, g0, host, i1, i2, m1, n1, n2, n3, name,
  near, p1, p2, t1, t2, x1

-----------------------------------------------------------------------------
(* Sessions.  One host is dialed by its number (n1) and by two names (n2,
   n3), and connects to us (i1, i2): a connection to a name shows the socket
   address n1; n1, i1 and i2 are charged under the same key. *)

SessionRawAddr == [a \in {n1, n2, n3, i1, i2} |-> IF a \in {n2, n3} THEN n1 ELSE a]

SessionQuotaKey == [a \in {n1, n2, n3, i1, i2} |-> IF a \in {n2, n3} THEN name ELSE host]

-----------------------------------------------------------------------------
(* Handshakes between two ends of this code, or with an odd peer. *)

L(v, c, g) == [pv |-> v, chain |-> c, genesis |-> g]
Cmd(c) == [cmd |-> c]
Version(l) == [cmd |-> "version", v |-> l]
Sendcmpct(m, v) == [cmd |-> "sendcmpct", mode |-> m, version |-> v]
PairLocals == {L(1, "c", "g"), L(2, "c", "g"), L(3, "c", "g"), L(1, "d", "g"), L(2, "c", "h")}
OneLocal == {L(1, "c", "g")}
SomeOddMsgs ==
  {Version(L(0, "c", "g")), Version(L(2, "c", "g")), Version(L(4, "c", "g")), Version(L(1, "d", "g")),
   Cmd("verack"), Cmd("ping"), Cmd("getaddr"), Cmd("pong"),
   Sendcmpct(1, 1), Sendcmpct(3, 1), [cmd |-> "addr", payload |-> 1]}
FewOddMsgs == {Version(L(1, "c", "g")), Cmd("verack"), Cmd("ping")}
NoOddMsgs == {}

-----------------------------------------------------------------------------
(* Frames of every kind; one long frame and announcements for liveness. *)

Frame(k, l) == [kind |-> k, len |-> l]

\* A frame of every kind; budgets of an empty and of a long payload differ.
SomeFrames == {Frame("ping", 0), Frame("cmpct", 0), Frame("quiet", 1), Frame("badhdr", 0), Frame("badsum", 0)}

\* For liveness: a peer that only announces, and one long frame.
FewFrames == {Frame("cmpct", 0), Frame("quiet", 1)}

Both == {TRUE, FALSE}
Live == {TRUE}

-----------------------------------------------------------------------------
(* Compact blocks from an honest, possibly slow peer and from one that
   sends any sort of message at any time. *)

TwoBlocks == {b1, b2}
HonestCmpct == {"whole", "full", "part", "odd"}
HonestAnswers == {"ok", "mismatch"}
NoStrays == {}
AnyCmpct == {"whole", "full", "part", "odd", "bad", "nopow"}
AnyBlockTxn == {"ok", "mismatch", "bad", "big", "bare", "short"}

-----------------------------------------------------------------------------
(* Block download: node 1 is behind node 2 or on a fork of its own. *)

\* A common part, then own blocks: node 1 is behind node 2 or on a fork.
Path(common, m, k) == [i \in 1 .. (common + k) |-> IF i <= common THEN 2 ELSE m]
Pair(a, b) == [n \in {1, 2} |-> IF n = 1 THEN a ELSE b]
Forks == {Pair(Path(c, 1, k), Path(c, 2, j)) : c \in 0 .. 4, k \in 0 .. 2, j \in 0 .. 7}
Prefixes == {Pair(Path(c, 1, 0), Path(c, 2, j)) : c \in 0 .. 3, j \in 0 .. 4}

-----------------------------------------------------------------------------
(* Processes on one data directory. *)

Line == [create |-> FALSE, dry |-> FALSE, scan |-> FALSE, mine |-> "no", rpc |-> TRUE,
         genesis |-> "g", defect |-> "none"]

NodeChains == {"g", "h"}

(* Two writers: one creates, one opens; one serves, one mines and exits.   *)
WriterConfigs == {[Line EXCEPT !.create = TRUE, !.mine = "exit"], [Line EXCEPT !.rpc = FALSE],
                  [Line EXCEPT !.genesis = "h", !.mine = "serve"]}

(* Every way to be refused, and the read-only modes, beside a writer.      *)
ReaderConfigs == {[Line EXCEPT !.dry = TRUE], [Line EXCEPT !.scan = TRUE],
                  [Line EXCEPT !.create = TRUE, !.dry = TRUE],
                  [Line EXCEPT !.create = TRUE, !.scan = TRUE],
                  [Line EXCEPT !.defect = "config"], [Line EXCEPT !.defect = "genesis"],
                  [Line EXCEPT !.defect = "genesis", !.scan = TRUE],
                  [Line EXCEPT !.genesis = "no hash"],
                  [Line EXCEPT !.create = TRUE, !.mine = "exit"]}

ServeConfigs == {Line, [Line EXCEPT !.rpc = FALSE, !.mine = "serve"]}

File(kind, of, len) == [kind |-> kind, of |-> of, len |-> len]
NoFile == File("absent", "no chain", 0)
BadFile == File("damaged", "no chain", 0)
NoRows == File("ok", "no chain", 0)
Rows(of, len) == File("ok", of, len)

Disk(d, l, m, i, s, t) ==
  [dir |-> d, leaf |-> l, made |-> m, index |-> i, snapshot |-> s, scratch |-> t]
NoDisk == Disk(FALSE, "absent", 0, NoFile, NoFile, {})
OwnDisk == Disk(TRUE, "ok", 4, Rows("g", 1), Rows("g", 1), {"data"})

WriterDisks == {NoDisk, Disk(TRUE, "absent", 4, Rows("h", 1), NoFile, {"store"}),
                Disk(TRUE, "absent", 0, NoFile, Rows("g", 1), {})}
ReaderDisks == {NoDisk, OwnDisk, Disk(TRUE, "absent", 2, NoFile, NoFile, {}),
                Disk(TRUE, "ok", 4, BadFile, NoFile, {}),
                Disk(TRUE, "unusable", 4, NoRows, BadFile, {"store"})}
ServeDisks == {OwnDisk}

-----------------------------------------------------------------------------
(* Two branches of the genesis g0: g0 a1 a2 and g0 b1 b2, of which b2 wins
   the tie; m1 on a1 fails the basic validation, x1 on b1 connect_block only. *)

EngineBlock == {g0, a1, a2, b1, b2, m1, x1}

EngineChain ==
    [b \in EngineBlock |->
        CASE b = g0 -> <<g0>>
          [] b = a1 -> <<g0, a1>>
          [] b = a2 -> <<g0, a1, a2>>
          [] b = b1 -> <<g0, b1>>
          [] b = b2 -> <<g0, b1, b2>>
          [] b = m1 -> <<g0, a1, m1>>
          [] b = x1 -> <<g0, b1, x1>>]

\* Every block carries the same work.
EngineWork == [b \in EngineBlock |-> Len(EngineChain[b])]

\* Ties are won by a1 against b1 and by b2 against a2.
EngineHashRank ==
    [b \in EngineBlock |->
        CASE b = g0 -> 0 [] b = a1 -> 1 [] b = b2 -> 2 [] b = a2 -> 3
          [] b = b1 -> 4 [] b = m1 -> 6 [] b = x1 -> 7]

EngineInvalid == {m1, x1}

EngineMalformed == {m1}

\* Snapshots are written at a1 by size and at even heights by interval.
EngineSmallUtxo == {a1}


VARIABLES
  part,             \* the part at work; all others stand still
  session_pc, addr, aborted, checked, active_sessions, in_flight, outboxes, peers,
  aliases, refs, closing, owner, charged, starts,
  hello_pc, local, peer, chan, clock, limit, open, late, last, odds,
  service, now, frame_open, frame_pc, wake, stream, pos, avail, got, fs, prog, abs,
  exp, w, outLeft, queued, budget, after, msg, delay,
  stored, orphaned, out, expired, cmpct_late, ban, cmpct_pc, cmpct_msg, resp, inq,
  todo, sends, heard, asked, dropped,
  tip, has, orphans, rbest, sync_chan, mined,
  main, signal, ready, frozen, rpc_stop, active, loop, current, joined, fault, code,
  rpc_pc, kind, answer, locks, poisoned, panics, booted, pooled, evicted, applied,
  consumed, announced, seen, before, rpc_late,
  blocks, headers, undos, disk_index, disk_state, unsynced, lost, stage,
  chain_state, canonical, tip_timestamp, persistence_fault, reload_error,
  engine_owner, stable_tip, job,
  dir, leaf, holder, made, index, snapshot, scratch, proc

-----------------------------------------------------------------------------
(* The parts. *)

Sessions == INSTANCE PeerSessions WITH
  Threads <- {t1, t2}, Dialed <- {n2, n3}, Inbound <- {i1},
  RawAddr <- SessionRawAddr, QuotaKey <- SessionQuotaKey, MaxPeers <- 2,
  OUTBOUND_SLOT_RESERVE <- 2, MaxStarts <- 3, pc <- session_pc

OneSession == INSTANCE PeerSessions WITH
  Threads <- {t1, t2}, Dialed <- {n1, n2, n3}, Inbound <- {i1, i2},
  RawAddr <- SessionRawAddr, QuotaKey <- SessionQuotaKey, MaxPeers <- 1,
  OUTBOUND_SLOT_RESERVE <- 2, MaxStarts <- 4, pc <- session_pc

SomeSessions == INSTANCE PeerSessions WITH
  Threads <- {t1, t2}, Dialed <- {n1}, Inbound <- {i1}, RawAddr <- SessionRawAddr,
  QuotaKey <- SessionQuotaKey, MaxPeers <- 2, OUTBOUND_SLOT_RESERVE <- 2,
  MaxStarts <- 3, pc <- session_pc

Handshakes == INSTANCE Handshake WITH
  Nodes <- {near, far}, Odd <- {}, Locals <- PairLocals, OddMsgs <- NoOddMsgs,
  MaxOdd <- 0, Budget <- 2, WriteDeadline <- 1, MaxClock <- 5, BanThreshold <- 20,
  MaxVersion <- 3, pc <- hello_pc

OddHandshakes == INSTANCE Handshake WITH
  Nodes <- {near, far}, Odd <- {far}, Locals <- OneLocal, OddMsgs <- SomeOddMsgs,
  MaxOdd <- 3, Budget <- 2, WriteDeadline <- 1, MaxClock <- 5, BanThreshold <- 20,
  MaxVersion <- 3, pc <- hello_pc

FewHandshakes == INSTANCE Handshake WITH
  Nodes <- {near, far}, Odd <- {far}, Locals <- OneLocal, OddMsgs <- FewOddMsgs,
  MaxOdd <- 3, Budget <- 2, WriteDeadline <- 1, MaxClock <- 5, BanThreshold <- 20,
  MaxVersion <- 3, pc <- hello_pc

AllFrames == INSTANCE FrameTransport WITH
  Frames <- SomeFrames, WIRE_HEADER_SIZE <- 2, STREAM_READ_CHUNK_BYTES <- 2,
  FRAME_MINIMUM_BUDGET <- 1, FRAME_BUDGET_NUMERATOR <- 3,
  FRAME_BUDGET_DENOMINATOR <- 2, read_deadline <- 2, write_deadline <- 2,
  PollInterval <- 1, CompactTimeout <- 2, OutLen <- 0, MaxQueued <- 1,
  MaxDelay <- 0, Drivers <- Both, open <- frame_open, pc <- frame_pc

LiveFrames == INSTANCE FrameTransport WITH
  Frames <- FewFrames, WIRE_HEADER_SIZE <- 2, STREAM_READ_CHUNK_BYTES <- 2,
  FRAME_MINIMUM_BUDGET <- 1, FRAME_BUDGET_NUMERATOR <- 3,
  FRAME_BUDGET_DENOMINATOR <- 2, read_deadline <- 2, write_deadline <- 2,
  PollInterval <- 1, CompactTimeout <- 2, OutLen <- 0, MaxQueued <- 1,
  MaxDelay <- 0, Drivers <- Live, open <- frame_open, pc <- frame_pc

Honest == INSTANCE CompactRelay WITH
  Block <- TwoBlocks, CmpctSorts <- HonestCmpct, AnswerSorts <- HonestAnswers,
  StraySorts <- NoStrays, MaxSends <- 2, late <- cmpct_late, pc <- cmpct_pc,
  msg <- cmpct_msg

AnyPeer == INSTANCE CompactRelay WITH
  Block <- TwoBlocks, CmpctSorts <- AnyCmpct, AnswerSorts <- AnyBlockTxn,
  StraySorts <- AnyBlockTxn, MaxSends <- 2, late <- cmpct_late, pc <- cmpct_pc,
  msg <- cmpct_msg

CatchUp == INSTANCE BlockSync WITH
  Nodes <- {1, 2}, StartTips <- Forks, Miners <- {}, MaxMined <- 0, InvLimit <- 4,
  MaxBlocks <- 2, MaxBytes <- 3, BigHeights <- {2, 3, 5}, Dense <- 2,
  LocatorLimit <- 4, MaxDelta <- 2, chan <- sync_chan

Mining == INSTANCE BlockSync WITH
  Nodes <- {1, 2}, StartTips <- Prefixes, Miners <- {1, 2}, MaxMined <- 2,
  InvLimit <- 4, MaxBlocks <- 2, MaxBytes <- 3, BigHeights <- {3}, Dense <- 2,
  LocatorLimit <- 4, MaxDelta <- 2, chan <- sync_chan

Rpc == INSTANCE RpcServer WITH
  Conns <- {c1, c2}, Routes <- {"ready", "submit", "mine"},
  MAX_CONCURRENT_RPC_CONNS <- 2, MaxPanics <- 1, stop <- rpc_stop, pc <- rpc_pc,
  late <- rpc_late

\* The reads of the pool beside submissions, those of the chain beside mining.
RpcPoolReads == INSTANCE RpcServer WITH
  Conns <- {c1, c2}, Routes <- {"submit", "get_mempool", "get_tx", "tx_status"},
  MAX_CONCURRENT_RPC_CONNS <- 2, MaxPanics <- 0, stop <- rpc_stop, pc <- rpc_pc,
  late <- rpc_late

RpcChainReads == INSTANCE RpcServer WITH
  Conns <- {c1, c2}, Routes <- {"mine", "get_tip", "get_block", "metrics"},
  MAX_CONCURRENT_RPC_CONNS <- 2, MaxPanics <- 0, stop <- rpc_stop, pc <- rpc_pc,
  late <- rpc_late

RpcStop == INSTANCE RpcServer WITH
  Conns <- {c1, c2}, Routes <- {"mine"}, MAX_CONCURRENT_RPC_CONNS <- 1,
  MaxPanics <- 1, stop <- rpc_stop, pc <- rpc_pc, late <- rpc_late

Engine == INSTANCE SyncEngine WITH
  Block <- EngineBlock, Genesis <- g0, Chain <- EngineChain, Work <- EngineWork,
  HashRank <- EngineHashRank, Malformed <- EngineMalformed,
  Invalid <- EngineInvalid, SmallUtxo <- EngineSmallUtxo, SnapshotInterval <- 2,
  TargetFromStore <- TRUE, WindowSize <- 2, ManualDisconnect <- TRUE, MaxLost <- 1,
  owner <- engine_owner

Writers == INSTANCE NodeRun WITH
  Procs <- {p1, p2}, Chains <- NodeChains, Configs <- WriterConfigs, MaxLen <- 1,
  Disks <- WriterDisks

Readers == INSTANCE NodeRun WITH
  Procs <- {p1, p2}, Chains <- NodeChains, Configs <- ReaderConfigs, MaxLen <- 2,
  Disks <- ReaderDisks

Serving == INSTANCE NodeRun WITH
  Procs <- {p1}, Chains <- NodeChains, Configs <- ServeConfigs, MaxLen <- 2,
  Disks <- ServeDisks

-----------------------------------------------------------------------------
(* One part works; the variables of the others are not in use. *)

SessionVars == <<session_pc, addr, aborted, checked, active_sessions, in_flight,
    outboxes, peers, aliases, refs, closing, owner, charged, starts>>
HelloVars == <<hello_pc, local, peer, chan, clock, limit, open, late, last, odds>>
FrameVars == <<service, now, frame_open, frame_pc, wake, stream, pos, avail, got, fs,
    prog, abs, exp, w, outLeft, queued, budget, after, msg, delay>>
CmpctVars == <<stored, orphaned, out, expired, cmpct_late, ban, cmpct_pc, cmpct_msg,
    resp, inq, todo, sends, heard, asked, dropped>>
SyncVars == <<tip, has, orphans, rbest, sync_chan, mined>>
RpcVars == <<main, signal, ready, frozen, rpc_stop, active, loop, current, joined,
    fault, code, rpc_pc, kind, answer, locks, poisoned, panics, booted,
    pooled, evicted, applied, consumed, announced, seen, before,
    rpc_late>>
EngineVars == <<blocks, headers, undos, disk_index, disk_state, unsynced, lost, stage,
    chain_state, canonical, tip_timestamp, persistence_fault,
    reload_error, engine_owner, stable_tip, job>>
NodeVars == <<dir, leaf, holder, made, index, snapshot, scratch, proc>>

NoSession ==
  /\ session_pc = 0 /\ addr = 0 /\ aborted = 0 /\ checked = 0 /\ active_sessions = 0
  /\ in_flight = 0 /\ outboxes = 0 /\ peers = 0 /\ aliases = 0 /\ refs = 0
  /\ closing = 0 /\ owner = 0 /\ charged = 0 /\ starts = 0
NoHello ==
  /\ hello_pc = 0 /\ local = 0 /\ peer = 0 /\ chan = 0 /\ clock = 0 /\ limit = 0
  /\ open = 0 /\ late = 0 /\ last = 0 /\ odds = 0
NoFrame ==
  /\ service = 0 /\ now = 0 /\ frame_open = 0 /\ frame_pc = 0 /\ wake = 0
  /\ stream = 0 /\ pos = 0 /\ avail = 0 /\ got = 0 /\ fs = 0 /\ prog = 0 /\ abs = 0
  /\ exp = 0 /\ w = 0 /\ outLeft = 0 /\ queued = 0 /\ budget = 0 /\ after = 0
  /\ msg = 0 /\ delay = 0
NoCmpct ==
  /\ stored = 0 /\ orphaned = 0 /\ out = 0 /\ expired = 0 /\ cmpct_late = 0 /\ ban = 0
  /\ cmpct_pc = 0 /\ cmpct_msg = 0 /\ resp = 0 /\ inq = 0 /\ todo = 0 /\ sends = 0
  /\ heard = 0 /\ asked = 0 /\ dropped = 0
NoSync ==
  /\ tip = 0 /\ has = 0 /\ orphans = 0 /\ rbest = 0 /\ sync_chan = 0 /\ mined = 0
NoRpc ==
  /\ main = 0 /\ signal = 0 /\ ready = 0 /\ frozen = 0 /\ rpc_stop = 0 /\ active = 0
  /\ loop = 0 /\ current = 0 /\ joined = 0 /\ fault = 0 /\ code = 0 /\ rpc_pc = 0
  /\ kind = 0 /\ answer = 0 /\ locks = 0 /\ poisoned = 0 /\ panics = 0 /\ booted = 0
  /\ pooled = 0 /\ evicted = 0 /\ applied = 0 /\ consumed = 0 /\ announced = 0
  /\ seen = 0 /\ before = 0 /\ rpc_late = 0
NoEngine ==
  /\ blocks = 0 /\ headers = 0 /\ undos = 0 /\ disk_index = 0 /\ disk_state = 0
  /\ unsynced = 0 /\ lost = 0 /\ stage = 0 /\ chain_state = 0 /\ canonical = 0
  /\ tip_timestamp = 0 /\ persistence_fault = 0 /\ reload_error = 0
  /\ engine_owner = 0 /\ stable_tip = 0 /\ job = 0
NoNode ==
  /\ dir = 0 /\ leaf = 0 /\ holder = 0 /\ made = 0 /\ index = 0 /\ snapshot = 0
  /\ scratch = 0 /\ proc = 0

AllVars == <<part, vars, SessionVars, HelloVars, FrameVars, CmpctVars, SyncVars,
  RpcVars, EngineVars, NodeVars>>

PartsInit ==
  /\ part \in Parts
  /\ Init
  /\ CASE part = "sessions" -> Sessions!Init
       [] part = "one session" -> OneSession!Init
       [] part = "sessions end" -> SomeSessions!Init
       [] OTHER -> NoSession
  /\ CASE part = "handshake" -> Handshakes!Init
       [] part = "odd handshake" -> OddHandshakes!Init
       [] part = "handshake settles" -> FewHandshakes!Init
       [] OTHER -> NoHello
  /\ CASE part = "frames" -> AllFrames!Init
       [] part = "frames end" -> LiveFrames!Init
       [] OTHER -> NoFrame
  /\ CASE part = "compact" -> Honest!Init
       [] part = "any compact" -> AnyPeer!Init
       [] OTHER -> NoCmpct
  /\ CASE part = "catch up" -> CatchUp!Init
       [] part = "mining" -> Mining!Init
       [] OTHER -> NoSync
  /\ CASE part = "rpc" -> Rpc!Init
       [] part = "rpc pool" -> RpcPoolReads!Init
       [] part = "rpc chain" -> RpcChainReads!Init
       [] part = "rpc stop" -> RpcStop!Init
       [] OTHER -> NoRpc
  /\ IF part = "engine" THEN Engine!Init ELSE NoEngine
  /\ CASE part = "writers" -> Writers!Init
       [] part = "readers" -> Readers!Init
       [] part = "serving" -> Serving!Init
       [] OTHER -> NoNode

PartsNext ==
  /\ UNCHANGED part
  /\ IF part = "lifecycle" THEN Next ELSE UNCHANGED vars
  /\ CASE part = "sessions" -> Sessions!Next
       [] part = "one session" -> OneSession!Next
       [] part = "sessions end" -> SomeSessions!Next
       [] OTHER -> UNCHANGED SessionVars
  /\ CASE part = "handshake" -> Handshakes!Next
       [] part = "odd handshake" -> OddHandshakes!Next
       [] part = "handshake settles" -> FewHandshakes!Next
       [] OTHER -> UNCHANGED HelloVars
  /\ CASE part = "frames" -> AllFrames!Next
       [] part = "frames end" -> LiveFrames!Next
       [] OTHER -> UNCHANGED FrameVars
  /\ CASE part = "compact" -> Honest!Next
       [] part = "any compact" -> AnyPeer!Next
       [] OTHER -> UNCHANGED CmpctVars
  /\ CASE part = "catch up" -> CatchUp!Next
       [] part = "mining" -> Mining!Next
       [] OTHER -> UNCHANGED SyncVars
  /\ CASE part = "rpc" -> Rpc!Next
       [] part = "rpc pool" -> RpcPoolReads!Next
       [] part = "rpc chain" -> RpcChainReads!Next
       [] part = "rpc stop" -> RpcStop!Next
       [] OTHER -> UNCHANGED RpcVars
  /\ IF part = "engine" THEN Engine!Next ELSE UNCHANGED EngineVars
  /\ CASE part = "writers" -> Writers!Next
       [] part = "readers" -> Readers!Next
       [] part = "serving" -> Serving!Next
       [] OTHER -> UNCHANGED NodeVars

PartsSpec == PartsInit /\ [][PartsNext]_AllVars

-----------------------------------------------------------------------------
(* Properties. *)

\* The RPC connections are interchangeable.
NodeSymmetry == Permutations({c1, c2})



\* One process at a time writes a data directory, from the lock to the exit;
\* readers and refused command lines leave it alone, another chain's directory
\* is not touched, what is opened is whole, and a serving process ends only
\* when told to (main.rs run).
DirectoryHasOneOwner ==
  /\ [](part = "writers" => /\ Writers!WorksUnderLock
                            /\ Writers!OpenedIsWhole
                            /\ Writers!FreshIsEmpty
                            /\ Writers!LoadsClean)
  /\ [](part = "serving" => Serving!CleanExitWasAsked)
  /\ [][/\ part = "writers" => Writers!ForeignIsUntouched
        /\ part = "readers" => /\ Readers!ReadersTouchNothing
                               /\ Readers!OnlyHolderWrites]_AllVars

-----------------------------------------------------------------------------
(* Progress. *)

\* The system runs every thread that can run, and time passes.  Reads,
\* resolutions and callbacks of the service have time limits or end by
\* themselves, and a session ends once the gate is closed; a blocked call
\* returns when its timeout is over; the peer of a compact session keeps
\* answering.  Nobody has to connect, announce, mine or send a signal, and a
\* nonce need not be found.
ProgressSpec ==
  /\ PartsSpec
  /\ WF_vars(part = "lifecycle" /\ Close)
  /\ \A r \in Roots : WF_vars(part = "lifecycle" /\ RootStep(r))
  /\ \A t \in Workers :
       /\ WF_vars(part = "lifecycle" /\ ~authorized /\ WorkerEnds(t))
       /\ WF_vars(part = "lifecycle" /\ ResolveTimesOut(t))
  /\ \A d \in Resolvers : WF_vars(part = "lifecycle" /\ ResolverEnds(d))
  /\ \A c \in Callbacks : WF_vars(part = "lifecycle" /\ CallbackEnds(c))
  /\ \A t \in {t1, t2} : WF_SessionVars(part = "sessions end" /\ SomeSessions!Advance(t))
  /\ WF_HelloVars(part = "handshake settles" /\ FewHandshakes!Tick)
  /\ \A n \in {near, far} :
       /\ WF_HelloVars(part = "handshake settles" /\ FewHandshakes!Start(n))
       /\ WF_HelloVars(part = "handshake settles" /\ FewHandshakes!Authorize(n))
       /\ WF_HelloVars(part = "handshake settles" /\ FewHandshakes!RecvTimeout(n))
       /\ WF_HelloVars(part = "handshake settles" /\ FewHandshakes!WriteTimeout(n))
  /\ WF_FrameVars(part = "frames end" /\ LiveFrames!Session)
  /\ WF_FrameVars(part = "frames end" /\ LiveFrames!Tick)
  /\ WF_FrameVars(part = "frames end" /\ frame_pc = "write" /\ now = wake /\ LiveFrames!WriteFails)
  /\ WF_CmpctVars(part = "compact" /\ Honest!Session)
  /\ WF_CmpctVars(part = "compact" /\ Honest!PeerAnswers)
  /\ \A n \in {1, 2} : /\ WF_SyncVars(part = "catch up" /\ CatchUp!Handle(n))
                       /\ WF_SyncVars(part = "mining" /\ Mining!Handle(n))
  /\ WF_RpcVars(part = "rpc stop" /\ RpcStop!MainStep)
  /\ WF_RpcVars(part = "rpc stop" /\ RpcStop!LoopStep)
  /\ \A c \in {c1, c2} : WF_RpcVars(part = "rpc stop" /\ RpcStop!HandlerStep(c))
  /\ WF_NodeVars(part = "serving" /\ Serving!Main(p1))
  /\ WF_NodeVars(part = "serving" /\ Serving!StopThread(p1))
  /\ WF_NodeVars(part = "serving" /\ Serving!ServeSave(p1))
  /\ WF_EngineVars(part = "engine" /\ Engine!Step)

\* Somebody waits: a caller of close(); a session that tears down; a peer
\* thread in its handshake; a session whose service has closed or whose compact
\* request has expired; a block announced in compact form; a node behind its
\* peer; two nodes that mine while they synchronise; a process told to stop; the
\* caller of an operation of the sync engine.
Waiting ==
  CASE part = "lifecycle" -> closer = "stop"
    [] part = "sessions end" -> session_pc[t1] = "t_acquire"
    [] part = "frames end" -> ~frame_open \/ LiveFrames!RequestExpired
    [] part = "compact" -> b1 \in heard
    [] part = "rpc stop" -> signal
    [] part = "serving" -> proc[p1].signal = "caught"
    [] OTHER -> TRUE

\* What they wait for: CLOSED; the worker gone; the handshake over; the session
\* over or the request replaced; the block stored, kept as an orphan or its
\* request dropped in a waiting handler; the peer's height reached; one tip and
\* nothing left to read; the process gone; the operation over, whichever of its
\* writes failed.
Settled ==
  CASE part = "lifecycle" -> phase = "Closed"
    [] part = "sessions end" -> session_pc[t1] = "idle"
    [] part = "handshake settles" -> hello_pc[near] \notin FewHandshakes!HandshakePc
    [] part = "frames end" -> frame_pc = "over" \/ (frame_open /\ exp = None)
    [] part = "compact" -> b1 \in stored \cup orphaned \cup dropped \/ cmpct_pc = "over"
    [] part = "catch up" -> \A n \in {1, 2} : Len(tip[n]) >= rbest[n]
    [] part = "mining" -> tip[1] = tip[2] /\ sync_chan[1] = <<>> /\ sync_chan[2] = <<>>
    [] part = "rpc stop" -> main = "exit"
    [] part = "serving" -> proc[p1].pc \in Serving!Off
    [] part = "engine" -> stage \in {"idle", "down"}

\* Nobody waits for ever: no teardown, close, handshake, request or download
\* hangs on a peer that stalls, a thread that panics or another waiter, and a
\* requested stop ends the process.
EveryWaitEnds == Waiting ~> Settled
=============================================================================
