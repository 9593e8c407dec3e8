------------------------------ MODULE RpcServer ------------------------------
(***************************************************************************)
(* The devnet RPC server of the Rust node from its start to its close:     *)
(* the readiness gate, the accept loop and its admission gate, the handler *)
(* threads with the locks they take, and the main thread, which starts the *)
(* server, waits for the stop signal, closes the server in bounded passes  *)
(* and only then closes the peer service.                                  *)
(*                                                                         *)
(* The threads are the main thread, the accept loop, and one handler per   *)
(* admitted connection.  A step ends where a thread gives up or takes a    *)
(* lock, or reads or writes something another thread writes.  What a       *)
(* transaction or a block is, and which of them are valid, is left to      *)
(* modules TxPool and SyncEngine: here they succeed or fail.  How a        *)
(* request is read is module HttpRead.                                     *)
(***************************************************************************)
EXTENDS Naturals, FiniteSets

CONSTANTS
    Conns,                      \* the connections clients open
    Routes,                     \* what they ask for
    MAX_CONCURRENT_RPC_CONNS,
    MaxPanics,                  \* bound: panics of handlers and of the loop
    None                        \* no connection

VARIABLES
    main,       \* what the main thread does next
    signal,     \* shutdown_requested: SIGINT or SIGTERM has been seen
    ready,      \* the readiness gate
    frozen,     \* the admission gate
    stop,       \* lifecycle_stop
    active,     \* active_handlers
    loop,       \* what the accept loop does next
    current,    \* the socket it holds
    joined,     \* the accept loop's join handle has been consumed
    fault,      \* terminal_fault
    code,       \* exit code of the process
    pc,         \* what each connection's handler does next
    kind,       \* the route each connection asks for
    answer,     \* the status each handler will write or wrote
    locks,      \* owner of each mutex
    poisoned,   \* the mutexes a panic has poisoned
    panics,     \* panics so far
    booted,     \* who applied the canonical genesis; None: it was on disk
    pooled,     \* the connections whose transaction entered the pool
    evicted,    \* of these, the ones an applied block took out of it
    applied,    \* the connections whose block was applied
    consumed,   \* the connections whose block's DA sets were consumed
    announced,  \* the connections whose transaction or block was announced
    seen,       \* what each read-only request was shown of them
    before,     \* history: the requests answered before each was made
    late        \* history: the operations begun after stop was published

server == <<main, signal, ready, frozen, stop, joined, fault, code>>
accept == <<loop, current>>
effects == <<booted, pooled, evicted, applied, consumed, announced>>
views == <<seen, before, late>>
vars == <<server, active, accept, pc, kind, answer, locks, poisoned, panics, effects, views>>

Reads == {"get_tip", "get_block", "get_mempool", "get_tx", "tx_status", "metrics"}
Mutex == {"rpc_op", "engine", "pool"}
Free == [m \in Mutex |-> None]

\* Where a handler thread is, and has one of the admitted units.
Running == {"read", "op", "snapshot", "store", "admit", "add", "engine", "pool",
            "boot", "search", "preapply", "apply", "accepted", "consume",
            "announce", "see", "look", "find", "write"}

Init ==
    /\ main = "boot" /\ signal = FALSE /\ ready = "NotReady"
    /\ frozen = FALSE /\ stop = FALSE /\ active = 0
    /\ loop = "none" /\ current = None /\ joined = FALSE
    /\ fault = FALSE /\ code = 0
    /\ pc = [c \in Conns |-> "none"]
    /\ kind \in [Conns -> Routes]
    /\ answer = [c \in Conns |-> 0]
    /\ locks = Free /\ poisoned = {} /\ panics = 0
    /\ booted \in {{}, {None}}
    /\ pooled = {} /\ evicted = {} /\ applied = {} /\ consumed = {} /\ announced = {}
    /\ seen = [c \in Conns |-> {}] /\ before = [c \in Conns |-> {}]
    /\ late = {}

-----------------------------------------------------------------------------
(* The readiness gate.                                                     *)

mark_shutdown == ready' = "Shutdown"

is_ready(c) ==
    /\ ready' = IF signal THEN "Shutdown" ELSE ready
    /\ answer' = [answer EXCEPT ![c] = IF ready' = "Ready" THEN 200 ELSE 503]

-----------------------------------------------------------------------------
(* The main thread: start.                                                 *)

RequestStop ==
    /\ ~signal
    /\ signal' = TRUE
    /\ UNCHANGED <<main, ready, frozen, stop, joined, fault, code, active, accept, pc,
                   kind, answer, locks, poisoned, panics, effects, views>>

\* The stop signal is looked at before the server is started ...
CheckBeforeStart ==
    /\ main = "boot"
    /\ main' = IF signal THEN "p2p" ELSE "start"
    /\ UNCHANGED <<signal, ready, frozen, stop, joined, fault, code, active, accept, pc,
                   kind, answer, locks, poisoned, panics, effects, views>>

\* ... and again when it stamps itself ready; binding the address, and
\* spawning the accept loop, can fail.
start_devnet_rpc_server ==
    /\ main = "start"
    /\ \/ /\ main' = "p2p" /\ code' = 2
          /\ UNCHANGED <<ready, loop>>
       \/ /\ ~signal
          /\ mark_shutdown /\ main' = "p2p" /\ code' = 2
          /\ UNCHANGED loop
       \/ /\ signal
          /\ mark_shutdown /\ main' = "p2p"
          /\ UNCHANGED <<code, loop>>
       \/ /\ ~signal
          /\ ready' = "Ready" /\ loop' = "poll" /\ main' = "run"
          /\ UNCHANGED code
    /\ UNCHANGED <<signal, frozen, stop, joined, fault, active, current, pc, kind, answer,
                   locks, poisoned, panics, effects, views>>

-----------------------------------------------------------------------------
(* The main thread: close, in passes that a diagnostic timeout repeats.    *)

BeginPass ==
    /\ \/ main = "run" /\ signal
       \/ main = "mark"
    /\ mark_shutdown
    /\ main' = "freeze"
    /\ UNCHANGED <<signal, frozen, stop, joined, fault, code, active, accept, pc, kind,
                   answer, locks, poisoned, panics, effects, views>>

freeze_admission ==
    /\ main = "freeze"
    /\ frozen' = TRUE
    /\ main' = "publish"
    /\ UNCHANGED <<signal, ready, stop, joined, fault, code, active, accept, pc, kind,
                   answer, locks, poisoned, panics, effects, views>>

PublishStop ==
    /\ main = "publish"
    /\ stop' = TRUE
    /\ main' = "resolve"
    /\ UNCHANGED <<signal, ready, frozen, joined, fault, code, active, accept, pc, kind,
                   answer, locks, poisoned, panics, effects, views>>

\* Joined already, or done now, or still pending when the pass times out.
resolve_accept_loop ==
    /\ main = "resolve"
    /\ \/ /\ joined \/ loop \in {"done", "panicked"}
          /\ joined' = TRUE
          /\ fault' = (fault \/ (~joined /\ loop = "panicked"))
          /\ main' = "drain"
       \/ /\ ~joined /\ loop \notin {"done", "panicked"}
          /\ main' = "mark"
          /\ UNCHANGED <<joined, fault>>
    /\ UNCHANGED <<signal, ready, frozen, stop, code, active, accept, pc, kind, answer,
                   locks, poisoned, panics, effects, views>>

wait_for_handlers ==
    /\ main = "drain"
    /\ \/ /\ active = 0
          /\ main' = "p2p"
          /\ code' = IF fault THEN 1 ELSE 0
       \/ /\ active # 0
          /\ main' = "mark"
          /\ UNCHANGED code
    /\ UNCHANGED <<signal, ready, frozen, stop, joined, fault, active, accept, pc, kind,
                   answer, locks, poisoned, panics, effects, views>>

close_p2p ==
    /\ main = "p2p"
    /\ main' = "exit"
    /\ UNCHANGED <<signal, ready, frozen, stop, joined, fault, code, active, accept, pc,
                   kind, answer, locks, poisoned, panics, effects, views>>

-----------------------------------------------------------------------------
(* The accept loop.                                                        *)

Connect(c) ==
    /\ pc[c] = "none"
    /\ loop \notin {"none", "done", "panicked"}
    /\ pc' = [pc EXCEPT ![c] = "backlog"]
    /\ before' = [before EXCEPT ![c] =
          {d \in Conns : kind[c] \in Reads /\ pc[d] = "done" /\ answer[d] = 200}]
    /\ UNCHANGED <<server, active, accept, kind, answer, locks, poisoned, panics, effects,
                   seen, late>>

\* while !stop { accept ... }: a socket, or nothing yet.
LoopPoll ==
    /\ loop = "poll"
    /\ loop' = IF stop THEN "done" ELSE "accept"
    /\ UNCHANGED <<server, active, current, pc, kind, answer, locks, poisoned, panics,
                   effects, views>>

LoopAccept ==
    /\ loop = "accept"
    /\ \/ /\ \A c \in Conns : pc[c] # "backlog"
          /\ loop' = "poll"
          /\ UNCHANGED current
       \/ \E c \in Conns :
            /\ pc[c] = "backlog"
            /\ current' = c
            /\ loop' = "admit"
    /\ UNCHANGED <<server, active, pc, kind, answer, locks, poisoned, panics, effects, views>>

admit_under_gate ==
    /\ loop = "admit"
    /\ IF frozen \/ active >= MAX_CONCURRENT_RPC_CONNS
       THEN /\ pc' = [pc EXCEPT ![current] = "dropped"]
            /\ loop' = "poll" /\ current' = None
            /\ UNCHANGED active
       ELSE /\ active' = active + 1
            /\ loop' = "spawn"
            /\ UNCHANGED <<pc, current>>
    /\ UNCHANGED <<server, kind, answer, locks, poisoned, panics, effects, views>>

SpawnHandler ==
    /\ loop = "spawn"
    /\ \/ /\ pc' = [pc EXCEPT ![current] = "read"]
          /\ UNCHANGED active
       \/ /\ pc' = [pc EXCEPT ![current] = "dropped"]
          /\ active' = active - 1
    /\ loop' = "poll" /\ current' = None
    /\ UNCHANGED <<server, kind, answer, locks, poisoned, panics, effects, views>>

\* The loop's done channel is signalled by a destructor, also on a panic.
LoopPanics ==
    /\ loop = "poll"
    /\ panics < MaxPanics
    /\ loop' = "panicked"
    /\ panics' = panics + 1
    /\ UNCHANGED <<server, active, current, pc, kind, answer, locks, poisoned, effects, views>>

-----------------------------------------------------------------------------
(* Handlers.                                                               *)

Goto(c, to) == pc' = [pc EXCEPT ![c] = to]
Answer(c, status) == answer' = [answer EXCEPT ![c] = status]
Held(c) == {m \in Mutex : locks[m] = c}
Dropped(c, ms) == [m \in Mutex |-> IF m \in ms /\ locks[m] = c THEN None ELSE locks[m]]

\* A handler returns its response: the guards it still holds are dropped.
Respond(c, status) ==
    /\ Goto(c, "write")
    /\ Answer(c, status)
    /\ locks' = Dropped(c, Mutex)

\* Take a mutex and go on, or answer 503 when it is poisoned.
Lock(c, m, to) ==
    /\ locks[m] = None
    /\ IF m \in poisoned
       THEN Respond(c, 503)
       ELSE /\ locks' = [locks EXCEPT ![m] = c]
            /\ Goto(c, to)
            /\ UNCHANGED answer

same == <<server, active, accept, kind, poisoned, panics>>

\* read_http_request, then route_request: a request that cannot be read or
\* is not what the route takes is refused before any lock is taken.
ReadAndRoute(c) ==
    /\ pc[c] = "read"
    /\ \/ Goto(c, "write") /\ Answer(c, 400)
       \/ kind[c] = "mine" /\ Goto(c, "write") /\ Answer(c, 503)
       \/ /\ Goto(c, CASE kind[c] = "ready" -> "see"
                       [] kind[c] \in Reads -> "look"
                       [] OTHER -> "op")
          /\ UNCHANGED answer
    /\ UNCHANGED <<same, locks, effects, views>>

handle_ready(c) ==
    /\ pc[c] = "see"
    /\ is_ready(c)
    /\ Goto(c, "write")
    /\ UNCHANGED <<main, signal, frozen, stop, joined, fault, code, active, accept, kind,
                   locks, poisoned, panics, effects, views>>

See(c, what) == seen' = [seen EXCEPT ![c] = what]

\* A read-only route looks under a mutex and shows what it saw.
LookUnder(c, m, what) ==
    /\ locks[m] = None
    /\ IF m \in poisoned
       THEN Respond(c, 503) /\ UNCHANGED seen
       ELSE Respond(c, 200) /\ See(c, what)

handle_get_tip(c) ==
    /\ pc[c] = "look" /\ kind[c] = "get_tip"
    /\ LookUnder(c, "engine", applied)
    /\ UNCHANGED <<same, effects, before, late>>

\* No mutex: the store is opened anew, which can fail, and its index read.
handle_get_block(c) ==
    /\ pc[c] = "look" /\ kind[c] = "get_block"
    /\ \/ \E status \in {400, 503} : Respond(c, status) /\ UNCHANGED seen
       \/ Respond(c, 200) /\ See(c, applied)
    /\ UNCHANGED <<same, effects, before, late>>

handle_get_mempool(c) ==
    /\ pc[c] = "look" /\ kind[c] = "get_mempool"
    /\ LookUnder(c, "pool", pooled \ evicted)
    /\ UNCHANGED <<same, effects, before, late>>

\* A poisoned pool is reported before the query is parsed, and again if it
\* was poisoned between the two.
CheckPoison(c) ==
    /\ pc[c] = "look" /\ kind[c] \in {"get_tx", "tx_status"}
    /\ \/ "pool" \in poisoned /\ Respond(c, 503)
       \/ "pool" \notin poisoned /\ Respond(c, 400)
       \/ "pool" \notin poisoned /\ Goto(c, "find") /\ UNCHANGED <<locks, answer>>
    /\ UNCHANGED <<same, effects, views>>

handle_get_tx(c) ==
    /\ pc[c] = "find" /\ kind[c] = "get_tx"
    /\ LookUnder(c, "pool", pooled \ evicted)
    /\ UNCHANGED <<same, effects, before, late>>

handle_tx_status(c) ==
    /\ pc[c] = "find" /\ kind[c] = "tx_status"
    /\ LookUnder(c, "pool", pooled \ evicted)
    /\ UNCHANGED <<same, effects, before, late>>

\* The engine's numbers and then the pool's, each zero when poisoned.
render_prometheus_metrics(c) ==
    /\ kind[c] = "metrics"
    /\ \/ /\ pc[c] = "look" /\ locks["engine"] = None
          /\ See(c, IF "engine" \in poisoned THEN {} ELSE applied)
          /\ Goto(c, "find")
          /\ UNCHANGED <<locks, answer>>
       \/ /\ pc[c] = "find" /\ locks["pool"] = None
          /\ See(c, IF "pool" \in poisoned THEN seen[c] ELSE seen[c] \cup (pooled \ evicted))
          /\ Respond(c, 200)
    /\ UNCHANGED <<same, effects, before, late>>

\* submit_tx and mine_next run one at a time, under rpc_op_lock.
LockOp(c) ==
    /\ pc[c] = "op"
    /\ Lock(c, "rpc_op", IF kind[c] = "submit" THEN "snapshot" ELSE "engine")
    /\ late' = IF stop THEN late \cup {c} ELSE late
    /\ UNCHANGED <<same, effects, seen, before>>

\* The chain state is copied under the engine's mutex, which is released.
TakeSnapshot(c) ==
    /\ pc[c] = "snapshot"
    /\ locks["engine"] = None
    /\ IF "engine" \in poisoned
       THEN Respond(c, 503)
       ELSE Goto(c, "store") /\ UNCHANGED <<locks, answer>>
    /\ UNCHANGED <<same, effects, views>>

OpenStore(c) ==
    /\ pc[c] = "store"
    /\ \/ Respond(c, 503)
       \/ Goto(c, "admit") /\ UNCHANGED <<locks, answer>>
    /\ UNCHANGED <<same, effects, views>>

\* Under the pool's mutex: the transaction's own form first, then the
\* lifecycle, the last look before the pool changes.
CheckAdmission(c) ==
    /\ pc[c] = "admit"
    /\ locks["pool"] = None
    /\ \/ "pool" \in poisoned /\ Respond(c, 503)
       \/ "pool" \notin poisoned /\ Respond(c, 422)
       \/ "pool" \notin poisoned /\ stop /\ Respond(c, 503)
       \/ "pool" \notin poisoned /\ ~stop /\ Lock(c, "pool", "add")
    /\ UNCHANGED <<same, effects, views>>

\* add_tx_with_source; rpc_op is released before the announcement.
AddTx(c) ==
    /\ pc[c] = "add"
    /\ \/ /\ pooled' = pooled \cup {c}
          /\ Goto(c, "announce")
          /\ locks' = Dropped(c, Mutex)
          /\ UNCHANGED answer
       \/ /\ \E status \in {409, 422, 503} : Respond(c, status)
          /\ UNCHANGED pooled
    /\ UNCHANGED <<same, booted, evicted, applied, consumed, announced, views>>

LockEngine(c) ==
    /\ pc[c] = "engine"
    /\ Lock(c, "engine", "pool")
    /\ UNCHANGED <<same, effects, views>>

LockPool(c) ==
    /\ pc[c] = "pool"
    /\ Lock(c, "pool", "boot")
    /\ UNCHANGED <<same, effects, views>>

\* Miner::new can refuse; then the check before the bootstrap, and the
\* bootstrap, which fails or makes the chain non-empty.
PreBootstrap(c) ==
    /\ pc[c] = "boot"
    /\ \/ Respond(c, 503) /\ UNCHANGED booted
       \/ /\ ~stop
          /\ \/ Respond(c, 422) /\ UNCHANGED booted
             \/ /\ booted' = IF booted = {} THEN {c} ELSE booted
                /\ Goto(c, "search")
                /\ UNCHANGED <<locks, answer>>
    /\ UNCHANGED <<same, pooled, evicted, applied, consumed, announced, views>>

\* The check at each quantum of the nonce search.
NonceQuantum(c) ==
    /\ pc[c] = "search"
    /\ stop
    /\ Respond(c, 503)
    /\ UNCHANGED <<same, effects, views>>

\* A quantum finds a nonce, or the template or the nonces end in an error; a
\* quantum that finds none changes nothing.
Search(c) ==
    /\ pc[c] = "search"
    /\ \/ Respond(c, 422)
       \/ Goto(c, "preapply") /\ UNCHANGED <<locks, answer>>
    /\ UNCHANGED <<same, effects, views>>

PreApply(c) ==
    /\ pc[c] = "preapply"
    /\ IF stop
       THEN Respond(c, 503)
       ELSE Goto(c, "apply") /\ UNCHANGED <<locks, answer>>
    /\ UNCHANGED <<same, effects, views>>

\* apply_block and the eviction from the pool; a failure changes nothing.
\* Pool and engine are released, rpc_op is kept.
ApplyBlock(c) ==
    /\ pc[c] = "apply"
    /\ \/ /\ applied' = applied \cup {c}
          /\ \E mined \in SUBSET (pooled \ evicted) : evicted' = evicted \cup mined
          /\ Goto(c, "accepted")
          /\ locks' = Dropped(c, {"engine", "pool"})
          /\ UNCHANGED answer
       \/ Respond(c, 422) /\ UNCHANGED <<applied, evicted>>
    /\ UNCHANGED <<same, booted, pooled, consumed, announced, views>>


\* The accepted-block hook, the reading back of the block and the consume of
\* its DA sets, all under rpc_op.
ConsumeDa(c) ==
    /\ pc[c] = "accepted"
    /\ \/ Respond(c, 500) /\ UNCHANGED consumed
       \/ /\ consumed' = consumed \cup {c}
          /\ Goto(c, "announce")
          /\ locks' = Dropped(c, Mutex)
          /\ UNCHANGED answer
    /\ UNCHANGED <<same, booted, pooled, evicted, applied, announced, views>>

Announce(c) ==
    /\ pc[c] = "announce"
    /\ announced' = announced \cup {c}
    /\ Goto(c, "write")
    /\ Answer(c, 200)
    /\ UNCHANGED <<same, locks, booted, pooled, evicted, applied, consumed, views>>

\* The response is written, or fails to be; ActiveHandler gives back the unit.
WriteResponse(c) ==
    /\ pc[c] = "write"
    /\ Goto(c, "done")
    /\ active' = active - 1
    /\ UNCHANGED <<server, accept, kind, answer, locks, poisoned, panics, effects, views>>

\* A panic unwinds the handler: its guards poison their mutexes, its unit is
\* given back, and the client sees the connection close.
HandlerPanics(c) ==
    /\ pc[c] \in Running
    /\ panics < MaxPanics
    /\ panics' = panics + 1
    /\ poisoned' = poisoned \cup Held(c)
    /\ locks' = Dropped(c, Mutex)
    /\ active' = active - 1
    /\ Goto(c, "panicked")
    /\ UNCHANGED <<server, accept, kind, answer, effects, views>>

\* What a handler does of itself: every step but finding a nonce.
HandlerStep(c) ==
    \/ ReadAndRoute(c) \/ handle_ready(c)
    \/ handle_get_tip(c) \/ handle_get_block(c) \/ handle_get_mempool(c)
    \/ CheckPoison(c) \/ handle_get_tx(c) \/ handle_tx_status(c)
    \/ render_prometheus_metrics(c)
    \/ LockOp(c) \/ TakeSnapshot(c) \/ OpenStore(c) \/ CheckAdmission(c) \/ AddTx(c)
    \/ LockEngine(c) \/ LockPool(c) \/ PreBootstrap(c) \/ NonceQuantum(c)
    \/ PreApply(c) \/ ApplyBlock(c) \/ ConsumeDa(c)
    \/ Announce(c) \/ WriteResponse(c)

LoopStep == LoopPoll \/ LoopAccept \/ admit_under_gate \/ SpawnHandler

MainStep ==
    \/ CheckBeforeStart \/ start_devnet_rpc_server
    \/ BeginPass \/ freeze_admission \/ PublishStop
    \/ resolve_accept_loop \/ wait_for_handlers \/ close_p2p

Next ==
    \/ RequestStop \/ MainStep \/ LoopStep \/ LoopPanics
    \/ \E c \in Conns : Connect(c) \/ HandlerStep(c) \/ Search(c) \/ HandlerPanics(c)

Spec == Init /\ [][Next]_vars

-----------------------------------------------------------------------------
(* Properties.                                                             *)

TypeOK ==
    /\ main \in {"boot", "start", "run", "mark", "freeze", "publish", "resolve", "drain",
                 "p2p", "exit"}
    /\ ready \in {"NotReady", "Ready", "Shutdown"}
    /\ {signal, frozen, stop, joined, fault} \subseteq BOOLEAN
    /\ active \in 0 .. MAX_CONCURRENT_RPC_CONNS
    /\ loop \in {"none", "poll", "accept", "admit", "spawn", "done", "panicked"}
    /\ current \in Conns \cup {None}
    /\ code \in 0 .. 2
    /\ pc \in [Conns -> Running \cup {"none", "backlog", "dropped", "panicked", "done"}]
    /\ answer \in [Conns -> {0, 200, 400, 409, 422, 500, 503}]
    /\ locks \in [Mutex -> Conns \cup {None}]
    /\ poisoned \subseteq Mutex

\* The unit taken under the gate belongs to the loop until the handler runs
\* and is given back exactly once, on every way out of the handler.
CountIsExact ==
    active = Cardinality({c \in Conns : pc[c] \in Running})
                + (IF loop = "spawn" THEN 1 ELSE 0)

\* The postcondition of close, on Ok and on Err: when the main thread goes on
\* to close the peer service nothing of the RPC server is left that could use
\* it: the gate is frozen, the accept loop gone, no handler runs, no lock is
\* held.
NothingOutlivesClose ==
    main \in {"p2p", "exit"} =>
        /\ loop = "none" \/ (frozen /\ joined)
        /\ loop \in {"none", "done", "panicked"}
        /\ active = 0
        /\ \A c \in Conns : pc[c] \notin Running
        /\ locks = Free

\* Once the gate is frozen no accepted socket becomes admitted work, whatever
\* the loop had seen of the stop flag.
FrozenAdmitsNothing == frozen => active' <= active

\* By the time cancellation is visible to handlers the gate is closed, so a
\* handler that sees it is one of those close waits for.
StopImpliesFrozen == stop => frozen

\* What a client is told is what happened.  200 to submit_tx or mine_next:
\* the transaction entered the pool, the block was applied and its DA sets
\* consumed, and it was announced.  500 to mine_next: the block was applied
\* and its sets were not consumed.  Any other status: nothing of it is in the
\* pool or the chain, and it was not announced.
AnswersAreTrue ==
    \A c \in Conns :
        /\ kind[c] = "submit" /\ answer[c] # 0 =>
              /\ (answer[c] = 200) = (c \in pooled)
              /\ (answer[c] = 200) = (c \in announced)
        /\ kind[c] = "mine" /\ answer[c] # 0 =>
              /\ (answer[c] \in {200, 500}) = (c \in applied)
              /\ (answer[c] = 200) = (c \in consumed)
              /\ (answer[c] = 200) = (c \in announced)

\* An operation that began after cancellation was published changes neither
\* the pool nor the chain, not even by the genesis bootstrap.
LateRequestsWriteNothing == late \cap (booted \cup pooled \cup applied) = {}

\* A load balancer is never told to send traffic to a node that has been
\* asked to stop.
ReadyMeansServing ==
    \A c \in Conns :
       kind[c] = "ready" /\ answer[c] = 0 /\ answer'[c] = 200 => ~signal /\ ~frozen

\* A client that was answered 200 for a transaction or a block finds it with
\* its next request: in the mempool routes unless a block has been applied
\* since, and in the tip and the block it asks for.
ReadYourWrites ==
    \A c \in Conns : answer[c] = 200 =>
        /\ kind[c] \in {"get_mempool", "get_tx", "tx_status"} =>
              {d \in before[c] : kind[d] = "submit"} \subseteq seen[c] \cup evicted
        /\ kind[c] \in {"get_tip", "get_block"} =>
              {d \in before[c] : kind[d] = "mine"} \subseteq seen[c]

\* A panic of the accept loop reaches the exit code, however many passes the
\* handlers then make close wait.
FaultIsReported ==
    main \in {"p2p", "exit"} /\ joined => (code = 1) = (loop = "panicked")

==============================================================================
