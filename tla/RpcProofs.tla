------------------------------ MODULE RpcProofs ------------------------------
(***************************************************************************)
(* What the RPC server tells its clients is true and nothing of it         *)
(* outlives close, for any number of connections, any mix of routes, any   *)
(* limit of handlers and any number of panics.                             *)
(***************************************************************************)
EXTENDS RpcServer, FiniteSetTheorems, TLAPS

\* What is assumed of the constants: connections can be counted, "no
\* connection" is not one of them, and the limit is a number.
RpcAssumption ==
    IsFiniteSet(Conns) /\ None \notin Conns /\ MAX_CONCURRENT_RPC_CONNS \in Nat

\* Where a handler is once its answer stands, or it has panicked.
Over == {"write", "done", "panicked"}

\* Where it holds a mutex; of these, where it submits and where it mines.
Submitting == {"snapshot", "store", "admit", "add"}
Mining == {"engine", "pool", "boot", "search", "preapply", "apply", "accepted"}
Holding == Submitting \cup Mining

Places == Running \cup {"none", "backlog", "dropped", "panicked", "done"}
Statuses == {0, 200, 400, 409, 422, 500, 503}

\* No answer yet; the answer of a request that was done; that of a block
\* that was applied and not consumed; those that refuse.
Nothing == 0
Success == 200
Failed == 500
Refusals == {400, 409, 422, 503}

Types ==
    /\ RpcAssumption
    /\ pc \in [Conns -> Places]
    /\ answer \in [Conns -> Statuses]
    /\ seen \in [Conns -> SUBSET Conns] /\ before \in [Conns -> SUBSET Conns]
    /\ locks \in [Mutex -> Conns \cup {None}]
    /\ pooled \subseteq Conns /\ evicted \subseteq Conns /\ applied \subseteq Conns
    /\ consumed \subseteq Conns /\ announced \subseteq Conns /\ late \subseteq Conns
    /\ booted \subseteq Conns \cup {None}
    /\ poisoned \subseteq Mutex

\* The scalars of main thread, gate and loop.
ServerTypes ==
    /\ main \in {"boot", "start", "run", "mark", "freeze", "publish", "resolve", "drain",
                 "p2p", "exit"}
    /\ ready \in {"NotReady", "Ready", "Shutdown"}
    /\ signal \in BOOLEAN /\ frozen \in BOOLEAN /\ stop \in BOOLEAN
    /\ joined \in BOOLEAN /\ fault \in BOOLEAN
    /\ active \in 0 .. MAX_CONCURRENT_RPC_CONNS
    /\ loop \in {"none", "poll", "accept", "admit", "spawn", "done", "panicked"}
    /\ current \in Conns \cup {None}
    /\ code \in 0 .. 2

\* Where a handler can be, by its route and by what it has done, and what it
\* holds there.
Course(c) ==
    /\ answer[c] # Nothing => pc[c] \in Over
    /\ \A m \in Mutex : locks[m] = c => pc[c] \in Holding
    /\ pc[c] = "see" => kind[c] = "ready"
    /\ pc[c] \in {"op", "announce"} \cup Holding => kind[c] # "ready" /\ kind[c] \notin Reads
    /\ pc[c] \in Submitting => kind[c] = "submit"
    /\ pc[c] \in Mining => kind[c] # "submit"

\* How far its effects have come.
Effects(c) ==
    /\ c \in pooled => kind[c] = "submit" /\ pc[c] \in {"announce"} \cup Over
    /\ c \in applied => kind[c] # "submit" /\ pc[c] \in {"accepted", "announce"} \cup Over
    /\ c \in consumed => c \in applied /\ pc[c] \in {"announce"} \cup Over
    /\ c \in announced => pc[c] \in Over
    /\ c \in booted => pc[c] \in {"search", "preapply", "apply", "accepted", "announce"} \cup Over
    /\ pc[c] = "accepted" => c \in applied
    /\ pc[c] = "announce" => c \in pooled \/ c \in consumed

\* What AnswersAreTrue says of one connection.
Told(c) ==
    /\ kind[c] = "submit" /\ answer[c] # Nothing =>
          /\ (answer[c] = Success) <=> (c \in pooled)
          /\ (answer[c] = Success) <=> (c \in announced)
    /\ kind[c] = "mine" /\ answer[c] # Nothing =>
          /\ (answer[c] \in {Success, Failed}) <=> (c \in applied)
          /\ (answer[c] = Success) <=> (c \in consumed)
          /\ (answer[c] = Success) <=> (c \in announced)

\* A handler that began after the stop never gets past a check of it.
Cancelled(c) ==
    c \in late => /\ stop
                  /\ pc[c] \in {"snapshot", "store", "admit", "engine", "pool", "boot"} \cup Over
                  /\ c \notin pooled /\ c \notin applied /\ c \notin booted

\* What ReadYourWrites says of one connection, and what it rests on.
Shown(c) ==
    /\ \A d \in before[c] : pc[d] = "done" /\ answer[d] = Success
    /\ answer[c] = Success =>
        /\ kind[c] \in {"get_mempool", "get_tx", "tx_status"} =>
              \A d \in before[c] : kind[d] = "submit" => d \in seen[c] \/ d \in evicted
        /\ kind[c] \in {"get_tip", "get_block"} =>
              \A d \in before[c] : kind[d] = "mine" => d \in seen[c]

HandlerInv ==
    \A c \in Conns : Course(c) /\ Effects(c) /\ Told(c) /\ Cancelled(c) /\ Shown(c)

\* The main thread's passes, and what the accept loop has by then.
MainInv ==
    /\ main \in {"boot", "start"} => loop = "none" /\ ~frozen
    /\ main = "run" => loop # "none" /\ ~frozen
    /\ main \in {"freeze", "publish", "mark", "resolve", "drain"} => loop # "none"
    /\ main \in {"publish", "resolve", "drain", "mark"} => frozen
    /\ main \in {"resolve", "drain", "mark"} => stop
    /\ main = "drain" => joined
    /\ main \in {"freeze", "publish"} => ready = "Shutdown"
    /\ stop => frozen
    /\ frozen => ready = "Shutdown"
    /\ joined => frozen /\ loop \in {"done", "panicked"}
    /\ fault <=> joined /\ loop = "panicked"
    /\ main \in {"p2p", "exit"} /\ loop # "none" => frozen /\ joined /\ active = 0
    /\ main \in {"p2p", "exit"} /\ joined => (code = 1 <=> fault)

\* The accept loop's socket, and that there is none before it starts.
LoopInv ==
    /\ loop \in {"admit", "spawn"} => current \in Conns /\ pc[current] = "backlog"
    /\ loop = "none" => active = 0 /\ \A c \in Conns : pc[c] = "none"

IInv == Types /\ ServerTypes /\ HandlerInv /\ MainInv /\ LoopInv /\ CountIsExact

-----------------------------------------------------------------------------
(* A step of one handler, seen from outside. *)

\* Every step a handler can take.
HandlerMoves(c) == HandlerStep(c) \/ Search(c) \/ HandlerPanics(c)

\* Its place, its answer and what it shows; the mutexes it takes or drops.
Place(c) ==
    \/ active' = active /\ \E to \in Running : Goto(c, to)
    \/ active' = active - 1 /\ \E to \in {"done", "panicked"} : Goto(c, to)
Written(c) == UNCHANGED answer \/ \E status \in Statuses : Answer(c, status)
Viewed(c) == UNCHANGED seen \/ \E what \in SUBSET Conns : See(c, what)
Guards(c) ==
    \/ UNCHANGED locks
    \/ \E m \in Mutex : locks' = [locks EXCEPT ![m] = c]
    \/ \E ms \in SUBSET Mutex : locks' = Dropped(c, ms)

\* The sets its effects are in grow by it alone.
Adds(c) ==
    /\ pooled' \in {pooled, pooled \cup {c}} /\ applied' \in {applied, applied \cup {c}}
    /\ consumed' \in {consumed, consumed \cup {c}} /\ announced' \in {announced, announced \cup {c}}
    /\ booted' \in {booted, {c}} /\ (booted' = booted \/ booted = {})
    /\ late' \in {late, late \cup {c}}
    /\ evicted \subseteq evicted' /\ evicted' \subseteq Conns

\* The rest of the server it leaves alone, but for the readiness it may end.
Leaves ==
    /\ UNCHANGED <<kind, before, main, signal, frozen, stop, joined, fault, code, loop, current>>
    /\ ready' = ready \/ ready' = "Shutdown"
    /\ poisoned' \subseteq Mutex

Outside(c) == pc[c] \in Running /\ Place(c) /\ Written(c) /\ Viewed(c) /\ Guards(c) /\ Adds(c) /\ Leaves

\* Each step of a handler keeps to that.
LEMMA HandlersAreApart ==
    ASSUME Types, NEW c \in Conns, HandlerMoves(c)
    PROVE  Outside(c)
  <1> USE DEF same, server, accept, effects, views
  <1>1. CASE ReadAndRoute(c)
    <2>1. pc[c] \in Running /\ Place(c)
      BY <1>1, Zenon DEF ReadAndRoute, Place, Running
    <2>2. Written(c) /\ Viewed(c)
      BY <1>1 DEF Types, ReadAndRoute, Written, Viewed, Statuses
    <2>3. Guards(c)
      BY <1>1, Zenon DEF ReadAndRoute, Guards, Mutex
    <2>4. Adds(c) /\ Leaves
      BY <1>1, Zenon DEF Types, ReadAndRoute, Adds, Leaves
    <2> QED BY <2>1, <2>2, <2>3, <2>4, Zenon DEF Outside
  <1>2. CASE handle_ready(c)
    <2>1. pc[c] \in Running /\ Place(c)
      BY <1>2, Zenon DEF handle_ready, is_ready, Answer, Place, Running
    <2>2. Written(c) /\ Viewed(c)
      <3>1. Answer(c, 200) \/ Answer(c, 503)
        BY <1>2, Zenon DEF handle_ready, is_ready, Answer
      <3> QED BY <1>2, <3>1 DEF handle_ready, Written, Viewed, Statuses
    <2>3. Guards(c)
      BY <1>2, Zenon DEF handle_ready, is_ready, Answer, Guards, Mutex
    <2>4. Adds(c) /\ Leaves
      BY <1>2, Zenon DEF Types, handle_ready, is_ready, Answer, Adds, Leaves
    <2> QED BY <2>1, <2>2, <2>3, <2>4, Zenon DEF Outside
  <1>3. CASE handle_get_tip(c)
    <2>1. pc[c] \in Running /\ Place(c)
      BY <1>3, Zenon DEF handle_get_tip, LookUnder, Respond, Place, Running
    <2>2. Written(c) /\ Viewed(c)
      BY <1>3 DEF Types, handle_get_tip, LookUnder, Respond, Written, Viewed, Statuses
    <2>3. Guards(c)
      BY <1>3, Zenon DEF handle_get_tip, LookUnder, Respond, Guards, Mutex
    <2>4. Adds(c) /\ Leaves
      BY <1>3, Zenon DEF Types, handle_get_tip, LookUnder, Respond, Adds, Leaves
    <2> QED BY <2>1, <2>2, <2>3, <2>4, Zenon DEF Outside
  <1>4. CASE handle_get_block(c)
    <2>1. pc[c] \in Running /\ Place(c)
      BY <1>4 DEF handle_get_block, Respond, Place, Running
    <2>2. Written(c) /\ Viewed(c)
      BY <1>4 DEF Types, handle_get_block, Respond, Written, Viewed, Statuses
    <2>3. Guards(c)
      BY <1>4, Zenon DEF handle_get_block, Respond, Guards, Mutex
    <2>4. Adds(c) /\ Leaves
      BY <1>4, Zenon DEF Types, handle_get_block, Respond, Adds, Leaves
    <2> QED BY <2>1, <2>2, <2>3, <2>4, Zenon DEF Outside
  <1>5. CASE handle_get_mempool(c)
    <2>1. pc[c] \in Running /\ Place(c)
      BY <1>5, Zenon DEF handle_get_mempool, LookUnder, Respond, Place, Running
    <2>2. Written(c) /\ Viewed(c)
      BY <1>5 DEF Types, handle_get_mempool, LookUnder, Respond, Written, Viewed, Statuses
    <2>3. Guards(c)
      BY <1>5, Zenon DEF handle_get_mempool, LookUnder, Respond, Guards, Mutex
    <2>4. Adds(c) /\ Leaves
      BY <1>5, Zenon DEF Types, handle_get_mempool, LookUnder, Respond, Adds, Leaves
    <2> QED BY <2>1, <2>2, <2>3, <2>4, Zenon DEF Outside
  <1>6. CASE CheckPoison(c)
    <2>1. pc[c] \in Running /\ Place(c)
      BY <1>6, Zenon DEF CheckPoison, Respond, Place, Running
    <2>2. Written(c) /\ Viewed(c)
      BY <1>6 DEF Types, CheckPoison, Respond, Written, Viewed, Statuses
    <2>3. Guards(c)
      BY <1>6, Zenon DEF CheckPoison, Respond, Guards, Mutex
    <2>4. Adds(c) /\ Leaves
      BY <1>6, Zenon DEF Types, CheckPoison, Respond, Adds, Leaves
    <2> QED BY <2>1, <2>2, <2>3, <2>4, Zenon DEF Outside
  <1>7. CASE handle_get_tx(c)
    <2>1. pc[c] \in Running /\ Place(c)
      BY <1>7, Zenon DEF handle_get_tx, LookUnder, Respond, Place, Running
    <2>2. Written(c) /\ Viewed(c)
      BY <1>7 DEF Types, handle_get_tx, LookUnder, Respond, Written, Viewed, Statuses
    <2>3. Guards(c)
      BY <1>7, Zenon DEF handle_get_tx, LookUnder, Respond, Guards, Mutex
    <2>4. Adds(c) /\ Leaves
      BY <1>7, Zenon DEF Types, handle_get_tx, LookUnder, Respond, Adds, Leaves
    <2> QED BY <2>1, <2>2, <2>3, <2>4, Zenon DEF Outside
  <1>8. CASE handle_tx_status(c)
    <2>1. pc[c] \in Running /\ Place(c)
      BY <1>8, Zenon DEF handle_tx_status, LookUnder, Respond, Place, Running
    <2>2. Written(c) /\ Viewed(c)
      BY <1>8 DEF Types, handle_tx_status, LookUnder, Respond, Written, Viewed, Statuses
    <2>3. Guards(c)
      BY <1>8, Zenon DEF handle_tx_status, LookUnder, Respond, Guards, Mutex
    <2>4. Adds(c) /\ Leaves
      BY <1>8, Zenon DEF Types, handle_tx_status, LookUnder, Respond, Adds, Leaves
    <2> QED BY <2>1, <2>2, <2>3, <2>4, Zenon DEF Outside
  <1>9. CASE render_prometheus_metrics(c)
    <2>1. pc[c] \in Running /\ Place(c)
      BY <1>9, Zenon DEF render_prometheus_metrics, Respond, Place, Running
    <2>2. Written(c) /\ Viewed(c)
      BY <1>9 DEF Types, render_prometheus_metrics, Respond, Written, Viewed, Statuses
    <2>3. Guards(c)
      BY <1>9, Zenon DEF render_prometheus_metrics, Respond, Guards, Mutex
    <2>4. Adds(c) /\ Leaves
      BY <1>9, Zenon DEF Types, render_prometheus_metrics, Respond, Adds, Leaves
    <2> QED BY <2>1, <2>2, <2>3, <2>4, Zenon DEF Outside
  <1>10. CASE LockOp(c)
    <2>1. pc[c] \in Running /\ Place(c)
      BY <1>10, Zenon DEF LockOp, Lock, Respond, Place, Running
    <2>2. Written(c) /\ Viewed(c)
      BY <1>10 DEF Types, LockOp, Lock, Respond, Written, Viewed, Statuses
    <2>3. Guards(c)
      BY <1>10, Zenon DEF LockOp, Lock, Respond, Guards, Mutex
    <2>4. Adds(c) /\ Leaves
      BY <1>10, Zenon DEF Types, LockOp, Lock, Respond, Adds, Leaves
    <2> QED BY <2>1, <2>2, <2>3, <2>4, Zenon DEF Outside
  <1>11. CASE TakeSnapshot(c)
    <2>1. pc[c] \in Running /\ Place(c)
      BY <1>11, Zenon DEF TakeSnapshot, Respond, Place, Running
    <2>2. Written(c) /\ Viewed(c)
      BY <1>11 DEF Types, TakeSnapshot, Respond, Written, Viewed, Statuses
    <2>3. Guards(c)
      BY <1>11, Zenon DEF TakeSnapshot, Respond, Guards, Mutex
    <2>4. Adds(c) /\ Leaves
      BY <1>11, Zenon DEF Types, TakeSnapshot, Respond, Adds, Leaves
    <2> QED BY <2>1, <2>2, <2>3, <2>4, Zenon DEF Outside
  <1>12. CASE OpenStore(c)
    <2>1. pc[c] \in Running /\ Place(c)
      BY <1>12, Zenon DEF OpenStore, Respond, Place, Running
    <2>2. Written(c) /\ Viewed(c)
      BY <1>12 DEF Types, OpenStore, Respond, Written, Viewed, Statuses
    <2>3. Guards(c)
      BY <1>12, Zenon DEF OpenStore, Respond, Guards, Mutex
    <2>4. Adds(c) /\ Leaves
      BY <1>12, Zenon DEF Types, OpenStore, Respond, Adds, Leaves
    <2> QED BY <2>1, <2>2, <2>3, <2>4, Zenon DEF Outside
  <1>13. CASE CheckAdmission(c)
    <2>1. pc[c] \in Running /\ Place(c)
      BY <1>13, Zenon DEF CheckAdmission, Lock, Respond, Place, Running
    <2>2. Written(c) /\ Viewed(c)
      BY <1>13 DEF Types, CheckAdmission, Lock, Respond, Written, Viewed, Statuses
    <2>3. Guards(c)
      BY <1>13, Zenon DEF CheckAdmission, Lock, Respond, Guards, Mutex
    <2>4. Adds(c) /\ Leaves
      BY <1>13, Zenon DEF Types, CheckAdmission, Lock, Respond, Adds, Leaves
    <2> QED BY <2>1, <2>2, <2>3, <2>4, Zenon DEF Outside
  <1>14. CASE AddTx(c)
    <2>1. pc[c] \in Running /\ Place(c)
      BY <1>14 DEF AddTx, Respond, Place, Running
    <2>2. Written(c) /\ Viewed(c)
      BY <1>14 DEF Types, AddTx, Respond, Written, Viewed, Statuses
    <2>3. Guards(c)
      BY <1>14 DEF AddTx, Respond, Guards, Mutex
    <2>4. Adds(c) /\ Leaves
      BY <1>14 DEF Types, AddTx, Respond, Adds, Leaves
    <2> QED BY <2>1, <2>2, <2>3, <2>4, Zenon DEF Outside
  <1>15. CASE LockEngine(c)
    <2>1. pc[c] \in Running /\ Place(c)
      BY <1>15, Zenon DEF LockEngine, Lock, Respond, Place, Running
    <2>2. Written(c) /\ Viewed(c)
      BY <1>15 DEF Types, LockEngine, Lock, Respond, Written, Viewed, Statuses
    <2>3. Guards(c)
      BY <1>15, Zenon DEF LockEngine, Lock, Respond, Guards, Mutex
    <2>4. Adds(c) /\ Leaves
      BY <1>15, Zenon DEF Types, LockEngine, Lock, Respond, Adds, Leaves
    <2> QED BY <2>1, <2>2, <2>3, <2>4, Zenon DEF Outside
  <1>16. CASE LockPool(c)
    <2>1. pc[c] \in Running /\ Place(c)
      BY <1>16, Zenon DEF LockPool, Lock, Respond, Place, Running
    <2>2. Written(c) /\ Viewed(c)
      BY <1>16 DEF Types, LockPool, Lock, Respond, Written, Viewed, Statuses
    <2>3. Guards(c)
      BY <1>16, Zenon DEF LockPool, Lock, Respond, Guards, Mutex
    <2>4. Adds(c) /\ Leaves
      BY <1>16, Zenon DEF Types, LockPool, Lock, Respond, Adds, Leaves
    <2> QED BY <2>1, <2>2, <2>3, <2>4, Zenon DEF Outside
  <1>17. CASE PreBootstrap(c)
    <2>1. pc[c] \in Running /\ Place(c)
      BY <1>17, Zenon DEF PreBootstrap, Respond, Place, Running
    <2>2. Written(c) /\ Viewed(c)
      BY <1>17 DEF Types, PreBootstrap, Respond, Written, Viewed, Statuses
    <2>3. Guards(c)
      BY <1>17, Zenon DEF PreBootstrap, Respond, Guards, Mutex
    <2>4. Adds(c) /\ Leaves
      BY <1>17, Zenon DEF Types, PreBootstrap, Respond, Adds, Leaves
    <2> QED BY <2>1, <2>2, <2>3, <2>4, Zenon DEF Outside
  <1>18. CASE NonceQuantum(c)
    <2>1. pc[c] \in Running /\ Place(c)
      BY <1>18, Zenon DEF NonceQuantum, Respond, Place, Running
    <2>2. Written(c) /\ Viewed(c)
      BY <1>18 DEF Types, NonceQuantum, Respond, Written, Viewed, Statuses
    <2>3. Guards(c)
      BY <1>18, Zenon DEF NonceQuantum, Respond, Guards, Mutex
    <2>4. Adds(c) /\ Leaves
      BY <1>18, Zenon DEF Types, NonceQuantum, Respond, Adds, Leaves
    <2> QED BY <2>1, <2>2, <2>3, <2>4, Zenon DEF Outside
  <1>19. CASE Search(c)
    <2>1. pc[c] \in Running /\ Place(c)
      BY <1>19, Zenon DEF Search, Respond, Place, Running
    <2>2. Written(c) /\ Viewed(c)
      BY <1>19 DEF Types, Search, Respond, Written, Viewed, Statuses
    <2>3. Guards(c)
      BY <1>19, Zenon DEF Search, Respond, Guards, Mutex
    <2>4. Adds(c) /\ Leaves
      BY <1>19, Zenon DEF Types, Search, Respond, Adds, Leaves
    <2> QED BY <2>1, <2>2, <2>3, <2>4, Zenon DEF Outside
  <1>20. CASE PreApply(c)
    <2>1. pc[c] \in Running /\ Place(c)
      BY <1>20, Zenon DEF PreApply, Respond, Place, Running
    <2>2. Written(c) /\ Viewed(c)
      BY <1>20 DEF Types, PreApply, Respond, Written, Viewed, Statuses
    <2>3. Guards(c)
      BY <1>20, Zenon DEF PreApply, Respond, Guards, Mutex
    <2>4. Adds(c) /\ Leaves
      BY <1>20, Zenon DEF Types, PreApply, Respond, Adds, Leaves
    <2> QED BY <2>1, <2>2, <2>3, <2>4, Zenon DEF Outside
  <1>21. CASE ApplyBlock(c)
    <2>1. pc[c] \in Running /\ Place(c)
      BY <1>21, Zenon DEF ApplyBlock, Respond, Place, Running
    <2>2. Written(c) /\ Viewed(c)
      BY <1>21 DEF Types, ApplyBlock, Respond, Written, Viewed, Statuses
    <2>3. Guards(c)
      BY <1>21, Zenon DEF ApplyBlock, Respond, Guards, Mutex
    <2>4. Adds(c) /\ Leaves
      BY <1>21, Zenon DEF Types, ApplyBlock, Respond, Adds, Leaves
    <2> QED BY <2>1, <2>2, <2>3, <2>4, Zenon DEF Outside
  <1>22. CASE ConsumeDa(c)
    <2>1. pc[c] \in Running /\ Place(c)
      BY <1>22, Zenon DEF ConsumeDa, Respond, Place, Running
    <2>2. Written(c) /\ Viewed(c)
      BY <1>22 DEF Types, ConsumeDa, Respond, Written, Viewed, Statuses
    <2>3. Guards(c)
      BY <1>22, Zenon DEF ConsumeDa, Respond, Guards, Mutex
    <2>4. Adds(c) /\ Leaves
      BY <1>22, Zenon DEF Types, ConsumeDa, Respond, Adds, Leaves
    <2> QED BY <2>1, <2>2, <2>3, <2>4, Zenon DEF Outside
  <1>23. CASE Announce(c)
    <2>1. pc[c] \in Running /\ Place(c)
      BY <1>23, Zenon DEF Announce, Place, Running
    <2>2. Written(c) /\ Viewed(c)
      BY <1>23 DEF Types, Announce, Written, Viewed, Statuses
    <2>3. Guards(c)
      BY <1>23, Zenon DEF Announce, Guards, Mutex
    <2>4. Adds(c) /\ Leaves
      BY <1>23, Zenon DEF Types, Announce, Adds, Leaves
    <2> QED BY <2>1, <2>2, <2>3, <2>4, Zenon DEF Outside
  <1>24. CASE WriteResponse(c)
    <2>1. pc[c] \in Running /\ Place(c)
      BY <1>24, Zenon DEF WriteResponse, Place, Running
    <2>2. Written(c) /\ Viewed(c)
      BY <1>24 DEF Types, WriteResponse, Written, Viewed, Statuses
    <2>3. Guards(c)
      BY <1>24, Zenon DEF WriteResponse, Guards, Mutex
    <2>4. Adds(c) /\ Leaves
      BY <1>24, Zenon DEF Types, WriteResponse, Adds, Leaves
    <2> QED BY <2>1, <2>2, <2>3, <2>4, Zenon DEF Outside
  <1>25. CASE HandlerPanics(c)
    <2>1. pc[c] \in Running /\ Place(c)
      BY <1>25, Zenon DEF HandlerPanics, Held, Place, Running
    <2>2. Written(c) /\ Viewed(c)
      BY <1>25 DEF Types, HandlerPanics, Held, Written, Viewed, Statuses
    <2>3. Guards(c)
      BY <1>25, Zenon DEF HandlerPanics, Held, Guards, Mutex
    <2>4. Adds(c) /\ Leaves
      BY <1>25, Zenon DEF Types, HandlerPanics, Held, Adds, Leaves
    <2> QED BY <2>1, <2>2, <2>3, <2>4, Zenon DEF Outside
  <1> QED BY <1>1, <1>2, <1>3, <1>4, <1>5, <1>6, <1>7, <1>8, <1>9, <1>10, <1>11, <1>12, <1>13, <1>14, <1>15, <1>16, <1>17, <1>18, <1>19, <1>20, <1>21, <1>22, <1>23, <1>24, <1>25, Zenon DEF HandlerMoves, HandlerStep

\* So the types stay, and nothing of another connection changes.
LEMMA OthersAreLeft ==
    ASSUME Types, NEW c \in Conns, Outside(c)
    PROVE  /\ Types'
           /\ \A d \in Conns \ {c} :
                /\ pc'[d] = pc[d] /\ answer'[d] = answer[d] /\ seen'[d] = seen[d]
                /\ \A m \in Mutex : locks'[m] = d => locks[m] = d
                /\ d \in pooled' <=> d \in pooled
                /\ d \in applied' <=> d \in applied
                /\ d \in consumed' <=> d \in consumed
                /\ d \in announced' <=> d \in announced
                /\ d \in booted' <=> d \in booted
                /\ d \in late' <=> d \in late
  <1>1. /\ pc' \in [Conns -> Places]
        /\ \A d \in Conns \ {c} : pc'[d] = pc[d]
    BY DEF Types, Outside, Place, Goto, Places
  <1>2. /\ answer' \in [Conns -> Statuses]
        /\ \A d \in Conns \ {c} : answer'[d] = answer[d]
    BY DEF Types, Outside, Written, Answer
  <1>3. /\ seen' \in [Conns -> SUBSET Conns]
        /\ \A d \in Conns \ {c} : seen'[d] = seen[d]
    BY DEF Types, Outside, Viewed, See
  <1>4. /\ locks' \in [Mutex -> Conns \cup {None}]
        /\ \A d \in Conns \ {c}, m \in Mutex : locks'[m] = d => locks[m] = d
    <2>1. CASE UNCHANGED locks
      BY <2>1, Zenon DEF Types
    <2>2. CASE \E m \in Mutex : locks' = [locks EXCEPT ![m] = c]
      BY <2>2, Zenon DEF Types
    <2>3. ASSUME NEW ms \in SUBSET Mutex, locks' = Dropped(c, ms)
          PROVE  <1>4!1 /\ <1>4!2
      <3>1. \A m \in Mutex : locks'[m] = IF m \in ms /\ locks[m] = c THEN None ELSE locks[m]
        BY <2>3, Zenon DEF Dropped
      <3>2. locks' = [m \in Mutex |-> locks'[m]]
        BY <2>3, Zenon DEF Dropped
      <3>3. \A m \in Mutex : locks'[m] \in Conns \cup {None}
        BY <3>1, Zenon DEF Types
      <3> QED BY <3>1, <3>2, <3>3, Zenon DEF Types, RpcAssumption
    <2> QED BY <2>1, <2>2, <2>3, Zenon DEF Outside, Guards
  <1>5. \A d \in Conns \ {c} : d \in pooled' <=> d \in pooled
    BY Zenon DEF Outside, Adds
  <1>6. \A d \in Conns \ {c} : d \in applied' <=> d \in applied
    BY Zenon DEF Outside, Adds
  <1>7. \A d \in Conns \ {c} : d \in consumed' <=> d \in consumed
    BY Zenon DEF Outside, Adds
  <1>8. \A d \in Conns \ {c} : d \in announced' <=> d \in announced
    BY Zenon DEF Outside, Adds
  <1>9. \A d \in Conns \ {c} : d \in late' <=> d \in late
    BY Zenon DEF Outside, Adds
  <1>10. \A d \in Conns \ {c} : d \in booted' <=> d \in booted
    BY Zenon DEF Outside, Adds
  <1>11. /\ pooled' \subseteq Conns /\ evicted' \subseteq Conns /\ applied' \subseteq Conns
        /\ consumed' \subseteq Conns /\ announced' \subseteq Conns /\ late' \subseteq Conns
        /\ booted' \subseteq Conns \cup {None}
    BY Zenon DEF Types, Outside, Adds
  <1>12. RpcAssumption' /\ before' \in [Conns -> SUBSET Conns] /\ poisoned' \subseteq Mutex
    BY Zenon DEF Types, Outside, Leaves, RpcAssumption
  <1>13. Types'
    BY <1>1, <1>2, <1>3, <1>4, <1>12, <1>11, Zenon DEF Types
  <1> QED BY <1>1, <1>2, <1>3, <1>4, <1>5, <1>6, <1>7, <1>8, <1>9, <1>10, <1>13, Zenon

\* What holds of the other connections goes on to hold.
LEMMA OthersStay ==
    ASSUME Types, HandlerInv, NEW c \in Conns, Outside(c), NEW d \in Conns \ {c}
    PROVE  (Course(d) /\ Effects(d) /\ Told(d) /\ Cancelled(d) /\ Shown(d))'
  <1>1. /\ pc'[d] = pc[d] /\ answer'[d] = answer[d] /\ seen'[d] = seen[d]
        /\ \A m \in Mutex : locks'[m] = d => locks[m] = d
        /\ d \in pooled' <=> d \in pooled
        /\ d \in applied' <=> d \in applied
        /\ d \in consumed' <=> d \in consumed
        /\ d \in announced' <=> d \in announced
        /\ d \in booted' <=> d \in booted
        /\ d \in late' <=> d \in late
    BY OthersAreLeft, Zenon
  <1>2. Course(d) /\ Effects(d) /\ Told(d) /\ Cancelled(d) /\ Shown(d)
    BY Zenon DEF HandlerInv
  <1>3. kind' = kind /\ before' = before /\ stop' = stop /\ evicted \subseteq evicted'
    BY Zenon DEF Outside, Leaves, Adds
  <1>4. Course(d)'
    BY <1>1, <1>2, <1>3, Zenon DEF Course
  <1>5. Effects(d)'
    BY <1>1, <1>2, <1>3, Zenon DEF Effects
  <1>6. Told(d)'
    BY <1>1, <1>2, <1>3, Zenon DEF Told
  <1>7. Cancelled(d)'
    BY <1>1, <1>2, <1>3, Zenon DEF Cancelled
  <1>8. Shown(d)'
    <2>1. \A e \in before[d] : e \in Conns /\ pc[e] = "done" /\ answer[e] = Success
      BY <1>2, Zenon DEF Shown, Types
    <2>2. pc[c] # "done"
      BY Zenon DEF Outside, Running
    <2>3. \A e \in before[d] : pc'[e] = "done" /\ answer'[e] = Success
      <3> SUFFICES ASSUME NEW e \in before[d] PROVE pc'[e] = "done" /\ answer'[e] = Success
        OBVIOUS
      <3>1. e \in Conns \ {c} /\ pc[e] = "done" /\ answer[e] = Success
        BY <2>1, <2>2, Zenon
      <3> QED BY <3>1, OthersAreLeft, Zenon
    <2> QED BY <1>1, <1>2, <1>3, <2>3, Zenon DEF Shown
  <1> QED BY <1>4, <1>5, <1>6, <1>7, <1>8, Zenon

\* The answers are different from each other.
LEMMA Codes ==
    /\ Success # Nothing /\ Failed # Nothing /\ Success # Failed
    /\ Success \notin Refusals /\ Failed \notin Refusals /\ Nothing \notin Refusals
  BY DEF Success, Failed, Nothing, Refusals

\* What the helpers of the handlers leave of the handler that calls them.
LEMMA Responds ==
    ASSUME Types, NEW c \in Conns, NEW status, Respond(c, status)
    PROVE  pc'[c] = "write" /\ answer'[c] = status /\ \A m \in Mutex : locks'[m] # c
  <1>1. pc'[c] = "write" /\ answer'[c] = status
    BY Zenon DEF Types, Respond, Goto, Answer
  <1>2. \A m \in Mutex : locks'[m] = IF m \in Mutex /\ locks[m] = c THEN None ELSE locks[m]
    BY Zenon DEF Respond, Dropped
  <1>3. None # c
    BY Zenon DEF Types, RpcAssumption
  <1> QED BY <1>1, <1>2, <1>3, Zenon

LEMMA GoesTo ==
    ASSUME Types, NEW c \in Conns, NEW to, Goto(c, to)
    PROVE  pc'[c] = to
  BY Zenon DEF Types, Goto

\* What is known of the requests answered before this one began.
LEMMA EarlierAnswers ==
    ASSUME Types, HandlerInv, NEW c \in Conns, Outside(c)
    PROVE  /\ \A d \in before[c] : /\ d \in Conns /\ d # c
                                   /\ kind[d] = "submit" => d \in pooled
                                   /\ kind[d] = "mine" => d \in applied
           /\ \A d \in before'[c] : pc'[d] = "done" /\ answer'[d] = Success
  <1>1. Shown(c) /\ before[c] \subseteq Conns /\ before' = before
    BY Zenon DEF HandlerInv, Types, Outside, Leaves
  <1>2. \A d \in before[c] : d \in Conns /\ pc[d] = "done" /\ answer[d] = Success
    BY <1>1, Zenon DEF Shown
  <1>3. pc[c] # "done"
    BY Zenon DEF Outside, Running
  <1>4. ASSUME NEW d \in before[c]
        PROVE  (kind[d] = "submit" => d \in pooled) /\ (kind[d] = "mine" => d \in applied)
    <2>1. answer[d] = Success /\ Told(d)
      BY <1>2, Zenon DEF HandlerInv
    <2>2. answer[d] # Nothing /\ answer[d] \in {Success, Failed}
      BY <2>1, Codes, Zenon
    <2> QED BY <2>1, <2>2, Zenon DEF Told
  <1>5. \A d \in before[c] : pc'[d] = "done" /\ answer'[d] = Success
    <2> SUFFICES ASSUME NEW d \in before[c] PROVE pc'[d] = "done" /\ answer'[d] = Success
      OBVIOUS
    <2>1. d \in Conns \ {c} /\ pc[d] = "done" /\ answer[d] = Success
      BY <1>2, <1>3, Zenon
    <2> QED BY <2>1, OthersAreLeft, Zenon
  <1> QED BY <1>1, <1>2, <1>3, <1>4, <1>5, Zenon

\* What is known of one handler.
Known(c) == Course(c) /\ Effects(c) /\ Told(c) /\ Cancelled(c) /\ Shown(c)

\* A step without an effect; one that starts after the stop, if any; and what
\* stays of the requests answered before.
Quiet == UNCHANGED <<kind, stop, booted, pooled, applied, consumed, announced>>
NowLate(c) == c \in late' => c \in late \/ (stop /\ pc[c] = "op")
Earlier(c) == \A d \in before'[c] : pc'[d] = "done" /\ answer'[d] = Success

\* Before its effects a handler has none.
LEMMA NoEffectYet ==
    ASSUME Types, NEW c \in Conns, Known(c), pc[c] \in Running \ {"write", "announce", "accepted"}
    PROVE  /\ c \notin pooled /\ c \notin applied /\ c \notin consumed /\ c \notin announced
           /\ answer[c] = Nothing /\ pc[c] \notin Over
           /\ pc[c] = "op" => c \notin booted
  <1>1. pc[c] \notin Over /\ pc[c] # "announce" /\ pc[c] # "accepted"
    BY Zenon DEF Running, Over
  <1>2. pc[c] = "op" => pc[c] \notin {"search", "preapply", "apply", "accepted", "announce"} \cup Over
    BY Zenon DEF Over
  <1> QED BY <1>1, <1>2, Zenon DEF Known, Course, Effects

\* An answer that is not 200 and not 500 leaves nothing to tell.
LEMMA ToldNothing ==
    ASSUME NEW c, answer'[c] \notin {Success, Failed},
           c \notin pooled', c \notin applied', c \notin consumed', c \notin announced'
    PROVE  Told(c)'
  <1>1. answer'[c] # Success
    BY Zenon
  <1> QED BY <1>1, Zenon DEF Told

\* A handler that is refused before its effects.
LEMMA Refuses ==
    ASSUME Types, NEW c \in Conns, Known(c), pc[c] \in Running \ {"write", "announce", "accepted"},
           pc'[c] = "write", answer'[c] \in Refusals, \A m \in Mutex : locks'[m] # c,
           Quiet, NowLate(c), Earlier(c)
    PROVE  Known(c)'
  <1>1. /\ c \notin pooled /\ c \notin applied /\ c \notin consumed /\ c \notin announced
        /\ pc[c] = "op" => c \notin booted
    BY NoEffectYet, Zenon
  <1>2. answer'[c] \notin {Success, Failed} /\ answer'[c] # Success
    BY Codes, Zenon
  <1>3. "write" \in Over /\ "write" \notin {"op", "announce"} \cup Holding
        /\ "write" \notin Submitting /\ "write" \notin Mining
    BY Zenon DEF Over, Holding, Submitting, Mining
  <1>4. Course(c)'
    BY <1>3, Zenon DEF Course, Quiet
  <1>5. Effects(c)'
    BY <1>1, <1>3, Zenon DEF Effects, Quiet
  <1>6. Told(c)'
    BY <1>1, <1>2, ToldNothing, Zenon DEF Quiet
  <1>7. Cancelled(c)'
    BY <1>1, <1>3, Zenon DEF Known, Cancelled, Quiet, NowLate
  <1>8. Shown(c)'
    BY <1>2, Zenon DEF Shown, Earlier
  <1> QED BY <1>4, <1>5, <1>6, <1>7, <1>8, Zenon DEF Known

\* Where a handler of a route goes on to without an effect.
GoesOn(p, q, k) ==
    \/ p = "read" /\ q = "see" /\ k = "ready"
    \/ p = "read" /\ q = "look"
    \/ p = "read" /\ q = "op" /\ k # "ready" /\ k \notin Reads
    \/ p = "look" /\ q = "find"
    \/ p = "op" /\ q = "snapshot" /\ k = "submit"
    \/ p = "op" /\ q = "engine" /\ k # "submit"
    \/ p = "snapshot" /\ q = "store"
    \/ p = "store" /\ q = "admit"
    \/ p = "admit" /\ q = "add"
    \/ p = "engine" /\ q = "pool"
    \/ p = "pool" /\ q = "boot"
    \/ p = "search" /\ q = "preapply"
    \/ p = "preapply" /\ q = "apply"

\* What that means for where it is.
Within(p, q, k) ==
    /\ p \in Running \ {"write", "announce", "accepted"}
    /\ q \notin Over /\ q # "announce" /\ q # "accepted"
    /\ q = "see" => k = "ready"
    /\ q \in {"op", "announce"} \cup Holding =>
          p \in {"op", "announce"} \cup Holding \/ (k # "ready" /\ k \notin Reads)
    /\ q \in Submitting => p \in Submitting \/ k = "submit"
    /\ q \in Mining => p \in Mining \/ k # "submit"
    /\ p \in Holding => q \in Holding
    /\ p \in {"search", "preapply"} => q \in {"search", "preapply", "apply", "accepted", "announce"} \cup Over
    /\ p \in {"op", "snapshot", "store", "engine", "pool"}
         => q \in {"snapshot", "store", "admit", "engine", "pool", "boot"} \cup Over
    /\ q \in {"add", "apply"} => p \in {"admit", "preapply"}

LEMMA GoesOnWithin ==
    ASSUME NEW p, NEW q, NEW k, GoesOn(p, q, k)
    PROVE  Within(p, q, k)
  <1>1. /\ p \in Running \ {"write", "announce", "accepted"}
        /\ q \notin Over /\ q # "announce" /\ q # "accepted"
    BY DEF GoesOn, Running, Over
  <1>2. /\ q = "see" => k = "ready"
        /\ q \in {"op", "announce"} \cup Holding =>
              p \in {"op", "announce"} \cup Holding \/ (k # "ready" /\ k \notin Reads)
    BY DEF GoesOn, Holding, Submitting, Mining
  <1>3. /\ q \in Submitting => p \in Submitting \/ k = "submit"
        /\ q \in Mining => p \in Mining \/ k # "submit"
        /\ p \in Holding => q \in Holding
    BY DEF GoesOn, Holding, Submitting, Mining
  <1>4. /\ p \in {"search", "preapply"} => q \in {"search", "preapply", "apply", "accepted", "announce"} \cup Over
        /\ p \in {"op", "snapshot", "store", "engine", "pool"}
             => q \in {"snapshot", "store", "admit", "engine", "pool", "boot"} \cup Over
        /\ q \in {"add", "apply"} => p \in {"admit", "preapply"}
    BY DEF GoesOn
  <1> QED BY <1>1, <1>2, <1>3, <1>4, Zenon DEF Within

\* A handler that goes on; past the two checks of the stop only without one.
LEMMA Proceeds ==
    ASSUME Types, NEW c \in Conns, Known(c), NEW q, pc'[c] = q, GoesOn(pc[c], q, kind[c]),
           answer' = answer, \A m \in Mutex : locks'[m] = c => locks[m] = c \/ q \in Holding,
           q \in {"add", "apply"} => ~stop, Quiet, NowLate(c), Earlier(c)
    PROVE  Known(c)'
  <1> DEFINE p == pc[c]
  <1>1. /\ p \in Running \ {"write", "announce", "accepted"}
        /\ q \notin Over /\ q # "announce" /\ q # "accepted"
        /\ q = "see" => kind[c] = "ready"
        /\ q \in {"op", "announce"} \cup Holding =>
              p \in {"op", "announce"} \cup Holding \/ (kind[c] # "ready" /\ kind[c] \notin Reads)
        /\ q \in Submitting => p \in Submitting \/ kind[c] = "submit"
        /\ q \in Mining => p \in Mining \/ kind[c] # "submit"
        /\ p \in Holding => q \in Holding
        /\ p \in {"search", "preapply"} => q \in {"search", "preapply", "apply", "accepted", "announce"} \cup Over
        /\ p \in {"op", "snapshot", "store", "engine", "pool"}
             => q \in {"snapshot", "store", "admit", "engine", "pool", "boot"} \cup Over
    <2>1. Within(p, q, kind[c])
      BY GoesOnWithin, Zenon
    <2> QED BY <2>1, Zenon DEF Within
  <1>2. /\ c \notin pooled /\ c \notin applied /\ c \notin consumed /\ c \notin announced
        /\ answer[c] = Nothing /\ p \notin Over
        /\ p = "op" => c \notin booted
    BY <1>1, NoEffectYet, Zenon
  <1>3. Course(c)'
    <2>1. \A m \in Mutex : locks'[m] = c => q \in Holding
      BY <1>1, Zenon DEF Known, Course
    <2> QED BY <1>1, <1>2, <2>1, Zenon DEF Known, Course, Quiet
  <1>4. Effects(c)'
    <2>1. c \in booted => p \in {"search", "preapply"}
      <3>1. c \in booted => p \in {"search", "preapply", "apply", "accepted", "announce"} \cup Over
        BY Zenon DEF Known, Effects
      <3>2. p # "apply"
        BY DEF GoesOn
      <3> QED BY <1>1, <1>2, <3>1, <3>2, Zenon
    <2> QED BY <1>1, <1>2, <2>1, Zenon DEF Effects, Quiet
  <1>5. answer'[c] \notin {Success, Failed} /\ answer'[c] # Success
    BY <1>2, Codes, Zenon
  <1>6. Told(c)'
    BY <1>2, <1>5, ToldNothing, Zenon DEF Quiet
  <1>7. Cancelled(c)'
    <2> SUFFICES ASSUME c \in late'
                 PROVE  /\ stop /\ q \in {"snapshot", "store", "admit", "engine", "pool", "boot"} \cup Over
                        /\ c \notin booted
      BY <1>2, Zenon DEF Cancelled, Quiet
    <2>1. stop /\ c \notin booted
      BY <1>2, Zenon DEF Known, Cancelled, NowLate
    <2>2. p = "op" \/ p \in {"snapshot", "store", "admit", "engine", "pool", "boot"} \cup Over
      BY Zenon DEF Known, Cancelled, NowLate
    <2>3. p \in {"op", "snapshot", "store", "engine", "pool"}
      <3>1. p # "boot" /\ (p = "admit" => q = "add")
        BY DEF GoesOn
      <3> QED BY <1>2, <2>1, <2>2, <3>1, Zenon
    <2> QED BY <1>1, <2>1, <2>3, Zenon
  <1>8. Shown(c)'
    BY <1>5, Zenon DEF Shown, Earlier
  <1> QED BY <1>3, <1>4, <1>6, <1>7, <1>8, Zenon DEF Known

\* A route that answers 200 with what it has seen.
LEMMA Shows ==
    ASSUME Types, NEW c \in Conns, Known(c), pc[c] \in {"see", "look", "find"},
           kind[c] # "submit", kind[c] # "mine",
           pc'[c] = "write", answer'[c] = Success, \A m \in Mutex : locks'[m] # c,
           Quiet, late' = late, Shown(c)'
    PROVE  Known(c)'
  <1>1. pc[c] \in Running \ {"write", "announce", "accepted"}
    BY Zenon DEF Running
  <1>2. c \notin pooled /\ c \notin applied /\ c \notin consumed /\ c \notin announced
    BY <1>1, NoEffectYet, Zenon
  <1>3. "write" \in Over /\ "write" \notin {"op", "announce"} \cup Holding
        /\ "write" \notin Submitting /\ "write" \notin Mining
    BY Zenon DEF Over, Holding, Submitting, Mining
  <1>4. Course(c)'
    BY <1>3, Zenon DEF Course, Quiet
  <1>5. Effects(c)'
    BY <1>2, <1>3, Zenon DEF Effects, Quiet
  <1>6. Told(c)'
    BY Zenon DEF Told, Quiet
  <1>7. Cancelled(c)'
    BY <1>3, Zenon DEF Known, Cancelled, Quiet
  <1> QED BY <1>4, <1>5, <1>6, <1>7, Zenon DEF Known

\* A route that has seen the pool, or the chain, has seen what the requests
\* answered before it put there.
LEMMA Looks ==
    ASSUME Types, NEW c \in Conns, Known(c), pc[c] \in {"look", "find"},
           kind[c] # "submit", kind[c] # "mine",
           \A d \in before[c] : /\ kind[d] = "submit" => d \in pooled
                                /\ kind[d] = "mine" => d \in applied,
           NEW what, Respond(c, Success), See(c, what),
           kind[c] \in {"get_mempool", "get_tx", "tx_status"} => what = pooled \ evicted,
           kind[c] \in {"get_tip", "get_block"} => what = applied,
           Quiet, Earlier(c), UNCHANGED <<evicted, before, late>>
    PROVE  Known(c)'
  <1>1. pc'[c] = "write" /\ answer'[c] = Success /\ \A m \in Mutex : locks'[m] # c
    BY Responds, Zenon
  <1>2. seen'[c] = what
    BY Zenon DEF See, Types
  <1>3. Shown(c)'
    BY <1>2, Zenon DEF Shown, Earlier, Quiet
  <1> QED BY <1>1, <1>3, Shows, Zenon

\* A refusal through Respond.
LEMMA Refused ==
    ASSUME Types, NEW c \in Conns, Known(c), pc[c] \in Running \ {"write", "announce", "accepted"},
           NEW status \in Refusals, Respond(c, status), Quiet, NowLate(c), Earlier(c)
    PROVE  Known(c)'
  <1>1. pc'[c] = "write" /\ answer'[c] = status /\ \A m \in Mutex : locks'[m] # c
    BY Responds, Zenon
  <1> QED BY <1>1, Refuses, Zenon

\* A route that looks under a mutex.
LEMMA LooksUnder ==
    ASSUME Types, NEW c \in Conns, Known(c), pc[c] \in {"look", "find"},
           kind[c] # "submit", kind[c] # "mine",
           \A d \in before[c] : /\ kind[d] = "submit" => d \in pooled
                                /\ kind[d] = "mine" => d \in applied,
           NEW m, NEW what, LookUnder(c, m, what),
           kind[c] \in {"get_mempool", "get_tx", "tx_status"} => what = pooled \ evicted,
           kind[c] \in {"get_tip", "get_block"} => what = applied,
           Quiet, Earlier(c), UNCHANGED <<evicted, before, late>>
    PROVE  Known(c)'
  <1>1. CASE \E status \in Refusals : Respond(c, status)
    <2>1. pc[c] \in Running \ {"write", "announce", "accepted"}
      BY Zenon DEF Running
    <2> QED BY <1>1, <2>1, Refused, Zenon DEF NowLate
  <1>2. CASE Respond(c, Success) /\ See(c, what)
    BY <1>2, Looks, Zenon
  <1> QED BY <1>1, <1>2 DEF LookUnder, Refusals, Success

\* A handler without an answer is told nothing.
LEMMA Unanswered ==
    ASSUME NEW c, answer'[c] = Nothing, Earlier(c)
    PROVE  Told(c)' /\ Shown(c)'
  <1>1. answer'[c] # Success
    BY Codes, Zenon
  <1> QED BY <1>1, Zenon DEF Told, Shown, Earlier

\* Dropping mutexes takes none.
LEMMA Drops ==
    ASSUME Types, NEW c \in Conns, NEW ms, locks' = Dropped(c, ms)
    PROVE  \A m \in Mutex : /\ locks'[m] = c => locks[m] = c
                            /\ m \in ms => locks'[m] # c
  <1>1. \A m \in Mutex : locks'[m] = IF m \in ms /\ locks[m] = c THEN None ELSE locks[m]
    BY Zenon DEF Dropped
  <1>2. None # c
    BY Zenon DEF Types, RpcAssumption
  <1> QED BY <1>1, <1>2, Zenon

\* The steps that have an effect.
LEMMA BootstrapKeeps ==
    ASSUME Types, NEW c \in Conns, Known(c), Earlier(c), pc[c] = "boot", ~stop,
           pc'[c] = "search", UNCHANGED <<locks, answer>>,
           UNCHANGED <<kind, stop, pooled, applied, consumed, announced, late>>
    PROVE  Known(c)'
  <1>1. /\ c \notin pooled /\ c \notin applied /\ c \notin consumed /\ c \notin announced
        /\ answer[c] = Nothing
    BY NoEffectYet, Zenon DEF Running
  <1>2. /\ {"boot", "search"} \subseteq Mining /\ {"boot", "search"} \subseteq Holding
        /\ "search" \notin Submitting /\ "search" \notin Over
    BY Zenon DEF Holding, Submitting, Mining, Over
  <1>3. Course(c)'
    BY <1>1, <1>2, Zenon DEF Known, Course
  <1>4. Effects(c)'
    BY <1>1, Zenon DEF Effects
  <1>5. Told(c)' /\ Shown(c)'
    BY <1>1, Unanswered, Zenon
  <1>6. Cancelled(c)'
    BY Zenon DEF Known, Cancelled
  <1> QED BY <1>3, <1>4, <1>5, <1>6, Zenon DEF Known

LEMMA AddKeeps ==
    ASSUME Types, NEW c \in Conns, Known(c), Earlier(c), pc[c] = "add",
           pooled' = pooled \cup {c}, pc'[c] = "announce", locks' = Dropped(c, Mutex),
           UNCHANGED <<answer, kind, stop, booted, applied, consumed, announced, late>>
    PROVE  Known(c)'
  <1>1. /\ c \notin pooled /\ c \notin applied /\ c \notin consumed /\ c \notin announced
        /\ answer[c] = Nothing
    BY NoEffectYet, Zenon DEF Running
  <1>2. /\ "add" \in Submitting /\ "add" \in Holding /\ "announce" \notin Over
        /\ "announce" \notin Submitting /\ "announce" \notin Mining
    BY Zenon DEF Holding, Submitting, Mining, Over
  <1>3. Course(c)'
    BY <1>1, <1>2, Drops, Zenon DEF Known, Course
  <1>4. Effects(c)'
    BY <1>1, <1>2, Zenon DEF Known, Course, Effects
  <1>5. Told(c)' /\ Shown(c)'
    BY <1>1, Unanswered, Zenon
  <1>6. c \notin late
    BY Zenon DEF Known, Cancelled, Over
  <1>7. Cancelled(c)'
    BY <1>6, Zenon DEF Cancelled
  <1> QED BY <1>3, <1>4, <1>5, <1>7, Zenon DEF Known

LEMMA ApplyKeeps ==
    ASSUME Types, NEW c \in Conns, Known(c), Earlier(c), pc[c] = "apply",
           applied' = applied \cup {c}, pc'[c] = "accepted", locks' = Dropped(c, {"engine", "pool"}),
           UNCHANGED <<answer, kind, stop, booted, pooled, consumed, announced, late>>
    PROVE  Known(c)'
  <1>1. /\ c \notin pooled /\ c \notin applied /\ c \notin consumed /\ c \notin announced
        /\ answer[c] = Nothing
    BY NoEffectYet, Zenon DEF Running
  <1>2. /\ {"apply", "accepted"} \subseteq Mining /\ {"apply", "accepted"} \subseteq Holding
        /\ "accepted" \notin Submitting /\ "accepted" \notin Over
    BY Zenon DEF Holding, Submitting, Mining, Over
  <1>3. Course(c)'
    BY <1>1, <1>2, Zenon DEF Known, Course
  <1>4. Effects(c)'
    BY <1>1, <1>2, Zenon DEF Known, Course, Effects
  <1>5. Told(c)' /\ Shown(c)'
    BY <1>1, Unanswered, Zenon
  <1>6. c \notin late
    BY Zenon DEF Known, Cancelled, Over
  <1>7. Cancelled(c)'
    BY <1>6, Zenon DEF Cancelled
  <1> QED BY <1>3, <1>4, <1>5, <1>7, Zenon DEF Known

\* A block that was applied is followed by an answer of 500 or by the announcement.
LEMMA ConsumeKeeps ==
    ASSUME Types, NEW c \in Conns, Known(c), Earlier(c), ConsumeDa(c)
    PROVE  Known(c)'
  <1>1. /\ pc[c] = "accepted" /\ UNCHANGED <<kind, stop, booted, pooled, applied, announced, late>>
    BY Zenon DEF ConsumeDa, same, server, views
  <1>2. /\ "accepted" \in Mining /\ "accepted" \in Holding
        /\ "accepted" \notin Over /\ "announce" \notin Over /\ "write" \in Over
        /\ "announce" \notin Submitting /\ "announce" \notin Mining
        /\ "write" \notin Submitting /\ "write" \notin Mining
        /\ "write" \notin {"op", "announce"} \cup Holding
    BY Zenon DEF Holding, Submitting, Mining, Over
  <1>3. /\ c \in applied /\ c \notin pooled /\ c \notin consumed /\ c \notin announced
        /\ answer[c] = Nothing /\ c \notin late
        /\ kind[c] # "submit" /\ kind[c] # "ready" /\ kind[c] \notin Reads
    BY <1>1, <1>2, Zenon DEF Known, Course, Effects, Cancelled
  <1>4. Cancelled(c)'
    BY <1>1, <1>3, Zenon DEF Cancelled
  <1>5. CASE Respond(c, Failed) /\ UNCHANGED consumed
    <2>1. pc'[c] = "write" /\ answer'[c] = Failed /\ \A m \in Mutex : locks'[m] # c
      BY <1>5, Responds, Zenon
    <2>2. answer'[c] # Success /\ answer'[c] \in {Success, Failed}
      BY <2>1, Codes, Zenon
    <2>3. Course(c)' /\ Effects(c)'
      BY <1>1, <1>2, <1>3, <1>5, <2>1, Zenon DEF Course, Effects
    <2>4. Told(c)' /\ Shown(c)'
      BY <1>1, <1>3, <1>5, <2>2, Zenon DEF Told, Shown, Earlier
    <2> QED BY <1>4, <2>3, <2>4, Zenon DEF Known
  <1>6. CASE /\ consumed' = consumed \cup {c} /\ Goto(c, "announce")
             /\ locks' = Dropped(c, Mutex) /\ UNCHANGED answer
    <2>1. pc'[c] = "announce" /\ \A m \in Mutex : locks'[m] # c
      BY <1>6, GoesTo, Drops, Zenon
    <2>2. Course(c)' /\ Effects(c)'
      BY <1>1, <1>2, <1>3, <1>6, <2>1, Zenon DEF Course, Effects
    <2>3. Told(c)' /\ Shown(c)'
      BY <1>3, <1>6, Unanswered, Zenon
    <2> QED BY <1>4, <2>2, <2>3, Zenon DEF Known
  <1> QED BY <1>5, <1>6 DEF ConsumeDa, Failed

LEMMA AnnounceKeeps ==
    ASSUME Types, NEW c \in Conns, Known(c), Earlier(c), Announce(c)
    PROVE  Known(c)'
  <1>1. /\ pc[c] = "announce" /\ announced' = announced \cup {c}
        /\ UNCHANGED <<locks, kind, stop, booted, pooled, applied, consumed, late>>
    BY Zenon DEF Announce, same, server, views
  <1>2. pc'[c] = "write" /\ answer'[c] = Success
    BY DEF Announce, Goto, Answer, Types, Success
  <1>3. /\ "announce" \notin Holding /\ "write" \in Over
        /\ "write" \notin {"op", "announce"} \cup Holding
        /\ "write" \notin Submitting /\ "write" \notin Mining /\ "announce" \notin Over
    BY Zenon DEF Holding, Submitting, Mining, Over
  <1>4. /\ c \in pooled \/ c \in consumed
        /\ c \in pooled => kind[c] = "submit"
        /\ c \in consumed => c \in applied
        /\ c \in applied => kind[c] # "submit"
        /\ kind[c] # "ready" /\ kind[c] \notin Reads
        /\ c \notin late
    BY <1>1, <1>3, Zenon DEF Known, Course, Effects, Cancelled
  <1>5. Course(c)'
    BY <1>1, <1>2, <1>3, Zenon DEF Known, Course
  <1>6. Effects(c)'
    BY <1>1, <1>2, <1>3, <1>4, Zenon DEF Effects
  <1>7. Told(c)'
    BY <1>1, <1>2, <1>4, Zenon DEF Told
  <1>8. Cancelled(c)'
    BY <1>1, <1>4, Zenon DEF Cancelled
  <1>9. Shown(c)'
    <2>1. kind[c] \notin {"get_mempool", "get_tx", "tx_status"} /\ kind[c] \notin {"get_tip", "get_block"}
      BY <1>4, Zenon DEF Reads
    <2> QED BY <1>1, <2>1, Zenon DEF Shown, Earlier
  <1> QED BY <1>5, <1>6, <1>7, <1>8, <1>9, Zenon DEF Known

\* The end of a handler, with its answer or by a panic, changes nothing but
\* its place and its mutexes.
LEMMA EndKeeps ==
    ASSUME Types, NEW c \in Conns, Known(c), Earlier(c),
           pc'[c] \in {"done", "panicked"}, \A m \in Mutex : locks'[m] # c,
           UNCHANGED <<answer, kind, stop, effects, views>>
    PROVE  Known(c)'
  <1>1. /\ pc'[c] \in Over /\ pc'[c] # "see" /\ pc'[c] # "accepted" /\ pc'[c] # "announce"
        /\ pc'[c] \notin {"op", "announce"} \cup Holding
        /\ pc'[c] \notin Submitting /\ pc'[c] \notin Mining
    BY Zenon DEF Over, Holding, Submitting, Mining
  <1>2. Course(c)'
    BY <1>1, Zenon DEF Course
  <1>3. Effects(c)'
    BY <1>1, Zenon DEF Known, Effects, effects
  <1>4. Told(c)'
    BY Zenon DEF Known, Told, effects
  <1>5. Cancelled(c)'
    BY <1>1, Zenon DEF Known, Cancelled, effects, views
  <1>6. Shown(c)'
    BY Zenon DEF Known, Shown, Earlier, effects, views
  <1> QED BY <1>2, <1>3, <1>4, <1>5, <1>6, Zenon DEF Known

\* The handler that moves: its route, its mutexes, its effects, what it is
\* told and what it is shown stay in step.
LEMMA OwnStep ==
    ASSUME Types, HandlerInv, NEW c \in Conns, HandlerMoves(c)
    PROVE  Known(c)'
  <1>k. Known(c)
    BY Zenon DEF HandlerInv, Known
  <1>o. Outside(c)
    BY HandlersAreApart, Zenon
  <1>e. Earlier(c)
    BY <1>o, EarlierAnswers, Zenon DEF Earlier
  <1>b. \A d \in before[c] : /\ kind[d] = "submit" => d \in pooled
                             /\ kind[d] = "mine" => d \in applied
    BY <1>o, EarlierAnswers, Zenon
  <1>s. \A status \in Refusals :
           Respond(c, status) /\ Quiet /\ NowLate(c)
             /\ pc[c] \in Running \ {"write", "announce", "accepted"} => Known(c)'
    BY <1>k, <1>e, Refused, Zenon
  <1>p. \A q : /\ Goto(c, q) /\ GoesOn(pc[c], q, kind[c]) /\ answer' = answer
               /\ \A m \in Mutex : locks'[m] = c => locks[m] = c \/ q \in Holding
               /\ q \in {"add", "apply"} => ~stop
               /\ Quiet /\ NowLate(c)
               => Known(c)'
    BY <1>k, <1>e, GoesTo, Proceeds, Zenon
  <1>1. CASE ReadAndRoute(c)
    <2>1. pc[c] = "read" /\ Quiet /\ NowLate(c) /\ UNCHANGED locks
      BY <1>1, Zenon DEF ReadAndRoute, same, server, effects, views, Quiet, NowLate
    <2>2. /\ pc[c] \in Running \ {"write", "announce", "accepted"}
          /\ \A m \in Mutex : locks'[m] # c
      <3>1. "read" \in Running \ {"write", "announce", "accepted"} /\ "read" \notin Holding
        BY Zenon DEF Running, Holding, Submitting, Mining
      <3> QED BY <1>k, <2>1, <3>1, Zenon DEF Known, Course
    <2>3. ASSUME NEW status \in Refusals, Goto(c, "write"), Answer(c, status)
          PROVE  Known(c)'
      <3>1. pc'[c] = "write" /\ answer'[c] = status
        BY <2>3, Zenon DEF Goto, Answer, Types
      <3> QED BY <1>k, <1>e, <2>1, <2>2, <3>1, Refuses, Zenon
    <2>4. ASSUME UNCHANGED answer,
                 Goto(c, CASE kind[c] = "ready" -> "see"
                           [] kind[c] \in Reads -> "look"
                           [] OTHER -> "op")
          PROVE  Known(c)'
      <3>1. CASE kind[c] = "ready"
        <4>1. "ready" \notin Reads
          BY Zenon DEF Reads
        <4>2. Goto(c, "see")
          BY <2>4, <3>1, <4>1, Zenon
        <4>3. GoesOn(pc[c], "see", kind[c]) /\ "see" \notin {"add", "apply"}
          BY <2>1, <3>1, Zenon DEF GoesOn
        <4> QED BY <1>p, <2>1, <2>2, <2>4, <4>2, <4>3, Zenon
      <3>2. CASE kind[c] # "ready" /\ kind[c] \in Reads
        <4>1. Goto(c, "look")
          BY <2>4, <3>2, Zenon
        <4>2. GoesOn(pc[c], "look", kind[c]) /\ "look" \notin {"add", "apply"}
          BY <2>1, Zenon DEF GoesOn
        <4> QED BY <1>p, <2>1, <2>2, <2>4, <4>1, <4>2, Zenon
      <3>3. CASE kind[c] # "ready" /\ kind[c] \notin Reads
        <4>1. Goto(c, "op")
          BY <2>4, <3>3, Zenon
        <4>2. GoesOn(pc[c], "op", kind[c]) /\ "op" \notin {"add", "apply"}
          BY <2>1, <3>3, Zenon DEF GoesOn
        <4> QED BY <1>p, <2>1, <2>2, <2>4, <4>1, <4>2, Zenon
      <3> QED BY <3>1, <3>2, <3>3, Zenon
    <2>5. \/ \E status \in Refusals : Goto(c, "write") /\ Answer(c, status)
          \/ /\ UNCHANGED answer
             /\ Goto(c, CASE kind[c] = "ready" -> "see"
                          [] kind[c] \in Reads -> "look"
                          [] OTHER -> "op")
      <3>1. 400 \in Refusals /\ 503 \in Refusals
        BY DEF Refusals
      <3> QED BY <1>1, <3>1, Zenon DEF ReadAndRoute
    <2> QED BY <2>3, <2>4, <2>5, Zenon
  <1>2. CASE handle_ready(c)
    <2>1. pc[c] = "see" /\ Quiet /\ late' = late /\ UNCHANGED <<locks, evicted>>
      BY <1>2, Zenon DEF handle_ready, effects, views, Quiet
    <2>2. /\ pc[c] \in Running \ {"write", "announce", "accepted"}
          /\ kind[c] = "ready" /\ \A m \in Mutex : locks'[m] # c
      <3>1. "see" \in Running \ {"write", "announce", "accepted"} /\ "see" \notin Holding
        BY Zenon DEF Running, Holding, Submitting, Mining
      <3> QED BY <1>k, <2>1, <3>1, Zenon DEF Known, Course
    <2>3. pc'[c] = "write" /\ (answer'[c] = Success \/ answer'[c] \in Refusals)
      BY <1>2 DEF handle_ready, is_ready, Goto, Types, Success, Refusals
    <2>4. CASE answer'[c] = Success
      <3>1. Shown(c)'
        BY <1>e, <2>1, <2>2, Zenon DEF Shown, Earlier, Quiet
      <3> QED BY <1>k, <2>1, <2>2, <2>3, <2>4, <3>1, Shows, Zenon
    <2>5. CASE answer'[c] \in Refusals
      BY <1>k, <1>e, <2>1, <2>2, <2>3, <2>5, Refuses, Zenon DEF NowLate
    <2> QED BY <2>3, <2>4, <2>5, Zenon
  <1>3. CASE handle_get_tip(c)
    <2>1. /\ Quiet /\ UNCHANGED <<evicted, before, late>>
          /\ pc[c] \in {"look", "find"} /\ kind[c] # "submit" /\ kind[c] # "mine"
      BY <1>3, Zenon DEF handle_get_tip, same, server, effects, Quiet
    <2> QED BY <1>3, <1>k, <1>e, <1>b, <2>1, LooksUnder, Zenon DEF handle_get_tip
  <1>4. CASE handle_get_block(c)
    <2>1. /\ Quiet /\ NowLate(c) /\ UNCHANGED <<evicted, before, late>>
          /\ pc[c] = "look" /\ kind[c] = "get_block"
      BY <1>4, Zenon DEF handle_get_block, same, server, effects, Quiet, NowLate
    <2>2. pc[c] \in Running \ {"write", "announce", "accepted"}
      BY <2>1, Zenon DEF Running
    <2>3. CASE \E status \in Refusals : Respond(c, status)
      BY <1>s, <2>1, <2>2, <2>3, Zenon
    <2>4. CASE Respond(c, Success) /\ See(c, applied)
      BY <1>k, <1>e, <1>b, <2>1, <2>4, Looks, Zenon
    <2> QED BY <1>4, <2>3, <2>4 DEF handle_get_block, Refusals, Success
  <1>5. CASE handle_get_mempool(c)
    <2>1. /\ Quiet /\ UNCHANGED <<evicted, before, late>>
          /\ pc[c] \in {"look", "find"} /\ kind[c] # "submit" /\ kind[c] # "mine"
      BY <1>5, Zenon DEF handle_get_mempool, same, server, effects, Quiet
    <2> QED BY <1>5, <1>k, <1>e, <1>b, <2>1, LooksUnder, Zenon DEF handle_get_mempool
  <1>6. CASE CheckPoison(c)
    <2>1. Quiet /\ NowLate(c) /\ pc[c] = "look" /\ pc[c] \in Running \ {"write", "announce", "accepted"}
      BY <1>6, Zenon DEF CheckPoison, same, server, effects, views, Quiet, NowLate, Running
    <2>2. CASE \E status \in Refusals : Respond(c, status)
      BY <1>s, <2>1, <2>2, Zenon
    <2>4. CASE Goto(c, "find") /\ UNCHANGED <<locks, answer>>
      <3>1. GoesOn(pc[c], "find", kind[c]) /\ ("find" \in {"add", "apply"} => ~stop)
        BY <2>1, <2>4, Zenon DEF GoesOn
      <3> QED BY <1>p, <2>1, <2>4, <3>1, Zenon
    <2> QED BY <1>6, <2>2, <2>4 DEF CheckPoison, Refusals
  <1>7. CASE handle_get_tx(c)
    <2>1. /\ Quiet /\ UNCHANGED <<evicted, before, late>>
          /\ pc[c] \in {"look", "find"} /\ kind[c] # "submit" /\ kind[c] # "mine"
      BY <1>7, Zenon DEF handle_get_tx, same, server, effects, Quiet
    <2> QED BY <1>7, <1>k, <1>e, <1>b, <2>1, LooksUnder, Zenon DEF handle_get_tx
  <1>8. CASE handle_tx_status(c)
    <2>1. /\ Quiet /\ UNCHANGED <<evicted, before, late>>
          /\ pc[c] \in {"look", "find"} /\ kind[c] # "submit" /\ kind[c] # "mine"
      BY <1>8, Zenon DEF handle_tx_status, same, server, effects, Quiet
    <2> QED BY <1>8, <1>k, <1>e, <1>b, <2>1, LooksUnder, Zenon DEF handle_tx_status
  <1>9. CASE render_prometheus_metrics(c)
    <2>1. Quiet /\ NowLate(c) /\ UNCHANGED <<evicted, before, late>> /\ kind[c] = "metrics"
      BY <1>9, Zenon DEF render_prometheus_metrics, same, server, effects, Quiet, NowLate
    <2>2. CASE pc[c] = "look" /\ Goto(c, "find") /\ UNCHANGED <<locks, answer>>
      <3>1. GoesOn(pc[c], "find", kind[c]) /\ "find" \notin {"add", "apply"}
        BY <2>2, Zenon DEF GoesOn
      <3> QED BY <1>p, <2>1, <2>2, <3>1, Zenon
    <2>3. ASSUME pc[c] = "find", Respond(c, Success), NEW what, See(c, what) PROVE Known(c)'
      BY <1>k, <1>e, <1>b, <2>1, <2>3, Looks, Zenon
    <2> QED BY <1>9, <2>2, <2>3 DEF render_prometheus_metrics, Success
  <1>10. CASE LockOp(c)
    <2>1. Quiet /\ NowLate(c) /\ pc[c] = "op" /\ pc[c] \in Running \ {"write", "announce", "accepted"}
      BY <1>10, Zenon DEF LockOp, same, server, effects, Quiet, NowLate, Running
    <2>2. CASE \E status \in Refusals : Respond(c, status)
      BY <1>s, <2>1, <2>2, Zenon
    <2>3. CASE /\ Goto(c, IF kind[c] = "submit" THEN "snapshot" ELSE "engine")
               /\ UNCHANGED answer
      <3>1. CASE kind[c] = "submit"
        <4>1. Goto(c, "snapshot")
          BY <2>3, <3>1, Zenon
        <4>2. /\ GoesOn(pc[c], "snapshot", kind[c]) /\ "snapshot" \notin {"add", "apply"}
              /\ "snapshot" \in Holding
          BY <2>1, <3>1, Zenon DEF GoesOn, Holding, Submitting
        <4> QED BY <1>p, <2>1, <2>3, <4>1, <4>2, Zenon
      <3>2. CASE kind[c] # "submit"
        <4>1. Goto(c, "engine")
          BY <2>3, <3>2, Zenon
        <4>2. /\ GoesOn(pc[c], "engine", kind[c]) /\ "engine" \notin {"add", "apply"}
              /\ "engine" \in Holding
          BY <2>1, <3>2, Zenon DEF GoesOn, Holding, Mining
        <4> QED BY <1>p, <2>1, <2>3, <4>1, <4>2, Zenon
      <3> QED BY <3>1, <3>2, Zenon
    <2> QED BY <1>10, <2>2, <2>3 DEF LockOp, Lock, Refusals
  <1>11. CASE TakeSnapshot(c)
    <2>1. Quiet /\ NowLate(c) /\ pc[c] = "snapshot" /\ pc[c] \in Running \ {"write", "announce", "accepted"}
      BY <1>11, Zenon DEF TakeSnapshot, same, server, effects, views, Quiet, NowLate, Running
    <2>2. CASE \E status \in Refusals : Respond(c, status)
      BY <1>s, <2>1, <2>2, Zenon
    <2>3. CASE Goto(c, "store") /\ UNCHANGED <<locks, answer>>
      <3>1. GoesOn(pc[c], "store", kind[c]) /\ ("store" \in {"add", "apply"} => ~stop)
        BY <2>1, <2>3, Zenon DEF GoesOn
      <3> QED BY <1>p, <2>1, <2>3, <3>1, Zenon
    <2> QED BY <1>11, <2>2, <2>3 DEF TakeSnapshot, Refusals
  <1>12. CASE OpenStore(c)
    <2>1. Quiet /\ NowLate(c) /\ pc[c] = "store" /\ pc[c] \in Running \ {"write", "announce", "accepted"}
      BY <1>12, Zenon DEF OpenStore, same, server, effects, views, Quiet, NowLate, Running
    <2>2. CASE \E status \in Refusals : Respond(c, status)
      BY <1>s, <2>1, <2>2, Zenon
    <2>3. CASE Goto(c, "admit") /\ UNCHANGED <<locks, answer>>
      <3>1. GoesOn(pc[c], "admit", kind[c]) /\ ("admit" \in {"add", "apply"} => ~stop)
        BY <2>1, <2>3, Zenon DEF GoesOn
      <3> QED BY <1>p, <2>1, <2>3, <3>1, Zenon
    <2> QED BY <1>12, <2>2, <2>3 DEF OpenStore, Refusals
  <1>13. CASE CheckAdmission(c)
    <2>1. Quiet /\ NowLate(c) /\ pc[c] = "admit" /\ pc[c] \in Running \ {"write", "announce", "accepted"}
      BY <1>13, Zenon DEF CheckAdmission, same, server, effects, views, Quiet, NowLate, Running
    <2>2. CASE \E status \in Refusals : Respond(c, status)
      BY <1>s, <2>1, <2>2, Zenon
    <2>4. CASE Lock(c, "pool", "add") /\ ~stop
      <3>1. CASE \E status \in Refusals : Respond(c, status)
        BY <1>s, <2>1, <3>1, Zenon
      <3>2. CASE Goto(c, "add") /\ UNCHANGED answer
        <4>1. GoesOn(pc[c], "add", kind[c]) /\ ("add" \in {"add", "apply"} => ~stop) /\ "add" \in Holding
          BY <2>1, <2>4, Zenon DEF GoesOn, Holding, Submitting, Mining
        <4> QED BY <1>p, <2>1, <3>2, <4>1, Zenon
      <3> QED BY <2>4, <3>1, <3>2 DEF Lock, Refusals
    <2> QED BY <1>13, <2>2, <2>4 DEF CheckAdmission, Refusals
  <1>14. CASE AddTx(c)
    <2>1. /\ UNCHANGED <<kind, stop, booted, applied, consumed, announced, late>>
          /\ pc[c] = "add" /\ pc[c] \in Running \ {"write", "announce", "accepted"} /\ NowLate(c)
      BY <1>14, Zenon DEF AddTx, same, server, views, NowLate, Running
    <2>2. CASE /\ pooled' = pooled \cup {c} /\ Goto(c, "announce")
               /\ locks' = Dropped(c, Mutex) /\ UNCHANGED answer
      <3>1. pc'[c] = "announce"
        BY <2>2, GoesTo, Zenon
      <3> QED BY <1>k, <1>e, <2>1, <2>2, <3>1, AddKeeps, Zenon
    <2>3. ASSUME NEW status \in Refusals, Respond(c, status), UNCHANGED pooled
          PROVE  Known(c)'
      <3>1. Quiet
        BY <2>1, <2>3, Zenon DEF Quiet
      <3> QED BY <1>s, <2>1, <2>3, <3>1, Zenon
    <2> QED BY <1>14, <2>2, <2>3 DEF AddTx, Refusals
  <1>15. CASE LockEngine(c)
    <2>1. Quiet /\ NowLate(c) /\ pc[c] = "engine" /\ pc[c] \in Running \ {"write", "announce", "accepted"}
      BY <1>15, Zenon DEF LockEngine, same, server, effects, views, Quiet, NowLate, Running
    <2>2. CASE Lock(c, "engine", "pool")
      <3>1. CASE \E status \in Refusals : Respond(c, status)
        BY <1>s, <2>1, <3>1, Zenon
      <3>2. CASE Goto(c, "pool") /\ UNCHANGED answer
        <4>1. GoesOn(pc[c], "pool", kind[c]) /\ ("pool" \in {"add", "apply"} => ~stop) /\ "pool" \in Holding
          BY <2>1, <2>2, Zenon DEF GoesOn, Holding, Submitting, Mining
        <4> QED BY <1>p, <2>1, <3>2, <4>1, Zenon
      <3> QED BY <2>2, <3>1, <3>2 DEF Lock, Refusals
    <2> QED BY <1>15, <2>2, Zenon DEF LockEngine
  <1>16. CASE LockPool(c)
    <2>1. Quiet /\ NowLate(c) /\ pc[c] = "pool" /\ pc[c] \in Running \ {"write", "announce", "accepted"}
      BY <1>16, Zenon DEF LockPool, same, server, effects, views, Quiet, NowLate, Running
    <2>2. CASE Lock(c, "pool", "boot")
      <3>1. CASE \E status \in Refusals : Respond(c, status)
        BY <1>s, <2>1, <3>1, Zenon
      <3>2. CASE Goto(c, "boot") /\ UNCHANGED answer
        <4>1. GoesOn(pc[c], "boot", kind[c]) /\ ("boot" \in {"add", "apply"} => ~stop) /\ "boot" \in Holding
          BY <2>1, <2>2, Zenon DEF GoesOn, Holding, Submitting, Mining
        <4> QED BY <1>p, <2>1, <3>2, <4>1, Zenon
      <3> QED BY <2>2, <3>1, <3>2 DEF Lock, Refusals
    <2> QED BY <1>16, <2>2, Zenon DEF LockPool
  <1>17. CASE PreBootstrap(c)
    <2>1. /\ UNCHANGED <<kind, stop, pooled, applied, consumed, announced, late>>
          /\ pc[c] = "boot" /\ pc[c] \in Running \ {"write", "announce", "accepted"} /\ NowLate(c)
      BY <1>17, Zenon DEF PreBootstrap, same, server, views, NowLate, Running
    <2>2. ASSUME NEW status \in Refusals, Respond(c, status), UNCHANGED booted
          PROVE  Known(c)'
      <3>1. Quiet
        BY <2>1, <2>2, Zenon DEF Quiet
      <3> QED BY <1>s, <2>1, <2>2, <3>1, Zenon
    <2>3. CASE ~stop /\ Goto(c, "search") /\ UNCHANGED <<locks, answer>>
      <3>1. pc'[c] = "search"
        BY <2>3, GoesTo, Zenon
      <3> QED BY <1>k, <1>e, <2>1, <2>3, <3>1, BootstrapKeeps, Zenon
    <2> QED BY <1>17, <2>2, <2>3 DEF PreBootstrap, Refusals
  <1>18. CASE NonceQuantum(c)
    <2>1. Quiet /\ NowLate(c) /\ pc[c] = "search" /\ pc[c] \in Running \ {"write", "announce", "accepted"}
      BY <1>18, Zenon DEF NonceQuantum, same, server, effects, views, Quiet, NowLate, Running
    <2>2. CASE \E status \in Refusals : Respond(c, status)
      BY <1>s, <2>1, <2>2, Zenon
    <2> QED BY <1>18, <2>2 DEF NonceQuantum, Refusals
  <1>19. CASE Search(c)
    <2>1. Quiet /\ NowLate(c) /\ pc[c] = "search" /\ pc[c] \in Running \ {"write", "announce", "accepted"}
      BY <1>19, Zenon DEF Search, same, server, effects, views, Quiet, NowLate, Running
    <2>2. CASE \E status \in Refusals : Respond(c, status)
      BY <1>s, <2>1, <2>2, Zenon
    <2>3. CASE Goto(c, "preapply") /\ UNCHANGED <<locks, answer>>
      <3>1. GoesOn(pc[c], "preapply", kind[c]) /\ ("preapply" \in {"add", "apply"} => ~stop)
        BY <2>1, <2>3, Zenon DEF GoesOn
      <3> QED BY <1>p, <2>1, <2>3, <3>1, Zenon
    <2> QED BY <1>19, <2>2, <2>3 DEF Search, Refusals
  <1>20. CASE PreApply(c)
    <2>1. Quiet /\ NowLate(c) /\ pc[c] = "preapply" /\ pc[c] \in Running \ {"write", "announce", "accepted"}
      BY <1>20, Zenon DEF PreApply, same, server, effects, views, Quiet, NowLate, Running
    <2>2. CASE \E status \in Refusals : Respond(c, status)
      BY <1>s, <2>1, <2>2, Zenon
    <2>3. CASE Goto(c, "apply") /\ UNCHANGED <<locks, answer>> /\ ~stop
      <3>1. GoesOn(pc[c], "apply", kind[c]) /\ ("apply" \in {"add", "apply"} => ~stop)
        BY <2>1, <2>3, Zenon DEF GoesOn
      <3> QED BY <1>p, <2>1, <2>3, <3>1, Zenon
    <2> QED BY <1>20, <2>2, <2>3 DEF PreApply, Refusals
  <1>21. CASE ApplyBlock(c)
    <2>1. /\ UNCHANGED <<kind, stop, booted, pooled, consumed, announced, late>>
          /\ pc[c] = "apply" /\ pc[c] \in Running \ {"write", "announce", "accepted"} /\ NowLate(c)
      BY <1>21, Zenon DEF ApplyBlock, same, server, views, NowLate, Running
    <2>2. CASE /\ applied' = applied \cup {c} /\ Goto(c, "accepted")
               /\ locks' = Dropped(c, {"engine", "pool"}) /\ UNCHANGED answer
      <3>1. pc'[c] = "accepted"
        BY <2>2, GoesTo, Zenon
      <3> QED BY <1>k, <1>e, <2>1, <2>2, <3>1, ApplyKeeps, Zenon
    <2>3. CASE UNCHANGED applied /\ \E status \in Refusals : Respond(c, status)
      <3>1. Quiet
        BY <2>1, <2>3, Zenon DEF Quiet
      <3> QED BY <1>s, <2>1, <2>3, <3>1, Zenon
    <2> QED BY <1>21, <2>2, <2>3 DEF ApplyBlock, Refusals
  <1>22. CASE ConsumeDa(c)
    BY <1>k, <1>e, <1>22, ConsumeKeeps, Zenon
  <1>23. CASE Announce(c)
    BY <1>k, <1>e, <1>23, AnnounceKeeps, Zenon
  <1>24. CASE WriteResponse(c)
    <2>1. pc[c] = "write" /\ pc'[c] \in {"done", "panicked"} /\ UNCHANGED locks
          /\ UNCHANGED <<answer, kind, stop, effects, views>>
      BY <1>24, GoesTo, Zenon DEF WriteResponse, server, effects, views
    <2>2. \A m \in Mutex : locks'[m] # c
      <3>1. "write" \notin Holding
        BY Zenon DEF Holding, Submitting, Mining
      <3> QED BY <1>k, <2>1, <3>1, Zenon DEF Known, Course
    <2> QED BY <1>k, <1>e, <2>1, <2>2, EndKeeps, Zenon
  <1>25. CASE HandlerPanics(c)
    <2>1. pc'[c] \in {"done", "panicked"} /\ UNCHANGED <<answer, kind, stop, effects, views>>
      BY <1>25, GoesTo, Zenon DEF HandlerPanics, server, effects, views
    <2>2. \A m \in Mutex : locks'[m] # c
      BY <1>25, Drops, Zenon DEF HandlerPanics
    <2> QED BY <1>k, <1>e, <2>1, <2>2, EndKeeps, Zenon
  <1> QED BY <1>1, <1>2, <1>3, <1>4, <1>5, <1>6, <1>7, <1>8, <1>9, <1>10, <1>11, <1>12, <1>13, <1>14, <1>15, <1>16, <1>17, <1>18, <1>19, <1>20, <1>21, <1>22, <1>23, <1>24, <1>25, Zenon DEF HandlerMoves, HandlerStep

\* So every step of a handler keeps what is known of all of them.
LEMMA HandlersKeep ==
    ASSUME Types, MainInv, HandlerInv, NEW c \in Conns, HandlerMoves(c)
    PROVE  Types' /\ HandlerInv'
  <1>1. Outside(c)
    BY HandlersAreApart, Zenon
  <1>2. Types'
    BY <1>1, OthersAreLeft, Zenon
  <1>3. ASSUME NEW d \in Conns PROVE (Course(d) /\ Effects(d) /\ Told(d) /\ Cancelled(d) /\ Shown(d))'
    <2>1. CASE d = c
      BY <2>1, OwnStep, Zenon DEF Known
    <2>2. CASE d # c
      BY <1>1, <2>2, OthersStay, Zenon
    <2> QED BY <2>1, <2>2, Zenon
  <1> QED BY <1>2, <1>3, Zenon DEF HandlerInv

-----------------------------------------------------------------------------
(* The unit of each handler. *)

\* The handlers that run.
Busy == {c \in Conns : pc[c] \in Running}

\* There are finitely many of them.
LEMMA BusyIsFinite ==
    ASSUME Types
    PROVE  IsFiniteSet(Busy) /\ Cardinality(Busy) \in Nat
  <1>1. Busy \in SUBSET Conns
    BY Zenon DEF Busy
  <1>2. IsFiniteSet(Busy)
    BY <1>1, FS_Subset, Zenon DEF Types, RpcAssumption
  <1> QED BY <1>2, FS_CardinalityType, Zenon

\* But for the count a handler leaves the scalars of the server in their types.
LEMMA ServerStays ==
    ASSUME ServerTypes, Leaves, active' \in 0 .. MAX_CONCURRENT_RPC_CONNS
    PROVE  ServerTypes'
  <1>1. ready' \in {"NotReady", "Ready", "Shutdown"}
    BY Zenon DEF ServerTypes, Leaves
  <1>2. UNCHANGED <<main, signal, frozen, stop, joined, fault, code, loop, current>>
    BY Zenon DEF Leaves
  <1> QED BY <1>1, <1>2 DEF ServerTypes

\* A handler keeps its unit until its last step, which gives it back.
LEMMA HandlersCount ==
    ASSUME Types, ServerTypes, CountIsExact, NEW c \in Conns, HandlerMoves(c)
    PROVE  CountIsExact' /\ ServerTypes' /\ active' <= active
  <1>1. Outside(c) /\ Types'
    BY HandlersAreApart, OthersAreLeft, Zenon
  <1>2. c \in Busy /\ \A d \in Conns \ {c} : pc'[d] = pc[d]
    BY <1>1, OthersAreLeft, Zenon DEF Outside, Busy
  <1>3. active = Cardinality(Busy) + (IF loop = "spawn" THEN 1 ELSE 0) /\ loop' = loop
    BY <1>1, Zenon DEF CountIsExact, Busy, Outside, Leaves
  <1>4. CASE active' = active /\ \E to \in Running : Goto(c, to)
    <2>1. Busy' = Busy
      BY <1>2, <1>4 DEF Busy, Goto, Types
    <2>2. CountIsExact'
      BY <1>3, <1>4, <2>1, Zenon DEF CountIsExact, Busy
    <2>3. active' \in 0 .. MAX_CONCURRENT_RPC_CONNS /\ active' <= active
      BY <1>4 DEF ServerTypes, Types, RpcAssumption
    <2> QED BY <1>1, <2>2, <2>3, ServerStays, Zenon DEF Outside
  <1>5. CASE active' = active - 1 /\ \E to \in {"done", "panicked"} : Goto(c, to)
    <2>1. Busy' = Busy \ {c}
      BY <1>2, <1>5, Zenon DEF Busy, Goto, Types, Running
    <2>2. /\ Cardinality(Busy') = Cardinality(Busy) - 1
          /\ Cardinality(Busy) \in Nat /\ Cardinality(Busy') \in Nat
      BY <1>1, <1>2, <2>1, BusyIsFinite, FS_RemoveElement, FS_CardinalityType, Zenon
    <2>3. active' = Cardinality(Busy') + (IF loop' = "spawn" THEN 1 ELSE 0)
      BY <1>3, <1>5, <2>2
    <2>4. active' \in 0 .. MAX_CONCURRENT_RPC_CONNS /\ active' <= active
      BY <1>5, <2>2, <2>3 DEF ServerTypes, Types, RpcAssumption
    <2>5. CountIsExact'
      BY <2>3, Zenon DEF CountIsExact, Busy
    <2> QED BY <1>1, <2>4, <2>5, ServerStays, Zenon DEF Outside
  <1> QED BY <1>1, <1>4, <1>5, Zenon DEF Outside, Place

\* A handler's step changes nothing that the main thread or the loop rely on.
LEMMA HandlersKeepServer ==
    ASSUME IInv, NEW c \in Conns, HandlerMoves(c)
    PROVE  MainInv' /\ LoopInv'
  <1>1. Outside(c)
    BY HandlersAreApart, Zenon DEF IInv
  <1>2. /\ UNCHANGED <<main, signal, frozen, stop, joined, fault, code, loop, current>>
        /\ ready' = ready \/ ready' = "Shutdown"
    BY <1>1, Zenon DEF Outside, Leaves
  <1>3. c \in Busy /\ IsFiniteSet(Busy) /\ Cardinality(Busy) \in Nat
    BY <1>1, BusyIsFinite, Zenon DEF IInv, Outside, Busy
  <1>4. active # 0
    <2>1. Cardinality(Busy) # 0
      BY <1>3, FS_EmptySet, Zenon
    <2> QED BY <1>3, <2>1 DEF IInv, CountIsExact, Busy
  <1>5. loop # "none" /\ main \notin {"p2p", "exit"}
    BY <1>4, Zenon DEF IInv, LoopInv, MainInv
  <1>6. MainInv'
    BY <1>2, <1>5, Zenon DEF IInv, MainInv, ServerTypes
  <1>7. loop \in {"admit", "spawn"} => current \in Conns /\ pc[current] = "backlog" /\ current # c
    BY <1>1, Zenon DEF IInv, LoopInv, Outside, Running
  <1>8. LoopInv'
    BY <1>1, <1>2, <1>5, <1>7, OthersAreLeft, Zenon DEF IInv, LoopInv
  <1> QED BY <1>6, <1>8, Zenon

-----------------------------------------------------------------------------
(* The main thread and the accept loop. *)

\* A step that leaves the handlers where they are and does not take the stop
\* back keeps what is known of them.
LEMMA Bystanders ==
    ASSUME Types, HandlerInv, stop => stop',
           UNCHANGED <<pc, kind, answer, locks, poisoned, effects, views>>
    PROVE  Types' /\ HandlerInv'
  <1> USE DEF effects, views
  <1>1. Types'
    BY Zenon DEF Types, RpcAssumption
  <1>2. ASSUME NEW c \in Conns PROVE (Course(c) /\ Effects(c) /\ Told(c) /\ Cancelled(c) /\ Shown(c))'
    <2>1. Course(c)' /\ Effects(c)'
      BY Zenon DEF HandlerInv, Course, Effects
    <2>2. Told(c)' /\ Cancelled(c)'
      BY Zenon DEF HandlerInv, Told, Cancelled
    <2>3. Shown(c)'
      BY Zenon DEF HandlerInv, Shown
    <2> QED BY <2>1, <2>2, <2>3, Zenon
  <1> QED BY <1>1, <1>2, Zenon DEF HandlerInv

\* The main thread starts the server, stamps the stages of each pass of close
\* and goes on only when loop and handlers are gone.
LEMMA MainKeeps ==
    ASSUME IInv, MainStep \/ RequestStop
    PROVE  IInv'
  <1> USE DEF server, accept
  <1>1. UNCHANGED <<active, pc, kind, answer, locks, poisoned, current, effects, views>> /\ (stop => stop')
    BY DEF MainStep, RequestStop, CheckBeforeStart, start_devnet_rpc_server, BeginPass, freeze_admission,
           PublishStop, resolve_accept_loop, wait_for_handlers, close_p2p
  <1>2. Types' /\ HandlerInv'
    BY <1>1, Bystanders, Zenon DEF IInv
  <1>3. loop' = loop \/ (loop = "none" /\ loop' = "poll")
    BY Zenon DEF IInv, MainInv, MainStep, RequestStop, CheckBeforeStart, start_devnet_rpc_server, BeginPass,
           freeze_admission, PublishStop, resolve_accept_loop, wait_for_handlers, close_p2p
  <1>4. LoopInv'
    BY <1>1, <1>3, Zenon DEF IInv, LoopInv
  <1>5. CountIsExact'
    BY <1>1, <1>3, Zenon DEF IInv, CountIsExact
  <1>6. ServerTypes' /\ MainInv'
    <2>1. CASE RequestStop
      <3>1. ServerTypes'
        BY <2>1 DEF IInv, ServerTypes, RequestStop
      <3>2. MainInv'
        BY <2>1, Zenon DEF IInv, ServerTypes, MainInv, LoopInv, RequestStop
      <3> QED BY <3>1, <3>2, Zenon
    <2>2. CASE CheckBeforeStart
      <3>1. ServerTypes'
        BY <2>2 DEF IInv, ServerTypes, CheckBeforeStart
      <3>2. MainInv'
        BY <2>2, Zenon DEF IInv, ServerTypes, MainInv, LoopInv, CheckBeforeStart
      <3> QED BY <3>1, <3>2, Zenon
    <2>3. CASE start_devnet_rpc_server
      <3>1. ServerTypes'
        BY <2>3 DEF IInv, ServerTypes, start_devnet_rpc_server, mark_shutdown
      <3>2. MainInv'
        BY <2>3, Zenon DEF IInv, ServerTypes, MainInv, LoopInv, start_devnet_rpc_server, mark_shutdown
      <3> QED BY <3>1, <3>2, Zenon
    <2>4. CASE BeginPass
      <3>1. ServerTypes'
        BY <2>4, Zenon DEF IInv, ServerTypes, BeginPass, mark_shutdown
      <3>2. MainInv'
        BY <2>4, Zenon DEF IInv, ServerTypes, MainInv, LoopInv, BeginPass, mark_shutdown
      <3> QED BY <3>1, <3>2, Zenon
    <2>5. CASE freeze_admission
      <3>1. ServerTypes'
        BY <2>5, Zenon DEF IInv, ServerTypes, freeze_admission
      <3>2. MainInv'
        BY <2>5, Zenon DEF IInv, ServerTypes, MainInv, LoopInv, freeze_admission
      <3> QED BY <3>1, <3>2, Zenon
    <2>6. CASE PublishStop
      <3>1. ServerTypes'
        BY <2>6, Zenon DEF IInv, ServerTypes, PublishStop
      <3>2. MainInv'
        BY <2>6, Zenon DEF IInv, ServerTypes, MainInv, LoopInv, PublishStop
      <3> QED BY <3>1, <3>2, Zenon
    <2>7. CASE resolve_accept_loop
      <3>1. ServerTypes'
        BY <2>7, Zenon DEF IInv, ServerTypes, resolve_accept_loop
      <3>2. CASE joined
        BY <2>7, <3>2, Zenon DEF IInv, ServerTypes, MainInv, resolve_accept_loop
      <3>3. CASE ~joined /\ loop \in {"done", "panicked"}
        <4>1. joined' = TRUE /\ (fault' <=> loop = "panicked") /\ main' = "drain" /\ loop' = loop
          BY <2>7, <3>3, Zenon DEF IInv, ServerTypes, MainInv, resolve_accept_loop
        <4> QED BY <2>7, <3>3, <4>1, Zenon DEF IInv, ServerTypes, MainInv, resolve_accept_loop
      <3>4. CASE ~joined /\ loop \notin {"done", "panicked"}
        BY <2>7, <3>4 DEF IInv, ServerTypes, MainInv, resolve_accept_loop
      <3>5. MainInv'
        BY <2>7, <3>2, <3>3, <3>4, Zenon
      <3> QED BY <3>1, <3>5, Zenon
    <2>8. CASE wait_for_handlers
      <3>1. ServerTypes'
        BY <2>8 DEF IInv, ServerTypes, wait_for_handlers
      <3>2. CASE active = 0
        <4>1. /\ main = "drain" /\ main' = "p2p" /\ (code' = 1 <=> fault)
              /\ UNCHANGED <<active, loop, ready, frozen, stop, joined, fault>>
          BY <2>8, <3>2 DEF IInv, ServerTypes, wait_for_handlers
        <4>2. /\ frozen /\ joined /\ stop /\ loop \in {"done", "panicked"}
              /\ ready = "Shutdown" /\ (fault <=> loop = "panicked")
          BY <4>1, Zenon DEF IInv, MainInv
        <4> QED BY <3>1, <3>2, <4>1, <4>2, Zenon DEF MainInv
      <3>3. CASE active # 0
        BY <2>8, <3>3, Zenon DEF IInv, ServerTypes, MainInv, wait_for_handlers
      <3>4. MainInv'
        BY <3>2, <3>3, Zenon
      <3> QED BY <3>1, <3>4, Zenon
    <2>9. CASE close_p2p
      <3>1. ServerTypes'
        BY <2>9, Zenon DEF IInv, ServerTypes, close_p2p
      <3>2. MainInv'
        BY <2>9, Zenon DEF IInv, ServerTypes, MainInv, LoopInv, close_p2p
      <3> QED BY <3>1, <3>2, Zenon
    <2> QED BY <2>1, <2>2, <2>3, <2>4, <2>5, <2>6, <2>7, <2>8, <2>9, Zenon DEF MainStep
  <1> QED BY <1>2, <1>4, <1>5, <1>6, Zenon DEF IInv

\* A step of one connection that has not been admitted: the others stay.
LEMMA Unadmitted ==
    ASSUME Types, HandlerInv, NEW c \in Conns, pc[c] \in {"none", "backlog"},
           NEW to \in {"backlog", "dropped", "read"}, Goto(c, to),
           before' = before \/ before' = [before EXCEPT ![c] = {d \in Conns : kind[c] \in Reads /\ pc[d] = "done" /\ answer[d] = Success}],
           UNCHANGED <<stop, kind, answer, locks, poisoned, effects, seen, late>>
    PROVE  Types' /\ HandlerInv'
  <1> USE DEF effects
  <1>1. /\ pc' \in [Conns -> Places] /\ pc'[c] = to
        /\ \A d \in Conns \ {c} : pc'[d] = pc[d]
    BY Zenon DEF Types, Goto, Places, Running
  <1>2. /\ before' \in [Conns -> SUBSET Conns]
        /\ \A d \in Conns \ {c} : before'[d] = before[d]
        /\ \A d \in before'[c] : d \in before[c] \/ (d \in Conns /\ pc[d] = "done" /\ answer[d] = Success)
    BY DEF Types
  <1>3. Types'
    BY <1>1, <1>2, Zenon DEF Types, RpcAssumption
  <1>4. ASSUME NEW d \in Conns PROVE (Course(d) /\ Effects(d) /\ Told(d) /\ Cancelled(d) /\ Shown(d))'
    <2>1. Course(d) /\ Effects(d) /\ Told(d) /\ Cancelled(d) /\ Shown(d)
      BY Zenon DEF HandlerInv
    <2>2. Course(d)'
      BY <1>1, <2>1, Zenon DEF Course, Over, Holding, Submitting, Mining
    <2>3. Effects(d)'
      BY <1>1, <2>1, Zenon DEF Effects, Over
    <2>4. Told(d)'
      BY <2>1, Zenon DEF Told
    <2>5. Cancelled(d)'
      BY <1>1, <2>1, Zenon DEF Cancelled, Over
    <2>6. \A e \in before'[d] : e \in Conns /\ pc'[e] = "done" /\ answer'[e] = Success
      <3>1. \A e \in before'[d] : e \in Conns /\ pc[e] = "done" /\ answer[e] = Success
        <4>1. \A e \in before[d] : e \in Conns /\ pc[e] = "done" /\ answer[e] = Success
          BY <2>1, Zenon DEF Shown, Types
        <4>2. CASE d = c
          BY <1>2, <4>1, <4>2, Zenon
        <4>3. CASE d # c
          BY <1>2, <4>1, <4>3, Zenon
        <4> QED BY <4>2, <4>3, Zenon
      <3>2. pc[c] # "done"
        BY Zenon
      <3> QED BY <1>1, <3>1, <3>2, Zenon
    <2>7. Shown(d)'
      <3>1. CASE d = c
        <4>1. answer'[d] # Success
          BY <2>1, <3>1, Codes, Zenon DEF Course, Over
        <4> QED BY <2>6, <4>1, Zenon DEF Shown
      <3>2. CASE d # c
        BY <1>2, <2>1, <2>6, <3>2, Zenon DEF Shown
      <3> QED BY <3>1, <3>2, Zenon
    <2> QED BY <2>2, <2>3, <2>4, <2>5, <2>7, Zenon
  <1> QED BY <1>3, <1>4, Zenon DEF HandlerInv

\* The main thread's facts depend on the loop only as far as it has started,
\* ended or panicked, and on the units once it has.
LEMMA LoopKeepsMain ==
    ASSUME ServerTypes, MainInv, UNCHANGED <<main, ready, frozen, stop, joined, fault, code>>,
           loop \notin {"none", "done", "panicked"}, loop' # "none"
    PROVE  MainInv'
  BY Zenon DEF MainInv, ServerTypes

\* A client connects.
LEMMA ConnectKeeps ==
    ASSUME IInv, NEW c \in Conns, Connect(c)
    PROVE  IInv'
  <1> USE DEF server, accept, effects
  <1>1. Types' /\ HandlerInv'
    <2>1. Goto(c, "backlog")
      BY Zenon DEF Connect, Goto
    <2>2. before' = [before EXCEPT ![c] =
                       {d \in Conns : kind[c] \in Reads /\ pc[d] = "done" /\ answer[d] = Success}]
      BY Zenon DEF Connect, Success
    <2>3. pc[c] = "none" /\ UNCHANGED <<stop, kind, answer, locks, poisoned, effects, seen, late>>
      BY Zenon DEF Connect
    <2> QED BY <2>1, <2>2, <2>3, Unadmitted, Zenon DEF IInv
  <1>2. pc[c] = "none" /\ pc'[c] = "backlog" /\ \A d \in Conns \ {c} : pc'[d] = pc[d]
    BY Zenon DEF IInv, Types, Connect
  <1>3. Busy' = Busy
    BY <1>2, Zenon DEF Busy, Running
  <1>4. CountIsExact'
    BY <1>3, Zenon DEF IInv, CountIsExact, Busy, Connect
  <1>5. ServerTypes' /\ MainInv'
    BY Zenon DEF IInv, ServerTypes, MainInv, Connect
  <1>6. LoopInv'
    BY <1>2, Zenon DEF IInv, LoopInv, Connect
  <1> QED BY <1>1, <1>4, <1>5, <1>6, Zenon DEF IInv

\* The loop polls, accepts, admits under the gate and spawns, or panics.
LEMMA LoopKeeps ==
    ASSUME IInv, LoopStep \/ LoopPanics
    PROVE  IInv' /\ (frozen => active' <= active)
  <1> USE DEF server, accept
  <1>0. Types /\ ServerTypes /\ HandlerInv /\ MainInv /\ LoopInv /\ CountIsExact
    BY Zenon DEF IInv
  <1>1. /\ UNCHANGED <<main, ready, frozen, stop, joined, fault, code, signal>>
        /\ loop \notin {"none", "done", "panicked"} /\ loop' # "none"
    BY Zenon DEF LoopStep, LoopPanics, LoopPoll, LoopAccept, admit_under_gate, SpawnHandler
  <1>2. MainInv'
    BY <1>0, <1>1, LoopKeepsMain, Zenon
  <1>3. CASE LoopPoll \/ LoopAccept \/ LoopPanics
    <2>1. UNCHANGED <<active, pc, kind, answer, locks, poisoned, effects, views>>
      BY <1>3, Zenon DEF LoopPoll, LoopAccept, LoopPanics
    <2>2. Types' /\ HandlerInv'
      BY <1>0, <1>1, <2>1, Bystanders, Zenon
    <2>3. LoopInv' /\ ServerTypes'
      BY <1>0, <1>1, <1>3, <2>1 DEF LoopInv, ServerTypes, LoopPoll, LoopAccept, LoopPanics
    <2>4. CountIsExact'
      BY <1>0, <1>3, <2>1, Zenon DEF CountIsExact, LoopPoll, LoopAccept, LoopPanics
    <2> QED BY <1>0, <1>2, <2>1, <2>2, <2>3, <2>4 DEF IInv, ServerTypes
  <1>4. CASE admit_under_gate /\ (frozen \/ active >= MAX_CONCURRENT_RPC_CONNS)
    <2>1. current \in Conns /\ pc[current] = "backlog" /\ Goto(current, "dropped")
      BY <1>0, <1>4, Zenon DEF LoopInv, admit_under_gate, Goto
    <2>2. /\ UNCHANGED <<active, kind, answer, locks, poisoned, effects, views>>
          /\ loop = "admit" /\ loop' = "poll" /\ current' = None
      BY <1>4, Zenon DEF admit_under_gate
    <2>3. Types' /\ HandlerInv'
      BY <1>0, <1>1, <2>1, <2>2, Unadmitted, Zenon DEF views
    <2>4. Busy' = Busy
      BY <1>0, <2>1, Zenon DEF Types, Goto, Busy, Running
    <2>5. CountIsExact' /\ LoopInv' /\ ServerTypes'
      BY <1>0, <1>1, <2>2, <2>4 DEF CountIsExact, Busy, LoopInv, ServerTypes
    <2> QED BY <1>0, <1>2, <2>2, <2>3, <2>5 DEF IInv, ServerTypes
  <1>5. CASE admit_under_gate /\ ~(frozen \/ active >= MAX_CONCURRENT_RPC_CONNS)
    <2>1. /\ UNCHANGED <<pc, current, kind, answer, locks, poisoned, effects, views>>
          /\ loop = "admit" /\ loop' = "spawn" /\ active' = active + 1
      BY <1>5, Zenon DEF admit_under_gate
    <2>2. Types' /\ HandlerInv'
      BY <1>0, <1>1, <2>1, Bystanders, Zenon
    <2>3. LoopInv'
      BY <1>0, <2>1, Zenon DEF LoopInv
    <2>4. ServerTypes'
      BY <1>0, <1>1, <1>5, <2>1 DEF ServerTypes, Types, RpcAssumption
    <2>5. CountIsExact'
      <3>1. Busy' = Busy /\ Cardinality(Busy) \in Nat
        BY <1>0, <2>1, BusyIsFinite, Zenon DEF Busy
      <3>2. active = Cardinality(Busy) + (IF loop = "spawn" THEN 1 ELSE 0)
        BY <1>0, Zenon DEF CountIsExact, Busy
      <3>3. active' = Cardinality(Busy') + (IF loop' = "spawn" THEN 1 ELSE 0)
        BY <2>1, <3>1, <3>2
      <3> QED BY <3>3, Zenon DEF CountIsExact, Busy
    <2> QED BY <1>2, <1>5, <2>2, <2>3, <2>4, <2>5, Zenon DEF IInv
  <1>6. CASE SpawnHandler
    <2>1. /\ current \in Conns /\ pc[current] = "backlog"
          /\ UNCHANGED <<kind, answer, locks, poisoned, effects, views>>
          /\ loop = "spawn" /\ loop' = "poll" /\ current' = None
      BY <1>0, <1>6, Zenon DEF LoopInv, SpawnHandler
    <2>2. active = Cardinality(Busy) + 1 /\ Cardinality(Busy) \in Nat
      BY <1>0, <2>1, BusyIsFinite, Zenon DEF CountIsExact, Busy
    <2>3. CASE Goto(current, "read") /\ UNCHANGED active
      <3>1. Types' /\ HandlerInv'
        BY <1>0, <1>1, <2>1, <2>3, Unadmitted, Zenon DEF views
      <3>2. Busy' = Busy \cup {current} /\ current \notin Busy
        BY <1>0, <2>1, <2>3, Zenon DEF Types, Goto, Busy, Running
      <3>3. Cardinality(Busy') = Cardinality(Busy) + 1
        BY <1>0, <3>2, BusyIsFinite, FS_AddElement, Zenon
      <3>4. CountIsExact'
        <4>1. active' = Cardinality(Busy') + (IF loop' = "spawn" THEN 1 ELSE 0)
          BY <2>1, <2>2, <2>3, <3>3
        <4> QED BY <4>1, Zenon DEF CountIsExact, Busy
      <3>5. LoopInv' /\ ServerTypes'
        BY <1>0, <1>1, <2>1, <2>3 DEF LoopInv, ServerTypes
      <3> QED BY <1>0, <1>2, <2>3, <3>1, <3>4, <3>5 DEF IInv, ServerTypes
    <2>4. CASE Goto(current, "dropped") /\ active' = active - 1
      <3>1. Types' /\ HandlerInv'
        BY <1>0, <1>1, <2>1, <2>4, Unadmitted, Zenon DEF views
      <3>2. Busy' = Busy
        BY <1>0, <2>1, <2>4, Zenon DEF Types, Goto, Busy, Running
      <3>3. CountIsExact'
        <4>1. active' = Cardinality(Busy') + (IF loop' = "spawn" THEN 1 ELSE 0)
          BY <2>1, <2>2, <2>4, <3>2
        <4> QED BY <4>1, Zenon DEF CountIsExact, Busy
      <3>4. active' \in 0 .. MAX_CONCURRENT_RPC_CONNS /\ active' <= active
        BY <1>0, <2>2, <2>4 DEF ServerTypes, Types, RpcAssumption
      <3>5. LoopInv' /\ ServerTypes'
        BY <1>0, <1>1, <2>1, <3>4, Zenon DEF LoopInv, ServerTypes
      <3> QED BY <1>2, <3>1, <3>3, <3>4, <3>5, Zenon DEF IInv
    <2> QED BY <1>6, <2>3, <2>4, Zenon DEF SpawnHandler, Goto
  <1> QED BY <1>3, <1>4, <1>5, <1>6, Zenon DEF LoopStep

-----------------------------------------------------------------------------
(* The invariant and what follows. *)

\* The server starts with no connection, no lock and nothing done.
LEMMA InitInv == RpcAssumption /\ Init => IInv
  <1> SUFFICES ASSUME RpcAssumption, Init PROVE IInv
    BY Zenon
  <1>1. Types /\ ServerTypes
    <2>1. active \in 0 .. MAX_CONCURRENT_RPC_CONNS /\ code \in 0 .. 2
      BY DEF Init, RpcAssumption
    <2>4. ServerTypes
      BY <2>1, Zenon DEF Init, ServerTypes
    <2>2. /\ pc \in [Conns -> Places] /\ answer \in [Conns -> Statuses]
          /\ locks \in [Mutex -> Conns \cup {None}]
      BY DEF Init, Places, Statuses, Free
    <2>3. seen \in [Conns -> SUBSET Conns] /\ before \in [Conns -> SUBSET Conns]
      BY Zenon DEF Init
    <2> QED BY <2>2, <2>3, <2>4, Zenon DEF Init, Types
  <1>2. HandlerInv
    <2> SUFFICES ASSUME NEW c \in Conns
                 PROVE  Course(c) /\ Effects(c) /\ Told(c) /\ Cancelled(c) /\ Shown(c)
      BY Zenon DEF HandlerInv
    <2>1. pc[c] = "none" /\ before[c] = {} /\ \A m \in Mutex : locks[m] # c
      BY Zenon DEF Init, Free, RpcAssumption
    <2>2. answer[c] = Nothing
      BY DEF Init, Nothing
    <2>3. answer[c] # Success
      BY <2>2, Codes, Zenon
    <2>4. /\ c \notin pooled /\ c \notin applied /\ c \notin consumed /\ c \notin announced
          /\ c \notin booted /\ c \notin late
      BY Zenon DEF Init, RpcAssumption
    <2>5. Course(c)
      BY <2>1, <2>2, Zenon DEF Course, Holding, Submitting, Mining
    <2>6. Effects(c)
      BY <2>1, <2>4, Zenon DEF Effects
    <2>7. Told(c) /\ Cancelled(c)
      BY <2>2, <2>4, Zenon DEF Told, Cancelled
    <2>8. Shown(c)
      BY <2>1, <2>3, Zenon DEF Shown
    <2> QED BY <2>5, <2>6, <2>7, <2>8, Zenon
  <1>3. MainInv /\ LoopInv
    BY Zenon DEF Init, MainInv, LoopInv
  <1>4. Busy = {}
    BY Zenon DEF Init, Busy, Running
  <1>5. CountIsExact
    BY <1>4, FS_EmptySet DEF Init, CountIsExact, Busy
  <1> QED BY <1>1, <1>2, <1>3, <1>5, Zenon DEF IInv

\* Every step keeps the invariant, and none raises the count behind the gate.
LEMMA StepInv ==
    ASSUME IInv, [Next]_vars
    PROVE  IInv' /\ (frozen => active' <= active)
  <1>1. CASE MainStep \/ RequestStop
    <2>1. active' = active
      BY <1>1, Zenon DEF MainStep, RequestStop, CheckBeforeStart, start_devnet_rpc_server, BeginPass,
                  freeze_admission, PublishStop, resolve_accept_loop, wait_for_handlers, close_p2p
    <2> QED BY <1>1, <2>1, MainKeeps DEF IInv, ServerTypes
  <1>2. CASE LoopStep \/ LoopPanics
    BY <1>2, LoopKeeps, Zenon
  <1>3. ASSUME NEW c \in Conns, Connect(c) PROVE IInv' /\ (frozen => active' <= active)
    <2>1. active' = active
      BY <1>3, Zenon DEF Connect
    <2> QED BY <1>3, <2>1, ConnectKeeps DEF IInv, ServerTypes
  <1>4. ASSUME NEW c \in Conns, HandlerMoves(c) PROVE IInv' /\ (frozen => active' <= active)
    <2>1. Types' /\ HandlerInv'
      BY <1>4, HandlersKeep, Zenon DEF IInv
    <2>2. CountIsExact' /\ ServerTypes' /\ active' <= active
      BY <1>4, HandlersCount, Zenon DEF IInv
    <2> QED BY <1>4, <2>1, <2>2, HandlersKeepServer, Zenon DEF IInv
  <1>5. CASE UNCHANGED vars
    <2>1. Types' /\ HandlerInv'
      BY <1>5, Bystanders, Zenon DEF IInv, vars, server
    <2>2. ServerTypes' /\ MainInv' /\ LoopInv' /\ CountIsExact' /\ active' = active
      BY <1>5 DEF IInv, vars, server, accept, ServerTypes, MainInv, LoopInv, CountIsExact
    <2> QED BY <2>1, <2>2 DEF IInv, ServerTypes
  <1> QED BY <1>1, <1>2, <1>3, <1>4, <1>5, Zenon DEF Next, HandlerMoves

\* The invariant holds of the server for ever.
THEOREM Invariance == RpcAssumption /\ Spec => []IInv
  <1>1. RpcAssumption /\ Init => IInv
    BY InitInv, Zenon
  <1>2. IInv /\ [Next]_vars => IInv'
    BY StepInv, Zenon
  <1> QED BY <1>1, <1>2, PTL DEF Spec

\* The types, as TypeOK lists them.
THEOREM TypeCorrectness == RpcAssumption /\ Spec => []TypeOK
  <1>1. IInv => TypeOK
    BY DEF IInv, Types, ServerTypes, TypeOK, Places, Statuses
  <1> QED BY <1>1, Invariance, PTL

\* active_handlers counts the handlers that run and the unit the accept loop
\* holds for the one it is about to spawn.
THEOREM UnitsAreExact == RpcAssumption /\ Spec => []CountIsExact
  <1>1. IInv => CountIsExact
    BY Zenon DEF IInv
  <1> QED BY <1>1, Invariance, PTL

\* When the main thread closes the peer service, nothing of the RPC server is
\* left, whatever panicked and however often close() timed out.
THEOREM CloseIsFinal == RpcAssumption /\ Spec => []NothingOutlivesClose
  <1>1. IInv => NothingOutlivesClose
    <2> SUFFICES ASSUME IInv, main \in {"p2p", "exit"}
                 PROVE  /\ loop = "none" \/ (frozen /\ joined)
                        /\ loop \in {"none", "done", "panicked"}
                        /\ active = 0
                        /\ \A c \in Conns : pc[c] \notin Running
                        /\ locks = Free
      BY Zenon DEF NothingOutlivesClose
    <2>1. active = 0 /\ (loop = "none" \/ (frozen /\ joined)) /\ loop \in {"none", "done", "panicked"}
      BY Zenon DEF IInv, MainInv, LoopInv
    <2>2. Cardinality(Busy) = 0 /\ IsFiniteSet(Busy)
      BY <2>1, BusyIsFinite DEF IInv, CountIsExact, Busy
    <2>3. \A c \in Conns : pc[c] \notin Running
      BY <2>2, FS_EmptySet DEF Busy
    <2>4. \A m \in Mutex : locks[m] = None
      <3>1. \A c \in Conns, m \in Mutex : locks[m] # c
        BY <2>3, Zenon DEF IInv, HandlerInv, Course, Holding, Submitting, Mining, Running
      <3> QED BY <3>1, Zenon DEF IInv, Types
    <2>5. locks = Free
      BY <2>4, Zenon DEF IInv, Types, Free
    <2> QED BY <2>1, <2>3, <2>5, Zenon
  <1> QED BY <1>1, Invariance, PTL

\* A handler that sees the cancellation is one that close() waits for.
THEOREM StopFollowsFreeze == RpcAssumption /\ Spec => []StopImpliesFrozen
  <1>1. IInv => StopImpliesFrozen
    BY Zenon DEF IInv, MainInv, StopImpliesFrozen
  <1> QED BY <1>1, Invariance, PTL

\* The status a client of submit_tx or mine_next receives says what became of
\* its transaction or block.
THEOREM AnswersAlwaysTrue == RpcAssumption /\ Spec => []AnswersAreTrue
  <1>1. IInv => AnswersAreTrue
    BY DEF IInv, HandlerInv, Told, AnswersAreTrue, Nothing, Success, Failed
  <1> QED BY <1>1, Invariance, PTL

\* A request begun after the stop was published changes neither the pool nor
\* the chain.
THEOREM LateWritesNothing == RpcAssumption /\ Spec => []LateRequestsWriteNothing
  <1>1. IInv => LateRequestsWriteNothing
    BY Zenon DEF IInv, Types, HandlerInv, Cancelled, LateRequestsWriteNothing
  <1> QED BY <1>1, Invariance, PTL

\* A client that was answered 200 finds its transaction or block with its next
\* request.
THEOREM WritesAreRead == RpcAssumption /\ Spec => []ReadYourWrites
  <1>1. IInv => ReadYourWrites
    BY DEF IInv, Types, HandlerInv, Shown, ReadYourWrites, Success
  <1> QED BY <1>1, Invariance, PTL

\* A panic of the accept loop reaches the exit code of the process.
THEOREM FaultReachesExit == RpcAssumption /\ Spec => []FaultIsReported
  <1>1. IInv => FaultIsReported
    BY Zenon DEF IInv, MainInv, ServerTypes, FaultIsReported
  <1> QED BY <1>1, Invariance, PTL

\* Once freeze_admission has run, no step admits another connection.
THEOREM FreezeIsFinal == RpcAssumption /\ Spec => [][FrozenAdmitsNothing]_vars
  <1>1. IInv /\ [Next]_vars => [FrozenAdmitsNothing]_vars
    BY StepInv, Zenon DEF FrozenAdmitsNothing
  <1> QED BY <1>1, Invariance, PTL DEF Spec

\* Only /ready answers 200 to a readiness request, and only while no stop was
\* requested and the gate is open.
LEMMA ReadyStep ==
    ASSUME IInv, [Next]_vars, NEW c \in Conns, kind[c] = "ready",
           answer[c] = Nothing, answer'[c] = Success
    PROVE  ~signal /\ ~frozen
  <1>0. Types /\ MainInv /\ Course(c) /\ answer' # answer
    BY Codes, Zenon DEF IInv, HandlerInv
  <1>1. \E d \in Conns : HandlerMoves(d)
    <2>1. ~UNCHANGED vars
      BY <1>0, Zenon DEF vars
    <2>2. ~RequestStop /\ ~MainStep
      BY <1>0, Zenon DEF RequestStop, MainStep, CheckBeforeStart, start_devnet_rpc_server, BeginPass,
                         freeze_admission, PublishStop, resolve_accept_loop, wait_for_handlers, close_p2p
    <2>3. ~LoopStep /\ ~LoopPanics
      BY <1>0, Zenon DEF LoopStep, LoopPanics, LoopPoll, LoopAccept, admit_under_gate, SpawnHandler
    <2>4. \A d \in Conns : ~Connect(d)
      BY <1>0, Zenon DEF Connect
    <2> QED BY <2>1, <2>2, <2>3, <2>4, Zenon DEF Next, HandlerMoves
  <1>2. HandlerMoves(c)
    <2>1. PICK d \in Conns : HandlerMoves(d)
      BY <1>1, Zenon
    <2>2. Outside(d)
      BY <1>0, <2>1, HandlersAreApart, Zenon
    <2>3. d # c => answer'[c] = answer[c]
      BY <1>0, <2>2, OthersAreLeft, Zenon
    <2> QED BY <2>1, <2>3, Codes, Zenon
  <1>3. CASE handle_ready(c)
    <2>1. ready' = "Ready"
      BY <1>0, <1>3 DEF handle_ready, is_ready, Types, Success
    <2>2. ~signal /\ ready = "Ready"
      BY <1>3, <2>1, Zenon DEF handle_ready, is_ready
    <2> QED BY <1>0, <2>2, Zenon DEF MainInv
  <1>4. CASE \/ handle_get_tip(c) \/ handle_get_block(c) \/ handle_get_mempool(c) \/ CheckPoison(c)
             \/ handle_get_tx(c) \/ handle_tx_status(c) \/ render_prometheus_metrics(c)
    BY <1>4, Zenon DEF handle_get_tip, handle_get_block, handle_get_mempool, CheckPoison,
                       handle_get_tx, handle_tx_status, render_prometheus_metrics
  <1>5. CASE \/ LockOp(c) \/ TakeSnapshot(c) \/ OpenStore(c) \/ CheckAdmission(c) \/ AddTx(c)
             \/ LockEngine(c) \/ LockPool(c) \/ PreBootstrap(c)
    <2>1. pc[c] \in {"op", "announce"} \cup Holding
      BY <1>5, Zenon DEF LockOp, TakeSnapshot, OpenStore, CheckAdmission, AddTx, LockEngine, LockPool,
                         PreBootstrap, Holding, Submitting, Mining
    <2> QED BY <1>0, <2>1, Zenon DEF Course
  <1>6. CASE \/ NonceQuantum(c) \/ Search(c) \/ PreApply(c) \/ ApplyBlock(c) \/ ConsumeDa(c) \/ Announce(c)
    <2>1. pc[c] \in {"op", "announce"} \cup Holding
      BY <1>6, Zenon DEF NonceQuantum, Search, PreApply, ApplyBlock, ConsumeDa, Announce,
                         Holding, Submitting, Mining
    <2> QED BY <1>0, <2>1, Zenon DEF Course
  <1>7. CASE ReadAndRoute(c)
    <2>1. answer'[c] # Success
      <3>1. \/ \E status \in Refusals : Answer(c, status)
            \/ answer' = answer
        <4>1. 400 \in Refusals /\ 503 \in Refusals
          BY DEF Refusals
        <4> QED BY <1>7, <4>1, Zenon DEF ReadAndRoute
      <3> QED BY <1>0, <3>1, Codes, Zenon DEF Answer, Types
    <2> QED BY <2>1, Zenon
  <1>8. CASE WriteResponse(c) \/ HandlerPanics(c)
    BY <1>0, <1>8, Zenon DEF WriteResponse, HandlerPanics
  <1> QED BY <1>2, <1>3, <1>4, <1>5, <1>6, <1>7, <1>8, Zenon DEF HandlerMoves, HandlerStep

\* The readiness route says 200 only while the node serves.
THEOREM ReadinessIsTrue == RpcAssumption /\ Spec => [][ReadyMeansServing]_vars
  <1>1. IInv /\ [Next]_vars => [ReadyMeansServing]_vars
    <2> SUFFICES ASSUME IInv, [Next]_vars, NEW c \in Conns, kind[c] = "ready",
                        answer[c] = 0, answer'[c] = 200
                 PROVE  ~signal /\ ~frozen
      BY Zenon DEF ReadyMeansServing
    <2>1. answer[c] = Nothing /\ answer'[c] = Success
      BY DEF Nothing, Success
    <2> QED BY <2>1, ReadyStep, Zenon
  <1> QED BY <1>1, Invariance, PTL DEF Spec

=============================================================================
