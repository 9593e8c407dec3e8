--------------------------- MODULE LifecycleProofs ---------------------------
(***************************************************************************)
(* The shutdown of the peer service is safe for any number of workers,     *)
(* resolvers and callbacks.                                                *)
(***************************************************************************)
EXTENDS ServiceLifecycle, FiniteSetTheorems, TLAPS

LifecycleTypes ==
    /\ phase \in {"Open", "Draining", "Closed"}
    /\ leases \in Nat
    /\ stop \in BOOLEAN
    /\ pc \in [Threads -> {"none", "top", "body", "spawn", "leased", "run", "resolve", "ended"}]
    /\ child \in [Roots \union Workers -> Threads \union {None}]
    /\ worker_handles \subseteq Workers
    /\ joining \subseteq Workers
    /\ closer \in {"idle", "stop", "join_roots", "join_workers", "drain", "asleep", "publish", "done"}

\* A root that spawns has leased its worker, a worker that waits for a resolver
\* runs, and roots are never in a state of another kind of thread.
ChildrenHold ==
    /\ \A r \in Roots : pc[r] = "spawn" => child[r] \in Workers /\ pc[child[r]] = "leased"
    /\ \A r, q \in Roots : pc[r] = "spawn" /\ pc[q] = "spawn" /\ child[r] = child[q] => r = q
    /\ \A w \in Workers : child[w] # None => pc[w] = "resolve"
    /\ \A w \in Workers : pc[w] \in {"none", "leased", "run", "resolve", "ended"}

\* The steps of close() follow the phase, and past the drain no lease is left.
CloseFollowsPhase ==
    /\ phase = "Open" <=> closer = "idle"
    /\ phase = "Closed" <=> closer = "done"
    /\ closer \in {"publish", "done"} => leases = 0

LifecycleInv == LifecycleTypes /\ ChildrenHold /\ CloseFollowsPhase /\ LeasesAreExact

-----------------------------------------------------------------------------
(* Leases and the threads that hold them. *)

\* There are finitely many threads, so the holders of leases can be counted.
LEMMA HoldersAreFinite == IsFiniteSet(Holders)
  <1>1. IsFiniteSet(Threads)
    BY ThreadsAreApart, FS_Union, Zenon DEF Threads
  <1>2. Holders \subseteq Threads
    BY Zenon DEF Holders, Threads
  <1> QED BY <1>1, <1>2, FS_Subset, Zenon

\* ServiceLifecycle::acquire gives one lease to one more holder.
LEMMA OneMoreHolder ==
    ASSUME LifecycleInv, NEW t, t \notin Holders, Holders' = Holders \union {t}, acquire, UNCHANGED phase
    PROVE  leases' \in Nat /\ LeasesAreExact' /\ CloseFollowsPhase' /\ closer' = closer
  <1>1. Cardinality(Holders \union {t}) = Cardinality(Holders) + 1
    BY HoldersAreFinite, FS_AddElement, Zenon
  <1>2. leases \in Nat /\ leases = Cardinality(Holders) /\ leases' = leases + 1 /\ closer' = closer /\ phase = "Open"
    BY Zenon DEF LifecycleInv, LifecycleTypes, LeasesAreExact, acquire
  <1>3. LeasesAreExact'
    BY <1>1, <1>2, Zenon DEF LeasesAreExact
  <1>4. CloseFollowsPhase'
    BY <1>2, Zenon DEF LifecycleInv, CloseFollowsPhase
  <1> QED BY <1>2, <1>3, <1>4

\* ServiceLease::drop takes one lease from one holder; close() cannot be past its
\* drain while there is one, and is woken to look again when it was the last.
LEMMA OneHolderLess ==
    ASSUME LifecycleInv, NEW t \in Holders, Holders' = Holders \ {t}, release(1), UNCHANGED phase
    PROVE  /\ leases' \in Nat /\ LeasesAreExact' /\ CloseFollowsPhase'
           /\ closer' = closer \/ (closer = "asleep" /\ closer' = "drain")
  <1>1. Cardinality(Holders \ {t}) = Cardinality(Holders) - 1 /\ Cardinality(Holders \ {t}) \in Nat
    BY HoldersAreFinite, FS_RemoveElement, FS_CardinalityType, Zenon
  <1>2. leases \in Nat /\ leases = Cardinality(Holders) /\ leases' = leases - 1
    BY Zenon DEF LifecycleInv, LifecycleTypes, LeasesAreExact, release
  <1>3. leases' \in Nat /\ LeasesAreExact' /\ leases # 0
    BY <1>1, <1>2 DEF LeasesAreExact
  <1>4. closer' = closer \/ (closer = "asleep" /\ closer' = "drain")
    BY Zenon DEF release
  <1>5. closer \notin {"publish", "done"}
    BY <1>3, Zenon DEF LifecycleInv, CloseFollowsPhase
  <1>6. CloseFollowsPhase'
    BY <1>4, <1>5, Zenon DEF LifecycleInv, CloseFollowsPhase
  <1> QED BY <1>3, <1>4, <1>6, Zenon

\* A step that neither registers nor releases.
LEMMA SameHolders ==
    ASSUME LifecycleInv, Holders' = Holders, UNCHANGED <<phase, leases, closer>>
    PROVE  leases' \in Nat /\ LeasesAreExact' /\ CloseFollowsPhase'
  BY Zenon DEF LifecycleInv, LifecycleTypes, LeasesAreExact, CloseFollowsPhase

-----------------------------------------------------------------------------
(* Roots. *)

\* Reaping ended workers touches no lease: a worker that has ended holds none.
LEMMA RootIterateKeeps ==
    ASSUME LifecycleInv, NEW r \in Roots, RootIterate(r) PROVE LifecycleInv'
  <1>1. Holders' = Holders
    BY ThreadsAreApart, Zenon DEF LifecycleInv, LifecycleTypes, RootIterate, Holders, Threads
  <1>2. leases' \in Nat /\ LeasesAreExact' /\ CloseFollowsPhase'
    BY <1>1, SameHolders, Zenon DEF RootIterate
  <1>3. LifecycleTypes'
    BY <1>2, Zenon DEF LifecycleInv, LifecycleTypes, RootIterate
  <1>4. ChildrenHold'
    BY ThreadsAreApart, Zenon DEF LifecycleInv, LifecycleTypes, ChildrenHold, RootIterate, Threads
  <1> QED BY <1>2, <1>3, <1>4, Zenon DEF LifecycleInv

\* A root that leaves its loop gives back its lease.
LEMMA RootEndsKeeps ==
    ASSUME LifecycleInv, NEW r \in Roots, RootEnds(r) PROVE LifecycleInv'
  <1>1. r \in Holders /\ Holders' = Holders \ {r}
    BY ThreadsAreApart, Zenon DEF LifecycleInv, LifecycleTypes, RootEnds, Holders, Threads
  <1>2. leases' \in Nat /\ LeasesAreExact' /\ CloseFollowsPhase' /\ (closer' = closer \/ closer' = "drain")
    BY <1>1, OneHolderLess, Zenon DEF RootEnds
  <1>3. LifecycleTypes'
    BY <1>2, Zenon DEF LifecycleInv, LifecycleTypes, RootEnds
  <1>4. ChildrenHold'
    BY ThreadsAreApart, Zenon DEF LifecycleInv, LifecycleTypes, ChildrenHold, RootEnds, Threads
  <1> QED BY <1>2, <1>3, <1>4, Zenon DEF LifecycleInv

\* A turn of the loop without a new worker changes no lease.
LEMMA RootIdlesKeeps ==
    ASSUME LifecycleInv, NEW r \in Roots, RootIdles(r) PROVE LifecycleInv'
  <1>1. Holders' = Holders
    BY ThreadsAreApart, Zenon DEF LifecycleInv, LifecycleTypes, RootIdles, Holders, Threads
  <1>2. leases' \in Nat /\ LeasesAreExact' /\ CloseFollowsPhase'
    BY <1>1, SameHolders, Zenon DEF RootIdles
  <1>3. LifecycleTypes'
    BY <1>2, Zenon DEF LifecycleInv, LifecycleTypes, RootIdles
  <1>4. ChildrenHold'
    BY ThreadsAreApart, Zenon DEF LifecycleInv, LifecycleTypes, ChildrenHold, RootIdles, Threads
  <1> QED BY <1>2, <1>3, <1>4, Zenon DEF LifecycleInv

\* run_accept_loop_with and start_outbound_peer_with lease a worker that holds none yet.
LEMMA LeaseWorkerKeeps ==
    ASSUME LifecycleInv, NEW r \in Roots, NEW w \in Workers, LeaseWorker(r, w) PROVE LifecycleInv'
  <1>1. w \notin Holders /\ Holders' = Holders \union {w}
    BY ThreadsAreApart DEF LifecycleInv, LifecycleTypes, LeaseWorker, Holders, Threads
  <1>2. leases' \in Nat /\ LeasesAreExact' /\ CloseFollowsPhase' /\ closer' = closer
    BY <1>1, OneMoreHolder, Zenon DEF LeaseWorker
  <1>3. LifecycleTypes'
    BY <1>2, Zenon DEF LifecycleInv, LifecycleTypes, LeaseWorker, Threads
  <1>4. ChildrenHold'
    BY ThreadsAreApart DEF LifecycleInv, LifecycleTypes, ChildrenHold, LeaseWorker, Threads
  <1> QED BY <1>2, <1>3, <1>4, Zenon DEF LifecycleInv

\* spawn_service_worker_with moves the lease into the thread.
LEMMA SpawnWorkerKeeps ==
    ASSUME LifecycleInv, NEW r \in Roots, SpawnWorker(r) PROVE LifecycleInv'
  <1>1. child[r] \in Workers /\ pc[child[r]] = "leased"
    BY Zenon DEF LifecycleInv, ChildrenHold, SpawnWorker
  <1>2. Holders' = Holders
    BY <1>1, ThreadsAreApart DEF LifecycleInv, LifecycleTypes, SpawnWorker, Holders, Threads
  <1>3. leases' \in Nat /\ LeasesAreExact' /\ CloseFollowsPhase'
    BY <1>2, SameHolders, Zenon DEF SpawnWorker
  <1>4. LifecycleTypes'
    BY <1>1, <1>3, Zenon DEF LifecycleInv, LifecycleTypes, SpawnWorker
  <1>5. ChildrenHold'
    BY <1>1, ThreadsAreApart DEF LifecycleInv, LifecycleTypes, ChildrenHold, SpawnWorker, Threads
  <1> QED BY <1>3, <1>4, <1>5, Zenon DEF LifecycleInv

\* A refused or failed spawn drops the closure and exactly its lease.
LEMMA SpawnFailsKeeps ==
    ASSUME LifecycleInv, NEW r \in Roots, SpawnFails(r) PROVE LifecycleInv'
  <1>1. child[r] \in Workers /\ pc[child[r]] = "leased"
    BY Zenon DEF LifecycleInv, ChildrenHold, SpawnFails
  <1>2. child[r] \in Holders /\ Holders' = Holders \ {child[r]}
    BY <1>1, ThreadsAreApart DEF LifecycleInv, LifecycleTypes, SpawnFails, Holders, Threads
  <1>3. leases' \in Nat /\ LeasesAreExact' /\ CloseFollowsPhase' /\ (closer' = closer \/ closer' = "drain")
    BY <1>2, OneHolderLess, Zenon DEF SpawnFails
  <1>4. LifecycleTypes'
    BY <1>1, <1>3, Zenon DEF LifecycleInv, LifecycleTypes, SpawnFails
  <1>5. ChildrenHold'
    BY <1>1, ThreadsAreApart, Zenon DEF LifecycleInv, LifecycleTypes, ChildrenHold, SpawnFails, Threads
  <1> QED BY <1>3, <1>4, <1>5, Zenon DEF LifecycleInv

-----------------------------------------------------------------------------
(* Workers, resolvers and callbacks. *)

\* connect_with_timeout_spawn leases a resolver before it is spawned.
LEMMA StartResolverKeeps ==
    ASSUME LifecycleInv, NEW w \in Workers, NEW d \in Resolvers, StartResolver(w, d) PROVE LifecycleInv'
  <1>1. d \notin Holders /\ Holders' = Holders \union {d}
    BY ThreadsAreApart DEF LifecycleInv, LifecycleTypes, StartResolver, Holders, Threads
  <1>2. leases' \in Nat /\ LeasesAreExact' /\ CloseFollowsPhase' /\ closer' = closer
    BY <1>1, OneMoreHolder, Zenon DEF StartResolver
  <1>3. LifecycleTypes'
    BY <1>2, Zenon DEF LifecycleInv, LifecycleTypes, StartResolver, Threads
  <1>4. ChildrenHold'
    BY ThreadsAreApart DEF LifecycleInv, LifecycleTypes, ChildrenHold, StartResolver, Threads
  <1> QED BY <1>2, <1>3, <1>4, Zenon DEF LifecycleInv

\* A worker that gives up on its resolver releases its own lease only.
LEMMA ResolveTimesOutKeeps ==
    ASSUME LifecycleInv, NEW w \in Workers, ResolveTimesOut(w) PROVE LifecycleInv'
  <1>1. w \in Holders /\ Holders' = Holders \ {w}
    BY ThreadsAreApart, Zenon DEF LifecycleInv, LifecycleTypes, ResolveTimesOut, Holders, Threads
  <1>2. leases' \in Nat /\ LeasesAreExact' /\ CloseFollowsPhase' /\ (closer' = closer \/ closer' = "drain")
    BY <1>1, OneHolderLess, Zenon DEF ResolveTimesOut
  <1>3. LifecycleTypes'
    BY <1>2, Zenon DEF LifecycleInv, LifecycleTypes, ResolveTimesOut, Threads
  <1>4. ChildrenHold'
    BY ThreadsAreApart, Zenon DEF LifecycleInv, LifecycleTypes, ChildrenHold, ResolveTimesOut, Threads
  <1> QED BY <1>2, <1>3, <1>4, Zenon DEF LifecycleInv

\* A resolver releases its lease; the worker that waits for it keeps its own.
LEMMA ResolverEndsKeeps ==
    ASSUME LifecycleInv, NEW d \in Resolvers, ResolverEnds(d) PROVE LifecycleInv'
  <1>1. d \in Holders /\ Holders' = Holders \ {d}
    BY ThreadsAreApart DEF LifecycleInv, LifecycleTypes, ChildrenHold, ResolverEnds, Holders, Threads
  <1>2. leases' \in Nat /\ LeasesAreExact' /\ CloseFollowsPhase' /\ (closer' = closer \/ closer' = "drain")
    BY <1>1, OneHolderLess, Zenon DEF ResolverEnds
  <1>3. LifecycleTypes'
    BY <1>2, Zenon DEF LifecycleInv, LifecycleTypes, ResolverEnds, Threads
  <1>4. ChildrenHold'
    BY ThreadsAreApart DEF LifecycleInv, LifecycleTypes, ChildrenHold, ResolverEnds, Threads
  <1> QED BY <1>2, <1>3, <1>4, Zenon DEF LifecycleInv

\* A session that ends releases the lease of its worker.
LEMMA WorkerEndsKeeps ==
    ASSUME LifecycleInv, NEW w \in Workers, WorkerEnds(w) PROVE LifecycleInv'
  <1>1. w \in Holders /\ Holders' = Holders \ {w}
    BY ThreadsAreApart, Zenon DEF LifecycleInv, LifecycleTypes, WorkerEnds, Holders, Threads
  <1>2. leases' \in Nat /\ LeasesAreExact' /\ CloseFollowsPhase' /\ (closer' = closer \/ closer' = "drain")
    BY <1>1, OneHolderLess, Zenon DEF WorkerEnds
  <1>3. LifecycleTypes'
    BY <1>2, Zenon DEF LifecycleInv, LifecycleTypes, WorkerEnds, Threads
  <1>4. ChildrenHold'
    BY ThreadsAreApart, Zenon DEF LifecycleInv, LifecycleTypes, ChildrenHold, WorkerEnds, Threads
  <1> QED BY <1>2, <1>3, <1>4, Zenon DEF LifecycleInv

\* ServiceCallbackHandle leases before any effect.
LEMMA CallbackBeginsKeeps ==
    ASSUME LifecycleInv, NEW c \in Callbacks, CallbackBegins(c) PROVE LifecycleInv'
  <1>1. c \notin Holders /\ Holders' = Holders \union {c}
    BY ThreadsAreApart DEF LifecycleInv, LifecycleTypes, CallbackBegins, Holders, Threads
  <1>2. leases' \in Nat /\ LeasesAreExact' /\ CloseFollowsPhase' /\ closer' = closer
    BY <1>1, OneMoreHolder, Zenon DEF CallbackBegins
  <1>3. LifecycleTypes'
    BY <1>2, Zenon DEF LifecycleInv, LifecycleTypes, CallbackBegins, Threads
  <1>4. ChildrenHold'
    BY ThreadsAreApart DEF LifecycleInv, LifecycleTypes, ChildrenHold, CallbackBegins, Threads
  <1> QED BY <1>2, <1>3, <1>4, Zenon DEF LifecycleInv

\* A callback releases its lease on every outcome.
LEMMA CallbackEndsKeeps ==
    ASSUME LifecycleInv, NEW c \in Callbacks, CallbackEnds(c) PROVE LifecycleInv'
  <1>1. c \in Holders /\ Holders' = Holders \ {c}
    BY ThreadsAreApart DEF LifecycleInv, LifecycleTypes, CallbackEnds, Holders, Threads
  <1>2. leases' \in Nat /\ LeasesAreExact' /\ CloseFollowsPhase' /\ (closer' = closer \/ closer' = "drain")
    BY <1>1, OneHolderLess, Zenon DEF CallbackEnds
  <1>3. LifecycleTypes'
    BY <1>2, Zenon DEF LifecycleInv, LifecycleTypes, CallbackEnds, Threads
  <1>4. ChildrenHold'
    BY ThreadsAreApart DEF LifecycleInv, LifecycleTypes, ChildrenHold, CallbackEnds, Threads
  <1> QED BY <1>2, <1>3, <1>4, Zenon DEF LifecycleInv

\* Joining an ended worker changes no lease.
LEMMA JoinWorkerKeeps ==
    ASSUME LifecycleInv, NEW w \in Workers, JoinWorker(w) PROVE LifecycleInv'
  <1>1. Holders' = Holders
    BY ThreadsAreApart DEF LifecycleInv, LifecycleTypes, JoinWorker, Holders, Threads
  <1>2. leases' \in Nat /\ LeasesAreExact' /\ CloseFollowsPhase'
    BY <1>1, SameHolders, Zenon DEF JoinWorker
  <1>3. LifecycleTypes'
    BY <1>2, Zenon DEF LifecycleInv, LifecycleTypes, JoinWorker, Threads
  <1>4. ChildrenHold'
    BY ThreadsAreApart DEF LifecycleInv, LifecycleTypes, ChildrenHold, JoinWorker, Threads
  <1> QED BY <1>2, <1>3, <1>4, Zenon DEF LifecycleInv

-----------------------------------------------------------------------------
(* close(). *)

\* The steps of close() other than a join change no thread and no lease; it goes
\* past the drain only with no lease left, and stays there since no lease is
\* given out any more.
LEMMA CloseKeeps ==
    ASSUME LifecycleInv,
           BeginClose \/ SetStop \/ JoinRoots \/ TakeHandles \/ WorkersJoined \/ wait_drained \/ publish_closed
    PROVE  LifecycleInv'
  <1>1. UNCHANGED rest
    BY Zenon DEF BeginClose, SetStop, JoinRoots, TakeHandles, WorkersJoined, wait_drained, publish_closed
  <1>2. LeasesAreExact' /\ ChildrenHold'
    BY <1>1, Zenon DEF LifecycleInv, LeasesAreExact, ChildrenHold, Holders, rest
  <1>3. LifecycleTypes'
    BY <1>1, Zenon DEF LifecycleInv, LifecycleTypes, rest, BeginClose, SetStop, JoinRoots, TakeHandles, WorkersJoined,
                wait_drained, publish_closed
  <1>4. CloseFollowsPhase'
    BY <1>1 DEF LifecycleInv, LifecycleTypes, CloseFollowsPhase, rest, BeginClose, SetStop, JoinRoots, TakeHandles,
                WorkersJoined, wait_drained, publish_closed
  <1> QED BY <1>2, <1>3, <1>4, Zenon DEF LifecycleInv

\* start_node_p2p_service leases both roots and nothing else.
LEMMA InitHolds == Init => LifecycleInv
  <1> SUFFICES ASSUME Init PROVE LifecycleInv
    BY Zenon
  <1>1. Holders = Roots
    BY ThreadsAreApart, Zenon DEF Init, Holders, Threads
  <1>2. leases \in Nat /\ LeasesAreExact
    BY <1>1, ThreadsAreApart, FS_CardinalityType, Zenon DEF Init, LeasesAreExact
  <1>3. LifecycleTypes /\ CloseFollowsPhase
    BY <1>2, Zenon DEF Init, LifecycleTypes, CloseFollowsPhase
  <1>4. ChildrenHold
    BY ThreadsAreApart, Zenon DEF Init, ChildrenHold, Threads
  <1> QED BY <1>2, <1>3, <1>4, Zenon DEF LifecycleInv

\* The invariant is inductive: one step per kind of thread.
LEMMA StepKeeps == LifecycleInv /\ [Next]_vars => LifecycleInv'
  <1> SUFFICES ASSUME LifecycleInv, [Next]_vars PROVE LifecycleInv'
    BY Zenon
  <1>1. CASE UNCHANGED vars
    BY <1>1, Zenon DEF vars, LifecycleInv, LifecycleTypes, ChildrenHold, CloseFollowsPhase, LeasesAreExact, Holders
  <1>2. ASSUME NEW r \in Roots, RootStep(r) PROVE LifecycleInv'
    BY <1>2, RootIterateKeeps, RootEndsKeeps, RootIdlesKeeps, SpawnWorkerKeeps, SpawnFailsKeeps, Zenon DEF RootStep
  <1>3. ASSUME NEW r \in Roots, NEW w \in Workers, LeaseWorker(r, w) PROVE LifecycleInv'
    BY <1>3, LeaseWorkerKeeps, Zenon
  <1>4. ASSUME NEW w \in Workers,
               ResolveTimesOut(w) \/ WorkerEnds(w) \/ \E d \in Resolvers : StartResolver(w, d)
        PROVE  LifecycleInv'
    BY <1>4, ResolveTimesOutKeeps, WorkerEndsKeeps, StartResolverKeeps, Zenon
  <1>5. ASSUME NEW d \in Resolvers, ResolverEnds(d) PROVE LifecycleInv'
    BY <1>5, ResolverEndsKeeps, Zenon
  <1>6. ASSUME NEW c \in Callbacks, CallbackBegins(c) \/ CallbackRefused(c) \/ CallbackEnds(c) PROVE LifecycleInv'
    BY <1>1, <1>6, CallbackBeginsKeeps, CallbackEndsKeeps, Zenon DEF CallbackRefused
  <1>7. CASE BeginClose \/ Close \/ CloseAgain
    BY <1>1, <1>7, CloseKeeps, JoinWorkerKeeps, Zenon DEF Close, CloseAgain
  <1> QED BY <1>1, <1>2, <1>3, <1>4, <1>5, <1>6, <1>7, Zenon DEF Next

\* The counter of the gate is the number of threads that may still publish, on
\* every path of every thread.
THEOREM LeasesAlwaysExact == Spec => []LeasesAreExact
  <1>1. LifecycleInv => LeasesAreExact
    BY Zenon DEF LifecycleInv
  <1> QED BY <1>1, InitHolds, StepKeeps, PTL DEF Spec

\* CLOSED is published only when nothing that may publish is left, and none
\* appears afterwards: retained callbacks, late resolvers and workers included.
THEOREM ClosedAlwaysQuiet == Spec => []ClosedIsQuiet
  <1>1. LifecycleInv => ClosedIsQuiet
    <2> SUFFICES ASSUME LifecycleInv, phase = "Closed" PROVE Holders = {}
      BY Zenon DEF ClosedIsQuiet
    <2>1. leases = 0 /\ leases = Cardinality(Holders)
      BY Zenon DEF LifecycleInv, CloseFollowsPhase, LeasesAreExact
    <2> QED BY <2>1, HoldersAreFinite, FS_EmptySet, Zenon
  <1> QED BY <1>1, InitHolds, StepKeeps, PTL DEF Spec

\* Steps of the roots after the cutoff: acquire refuses them new workers.
LEMMA RootsOnlyEnd ==
    ASSUME LifecycleInv, phase # "Open", NEW r \in Roots, RootStep(r) PROVE Holders' \subseteq Holders
  <1>1. CASE RootIterate(r)
    BY <1>1, Zenon DEF RootIterate, authorized
  <1>2. CASE RootEnds(r) \/ RootIdles(r)
    BY <1>2, ThreadsAreApart, Zenon DEF LifecycleInv, LifecycleTypes, RootEnds, RootIdles, Holders, Threads
  <1>3. CASE SpawnWorker(r) \/ SpawnFails(r)
    <2>1. child[r] \in Workers /\ pc[child[r]] = "leased"
      BY <1>3, Zenon DEF LifecycleInv, ChildrenHold, SpawnWorker, SpawnFails
    <2> QED BY <1>3, <2>1, ThreadsAreApart
            DEF LifecycleInv, LifecycleTypes, SpawnWorker, SpawnFails, Holders, Threads
  <1> QED BY <1>1, <1>2, <1>3, Zenon DEF RootStep

\* Steps of workers, resolvers and callbacks after the cutoff.
LEMMA OthersOnlyEnd ==
    ASSUME LifecycleInv, phase # "Open",
           \/ \E w \in Workers : ResolveTimesOut(w) \/ WorkerEnds(w)
           \/ \E d \in Resolvers : ResolverEnds(d)
           \/ \E c \in Callbacks : CallbackEnds(c)
           \/ \E w \in Workers : JoinWorker(w)
    PROVE  Holders' \subseteq Holders
  <1>1. ASSUME NEW w \in Workers, ResolveTimesOut(w) \/ WorkerEnds(w) \/ JoinWorker(w) PROVE Holders' \subseteq Holders
    BY <1>1, ThreadsAreApart DEF LifecycleInv, LifecycleTypes, ResolveTimesOut, WorkerEnds, JoinWorker, Holders, Threads
  <1>2. ASSUME NEW d \in Resolvers, ResolverEnds(d) PROVE Holders' \subseteq Holders
    BY <1>2, ThreadsAreApart DEF LifecycleInv, LifecycleTypes, ChildrenHold, ResolverEnds, Holders, Threads
  <1>3. ASSUME NEW c \in Callbacks, CallbackEnds(c) PROVE Holders' \subseteq Holders
    BY <1>3, ThreadsAreApart, Zenon DEF LifecycleInv, LifecycleTypes, CallbackEnds, Holders, Threads
  <1> QED BY <1>1, <1>2, <1>3, Zenon

\* OPEN to DRAINING is the cutoff: from then on the threads that may publish only
\* become fewer, whatever a root or a worker had read before.
THEOREM CutoffIsFinal == Spec => NothingStartsAfterCutoff
  <1>1. LifecycleInv /\ [Next]_vars => [phase # "Open" => Holders' \subseteq Holders]_vars
    <2> SUFFICES ASSUME LifecycleInv, Next, phase # "Open" PROVE Holders' \subseteq Holders
      BY Zenon
    <2>1. ASSUME NEW r \in Roots, NEW w \in Workers, LeaseWorker(r, w) PROVE FALSE
      BY <2>1, Zenon DEF LeaseWorker, acquire
    <2>2. ASSUME NEW w \in Workers, NEW d \in Resolvers, StartResolver(w, d) PROVE FALSE
      BY <2>2, Zenon DEF StartResolver, acquire
    <2>3. ASSUME NEW c \in Callbacks, CallbackBegins(c) PROVE FALSE
      BY <2>3, Zenon DEF CallbackBegins, acquire
    <2>4. CASE \/ BeginClose \/ SetStop \/ JoinRoots \/ TakeHandles \/ WorkersJoined \/ wait_drained
               \/ publish_closed \/ CloseAgain \/ \E c \in Callbacks : CallbackRefused(c)
      <3>1. pc' = pc
        BY <2>4, Zenon DEF BeginClose, SetStop, JoinRoots, TakeHandles, WorkersJoined, wait_drained, publish_closed,
                    CloseAgain, CallbackRefused, rest, vars
      <3> QED BY <3>1, Zenon DEF Holders
    <2> QED BY <2>1, <2>2, <2>3, <2>4, RootsOnlyEnd, OthersOnlyEnd, Zenon DEF Next, Close
  <1> QED BY <1>1, InitHolds, StepKeeps, PTL DEF Spec, NothingStartsAfterCutoff

-----------------------------------------------------------------------------
(* Handles and resolver slots. *)

\* The resolver threads that run.
Resolving == {d \in Resolvers : pc[d] = "run"}

\* What is counted beside the leases.
CountersInv == WorkersAreJoined /\ ResolverSlotsAreExact

\* There are finitely many resolvers and workers, so they can be counted.
LEMMA CountersAreFinite ==
    ASSUME LifecycleInv
    PROVE  IsFiniteSet(Resolving) /\ IsFiniteSet(worker_handles)
  <1>1. Resolving \subseteq Resolvers /\ worker_handles \subseteq Workers
    BY Zenon DEF Resolving, LifecycleInv, LifecycleTypes
  <1> QED BY <1>1, ThreadsAreApart, FS_Subset, Zenon

\* A step of any thread but a resolver, or of close(), changes no resolver and no slot.
LEMMA SameResolvers ==
    ASSUME ResolverSlotsAreExact, Resolving' = Resolving, UNCHANGED ACTIVE_DNS_RESOLVERS
    PROVE  ResolverSlotsAreExact'
  BY Zenon DEF ResolverSlotsAreExact, Resolving

\* A step that changes no handle and lets no worker live that was not there.
LEMMA SameHandles ==
    ASSUME WorkersAreJoined, UNCHANGED <<worker_handles, joining>>,
           \A w \in Workers : pc'[w] \in {"run", "resolve", "ended"} => pc[w] \in {"run", "resolve", "ended"}
    PROVE  WorkersAreJoined'
  BY Zenon DEF WorkersAreJoined

\* A reaped worker has ended; what close() joins it keeps until it has joined it.
LEMMA RootsKeepCounters ==
    ASSUME LifecycleInv, CountersInv, NEW r \in Roots, RootStep(r) PROVE CountersInv'
  <1>1. CASE RootIterate(r)
    <2>1. Resolving' = Resolving
      BY <1>1, ThreadsAreApart, Zenon DEF LifecycleInv, LifecycleTypes, RootIterate, Resolving, Threads
    <2>2. worker_handles' \subseteq worker_handles
      BY <1>1, Zenon DEF RootIterate
    <2>3. Cardinality(worker_handles') <= Cardinality(worker_handles) /\ Cardinality(worker_handles') \in Nat
          /\ Cardinality(worker_handles) \in Nat
      BY <2>2, CountersAreFinite, FS_Subset, FS_CardinalityType, Zenon
    <2>4. Cardinality(worker_handles') <= MaxWorkers
      BY <2>3, LimitsAssumption DEF CountersInv, WorkersAreJoined
    <2>5. \A w \in Workers : pc'[w] \in {"run", "resolve", "ended"} => w \in worker_handles' \union joining'
      BY <1>1, ThreadsAreApart, Zenon DEF LifecycleInv, LifecycleTypes, CountersInv, WorkersAreJoined, RootIterate, Threads
    <2> QED BY <1>1, <2>1, <2>4, <2>5, SameResolvers, Zenon DEF RootIterate, CountersInv, WorkersAreJoined
  <1>2. CASE RootEnds(r) \/ RootIdles(r)
    <2>1. Resolving' = Resolving /\ UNCHANGED <<worker_handles, joining, ACTIVE_DNS_RESOLVERS>>
      BY <1>2, ThreadsAreApart DEF LifecycleInv, LifecycleTypes, RootEnds, RootIdles, Resolving, Threads
    <2>2. \A w \in Workers : pc'[w] = pc[w]
      BY <1>2, ThreadsAreApart DEF LifecycleInv, LifecycleTypes, RootEnds, RootIdles, Threads
    <2> QED BY <2>1, <2>2, SameResolvers, SameHandles, Zenon DEF CountersInv
  <1>3. CASE SpawnWorker(r)
    <2>1. child[r] \in Workers /\ pc[child[r]] = "leased"
      BY <1>3, Zenon DEF LifecycleInv, ChildrenHold, SpawnWorker
    <2>2. Resolving' = Resolving
      BY <1>3, <2>1, ThreadsAreApart DEF LifecycleInv, LifecycleTypes, SpawnWorker, Resolving, Threads
    <2>3. \A w \in Workers : pc'[w] \in {"run", "resolve", "ended"} => w \in worker_handles' \union joining'
      BY <1>3, <2>1, ThreadsAreApart, Zenon DEF LifecycleInv, LifecycleTypes, CountersInv, WorkersAreJoined, SpawnWorker, Threads
    <2>4. /\ Cardinality(worker_handles \union {child[r]}) \in {Cardinality(worker_handles), Cardinality(worker_handles) + 1}
          /\ Cardinality(worker_handles) \in Nat
      BY CountersAreFinite, FS_AddElement, FS_CardinalityType, Zenon
    <2>5. Cardinality(worker_handles) < MaxWorkers /\ worker_handles' = worker_handles \union {child[r]}
      BY <1>3, Zenon DEF SpawnWorker
    <2>6. Cardinality(worker_handles') <= MaxWorkers
      BY <2>4, <2>5, LimitsAssumption
    <2> QED BY <1>3, <2>2, <2>3, <2>6, SameResolvers, Zenon DEF SpawnWorker, CountersInv, WorkersAreJoined
  <1>4. CASE SpawnFails(r)
    <2>1. child[r] \in Workers /\ pc[child[r]] = "leased"
      BY <1>4, Zenon DEF LifecycleInv, ChildrenHold, SpawnFails
    <2>2. Resolving' = Resolving /\ UNCHANGED <<worker_handles, joining, ACTIVE_DNS_RESOLVERS>>
      BY <1>4, <2>1, ThreadsAreApart, Zenon DEF LifecycleInv, LifecycleTypes, SpawnFails, Resolving, Threads
    <2>3. \A w \in Workers : pc'[w] \in {pc[w], "none"}
      BY <1>4, <2>1, ThreadsAreApart, Zenon DEF LifecycleInv, LifecycleTypes, SpawnFails, Threads
    <2> QED BY <2>2, <2>3, SameResolvers, SameHandles, Zenon DEF CountersInv
  <1> QED BY <1>1, <1>2, <1>3, <1>4, Zenon DEF RootStep

\* A resolver takes its slot when it starts and frees it when it ends, whether
\* its caller still waits or not.
LEMMA ResolversKeepCounters ==
    ASSUME LifecycleInv, CountersInv, NEW d \in Resolvers,
           ResolverEnds(d) \/ \E w \in Workers : StartResolver(w, d)
    PROVE  CountersInv'
  <1>0. Cardinality(Resolving) \in Nat /\ ACTIVE_DNS_RESOLVERS = Cardinality(Resolving)
        /\ ACTIVE_DNS_RESOLVERS <= MAX_DNS_RESOLVER_THREADS
    BY CountersAreFinite, FS_CardinalityType, Zenon DEF CountersInv, ResolverSlotsAreExact, Resolving
  <1>1. ASSUME NEW w \in Workers, StartResolver(w, d) PROVE CountersInv'
    <2>1. d \notin Resolving /\ Resolving' = Resolving \union {d}
      BY <1>1, ThreadsAreApart DEF LifecycleInv, LifecycleTypes, StartResolver, Resolving, Threads
    <2>2. Cardinality(Resolving') = Cardinality(Resolving) + 1
      BY <2>1, CountersAreFinite, FS_AddElement, Zenon
    <2>3. ACTIVE_DNS_RESOLVERS < MAX_DNS_RESOLVER_THREADS /\ ACTIVE_DNS_RESOLVERS' = ACTIVE_DNS_RESOLVERS + 1
      BY <1>1, Zenon DEF StartResolver
    <2>4. ResolverSlotsAreExact'
      BY <1>0, <2>2, <2>3, LimitsAssumption DEF ResolverSlotsAreExact, Resolving
    <2>5. \A u \in Workers : pc'[u] \in {"run", "resolve", "ended"} => pc[u] \in {"run", "resolve", "ended"}
      BY <1>1, ThreadsAreApart DEF LifecycleInv, LifecycleTypes, StartResolver, Threads
    <2> QED BY <1>1, <2>4, <2>5, SameHandles, Zenon DEF StartResolver, CountersInv
  <1>2. CASE ResolverEnds(d)
    <2>1. d \in Resolving /\ Resolving' = Resolving \ {d}
      BY <1>2, ThreadsAreApart, Zenon DEF LifecycleInv, LifecycleTypes, ResolverEnds, Resolving, Threads
    <2>2. Cardinality(Resolving') = Cardinality(Resolving) - 1
      BY <2>1, CountersAreFinite, FS_RemoveElement, Zenon
    <2>3. ACTIVE_DNS_RESOLVERS' = ACTIVE_DNS_RESOLVERS - 1
      BY <1>2, Zenon DEF ResolverEnds
    <2>4. ResolverSlotsAreExact'
      BY <1>0, <2>2, <2>3, LimitsAssumption DEF ResolverSlotsAreExact, Resolving
    <2>5. \A u \in Workers : pc'[u] \in {"run", "resolve", "ended"} => pc[u] \in {"run", "resolve", "ended"}
      BY <1>2, ThreadsAreApart DEF LifecycleInv, LifecycleTypes, ChildrenHold, ResolverEnds, Threads
    <2> QED BY <1>2, <2>4, <2>5, SameHandles, Zenon DEF ResolverEnds, CountersInv
  <1> QED BY <1>1, <1>2, Zenon

\* Workers and callbacks that begin, end or give up move no handle.
LEMMA OthersKeepCounters ==
    ASSUME LifecycleInv, CountersInv,
           \/ \E r \in Roots, w \in Workers : LeaseWorker(r, w)
           \/ \E w \in Workers : ResolveTimesOut(w) \/ WorkerEnds(w)
           \/ \E c \in Callbacks : CallbackBegins(c) \/ CallbackEnds(c)
    PROVE  CountersInv'
  <1>1. Resolving' = Resolving /\ UNCHANGED <<worker_handles, joining, ACTIVE_DNS_RESOLVERS>>
    BY ThreadsAreApart DEF LifecycleInv, LifecycleTypes, LeaseWorker, ResolveTimesOut, WorkerEnds, CallbackBegins,
                           CallbackEnds, Resolving, Threads
  <1>2. \A w \in Workers : pc'[w] \in {"run", "resolve", "ended"} => pc[w] \in {"run", "resolve", "ended"}
    BY ThreadsAreApart DEF LifecycleInv, LifecycleTypes, LeaseWorker, ResolveTimesOut, WorkerEnds, CallbackBegins,
                           CallbackEnds, Threads
  <1> QED BY <1>1, <1>2, SameResolvers, SameHandles, Zenon DEF CountersInv

\* close() takes all handles at once and drops one only after it has joined it.
LEMMA CloseKeepsCounters ==
    ASSUME LifecycleInv, CountersInv, BeginClose \/ Close PROVE CountersInv'
  <1>1. CASE BeginClose \/ SetStop \/ JoinRoots \/ WorkersJoined \/ wait_drained \/ publish_closed
    <2>1. UNCHANGED <<pc, worker_handles, joining, ACTIVE_DNS_RESOLVERS>>
      BY <1>1, Zenon DEF BeginClose, SetStop, JoinRoots, WorkersJoined, wait_drained, publish_closed, rest
    <2> QED BY <2>1, Zenon DEF CountersInv, WorkersAreJoined, ResolverSlotsAreExact
  <1>2. CASE TakeHandles
    <2>1. Cardinality({}) = 0
      BY FS_EmptySet, Zenon
    <2> QED BY <1>2, <2>1, LimitsAssumption
            DEF TakeHandles, rest, CountersInv, WorkersAreJoined, ResolverSlotsAreExact
  <1>3. ASSUME NEW w \in Workers, JoinWorker(w) PROVE CountersInv'
    <2>1. Resolving' = Resolving
      BY <1>3, ThreadsAreApart, Zenon DEF LifecycleInv, LifecycleTypes, JoinWorker, Resolving, Threads
    <2>2. \A u \in Workers : pc'[u] \in {"run", "resolve", "ended"} => u \in worker_handles' \union joining'
      BY <1>3, ThreadsAreApart, Zenon DEF LifecycleInv, LifecycleTypes, CountersInv, WorkersAreJoined, JoinWorker, Threads
    <2> QED BY <1>3, <2>1, <2>2, SameResolvers, Zenon DEF JoinWorker, CountersInv, WorkersAreJoined
  <1> QED BY <1>1, <1>2, <1>3, Zenon DEF Close

\* Every step keeps the counters, given the invariant of the leases.
LEMMA StepKeepsCounters == LifecycleInv /\ CountersInv /\ [Next]_vars => CountersInv'
  <1> SUFFICES ASSUME LifecycleInv, CountersInv, [Next]_vars PROVE CountersInv'
    BY Zenon
  <1>1. CASE UNCHANGED vars
    BY <1>1, Zenon DEF vars, CountersInv, WorkersAreJoined, ResolverSlotsAreExact
  <1>2. CASE CloseAgain \/ \E c \in Callbacks : CallbackRefused(c)
    BY <1>1, <1>2, Zenon DEF CloseAgain, CallbackRefused
  <1> QED BY <1>1, <1>2, RootsKeepCounters, ResolversKeepCounters, OthersKeepCounters, CloseKeepsCounters, Zenon DEF Next

\* At the start there is no worker and no resolver.
LEMMA InitCounters == Init => CountersInv
  <1> SUFFICES ASSUME Init PROVE CountersInv
    BY Zenon
  <1>1. {d \in Resolvers : pc[d] = "run"} = {}
    BY ThreadsAreApart, Zenon DEF Init, Threads
  <1>2. Cardinality({}) = 0
    BY FS_EmptySet, Zenon
  <1>3. \A w \in Workers : pc[w] = "none"
    BY ThreadsAreApart, Zenon DEF Init, Threads
  <1> QED BY <1>1, <1>2, <1>3, LimitsAssumption DEF Init, CountersInv, WorkersAreJoined, ResolverSlotsAreExact

\* Every worker thread that runs or has ended is registered or being joined, so
\* close() misses none, and spawn_service_worker_with keeps to its limit.
THEOREM WorkersAlwaysJoined == Spec => []WorkersAreJoined
  <1>1. CountersInv => WorkersAreJoined
    BY Zenon DEF CountersInv
  <1> QED BY <1>1, InitHolds, StepKeeps, InitCounters, StepKeepsCounters, PTL DEF Spec

\* ACTIVE_DNS_RESOLVERS is the number of resolver threads alive, those whose
\* caller has timed out included, and never exceeds its limit.
THEOREM ResolverSlotsAlwaysExact == Spec => []ResolverSlotsAreExact
  <1>1. CountersInv => ResolverSlotsAreExact
    BY Zenon DEF CountersInv
  <1> QED BY <1>1, InitHolds, StepKeeps, InitCounters, StepKeepsCounters, PTL DEF Spec

=============================================================================
