-------------------------- MODULE ServiceLifecycle --------------------------
(***************************************************************************)
(* Start, work and shutdown of the peer service (rubin-node                *)
(* p2p_service.rs): the lease gate, the accept and reconnect threads, the  *)
(* peer workers they spawn, the resolver threads that workers spawn, the   *)
(* callbacks of the RPC server, and close().  Every thread holds a lease   *)
(* while it may publish anything.                                          *)
(***************************************************************************)
EXTENDS Integers, FiniteSets

CONSTANTS
    Roots,                     \* the accept and the reconnect thread
    Workers,                   \* peer workers that may exist at a time
    Resolvers,                 \* resolver threads that may exist at a time
    Callbacks,                 \* threads that call back into the service
    MaxWorkers,                \* max_workers
    MAX_DNS_RESOLVER_THREADS,
    None

\* The threads are different ones, and there are finitely many at any time.
ASSUME ThreadsAreApart ==
    /\ IsFiniteSet(Roots) /\ IsFiniteSet(Workers) /\ IsFiniteSet(Resolvers) /\ IsFiniteSet(Callbacks)
    /\ Roots \intersect Workers = {} /\ Roots \intersect Resolvers = {} /\ Roots \intersect Callbacks = {}
    /\ Workers \intersect Resolvers = {} /\ Workers \intersect Callbacks = {}
    /\ Resolvers \intersect Callbacks = {}
    /\ None \notin Roots \union Workers \union Resolvers \union Callbacks

\* The limits of the two pools of threads.
ASSUME LimitsAssumption == MaxWorkers \in Nat /\ MAX_DNS_RESOLVER_THREADS \in Nat

Threads == Roots \union Workers \union Resolvers \union Callbacks

VARIABLES
    phase, leases,             \* LifecycleState
    stop,
    pc,                        \* step of each thread
    child,                     \* of a root or worker: the thread it is creating or waits for
    worker_handles,
    ACTIVE_DNS_RESOLVERS,
    closer,                    \* step of close()
    joining                    \* handles that close() has taken and joins

vars == <<phase, leases, stop, pc, child, worker_handles, ACTIVE_DNS_RESOLVERS, closer, joining>>

\* start_node_p2p_service: both roots hold their lease before they are spawned.
Init ==
    /\ phase = "Open" /\ leases = Cardinality(Roots) /\ stop = FALSE
    /\ pc = [t \in Threads |-> IF t \in Roots THEN "top" ELSE "none"]
    /\ child = [t \in Roots \union Workers |-> None]
    /\ worker_handles = {}
    /\ ACTIVE_DNS_RESOLVERS = 0
    /\ closer = "idle" /\ joining = {}

-----------------------------------------------------------------------------
(* The gate. *)

authorized == phase = "Open"

acquire == phase = "Open" /\ leases' = leases + 1 /\ UNCHANGED closer

\* Mutant: the waiter is not woken.
release_Silent(n) == leases' = leases - n /\ UNCHANGED closer

\* ServiceLease::drop, which wakes close() at zero.
release(n) ==
    /\ leases' = leases - n
    /\ closer' = IF leases - n = 0 /\ closer = "asleep" THEN "drain" ELSE closer

-----------------------------------------------------------------------------
(* The accept and the reconnect loop. *)

\* Another turn of the loop; it begins by reaping workers that have ended.
RootIterate(r) ==
    /\ pc[r] = "top" /\ ~stop /\ authorized
    /\ LET finished == {w \in worker_handles : pc[w] = "ended"}
       IN  /\ worker_handles' = worker_handles \ finished
           /\ pc' = [t \in Threads |-> IF t = r THEN "body" ELSE IF t \in finished THEN "none" ELSE pc[t]]
    /\ UNCHANGED <<phase, leases, stop, child, ACTIVE_DNS_RESOLVERS, closer, joining>>

RootEnds(r) ==
    /\ pc[r] = "top" /\ (stop \/ ~authorized)
    /\ pc' = [pc EXCEPT ![r] = "ended"]
    /\ release(1)
    /\ UNCHANGED <<phase, stop, child, worker_handles, ACTIVE_DNS_RESOLVERS, joining>>

\* Nothing to accept or to dial, or the gate is closed for the new worker.
RootIdles(r) ==
    /\ pc[r] = "body"
    /\ pc' = [pc EXCEPT ![r] = "top"]
    /\ UNCHANGED <<phase, leases, stop, child, worker_handles, ACTIVE_DNS_RESOLVERS, closer, joining>>

\* Mutant: a worker is leased whatever the phase.
LeaseWorker_Ungated(r, w) ==
    /\ pc[r] = "body" /\ pc[w] = "none"
    /\ leases' = leases + 1
    /\ pc' = [pc EXCEPT ![r] = "spawn", ![w] = "leased"]
    /\ child' = [child EXCEPT ![r] = w]
    /\ UNCHANGED <<phase, stop, worker_handles, ACTIVE_DNS_RESOLVERS, closer, joining>>

\* A connection or an address to dial: the lease of the worker comes first ...
LeaseWorker(r, w) ==
    /\ pc[r] = "body" /\ pc[w] = "none"
    /\ acquire
    /\ pc' = [pc EXCEPT ![r] = "spawn", ![w] = "leased"]
    /\ child' = [child EXCEPT ![r] = w]
    /\ UNCHANGED <<phase, stop, worker_handles, ACTIVE_DNS_RESOLVERS, joining>>

\* ... then spawn_service_worker_with: check, spawn and registration under one lock.
SpawnWorker(r) ==
    /\ pc[r] = "spawn" /\ Cardinality(worker_handles) < MaxWorkers
    /\ worker_handles' = worker_handles \union {child[r]}
    /\ pc' = [pc EXCEPT ![r] = "top", ![child[r]] = "run"]
    /\ child' = [child EXCEPT ![r] = None]
    /\ UNCHANGED <<phase, leases, stop, ACTIVE_DNS_RESOLVERS, closer, joining>>

\* The worker limit is reached or the thread cannot be spawned: the closure and
\* the lease in it are dropped.
SpawnFails(r) ==
    /\ pc[r] = "spawn"
    /\ release(1)
    /\ pc' = [pc EXCEPT ![r] = "top", ![child[r]] = "none"]
    /\ child' = [child EXCEPT ![r] = None]
    /\ UNCHANGED <<phase, stop, worker_handles, ACTIVE_DNS_RESOLVERS, joining>>

-----------------------------------------------------------------------------
(* Peer workers and their resolvers. *)

\* connect_with_timeout of a name: lease, resolver slot, thread.
StartResolver(w, d) ==
    /\ pc[w] = "run" /\ pc[d] = "none"
    /\ acquire
    /\ ACTIVE_DNS_RESOLVERS < MAX_DNS_RESOLVER_THREADS
    /\ ACTIVE_DNS_RESOLVERS' = ACTIVE_DNS_RESOLVERS + 1
    /\ pc' = [pc EXCEPT ![w] = "resolve", ![d] = "run"]
    /\ child' = [child EXCEPT ![w] = d]
    /\ UNCHANGED <<phase, stop, worker_handles, joining>>

\* Mutant: the lease of the resolver is given up by the caller that times out.
ResolveTimesOut_Detach(w) ==
    /\ pc[w] = "resolve"
    /\ pc' = [pc EXCEPT ![w] = "ended"]
    /\ child' = [child EXCEPT ![w] = None]
    /\ release(2)
    /\ UNCHANGED <<phase, stop, worker_handles, ACTIVE_DNS_RESOLVERS, joining>>

\* The worker stops waiting and ends; the resolver goes on with its lease.
ResolveTimesOut(w) ==
    /\ pc[w] = "resolve"
    /\ pc' = [pc EXCEPT ![w] = "ended"]
    /\ child' = [child EXCEPT ![w] = None]
    /\ release(1)
    /\ UNCHANGED <<phase, stop, worker_handles, ACTIVE_DNS_RESOLVERS, joining>>

\* The resolver answers, frees its slot and its lease; a worker that still waits
\* for it goes on.
ResolverEnds(d) ==
    /\ pc[d] = "run"
    /\ pc' = [t \in Threads |-> IF t = d THEN "none" ELSE IF t \in Workers /\ child[t] = d THEN "run" ELSE pc[t]]
    /\ child' = [t \in DOMAIN child |-> IF child[t] = d THEN None ELSE child[t]]
    /\ ACTIVE_DNS_RESOLVERS' = ACTIVE_DNS_RESOLVERS - 1
    /\ release(1)
    /\ UNCHANGED <<phase, stop, worker_handles, joining>>

\* The session ends: an error, or the gate no longer authorizes the next read,
\* or a resolver that cannot be had.
WorkerEnds(w) ==
    /\ pc[w] = "run"
    /\ pc' = [pc EXCEPT ![w] = "ended"]
    /\ release(1)
    /\ UNCHANGED <<phase, stop, child, worker_handles, ACTIVE_DNS_RESOLVERS, joining>>

-----------------------------------------------------------------------------
(* ServiceCallbackHandle: a lease around every call. *)

CallbackBegins(c) ==
    /\ pc[c] = "none"
    /\ acquire
    /\ pc' = [pc EXCEPT ![c] = "run"]
    /\ UNCHANGED <<phase, stop, child, worker_handles, ACTIVE_DNS_RESOLVERS, joining>>

\* The service has left OPEN: the caller gets an error and nothing is done.
CallbackRefused(c) ==
    /\ pc[c] = "none" /\ phase # "Open"
    /\ UNCHANGED vars

CallbackEnds(c) ==
    /\ pc[c] = "run"
    /\ pc' = [pc EXCEPT ![c] = "none"]
    /\ release(1)
    /\ UNCHANGED <<phase, stop, child, worker_handles, ACTIVE_DNS_RESOLVERS, joining>>

-----------------------------------------------------------------------------
(* close(). *)

rest == <<leases, pc, child, ACTIVE_DNS_RESOLVERS>>

BeginClose ==
    /\ closer = "idle" /\ closer' = "stop"
    /\ phase' = "Draining"
    /\ UNCHANGED <<stop, worker_handles, joining, rest>>

SetStop ==
    /\ closer = "stop" /\ closer' = "join_roots"
    /\ stop' = TRUE
    /\ UNCHANGED <<phase, worker_handles, joining, rest>>

\* Both roots are joined, one after the other; their order changes nothing.
JoinRoots ==
    /\ closer = "join_roots" /\ closer' = "join_workers"
    /\ \A r \in Roots : pc[r] = "ended"
    /\ UNCHANGED <<phase, stop, worker_handles, joining, rest>>

\* join_all_service_workers takes the handles and joins them, until there is none.
TakeHandles ==
    /\ closer = "join_workers" /\ joining = {}
    /\ worker_handles # {}
    /\ joining' = worker_handles /\ worker_handles' = {}
    /\ UNCHANGED <<phase, stop, closer, rest>>

JoinWorker(w) ==
    /\ closer = "join_workers" /\ w \in joining /\ pc[w] = "ended"
    /\ joining' = joining \ {w}
    /\ pc' = [pc EXCEPT ![w] = "none"]
    /\ UNCHANGED <<phase, leases, stop, child, worker_handles, ACTIVE_DNS_RESOLVERS, closer>>

WorkersJoined ==
    /\ closer = "join_workers" /\ joining = {} /\ worker_handles = {}
    /\ closer' = "drain"
    /\ UNCHANGED <<phase, stop, worker_handles, joining, rest>>

\* Mutant: one wait, and whatever woke it up is taken for the last release.
wait_drained_Any ==
    /\ closer = "drain" /\ closer' = "publish"
    /\ UNCHANGED <<phase, stop, worker_handles, joining, rest>>

\* wait_drained: the count is read under the mutex that the wait gives up.
wait_drained ==
    /\ closer = "drain"
    /\ closer' = IF leases > 0 THEN "asleep" ELSE "publish"
    /\ UNCHANGED <<phase, stop, worker_handles, joining, rest>>

publish_closed ==
    /\ closer = "publish" /\ closer' = "done"
    /\ phase' = "Closed"
    /\ UNCHANGED <<stop, worker_handles, joining, rest>>

\* close() of a closed service, from drop(): it returns at once.
CloseAgain == closer = "done" /\ UNCHANGED vars

-----------------------------------------------------------------------------

RootStep(r) == RootIterate(r) \/ RootEnds(r) \/ RootIdles(r) \/ SpawnWorker(r) \/ SpawnFails(r)

Close ==
    \/ SetStop \/ JoinRoots \/ TakeHandles \/ (\E w \in Workers : JoinWorker(w))
    \/ WorkersJoined \/ wait_drained \/ publish_closed

Next ==
    \/ \E r \in Roots : RootStep(r) \/ \E w \in Workers : LeaseWorker(r, w)
    \/ \E w \in Workers : ResolveTimesOut(w) \/ WorkerEnds(w) \/ \E d \in Resolvers : StartResolver(w, d)
    \/ \E d \in Resolvers : ResolverEnds(d)
    \/ \E c \in Callbacks : CallbackBegins(c) \/ CallbackRefused(c) \/ CallbackEnds(c)
    \/ BeginClose \/ Close \/ CloseAgain

Spec == Init /\ [][Next]_vars

-----------------------------------------------------------------------------
(* Properties. *)

\* The threads that may publish: each must be covered by a lease of its own.
Holders ==
    {r \in Roots : pc[r] # "ended"} \union {w \in Workers : pc[w] \in {"leased", "run", "resolve"}}
        \union {t \in Resolvers \union Callbacks : pc[t] = "run"}

\* "CLOSED is published only after this reaches zero": once close() has
\* published it, no root, worker, resolver (even one whose caller gave up on it)
\* and no callback is left that could still publish.
ClosedIsQuiet == phase = "Closed" => Holders = {}

\* "A lease can never be registered after close began waiting for it": from the
\* cutoff on the threads that may publish only become fewer.
NothingStartsAfterCutoff == [][phase # "Open" => Holders' \subseteq Holders]_vars

\* Every thread that may publish has exactly one lease, on all paths: refusal,
\* failed spawn, timeout and end.
LeasesAreExact == leases = Cardinality(Holders)

\* A worker is never detached: until it has ended it is among the registered
\* handles, or close() is joining it; and the registered ones respect the limit.
WorkersAreJoined ==
    /\ \A w \in Workers : pc[w] \in {"run", "resolve", "ended"} => w \in worker_handles \union joining
    /\ Cardinality(worker_handles) <= MaxWorkers

\* The resolver slots in use are the resolver threads alive, also the ones whose
\* caller has timed out.
ResolverSlotsAreExact ==
    /\ ACTIVE_DNS_RESOLVERS = Cardinality({d \in Resolvers : pc[d] = "run"})
    /\ ACTIVE_DNS_RESOLVERS <= MAX_DNS_RESOLVER_THREADS

=============================================================================
