----------------------------- MODULE DaPrefetch -----------------------------
(***************************************************************************)
(* Asking peers for the chunks that staged data-availability sets lack     *)
(* (rubin-node da_prefetch.rs; schedule_da_prefetch, da_prefetch_peers and *)
(* send_da_prefetch_plan in p2p_runtime.rs).  Sessions share the planner.  *)
(* Each reads the missing chunks under the relay lock, lets it go, takes   *)
(* the list of peers, and only then plans and sends under the planner's    *)
(* lock.  What it knows may be out of date by then, by any number of       *)
(* changes of the relay and of the connections: the plan is made from any  *)
(* view of them, and the outboxes are what they are when it is sent.       *)
(*                                                                         *)
(* A chunk is charged CHUNK_BYTES whatever its size, so the byte caps are  *)
(* caps on the number of chunks in flight.                                 *)
(***************************************************************************)
EXTENDS Integers, FiniteSetsExt, SequencesExt

CONSTANTS
    DaIds,
    Indexes,                  \* chunk indexes, numbers
    PeerKeys,                 \* quota keys of the peers, in key order (a sequence)
    PerPeerChunks,            \* DA_PREFETCH_PER_PEER_BYTES / CHUNK_BYTES
    GlobalChunks,             \* DA_PREFETCH_GLOBAL_BYTES / CHUNK_BYTES
    MaxConcurrentSets,        \* DA_PREFETCH_MAX_CONCURRENT_SETS
    RequestTtl,               \* DA_PREFETCH_REQUEST_TTL_NANOS
    MaxTime                   \* bound: the clock

VARIABLES
    indexes,                  \* reserved chunks: set -> index -> peer
    expires,                  \* set -> expiry of its reservations
    now,
    asked                     \* history: requests queued for their peer

vars == <<indexes, expires, now, asked>>

Peers == ToSet(PeerKeys)

Only(map, keys) == [k \in DOMAIN map \intersect keys |-> map[k]]

Set(map, key, value) == [k \in DOMAIN map \union {key} |-> IF k = key THEN value ELSE map[k]]

-----------------------------------------------------------------------------
(* The planner works on a copy st of its two maps. *)

release_set(st, ids) ==
    [indexes |-> Only(st.indexes, DOMAIN st.indexes \ ids),
     expires |-> Only(st.expires, DOMAIN st.expires \ ids)]

release_expired(st, time) == release_set(st, {d \in DOMAIN st.expires : time >= st.expires[d]})

release_fulfilled(st, da_id, still_missing) ==
    IF da_id \notin DOMAIN st.indexes THEN st
    ELSE LET kept == Only(st.indexes[da_id], still_missing)
         IN  IF DOMAIN kept = {} THEN release_set(st, {da_id})
             ELSE [st EXCEPT !.indexes[da_id] = kept]

\* bytes_in_flight, for one peer and for all.
PeerLoad(st, key) ==
    MapThenSumSet(LAMBDA d : Cardinality({i \in DOMAIN st.indexes[d] : st.indexes[d][i] = key}),
                  DOMAIN st.indexes)

GlobalLoad(st) == MapThenSumSet(LAMBDA d : Cardinality(DOMAIN st.indexes[d]), DOMAIN st.indexes)

\* Position of the next peer with room, turning round from start; 0 for none.
next_da_prefetch_peer(st, keys, start) ==
    LET position(n) == ((start + n) % Len(keys)) + 1
        free == {n \in 0 .. Len(keys) - 1 : PeerLoad(st, keys[position(n)]) + 1 <= PerPeerChunks}
    IN  IF GlobalLoad(st) + 1 > GlobalChunks \/ free = {} THEN 0 ELSE position(Min(free))


\* One missing chunk of reserve_missing; nothing more is reserved after a stop.
reserve(w, da_id, index, keys) ==
    LET held == IF da_id \in DOMAIN w.st.indexes THEN w.st.indexes[da_id] ELSE <<>>
        at == next_da_prefetch_peer(w.st, keys, w.peer_index)
    IN  IF w.stopped \/ index \in DOMAIN held THEN w
        ELSE IF at = 0 THEN [w EXCEPT !.stopped = TRUE]
        ELSE [w EXCEPT !.st.indexes = Set(@, da_id, Set(held, index, keys[at])),
                       !.peer_index = at,
                       !.plans = @ \union {[index |-> index, peer |-> keys[at]]}]

expire_planned(st, da_id, plans, time) ==
    IF plans = {} THEN st ELSE [st EXCEPT !.expires = Set(@, da_id, time + RequestTtl)]

reserve_missing(st, da_id, wanted, keys, time) ==
    LET w == FoldLeft(LAMBDA acc, i : reserve(acc, da_id, i, keys),
                      [st |-> st, peer_index |-> 0, plans |-> {}, stopped |-> FALSE],
                      SetToSortSeq(wanted, <))
    IN  [st |-> expire_planned(w.st, da_id, w.plans, time), plans |-> w.plans]

plan_da_prefetch(st, da_id, wanted, keys, time) ==
    LET live == release_expired(st, time)
        fresh == release_fulfilled(live, da_id, wanted)
        new_set == da_id \notin DOMAIN fresh.indexes
    IN  IF wanted = {} THEN [st |-> release_set(live, {da_id}), plans |-> {}]
        ELSE IF keys = <<>> \/ (new_set /\ Cardinality(DOMAIN fresh.indexes) >= MaxConcurrentSets)
        THEN [st |-> fresh, plans |-> {}]
        ELSE reserve_missing(fresh, da_id, wanted, keys, time)

\* Give back what the plan still owns.
release_da_prefetch_plan(st, da_id, plan) ==
    IF da_id \notin DOMAIN st.indexes THEN st
    ELSE LET set == st.indexes[da_id]
             kept == Only(set, {i \in DOMAIN set : \A p \in plan : p.index # i \/ p.peer # set[i]})
         IN  IF DOMAIN kept = {} THEN release_set(st, {da_id})
             ELSE [st EXCEPT !.indexes[da_id] = kept]

\* da_prefetch_peers: usable peers in key order, the triggering one first.
da_prefetch_peers(usable, trigger) ==
    LET keys == SelectSeq(PeerKeys, LAMBDA k : k \in usable)
    IN  IF trigger \notin usable \/ Len(keys) < 2 THEN keys
        ELSE <<trigger>> \o SelectSeq(keys, LAMBDA k : k # trigger)

-----------------------------------------------------------------------------

Init ==
    /\ indexes = <<>> /\ expires = <<>>
    /\ now = 0 /\ asked = {}

State == [indexes |-> indexes, expires |-> expires]

\* schedule_da_prefetch: plan, then send every plan, under the planner's lock.
\* A plan is given back when its peer's outbox is full or gone.
Schedule(da_id, missing, usable, trigger, full) ==
    LET planned == plan_da_prefetch(State, da_id, missing, da_prefetch_peers(usable, trigger), now)
        unsent == {p \in planned.plans : p.peer \in full}
        st == release_da_prefetch_plan(planned.st, da_id, unsent)
    IN  /\ indexes' = st.indexes /\ expires' = st.expires
        /\ asked' = {a \in asked : a.da_id \in DOMAIN st.indexes /\ a.index \in DOMAIN st.indexes[a.da_id]}
                        \union {[da_id |-> da_id, index |-> p.index, peer |-> p.peer] :
                                     p \in planned.plans \ unsent}
        /\ UNCHANGED now

Tick ==
    /\ now < MaxTime
    /\ now' = now + 1
    /\ UNCHANGED <<indexes, expires, asked>>

Next ==
    \/ \E da_id \in DaIds, missing \in SUBSET Indexes, usable, full \in SUBSET Peers, trigger \in Peers :
          Schedule(da_id, missing, usable, trigger, full)
    \/ Tick

Spec == Init /\ [][Next]_vars

-----------------------------------------------------------------------------
(* Properties. *)

\* However stale a session's view is, the chunks in flight stay within the caps
\* per peer, in all and in number of sets.
InFlightWithinCaps ==
    /\ \A peer \in Peers : PeerLoad(State, peer) <= PerPeerChunks
    /\ GlobalLoad(State) <= GlobalChunks
    /\ Cardinality(DOMAIN indexes) <= MaxConcurrentSets

\* Every set with a reservation has an expiry not further away than the request
\* lifetime, and the other way round: no reservation can outlive its timer and
\* keep a chunk from being asked for again.
ReservationsExpire ==
    /\ DOMAIN indexes = DOMAIN expires
    /\ \A d \in DOMAIN indexes : DOMAIN indexes[d] # {} /\ expires[d] <= now + RequestTtl

\* A reservation stands for a request in the outbox of the very peer that holds
\* it; a request that could not be queued leaves none.
ReservationsWereAsked ==
    \A d \in DOMAIN indexes : \A i \in DOMAIN indexes[d] :
        [da_id |-> d, index |-> i, peer |-> indexes[d][i]] \in asked

\* A chunk is taken from one peer and given to another only once its
\* reservation has run out, or some session saw that it was not missing.
NoDoubleRequest ==
    \A d \in DOMAIN indexes \intersect DOMAIN indexes' :
      \A i \in DOMAIN indexes[d] \intersect DOMAIN indexes'[d] :
         now < expires[d] => indexes'[d][i] = indexes[d][i]

\* After a plan, nothing that had run out is left: a lost answer delays a chunk
\* by one request lifetime and not longer.
ExpiredAreReleased ==
    now' = now => \A d \in DOMAIN expires' : expires'[d] > now

=============================================================================
