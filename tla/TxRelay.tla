------------------------------ MODULE TxRelay ------------------------------
(***************************************************************************)
(* Transaction and block announcement between the RPC threads, the peer    *)
(* threads and the peers' outboxes (tx_relay.rs, tx_seen.rs, relay_pool.rs *)
(* and the outbox half of p2p_service.rs).                                 *)
(*                                                                         *)
(* The RPC threads call announce_tx and announce_block with a Service      *)
(* lease only.  A peer thread calls handle_received_tx under the engine    *)
(* lock, so at most one such call (`handler`) is in progress.  The seen    *)
(* filter, the relay pool, the peer manager and the outbox map have a      *)
(* mutex each: one step per lock region.                                   *)
(***************************************************************************)
EXTENDS Integers, Sequences, FiniteSets, FiniteSetsExt

CONSTANTS
  Peer,             \* peer addresses
  Rpc,              \* RPC threads
  Tx,               \* txids, a set of integers ordered as the txids are
  Fee, Size,        \* Tx -> Nat: relay metadata
  Block,            \* mined blocks
  SeenCap,          \* capacity of the tx-seen filter
  PoolCap,          \* capacity of the relay pool
  Fanout,           \* tx_relay_fanout
  BoxFrames,        \* MAX_OUTBOX_FRAMES_PER_PEER
  MaxCalls,         \* bound: announce / receive calls made altogether
  None

VARIABLES
  seen,        \* [ring, next, items] of the tx-seen BoundedHashSet
  pool,        \* txids of the relay pool
  block_seen,  \* block_seen (never filled to capacity here)
  peers,       \* addresses in the PeerManager
  box,         \* Peer -> sequence of queued inventory items, or None
  rpc,         \* Rpc -> [pc, item, addrs]
  handler,     \* [pc, item, skip, addrs] of the call under the engine lock
  calls,       \* calls started (for MaxCalls)
  added,       \* history: every hash put in the seen filter, oldest first
  offered,     \* history: transactions the relay pool was offered
  barred,      \* history: transactions whose metadata was rejected
  bcasts,      \* history: Tx -> number of times an announcement was made
  queued       \* history: Block -> [due, got]: peers to tell, peers told

shared == <<seen, pool, block_seen, peers, box>>
history == <<added, offered, barred, bcasts, queued>>
vars == <<shared, rpc, handler, calls, history>>

Idle == [pc |-> "idle", item |-> None, skip |-> None, addrs |-> {}]

Init ==
  /\ seen = [ring |-> [i \in 0 .. SeenCap - 1 |-> None], next |-> 0, items |-> {}]
  /\ pool = {}
  /\ block_seen = {}
  /\ peers = {}
  /\ box = [p \in Peer |-> None]
  /\ rpc = [r \in Rpc |-> Idle]
  /\ handler = Idle
  /\ calls = 0
  /\ added = <<>>
  /\ offered = {}
  /\ barred = {}
  /\ bcasts = [t \in Tx |-> 0]
  /\ queued = [b \in Block |-> [due |-> {}, got |-> {}]]

(***************************************************************************)
(* tx_seen.rs: BoundedHashSet::add.  When the set is full the ring is      *)
(* scanned forward from `next` for a slot whose hash is still present.     *)
(***************************************************************************)
evict_slot(s) ==
  LET live == {i \in 0 .. SeenCap - 1 :
                 s.ring[(s.next + i) % SeenCap] \in s.items}
  IN  IF Cardinality(s.items) >= SeenCap /\ live # {}
      THEN (s.next + Min(live)) % SeenCap ELSE None

seen_add(s, h) ==
  LET slot == evict_slot(s)
      at   == IF slot = None THEN s.next ELSE slot
      kept == IF slot = None THEN s.items ELSE s.items \ {s.ring[slot]}
  IN  [ring  |-> [s.ring EXCEPT ![at] = h],
       next  |-> (at + 1) % SeenCap,
       items |-> kept \cup {h}]

(***************************************************************************)
(* relay_pool.rs: fee rate by cross-multiplication, then fee, then the     *)
(* lower txid; put evicts the worst entry only for a strictly better one.  *)
(***************************************************************************)
compare_relay_fee_rate(a, b) == Fee[a] * Size[b] - Fee[b] * Size[a]

compare_relay_priority(a, b) ==
  LET rate == compare_relay_fee_rate(a, b)
  IN  IF rate # 0 THEN rate
      ELSE IF Fee[a] # Fee[b] THEN Fee[a] - Fee[b] ELSE b - a

find_worst(txs) ==
  CHOOSE w \in txs : \A t \in txs \ {w} : compare_relay_priority(t, w) >= 0

put_accepts(t) ==
  /\ t \notin pool
  /\ Cardinality(pool) >= PoolCap => compare_relay_priority(t, find_worst(pool)) > 0

put_result(t) ==
  (IF Cardinality(pool) >= PoolCap THEN pool \ {find_worst(pool)} ELSE pool) \cup {t}

(***************************************************************************)
(* PeerOutbox: an inventory frame has the same size whatever it announces, *)
(* so the byte budget is a frame budget.                                   *)
(***************************************************************************)
push_ok(p) == box[p] # None /\ Len(box[p]) < BoxFrames

enqueue(addrs, item) ==
  [p \in Peer |-> IF p \in addrs /\ push_ok(p) THEN Append(box[p], item) ELSE box[p]]

\* select_tx_relay_peers: which `limit` peers score best depends on a hash of
\* the item, the salt and the address, so any choice of that many may be made.
select_tx_relay_peers(addrs) ==
  IF Fanout = 0 \/ Fanout >= Cardinality(addrs) THEN {addrs} ELSE kSubset(Fanout, addrs)

(***************************************************************************)
(* announce_tx on an RPC thread.                                           *)
(***************************************************************************)
Call == calls < MaxCalls /\ calls' = calls + 1

AnnounceTx(r, t) ==
  /\ rpc[r].pc = "idle"
  /\ Call
  /\ rpc' = [rpc EXCEPT ![r] = [Idle EXCEPT !.pc = "put", !.item = t]]
  /\ UNCHANGED <<shared, handler, history>>

RpcPut(r) ==
  LET t == rpc[r].item IN
  /\ rpc[r].pc = "put"
  /\ offered' = offered \cup {t}
  /\ IF put_accepts(t)
     THEN pool' = put_result(t) /\ rpc' = [rpc EXCEPT ![r].pc = "mark"]
     ELSE rpc' = [rpc EXCEPT ![r] = Idle] /\ UNCHANGED pool
  /\ UNCHANGED <<seen, block_seen, peers, box, handler, calls, added, barred, bcasts, queued>>

RpcMark(r) ==
  LET t == rpc[r].item IN
  /\ rpc[r].pc = "mark"
  /\ IF t \in seen.items
     THEN rpc' = [rpc EXCEPT ![r] = Idle] /\ UNCHANGED <<seen, added>>
     ELSE /\ seen' = seen_add(seen, t)
          /\ added' = Append(added, t)
          /\ rpc' = [rpc EXCEPT ![r].pc = "snapshot"]
  /\ UNCHANGED <<pool, block_seen, peers, box, handler, calls, offered, barred, bcasts, queued>>

\* broadcast_inventory: the peers are read first, their outboxes locked later.
RpcSnapshot(r) ==
  LET t == rpc[r].item IN
  /\ rpc[r].pc = "snapshot"
  /\ bcasts' = [bcasts EXCEPT ![t] = @ + 1]
  /\ \E chosen \in select_tx_relay_peers(peers) :
       rpc' = [rpc EXCEPT ![r] = IF peers = {} THEN Idle
                                 ELSE [@ EXCEPT !.pc = "push", !.addrs = chosen]]
  /\ UNCHANGED <<shared, handler, calls, added, offered, barred, queued>>

RpcPush(r) ==
  /\ rpc[r].pc = "push"
  /\ box' = enqueue(rpc[r].addrs, rpc[r].item)
  /\ rpc' = [rpc EXCEPT ![r] = Idle]
  /\ UNCHANGED <<seen, pool, block_seen, peers, handler, calls, history>>

(***************************************************************************)
(* announce_block on an RPC thread: every peer of the snapshot must get    *)
(* the inventory, otherwise the call fails and the block stays unmarked.   *)
(***************************************************************************)
AnnounceBlock(r, b) ==
  /\ rpc[r].pc = "idle"
  /\ b \notin block_seen
  /\ \A q \in Rpc : rpc[q].item # b
  /\ peers # {}
  /\ Call
  /\ rpc' = [rpc EXCEPT ![r] = [Idle EXCEPT !.pc = "bpush", !.item = b, !.addrs = peers]]
  /\ queued' = [queued EXCEPT ![b] = [due |-> peers, got |-> {}]]
  /\ UNCHANGED <<shared, handler, added, offered, barred, bcasts>>

PushBlock(r) ==
  LET b == rpc[r].item
      got == {p \in rpc[r].addrs : push_ok(p)} IN
  /\ rpc[r].pc = "bpush"
  /\ box' = enqueue(rpc[r].addrs, b)
  /\ queued' = [queued EXCEPT ![b].got = got]
  /\ rpc' = [rpc EXCEPT ![r] = IF got = rpc[r].addrs THEN [@ EXCEPT !.pc = "bmark"] ELSE Idle]
  /\ UNCHANGED <<seen, pool, block_seen, peers, handler, calls, added, offered, barred, bcasts>>

MarkBlock(r) ==
  /\ rpc[r].pc = "bmark"
  /\ block_seen' = block_seen \cup {rpc[r].item}
  /\ rpc' = [rpc EXCEPT ![r] = Idle]
  /\ UNCHANGED <<seen, pool, peers, box, handler, calls, history>>

(***************************************************************************)
(* handle_received_tx for a transaction of peer p.  Oversize and malformed *)
(* payloads leave the relay state alone; they are the peer session's       *)
(* business.                                                               *)
(***************************************************************************)
ReceiveTx(p, t) ==
  /\ handler.pc = "idle"
  /\ p \in peers
  /\ Call
  /\ IF t \in seen.items                       \* DuplicateSeen
     THEN UNCHANGED <<seen, added, handler>>
     ELSE /\ seen' = seen_add(seen, t)
          /\ added' = Append(added, t)
          /\ handler' = [Idle EXCEPT !.pc = "meta", !.item = t, !.skip = p]
  /\ UNCHANGED <<pool, block_seen, peers, box, rpc, offered, barred, bcasts, queued>>

\* relay_metadata is derived from the chain state: it may refuse any transaction.
MetadataRejected ==
  /\ handler.pc = "meta"
  /\ barred' = barred \cup {handler.item}
  /\ handler' = Idle
  /\ UNCHANGED <<shared, rpc, calls, added, offered, bcasts, queued>>

\* Mutant: the outcome of the put is not looked at.
HandlerPut_Relay ==
  LET t == handler.item IN
  /\ handler.pc = "meta"
  /\ offered' = offered \cup {t}
  /\ pool' = IF put_accepts(t) THEN put_result(t) ELSE pool
  /\ handler' = [handler EXCEPT !.pc = "snapshot"]
  /\ UNCHANGED <<seen, block_seen, peers, box, rpc, calls, added, barred, bcasts, queued>>

HandlerPut ==
  LET t == handler.item IN
  /\ handler.pc = "meta"
  /\ offered' = offered \cup {t}
  /\ IF put_accepts(t)
     THEN pool' = put_result(t) /\ handler' = [handler EXCEPT !.pc = "snapshot"]
     ELSE handler' = Idle /\ UNCHANGED pool      \* PoolRejected
  /\ UNCHANGED <<seen, block_seen, peers, box, rpc, calls, added, barred, bcasts, queued>>

HandlerSnapshot ==
  LET addrs == peers \ {handler.skip} IN
  /\ handler.pc = "snapshot"
  /\ bcasts' = [bcasts EXCEPT ![handler.item] = @ + 1]
  /\ \E chosen \in select_tx_relay_peers(addrs) :
       handler' = IF addrs = {} THEN Idle
                  ELSE [handler EXCEPT !.pc = "push", !.addrs = chosen]
  /\ UNCHANGED <<shared, rpc, calls, added, offered, barred, queued>>

HandlerPush ==
  /\ handler.pc = "push"
  /\ box' = enqueue(handler.addrs, handler.item)
  /\ handler' = Idle                             \* Relayed
  /\ UNCHANGED <<seen, pool, block_seen, peers, rpc, calls, history>>

(***************************************************************************)
(* Peers come and go (the outbox is there before the peer and after it),   *)
(* and each peer's own thread drains its outbox one frame at a time.       *)
(***************************************************************************)
register_peer_outbox(p) ==
  /\ box[p] = None
  /\ box' = [box EXCEPT ![p] = <<>>]
  /\ UNCHANGED <<seen, pool, block_seen, peers, rpc, handler, calls, history>>

add_peer(p) ==
  /\ box[p] # None /\ p \notin peers
  /\ peers' = peers \cup {p}
  /\ UNCHANGED <<seen, pool, block_seen, box, rpc, handler, calls, history>>

remove_peer(p) ==
  /\ p \in peers
  /\ handler.skip # p
  /\ peers' = peers \ {p}
  /\ UNCHANGED <<seen, pool, block_seen, box, rpc, handler, calls, history>>

drop_outbox(p) ==
  /\ box[p] # None /\ p \notin peers
  /\ box' = [box EXCEPT ![p] = None]
  /\ UNCHANGED <<seen, pool, block_seen, peers, rpc, handler, calls, history>>

pop_frame(p) ==
  /\ p \in peers
  /\ box[p] # None /\ box[p] # <<>>
  /\ box' = [box EXCEPT ![p] = Tail(@)]
  /\ UNCHANGED <<seen, pool, block_seen, peers, rpc, handler, calls, history>>

Next ==
  \/ \E r \in Rpc :
       \/ \E t \in Tx : AnnounceTx(r, t)
       \/ RpcPut(r) \/ RpcMark(r) \/ RpcSnapshot(r) \/ RpcPush(r)
       \/ \E b \in Block : AnnounceBlock(r, b)
       \/ PushBlock(r) \/ MarkBlock(r)
  \/ \E p \in Peer, t \in Tx : ReceiveTx(p, t)
  \/ MetadataRejected \/ HandlerPut \/ HandlerSnapshot \/ HandlerPush
  \/ \E p \in Peer : register_peer_outbox(p) \/ add_peer(p) \/ remove_peer(p)
                     \/ drop_outbox(p) \/ pop_frame(p)

Spec == Init /\ [][Next]_vars

-----------------------------------------------------------------------------
(***************************************************************************)
(* Properties.                                                             *)
(***************************************************************************)
\* The seen filter holds exactly the hashes most recently added to it, as many
\* as it has room for: the ring never forgets a newer hash before an older one,
\* whichever threads add and however often a forgotten hash comes back.
RecentAreSeen ==
  LET n == Len(added)
      first == IF n > SeenCap THEN n - SeenCap + 1 ELSE 1
  IN  seen.items = {added[i] : i \in first .. n}

\* A transaction is announced at most once in the life of the node, also when
\* the seen filter has forgotten it and a peer sends it again, and when an RPC
\* submission and a peer's copy meet in the middle: the pool takes it only once,
\* because what it displaces can never beat what displaced it.  Relay cannot loop.
AnnouncedOnce == \A t \in Tx : bcasts[t] <= 1

\* A relay pool that is full holds the best of everything it was ever offered:
\* what it turned away or displaced has a lower fee rate than all it kept (by
\* cross-multiplication of fees and sizes).
PoolKeepsTheBest ==
  \A t \in offered \ pool :
    /\ Cardinality(pool) = PoolCap
    /\ \A k \in pool : Fee[t] * Size[k] <= Fee[k] * Size[t]

\* What a peer is told about can be served: a transaction announced in some
\* outbox is in the relay pool, or was displaced from it by better ones.
AnnouncedCanBeServed ==
  \A p \in Peer : box[p] # None =>
    \A i \in 1 .. Len(box[p]) :
      LET t == box[p][i] IN
      t \in Tx \ pool => t \in offered /\ Cardinality(pool) = PoolCap
                         /\ \A k \in pool : compare_relay_priority(k, t) > 0

\* A block is marked as announced only when every peer that was connected when
\* the announcement began had it queued: a full or vanished outbox is reported.
MarkedBlocksWereQueued ==
  \A b \in block_seen : queued[b].due # {} /\ queued[b].due \subseteq queued[b].got

=============================================================================
