---------------------------- MODULE PeerSessions ----------------------------
(***************************************************************************)
(* The life of peer connections in the service (rubin-node p2p_service.rs):*)
(* worker threads dial or accept, take a session slot, register an outbox, *)
(* a peer and an alias, and undo all of it in the reverse order; the       *)
(* reconnect thread dials bootstrap peers that are not connected.  Each    *)
(* step is what a thread does under one lock, or one atomic operation.     *)
(*                                                                         *)
(* The bytes of relayed data that a host is charged for (module DaRelay)   *)
(* are one bit per quota key: charged or not.                              *)
(***************************************************************************)
EXTENDS Integers, FiniteSets

CONSTANTS
    Threads,                  \* worker threads
    Dialed,                   \* addresses of bootstrap peers
    Inbound,                  \* remote socket addresses of accepted connections
    RawAddr,                  \* address -> socket address the connection shows
    QuotaKey,                 \* address -> host it is charged under
    MaxPeers,                 \* max_peers
    OUTBOUND_SLOT_RESERVE,
    MaxStarts,                \* bound: connections attempted
    None

VARIABLES
    pc, addr, aborted,        \* of each worker: step, address, left before registering
    checked,                  \* address the reconnect thread found unconnected
    active_sessions, in_flight, outboxes, peers,
    aliases,                  \* socket address -> addresses that own it
    refs, closing, owner,     \* peer_quota_locks: of each quota key
    charged,                  \* quota keys with relayed data charged to them
    starts                    \* connections attempted so far

vars == <<pc, addr, aborted, checked, active_sessions, in_flight, outboxes, peers,
          aliases, refs, closing, owner, charged, starts>>

locks == <<refs, closing, owner>>

registry == <<outboxes, peers, aliases>>

Addrs == Dialed \union Inbound

QuotaKeys == {QuotaKey[a] : a \in Addrs}

Key(t) == QuotaKey[addr[t]]

is_outbound(t) == addr[t] \in Dialed

Init ==
    /\ pc = [t \in Threads |-> "idle"]
    /\ addr = [t \in Threads |-> None]
    /\ aborted = [t \in Threads |-> FALSE]
    /\ checked = None
    /\ active_sessions = 0 /\ in_flight = {} /\ outboxes = {} /\ peers = {}
    /\ aliases = [a \in {RawAddr[b] : b \in Addrs} |-> {}]
    /\ refs = [k \in QuotaKeys |-> 0]
    /\ closing = [k \in QuotaKeys |-> FALSE]
    /\ owner = [k \in QuotaKeys |-> None]
    /\ charged = {}
    /\ starts = 0

-----------------------------------------------------------------------------
(* Starting a connection. *)

is_connected_with_alias(a) ==
    \/ a \in peers
    \/ a \in DOMAIN aliases /\ aliases[a] # {}

\* reconnect_missing_bootstrap_peers looks at one address ...
CheckBootstrap(a) ==
    /\ checked = None
    /\ checked' = IF is_connected_with_alias(a) THEN None ELSE a
    /\ UNCHANGED <<pc, addr, aborted, active_sessions, in_flight, registry, locks, charged, starts>>

should_skip_outbound_dial(a) ==
    \/ a \in in_flight
    \/ active_sessions + Cardinality(in_flight) >= MaxPeers

\* ... and start_outbound_peer_with dials it, unless the marker, the slots or
\* the worker limit (here: no idle worker) say otherwise.
StartOutbound(t) ==
    /\ checked # None
    /\ pc[t] = "idle" /\ starts < MaxStarts
    /\ ~should_skip_outbound_dial(checked)
    /\ in_flight' = in_flight \union {checked}
    /\ pc' = [pc EXCEPT ![t] = "handshake"]
    /\ addr' = [addr EXCEPT ![t] = checked]
    /\ checked' = None
    /\ starts' = starts + 1
    /\ UNCHANGED <<aborted, active_sessions, registry, locks, charged>>

SkipOutbound ==
    /\ checked # None
    /\ \/ should_skip_outbound_dial(checked)
       \/ starts = MaxStarts
       \/ \A t \in Threads : pc[t] # "idle"
    /\ checked' = None
    /\ UNCHANGED <<pc, addr, aborted, active_sessions, in_flight, registry, locks, charged, starts>>

\* run_accept_loop.  A socket address is in use by one connection at a time.
Accept(t, a) ==
    /\ pc[t] = "idle" /\ starts < MaxStarts
    /\ \A u \in Threads : addr[u] # a
    /\ pc' = [pc EXCEPT ![t] = "handshake"]
    /\ addr' = [addr EXCEPT ![t] = a]
    /\ starts' = starts + 1
    /\ UNCHANGED <<aborted, checked, active_sessions, in_flight, registry, locks, charged>>

-----------------------------------------------------------------------------
(* handle_peer, step by step. *)

Goto(t, step) == pc' = [pc EXCEPT ![t] = step]

Step(t, from, to) == pc[t] = from /\ Goto(t, to)

\* The connection or the handshake fails.
HandshakeFails(t) ==
    /\ Step(t, "handshake", "unmark")
    /\ UNCHANGED <<addr, aborted, checked, active_sessions, in_flight, registry, locks, charged, starts>>

slot_cap(t) ==
    LET reserve == IF OUTBOUND_SLOT_RESERVE < MaxPeers - 1 THEN OUTBOUND_SLOT_RESERVE ELSE MaxPeers - 1
    IN  IF is_outbound(t) THEN MaxPeers ELSE MaxPeers - reserve

\* try_acquire_session_slot, after the handshake.
TakeSlot(t) ==
    /\ pc[t] = "handshake"
    /\ IF active_sessions >= slot_cap(t)
       THEN Goto(t, "unmark") /\ UNCHANGED active_sessions
       ELSE Goto(t, "acquire") /\ active_sessions' = active_sessions + 1
    /\ UNCHANGED <<addr, aborted, checked, in_flight, registry, locks, charged, starts>>

\* PeerQuotaLockHandle::acquire, which waits while the entry is closing; for
\* registering, for the teardown and for the cleanup of a failed registration.
AcquireHandle(t) ==
    /\ pc[t] \in {"acquire", "t_acquire"}
    /\ ~closing[Key(t)]
    /\ refs' = [refs EXCEPT ![Key(t)] = @ + 1]
    /\ Goto(t, IF pc[t] = "acquire" THEN "lock" ELSE "t_lock")
    /\ UNCHANGED <<addr, aborted, checked, active_sessions, in_flight, registry, closing, owner, charged, starts>>

LockQuota(t) ==
    /\ pc[t] \in {"lock", "t_lock"}
    /\ owner[Key(t)] = None
    /\ owner' = [owner EXCEPT ![Key(t)] = t]
    /\ Goto(t, CASE pc[t] = "lock" -> "outbox"
                 [] pc[t] = "t_lock" /\ aborted[t] -> "t_close"
                 [] pc[t] = "t_lock" /\ ~aborted[t] -> "t_remove")
    /\ UNCHANGED <<addr, aborted, checked, active_sessions, in_flight, registry, refs, closing, charged, starts>>

\* register_peer_outbox; an outbox of the same address ends the attempt.
RegisterOutbox(t) ==
    /\ pc[t] = "outbox"
    /\ IF addr[t] \in outboxes
       THEN Goto(t, "a_unlock") /\ UNCHANGED outboxes
       ELSE Goto(t, "add") /\ outboxes' = outboxes \union {addr[t]}
    /\ UNCHANGED <<addr, aborted, checked, active_sessions, in_flight, peers, aliases, locks, charged, starts>>

\* PeerManager::add_peer; a refusal drops the outbox guard first.
AddPeer(t) ==
    /\ pc[t] = "add"
    /\ IF Cardinality(peers) >= MaxPeers
       THEN Goto(t, "a_unlock") /\ outboxes' = outboxes \ {addr[t]} /\ UNCHANGED peers
       ELSE Goto(t, "unlock") /\ peers' = peers \union {addr[t]} /\ UNCHANGED outboxes
    /\ UNCHANGED <<addr, aborted, checked, active_sessions, in_flight, aliases, locks, charged, starts>>

UnlockQuota(t) ==
    /\ pc[t] \in {"unlock", "a_unlock", "t_unlock"}
    /\ owner' = [owner EXCEPT ![Key(t)] = None]
    /\ Goto(t, CASE pc[t] = "unlock" -> "clear_mark"
                 [] pc[t] = "a_unlock" -> "a_drop"
                 [] pc[t] = "t_unlock" -> "t_drop")
    /\ UNCHANGED <<addr, aborted, checked, active_sessions, in_flight, registry, refs, closing, charged, starts>>

ClearMark(t) ==
    /\ Step(t, "clear_mark", "alias")
    /\ in_flight' = in_flight \ {addr[t]}
    /\ UNCHANGED <<addr, aborted, checked, active_sessions, registry, locks, charged, starts>>

\* register_peer_alias: nothing for a socket address that is the peer's address.
RegisterAlias(t) ==
    /\ Step(t, "alias", "finish")
    /\ aliases' = [aliases EXCEPT ![RawAddr[addr[t]]] = IF RawAddr[addr[t]] = addr[t] THEN @ ELSE @ \union {addr[t]}]
    /\ UNCHANGED <<addr, aborted, checked, active_sessions, in_flight, outboxes, peers, locks, charged, starts>>

\* Dropping a handle: after the registration, after the teardown, or when the
\* registration failed; PendingPeerRegistration::drop then takes a new one.
DropHandle(t) ==
    /\ pc[t] \in {"finish", "a_drop", "t_drop"}
    /\ refs' = [refs EXCEPT ![Key(t)] = @ - 1]
    /\ aborted' = [aborted EXCEPT ![t] = @ \/ pc[t] = "a_drop"]
    /\ Goto(t, CASE pc[t] = "finish" -> "live"
                 [] pc[t] = "a_drop" -> "t_acquire"
                 [] pc[t] = "t_drop" /\ aborted[t] -> "t_slot"
                 [] pc[t] = "t_drop" /\ ~aborted[t] -> "t_alias")
    /\ UNCHANGED <<addr, checked, active_sessions, in_flight, registry, closing, owner, charged, starts>>

-----------------------------------------------------------------------------
(* The session and its end. *)

\* Relayed data of this peer is staged.
StageData(t) ==
    /\ pc[t] = "live"
    /\ charged' = charged \union {Key(t)}
    /\ UNCHANGED <<pc, addr, aborted, checked, active_sessions, in_flight, registry, locks, starts>>

\* The message loop returns: the guards are dropped, the last one declared first.
EndSession(t) ==
    /\ Step(t, "live", "t_acquire")
    /\ UNCHANGED <<addr, aborted, checked, active_sessions, in_flight, registry, locks, charged, starts>>

\* PeerGuard::drop, under the quota lock.
RemovePeer(t) ==
    /\ Step(t, "t_remove", "t_close")
    /\ peers' = peers \ {addr[t]}
    /\ UNCHANGED <<addr, aborted, checked, active_sessions, in_flight, outboxes, aliases, locks, charged, starts>>

\* release_da_quota_if_inactive_and_unqueued: whoever else holds a handle of the
\* key will come here after us.
BeginClosing(t) ==
    /\ pc[t] = "t_close"
    /\ IF refs[Key(t)] > 1
       THEN Goto(t, "t_unlock") /\ UNCHANGED closing
       ELSE Goto(t, "t_snapshot") /\ closing' = [closing EXCEPT ![Key(t)] = TRUE]
    /\ UNCHANGED <<addr, aborted, checked, active_sessions, in_flight, registry, refs, owner, charged, starts>>

\* Mutant: other peers of the host are not looked for.
ReadActive_Unread(t) ==
    /\ Step(t, "t_snapshot", "t_release")
    /\ UNCHANGED <<addr, aborted, checked, active_sessions, in_flight, registry, locks, charged, starts>>

\* release_da_quota_if_inactive looks for another peer of the key ...
ReadActive(t) ==
    /\ pc[t] = "t_snapshot"
    /\ Goto(t, IF \E a \in peers : QuotaKey[a] = Key(t) THEN "t_reopen" ELSE "t_release")
    /\ UNCHANGED <<addr, aborted, checked, active_sessions, in_flight, registry, locks, charged, starts>>

\* ... and releases the quota when there is none.
ReleaseQuota(t) ==
    /\ Step(t, "t_release", "t_reopen")
    /\ charged' = charged \ {Key(t)}
    /\ UNCHANGED <<addr, aborted, checked, active_sessions, in_flight, registry, locks, starts>>

EndClosing(t) ==
    /\ Step(t, "t_reopen", "t_unlock")
    /\ closing' = [closing EXCEPT ![Key(t)] = FALSE]
    /\ UNCHANGED <<addr, aborted, checked, active_sessions, in_flight, registry, refs, owner, charged, starts>>

\* PeerAliasGuard::drop.
DropAlias(t) ==
    /\ Step(t, "t_alias", "t_outbox")
    /\ aliases' = [aliases EXCEPT ![RawAddr[addr[t]]] = @ \ {addr[t]}]
    /\ UNCHANGED <<addr, aborted, checked, active_sessions, in_flight, outboxes, peers, locks, charged, starts>>

\* PeerOutboxGuard::drop.
DropOutbox(t) ==
    /\ Step(t, "t_outbox", "t_slot")
    /\ outboxes' = outboxes \ {addr[t]}
    /\ UNCHANGED <<addr, aborted, checked, active_sessions, in_flight, peers, aliases, locks, charged, starts>>

\* SessionSlotGuard::drop.
DropSlot(t) ==
    /\ Step(t, "t_slot", "unmark")
    /\ active_sessions' = active_sessions - 1
    /\ UNCHANGED <<addr, aborted, checked, in_flight, registry, locks, charged, starts>>

\* The worker of a dialed address clears the marker once more and ends.
EndWorker(t) ==
    /\ Step(t, "unmark", "idle")
    /\ in_flight' = IF is_outbound(t) THEN in_flight \ {addr[t]} ELSE in_flight
    /\ addr' = [addr EXCEPT ![t] = None]
    /\ aborted' = [aborted EXCEPT ![t] = FALSE]
    /\ UNCHANGED <<checked, active_sessions, registry, locks, charged, starts>>

-----------------------------------------------------------------------------

\* The steps a thread takes on its own once it runs.
Advance(t) ==
    \/ TakeSlot(t) \/ AcquireHandle(t) \/ LockQuota(t) \/ RegisterOutbox(t) \/ AddPeer(t)
    \/ UnlockQuota(t) \/ ClearMark(t) \/ RegisterAlias(t) \/ DropHandle(t)
    \/ RemovePeer(t) \/ BeginClosing(t) \/ ReadActive(t) \/ ReleaseQuota(t) \/ EndClosing(t)
    \/ DropAlias(t) \/ DropOutbox(t) \/ DropSlot(t) \/ EndWorker(t)

Next ==
    \/ \E a \in Dialed : CheckBootstrap(a)
    \/ \E t \in Threads : StartOutbound(t)
    \/ SkipOutbound
    \/ \E t \in Threads, a \in Inbound : Accept(t, a)
    \/ \E t \in Threads : HandshakeFails(t) \/ StageData(t) \/ EndSession(t) \/ Advance(t)

Spec == Init /\ [][Next]_vars

-----------------------------------------------------------------------------
(* Properties. *)

HoldsSlot(t) == pc[t] \notin {"idle", "handshake", "unmark"}

AliasRegistered(t) == ~aborted[t] /\ pc[t] \in {"finish", "live", "t_acquire", "t_lock", "t_remove"}

\* The slot counter is the number of sessions and never passes the limit, the
\* sessions accepted from outside leave room for dials, and the peer table never
\* overflows because every peer in it holds a slot.
SlotsAreExact ==
    /\ active_sessions = Cardinality({t \in Threads : HoldsSlot(t)})
    /\ active_sessions <= MaxPeers
    /\ MaxPeers > 1 => Cardinality({t \in Threads : HoldsSlot(t) /\ ~is_outbound(t)}) < MaxPeers
    /\ Cardinality(peers) <= active_sessions

\* A peer that anyone can see has an outbox: it is registered before the peer
\* and dropped after it, so a broadcast never misses a connected peer.
VisiblePeersHaveOutboxes == peers \subseteq outboxes

\* The quota of a host is released only while no peer of that host is connected:
\* one that registers meanwhile never loses what it has staged.
LiveQuotaIsNotReleased ==
    \A k \in charged \ charged' : \A a \in peers : QuotaKey[a] # k

\* A connected peer is found under its address and under the socket address of
\* its connection, also while another session with the same socket address ends.
ConnectedPeersAreKnown ==
    \A t \in Threads :
        AliasRegistered(t)
            => is_connected_with_alias(addr[t]) /\ is_connected_with_alias(RawAddr[addr[t]])

=============================================================================
