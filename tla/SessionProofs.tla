---------------------------- MODULE SessionProofs ----------------------------
(***************************************************************************)
(* Proofs about PeerSessions, for any number of worker threads, addresses  *)
(* and slots: the session counter is exact, a visible peer has its outbox  *)
(* and its alias, and a connected host keeps the data it has staged.       *)
(***************************************************************************)
EXTENDS PeerSessions, FiniteSetTheorems, TLAPS

\* What the code gives its constants: a limit of at least one peer, a reserve
\* of at least one slot, and finitely many threads at any time.
SessionAssumption ==
    /\ IsFiniteSet(Threads) /\ None \notin Threads /\ None \notin Addrs
    /\ MaxPeers \in Nat \ {0} /\ OUTBOUND_SLOT_RESERVE \in Nat \ {0}

-----------------------------------------------------------------------------
(* The inductive invariant. *)

\* The steps of a worker.
Label == {"idle", "handshake", "acquire", "lock", "outbox", "add", "unlock", "clear_mark", "alias",
          "finish", "live", "a_unlock", "a_drop", "t_acquire", "t_lock", "t_remove", "t_close",
          "t_snapshot", "t_release", "t_reopen", "t_unlock", "t_drop", "t_alias", "t_outbox",
          "t_slot", "unmark"}

\* The steps under the lock of a host's quota.
LockSteps == {"outbox", "add", "unlock", "a_unlock", "t_remove", "t_close", "t_snapshot",
              "t_release", "t_reopen", "t_unlock"}

\* The steps a worker whose registration failed goes through.
AbortSteps == {"t_acquire", "t_lock", "t_close", "t_snapshot", "t_release", "t_reopen", "t_unlock",
               "t_drop", "t_slot", "unmark"}

\* What a worker at step p that has left early (ab) or not still has.
SlotAt(p) == p \notin {"idle", "handshake", "unmark"}
OutboxAt(p, ab) ==
    \/ p \in {"add", "unlock", "clear_mark", "alias", "finish", "live"}
    \/ ~ab /\ p \in {"t_acquire", "t_lock", "t_remove", "t_close", "t_snapshot", "t_release",
                     "t_reopen", "t_unlock", "t_drop", "t_alias", "t_outbox"}
PeerAt(p, ab) ==
    \/ p \in {"unlock", "clear_mark", "alias", "finish", "live"}
    \/ ~ab /\ p \in {"t_acquire", "t_lock", "t_remove"}
AliasAt(p, ab) ==
    \/ p \in {"finish", "live"}
    \/ ~ab /\ p \in {"t_acquire", "t_lock", "t_remove", "t_close", "t_snapshot", "t_release",
                     "t_reopen", "t_unlock", "t_drop", "t_alias"}

HasOutbox(t) == OutboxAt(pc[t], aborted[t])
HasPeer(t) == PeerAt(pc[t], aborted[t])
HasAlias(t) == AliasAt(pc[t], aborted[t])

Holders == {t \in Threads : SlotAt(pc[t])}
InboundHolders == {t \in Threads : SlotAt(pc[t]) /\ addr[t] \notin Dialed}

\* The slots that sessions accepted from outside may take.
InboundCap == MaxPeers - (IF OUTBOUND_SLOT_RESERVE < MaxPeers - 1 THEN OUTBOUND_SLOT_RESERVE ELSE MaxPeers - 1)

Types ==
    /\ pc \in [Threads -> Label]
    /\ addr \in [Threads -> Addrs \union {None}]
    /\ aborted \in [Threads -> BOOLEAN]
    /\ checked \in Addrs \union {None}
    /\ owner \in [QuotaKeys -> Threads \union {None}]
    /\ aliases \in [{RawAddr[a] : a \in Addrs} -> SUBSET Addrs]

\* A running worker has an address, one under the lock owns it, and one about to
\* release a quota has seen no peer of the host that is still there.
ThreadInv ==
    \A t \in Threads :
        /\ addr[t] = None <=> pc[t] = "idle"
        /\ aborted[t] => pc[t] \in AbortSteps
        /\ pc[t] \in LockSteps => owner[Key(t)] = t
        /\ pc[t] = "t_release" => \A a \in peers : QuotaKey[a] # Key(t)

\* Outboxes, peers and aliases are those of the workers that have them, and no
\* two workers have the outbox of one address.
OwnInv ==
    /\ \A a : a \in outboxes <=> \E t \in Threads : HasOutbox(t) /\ addr[t] = a
    /\ \A a : a \in peers <=> \E t \in Threads : HasPeer(t) /\ addr[t] = a
    /\ \A t, u \in Threads : HasOutbox(t) /\ HasOutbox(u) /\ addr[t] = addr[u] => t = u
    /\ \A r \in {RawAddr[a] : a \in Addrs} : \A a :
         a \in aliases[r] <=>
            \E t \in Threads : HasAlias(t) /\ addr[t] = a /\ RawAddr[a] = r /\ r # a

\* The counter counts the workers past their slot.
SlotInv ==
    /\ active_sessions = Cardinality(Holders)
    /\ active_sessions <= MaxPeers
    /\ Cardinality(InboundHolders) <= InboundCap

SessionInv == SessionAssumption /\ Types /\ ThreadInv /\ OwnInv /\ SlotInv


-----------------------------------------------------------------------------
(* One worker moves on. *)

\* Worker t goes to step s, and b is whether it has left early.
Move(t, s, b) ==
    /\ pc' = [pc EXCEPT ![t] = s]
    /\ aborted' = [aborted EXCEPT ![t] = b]
    /\ addr' = addr
    /\ checked' = checked

\* What a move leaves of each worker.
LEMMA Moved ==
    ASSUME Types, NEW t \in Threads, NEW s, NEW b, Move(t, s, b)
    PROVE  /\ pc'[t] = s /\ aborted'[t] = b
           /\ \A u \in Threads : u # t => pc'[u] = pc[u] /\ aborted'[u] = aborted[u]
           /\ \A u \in Threads : addr'[u] = addr[u] /\ QuotaKey[addr'[u]] = Key(u)
<1>1. DOMAIN pc = Threads /\ DOMAIN aborted = Threads
  BY Zenon DEF Types
<1>2. pc'[t] = s /\ aborted'[t] = b
  BY <1>1, Zenon DEF Move
<1>3. \A u \in Threads : u # t => pc'[u] = pc[u] /\ aborted'[u] = aborted[u]
  BY <1>1, Zenon DEF Move
<1>4. \A u \in Threads : addr'[u] = addr[u] /\ QuotaKey[addr'[u]] = Key(u)
  BY Zenon DEF Move, Key
<1> QED
  BY <1>2, <1>3, <1>4, Zenon

\* A step that leaves the early exits alone is a move too.
LEMMA SameExit ==
    ASSUME Types, NEW t \in Threads, NEW s, pc' = [pc EXCEPT ![t] = s],
           UNCHANGED <<addr, aborted, checked>>
    PROVE  Move(t, s, aborted[t]) /\ aborted[t] \in BOOLEAN
<1>1. aborted \in [Threads -> BOOLEAN]
  BY Zenon DEF Types
<1>2. [aborted EXCEPT ![t] = aborted[t]] = aborted
  BY <1>1, Zenon
<1> QED
  BY <1>1, <1>2, Zenon DEF Move

\* A move keeps the types.
LEMMA TypesMove ==
    ASSUME Types, NEW t \in Threads, NEW s \in Label, NEW b \in BOOLEAN, Move(t, s, b),
           owner' \in [QuotaKeys -> Threads \union {None}],
           aliases' \in [{RawAddr[a] : a \in Addrs} -> SUBSET Addrs]
    PROVE  Types'
<1>1. pc' \in [Threads -> Label]
  BY Zenon DEF Types, Move
<1>2. aborted' \in [Threads -> BOOLEAN]
  BY Zenon DEF Types, Move
<1>3. addr' \in [Threads -> Addrs \union {None}] /\ checked' \in Addrs \union {None}
  BY Zenon DEF Types, Move
<1> QED
  BY <1>1, <1>2, <1>3, Zenon DEF Types

\* A move keeps what is said of each worker, when it keeps the locks in order.
LEMMA ThreadsMove ==
    ASSUME Types, ThreadInv, NEW t \in Threads, NEW s, NEW b, Move(t, s, b),
           pc[t] # "idle", s # "idle", b => s \in AbortSteps,
           s \in LockSteps => owner'[Key(t)] = t,
           \A u \in Threads : u # t /\ pc[u] \in LockSteps => owner'[Key(u)] = u,
           s = "t_release" => \A a \in peers' : QuotaKey[a] # Key(t),
           \A u \in Threads : u # t /\ pc[u] = "t_release" => \A a \in peers' : QuotaKey[a] # Key(u)
    PROVE  ThreadInv'
<1>1. /\ pc'[t] = s /\ aborted'[t] = b
      /\ \A u \in Threads : u # t => pc'[u] = pc[u] /\ aborted'[u] = aborted[u]
      /\ \A u \in Threads : addr'[u] = addr[u] /\ QuotaKey[addr'[u]] = Key(u)
  BY Moved, Zenon
<1>2. \A u \in Threads : Key(u)' = Key(u)
  BY <1>1, Zenon DEF Key
<1> SUFFICES ASSUME NEW u \in Threads
             PROVE  /\ addr'[u] = None <=> pc'[u] = "idle"
                    /\ aborted'[u] => pc'[u] \in AbortSteps
                    /\ pc'[u] \in LockSteps => owner'[Key(u)'] = u
                    /\ pc'[u] = "t_release" => \A a \in peers' : QuotaKey[a] # Key(u)'
  BY Zenon DEF ThreadInv
<1>3. CASE u = t
  BY <1>1, <1>2, <1>3, Zenon DEF ThreadInv
<1>4. CASE u # t
  BY <1>1, <1>2, <1>4 DEF ThreadInv
<1> QED
  BY <1>3, <1>4, Zenon

\* A move that leaves the registry alone and gives the worker nothing.
LEMMA OwnMove ==
    ASSUME Types, OwnInv, NEW t \in Threads, NEW s, NEW b, Move(t, s, b),
           OutboxAt(s, b) <=> HasOutbox(t), PeerAt(s, b) <=> HasPeer(t), AliasAt(s, b) <=> HasAlias(t),
           UNCHANGED <<outboxes, peers, aliases>>
    PROVE  OwnInv'
<1>1. /\ pc'[t] = s /\ aborted'[t] = b
      /\ \A u \in Threads : u # t => pc'[u] = pc[u] /\ aborted'[u] = aborted[u]
      /\ \A u \in Threads : addr'[u] = addr[u]
  BY Moved
<1>2. \A u \in Threads : /\ HasOutbox(u)' <=> HasOutbox(u)
                         /\ HasPeer(u)' <=> HasPeer(u)
                         /\ HasAlias(u)' <=> HasAlias(u)
  <2> SUFFICES ASSUME NEW u \in Threads
               PROVE  /\ OutboxAt(pc'[u], aborted'[u]) <=> HasOutbox(u)
                      /\ PeerAt(pc'[u], aborted'[u]) <=> HasPeer(u)
                      /\ AliasAt(pc'[u], aborted'[u]) <=> HasAlias(u)
    BY Zenon DEF HasOutbox, HasPeer, HasAlias
  <2>1. CASE u = t
    BY <1>1, <2>1, Zenon
  <2>2. CASE u # t
    BY <1>1, <2>2, Zenon DEF HasOutbox, HasPeer, HasAlias
  <2> QED
    BY <2>1, <2>2, Zenon
<1>3. \A a : a \in outboxes' <=> \E u \in Threads : HasOutbox(u)' /\ addr'[u] = a
  BY <1>1, <1>2 DEF OwnInv
<1>4. \A a : a \in peers' <=> \E u \in Threads : HasPeer(u)' /\ addr'[u] = a
  BY <1>1, <1>2 DEF OwnInv
<1>5. \A u, v \in Threads : HasOutbox(u)' /\ HasOutbox(v)' /\ addr'[u] = addr'[v] => u = v
  BY <1>1, <1>2 DEF OwnInv
<1>6. \A r \in {RawAddr[a] : a \in Addrs} : \A a :
         a \in aliases'[r] <=>
            \E u \in Threads : HasAlias(u)' /\ addr'[u] = a /\ RawAddr[a] = r /\ r # a
  BY <1>1, <1>2 DEF OwnInv
<1> QED
  BY <1>3, <1>4, <1>5, <1>6, Zenon DEF OwnInv

\* A move that takes and frees no slot.
LEMMA SlotMove ==
    ASSUME Types, SlotInv, NEW t \in Threads, NEW s, NEW b, Move(t, s, b),
           SlotAt(s) <=> SlotAt(pc[t]), UNCHANGED active_sessions
    PROVE  SlotInv'
<1>1. \A u \in Threads : (SlotAt(pc'[u]) <=> SlotAt(pc[u])) /\ addr'[u] = addr[u]
  BY Moved
<1>2. Holders' = Holders /\ InboundHolders' = InboundHolders
  <2>1. Holders' = {u \in Threads : SlotAt(pc'[u])}
    BY Zenon DEF Holders, SlotAt
  <2>2. InboundHolders' = {u \in Threads : SlotAt(pc'[u]) /\ addr'[u] \notin Dialed}
    BY Zenon DEF InboundHolders, SlotAt
  <2> QED
    BY <1>1, <2>1, <2>2, Zenon DEF Holders, InboundHolders
<1>3. InboundCap' = InboundCap
  BY Zenon DEF InboundCap
<1> QED
  BY <1>2, <1>3, Zenon DEF SlotInv


\* A move that changes nothing that is shared but, perhaps, the lock it holds.
LEMMA QuietMove ==
    ASSUME SessionInv, NEW t \in Threads, NEW s \in Label, NEW b \in BOOLEAN, Move(t, s, b),
           pc[t] # "idle", s # "idle", b => s \in AbortSteps,
           OutboxAt(s, b) <=> HasOutbox(t), PeerAt(s, b) <=> HasPeer(t), AliasAt(s, b) <=> HasAlias(t),
           SlotAt(s) <=> SlotAt(pc[t]),
           UNCHANGED <<outboxes, peers, aliases, active_sessions>>,
           owner' \in [QuotaKeys -> Threads \union {None}],
           s \in LockSteps => owner'[Key(t)] = t,
           \A u \in Threads : u # t /\ pc[u] \in LockSteps => owner'[Key(u)] = u,
           s = "t_release" => \A a \in peers : QuotaKey[a] # Key(t)
    PROVE  SessionInv'
<1> USE DEF SessionInv
<1>1. Types'
  <2>1. aliases' \in [{RawAddr[a] : a \in Addrs} -> SUBSET Addrs]
    BY Zenon DEF Types
  <2> QED
    BY <2>1, TypesMove, Zenon
<1>2. ThreadInv'
  <2>1. \A u \in Threads : u # t /\ pc[u] = "t_release" => \A a \in peers' : QuotaKey[a] # Key(u)
    BY Zenon DEF ThreadInv
  <2>2. s = "t_release" => \A a \in peers' : QuotaKey[a] # Key(t)
    BY Zenon
  <2> QED
    BY <2>1, <2>2, ThreadsMove, Zenon
<1>3. OwnInv'
  BY OwnMove, Zenon
<1>4. SlotInv'
  BY SlotMove, Zenon
<1>5. SessionAssumption'
  BY Zenon DEF SessionAssumption, Addrs
<1> QED
  BY <1>1, <1>2, <1>3, <1>4, <1>5, Zenon

\* The locks that a step which leaves them alone leaves in order.
LEMMA LocksLeft ==
    ASSUME SessionInv, NEW t \in Threads, NEW s, UNCHANGED owner,
           s \in LockSteps => pc[t] \in LockSteps
    PROVE  /\ owner' \in [QuotaKeys -> Threads \union {None}]
           /\ s \in LockSteps => owner'[Key(t)] = t
           /\ \A u \in Threads : u # t /\ pc[u] \in LockSteps => owner'[Key(u)] = u
BY Zenon DEF SessionInv, Types, ThreadInv

\* A running worker has an address, which is charged under a key.
LEMMA RunningHasKey ==
    ASSUME SessionInv, NEW t \in Threads, pc[t] # "idle"
    PROVE  addr[t] \in Addrs /\ Key(t) \in QuotaKeys
<1>1. addr[t] \in Addrs
  BY Zenon DEF SessionInv, Types, ThreadInv
<1> QED
  BY <1>1, Zenon DEF Key, QuotaKeys

\* The steps that take and give nothing back.
Plain(p, s, ab) ==
    \/ p = "handshake" /\ s = "unmark"
    \/ p = "acquire" /\ s = "lock"
    \/ p = "clear_mark" /\ s = "alias"
    \/ p = "finish" /\ s = "live"
    \/ p = "live" /\ s = "t_acquire" /\ ~ab
    \/ p = "t_acquire" /\ s = "t_lock"
    \/ p = "t_close" /\ s \in {"t_unlock", "t_snapshot"}
    \/ p = "t_snapshot" /\ s \in {"t_reopen", "t_release"}
    \/ p = "t_release" /\ s = "t_reopen"
    \/ p = "t_reopen" /\ s = "t_unlock"
    \/ p = "t_drop" /\ s = "t_slot" /\ ab
    \/ p = "t_drop" /\ s = "t_alias" /\ ~ab
    \/ p = "lock" /\ s = "outbox"
    \/ p = "t_lock" /\ s = "t_close" /\ ab
    \/ p = "t_lock" /\ s = "t_remove" /\ ~ab
    \/ p = "unlock" /\ s = "clear_mark"
    \/ p = "a_unlock" /\ s = "a_drop"
    \/ p = "t_unlock" /\ s = "t_drop"

\* They are what they are called.
LEMMA PlainTakesNothing ==
    ASSUME NEW p, NEW s, NEW ab \in BOOLEAN, Plain(p, s, ab), ab => p \in AbortSteps
    PROVE  /\ s \in Label /\ p # "idle" /\ s # "idle"
           /\ ab => s \in AbortSteps
           /\ OutboxAt(s, ab) <=> OutboxAt(p, ab)
           /\ PeerAt(s, ab) <=> PeerAt(p, ab)
           /\ AliasAt(s, ab) <=> AliasAt(p, ab)
           /\ SlotAt(s) <=> SlotAt(p)
<1>1. s \in Label /\ p # "idle" /\ s # "idle"
  BY DEF Plain, Label
<1>2. ab => s \in AbortSteps
  BY DEF Plain, AbortSteps
<1>3. OutboxAt(s, ab) <=> OutboxAt(p, ab)
  BY DEF Plain, OutboxAt
<1>4. PeerAt(s, ab) <=> PeerAt(p, ab)
  BY DEF Plain, PeerAt
<1>5. AliasAt(s, ab) <=> AliasAt(p, ab)
  BY DEF Plain, AliasAt
<1>6. SlotAt(s) <=> SlotAt(p)
  BY DEF Plain, SlotAt
<1> QED
  BY <1>1, <1>2, <1>3, <1>4, <1>5, <1>6, Zenon

\* A plain step keeps the invariant, when it keeps the locks in order and does
\* not release a quota that a peer needs.
LEMMA PlainStep ==
    ASSUME SessionInv, NEW t \in Threads, NEW s, pc' = [pc EXCEPT ![t] = s],
           UNCHANGED <<addr, aborted, checked, outboxes, peers, aliases, active_sessions>>,
           Plain(pc[t], s, aborted[t]),
           owner' \in [QuotaKeys -> Threads \union {None}],
           s \in LockSteps => owner'[Key(t)] = t,
           \A u \in Threads : u # t /\ pc[u] \in LockSteps => owner'[Key(u)] = u,
           s = "t_release" => \A a \in peers : QuotaKey[a] # Key(t)
    PROVE  SessionInv'
<1>1. Move(t, s, aborted[t]) /\ aborted[t] \in BOOLEAN
  BY SameExit, Zenon DEF SessionInv
<1>2. aborted[t] => pc[t] \in AbortSteps
  BY Zenon DEF SessionInv, ThreadInv
<1>3. /\ s \in Label /\ pc[t] # "idle" /\ s # "idle"
      /\ aborted[t] => s \in AbortSteps
      /\ OutboxAt(s, aborted[t]) <=> OutboxAt(pc[t], aborted[t])
      /\ PeerAt(s, aborted[t]) <=> PeerAt(pc[t], aborted[t])
      /\ AliasAt(s, aborted[t]) <=> AliasAt(pc[t], aborted[t])
      /\ SlotAt(s) <=> SlotAt(pc[t])
  BY <1>1, <1>2, PlainTakesNothing, Zenon
<1> QED
  BY <1>1, <1>3, QuietMove, Zenon DEF HasOutbox, HasPeer, HasAlias

\* The plain steps outside LockQuota and UnlockQuota: they leave the locks alone.
LEMMA UnlockedStep ==
    ASSUME SessionInv, NEW t \in Threads, NEW s, pc' = [pc EXCEPT ![t] = s],
           UNCHANGED <<addr, aborted, checked, outboxes, peers, aliases, active_sessions, owner>>,
           Plain(pc[t], s, aborted[t]), s \in LockSteps => pc[t] \in LockSteps,
           s = "t_release" => \A a \in peers : QuotaKey[a] # Key(t)
    PROVE  SessionInv'
<1>1. /\ owner' \in [QuotaKeys -> Threads \union {None}]
      /\ s \in LockSteps => owner'[Key(t)] = t
      /\ \A u \in Threads : u # t /\ pc[u] \in LockSteps => owner'[Key(u)] = u
  BY LocksLeft, Zenon
<1> QED
  BY <1>1, PlainStep, Zenon

\* HandshakeFails, ClearMark, EndSession, ReleaseQuota and EndClosing.
LEMMA SimpleStepsKeep ==
    ASSUME SessionInv, NEW t \in Threads,
           HandshakeFails(t) \/ ClearMark(t) \/ EndSession(t) \/ ReleaseQuota(t) \/ EndClosing(t)
    PROVE  SessionInv'
<1>1. UNCHANGED <<addr, aborted, checked, outboxes, peers, aliases, active_sessions, owner>>
  BY Zenon DEF HandshakeFails, ClearMark, EndSession, ReleaseQuota, EndClosing, registry, locks
<1>2. \/ pc[t] = "handshake" /\ pc' = [pc EXCEPT ![t] = "unmark"]
      \/ pc[t] = "clear_mark" /\ pc' = [pc EXCEPT ![t] = "alias"]
      \/ pc[t] = "live" /\ pc' = [pc EXCEPT ![t] = "t_acquire"]
      \/ pc[t] = "t_release" /\ pc' = [pc EXCEPT ![t] = "t_reopen"]
      \/ pc[t] = "t_reopen" /\ pc' = [pc EXCEPT ![t] = "t_unlock"]
  BY Zenon DEF HandshakeFails, ClearMark, EndSession, ReleaseQuota, EndClosing, Step, Goto
<1>3. pc[t] = "live" => ~aborted[t]
  BY Zenon DEF SessionInv, ThreadInv, AbortSteps
<1>4. PICK s : /\ pc' = [pc EXCEPT ![t] = s] /\ Plain(pc[t], s, aborted[t])
               /\ s \in {"unmark", "alias", "t_acquire", "t_reopen", "t_unlock"}
               /\ s \in {"t_reopen", "t_unlock"} => pc[t] \in {"t_release", "t_reopen"}
  BY <1>2, <1>3, Zenon DEF Plain
<1>5. s # "t_release" /\ (s \in LockSteps => pc[t] \in LockSteps)
  BY <1>4 DEF LockSteps
<1> QED
  BY <1>1, <1>4, <1>5, UnlockedStep, Zenon


\* AcquireHandle, BeginClosing and ReadActive: the last one goes on to the
\* release only when no peer of the host is there.
LEMMA BranchingStepsKeep ==
    ASSUME SessionInv, NEW t \in Threads, AcquireHandle(t) \/ BeginClosing(t) \/ ReadActive(t)
    PROVE  SessionInv'
<1>1. UNCHANGED <<addr, aborted, checked, outboxes, peers, aliases, active_sessions, owner>>
  BY Zenon DEF AcquireHandle, BeginClosing, ReadActive, registry, locks
<1>2. \/ pc[t] = "acquire" /\ pc' = [pc EXCEPT ![t] = "lock"]
      \/ pc[t] = "t_acquire" /\ pc' = [pc EXCEPT ![t] = "t_lock"]
      \/ pc[t] = "t_close" /\ pc' = [pc EXCEPT ![t] = "t_unlock"]
      \/ pc[t] = "t_close" /\ pc' = [pc EXCEPT ![t] = "t_snapshot"]
      \/ pc[t] = "t_snapshot" /\ pc' = [pc EXCEPT ![t] = "t_reopen"]
      \/ /\ pc[t] = "t_snapshot" /\ pc' = [pc EXCEPT ![t] = "t_release"]
         /\ \A a \in peers : QuotaKey[a] # Key(t)
  <2>1. CASE AcquireHandle(t)
    <3>1. CASE pc[t] = "acquire"
      BY <2>1, <3>1, Zenon DEF AcquireHandle, Goto
    <3>2. CASE pc[t] = "t_acquire"
      BY <2>1, <3>2, Zenon DEF AcquireHandle, Goto
    <3> QED
      BY <2>1, <3>1, <3>2, Zenon DEF AcquireHandle
  <2>2. CASE BeginClosing(t)
    BY <2>2, Zenon DEF BeginClosing, Goto
  <2>3. CASE ReadActive(t)
    BY <2>3, Zenon DEF ReadActive, Goto
  <2> QED
    BY <2>1, <2>2, <2>3, Zenon
<1>3. PICK s : /\ pc' = [pc EXCEPT ![t] = s] /\ Plain(pc[t], s, aborted[t])
               /\ s \in {"lock", "t_lock", "t_unlock", "t_snapshot", "t_reopen", "t_release"}
               /\ s \in {"t_unlock", "t_snapshot", "t_reopen", "t_release"} => pc[t] \in {"t_close", "t_snapshot"}
               /\ s = "t_release" => \A a \in peers : QuotaKey[a] # Key(t)
  BY <1>2, Zenon DEF Plain
<1>4. s \in LockSteps => pc[t] \in LockSteps
  BY <1>3 DEF LockSteps
<1> QED
  BY <1>1, <1>3, <1>4, UnlockedStep, Zenon

\* LockQuota: the lock was free, so no worker was under it.
LEMMA LockQuotaKeeps ==
    ASSUME SessionInv, NEW t \in Threads, LockQuota(t)
    PROVE  SessionInv'
<1>1. /\ UNCHANGED <<addr, aborted, checked, outboxes, peers, aliases, active_sessions>>
      /\ owner[Key(t)] = None /\ owner' = [owner EXCEPT ![Key(t)] = t]
  BY Zenon DEF LockQuota, registry
<1>2. \/ pc[t] = "lock" /\ pc' = [pc EXCEPT ![t] = "outbox"]
      \/ pc[t] = "t_lock" /\ aborted[t] /\ pc' = [pc EXCEPT ![t] = "t_close"]
      \/ pc[t] = "t_lock" /\ ~aborted[t] /\ pc' = [pc EXCEPT ![t] = "t_remove"]
  <2>1. CASE pc[t] = "lock"
    BY <2>1, Zenon DEF LockQuota, Goto
  <2>2. CASE pc[t] = "t_lock" /\ aborted[t]
    BY <2>2, Zenon DEF LockQuota, Goto
  <2>3. CASE pc[t] = "t_lock" /\ ~aborted[t]
    BY <2>3, Zenon DEF LockQuota, Goto
  <2> QED
    BY <2>1, <2>2, <2>3, Zenon DEF LockQuota
<1>3. PICK s : /\ pc' = [pc EXCEPT ![t] = s] /\ Plain(pc[t], s, aborted[t])
               /\ s # "t_release" /\ pc[t] # "idle"
  BY <1>2, Zenon DEF Plain
<1>4. Key(t) \in QuotaKeys
  BY <1>3, RunningHasKey, Zenon
<1>5. owner \in [QuotaKeys -> Threads \union {None}] /\ None \notin Threads
  BY Zenon DEF SessionInv, Types, SessionAssumption
<1>6. owner' \in [QuotaKeys -> Threads \union {None}] /\ owner'[Key(t)] = t
  BY <1>1, <1>4, <1>5, Zenon
<1>7. \A u \in Threads : u # t /\ pc[u] \in LockSteps => owner'[Key(u)] = u
  <2> SUFFICES ASSUME NEW u \in Threads, u # t, pc[u] \in LockSteps
               PROVE  owner'[Key(u)] = u
    BY Zenon
  <2>1. owner[Key(u)] = u /\ Key(u) \in QuotaKeys
    BY RunningHasKey, Zenon DEF SessionInv, ThreadInv, LockSteps
  <2>2. Key(u) # Key(t)
    BY <1>1, <1>5, <2>1, Zenon
  <2> QED
    BY <1>1, <1>5, <2>1, <2>2, Zenon
<1> QED
  BY <1>1, <1>3, <1>6, <1>7, PlainStep, Zenon

\* UnlockQuota: the worker had the lock, so no other one loses it.
LEMMA UnlockQuotaKeeps ==
    ASSUME SessionInv, NEW t \in Threads, UnlockQuota(t)
    PROVE  SessionInv'
<1>1. /\ UNCHANGED <<addr, aborted, checked, outboxes, peers, aliases, active_sessions>>
      /\ owner' = [owner EXCEPT ![Key(t)] = None]
  BY Zenon DEF UnlockQuota, registry
<1>2. \/ pc[t] = "unlock" /\ pc' = [pc EXCEPT ![t] = "clear_mark"]
      \/ pc[t] = "a_unlock" /\ pc' = [pc EXCEPT ![t] = "a_drop"]
      \/ pc[t] = "t_unlock" /\ pc' = [pc EXCEPT ![t] = "t_drop"]
  <2>1. CASE pc[t] = "unlock"
    BY <2>1, Zenon DEF UnlockQuota, Goto
  <2>2. CASE pc[t] = "a_unlock"
    BY <2>2, Zenon DEF UnlockQuota, Goto
  <2>3. CASE pc[t] = "t_unlock"
    BY <2>3, Zenon DEF UnlockQuota, Goto
  <2> QED
    BY <2>1, <2>2, <2>3, Zenon DEF UnlockQuota
<1>3. PICK s : /\ pc' = [pc EXCEPT ![t] = s] /\ Plain(pc[t], s, aborted[t])
               /\ s \in {"clear_mark", "a_drop", "t_drop"}
               /\ pc[t] \in {"unlock", "a_unlock", "t_unlock"}
  BY <1>2, Zenon DEF Plain
<1>4. s \notin LockSteps /\ s # "t_release" /\ pc[t] \in LockSteps
  BY <1>3 DEF LockSteps
<1>5. owner \in [QuotaKeys -> Threads \union {None}] /\ owner[Key(t)] = t
  BY <1>4, Zenon DEF SessionInv, Types, ThreadInv
<1>6. owner' \in [QuotaKeys -> Threads \union {None}]
  BY <1>1, <1>5, Zenon
<1>7. \A u \in Threads : u # t /\ pc[u] \in LockSteps => owner'[Key(u)] = u
  <2> SUFFICES ASSUME NEW u \in Threads, u # t, pc[u] \in LockSteps
               PROVE  owner'[Key(u)] = u
    BY Zenon
  <2>1. owner[Key(u)] = u /\ Key(u) \in QuotaKeys
    BY RunningHasKey, Zenon DEF SessionInv, ThreadInv, LockSteps
  <2>2. Key(u) # Key(t)
    BY <1>5, <2>1, Zenon
  <2> QED
    BY <1>1, <1>5, <2>1, <2>2, Zenon
<1> QED
  BY <1>1, <1>3, <1>4, <1>6, <1>7, PlainStep, Zenon

\* DropHandle: a worker whose registration failed had nothing to give back.
LEMMA DropHandleKeeps ==
    ASSUME SessionInv, NEW t \in Threads, DropHandle(t)
    PROVE  SessionInv'
<1>1. /\ UNCHANGED <<addr, checked, outboxes, peers, aliases, active_sessions, owner>>
      /\ pc[t] \in {"finish", "a_drop", "t_drop"}
      /\ aborted' = [aborted EXCEPT ![t] = aborted[t] \/ pc[t] = "a_drop"]
  BY Zenon DEF DropHandle, registry
<1>2. aborted \in [Threads -> BOOLEAN]
  BY Zenon DEF SessionInv, Types
<1>3. CASE pc[t] = "a_drop"
  <2>1. pc' = [pc EXCEPT ![t] = "t_acquire"]
    BY <1>3, Zenon DEF DropHandle, Goto
  <2>3. Move(t, "t_acquire", aborted[t] \/ pc[t] = "a_drop")
    BY <1>1, <2>1, Zenon DEF Move
  <2>4. "t_acquire" \in AbortSteps /\ "t_acquire" \in Label /\ "t_acquire" \notin LockSteps
    BY DEF AbortSteps, Label, LockSteps
  <2>5. aborted[t] \/ pc[t] = "a_drop"
    BY <1>3
  <2>6. /\ ~HasOutbox(t) /\ ~HasPeer(t) /\ ~HasAlias(t)
        /\ SlotAt("t_acquire") /\ SlotAt(pc[t])
    BY <1>3, Zenon DEF HasOutbox, HasPeer, HasAlias, OutboxAt, PeerAt, AliasAt, SlotAt
  <2>7. \A b : b => ~OutboxAt("t_acquire", b) /\ ~PeerAt("t_acquire", b) /\ ~AliasAt("t_acquire", b)
    BY Zenon DEF OutboxAt, PeerAt, AliasAt
  <2>8. /\ owner' \in [QuotaKeys -> Threads \union {None}]
        /\ \A u \in Threads : u # t /\ pc[u] \in LockSteps => owner'[Key(u)] = u
    BY <1>1, <2>4, LocksLeft, Zenon
  <2>9. (aborted[t] \/ pc[t] = "a_drop") \in BOOLEAN
    BY Zenon
  <2> QED
    BY <1>1, <1>3, <2>3, <2>4, <2>5, <2>6, <2>7, <2>8, <2>9, QuietMove, Zenon
<1>4. CASE pc[t] # "a_drop"
  <2>1. (aborted[t] \/ pc[t] = "a_drop") = aborted[t]
    BY <1>2, <1>4
  <2>2. aborted' = aborted
    BY <1>1, <1>2, <2>1, Zenon
  <2>3. \/ pc[t] = "finish" /\ pc' = [pc EXCEPT ![t] = "live"]
        \/ pc[t] = "t_drop" /\ aborted[t] /\ pc' = [pc EXCEPT ![t] = "t_slot"]
        \/ pc[t] = "t_drop" /\ ~aborted[t] /\ pc' = [pc EXCEPT ![t] = "t_alias"]
    <3>1. CASE pc[t] = "finish"
      BY <3>1, Zenon DEF DropHandle, Goto
    <3>2. CASE pc[t] = "t_drop" /\ aborted[t]
      BY <3>2, Zenon DEF DropHandle, Goto
    <3>3. CASE pc[t] = "t_drop" /\ ~aborted[t]
      BY <3>3, Zenon DEF DropHandle, Goto
    <3> QED
      BY <1>1, <1>4, <3>1, <3>2, <3>3, Zenon
  <2>4. PICK s : /\ pc' = [pc EXCEPT ![t] = s] /\ Plain(pc[t], s, aborted[t])
                 /\ s \in {"live", "t_slot", "t_alias"}
    BY <2>3, Zenon DEF Plain
  <2>5. s \notin LockSteps /\ s # "t_release"
    BY <2>4 DEF LockSteps
  <2> QED
    BY <1>1, <2>2, <2>4, <2>5, UnlockedStep, Zenon
<1> QED
  BY <1>3, <1>4, Zenon


-----------------------------------------------------------------------------
(* The steps that write the registry. *)

\* Who has a peer or an alias has the outbox.
LEMMA OutboxFirst ==
    ASSUME NEW t \in Threads, HasPeer(t) \/ HasAlias(t)
    PROVE  HasOutbox(t)
BY DEF HasPeer, HasAlias, HasOutbox, PeerAt, AliasAt, OutboxAt

\* What the move of t leaves of what the others have.
LEMMA OthersKeep ==
    ASSUME Types, NEW t \in Threads, NEW s, NEW b, Move(t, s, b)
    PROVE  /\ HasOutbox(t)' <=> OutboxAt(s, b)
           /\ HasPeer(t)' <=> PeerAt(s, b)
           /\ HasAlias(t)' <=> AliasAt(s, b)
           /\ \A u \in Threads : u # t => /\ HasOutbox(u)' <=> HasOutbox(u)
                                          /\ HasPeer(u)' <=> HasPeer(u)
                                          /\ HasAlias(u)' <=> HasAlias(u)
           /\ \A u \in Threads : addr'[u] = addr[u]
<1>1. /\ pc'[t] = s /\ aborted'[t] = b
      /\ \A u \in Threads : u # t => pc'[u] = pc[u] /\ aborted'[u] = aborted[u]
      /\ \A u \in Threads : addr'[u] = addr[u]
  BY Moved
<1>2. /\ HasOutbox(t)' <=> OutboxAt(s, b)
      /\ HasPeer(t)' <=> PeerAt(s, b)
      /\ HasAlias(t)' <=> AliasAt(s, b)
  BY <1>1, Zenon DEF HasOutbox, HasPeer, HasAlias
<1>3. \A u \in Threads : u # t => /\ HasOutbox(u)' <=> HasOutbox(u)
                                  /\ HasPeer(u)' <=> HasPeer(u)
                                  /\ HasAlias(u)' <=> HasAlias(u)
  <2> SUFFICES ASSUME NEW u \in Threads, u # t
               PROVE  /\ OutboxAt(pc'[u], aborted'[u]) <=> HasOutbox(u)
                      /\ PeerAt(pc'[u], aborted'[u]) <=> HasPeer(u)
                      /\ AliasAt(pc'[u], aborted'[u]) <=> HasAlias(u)
    BY Zenon DEF HasOutbox, HasPeer, HasAlias
  <2> QED
    BY <1>1, Zenon DEF HasOutbox, HasPeer, HasAlias
<1> QED
  BY <1>1, <1>2, <1>3, Zenon

\* An outbox is entered once, by the worker that then has it, and taken out by it.
LEMMA OutboxesMove ==
    ASSUME Types, OwnInv, NEW t \in Threads, NEW s, NEW b, Move(t, s, b),
           \/ outboxes' = outboxes /\ (OutboxAt(s, b) <=> HasOutbox(t))
           \/ outboxes' = outboxes \union {addr[t]} /\ OutboxAt(s, b) /\ addr[t] \notin outboxes
           \/ outboxes' = outboxes \ {addr[t]} /\ ~OutboxAt(s, b) /\ HasOutbox(t)
    PROVE  /\ \A a : a \in outboxes' <=> \E u \in Threads : HasOutbox(u)' /\ addr'[u] = a
           /\ \A u, v \in Threads : HasOutbox(u)' /\ HasOutbox(v)' /\ addr'[u] = addr'[v] => u = v
<1> DEFINE H(u) == HasOutbox(u)
           G(u) == HasOutbox(u)'
<1>1. /\ G(t) <=> OutboxAt(s, b)
      /\ \A u \in Threads : u # t => (G(u) <=> H(u))
      /\ \A u \in Threads : addr'[u] = addr[u]
  BY OthersKeep, Zenon
<1>2. /\ \A a : a \in outboxes <=> \E u \in Threads : H(u) /\ addr[u] = a
      /\ \A u, v \in Threads : H(u) /\ H(v) /\ addr[u] = addr[v] => u = v
  BY Zenon DEF OwnInv
<1> SUFFICES /\ \A a : a \in outboxes' <=> \E u \in Threads : G(u) /\ addr'[u] = a
             /\ \A u, v \in Threads : G(u) /\ G(v) /\ addr'[u] = addr'[v] => u = v
  OBVIOUS
<1> HIDE DEF H, G
<1>3. CASE outboxes' = outboxes /\ (OutboxAt(s, b) <=> H(t))
  <2>1. \A u \in Threads : G(u) <=> H(u)
    BY <1>1, <1>3, Zenon
  <2> QED
    BY <1>1, <1>2, <1>3, <2>1
<1>4. CASE outboxes' = outboxes \union {addr[t]} /\ OutboxAt(s, b) /\ addr[t] \notin outboxes
  <2>1. \A u \in Threads : G(u) <=> (H(u) \/ u = t)
    BY <1>1, <1>4, Zenon
  <2>2. \A u \in Threads : H(u) => addr[u] # addr[t]
    BY <1>2, <1>4, Zenon
  <2>3. \A a : a \in outboxes' <=> \E u \in Threads : G(u) /\ addr'[u] = a
    BY <1>1, <1>2, <1>4, <2>1
  <2>4. \A u, v \in Threads : G(u) /\ G(v) /\ addr'[u] = addr'[v] => u = v
    BY <1>1, <1>2, <2>1, <2>2
  <2> QED
    BY <2>3, <2>4, Zenon
<1>5. CASE outboxes' = outboxes \ {addr[t]} /\ ~OutboxAt(s, b) /\ H(t)
  <2>1. \A u \in Threads : G(u) <=> (H(u) /\ u # t)
    BY <1>1, <1>5, Zenon
  <2>2. \A u \in Threads : H(u) /\ u # t => addr[u] # addr[t]
    BY <1>2, <1>5, Zenon
  <2>3. \A a : a \in outboxes' <=> \E u \in Threads : G(u) /\ addr'[u] = a
    BY <1>1, <1>2, <1>5, <2>1, <2>2
  <2>4. \A u, v \in Threads : G(u) /\ G(v) /\ addr'[u] = addr'[v] => u = v
    BY <1>1, <1>2, <2>1
  <2> QED
    BY <2>3, <2>4, Zenon
<1> QED
  BY <1>3, <1>4, <1>5, Zenon DEF H

\* A peer is entered by a worker that then shows it, and taken out by the one
\* worker that has the outbox of the address.
LEMMA PeersMove ==
    ASSUME Types, OwnInv, NEW t \in Threads, NEW s, NEW b, Move(t, s, b),
           \/ peers' = peers /\ (PeerAt(s, b) <=> HasPeer(t))
           \/ peers' = peers \union {addr[t]} /\ PeerAt(s, b)
           \/ peers' = peers \ {addr[t]} /\ ~PeerAt(s, b) /\ HasOutbox(t)
    PROVE  \A a : a \in peers' <=> \E u \in Threads : HasPeer(u)' /\ addr'[u] = a
<1> DEFINE H(u) == HasPeer(u)
           G(u) == HasPeer(u)'
<1>1. /\ G(t) <=> PeerAt(s, b)
      /\ \A u \in Threads : u # t => (G(u) <=> H(u))
      /\ \A u \in Threads : addr'[u] = addr[u]
  BY OthersKeep, Zenon
<1>2. \A a : a \in peers <=> \E u \in Threads : H(u) /\ addr[u] = a
  BY Zenon DEF OwnInv
<1>0. HasOutbox(t) => \A u \in Threads : H(u) /\ u # t => addr[u] # addr[t]
  BY OutboxFirst, Zenon DEF OwnInv
<1> SUFFICES \A a : a \in peers' <=> \E u \in Threads : G(u) /\ addr'[u] = a
  OBVIOUS
<1> HIDE DEF H, G
<1>3. CASE peers' = peers /\ (PeerAt(s, b) <=> H(t))
  <2>1. \A u \in Threads : G(u) <=> H(u)
    BY <1>1, <1>3, Zenon
  <2> QED
    BY <1>1, <1>2, <1>3, <2>1
<1>4. CASE peers' = peers \union {addr[t]} /\ PeerAt(s, b)
  <2>1. \A u \in Threads : G(u) <=> (H(u) \/ u = t)
    BY <1>1, <1>4, Zenon
  <2> QED
    BY <1>1, <1>2, <1>4, <2>1
<1>5. CASE peers' = peers \ {addr[t]} /\ ~PeerAt(s, b) /\ HasOutbox(t)
  <2>1. \A u \in Threads : G(u) <=> (H(u) /\ u # t)
    BY <1>1, <1>5, Zenon
  <2> QED
    BY <1>0, <1>1, <1>2, <1>5, <2>1
<1> QED
  BY <1>3, <1>4, <1>5, Zenon DEF H

\* The same for the alias of a peer whose socket has another address.
LEMMA AliasesMove ==
    ASSUME Types, OwnInv, NEW t \in Threads, NEW s, NEW b, Move(t, s, b), addr[t] \in Addrs,
           \/ aliases' = aliases /\ (AliasAt(s, b) <=> HasAlias(t))
           \/ /\ AliasAt(s, b)
              /\ aliases' = [aliases EXCEPT ![RawAddr[addr[t]]] =
                               IF RawAddr[addr[t]] = addr[t] THEN @ ELSE @ \union {addr[t]}]
           \/ /\ ~AliasAt(s, b) /\ HasOutbox(t)
              /\ aliases' = [aliases EXCEPT ![RawAddr[addr[t]]] = @ \ {addr[t]}]
    PROVE  /\ aliases' \in [{RawAddr[a] : a \in Addrs} -> SUBSET Addrs]
           /\ \A r \in {RawAddr[a] : a \in Addrs} : \A a :
                a \in aliases'[r] <=>
                   \E u \in Threads : HasAlias(u)' /\ addr'[u] = a /\ RawAddr[a] = r /\ r # a
<1> DEFINE H(u) == HasAlias(u)
           G(u) == HasAlias(u)'
           R == {RawAddr[a] : a \in Addrs}
           x == addr[t]
<1>1. /\ G(t) <=> AliasAt(s, b)
      /\ \A u \in Threads : u # t => (G(u) <=> H(u))
      /\ \A u \in Threads : addr'[u] = addr[u]
  BY OthersKeep, Zenon
<1>2. /\ aliases \in [R -> SUBSET Addrs] /\ RawAddr[x] \in R /\ x \in Addrs
      /\ \A r \in R : \A a :
           a \in aliases[r] <=> \E u \in Threads : H(u) /\ addr[u] = a /\ RawAddr[a] = r /\ r # a
  BY Zenon DEF OwnInv, Types
<1>0. HasOutbox(t) => \A u \in Threads : H(u) /\ u # t => addr[u] # x
  BY OutboxFirst, Zenon DEF OwnInv
<1>6. \/ aliases' = aliases /\ (AliasAt(s, b) <=> H(t))
      \/ /\ AliasAt(s, b)
         /\ aliases' = [aliases EXCEPT ![RawAddr[x]] =
                          IF RawAddr[x] = x THEN aliases[RawAddr[x]] ELSE aliases[RawAddr[x]] \union {x}]
      \/ /\ ~AliasAt(s, b) /\ HasOutbox(t)
         /\ aliases' = [aliases EXCEPT ![RawAddr[x]] = aliases[RawAddr[x]] \ {x}]
  BY Zenon
<1> SUFFICES /\ aliases' \in [R -> SUBSET Addrs]
             /\ \A r \in R : \A a :
                  a \in aliases'[r] <=>
                     \E u \in Threads : G(u) /\ addr'[u] = a /\ RawAddr[a] = r /\ r # a
  OBVIOUS
<1> HIDE DEF H, G, R, x
<1>3. CASE aliases' = aliases /\ (AliasAt(s, b) <=> H(t))
  <2>1. \A u \in Threads : G(u) <=> H(u)
    BY <1>1, <1>3, Zenon
  <2> QED
    BY <1>1, <1>2, <1>3, <2>1
<1>4. CASE /\ AliasAt(s, b)
           /\ aliases' = [aliases EXCEPT ![RawAddr[x]] =
                            IF RawAddr[x] = x THEN aliases[RawAddr[x]] ELSE aliases[RawAddr[x]] \union {x}]
  <2>1. \A u \in Threads : G(u) <=> (H(u) \/ u = t)
    BY <1>1, <1>4, Zenon
  <2>2. /\ aliases' \in [R -> SUBSET Addrs]
        /\ \A r \in R : \A a : a \in aliases'[r] <=> (a \in aliases[r] \/ (a = x /\ RawAddr[x] = r /\ r # x))
    BY <1>2, <1>4
  <2> QED
    BY <1>1, <1>2, <2>1, <2>2 DEF x
<1>5. CASE /\ ~AliasAt(s, b) /\ HasOutbox(t)
           /\ aliases' = [aliases EXCEPT ![RawAddr[x]] = aliases[RawAddr[x]] \ {x}]
  <2>1. \A u \in Threads : G(u) <=> (H(u) /\ u # t)
    BY <1>1, <1>5, Zenon
  <2>2. /\ aliases' \in [R -> SUBSET Addrs]
        /\ \A r \in R : \A a : a \in aliases'[r] <=> (a \in aliases[r] /\ ~(a = x /\ RawAddr[x] = r))
    BY <1>2, <1>5
  <2> QED
    BY <1>0, <1>1, <1>2, <1>5, <2>1, <2>2 DEF x
<1> QED
  BY <1>3, <1>4, <1>5, <1>6, Zenon


\* A step that writes the registry as its worker's labels say.
LEMMA RegistryStep ==
    ASSUME SessionInv, NEW t \in Threads, NEW s \in Label, pc' = [pc EXCEPT ![t] = s],
           UNCHANGED <<addr, aborted, checked, active_sessions, owner>>,
           ~aborted[t], SlotAt(s), SlotAt(pc[t]), s \in LockSteps => pc[t] \in LockSteps, s # "t_release",
           \/ outboxes' = outboxes /\ (OutboxAt(s, FALSE) <=> HasOutbox(t))
           \/ outboxes' = outboxes \union {addr[t]} /\ OutboxAt(s, FALSE) /\ addr[t] \notin outboxes
           \/ outboxes' = outboxes \ {addr[t]} /\ ~OutboxAt(s, FALSE) /\ HasOutbox(t),
           \/ peers' = peers /\ (PeerAt(s, FALSE) <=> HasPeer(t))
           \/ peers' = peers \union {addr[t]} /\ PeerAt(s, FALSE) /\ pc[t] \in LockSteps
           \/ peers' = peers \ {addr[t]} /\ ~PeerAt(s, FALSE) /\ HasOutbox(t),
           \/ aliases' = aliases /\ (AliasAt(s, FALSE) <=> HasAlias(t))
           \/ /\ AliasAt(s, FALSE)
              /\ aliases' = [aliases EXCEPT ![RawAddr[addr[t]]] =
                               IF RawAddr[addr[t]] = addr[t] THEN @ ELSE @ \union {addr[t]}]
           \/ /\ ~AliasAt(s, FALSE) /\ HasOutbox(t)
              /\ aliases' = [aliases EXCEPT ![RawAddr[addr[t]]] = @ \ {addr[t]}]
    PROVE  SessionInv'
<1>1. Types /\ ThreadInv /\ OwnInv /\ SlotInv /\ SessionAssumption
  BY Zenon DEF SessionInv
<1>2. Move(t, s, FALSE)
  <2>1. Move(t, s, aborted[t]) /\ aborted[t] \in BOOLEAN
    BY <1>1, SameExit, Zenon
  <2>2. aborted[t] = FALSE
    BY <2>1
  <2> QED
    BY <2>1, <2>2, Zenon
<1>3. pc[t] # "idle" /\ s # "idle"
  BY Zenon DEF SlotAt
<1>4. addr[t] \in Addrs
  BY <1>3, RunningHasKey, Zenon
<1>5. /\ owner' \in [QuotaKeys -> Threads \union {None}]
      /\ s \in LockSteps => owner'[Key(t)] = t
      /\ \A u \in Threads : u # t /\ pc[u] \in LockSteps => owner'[Key(u)] = u
  BY LocksLeft, Zenon
<1>6. /\ \A a : a \in outboxes' <=> \E u \in Threads : HasOutbox(u)' /\ addr'[u] = a
      /\ \A u, v \in Threads : HasOutbox(u)' /\ HasOutbox(v)' /\ addr'[u] = addr'[v] => u = v
  BY <1>1, <1>2, OutboxesMove, Zenon
<1>7. \A a : a \in peers' <=> \E u \in Threads : HasPeer(u)' /\ addr'[u] = a
  BY <1>1, <1>2, PeersMove, Zenon
<1>8. /\ aliases' \in [{RawAddr[a] : a \in Addrs} -> SUBSET Addrs]
      /\ \A r \in {RawAddr[a] : a \in Addrs} : \A a :
           a \in aliases'[r] <=>
              \E u \in Threads : HasAlias(u)' /\ addr'[u] = a /\ RawAddr[a] = r /\ r # a
  BY <1>1, <1>2, <1>4, AliasesMove, Zenon
<1>9. OwnInv'
  BY <1>6, <1>7, <1>8, Zenon DEF OwnInv
<1>10. Types'
  BY <1>1, <1>2, <1>5, <1>8, TypesMove, Zenon
<1>11. \A u \in Threads : u # t /\ pc[u] = "t_release" => \A a \in peers' : QuotaKey[a] # Key(u)
  <2> SUFFICES ASSUME NEW u \in Threads, u # t, pc[u] = "t_release", NEW a \in peers'
               PROVE  QuotaKey[a] # Key(u)
    BY Zenon
  <2>1. pc[u] \in LockSteps
    BY DEF LockSteps
  <2>2. owner[Key(u)] = u /\ \A c \in peers : QuotaKey[c] # Key(u)
    BY <1>1, <2>1, Zenon DEF ThreadInv
  <2>3. CASE a \in peers
    BY <2>2, <2>3, Zenon
  <2>4. CASE a \notin peers
    <3>1. a = addr[t] /\ pc[t] \in LockSteps
      BY <2>4, Zenon
    <3>2. owner[Key(t)] = t
      BY <1>1, <3>1, Zenon DEF ThreadInv
    <3> QED
      BY <2>2, <3>1, <3>2, Zenon DEF Key
  <2> QED
    BY <2>3, <2>4, Zenon
<1>12. ThreadInv'
  BY <1>1, <1>2, <1>3, <1>5, <1>11, ThreadsMove, Zenon
<1>13. SlotInv'
  BY <1>1, <1>2, SlotMove, Zenon
<1>14. SessionAssumption'
  BY <1>1, Zenon DEF SessionAssumption, Addrs
<1> QED
  BY <1>9, <1>10, <1>12, <1>13, <1>14, Zenon DEF SessionInv

\* A worker that registers, or ends after it registered, has not left early.
LEMMA NotAborted ==
    ASSUME SessionInv, NEW t \in Threads,
           pc[t] \in {"outbox", "add", "alias", "t_remove", "t_alias", "t_outbox"}
    PROVE  ~aborted[t] /\ SlotAt(pc[t])
<1>1. pc[t] \notin AbortSteps /\ SlotAt(pc[t])
  BY DEF AbortSteps, SlotAt
<1> QED
  BY <1>1, Zenon DEF SessionInv, ThreadInv

\* RegisterOutbox: the worker enters an address nobody has, or leaves.
LEMMA RegisterOutboxKeeps ==
    ASSUME SessionInv, NEW t \in Threads, RegisterOutbox(t)
    PROVE  SessionInv'
<1>1. /\ UNCHANGED <<addr, aborted, checked, active_sessions, owner, peers, aliases>>
      /\ pc[t] = "outbox"
      /\ \/ pc' = [pc EXCEPT ![t] = "a_unlock"] /\ outboxes' = outboxes
         \/ /\ pc' = [pc EXCEPT ![t] = "add"] /\ outboxes' = outboxes \union {addr[t]}
            /\ addr[t] \notin outboxes
  BY Zenon DEF RegisterOutbox, Goto, locks
<1>2. ~aborted[t] /\ SlotAt(pc[t])
  BY <1>1, NotAborted, Zenon
<1>3. ~HasOutbox(t) /\ ~HasPeer(t) /\ ~HasAlias(t) /\ pc[t] \in LockSteps
  BY <1>1 DEF HasOutbox, HasPeer, HasAlias, OutboxAt, PeerAt, AliasAt, LockSteps
<1>4. /\ "add" \in Label /\ SlotAt("add") /\ OutboxAt("add", FALSE)
      /\ ~PeerAt("add", FALSE) /\ ~AliasAt("add", FALSE)
      /\ "a_unlock" \in Label /\ SlotAt("a_unlock") /\ ~OutboxAt("a_unlock", FALSE)
      /\ ~PeerAt("a_unlock", FALSE) /\ ~AliasAt("a_unlock", FALSE)
  BY DEF Label, SlotAt, OutboxAt, PeerAt, AliasAt
<1>5. CASE pc' = [pc EXCEPT ![t] = "a_unlock"] /\ outboxes' = outboxes
  BY <1>1, <1>2, <1>3, <1>4, <1>5, RegistryStep, Zenon
<1>6. CASE /\ pc' = [pc EXCEPT ![t] = "add"] /\ outboxes' = outboxes \union {addr[t]}
           /\ addr[t] \notin outboxes
  BY <1>1, <1>2, <1>3, <1>4, <1>6, RegistryStep, Zenon
<1> QED
  BY <1>1, <1>5, <1>6, Zenon

\* AddPeer: the worker shows its peer, or gives its outbox back; it has the lock
\* of its host, so nobody is about to release the quota of that host.
LEMMA AddPeerKeeps ==
    ASSUME SessionInv, NEW t \in Threads, AddPeer(t)
    PROVE  SessionInv'
<1>1. /\ UNCHANGED <<addr, aborted, checked, active_sessions, owner, aliases>>
      /\ pc[t] = "add"
      /\ \/ pc' = [pc EXCEPT ![t] = "a_unlock"] /\ outboxes' = outboxes \ {addr[t]} /\ peers' = peers
         \/ pc' = [pc EXCEPT ![t] = "unlock"] /\ outboxes' = outboxes /\ peers' = peers \union {addr[t]}
  BY Zenon DEF AddPeer, Goto, locks
<1>2. ~aborted[t] /\ SlotAt(pc[t])
  BY <1>1, NotAborted, Zenon
<1>3. HasOutbox(t) /\ ~HasPeer(t) /\ ~HasAlias(t) /\ pc[t] \in LockSteps
  BY <1>1 DEF HasOutbox, HasPeer, HasAlias, OutboxAt, PeerAt, AliasAt, LockSteps
<1>4. /\ "unlock" \in Label /\ SlotAt("unlock") /\ OutboxAt("unlock", FALSE)
      /\ PeerAt("unlock", FALSE) /\ ~AliasAt("unlock", FALSE)
      /\ "a_unlock" \in Label /\ SlotAt("a_unlock") /\ ~OutboxAt("a_unlock", FALSE)
      /\ ~PeerAt("a_unlock", FALSE) /\ ~AliasAt("a_unlock", FALSE)
  BY DEF Label, SlotAt, OutboxAt, PeerAt, AliasAt
<1>5. CASE pc' = [pc EXCEPT ![t] = "a_unlock"] /\ outboxes' = outboxes \ {addr[t]} /\ peers' = peers
  BY <1>1, <1>2, <1>3, <1>4, <1>5, RegistryStep, Zenon
<1>6. CASE pc' = [pc EXCEPT ![t] = "unlock"] /\ outboxes' = outboxes /\ peers' = peers \union {addr[t]}
  BY <1>1, <1>2, <1>3, <1>4, <1>6, RegistryStep, Zenon
<1> QED
  BY <1>1, <1>5, <1>6, Zenon

\* RegisterAlias: the worker names its peer by the socket's address too.
LEMMA RegisterAliasKeeps ==
    ASSUME SessionInv, NEW t \in Threads, RegisterAlias(t)
    PROVE  SessionInv'
<1>1. /\ UNCHANGED <<addr, aborted, checked, active_sessions, owner, outboxes, peers>>
      /\ pc[t] = "alias" /\ pc' = [pc EXCEPT ![t] = "finish"]
      /\ aliases' = [aliases EXCEPT ![RawAddr[addr[t]]] =
                       IF RawAddr[addr[t]] = addr[t] THEN @ ELSE @ \union {addr[t]}]
  BY Zenon DEF RegisterAlias, Step, Goto, locks
<1>2. ~aborted[t] /\ SlotAt(pc[t])
  BY <1>1, NotAborted, Zenon
<1>3. HasOutbox(t) /\ HasPeer(t)
  BY <1>1 DEF HasOutbox, HasPeer, OutboxAt, PeerAt
<1>4. /\ "finish" \in Label /\ SlotAt("finish") /\ OutboxAt("finish", FALSE)
      /\ PeerAt("finish", FALSE) /\ AliasAt("finish", FALSE) /\ "finish" \notin LockSteps
  BY DEF Label, SlotAt, OutboxAt, PeerAt, AliasAt, LockSteps
<1> QED
  BY <1>1, <1>2, <1>3, <1>4, RegistryStep, Zenon

\* RemovePeer, DropAlias and DropOutbox: the worker had what it takes out.
LEMMA RemovalsKeep ==
    ASSUME SessionInv, NEW t \in Threads, RemovePeer(t) \/ DropAlias(t) \/ DropOutbox(t)
    PROVE  SessionInv'
<1>1. UNCHANGED <<addr, aborted, checked, active_sessions, owner>>
  BY Zenon DEF RemovePeer, DropAlias, DropOutbox, locks
<1>2. CASE RemovePeer(t)
  <2>1. /\ UNCHANGED <<outboxes, aliases>> /\ peers' = peers \ {addr[t]}
        /\ pc[t] = "t_remove" /\ pc' = [pc EXCEPT ![t] = "t_close"]
    BY <1>2, Zenon DEF RemovePeer, Step, Goto
  <2>2. ~aborted[t] /\ SlotAt(pc[t])
    BY <2>1, NotAborted, Zenon
  <2>3. HasOutbox(t) /\ HasAlias(t) /\ pc[t] \in LockSteps
    BY <2>1, <2>2 DEF HasOutbox, HasAlias, OutboxAt, AliasAt, LockSteps
  <2>4. /\ "t_close" \in Label /\ SlotAt("t_close") /\ OutboxAt("t_close", FALSE)
        /\ ~PeerAt("t_close", FALSE) /\ AliasAt("t_close", FALSE)
    BY DEF Label, SlotAt, OutboxAt, PeerAt, AliasAt
  <2> QED
    BY <1>1, <2>1, <2>2, <2>3, <2>4, RegistryStep, Zenon
<1>3. CASE DropAlias(t)
  <2>1. /\ UNCHANGED <<outboxes, peers>> /\ aliases' = [aliases EXCEPT ![RawAddr[addr[t]]] = @ \ {addr[t]}]
        /\ pc[t] = "t_alias" /\ pc' = [pc EXCEPT ![t] = "t_outbox"]
    BY <1>3, Zenon DEF DropAlias, Step, Goto
  <2>2. ~aborted[t] /\ SlotAt(pc[t])
    BY <2>1, NotAborted, Zenon
  <2>3. HasOutbox(t) /\ ~HasPeer(t)
    BY <2>1, <2>2 DEF HasOutbox, HasPeer, OutboxAt, PeerAt
  <2>4. /\ "t_outbox" \in Label /\ SlotAt("t_outbox") /\ OutboxAt("t_outbox", FALSE)
        /\ ~PeerAt("t_outbox", FALSE) /\ ~AliasAt("t_outbox", FALSE) /\ "t_outbox" \notin LockSteps
    BY DEF Label, SlotAt, OutboxAt, PeerAt, AliasAt, LockSteps
  <2> QED
    BY <1>1, <2>1, <2>2, <2>3, <2>4, RegistryStep, Zenon
<1>4. CASE DropOutbox(t)
  <2>1. /\ UNCHANGED <<peers, aliases>> /\ outboxes' = outboxes \ {addr[t]}
        /\ pc[t] = "t_outbox" /\ pc' = [pc EXCEPT ![t] = "t_slot"]
    BY <1>4, Zenon DEF DropOutbox, Step, Goto
  <2>2. ~aborted[t] /\ SlotAt(pc[t])
    BY <2>1, NotAborted, Zenon
  <2>3. HasOutbox(t) /\ ~HasPeer(t) /\ ~HasAlias(t)
    BY <2>1, <2>2 DEF HasOutbox, HasPeer, HasAlias, OutboxAt, PeerAt, AliasAt
  <2>4. /\ "t_slot" \in Label /\ SlotAt("t_slot") /\ ~OutboxAt("t_slot", FALSE)
        /\ ~PeerAt("t_slot", FALSE) /\ ~AliasAt("t_slot", FALSE) /\ "t_slot" \notin LockSteps
    BY DEF Label, SlotAt, OutboxAt, PeerAt, AliasAt, LockSteps
  <2> QED
    BY <1>1, <2>1, <2>2, <2>3, <2>4, RegistryStep, Zenon
<1> QED
  BY <1>2, <1>3, <1>4, Zenon


-----------------------------------------------------------------------------
(* The steps that count slots. *)

\* The holders are finitely many, and those from outside are among them.
LEMMA HoldersAreFinite ==
    ASSUME SessionInv
    PROVE  /\ IsFiniteSet(Holders) /\ IsFiniteSet(InboundHolders)
           /\ Cardinality(Holders) \in Nat /\ Cardinality(InboundHolders) \in Nat
           /\ Cardinality(InboundHolders) <= Cardinality(Holders)
<1>1. IsFiniteSet(Threads)
  BY Zenon DEF SessionInv, SessionAssumption
<1>2. Holders \subseteq Threads /\ InboundHolders \subseteq Holders
  BY Zenon DEF Holders, InboundHolders
<1>3. IsFiniteSet(Holders)
  BY <1>1, <1>2, FS_Subset, Zenon
<1>4. IsFiniteSet(InboundHolders) /\ Cardinality(InboundHolders) <= Cardinality(Holders)
  BY <1>2, <1>3, FS_Subset, Zenon
<1>5. Cardinality(Holders) \in Nat /\ Cardinality(InboundHolders) \in Nat
  BY <1>3, <1>4, FS_CardinalityType, Zenon
<1> QED
  BY <1>3, <1>4, <1>5, Zenon

\* The slots a session may find taken when it takes one.
LEMMA SlotCaps ==
    ASSUME SessionAssumption, NEW t \in Threads
    PROVE  /\ slot_cap(t) \in Nat /\ InboundCap \in Nat /\ MaxPeers \in Nat
           /\ slot_cap(t) <= MaxPeers
           /\ addr[t] \notin Dialed => slot_cap(t) = InboundCap
           /\ MaxPeers > 1 => InboundCap < MaxPeers
BY DEF SessionAssumption, slot_cap, InboundCap, is_outbound

\* A worker that takes a slot is counted.
LEMMA SlotTaken ==
    ASSUME SessionInv, NEW t \in Threads, NEW s, NEW b, Move(t, s, b),
           ~SlotAt(pc[t]), SlotAt(s), active_sessions < slot_cap(t),
           active_sessions' = active_sessions + 1
    PROVE  SlotInv'
<1>1. Types /\ SessionAssumption /\ SlotInv
  BY Zenon DEF SessionInv
<1>2. /\ pc'[t] = s
      /\ \A u \in Threads : u # t => pc'[u] = pc[u]
      /\ \A u \in Threads : addr'[u] = addr[u]
  BY <1>1, Moved, Zenon
<1>3. Holders' = Holders \union {t} /\ t \notin Holders
  <2>1. Holders' = {u \in Threads : SlotAt(pc'[u])}
    BY Zenon DEF Holders, SlotAt
  <2> QED
    BY <1>2, <2>1 DEF Holders
<1>4. /\ addr[t] \in Dialed => InboundHolders' = InboundHolders
      /\ addr[t] \notin Dialed => InboundHolders' = InboundHolders \union {t}
      /\ t \notin InboundHolders
  <2>1. InboundHolders' = {u \in Threads : SlotAt(pc'[u]) /\ addr'[u] \notin Dialed}
    BY Zenon DEF InboundHolders, SlotAt
  <2> QED
    BY <1>2, <2>1 DEF InboundHolders
<1>5. /\ IsFiniteSet(Holders) /\ IsFiniteSet(InboundHolders)
      /\ Cardinality(Holders) \in Nat /\ Cardinality(InboundHolders) \in Nat
      /\ Cardinality(InboundHolders) <= Cardinality(Holders)
  BY HoldersAreFinite, Zenon
<1>6. Cardinality(Holders \union {t}) = Cardinality(Holders) + 1
  BY <1>3, <1>5, FS_AddElement, Zenon
<1>7. Cardinality(InboundHolders \union {t}) = Cardinality(InboundHolders) + 1
  BY <1>4, <1>5, FS_AddElement, Zenon
<1>8. /\ slot_cap(t) \in Nat /\ InboundCap \in Nat /\ MaxPeers \in Nat
      /\ slot_cap(t) <= MaxPeers
      /\ addr[t] \notin Dialed => slot_cap(t) = InboundCap
  BY <1>1, SlotCaps, Zenon
<1>9. /\ active_sessions = Cardinality(Holders) /\ active_sessions <= MaxPeers
      /\ Cardinality(InboundHolders) <= InboundCap
  BY <1>1, Zenon DEF SlotInv
<1>10. active_sessions' = Cardinality(Holders') /\ active_sessions' <= MaxPeers
  BY <1>3, <1>5, <1>6, <1>8, <1>9
<1>11. Cardinality(InboundHolders') <= InboundCap
  BY <1>4, <1>5, <1>7, <1>8, <1>9
<1>12. InboundCap' = InboundCap
  BY Zenon DEF InboundCap
<1> QED
  BY <1>10, <1>11, <1>12, Zenon DEF SlotInv

\* A worker that frees its slot is counted no more.
LEMMA SlotFreed ==
    ASSUME SessionInv, NEW t \in Threads, NEW s, NEW b, Move(t, s, b),
           SlotAt(pc[t]), ~SlotAt(s), active_sessions' = active_sessions - 1
    PROVE  SlotInv'
<1>1. Types /\ SessionAssumption /\ SlotInv
  BY Zenon DEF SessionInv
<1>2. /\ pc'[t] = s
      /\ \A u \in Threads : u # t => pc'[u] = pc[u]
      /\ \A u \in Threads : addr'[u] = addr[u]
  BY <1>1, Moved, Zenon
<1>3. Holders' = Holders \ {t} /\ t \in Holders
  <2>1. Holders' = {u \in Threads : SlotAt(pc'[u])}
    BY Zenon DEF Holders, SlotAt
  <2> QED
    BY <1>2, <2>1 DEF Holders
<1>4. InboundHolders' \subseteq InboundHolders
  <2>1. InboundHolders' = {u \in Threads : SlotAt(pc'[u]) /\ addr'[u] \notin Dialed}
    BY Zenon DEF InboundHolders, SlotAt
  <2> QED
    BY <1>2, <2>1 DEF InboundHolders
<1>5. /\ IsFiniteSet(Holders) /\ IsFiniteSet(InboundHolders)
      /\ Cardinality(Holders) \in Nat /\ Cardinality(InboundHolders) \in Nat
  BY HoldersAreFinite, Zenon
<1>6. Cardinality(Holders \ {t}) = Cardinality(Holders) - 1
  BY <1>3, <1>5, FS_RemoveElement, Zenon
<1>7. IsFiniteSet(InboundHolders') /\ Cardinality(InboundHolders') <= Cardinality(InboundHolders)
  BY <1>4, <1>5, FS_Subset, Zenon
<1>8. Cardinality(InboundHolders') \in Nat
  BY <1>7, FS_CardinalityType, Zenon
<1>9. /\ active_sessions = Cardinality(Holders) /\ active_sessions <= MaxPeers
      /\ Cardinality(InboundHolders) <= InboundCap
      /\ InboundCap \in Nat /\ MaxPeers \in Nat
  BY <1>1, SlotCaps, Zenon DEF SlotInv
<1>10. active_sessions' = Cardinality(Holders') /\ active_sessions' <= MaxPeers
  BY <1>3, <1>5, <1>6, <1>9
<1>11. Cardinality(InboundHolders') <= InboundCap
  BY <1>5, <1>7, <1>8, <1>9
<1>12. InboundCap' = InboundCap
  BY Zenon DEF InboundCap
<1> QED
  BY <1>10, <1>11, <1>12, Zenon DEF SlotInv

\* A step that takes or frees a slot, before or after all the rest.
LEMMA SlotStep ==
    ASSUME SessionInv, NEW t \in Threads, NEW s \in Label, pc' = [pc EXCEPT ![t] = s],
           UNCHANGED <<addr, aborted, checked, outboxes, peers, aliases, owner>>,
           \/ pc[t] = "handshake" /\ s = "acquire" /\ active_sessions < slot_cap(t)
                /\ active_sessions' = active_sessions + 1
           \/ pc[t] = "t_slot" /\ s = "unmark" /\ active_sessions' = active_sessions - 1
    PROVE  SessionInv'
<1>1. Types /\ ThreadInv /\ OwnInv /\ SlotInv /\ SessionAssumption
  BY Zenon DEF SessionInv
<1>2. Move(t, s, aborted[t]) /\ aborted[t] \in BOOLEAN
  BY <1>1, SameExit, Zenon
<1>3. /\ pc[t] # "idle" /\ s # "idle" /\ s # "t_release" /\ s \notin LockSteps
      /\ SlotAt(s) <=> ~SlotAt(pc[t])
      /\ SlotAt(s) <=> s = "acquire"
  BY DEF LockSteps, SlotAt
<1>4. ~OutboxAt(s, aborted[t]) /\ ~PeerAt(s, aborted[t]) /\ ~AliasAt(s, aborted[t])
  BY DEF OutboxAt, PeerAt, AliasAt
<1>5. ~HasOutbox(t) /\ ~HasPeer(t) /\ ~HasAlias(t)
  BY DEF HasOutbox, HasPeer, HasAlias, OutboxAt, PeerAt, AliasAt
<1>6. aborted[t] => s \in AbortSteps
  <2>1. aborted[t] => pc[t] \in AbortSteps
    BY <1>1, Zenon DEF ThreadInv
  <2> QED
    BY <2>1 DEF AbortSteps
<1>7. /\ owner' \in [QuotaKeys -> Threads \union {None}]
      /\ \A u \in Threads : u # t /\ pc[u] \in LockSteps => owner'[Key(u)] = u
  BY <1>3, LocksLeft, Zenon
<1>8. Types'
  <2>1. aliases' \in [{RawAddr[a] : a \in Addrs} -> SUBSET Addrs]
    BY <1>1, Zenon DEF Types
  <2> QED
    BY <1>1, <1>2, <1>7, <2>1, TypesMove, Zenon
<1>9. ThreadInv'
  <2>1. \A u \in Threads : u # t /\ pc[u] = "t_release" => \A a \in peers' : QuotaKey[a] # Key(u)
    BY <1>1, Zenon DEF ThreadInv
  <2> QED
    BY <1>1, <1>2, <1>3, <1>6, <1>7, <2>1, ThreadsMove, Zenon
<1>10. OwnInv'
  BY <1>1, <1>2, <1>4, <1>5, OwnMove, Zenon
<1>11. SlotInv'
  BY <1>2, <1>3, SlotTaken, SlotFreed, Zenon
<1>12. SessionAssumption'
  BY <1>1, Zenon DEF SessionAssumption, Addrs
<1> QED
  BY <1>8, <1>9, <1>10, <1>11, <1>12, Zenon DEF SessionInv

\* TakeSlot and DropSlot.
LEMMA SlotActionsKeep ==
    ASSUME SessionInv, NEW t \in Threads, TakeSlot(t) \/ DropSlot(t)
    PROVE  SessionInv'
<1>1. UNCHANGED <<addr, aborted, checked, outboxes, peers, aliases, owner>>
  BY Zenon DEF TakeSlot, DropSlot, registry, locks
<1>2. CASE /\ pc[t] = "handshake" /\ pc' = [pc EXCEPT ![t] = "unmark"]
           /\ active_sessions' = active_sessions
  <2>1. Plain(pc[t], "unmark", aborted[t])
    BY <1>2, Zenon DEF Plain
  <2>2. "unmark" \notin LockSteps /\ "unmark" # "t_release"
    BY DEF LockSteps
  <2> QED
    BY <1>1, <1>2, <2>1, <2>2, UnlockedStep, Zenon
<1>3. CASE /\ pc[t] = "handshake" /\ pc' = [pc EXCEPT ![t] = "acquire"]
           /\ active_sessions < slot_cap(t) /\ active_sessions' = active_sessions + 1
  <2>1. "acquire" \in Label
    BY DEF Label
  <2> QED
    BY <1>1, <1>3, <2>1, SlotStep, Zenon
<1>4. CASE DropSlot(t)
  <2>1. "unmark" \in Label
    BY DEF Label
  <2>2. /\ pc[t] = "t_slot" /\ pc' = [pc EXCEPT ![t] = "unmark"]
        /\ active_sessions' = active_sessions - 1
    BY <1>4, Zenon DEF DropSlot, Step, Goto
  <2> QED
    BY <1>1, <2>1, <2>2, SlotStep, Zenon
<1>5. CASE TakeSlot(t)
  <2>1. active_sessions \in Nat /\ slot_cap(t) \in Nat
    BY HoldersAreFinite, SlotCaps, Zenon DEF SessionInv, SlotInv
  <2>2. CASE active_sessions >= slot_cap(t)
    BY <1>2, <1>5, <2>2, Zenon DEF TakeSlot, Goto
  <2>3. CASE ~(active_sessions >= slot_cap(t))
    <3>1. active_sessions < slot_cap(t)
      BY <2>1, <2>3
    <3> QED
      BY <1>3, <1>5, <2>3, <3>1, Zenon DEF TakeSlot, Goto
  <2> QED
    BY <2>2, <2>3, Zenon
<1> QED
  BY <1>4, <1>5, Zenon


-----------------------------------------------------------------------------
(* A worker starts or ends; everything else. *)

\* A worker that has nothing takes an address or gives it back.
LEMMA AddressStep ==
    ASSUME SessionInv, NEW t \in Threads, NEW s, NEW x \in Addrs \union {None},
           pc[t] \in {"idle", "unmark"}, s \in {"idle", "handshake"}, x = None <=> s = "idle",
           pc' = [pc EXCEPT ![t] = s], addr' = [addr EXCEPT ![t] = x],
           aborted' = [aborted EXCEPT ![t] = FALSE], checked' \in Addrs \union {None},
           UNCHANGED <<outboxes, peers, aliases, active_sessions, owner>>
    PROVE  SessionInv'
<1>1. Types /\ ThreadInv /\ OwnInv /\ SlotInv /\ SessionAssumption
  BY Zenon DEF SessionInv
<1>2. /\ pc \in [Threads -> Label] /\ addr \in [Threads -> Addrs \union {None}]
      /\ aborted \in [Threads -> BOOLEAN]
  BY <1>1, Zenon DEF Types
<1>3. /\ pc'[t] = s /\ addr'[t] = x /\ aborted'[t] = FALSE
      /\ \A u \in Threads : u # t => pc'[u] = pc[u] /\ addr'[u] = addr[u] /\ aborted'[u] = aborted[u]
  BY <1>2, Zenon
<1>4. Types'
  <2>1. s \in Label
    BY DEF Label
  <2>2. pc' \in [Threads -> Label]
    BY <1>2, <2>1, Zenon
  <2>3. addr' \in [Threads -> Addrs \union {None}]
    BY <1>2, Zenon
  <2>4. aborted' \in [Threads -> BOOLEAN]
    BY <1>2, Zenon
  <2>5. owner' \in [QuotaKeys -> Threads \union {None}] /\ aliases' \in [{RawAddr[a] : a \in Addrs} -> SUBSET Addrs]
    BY <1>1, Zenon DEF Types
  <2> QED
    BY <2>2, <2>3, <2>4, <2>5, Zenon DEF Types
<1>5. \A p \in {"idle", "unmark", "handshake"} : \A b :
         /\ ~OutboxAt(p, b) /\ ~PeerAt(p, b) /\ ~AliasAt(p, b) /\ ~SlotAt(p)
         /\ p \notin LockSteps /\ p # "t_release"
  BY DEF OutboxAt, PeerAt, AliasAt, SlotAt, LockSteps
<1>6. ThreadInv'
  <2> SUFFICES ASSUME NEW u \in Threads
               PROVE  /\ addr'[u] = None <=> pc'[u] = "idle"
                      /\ aborted'[u] => pc'[u] \in AbortSteps
                      /\ pc'[u] \in LockSteps => owner'[Key(u)'] = u
                      /\ pc'[u] = "t_release" => \A a \in peers' : QuotaKey[a] # Key(u)'
    BY Zenon DEF ThreadInv
  <2>1. CASE u = t
    <3>1. s \notin LockSteps /\ s # "t_release"
      BY <1>5, Zenon
    <3> QED
      BY <1>3, <2>1, <3>1, Zenon
  <2>2. CASE u # t
    <3>1. Key(u)' = Key(u)
      BY <1>3, <2>2, Zenon DEF Key
    <3> QED
      BY <1>1, <1>3, <2>2, <3>1 DEF ThreadInv
  <2> QED
    BY <2>1, <2>2, Zenon
<1>7. /\ \A u \in Threads : (HasOutbox(u)' <=> HasOutbox(u) /\ u # t) /\ (HasOutbox(u) => u # t)
      /\ \A u \in Threads : (HasPeer(u)' <=> HasPeer(u) /\ u # t) /\ (HasPeer(u) => u # t)
      /\ \A u \in Threads : (HasAlias(u)' <=> HasAlias(u) /\ u # t) /\ (HasAlias(u) => u # t)
  <2> SUFFICES ASSUME NEW u \in Threads
               PROVE  /\ (OutboxAt(pc'[u], aborted'[u]) <=> OutboxAt(pc[u], aborted[u]) /\ u # t)
                      /\ (OutboxAt(pc[u], aborted[u]) => u # t)
                      /\ (PeerAt(pc'[u], aborted'[u]) <=> PeerAt(pc[u], aborted[u]) /\ u # t)
                      /\ (PeerAt(pc[u], aborted[u]) => u # t)
                      /\ (AliasAt(pc'[u], aborted'[u]) <=> AliasAt(pc[u], aborted[u]) /\ u # t)
                      /\ (AliasAt(pc[u], aborted[u]) => u # t)
    BY Zenon DEF HasOutbox, HasPeer, HasAlias
  <2>1. CASE u = t
    BY <1>3, <1>5, <2>1, Zenon
  <2>2. CASE u # t
    BY <1>3, <2>2, Zenon
  <2> QED
    BY <2>1, <2>2, Zenon
<1>8. OwnInv'
  <2>1. \A a : a \in outboxes' <=> \E u \in Threads : HasOutbox(u)' /\ addr'[u] = a
    BY <1>1, <1>3, <1>7 DEF OwnInv
  <2>2. \A a : a \in peers' <=> \E u \in Threads : HasPeer(u)' /\ addr'[u] = a
    BY <1>1, <1>3, <1>7 DEF OwnInv
  <2>3. \A u, v \in Threads : HasOutbox(u)' /\ HasOutbox(v)' /\ addr'[u] = addr'[v] => u = v
    BY <1>1, <1>3, <1>7 DEF OwnInv
  <2>4. \A r \in {RawAddr[a] : a \in Addrs} : \A a :
           a \in aliases'[r] <=>
              \E u \in Threads : HasAlias(u)' /\ addr'[u] = a /\ RawAddr[a] = r /\ r # a
    BY <1>1, <1>3, <1>7 DEF OwnInv
  <2> QED
    BY <2>1, <2>2, <2>3, <2>4, Zenon DEF OwnInv
<1>9. SlotInv'
  <2>1. Holders' = {u \in Threads : SlotAt(pc'[u])}
    BY Zenon DEF Holders, SlotAt
  <2>2. InboundHolders' = {u \in Threads : SlotAt(pc'[u]) /\ addr'[u] \notin Dialed}
    BY Zenon DEF InboundHolders, SlotAt
  <2>3. \A u \in Threads : /\ SlotAt(pc'[u]) <=> SlotAt(pc[u])
                           /\ SlotAt(pc[u]) => addr'[u] = addr[u]
    BY <1>3, <1>5
  <2>4. Holders' = Holders /\ InboundHolders' = InboundHolders
    BY <2>1, <2>2, <2>3 DEF Holders, InboundHolders
  <2>5. InboundCap' = InboundCap
    BY Zenon DEF InboundCap
  <2> QED
    BY <1>1, <2>4, <2>5, Zenon DEF SlotInv
<1>10. SessionAssumption'
  BY <1>1, Zenon DEF SessionAssumption, Addrs
<1> QED
  BY <1>4, <1>6, <1>8, <1>9, <1>10, Zenon DEF SessionInv

\* StartOutbound, Accept and EndWorker.
LEMMA WorkerStepsKeep ==
    ASSUME SessionInv, NEW t \in Threads,
           StartOutbound(t) \/ (\E a \in Inbound : Accept(t, a)) \/ EndWorker(t)
    PROVE  SessionInv'
<1>1. UNCHANGED <<outboxes, peers, aliases, active_sessions, owner>>
  BY Zenon DEF StartOutbound, Accept, EndWorker, registry, locks
<1>2. /\ checked \in Addrs \union {None} /\ None \notin Addrs /\ None \in Addrs \union {None}
      /\ aborted \in [Threads -> BOOLEAN] /\ Inbound \subseteq Addrs
  BY Zenon DEF SessionInv, SessionAssumption, Types, Addrs
<1>3. pc[t] = "idle" => [aborted EXCEPT ![t] = FALSE] = aborted
  <2> SUFFICES ASSUME pc[t] = "idle" PROVE [aborted EXCEPT ![t] = FALSE] = aborted
    BY Zenon
  <2>1. pc[t] \notin AbortSteps
    BY DEF AbortSteps
  <2>2. ~aborted[t]
    BY <2>1, Zenon DEF SessionInv, ThreadInv
  <2>3. aborted[t] = FALSE
    BY <1>2, <2>2
  <2> QED
    BY <1>2, <2>3, Zenon
<1>4. CASE StartOutbound(t)
  <2>1. /\ pc[t] = "idle" /\ pc' = [pc EXCEPT ![t] = "handshake"] /\ addr' = [addr EXCEPT ![t] = checked]
        /\ checked # None /\ checked' = None /\ aborted' = aborted
    BY <1>4, Zenon DEF StartOutbound
  <2>2. /\ aborted' = [aborted EXCEPT ![t] = FALSE] /\ checked' \in Addrs \union {None}
        /\ checked = None <=> "handshake" = "idle"
    BY <1>2, <1>3, <2>1
  <2> QED
    BY <1>1, <1>2, <2>1, <2>2, AddressStep, Zenon
<1>5. ASSUME NEW a \in Inbound, Accept(t, a) PROVE SessionInv'
  <2>1. /\ pc[t] = "idle" /\ pc' = [pc EXCEPT ![t] = "handshake"] /\ addr' = [addr EXCEPT ![t] = a]
        /\ checked' = checked /\ aborted' = aborted
    BY <1>5, Zenon DEF Accept
  <2>2. /\ aborted' = [aborted EXCEPT ![t] = FALSE] /\ checked' \in Addrs \union {None}
        /\ a \in Addrs \union {None} /\ (a = None <=> "handshake" = "idle")
    BY <1>2, <1>3, <2>1
  <2> QED
    BY <1>1, <2>1, <2>2, AddressStep, Zenon
<1>6. CASE EndWorker(t)
  <2>1. /\ pc[t] = "unmark" /\ pc' = [pc EXCEPT ![t] = "idle"] /\ addr' = [addr EXCEPT ![t] = None]
        /\ checked' = checked /\ aborted' = [aborted EXCEPT ![t] = FALSE]
    BY <1>6, Zenon DEF EndWorker, Step, Goto
  <2> QED
    BY <1>1, <1>2, <2>1, AddressStep, Zenon
<1> QED
  BY <1>4, <1>5, <1>6, Zenon

\* Steps that move no worker: CheckBootstrap, SkipOutbound, StageData and none.
LEMMA NobodyMoves ==
    ASSUME SessionInv,
           UNCHANGED <<pc, addr, aborted, outboxes, peers, aliases, active_sessions, owner>>,
           checked' \in Addrs \union {None}
    PROVE  SessionInv'
<1>1. Types'
  BY Zenon DEF SessionInv, Types
<1>2. ThreadInv'
  BY Zenon DEF SessionInv, ThreadInv, Key
<1>3. OwnInv'
  <2>1. \A u \in Threads : /\ HasOutbox(u)' <=> HasOutbox(u)
                           /\ HasPeer(u)' <=> HasPeer(u)
                           /\ HasAlias(u)' <=> HasAlias(u)
    BY Zenon DEF HasOutbox, HasPeer, HasAlias
  <2>2. OwnInv
    BY Zenon DEF SessionInv
  <2> QED
    BY <2>1, <2>2 DEF OwnInv
<1>4. SlotInv'
  BY Zenon DEF SessionInv, SlotInv, Holders, InboundHolders, InboundCap
<1>5. SessionAssumption'
  BY Zenon DEF SessionInv, SessionAssumption, Addrs
<1> QED
  BY <1>1, <1>2, <1>3, <1>4, <1>5, Zenon DEF SessionInv

\* No worker has anything at the start.
LEMMA NothingAtStart ==
    ASSUME SessionAssumption, Init
    PROVE  SessionInv
<1> USE DEF Init
<1>1. Types
  <2>1. "idle" \in Label
    BY DEF Label
  <2> QED
    BY <2>1 DEF Types
<1>2. ThreadInv
  BY DEF ThreadInv, LockSteps
<1>3. \A t \in Threads : ~HasOutbox(t) /\ ~HasPeer(t) /\ ~HasAlias(t) /\ ~SlotAt(pc[t])
  BY DEF HasOutbox, HasPeer, HasAlias, OutboxAt, PeerAt, AliasAt, SlotAt
<1>4. OwnInv
  BY <1>3, Zenon DEF OwnInv
<1>5. Holders = {} /\ InboundHolders = {}
  BY <1>3, Zenon DEF Holders, InboundHolders
<1>6. Cardinality({}) = 0
  BY FS_EmptySet, Zenon
<1>7. SlotInv
  BY <1>5, <1>6 DEF SlotInv, InboundCap, SessionAssumption
<1> QED
  BY <1>1, <1>2, <1>4, <1>7, Zenon DEF SessionInv

\* Every step keeps the invariant.
LEMMA SessionStep ==
    ASSUME SessionInv, [Next]_vars
    PROVE  SessionInv'
<1>1. checked \in Addrs \union {None} /\ Dialed \subseteq Addrs
  BY Zenon DEF SessionInv, Types, Addrs
<1>2. ASSUME NEW a \in Dialed, CheckBootstrap(a) PROVE SessionInv'
  <2>1. UNCHANGED <<pc, addr, aborted, outboxes, peers, aliases, active_sessions, owner>>
    BY <1>2, Zenon DEF CheckBootstrap, registry, locks
  <2>2. checked' \in Addrs \union {None}
    BY <1>1, <1>2, Zenon DEF CheckBootstrap
  <2> QED
    BY <2>1, <2>2, NobodyMoves, Zenon
<1>3. CASE SkipOutbound
  BY <1>3, NobodyMoves, Zenon DEF SkipOutbound, registry, locks
<1>4. ASSUME NEW t \in Threads, StageData(t) PROVE SessionInv'
  BY <1>1, <1>4, NobodyMoves, Zenon DEF StageData, registry, locks
<1>5. CASE UNCHANGED vars
  BY <1>1, <1>5, NobodyMoves, Zenon DEF vars
<1>6. ASSUME NEW t \in Threads, StartOutbound(t) \/ (\E a \in Inbound : Accept(t, a)) PROVE SessionInv'
  BY <1>6, WorkerStepsKeep, Zenon
<1>7. ASSUME NEW t \in Threads, HandshakeFails(t) \/ EndSession(t) PROVE SessionInv'
  BY <1>7, SimpleStepsKeep, Zenon
<1>8. ASSUME NEW t \in Threads, Advance(t) PROVE SessionInv'
  <2>1. CASE TakeSlot(t) \/ DropSlot(t)
    BY <2>1, SlotActionsKeep, Zenon
  <2>2. CASE AcquireHandle(t) \/ BeginClosing(t) \/ ReadActive(t)
    BY <2>2, BranchingStepsKeep, Zenon
  <2>3. CASE LockQuota(t)
    BY <2>3, LockQuotaKeeps, Zenon
  <2>4. CASE UnlockQuota(t)
    BY <2>4, UnlockQuotaKeeps, Zenon
  <2>5. CASE RegisterOutbox(t)
    BY <2>5, RegisterOutboxKeeps, Zenon
  <2>6. CASE AddPeer(t)
    BY <2>6, AddPeerKeeps, Zenon
  <2>7. CASE ClearMark(t) \/ ReleaseQuota(t) \/ EndClosing(t)
    BY <2>7, SimpleStepsKeep, Zenon
  <2>8. CASE RegisterAlias(t)
    BY <2>8, RegisterAliasKeeps, Zenon
  <2>9. CASE DropHandle(t)
    BY <2>9, DropHandleKeeps, Zenon
  <2>10. CASE RemovePeer(t) \/ DropAlias(t) \/ DropOutbox(t)
    BY <2>10, RemovalsKeep, Zenon
  <2>11. CASE EndWorker(t)
    BY <2>11, WorkerStepsKeep, Zenon
  <2> QED
    BY <1>8, <2>1, <2>2, <2>3, <2>4, <2>5, <2>6, <2>7, <2>8, <2>9, <2>10, <2>11, Zenon DEF Advance
<1> QED
  BY <1>2, <1>3, <1>4, <1>5, <1>6, <1>7, <1>8, Zenon DEF Next

-----------------------------------------------------------------------------
(* The theorems. *)

\* handle_peer and its guards keep the invariant, whatever the interleaving.
THEOREM SessionInvariance == SessionAssumption /\ Spec => []SessionInv
<1>1. SessionAssumption /\ Init => SessionInv
  BY NothingAtStart, Zenon
<1>2. SessionInv /\ [Next]_vars => SessionInv'
  BY SessionStep, Zenon
<1> QED
  BY <1>1, <1>2, PTL DEF Spec

\* Every peer in the table is that of one worker that holds a slot.
LEMMA PeersHoldSlots ==
    ASSUME SessionInv
    PROVE  Cardinality(peers) <= active_sessions
<1>1. IsFiniteSet(Holders) /\ active_sessions = Cardinality(Holders)
  BY HoldersAreFinite, Zenon DEF SessionInv, SlotInv
<1>2. \A t \in Threads : HasPeer(t) => SlotAt(pc[t])
  BY DEF HasPeer, PeerAt, SlotAt
<1> DEFINE f == [t \in Holders |-> addr[t]]
           I == {addr[t] : t \in Holders}
<1>3. f \in Surjection(Holders, I)
  BY Zenon DEF Surjection
<1>4. IsFiniteSet(I) /\ Cardinality(I) <= Cardinality(Holders)
  <2> HIDE DEF f, I
  <2> QED
    BY <1>1, <1>3, FS_Surjection, Zenon
<1>5. peers \subseteq I
  <2>1. \A a \in peers : \E t \in Threads : HasPeer(t) /\ addr[t] = a
    BY Zenon DEF SessionInv, OwnInv
  <2> QED
    BY <1>2, <2>1, Zenon DEF Holders
<1>6. IsFiniteSet(peers) /\ Cardinality(peers) <= Cardinality(I)
  <2> HIDE DEF I
  <2> QED
    BY <1>4, <1>5, FS_Subset, Zenon
<1>7. Cardinality(peers) \in Nat /\ Cardinality(I) \in Nat /\ Cardinality(Holders) \in Nat
  <2> HIDE DEF I
  <2> QED
    BY <1>1, <1>4, <1>6, FS_CardinalityType, Zenon
<1> HIDE DEF I
<1> QED
  BY <1>1, <1>4, <1>6, <1>7

\* try_acquire_session_slot and SessionSlotGuard count the sessions exactly: the
\* limit holds, accepted sessions leave room for dials, and every peer in the
\* table holds a slot.
THEOREM SlotsAlwaysExact == SessionAssumption /\ Spec => []SlotsAreExact
<1>1. SessionInv => SlotsAreExact
  <2> SUFFICES ASSUME SessionInv PROVE SlotsAreExact
    BY Zenon
  <2>1. {t \in Threads : HoldsSlot(t)} = Holders
    BY Zenon DEF Holders, SlotAt, HoldsSlot
  <2>2. {t \in Threads : HoldsSlot(t) /\ ~is_outbound(t)} = InboundHolders
    BY Zenon DEF InboundHolders, SlotAt, HoldsSlot, is_outbound
  <2>3. Cardinality(peers) <= active_sessions
    BY PeersHoldSlots, Zenon
  <2>4. MaxPeers > 1 => Cardinality(InboundHolders) < MaxPeers
    <3>1. Cardinality(InboundHolders) \in Nat /\ Cardinality(InboundHolders) <= InboundCap
      BY HoldersAreFinite, Zenon DEF SessionInv, SlotInv
    <3>2. InboundCap \in Nat /\ MaxPeers \in Nat /\ (MaxPeers > 1 => InboundCap < MaxPeers)
      BY DEF SessionInv, SessionAssumption, InboundCap
    <3> QED
      BY <3>1, <3>2
  <2>5. active_sessions = Cardinality(Holders) /\ active_sessions <= MaxPeers
    BY Zenon DEF SessionInv, SlotInv
  <2> QED
    BY <2>1, <2>2, <2>3, <2>4, <2>5, Zenon DEF SlotsAreExact
<1> QED
  BY <1>1, SessionInvariance, PTL

\* register_peer_outbox comes before add_peer and PeerOutboxGuard after PeerGuard,
\* so a broadcast finds an outbox for every peer it sees.
THEOREM BroadcastsMissNobody == SessionAssumption /\ Spec => []VisiblePeersHaveOutboxes
<1>1. SessionInv => VisiblePeersHaveOutboxes
  BY OutboxFirst, Zenon DEF SessionInv, OwnInv, VisiblePeersHaveOutboxes
<1> QED
  BY <1>1, SessionInvariance, PTL

\* A registered peer is found by its address and by its socket's address, also
\* while another session with the same socket address drops its alias.
THEOREM PeersStayKnown == SessionAssumption /\ Spec => []ConnectedPeersAreKnown
<1>1. SessionInv => ConnectedPeersAreKnown
  <2> SUFFICES ASSUME SessionInv, NEW t \in Threads, AliasRegistered(t)
               PROVE  is_connected_with_alias(addr[t]) /\ is_connected_with_alias(RawAddr[addr[t]])
    BY Zenon DEF ConnectedPeersAreKnown
  <2>1. HasPeer(t) /\ HasAlias(t) /\ pc[t] # "idle"
    BY DEF AliasRegistered, HasPeer, HasAlias, PeerAt, AliasAt
  <2>2. addr[t] \in peers /\ addr[t] \in Addrs
    BY <2>1, RunningHasKey, Zenon DEF SessionInv, OwnInv
  <2>3. RawAddr[addr[t]] # addr[t] => addr[t] \in aliases[RawAddr[addr[t]]]
    <3>1. \A r \in {RawAddr[a] : a \in Addrs} : \A a :
             (\E u \in Threads : HasAlias(u) /\ addr[u] = a /\ RawAddr[a] = r /\ r # a) => a \in aliases[r]
      BY Zenon DEF SessionInv, OwnInv
    <3>2. RawAddr[addr[t]] \in {RawAddr[a] : a \in Addrs}
      BY <2>2, Zenon
    <3> QED
      BY <2>1, <3>1, <3>2, Zenon
  <2>4. RawAddr[addr[t]] \in DOMAIN aliases
    BY <2>2, Zenon DEF SessionInv, Types
  <2> QED
    BY <2>2, <2>3, <2>4, Zenon DEF is_connected_with_alias
<1> QED
  BY <1>1, SessionInvariance, PTL

\* release_da_quota_if_inactive releases nothing of a host that has a peer: the
\* peer it did not see cannot register before the release is done.
THEOREM LiveQuotaStays == SessionAssumption /\ Spec => [][LiveQuotaIsNotReleased]_vars
<1>1. SessionInv /\ [Next]_vars => [LiveQuotaIsNotReleased]_vars
  <2> SUFFICES ASSUME SessionInv, Next, NEW k \in charged \ charged'
               PROVE  \A a \in peers : QuotaKey[a] # k
    BY Zenon DEF LiveQuotaIsNotReleased
  <2>1. charged' # charged /\ ~(charged \subseteq charged')
    BY Zenon
  <2>2. PICK t \in Threads : ReleaseQuota(t)
    <3>1. ASSUME NEW t \in Threads, Advance(t) PROVE charged' = charged \/ ReleaseQuota(t)
      BY <3>1, Zenon DEF Advance, TakeSlot, AcquireHandle, LockQuota, RegisterOutbox, AddPeer, UnlockQuota,
         ClearMark, RegisterAlias, DropHandle, RemovePeer, BeginClosing, ReadActive, EndClosing, DropAlias,
         DropOutbox, DropSlot, EndWorker
    <3>2. ASSUME NEW t \in Threads, HandshakeFails(t) \/ StageData(t) \/ EndSession(t)
          PROVE  charged \subseteq charged'
      BY <3>2, Zenon DEF HandshakeFails, StageData, EndSession
    <3>3. ASSUME NEW t \in Threads, NEW a \in Inbound, StartOutbound(t) \/ Accept(t, a)
          PROVE  charged' = charged
      BY <3>3, Zenon DEF StartOutbound, Accept
    <3>4. ASSUME NEW t \in Threads, StartOutbound(t) PROVE charged' = charged
      BY <3>4, Zenon DEF StartOutbound
    <3>5. SkipOutbound => charged' = charged
      BY Zenon DEF SkipOutbound
    <3>6. ASSUME NEW a \in Dialed, CheckBootstrap(a) PROVE charged' = charged
      BY <3>6, Zenon DEF CheckBootstrap
    <3> QED
      BY <2>1, <3>1, <3>2, <3>3, <3>4, <3>5, <3>6, Zenon DEF Next
  <2>3. k = Key(t) /\ pc[t] = "t_release"
    BY <2>2, Zenon DEF ReleaseQuota, Step
  <2> QED
    BY <2>3, Zenon DEF SessionInv, ThreadInv
<1> QED
  BY <1>1, SessionInvariance, PTL DEF Spec

=============================================================================
