-------------------------- MODULE SyncEngineProofs --------------------------
(***************************************************************************)
(* Proofs about SyncEngine, for every set of blocks, every block tree over *)
(* it and every value of the other constants: the inductive invariant, the *)
(* lemmas on sequences and valid chains it rests on, one lemma per step,   *)
(* and the theorems.                                                       *)
(***************************************************************************)
EXTENDS SyncEngine, SequenceTheorems, TLAPS

-----------------------------------------------------------------------------
(* The inductive invariant: what holds at each write of each operation. *)

ApplyStage == {"block", "header", "undo", "index"}

SaveStage == {"save", "rewind"}

DisconnectStage == {"disconnect_next", "truncate", "disconnect_save", "restore"}

ReorgStage == {"connect_next", "rollback_index", "rollback_save"}

Transition == ApplyStage \union SaveStage \union DisconnectStage \union ReorgStage

\* Which stages belong to which phase of the owner, and the latch.
PhaseInv ==
    /\ stage \in Transition <=> owner = "transition"
    /\ stage \in {"down", "boot_truncate", "boot_save"} => owner = "none"
    /\ stage # "idle" => ~persistence_fault
    /\ stage # "down" /\ ~persistence_fault => unsynced = Synced
    /\ owner = "open" => unsynced.file # "index"
    /\ stage \in {"side_block", "side_header"} <=> job.kind = "side"
    /\ stage \in ApplyStage \union SaveStage => job.kind \in {"apply", "reorg"}
    /\ stage \in DisconnectStage => job.kind \in {"disconnect", "reorg"}
    /\ stage \in ReorgStage => job.kind = "reorg"
    /\ stage \in {"down", "boot_truncate", "boot_save", "idle"} => job = NoJob
    /\ stage \in {"boot_truncate", "boot_save"} => canonical = disk_index

\* An open owner: one chain in memory and on disk.
OpenInv ==
    owner = "open" =>
        /\ chain_state = canonical
        /\ canonical = disk_index
        /\ stable_tip = Tip(chain_state)
        /\ tip_timestamp = Tip(chain_state)

\* A block connected in memory and not yet on the index.
ApplyInv ==
    stage \in ApplyStage =>
        /\ canonical = job.snapshot
        /\ disk_index = job.snapshot
        /\ chain_state = Append(job.snapshot, job.block)
        /\ job.block \in Block
        /\ job.len_before = Len(job.snapshot)

\* A block on the index whose snapshot is being written or taken back.
SaveInv ==
    stage \in SaveStage =>
        /\ canonical = chain_state
        /\ disk_index = chain_state
        /\ chain_state = Append(job.snapshot, job.block)
        /\ job.block \in Block
        /\ job.len_before = Len(job.snapshot)

\* A block taken off the chain state, then off the index.
DisconnectInv ==
    /\ stage \in {"disconnect_next", "connect_next", "rollback_save"} =>
        /\ canonical = chain_state
        /\ disk_index = chain_state
        /\ tip_timestamp = Tip(chain_state)
    /\ stage \in {"truncate", "disconnect_save", "restore"} =>
        /\ job.snapshot # <<>>
        /\ chain_state = Front(job.snapshot)
        /\ canonical = disk_index
        /\ canonical = IF stage = "truncate" THEN job.snapshot ELSE chain_state
        /\ tip_timestamp = Tip(job.snapshot)
        /\ job.len_before = Len(job.snapshot)

\* What the transition started from, and that a reorg can return to it.
OldInv ==
    owner = "transition" =>
        /\ stable_tip = Tip(job.old)
        /\ job.old_timestamp = Tip(job.old)
        /\ job.kind = "apply" => job.snapshot = job.old /\ tip_timestamp = Tip(job.old)
        /\ stage = "rollback_save" => chain_state = job.old
        /\ job.kind = "disconnect" =>
             IF stage = "disconnect_next"
             THEN \/ job.disconnects = 1 /\ chain_state = job.old /\ job.old # <<>>
                  \/ job.disconnects = 0 /\ chain_state = Front(job.old) /\ job.old # <<>>
             ELSE job.disconnects = 0 /\ job.snapshot = job.old

\* A reorg works above its base only, and holds the suffix it removed.
ReorgInv ==
    job.kind = "reorg" =>
        /\ disk_index = canonical
        /\ job.base <= Len(canonical)
        /\ job.base <= Len(job.old)
        /\ \A i \in 1..job.base : canonical[i] = job.old[i]
        /\ job.suffix = SubSeq(job.old, job.base + 1, Len(job.old))
        /\ stage \in {"disconnect_next", "disconnect_save"} =>
             Len(canonical) = job.base + job.disconnects
        /\ stage = "truncate" => Len(canonical) = job.base + job.disconnects + 1
        /\ stage \in ApplyStage \union SaveStage => job.base <= job.len_before

\* A valid chain from the genesis block.
Good(s) ==
    /\ s # <<>> => s = Chain[Tip(s)]
    /\ \A i \in 1..Len(s) : s[i] \notin Invalid

\* Every chain in memory and in every crash image is a valid chain.
GoodInv ==
    /\ Good(disk_index)
    /\ Good(disk_state)
    /\ Good(chain_state)
    /\ Good(canonical)
    /\ unsynced.file \in {"index", "state"} => Good(unsynced.prior)
    /\ Good(job.old)
    /\ Good(job.snapshot)

\* The branch still to be connected hangs together and hangs on the chain.
BranchInv ==
    /\ \A i \in 1..Len(job.connects) : job.connects[i] \notin Invalid
    /\ \A i \in 2..Len(job.connects) : Parent(job.connects[i]) = job.connects[i - 1]
    /\ job.connects # <<>> =>
         /\ stage \in DisconnectStage =>
              job.base > 0 /\ job.base <= Len(job.old) /\ Parent(job.connects[1]) = job.old[job.base]
         /\ stage = "connect_next" => Parent(job.connects[1]) = Tip(chain_state)
         /\ stage \in ApplyStage \union SaveStage => Parent(job.connects[1]) = job.block

\* The locals of a side write.
SideInv ==
    stage \in {"side_block", "side_header"} =>
        job.block \in Block /\ job = [NoJob EXCEPT !.kind = "side", !.block = job.block]

\* The inductive invariant.
IInv ==
    /\ TypeOK
    /\ PhaseInv
    /\ OpenInv
    /\ ApplyInv
    /\ SaveInv
    /\ DisconnectInv
    /\ OldInv
    /\ ReorgInv
    /\ GoodInv
    /\ BranchInv
    /\ SideInv

-----------------------------------------------------------------------------
(* Sequences of blocks. *)

\* A prefix of a chain is a chain and agrees with it row by row.
LEMMA PrefixType ==
    ASSUME NEW s \in Seq(Block), NEW n \in Int, n <= Len(s)
    PROVE  /\ SubSeq(s, 1, n) \in Seq(Block)
           /\ n >= 0 => Len(SubSeq(s, 1, n)) = n
           /\ \A i \in 1..n : SubSeq(s, 1, n)[i] = s[i]
OBVIOUS

\* A prefix of the whole length is the chain.
LEMMA PrefixWhole ==
    ASSUME NEW s \in Seq(Block)
    PROVE  SubSeq(s, 1, Len(s)) = s
OBVIOUS

\* The blocks of a chain above its n-th.
LEMMA BranchFacts ==
    ASSUME NEW s \in Seq(Block), NEW n \in 1..(Len(s) - 1)
    PROVE  /\ SubSeq(s, n + 1, Len(s)) \in Seq(Block)
           /\ Len(SubSeq(s, n + 1, Len(s))) = Len(s) - n
           /\ \A i \in 1..(Len(s) - n) : SubSeq(s, n + 1, Len(s))[i] = s[n + i]
OBVIOUS

\* The tip of a chain is a block, or none.
LEMMA TipType ==
    ASSUME NEW s \in Seq(Block)
    PROVE  Tip(s) \in Block \union {NoBlock}
BY DEF Tip

\* Appending a block and removing it again.
LEMMA AppendFacts ==
    ASSUME NEW s \in Seq(Block), NEW b \in Block
    PROVE  /\ Append(s, b) \in Seq(Block)
           /\ Append(s, b) # <<>>
           /\ Append(s, b) # s
           /\ Len(Append(s, b)) = Len(s) + 1
           /\ Tip(Append(s, b)) = b
           /\ SubSeq(Append(s, b), 1, Len(s)) = s
BY DEF Tip

\* Removing the tip and appending it again.
LEMMA FrontFacts ==
    ASSUME NEW s \in Seq(Block), s # <<>>
    PROVE  /\ Front(s) \in Seq(Block)
           /\ Len(s) \in Nat \ {0}
           /\ Len(Front(s)) = Len(s) - 1
           /\ Front(s) # s
           /\ Tip(s) \in Block
           /\ Front(s) \o <<Tip(s)>> = s
           /\ Append(Front(s), Tip(s)) = s
BY DEF Front, Tip

\* rollback_canonical gives back the chain a reorg started from.
LEMMA RollbackFacts ==
    ASSUME NEW s \in Seq(Block), NEW t \in Seq(Block), NEW n \in Nat,
           n <= Len(s), n <= Len(t), \A i \in 1..n : s[i] = t[i]
    PROVE  SubSeq(s, 1, n) \o SubSeq(t, n + 1, Len(t)) = t
<1> DEFINE u == SubSeq(s, 1, n)
           v == SubSeq(t, n + 1, Len(t))
<1>1. /\ u \in Seq(Block) /\ Len(u) = n
      /\ \A i \in 1..n : u[i] = s[i]
  OBVIOUS
<1>2. /\ v \in Seq(Block) /\ Len(v) = Len(t) - n
      /\ \A i \in 1..Len(v) : v[i] = t[n + i]
  OBVIOUS
<1> HIDE DEF u, v
<1>3. /\ u \o v \in Seq(Block)
      /\ Len(u \o v) = Len(t)
      /\ \A i \in 1..Len(t) : (u \o v)[i] = IF i <= n THEN u[i] ELSE v[i - n]
  BY <1>1, <1>2, ConcatProperties
<1>4. ASSUME NEW i \in 1..Len(t) PROVE (u \o v)[i] = t[i]
  <2>1. CASE i <= n
    BY <1>1, <1>3, <2>1
  <2>2. CASE i > n
    <3>1. i - n \in 1..Len(v) /\ n + (i - n) = i
      BY <1>2, <2>2
    <3> QED
      BY <1>2, <1>3, <2>2, <3>1
  <2>3. i <= n \/ i > n
    OBVIOUS
  <2> QED
    BY <2>1, <2>2, <2>3, Zenon
<1>5. u \o v = t
  BY <1>3, <1>4, SeqEqual, Zenon
<1> QED
  BY <1>5, Zenon DEF u, v

-----------------------------------------------------------------------------
(* Valid chains. *)

\* The empty locals of an idle engine are well typed (capture_reorg_rollback_state).
LEMMA NoJobType == NoJob \in Job
BY DEF NoJob, Job

\* The chain of an empty store is a valid chain (ChainState::new).
LEMMA GoodEmpty == Good(<<>>)
BY DEF Good

\* Chain[b] and what its assumption says of the rows below b.
LEMMA ChainFacts ==
    ASSUME NEW b \in Block
    PROVE  /\ Chain[b] \in Seq(Block)
           /\ Len(Chain[b]) \in Nat \ {0}
           /\ Chain[b][Len(Chain[b])] = b
           /\ \A i \in 1..Len(Chain[b]) : Chain[b][i] \in Block /\ Chain[Chain[b][i]] = SubSeq(Chain[b], 1, i)
<1>1. Chain[b] \in Seq(Block) /\ Len(Chain[b]) > 0 /\ Tip(Chain[b]) = b
  BY ChainAssumption, Zenon
<1>2. Chain[b] # <<>> /\ Len(Chain[b]) \in Nat \ {0}
  BY <1>1
<1>3. Chain[b][Len(Chain[b])] = b
  BY <1>1, <1>2, Zenon DEF Tip
<1>4. \A i \in 1..Len(Chain[b]) : Chain[b][i] \in Block
  BY <1>1
<1>5. \A i \in 1..Len(Chain[b]) : Chain[Chain[b][i]] = SubSeq(Chain[b], 1, i)
  BY ChainAssumption, Zenon
<1> QED
  BY <1>1, <1>2, <1>3, <1>4, <1>5, Zenon

\* Every prefix of a valid chain is a valid chain.
LEMMA GoodPrefix ==
    ASSUME NEW s \in Seq(Block), Good(s), NEW n \in Nat, n <= Len(s)
    PROVE  Good(SubSeq(s, 1, n))
<1> DEFINE p == SubSeq(s, 1, n)
<1>1. p \in Seq(Block) /\ Len(p) = n /\ \A i \in 1..n : p[i] = s[i]
  BY PrefixType
<1>2. \A i \in 1..Len(p) : p[i] \notin Invalid
  BY <1>1 DEF Good
<1>3. ASSUME p # <<>> PROVE p = Chain[Tip(p)]
  <2>1. n \in 1..Len(s) /\ s # <<>>
    BY <1>1, <1>3
  <2>2. Tip(p) = s[n]
    BY <1>1, <1>3, <2>1 DEF Tip
  <2>3. Tip(s) \in Block /\ s = Chain[Tip(s)]
    BY <2>1, FrontFacts, Zenon DEF Good
  <2>4. Chain[s[n]] = SubSeq(s, 1, n)
    BY <2>1, <2>3, ChainFacts, Zenon
  <2> QED
    BY <2>2, <2>4, Zenon
<1> QED
  BY <1>2, <1>3, Zenon DEF Good

\* A valid chain without its tip.
LEMMA GoodFront ==
    ASSUME NEW s \in Seq(Block), Good(s), s # <<>>
    PROVE  Good(Front(s))
<1>1. Len(s) - 1 \in Nat /\ Len(s) - 1 <= Len(s)
  BY FrontFacts
<1> QED
  BY <1>1, GoodPrefix, Zenon DEF Front

\* A valid chain with a valid child of its tip.
LEMMA GoodAppend ==
    ASSUME NEW s \in Seq(Block), Good(s), NEW b \in Block, Parent(b) = Tip(s), b \notin Invalid
    PROVE  Good(Append(s, b))
<1> DEFINE c == Chain[b]
           f == Front(c)
<1>1. c \in Seq(Block) /\ c # <<>> /\ Tip(c) = b
  BY ChainAssumption
<1>2. f \in Seq(Block) /\ Append(f, b) = c /\ Len(f) = Len(c) - 1
  BY <1>1, FrontFacts, Zenon
<1>3. Tip(f) = Tip(s)
  BY Zenon DEF Parent
<1>4. f = s
  <2>1. CASE s = <<>>
    <3>1. Tip(f) = NoBlock
      BY <1>3, <2>1, Zenon DEF Tip
    <3>2. f = <<>>
      BY <1>2, <3>1, FrontFacts, ChainAssumption, Zenon
    <3> QED
      BY <2>1, <3>2, Zenon
  <2>2. CASE s # <<>>
    <3>1. Tip(s) \in Block /\ s = Chain[Tip(s)]
      BY <2>2, FrontFacts, Zenon DEF Good
    <3>2. f # <<>>
      BY <1>3, <3>1, ChainAssumption, Zenon DEF Tip
    <3>3. Tip(f) = c[Len(c) - 1] /\ Len(c) - 1 \in 1..Len(c)
      BY <1>1, <1>2, <3>2 DEF Front, Tip
    <3>4. Chain[c[Len(c) - 1]] = SubSeq(c, 1, Len(c) - 1)
      BY <3>3, ChainFacts, Zenon
    <3> QED
      BY <1>3, <3>1, <3>3, <3>4, Zenon DEF Front
  <2> QED
    BY <2>1, <2>2, Zenon
<1> HIDE DEF c, f
<1>5. Append(s, b) = Chain[b]
  BY <1>2, <1>4, Zenon DEF c
<1>6. /\ Tip(Append(s, b)) = b
      /\ \A i \in 1..Len(Append(s, b)) : Append(s, b)[i] = IF i <= Len(s) THEN s[i] ELSE b
  BY AppendFacts
<1>7. \A i \in 1..Len(Append(s, b)) : Append(s, b)[i] \notin Invalid
  BY <1>6 DEF Good
<1> QED
  BY <1>5, <1>6, <1>7, Zenon DEF Good

\* A snapshot whose tip stands on the index at its own height is a prefix of it.
LEMMA GoodAgree ==
    ASSUME NEW s \in Seq(Block), NEW t \in Seq(Block), Good(s), Good(t), s # <<>>,
           Len(s) <= Len(t), t[Len(s)] = Tip(s)
    PROVE  SubSeq(t, 1, Len(s)) = s
<1>1. Len(s) \in 1..Len(t) /\ t # <<>>
  BY FrontFacts
<1>2. /\ Tip(s) \in Block /\ s = Chain[Tip(s)]
      /\ Tip(t) \in Block /\ t = Chain[Tip(t)]
  BY <1>1, FrontFacts, Zenon DEF Good
<1>3. Chain[t[Len(s)]] = SubSeq(t, 1, Len(s))
  BY <1>1, <1>2, ChainFacts, Zenon
<1> QED
  BY <1>2, <1>3, Zenon

-----------------------------------------------------------------------------
(* Every step preserves the inductive invariant. *)

\* Lemma for a step that ends an operation: the engine is idle again.
LEMMA Ended ==
    ASSUME TypeOK', stage' = "idle", job' = NoJob, owner' \in {"open", "unavailable"},
           ~persistence_fault' => unsynced' = Synced,
           Good(disk_index'), Good(disk_state'), Good(chain_state'), Good(canonical'),
           unsynced'.file \in {"index", "state"} => Good(unsynced'.prior),
           owner' = "open" =>
               /\ unsynced'.file # "index"
               /\ chain_state' = canonical'
               /\ canonical' = disk_index'
               /\ stable_tip' = Tip(chain_state')
               /\ tip_timestamp' = Tip(chain_state')
    PROVE  IInv'
<1>1. PhaseInv'
  BY Zenon DEF PhaseInv, Transition, ApplyStage, SaveStage, DisconnectStage, ReorgStage, NoJob
<1>2. OpenInv'
  BY Zenon DEF OpenInv
<1>3. ApplyInv' /\ SaveInv' /\ DisconnectInv' /\ OldInv' /\ ReorgInv'
  BY Zenon DEF ApplyInv, SaveInv, DisconnectInv, OldInv, ReorgInv, ApplyStage, SaveStage, NoJob
<1>4. GoodInv'
  BY GoodEmpty, Zenon DEF GoodInv, NoJob
<1>5. BranchInv'
  BY DEF BranchInv, NoJob
<1> QED
  BY <1>1, <1>2, <1>3, <1>4, <1>5, Zenon DEF IInv, SideInv

\* Lemma for a step whose error return sends a reorg into its rollback.
LEMMA RollbackEntered ==
    ASSUME IInv, TypeOK', job.kind = "reorg", owner = "transition",
           stage' = "rollback_index", UNCHANGED <<owner, stable_tip, job>>,
           ~persistence_fault', unsynced' = Synced,
           disk_index' = canonical', Good(disk_index'), Good(disk_state'), Good(chain_state'),
           job.base <= Len(canonical'), \A i \in 1..job.base : canonical'[i] = job.old[i]
    PROVE  IInv'
<1>1. PhaseInv'
  BY Zenon DEF IInv, PhaseInv, Transition, ApplyStage, SaveStage, DisconnectStage, ReorgStage, Synced
<1>2. OpenInv' /\ ApplyInv' /\ SaveInv' /\ DisconnectInv'
  BY Zenon DEF OpenInv, ApplyInv, SaveInv, DisconnectInv, ApplyStage, SaveStage
<1>3. OldInv'
  BY Zenon DEF IInv, OldInv
<1>4. ReorgInv'
  BY Zenon DEF IInv, ReorgInv, ApplyStage, SaveStage
<1>5. GoodInv'
  BY Zenon DEF IInv, GoodInv, Synced
<1>6. BranchInv'
  BY Zenon DEF IInv, BranchInv, ApplyStage, SaveStage, DisconnectStage
<1> QED
  BY <1>1, <1>2, <1>3, <1>4, <1>5, <1>6, Zenon DEF IInv, SideInv

\* The error return of an apply or a disconnect (Fail): a reorg goes on to its
\* rollback, everything else ends, and admission reopens at the old tip only.
LEMMA Failed ==
    ASSUME IInv, TypeOK', owner = "transition", NEW p \in BOOLEAN, Fail(p),
           Good(disk_index'), Good(disk_state'), Good(chain_state'), Good(canonical'),
           unsynced'.file \in {"index", "state"} => Good(unsynced'.prior),
           ~persistence_fault' =>
               /\ unsynced' = Synced
               /\ disk_index' = canonical'
               /\ job.kind = "reorg" =>
                    /\ job.base <= Len(canonical')
                    /\ \A i \in 1..job.base : canonical'[i] = job.old[i],
           p /\ ~persistence_fault' /\ job.kind # "reorg" /\ chain_state' = job.old =>
               /\ canonical' = chain_state'
               /\ tip_timestamp' = Tip(chain_state')
    PROVE  IInv'
<1>1. CASE job.kind = "reorg" /\ ~persistence_fault'
  <2>1. stage' = "rollback_index" /\ UNCHANGED <<owner, stable_tip, job>>
    BY <1>1, Zenon DEF Fail
  <2> QED
    BY <1>1, <2>1, RollbackEntered, Zenon
<1>2. CASE ~(job.kind = "reorg" /\ ~persistence_fault')
  <2>1. finish_failure(p)
    BY <1>2, Zenon DEF Fail
  <2>2. /\ stage' = "idle" /\ job' = NoJob /\ owner' \in {"open", "unavailable"}
        /\ stable_tip' = stable_tip
        /\ owner' = "open" => p /\ ~persistence_fault' /\ chain_state' = job.old
    BY <2>1, Zenon DEF finish_failure
  <2>3. ASSUME owner' = "open"
        PROVE  /\ unsynced'.file # "index"
               /\ chain_state' = canonical'
               /\ canonical' = disk_index'
               /\ stable_tip' = Tip(chain_state')
               /\ tip_timestamp' = Tip(chain_state')
    BY <1>2, <2>2, <2>3, SMTT(60) DEF IInv, OldInv, Synced
  <2> QED
    BY <2>2, <2>3, Ended, Zenon
<1> QED
  BY <1>1, <1>2, Zenon

\* The error of a block, header or undo write, or of an index write that did
\* not reach the disk.
LEMMA ArtifactErrorStep ==
    ASSUME IInv, stage \in ApplyStage, NEW r \in {"before", "after"}, ArtifactError(r),
           blocks' \subseteq Block, headers' \subseteq Block, undos' \subseteq Block,
           unsynced' \in Commit, unsynced'.file \notin {"index", "state"},
           r = "before" => unsynced' = Synced,
           UNCHANGED <<disk_index, disk_state, lost, canonical, tip_timestamp>>
    PROVE  IInv'
<1>1. /\ chain_state' = job.snapshot
      /\ persistence_fault' = (r = "after")
      /\ reload_error' = reload_error
      /\ Fail(r = "before")
      /\ owner = "transition"
  BY Zenon DEF IInv, PhaseInv, Transition, ApplyStage, ArtifactError, handle_persistence_error
<1>2. TypeOK'
  BY <1>1, NoJobType, Zenon DEF IInv, TypeOK, Fail, finish_failure, Stage, Owner, Job
<1>3. /\ Good(disk_index') /\ Good(disk_state') /\ Good(chain_state') /\ Good(canonical')
      /\ disk_index' = canonical' /\ canonical' = chain_state'
  BY <1>1, Zenon DEF IInv, GoodInv, ApplyInv
<1>4. job.kind = "reorg" => /\ job.base <= Len(canonical')
                           /\ \A i \in 1..job.base : canonical'[i] = job.old[i]
  BY Zenon DEF IInv, ReorgInv
<1>5. job.kind # "reorg" => tip_timestamp' = Tip(job.old) /\ chain_state' = job.old
  BY <1>1, Zenon DEF IInv, OldInv, PhaseInv
<1>6. (r = "before") \in BOOLEAN
  BY Zenon
<1> QED
  BY <1>1, <1>2, <1>3, <1>4, <1>5, <1>6, Failed, Zenon

\* A block, header or undo written: the apply goes on to its next write.
LEMMA ArtifactStoredStep ==
    ASSUME IInv, stage \in ApplyStage, NEW next \in ApplyStage, ArtifactStored(next),
           blocks' \subseteq Block, headers' \subseteq Block, undos' \subseteq Block,
           unsynced' = Synced,
           UNCHANGED <<disk_index, disk_state, lost, canonical, tip_timestamp>>
    PROVE  IInv'
<1>1. TypeOK'
  BY DEF IInv, TypeOK, ArtifactStored, ApplyStage, Stage, Commit, Synced
<1>2. PhaseInv' /\ OpenInv'
  BY Zenon DEF IInv, PhaseInv, OpenInv, ArtifactStored, Transition, ApplyStage, SaveStage,
         DisconnectStage, ReorgStage, Synced
<1>3. ApplyInv' /\ SaveInv' /\ DisconnectInv' /\ OldInv'
  BY Zenon DEF IInv, ApplyInv, SaveInv, DisconnectInv, OldInv, ArtifactStored, ApplyStage,
     SaveStage
<1>4. ReorgInv' /\ GoodInv' /\ BranchInv'
  BY Zenon DEF IInv, ReorgInv, GoodInv, BranchInv, ArtifactStored, ApplyStage, SaveStage,
         DisconnectStage, Synced
<1> QED
  BY <1>1, <1>2, <1>3, <1>4, Zenon DEF IInv, SideInv, ArtifactStored, ApplyStage

\* WriteBlock preserves the invariant.
LEMMA WriteBlockStep ==
    ASSUME IInv, WriteBlock
    PROVE  IInv'
<1>1. PICK r \in Outcome :
         /\ blocks' = Created(r, blocks, job.block)
         /\ write_file_if_absent(r, "block", blocks, job.block)
         /\ IF r = "ok" THEN ArtifactStored("header") ELSE ArtifactError(r)
  BY Zenon DEF WriteBlock
<1>2. /\ blocks' \subseteq Block /\ headers' \subseteq Block /\ undos' \subseteq Block
      /\ unsynced' \in Commit /\ unsynced'.file \notin {"index", "state"}
      /\ r # "after" => unsynced' = Synced
      /\ UNCHANGED <<disk_index, disk_state, lost, canonical, tip_timestamp>>
      /\ stage \in ApplyStage /\ "header" \in ApplyStage
  BY <1>1 DEF IInv, TypeOK, PhaseInv, WriteBlock, ApplyInv, ApplyStage, Created,
              write_file_if_absent, Commit, Synced
<1>3. CASE r = "ok"
  BY <1>1, <1>2, <1>3, ArtifactStoredStep, Zenon
<1>4. CASE r # "ok"
  BY <1>1, <1>2, <1>4, ArtifactErrorStep, Zenon DEF Outcome
<1> QED
  BY <1>3, <1>4, Zenon

\* WriteHeader preserves the invariant.
LEMMA WriteHeaderStep ==
    ASSUME IInv, WriteHeader
    PROVE  IInv'
<1>1. PICK r \in Outcome :
         /\ headers' = Created(r, headers, job.block)
         /\ write_file_if_absent(r, "header", headers, job.block)
         /\ IF r = "ok" THEN ArtifactStored("undo") ELSE ArtifactError(r)
  BY Zenon DEF WriteHeader
<1>2. /\ blocks' \subseteq Block /\ headers' \subseteq Block /\ undos' \subseteq Block
      /\ unsynced' \in Commit /\ unsynced'.file \notin {"index", "state"}
      /\ r # "after" => unsynced' = Synced
      /\ UNCHANGED <<disk_index, disk_state, lost, canonical, tip_timestamp>>
      /\ stage \in ApplyStage /\ "undo" \in ApplyStage
  BY <1>1 DEF IInv, TypeOK, PhaseInv, WriteHeader, ApplyInv, ApplyStage, Created,
              write_file_if_absent, Commit, Synced
<1>3. CASE r = "ok"
  BY <1>1, <1>2, <1>3, ArtifactStoredStep, Zenon
<1>4. CASE r # "ok"
  BY <1>1, <1>2, <1>4, ArtifactErrorStep, Zenon DEF Outcome
<1> QED
  BY <1>3, <1>4, Zenon

\* WriteUndo preserves the invariant; the same-hash replay cannot occur here.
LEMMA WriteUndoStep ==
    ASSUME IInv, WriteUndo
    PROVE  IInv'
<1>1. ~SameHashReplay
  BY DEF IInv, ApplyInv, ApplyStage, TypeOK, WriteUndo, SameHashReplay
<1>2. PICK r \in Outcome :
         /\ undos' = Created(r, undos, job.block)
         /\ write_file_if_absent(r, "undo", undos, job.block)
         /\ r = "ok" => ArtifactStored("index") /\ UNCHANGED tip_timestamp
         /\ r # "ok" => ArtifactError(r) /\ UNCHANGED tip_timestamp
  BY <1>1, Zenon DEF WriteUndo
<1>3. /\ blocks' \subseteq Block /\ headers' \subseteq Block /\ undos' \subseteq Block
      /\ unsynced' \in Commit /\ unsynced'.file \notin {"index", "state"}
      /\ r # "after" => unsynced' = Synced
      /\ UNCHANGED <<disk_index, disk_state, lost, canonical, tip_timestamp>>
      /\ stage \in ApplyStage /\ "index" \in ApplyStage
  BY <1>2 DEF IInv, TypeOK, PhaseInv, WriteUndo, ApplyInv, ApplyStage, Created,
              write_file_if_absent, Commit, Synced
<1>4. CASE r = "ok"
  BY <1>2, <1>3, <1>4, ArtifactStoredStep, Zenon
<1>5. CASE r # "ok"
  BY <1>2, <1>3, <1>5, ArtifactErrorStep, Zenon DEF Outcome
<1> QED
  BY <1>4, <1>5, Zenon

\* The end of one applied block: admission reopens at the new tip, or the reorg
\* goes on to its next block.
LEMMA AppliedStep ==
    ASSUME IInv, stage \in ApplyStage \union SaveStage, Applied, TypeOK',
           UNCHANGED <<chain_state, persistence_fault>>, canonical' = chain_state,
           disk_index' = chain_state, unsynced' = Synced, Good(disk_state')
    PROVE  IInv'
<1>1. /\ owner = "transition" /\ ~persistence_fault /\ job.kind \in {"apply", "reorg"}
      /\ job.block \in Block /\ job.snapshot \in Seq(Block)
      /\ chain_state = Append(job.snapshot, job.block)
      /\ job.len_before = Len(job.snapshot)
      /\ Good(chain_state) /\ Good(job.snapshot) /\ Good(job.old)
  BY Zenon DEF IInv, TypeOK, Job, PhaseInv, Transition, ApplyInv, SaveInv, GoodInv, ApplyStage,
     SaveStage
<1>2. /\ Tip(chain_state) = job.block
      /\ Len(chain_state) = Len(job.snapshot) + 1
      /\ SubSeq(chain_state, 1, Len(job.snapshot)) = job.snapshot
  BY <1>1, AppendFacts, Zenon
<1>3. CASE job.kind # "reorg"
  <2>1. finish_success /\ tip_timestamp' = job.block
    BY <1>3, Zenon DEF Applied
  <2> QED
    BY <1>1, <1>2, <2>1, Ended, ZenonT(60), Zenon DEF finish_success, Synced
<1>4. CASE job.kind = "reorg"
  <2>1. /\ stage' = "connect_next" /\ UNCHANGED <<owner, stable_tip, job>>
        /\ tip_timestamp' = job.block
    BY <1>4, Zenon DEF Applied
  <2>2. PhaseInv' /\ OpenInv'
    BY <1>1, <1>4, <2>1, Zenon DEF PhaseInv, OpenInv, Transition, ApplyStage, SaveStage,
                            DisconnectStage, ReorgStage, Synced
  <2>3. ApplyInv' /\ SaveInv' /\ DisconnectInv'
    BY <1>1, <1>2, <2>1, Zenon DEF ApplyInv, SaveInv, DisconnectInv, ApplyStage, SaveStage
  <2>4. OldInv'
    BY <1>1, <1>4, <2>1, Zenon DEF IInv, OldInv
  <2>5. ReorgInv'
    <3>1. \A i \in 1..job.base : chain_state[i] = job.old[i]
      <4>1. CASE stage \in SaveStage
        BY <1>4, <4>1, Zenon DEF IInv, ReorgInv, SaveInv
      <4>2. CASE stage \in ApplyStage
        <5>1. job.base \in Nat /\ job.base <= Len(job.snapshot)
          BY <1>1, <1>4, <4>2, Zenon DEF IInv, ReorgInv, TypeOK, Job
        <5>2. \A i \in 1..Len(job.snapshot) : chain_state[i] = job.snapshot[i]
          BY <1>1
        <5>3. \A i \in 1..job.base : job.snapshot[i] = job.old[i]
          BY <1>4, <4>2, Zenon DEF IInv, ReorgInv, ApplyInv
        <5> QED
          BY <1>1, <5>1, <5>2, <5>3, SMTT(60)
      <4> QED
        BY <4>1, <4>2, Zenon
    <3>2. job.base <= Len(chain_state)
      <4>1. job.base \in Nat /\ Len(job.snapshot) \in Nat /\ job.base <= Len(job.snapshot)
        BY <1>1, <1>4, Zenon DEF IInv, ReorgInv, TypeOK, Job
      <4> QED
        BY <1>2, <4>1, SMTT(60)
    <3> QED
      BY <1>4, <2>1, <3>1, <3>2, Zenon DEF IInv, ReorgInv, ApplyStage, SaveStage
  <2>6. GoodInv'
    BY <1>1, <2>1, Zenon DEF GoodInv, Synced
  <2>7. BranchInv'
    BY <1>2, <2>1, Zenon DEF IInv, BranchInv, ApplyStage, SaveStage, DisconnectStage
  <2> QED
    BY <2>1, <2>2, <2>3, <2>4, <2>5, <2>6, <2>7, Zenon DEF IInv, SideInv
<1> QED
  BY <1>3, <1>4, Zenon

\* WriteIndex preserves the invariant.
LEMMA WriteIndexStep ==
    ASSUME IInv, WriteIndex
    PROVE  IInv'
<1>1. /\ stage = "index" /\ owner = "transition" /\ ~persistence_fault /\ unsynced = Synced
      /\ canonical = job.snapshot /\ disk_index = job.snapshot
      /\ job.block \in Block /\ job.snapshot \in Seq(Block)
      /\ chain_state = Append(job.snapshot, job.block)
      /\ job.len_before = Len(job.snapshot)
      /\ Good(chain_state) /\ Good(job.snapshot) /\ Good(job.old) /\ Good(disk_state)
  BY Zenon DEF WriteIndex, IInv, TypeOK, Job, PhaseInv, Transition, ApplyInv, GoodInv, ApplyStage
<1>2. set_canonical_tip(job.block) = chain_state
  BY <1>1, PrefixWhole, Zenon DEF set_canonical_tip
<1>3. PICK r \in Outcome :
         /\ save_blockstore_index(r, chain_state)
         /\ canonical' = IF r = "before" THEN canonical ELSE chain_state
         /\ r = "ok" => Committed
         /\ r = "before" => ArtifactError(r) /\ UNCHANGED tip_timestamp
         /\ r = "after" => /\ handle_persistence_error(r, TRUE)
                           /\ UNCHANGED <<chain_state, tip_timestamp>>
                           /\ Fail(FALSE)
  BY <1>2, Zenon DEF WriteIndex, Outcome
<1>4. stage \in ApplyStage
  BY <1>1, Zenon DEF ApplyStage
<1>5. CASE r = "before"
  <2>1. UNCHANGED <<blocks, headers, undos, disk_index, disk_state, unsynced, lost, canonical>>
    BY <1>3, <1>5, Zenon DEF save_blockstore_index
  <2>2. unsynced' \in Commit /\ unsynced'.file \notin {"index", "state"} /\ unsynced' = Synced
    BY <1>1, <2>1 DEF Commit, Synced
  <2>3. blocks' \subseteq Block /\ headers' \subseteq Block /\ undos' \subseteq Block
    BY <2>1, Zenon DEF IInv, TypeOK
  <2> QED
    BY <1>3, <1>4, <1>5, <2>1, <2>2, <2>3, ArtifactErrorStep, Zenon
<1>6. CASE r = "after"
  <2>1. /\ disk_index' = chain_state /\ canonical' = chain_state /\ persistence_fault'
        /\ unsynced' = [file |-> "index", prior |-> disk_index]
        /\ UNCHANGED <<blocks, headers, undos, disk_state, lost, chain_state, tip_timestamp>>
        /\ reload_error' \in BOOLEAN
    BY <1>3, <1>6, Zenon DEF save_blockstore_index, handle_persistence_error
  <2>2. finish_failure(FALSE)
    BY <1>3, <1>6, <2>1, Zenon DEF Fail
  <2>3. TypeOK'
    BY <2>1, <2>2, NoJobType, Zenon DEF IInv, TypeOK, finish_failure, Stage, Owner, Commit
  <2> QED
    BY <1>1, <1>3, <1>6, <2>1, <2>3, Failed, Zenon
<1>7. CASE r = "ok"
  <2>1. /\ disk_index' = chain_state /\ canonical' = chain_state /\ unsynced' = Synced
        /\ UNCHANGED <<blocks, headers, undos, disk_state, lost, chain_state,
                       persistence_fault, reload_error>>
    BY <1>1, <1>3, <1>7, Zenon DEF save_blockstore_index, Committed
  <2>2. CASE should_persist_chainstate_snapshot(chain_state)
    <3>1. stage' = "save" /\ UNCHANGED <<tip_timestamp, owner, stable_tip, job>>
      BY <1>3, <1>7, <2>2, Zenon DEF Committed
    <3>2. TypeOK'
      BY <1>1, <2>1, <3>1, Zenon DEF IInv, TypeOK, Stage
    <3>3. PhaseInv' /\ OpenInv'
      BY <1>1, <2>1, <3>1, Zenon DEF IInv, PhaseInv, OpenInv, Transition, ApplyStage, SaveStage,
                              DisconnectStage, ReorgStage, Synced
    <3>4. ApplyInv' /\ SaveInv' /\ DisconnectInv'
      BY <1>1, <2>1, <3>1, Zenon DEF ApplyInv, SaveInv, DisconnectInv, ApplyStage, SaveStage
    <3>5. OldInv'
      BY <1>1, <2>1, <3>1, Zenon DEF IInv, OldInv
    <3>6. ReorgInv'
      <4>1. ASSUME job.kind = "reorg"
            PROVE  /\ job.base \in Nat /\ job.base <= Len(job.snapshot)
                   /\ \A i \in 1..job.base : job.snapshot[i] = job.old[i]
        BY <1>1, <4>1, Zenon DEF IInv, ReorgInv, TypeOK, Job
      <4>2. /\ Len(chain_state) = Len(job.snapshot) + 1
            /\ \A i \in 1..Len(job.snapshot) : chain_state[i] = job.snapshot[i]
        BY <1>1
      <4>3. job.kind = "reorg" => job.base <= Len(chain_state)
        BY <1>1, <4>1, <4>2
      <4>4. job.kind = "reorg" => \A i \in 1..job.base : chain_state[i] = job.old[i]
        BY <1>1, <4>1, <4>2, SMTT(60)
      <4> QED
        BY <1>1, <2>1, <3>1, <4>1, <4>3, <4>4, Zenon DEF IInv, ReorgInv, ApplyStage, SaveStage
    <3>7. GoodInv' /\ BranchInv'
      BY <1>1, <2>1, <3>1, Zenon DEF IInv, GoodInv, BranchInv, ApplyStage, SaveStage,
         DisconnectStage, Synced
    <3> QED
      BY <3>1, <3>2, <3>3, <3>4, <3>5, <3>6, <3>7, Zenon DEF IInv, SideInv
  <2>3. CASE ~should_persist_chainstate_snapshot(chain_state)
    <3>1. Applied
      BY <1>3, <1>7, <2>3, Zenon DEF Committed
    <3>2. TypeOK'
      BY <1>1, <2>1, <3>1, NoJobType, TipType, Zenon DEF IInv, TypeOK, Stage, Applied,
         finish_success, Owner
    <3> QED
      BY <1>1, <1>4, <2>1, <3>1, <3>2, AppliedStep, Zenon
  <2> QED
    BY <2>2, <2>3, Zenon
<1> QED
  BY <1>5, <1>6, <1>7, Zenon DEF Outcome

\* SaveSnapshot preserves the invariant.
LEMMA SaveSnapshotStep ==
    ASSUME IInv, SaveSnapshot
    PROVE  IInv'
<1>1. /\ stage = "save" /\ owner = "transition" /\ ~persistence_fault /\ unsynced = Synced
      /\ canonical = chain_state /\ disk_index = chain_state
      /\ job.block \in Block /\ job.snapshot \in Seq(Block)
      /\ chain_state = Append(job.snapshot, job.block)
      /\ job.len_before = Len(job.snapshot)
      /\ Good(chain_state) /\ Good(disk_state)
  BY Zenon DEF SaveSnapshot, IInv, TypeOK, Job, PhaseInv, Transition, SaveInv, GoodInv, SaveStage
<1>2. Len(canonical) > job.len_before /\ ~(Len(canonical) <= job.len_before)
  BY <1>1, AppendFacts
<1>3. PICK r \in Outcome :
         /\ save_atomic(r, chain_state)
         /\ r = "ok" => UNCHANGED <<chain_state, persistence_fault, reload_error>> /\ Applied
         /\ r = "before" => /\ stage' = "rewind"
                            /\ UNCHANGED <<chain_state, persistence_fault, reload_error,
                                           tip_timestamp, owner, stable_tip, job>>
         /\ r = "after" => /\ handle_persistence_error(r, TRUE)
                           /\ UNCHANGED <<chain_state, tip_timestamp>>
                           /\ Fail(FALSE)
  BY <1>1, <1>2, Zenon DEF SaveSnapshot, Outcome
<1>4. canonical' = canonical
  BY Zenon DEF SaveSnapshot
<1>5. CASE r = "ok"
  <2>1. /\ disk_state' = chain_state /\ unsynced' = Synced
        /\ UNCHANGED <<blocks, headers, undos, disk_index, lost, chain_state,
                       persistence_fault, reload_error>>
        /\ Applied
    BY <1>1, <1>3, <1>5, Zenon DEF save_atomic
  <2>2. TypeOK'
    BY <1>1, <1>4, <2>1, NoJobType, TipType, Zenon DEF IInv, TypeOK, Stage, Applied,
       finish_success, Owner
  <2>3. stage \in ApplyStage \union SaveStage
    BY <1>1, Zenon DEF SaveStage
  <2> QED
    BY <1>1, <1>4, <2>1, <2>2, <2>3, AppliedStep, Zenon
<1>6. CASE r = "before"
  <2>1. /\ stage' = "rewind"
        /\ UNCHANGED <<blocks, headers, undos, disk_index, disk_state, lost, unsynced, chain_state,
                       canonical, persistence_fault, reload_error, tip_timestamp, owner,
                       stable_tip, job>>
    BY <1>3, <1>4, <1>6, Zenon DEF save_atomic
  <2>2. TypeOK' /\ PhaseInv' /\ OpenInv'
    BY <1>1, <2>1, Zenon DEF IInv, TypeOK, Stage, PhaseInv, OpenInv, Transition, ApplyStage,
       SaveStage,
                      DisconnectStage, ReorgStage
  <2>3. ApplyInv' /\ SaveInv' /\ DisconnectInv' /\ OldInv'
    BY <1>1, <2>1, Zenon DEF IInv, ApplyInv, SaveInv, DisconnectInv, OldInv, ApplyStage, SaveStage
  <2>4. ReorgInv' /\ GoodInv' /\ BranchInv'
    BY <1>1, <2>1, Zenon DEF IInv, ReorgInv, GoodInv, BranchInv, ApplyStage, SaveStage,
       DisconnectStage
  <2> QED
    BY <2>1, <2>2, <2>3, <2>4, Zenon DEF IInv, SideInv
<1>7. CASE r = "after"
  <2>1. /\ disk_state' = chain_state /\ persistence_fault'
        /\ unsynced' = [file |-> "state", prior |-> disk_state]
        /\ UNCHANGED <<blocks, headers, undos, disk_index, lost, chain_state, tip_timestamp>>
        /\ reload_error' \in BOOLEAN
    BY <1>3, <1>7, Zenon DEF save_atomic, handle_persistence_error
  <2>2. finish_failure(FALSE)
    BY <1>3, <1>7, <2>1, ZenonT(60), Zenon DEF Fail
  <2>3. TypeOK'
    BY <1>4, <2>1, <2>2, NoJobType, Zenon DEF IInv, TypeOK, finish_failure, Stage, Owner, Commit
  <2> QED
    BY <1>1, <1>3, <1>4, <1>7, <2>1, <2>3, Failed, Zenon
<1> QED
  BY <1>5, <1>6, <1>7, Zenon DEF Outcome

\* Rewind preserves the invariant: the block leaves memory and index, or the
\* owner stays unavailable.
LEMMA RewindStep ==
    ASSUME IInv, Rewind
    PROVE  IInv'
<1>1. /\ stage = "rewind" /\ owner = "transition" /\ ~persistence_fault /\ unsynced = Synced
      /\ canonical = chain_state /\ disk_index = chain_state
      /\ job.block \in Block /\ job.snapshot \in Seq(Block)
      /\ chain_state = Append(job.snapshot, job.block)
      /\ job.len_before = Len(job.snapshot)
      /\ Good(chain_state) /\ Good(disk_state) /\ Good(job.snapshot)
      /\ job.kind \in {"apply", "reorg"}
  BY Zenon DEF Rewind, IInv, TypeOK, Job, PhaseInv, Transition, SaveInv, GoodInv, SaveStage
<1>2. SubSeq(canonical, 1, job.len_before) = job.snapshot
  BY <1>1, AppendFacts, Zenon
<1>3. PICK r \in Outcome :
         /\ save_blockstore_index(r, job.snapshot)
         /\ handle_persistence_error(r, TRUE)
         /\ CommitToMemory(r, job.snapshot)
         /\ chain_state' = job.snapshot
         /\ Fail(r = "ok")
  BY <1>2, Zenon DEF Rewind
<1>4. /\ disk_index' = IF r = "before" THEN chain_state ELSE job.snapshot
      /\ canonical' \in {chain_state, job.snapshot}
      /\ r # "after" => canonical' = disk_index'
      /\ unsynced' = IF r = "after" THEN [file |-> "index", prior |-> chain_state] ELSE Synced
      /\ persistence_fault' = (r = "after")
      /\ reload_error' \in BOOLEAN
      /\ UNCHANGED <<blocks, headers, undos, disk_state, lost, tip_timestamp>>
  BY <1>1, <1>3, Zenon DEF Rewind, IInv, TypeOK, Outcome, save_blockstore_index,
                    handle_persistence_error, CommitToMemory
<1>5. TypeOK'
  BY <1>1, <1>3, <1>4, NoJobType, Zenon DEF IInv, TypeOK, Fail, finish_failure, Stage, Owner,
     Commit, Synced
<1>6. /\ Good(disk_index') /\ Good(disk_state') /\ Good(chain_state') /\ Good(canonical')
      /\ unsynced'.file \in {"index", "state"} => Good(unsynced'.prior)
  BY <1>1, <1>3, <1>4, Zenon DEF Synced
<1>7. ASSUME job.kind = "reorg"
      PROVE  \A s \in {chain_state, job.snapshot} :
               job.base <= Len(s) /\ \A i \in 1..job.base : s[i] = job.old[i]
  <2>1. /\ job.base \in Nat /\ job.base <= Len(job.snapshot) /\ job.base <= Len(chain_state)
        /\ \A i \in 1..job.base : chain_state[i] = job.old[i]
    BY <1>1, <1>7, ZenonT(60), Zenon DEF IInv, ReorgInv, TypeOK, Job, SaveStage
  <2>2. \A i \in 1..Len(job.snapshot) : chain_state[i] = job.snapshot[i]
    BY <1>1
  <2>3. \A i \in 1..job.base : i \in 1..Len(job.snapshot)
    BY <1>1, <2>1, SMTT(60)
  <2> QED
    BY <2>1, <2>2, <2>3, Zenon
<1>8. (r = "ok") /\ job.kind # "reorg" => /\ canonical' = chain_state'
                                         /\ tip_timestamp' = Tip(job.old)
  BY <1>1, <1>3, <1>4, Zenon DEF IInv, OldInv
<1>9. (r = "ok") \in BOOLEAN
  BY Zenon
<1> QED
  BY <1>1, <1>3, <1>4, <1>5, <1>6, <1>7, <1>8, <1>9, Failed, Zenon DEF Outcome

\* ApplyDirect preserves the invariant.
LEMMA ApplyDirectStep ==
    ASSUME IInv, NEW b \in Block, ApplyDirect(b)
    PROVE  IInv'
<1>1. /\ stage = "idle" /\ ~persistence_fault /\ owner = "open" /\ unsynced = Synced
      /\ canonical = chain_state /\ disk_index = chain_state /\ chain_state \in Seq(Block)
      /\ stable_tip = Tip(chain_state) /\ tip_timestamp = Tip(chain_state)
      /\ Good(chain_state) /\ Good(disk_state)
  BY Zenon DEF ApplyDirect, IInv, TypeOK, PhaseInv, OpenInv, GoodInv
<1>2. /\ stage' = "block" /\ owner' = "transition"
      /\ chain_state' = Append(chain_state, b)
      /\ job' = [NoJob EXCEPT !.kind = "apply", !.old = chain_state,
                              !.old_timestamp = tip_timestamp, !.block = b,
                              !.snapshot = chain_state, !.len_before = Len(canonical)]
      /\ UNCHANGED <<blocks, headers, undos, disk_index, disk_state, unsynced, lost, canonical,
                     tip_timestamp, persistence_fault, reload_error, stable_tip>>
  BY Zenon DEF ApplyDirect, Connect, disk
<1>3. /\ job' \in Job
      /\ job'.kind = "apply" /\ job'.old = chain_state /\ job'.old_timestamp = tip_timestamp
      /\ job'.block = b /\ job'.snapshot = chain_state /\ job'.len_before = Len(chain_state)
      /\ job'.connects = <<>>
  <2>1. Len(canonical) \in Nat /\ canonical = chain_state /\ chain_state \in Seq(Block)
    BY <1>1
  <2>2. tip_timestamp \in Block \union {NoBlock}
    BY Zenon DEF IInv, TypeOK
  <2>3. job' = [kind |-> "apply", block |-> b, disconnects |-> 0, connects |-> <<>>,
                snapshot |-> chain_state, len_before |-> Len(canonical), old |-> chain_state,
                old_timestamp |-> tip_timestamp, base |-> 0, suffix |-> <<>>]
    BY <1>2, Zenon DEF NoJob
  <2> QED
    BY <2>1, <2>2, <2>3 DEF Job
<1>4. Good(chain_state')
  BY <1>1, <1>2, GoodAppend, Zenon DEF ApplyDirect
<1>5. TypeOK'
  BY <1>1, <1>2, <1>3, AppendFacts, Zenon DEF IInv, TypeOK, Stage, Owner
<1>6. PhaseInv' /\ OpenInv'
  BY <1>1, <1>2, <1>3, Zenon DEF PhaseInv, OpenInv, Transition, ApplyStage, SaveStage,
                          DisconnectStage, ReorgStage, Synced
<1>7. ApplyInv' /\ SaveInv' /\ DisconnectInv' /\ OldInv' /\ ReorgInv'
  BY <1>1, <1>2, <1>3, Zenon DEF ApplyInv, SaveInv, DisconnectInv, OldInv, ReorgInv, ApplyStage, SaveStage
<1>8. GoodInv'
  BY <1>1, <1>2, <1>3, <1>4, Zenon DEF GoodInv, Synced
<1>9. BranchInv'
  BY <1>3 DEF BranchInv
<1> QED
  BY <1>2, <1>5, <1>6, <1>7, <1>8, <1>9, Zenon DEF IInv, SideInv

\* StoreSide, WriteSideBlock and WriteSideHeader touch no chain: what a side
\* write leaves is what the idle engine had.
LEMMA SideStep ==
    ASSUME IInv, TypeOK',
           stage = "idle" \/ stage \in {"side_block", "side_header"},
           \/ /\ stage' \in {"side_block", "side_header"}
              /\ job'.block \in Block
              /\ job' = [NoJob EXCEPT !.kind = "side", !.block = job'.block]
           \/ stage' = "idle" /\ job' = NoJob,
           stage' # "idle" => ~persistence_fault',
           unsynced'.file \notin {"index", "state"} \/ unsynced' = unsynced,
           ~persistence_fault' => unsynced' = Synced,
           UNCHANGED <<disk_index, disk_state, chain_state, canonical, tip_timestamp, owner, stable_tip>>
    PROVE  IInv'
<1>1. owner # "transition" /\ (owner = "open" => unsynced.file # "index")
  BY Zenon DEF IInv, PhaseInv, Transition, ApplyStage, SaveStage, DisconnectStage, ReorgStage
<1>2. stage' \notin Transition /\ stage' \notin {"down", "boot_truncate", "boot_save"}
  BY Zenon DEF Transition, ApplyStage, SaveStage, DisconnectStage, ReorgStage
<1>3. /\ job'.connects = <<>> /\ job'.old = <<>> /\ job'.snapshot = <<>>
      /\ job'.kind \in {"none", "side"}
      /\ job'.kind = "side" <=> stage' \in {"side_block", "side_header"}
  <2>1. CASE stage' = "idle" /\ job' = NoJob
    BY <2>1, Zenon DEF NoJob
  <2>2. CASE stage' \in {"side_block", "side_header"} /\ job' = [NoJob EXCEPT !.kind = "side", !.block = job'.block]
    <3> DEFINE b == job'.block
    <3>1. job' = [NoJob EXCEPT !.kind = "side", !.block = b]
      BY <2>2, Zenon
    <3> HIDE DEF b
    <3>2. job'.connects = <<>> /\ job'.old = <<>> /\ job'.snapshot = <<>> /\ job'.kind = "side"
      BY <3>1, Zenon DEF NoJob
    <3> QED
      BY <2>2, <3>2, Zenon
  <2> QED
    BY <2>1, <2>2, Zenon
<1>4. PhaseInv' /\ OpenInv'
  BY <1>1, <1>2, <1>3, Zenon DEF IInv, PhaseInv, OpenInv, Transition
<1>5. ApplyInv' /\ SaveInv' /\ DisconnectInv' /\ OldInv' /\ ReorgInv'
  BY <1>1, <1>2, <1>3, Zenon DEF ApplyInv, SaveInv, DisconnectInv, OldInv, ReorgInv, Transition,
                          DisconnectStage, ReorgStage
<1>6. GoodInv' /\ BranchInv'
  BY <1>3, GoodEmpty DEF IInv, GoodInv, BranchInv
<1> QED
  BY <1>4, <1>5, <1>6, Zenon DEF IInv, SideInv

\* StoreSide preserves the invariant.
LEMMA StoreSideStep ==
    ASSUME IInv, NEW b \in Block, StoreSide(b)
    PROVE  IInv'
<1>1. /\ stage = "idle" /\ ~persistence_fault
      /\ stage' = "side_block" /\ job' = [NoJob EXCEPT !.kind = "side", !.block = b]
      /\ UNCHANGED <<blocks, headers, undos, disk_index, disk_state, unsynced, lost, chain_state,
                     canonical, tip_timestamp, persistence_fault, reload_error, owner, stable_tip>>
  BY Zenon DEF StoreSide, SideDelivery, disk
<1>2. job' \in Job /\ job'.block = b
  BY <1>1, NoJobType, Zenon DEF NoJob, Job
<1>3. TypeOK'
  BY <1>1, <1>2, Zenon DEF IInv, TypeOK, Stage
<1>4. unsynced = Synced
  BY <1>1, Zenon DEF IInv, PhaseInv
<1> QED
  BY <1>1, <1>2, <1>3, <1>4, SideStep, Zenon

\* WriteSideBlock preserves the invariant.
LEMMA WriteSideBlockStep ==
    ASSUME IInv, WriteSideBlock
    PROVE  IInv'
<1>1. PICK r \in Outcome :
         /\ blocks' = Created(r, blocks, job.block)
         /\ write_file_if_absent(r, "block", blocks, job.block)
         /\ SideWritten(r, "side_header")
  BY Zenon DEF WriteSideBlock
<1>2. /\ stage = "side_block" /\ ~persistence_fault /\ unsynced = Synced /\ headers' = headers
      /\ job.block \in Block /\ job = [NoJob EXCEPT !.kind = "side", !.block = job.block]
  BY Zenon DEF WriteSideBlock, IInv, PhaseInv, SideInv
<1>3. /\ UNCHANGED <<disk_index, disk_state, undos, lost, chain_state, canonical,
                     tip_timestamp, owner, stable_tip, reload_error>>
      /\ persistence_fault' = (r = "after")
      /\ stage' = IF r = "ok" THEN "side_header" ELSE "idle"
      /\ job' = IF r = "ok" THEN job ELSE NoJob
      /\ unsynced' \in Commit /\ unsynced'.file \notin {"index", "state"}
      /\ r # "after" => unsynced' = Synced
      /\ blocks' \subseteq Block
  BY <1>1, <1>2 DEF SideWritten, handle_persistence_error, write_file_if_absent, Created, Outcome,
                    Commit, Synced, IInv, TypeOK
<1>4. TypeOK'
  BY <1>2, <1>3, NoJobType, Zenon DEF IInv, TypeOK, Stage
<1> QED
  BY <1>2, <1>3, <1>4, SideStep, Zenon DEF Outcome

\* WriteSideHeader preserves the invariant.
LEMMA WriteSideHeaderStep ==
    ASSUME IInv, WriteSideHeader
    PROVE  IInv'
<1>1. PICK r \in Outcome :
         /\ headers' = Created(r, headers, job.block)
         /\ write_file_if_absent(r, "header", headers, job.block)
         /\ SideWritten(r, "idle")
  BY Zenon DEF WriteSideHeader
<1>2. /\ stage = "side_header" /\ ~persistence_fault /\ unsynced = Synced /\ blocks' = blocks
      /\ job.block \in Block
  BY Zenon DEF WriteSideHeader, IInv, PhaseInv, SideInv
<1>3. /\ UNCHANGED <<disk_index, disk_state, undos, lost, chain_state, canonical,
                     tip_timestamp, owner, stable_tip, reload_error>>
      /\ persistence_fault' = (r = "after")
      /\ stage' = "idle"
      /\ job' = NoJob
      /\ unsynced' \in Commit /\ unsynced'.file \notin {"index", "state"}
      /\ r # "after" => unsynced' = Synced
      /\ headers' \subseteq Block
  BY <1>1, <1>2 DEF SideWritten, handle_persistence_error, write_file_if_absent, Created, Outcome,
                    Commit, Synced, IInv, TypeOK
<1>4. TypeOK'
  BY <1>2, <1>3, NoJobType, Zenon DEF IInv, TypeOK, Stage
<1> QED
  BY <1>2, <1>3, <1>4, SideStep, ZenonT(60), Zenon DEF Outcome


-----------------------------------------------------------------------------
(* Reorgs, disconnects and rollbacks preserve the inductive invariant. *)

\* The parent of a block on a chain is the block below it.
LEMMA ChainParent ==
    ASSUME NEW b \in Block, NEW i \in 2..Len(Chain[b])
    PROVE  Parent(Chain[b][i]) = Chain[b][i - 1]
<1> DEFINE c == Chain[b]
<1>1. c \in Seq(Block) /\ Chain[c[i]] = SubSeq(c, 1, i) /\ i \in 1..Len(c)
  BY ChainFacts, SMTT(60)
<1> HIDE DEF c
<1>2. Front(SubSeq(c, 1, i)) = SubSeq(c, 1, i - 1)
  BY <1>1 DEF Front
<1>3. Tip(SubSeq(c, 1, i - 1)) = c[i - 1]
  BY <1>1 DEF Tip
<1>4. Parent(c[i]) = c[i - 1]
  BY <1>1, <1>2, <1>3, Zenon DEF Parent
<1> QED
  BY <1>4, Zenon DEF c

\* StartReorg preserves the invariant: the base is the height of the common
\* ancestor, the suffix what stands above it, the branch hangs on it.
LEMMA StartReorgStep ==
    ASSUME IInv, NEW b \in Block, StartReorg(b)
    PROVE  IInv'
<1> DEFINE c == Chain[b]
<1>1. PICK fork \in Ancestors(b) :
        LET base == find_canonical_height(Chain[b][fork]) + 1
            branch == SubSeq(Chain[b], fork + 1, Len(Chain[b]))
        IN /\ SideDelivery(b, fork)
           /\ \A i \in 1..Len(branch) : branch[i] \notin Invalid
           /\ owner = "open"
           /\ owner' = "transition"
           /\ stage' = "disconnect_next"
           /\ job' = [NoJob EXCEPT !.kind = "reorg",
                                   !.disconnects = Len(canonical) - base,
                                   !.connects = branch,
                                   !.old = chain_state,
                                   !.old_timestamp = tip_timestamp,
                                   !.base = base,
                                   !.suffix = SubSeq(canonical, base + 1, Len(canonical))]
           /\ UNCHANGED <<disk, chain_state, canonical, tip_timestamp, persistence_fault,
                          reload_error, stable_tip>>
  BY Zenon DEF StartReorg
<1> DEFINE base == find_canonical_height(c[fork]) + 1
           branch == SubSeq(c, fork + 1, Len(c))
<1>2. /\ stage = "idle" /\ ~persistence_fault /\ owner = "open" /\ unsynced = Synced
      /\ canonical = chain_state /\ disk_index = chain_state /\ chain_state \in Seq(Block)
      /\ stable_tip = Tip(chain_state) /\ tip_timestamp = Tip(chain_state)
      /\ tip_timestamp \in Block \union {NoBlock}
      /\ Good(chain_state) /\ Good(disk_state)
  BY <1>1, Zenon DEF SideDelivery, IInv, TypeOK, PhaseInv, OpenInv, GoodInv
<1>3. c \in Seq(Block) /\ fork \in 1..(Len(c) - 1) /\ Len(c) \in Nat \ {0}
  BY ChainFacts, Zenon DEF Ancestors
<1>4. base \in 1..Len(canonical) /\ canonical[base] = c[fork]
  <2>1. \E i \in 1..Len(canonical) : canonical[i] = c[fork]
    BY <1>1, Zenon DEF SideDelivery, collect_branch_to_canonical, Elems
  <2> DEFINE i == CHOOSE i \in 1..Len(canonical) : canonical[i] = c[fork]
  <2>2. i \in 1..Len(canonical) /\ canonical[i] = c[fork]
    BY <2>1, Zenon
  <2> HIDE DEF i
  <2>3. i - 1 + 1 = i
    BY <2>2
  <2>4. base = i
    BY <2>3, Zenon DEF find_canonical_height, i
  <2> QED
    BY <2>2, <2>4, Zenon
<1>5. /\ branch \in Seq(Block) /\ Len(branch) = Len(c) - fork
      /\ \A i \in 1..Len(branch) : branch[i] = c[fork + i]
  BY <1>3, BranchFacts, Zenon
<1> HIDE DEF base, branch
<1>6. \A i \in 1..Len(branch) : Parent(branch[i]) = c[fork + i - 1]
  <2> TAKE i \in 1..Len(branch)
  <2> DEFINE k == fork + i
  <2>1. k \in 2..Len(c)
    BY <1>3, <1>5, SMTT(60)
  <2> HIDE DEF k
  <2>2. Parent(c[k]) = c[k - 1]
    BY <2>1, ChainParent, Zenon
  <2>3. branch[i] = c[k] /\ k - 1 = fork + i - 1
    BY <1>3, <1>5 DEF k
  <2> QED
    BY <2>2, <2>3, Zenon
<1> HIDE DEF c
<1>7. /\ stage' = "disconnect_next" /\ owner' = "transition"
      /\ job' = [kind |-> "reorg", block |-> NoBlock, disconnects |-> Len(canonical) - base,
                 connects |-> branch, snapshot |-> <<>>, len_before |-> 0, old |-> chain_state,
                 old_timestamp |-> tip_timestamp, base |-> base,
                 suffix |-> SubSeq(canonical, base + 1, Len(canonical))]
      /\ UNCHANGED <<blocks, headers, undos, disk_index, disk_state, unsynced, lost, chain_state,
                     canonical, tip_timestamp, persistence_fault, reload_error, stable_tip>>
      /\ \A i \in 1..Len(branch) : branch[i] \notin Invalid
  BY <1>1, Zenon DEF NoJob, disk, base, branch, c
<1>8. /\ job'.kind = "reorg" /\ job'.disconnects = Len(canonical) - base
      /\ job'.connects = branch /\ job'.snapshot = <<>> /\ job'.old = chain_state
      /\ job'.old_timestamp = tip_timestamp /\ job'.base = base
      /\ job'.suffix = SubSeq(canonical, base + 1, Len(canonical))
  BY <1>7, Zenon
<1>9. TypeOK'
  <2>1. Len(canonical) - base \in Nat /\ base \in Nat
    BY <1>2, <1>4, SMTT(60)
  <2>2. SubSeq(canonical, base + 1, Len(canonical)) \in Seq(Block) /\ <<>> \in Seq(Block)
    BY <1>2, <1>4, SMTT(60)
  <2>3. job' \in Job
    BY <1>2, <1>5, <1>7, <2>1, <2>2, Zenon DEF Job
  <2> QED
    BY <1>7, <2>3, Zenon DEF IInv, TypeOK, Stage, Owner
<1>10. PhaseInv' /\ OpenInv' /\ SideInv'
  BY <1>2, <1>7, <1>8, Zenon DEF PhaseInv, OpenInv, SideInv, Transition, ApplyStage, SaveStage,
                          DisconnectStage, ReorgStage, Synced
<1>11. ApplyInv' /\ SaveInv' /\ DisconnectInv' /\ OldInv'
  BY <1>2, <1>7, <1>8, Zenon DEF ApplyInv, SaveInv, DisconnectInv, OldInv, ApplyStage, SaveStage
<1>12. ReorgInv'
  BY <1>2, <1>4, <1>7, <1>8, SMTT(60) DEF ReorgInv, ApplyStage, SaveStage
<1>13. GoodInv'
  BY <1>2, <1>7, <1>8, GoodEmpty, Zenon DEF GoodInv, Synced
<1>14. BranchInv'
  <2>1. \A i \in 2..Len(branch) : Parent(branch[i]) = branch[i - 1]
    <3> TAKE i \in 2..Len(branch)
    <3>1. i \in 1..Len(branch) /\ i - 1 \in 1..Len(branch) /\ fork + (i - 1) = fork + i - 1
      BY <1>3, <1>5
    <3> QED
      BY <1>5, <1>6, <3>1, Zenon
  <2>2. Len(branch) >= 1 /\ Parent(branch[1]) = chain_state[base]
    <3>1. 1 \in 1..Len(branch) /\ fork + 1 - 1 = fork
      BY <1>3, <1>5
    <3> QED
      BY <1>2, <1>4, <1>6, <3>1, SMTT(60)
  <2> QED
    BY <1>2, <1>4, <1>7, <1>8, <2>1, <2>2, SMTT(60) DEF BranchInv, ApplyStage, SaveStage,
       DisconnectStage
<1> QED
  BY <1>9, <1>10, <1>11, <1>12, <1>13, <1>14, Zenon DEF IInv

\* DisconnectTip preserves the invariant.
LEMMA DisconnectTipStep ==
    ASSUME IInv, DisconnectTip
    PROVE  IInv'
<1>1. /\ stage = "idle" /\ ~persistence_fault /\ owner = "open" /\ unsynced = Synced
      /\ canonical = chain_state /\ disk_index = chain_state /\ chain_state \in Seq(Block)
      /\ stable_tip = Tip(chain_state) /\ tip_timestamp = Tip(chain_state)
      /\ tip_timestamp \in Block \union {NoBlock}
      /\ Good(chain_state) /\ Good(disk_state) /\ chain_state # <<>>
  BY Zenon DEF DisconnectTip, prepare_canonical_disconnect_packet, IInv, TypeOK, PhaseInv, OpenInv,
     GoodInv
<1>2. /\ stage' = "disconnect_next" /\ owner' = "transition"
      /\ job' = [kind |-> "disconnect", block |-> NoBlock, disconnects |-> 1, connects |-> <<>>,
                 snapshot |-> <<>>, len_before |-> 0, old |-> chain_state,
                 old_timestamp |-> tip_timestamp, base |-> 0, suffix |-> <<>>]
      /\ UNCHANGED <<blocks, headers, undos, disk_index, disk_state, unsynced, lost, chain_state,
                     canonical, tip_timestamp, persistence_fault, reload_error, stable_tip>>
  BY Zenon DEF DisconnectTip, NoJob, disk
<1>3. /\ job'.kind = "disconnect" /\ job'.disconnects = 1 /\ job'.connects = <<>>
      /\ job'.snapshot = <<>> /\ job'.old = chain_state /\ job'.old_timestamp = tip_timestamp
  BY <1>2, Zenon
<1>4. TypeOK'
  <2>1. <<>> \in Seq(Block)
    BY SMTT(60)
  <2>2. job' \in Job
    BY <1>1, <1>2, <2>1, Zenon DEF Job
  <2> QED
    BY <1>2, <2>2, Zenon DEF IInv, TypeOK, Stage, Owner
<1>5. PhaseInv' /\ OpenInv' /\ SideInv'
  BY <1>1, <1>2, <1>3, Zenon DEF PhaseInv, OpenInv, SideInv, Transition, ApplyStage, SaveStage,
                          DisconnectStage, ReorgStage, Synced
<1>6. ApplyInv' /\ SaveInv' /\ DisconnectInv' /\ OldInv' /\ ReorgInv'
  BY <1>1, <1>2, <1>3, ZenonT(60), Zenon DEF ApplyInv, SaveInv, DisconnectInv, OldInv, ReorgInv,
     ApplyStage, SaveStage
<1>7. GoodInv' /\ BranchInv'
  BY <1>1, <1>2, <1>3, GoodEmpty DEF GoodInv, BranchInv, Synced
<1> QED
  BY <1>4, <1>5, <1>6, <1>7, Zenon DEF IInv

\* DisconnectNext preserves the invariant.
LEMMA DisconnectNextStep ==
    ASSUME IInv, DisconnectNext
    PROVE  IInv'
<1>1. /\ stage = "disconnect_next" /\ owner = "transition" /\ ~persistence_fault
      /\ unsynced = Synced /\ canonical = chain_state /\ disk_index = chain_state
      /\ chain_state \in Seq(Block) /\ tip_timestamp = Tip(chain_state)
      /\ Good(chain_state) /\ Good(disk_state) /\ Good(job.old)
      /\ job.kind \in {"disconnect", "reorg"} /\ job \in Job /\ job.disconnects \in Nat
      /\ UNCHANGED <<blocks, headers, undos, disk_index, disk_state, unsynced, lost, canonical,
                     tip_timestamp, persistence_fault, reload_error>>
  BY Zenon DEF DisconnectNext, disk, IInv, TypeOK, Job, PhaseInv, DisconnectInv, GoodInv, Transition,
         DisconnectStage
<1>2. CASE job.disconnects > 0
  <2>1. /\ stage' = "truncate" /\ UNCHANGED <<owner, stable_tip>>
        /\ chain_state' = Front(chain_state)
        /\ job' = [job EXCEPT !.disconnects = @ - 1, !.snapshot = chain_state,
                              !.len_before = Len(canonical)]
    BY <1>2, Zenon DEF DisconnectNext
  <2>2. chain_state # <<>>
    <3>1. CASE job.kind = "reorg"
      <4>1. Len(chain_state) = job.base + job.disconnects /\ job.base \in Nat
        BY <1>1, <3>1, Zenon DEF IInv, ReorgInv, Job
      <4> QED
        BY <1>1, <1>2, <4>1, SMTT(60)
    <3>2. CASE job.kind = "disconnect"
      BY <1>1, <1>2, <3>2 DEF IInv, OldInv
    <3> QED
      BY <1>1, <3>1, <3>2, Zenon
  <2>3. /\ Front(chain_state) \in Seq(Block) /\ Good(Front(chain_state))
        /\ Len(canonical) \in Nat /\ job.disconnects - 1 \in Nat
    <3>1. Front(chain_state) \in Seq(Block)
      BY <1>1, <2>2, FrontFacts, Zenon
    <3>2. Good(Front(chain_state))
      BY <1>1, <2>2, GoodFront, Zenon
    <3>3. Len(canonical) \in Nat /\ job.disconnects - 1 \in Nat
      BY <1>1, <1>2
    <3> QED
      BY <3>1, <3>2, <3>3, Zenon
  <2>4. /\ job' \in Job /\ job'.kind = job.kind /\ job'.disconnects = job.disconnects - 1
        /\ job'.snapshot = chain_state /\ job'.len_before = Len(canonical) /\ job'.old = job.old
        /\ job'.old_timestamp = job.old_timestamp /\ job'.base = job.base
        /\ job'.suffix = job.suffix /\ job'.connects = job.connects
    BY <1>1, <2>1, <2>3, ZenonT(60), Zenon DEF Job
  <2>5. TypeOK'
    BY <1>1, <2>1, <2>3, <2>4, Zenon DEF IInv, TypeOK, Stage
  <2>6. PhaseInv' /\ OpenInv' /\ SideInv'
    BY <1>1, <2>1, <2>4, Zenon DEF PhaseInv, OpenInv, SideInv, Transition, ApplyStage, SaveStage,
                            DisconnectStage, ReorgStage, Synced
  <2>7. ApplyInv' /\ SaveInv' /\ DisconnectInv'
    BY <1>1, <2>1, <2>2, <2>4, Zenon DEF ApplyInv, SaveInv, DisconnectInv, ApplyStage, SaveStage
  <2>8. OldInv'
    BY <1>1, <1>2, <2>1, <2>4 DEF IInv, OldInv
  <2>9. ReorgInv'
    <3>1. job.kind = "reorg" => Len(canonical) = job.base + (job.disconnects - 1) + 1
      BY <1>1, SMTT(60) DEF IInv, ReorgInv, Job
    <3> QED
      BY <1>1, <2>1, <2>4, <3>1, Zenon DEF IInv, ReorgInv, ApplyStage, SaveStage
  <2>10. GoodInv'
    BY <1>1, <2>1, <2>3, <2>4, Zenon DEF GoodInv, Synced
  <2>11. BranchInv'
    BY <1>1, <2>1, <2>4, Zenon DEF IInv, BranchInv, ApplyStage, SaveStage, DisconnectStage
  <2> QED
    BY <2>5, <2>6, <2>7, <2>8, <2>9, <2>10, <2>11, Zenon DEF IInv
<1>3. CASE ~(job.disconnects > 0) /\ job.kind = "reorg"
  <2>1. stage' = "connect_next" /\ UNCHANGED <<owner, stable_tip, job, chain_state>>
    BY <1>3, Zenon DEF DisconnectNext
  <2>2. TypeOK'
    BY <1>1, <2>1, Zenon DEF IInv, TypeOK, Stage
  <2>3. PhaseInv' /\ OpenInv' /\ SideInv'
    BY <1>1, <1>3, <2>1, Zenon DEF PhaseInv, OpenInv, SideInv, Transition, ApplyStage, SaveStage,
                            DisconnectStage, ReorgStage, Synced
  <2>4. ApplyInv' /\ SaveInv' /\ DisconnectInv' /\ OldInv'
    BY <1>1, <1>3, <2>1, Zenon DEF IInv, ApplyInv, SaveInv, DisconnectInv, OldInv, ApplyStage,
       SaveStage
  <2>5. ReorgInv' /\ GoodInv'
    BY <1>1, <2>1, Zenon DEF IInv, ReorgInv, GoodInv, ApplyStage, SaveStage
  <2>6. BranchInv'
    <3>1. ASSUME job.connects # <<>> PROVE Parent(job.connects[1]) = Tip(chain_state)
      <4>1. /\ job.base > 0 /\ Parent(job.connects[1]) = job.old[job.base]
            /\ job.base \in Nat
        BY <1>1, <3>1, Zenon DEF IInv, BranchInv, DisconnectStage, Job
      <4>2. Len(chain_state) = job.base
        BY <1>1, <1>3, <4>1, SMTT(60) DEF IInv, ReorgInv
      <4>3. chain_state[job.base] = job.old[job.base]
        BY <1>1, <1>3, <4>1, SMTT(60) DEF IInv, ReorgInv
      <4> QED
        BY <1>1, <4>1, <4>2, <4>3, SMTT(60) DEF Tip
    <3> QED
      BY <1>1, <2>1, <3>1, Zenon DEF IInv, BranchInv, ApplyStage, SaveStage, DisconnectStage
  <2> QED
    BY <2>2, <2>3, <2>4, <2>5, <2>6, Zenon DEF IInv
<1>4. CASE ~(job.disconnects > 0) /\ job.kind # "reorg"
  <2>1. finish_success /\ chain_state' = chain_state
    BY <1>4, Zenon DEF DisconnectNext
  <2>2. TypeOK'
    BY <1>1, <2>1, NoJobType, TipType, Zenon DEF IInv, TypeOK, Stage, finish_success, Owner
  <2> QED
    BY <1>1, <2>1, <2>2, Ended, Zenon DEF finish_success, Synced
<1> QED
  BY <1>2, <1>3, <1>4, Zenon

\* What the disconnect stages have in common.
LEMMA DisconnectFacts ==
    ASSUME IInv, stage \in {"truncate", "disconnect_save", "restore"}
    PROVE  /\ owner = "transition" /\ ~persistence_fault /\ unsynced = Synced
           /\ job.kind \in {"disconnect", "reorg"} /\ job \in Job
           /\ job.snapshot \in Seq(Block) /\ job.snapshot # <<>>
           /\ chain_state = Front(job.snapshot) /\ canonical = disk_index
           /\ tip_timestamp = Tip(job.snapshot) /\ job.len_before = Len(job.snapshot)
           /\ Good(job.snapshot) /\ Good(chain_state) /\ Good(disk_state) /\ Good(disk_index)
           /\ Good(job.old)
           /\ job.kind = "disconnect" => job.snapshot = job.old /\ job.disconnects = 0
BY Zenon DEF IInv, TypeOK, Job, PhaseInv, DisconnectInv, OldInv, GoodInv, Transition,
   DisconnectStage

\* Truncate preserves the invariant.
LEMMA TruncateStep ==
    ASSUME IInv, Truncate
    PROVE  IInv'
<1> DEFINE short == SubSeq(canonical, 1, job.len_before - 1)
<1>1. stage = "truncate" /\ tip_timestamp' = tip_timestamp
  BY Zenon DEF Truncate
<1>2. /\ owner = "transition" /\ ~persistence_fault /\ unsynced = Synced
      /\ job.kind \in {"disconnect", "reorg"} /\ job \in Job
      /\ job.snapshot \in Seq(Block) /\ job.snapshot # <<>>
      /\ chain_state = Front(job.snapshot) /\ canonical = disk_index
      /\ tip_timestamp = Tip(job.snapshot) /\ job.len_before = Len(job.snapshot)
      /\ Good(job.snapshot) /\ Good(chain_state) /\ Good(disk_state) /\ Good(job.old)
      /\ job.kind = "disconnect" => job.snapshot = job.old /\ job.disconnects = 0
  BY <1>1, DisconnectFacts, Zenon
<1>3. canonical = job.snapshot
  BY <1>1, Zenon DEF IInv, DisconnectInv
<1>4. short = chain_state
  BY <1>2, <1>3, Zenon DEF Front
<1>5. PICK r \in Outcome :
         /\ save_blockstore_index(r, chain_state)
         /\ handle_persistence_error(r, TRUE)
         /\ CommitToMemory(r, chain_state)
         /\ chain_state' = IF r = "before" THEN job.snapshot ELSE chain_state
         /\ IF r = "ok"
            THEN stage' = "disconnect_save" /\ UNCHANGED <<owner, stable_tip, job>>
            ELSE Fail(TRUE)
  BY <1>4, ZenonT(60), Zenon DEF Truncate
<1>6. /\ disk_index' = IF r = "before" THEN job.snapshot ELSE chain_state
      /\ canonical' \in {chain_state, job.snapshot}
      /\ r # "after" => canonical' = disk_index'
      /\ unsynced' = IF r = "after" THEN [file |-> "index", prior |-> job.snapshot] ELSE Synced
      /\ persistence_fault' = (r = "after")
      /\ reload_error' \in BOOLEAN
      /\ UNCHANGED <<blocks, headers, undos, disk_state, lost>>
  BY <1>2, <1>3, <1>5, Zenon DEF IInv, TypeOK, Outcome, save_blockstore_index,
                    handle_persistence_error, CommitToMemory
<1>7. chain_state \in Seq(Block) /\ Len(chain_state) = Len(job.snapshot) - 1
  BY <1>2, FrontFacts, Zenon
<1>8. TypeOK'
  BY <1>1, <1>2, <1>5, <1>6, <1>7, NoJobType, Zenon
, ZenonT(60)     DEF IInv, TypeOK, Fail, finish_failure, Stage, Owner, Commit, Synced
<1>9. ASSUME job.kind = "reorg"
      PROVE  /\ Len(chain_state) = job.base + job.disconnects /\ job.base <= Len(chain_state)
             /\ \A i \in 1..job.base : chain_state[i] = job.old[i]
  <2>1. /\ job.base \in Nat /\ job.disconnects \in Nat
        /\ Len(job.snapshot) = job.base + job.disconnects + 1
        /\ \A i \in 1..job.base : job.snapshot[i] = job.old[i]
    BY <1>1, <1>2, <1>3, <1>9, Zenon DEF IInv, ReorgInv, Job
  <2>2. Len(chain_state) = job.base + job.disconnects /\ job.base <= Len(chain_state)
    BY <1>7, <2>1, SMTT(60)
  <2>3. \A i \in 1..Len(chain_state) : chain_state[i] = job.snapshot[i]
    BY <1>2, <1>7 DEF Front
  <2>4. \A i \in 1..job.base : i \in 1..Len(chain_state)
    BY <1>7, <2>1, <2>2, SMTT(60)
  <2> QED
    BY <2>1, <2>2, <2>3, <2>4, ZenonT(60), Zenon
<1>10. CASE r # "ok"
  <2>1. /\ Good(disk_index') /\ Good(disk_state') /\ Good(chain_state') /\ Good(canonical')
        /\ unsynced'.file \in {"index", "state"} => Good(unsynced'.prior)
    BY <1>2, <1>5, <1>6, Zenon DEF Synced
  <2>2. job.kind = "reorg" /\ ~persistence_fault' =>
          job.base <= Len(canonical') /\ \A i \in 1..job.base : canonical'[i] = job.old[i]
    <3>1. ~persistence_fault' => canonical' = canonical
      BY <1>3, <1>6, <1>10, Zenon DEF Outcome
    <3> QED
      BY <3>1, Zenon DEF IInv, ReorgInv
  <2>3. ~persistence_fault' /\ job.kind # "reorg" =>
          canonical' = chain_state' /\ tip_timestamp' = Tip(chain_state')
    BY <1>1, <1>2, <1>5, <1>6, <1>10, Zenon DEF Outcome
  <2>4. Fail(TRUE) /\ (~persistence_fault' => unsynced' = Synced /\ disk_index' = canonical')
    BY <1>5, <1>6, <1>10, Zenon
  <2> QED
    BY <1>2, <1>8, <2>1, <2>2, <2>3, <2>4, Failed, ZenonT(60), Zenon
<1>11. CASE r = "ok"
  <2>1. /\ stage' = "disconnect_save" /\ UNCHANGED <<owner, stable_tip, job, chain_state>>
        /\ disk_index' = chain_state /\ canonical' = chain_state /\ unsynced' = Synced
        /\ ~persistence_fault'
    BY <1>5, <1>6, <1>11, ZenonT(60), Zenon
  <2>2. PhaseInv' /\ OpenInv' /\ SideInv'
    BY <1>2, <2>1, Zenon DEF PhaseInv, OpenInv, SideInv, Transition, ApplyStage, SaveStage,
                      DisconnectStage, ReorgStage, Synced
  <2>3. ApplyInv' /\ SaveInv' /\ DisconnectInv' /\ OldInv'
    BY <1>1, <1>2, <2>1, Zenon DEF IInv, ApplyInv, SaveInv, DisconnectInv, OldInv, ApplyStage,
       SaveStage
  <2>4. ReorgInv'
    BY <1>9, <2>1, Zenon DEF IInv, ReorgInv, ApplyStage, SaveStage
  <2>5. GoodInv' /\ BranchInv'
    BY <1>1, <1>2, <1>6, <2>1, Zenon DEF IInv, GoodInv, BranchInv, ApplyStage, SaveStage,
       DisconnectStage, Synced
  <2> QED
    BY <1>8, <2>2, <2>3, <2>4, <2>5, Zenon DEF IInv
<1> QED
  BY <1>10, <1>11, Zenon

\* DisconnectSave preserves the invariant.
LEMMA DisconnectSaveStep ==
    ASSUME IInv, DisconnectSave
    PROVE  IInv'
<1>1. stage = "disconnect_save" /\ UNCHANGED <<chain_state, canonical>>
  BY Zenon DEF DisconnectSave
<1>2. /\ owner = "transition" /\ ~persistence_fault /\ unsynced = Synced
      /\ job.kind \in {"disconnect", "reorg"} /\ job \in Job
      /\ job.snapshot \in Seq(Block) /\ job.snapshot # <<>>
      /\ chain_state = Front(job.snapshot) /\ canonical = disk_index
      /\ tip_timestamp = Tip(job.snapshot) /\ job.len_before = Len(job.snapshot)
      /\ Good(job.snapshot) /\ Good(chain_state) /\ Good(disk_state) /\ Good(job.old)
      /\ job.kind = "disconnect" => job.snapshot = job.old /\ job.disconnects = 0
  BY <1>1, DisconnectFacts, Zenon
<1>3. canonical = chain_state /\ chain_state \in Seq(Block)
  BY <1>1, Zenon DEF IInv, DisconnectInv, TypeOK
<1>4. PICK r \in Outcome :
         /\ save_atomic(r, chain_state)
         /\ handle_persistence_error(r, TRUE)
         /\ tip_timestamp' = IF r = "ok" THEN Tip(chain_state) ELSE tip_timestamp
         /\ IF r = "after"
            THEN Fail(TRUE)
            ELSE /\ stage' = IF r = "ok" THEN "disconnect_next" ELSE "restore"
                 /\ UNCHANGED <<owner, stable_tip, job>>
  BY ZenonT(60), Zenon DEF DisconnectSave
<1>5. /\ disk_state' = IF r = "before" THEN disk_state ELSE chain_state
      /\ unsynced' = IF r = "after" THEN [file |-> "state", prior |-> disk_state] ELSE Synced
      /\ persistence_fault' = (r = "after")
      /\ reload_error' \in BOOLEAN
      /\ UNCHANGED <<blocks, headers, undos, disk_index, lost>>
  BY <1>2, <1>4, Zenon DEF IInv, TypeOK, Outcome, save_atomic, handle_persistence_error
<1>6. TypeOK'
  BY <1>1, <1>2, <1>3, <1>4, <1>5, NoJobType, TipType, Zenon
, ZenonT(60)     DEF IInv, TypeOK, Fail, finish_failure, Stage, Owner, Commit, Synced
<1>7. CASE r = "after"
  BY <1>1, <1>2, <1>3, <1>4, <1>5, <1>6, <1>7, Failed, ZenonT(60), Zenon
<1>8. CASE r # "after"
  <2>1. /\ stage' = IF r = "ok" THEN "disconnect_next" ELSE "restore"
        /\ UNCHANGED <<owner, stable_tip, job>> /\ unsynced' = Synced /\ ~persistence_fault'
    BY <1>4, <1>5, <1>8, ZenonT(60), Zenon
  <2>2. PhaseInv' /\ OpenInv' /\ SideInv'
    BY <1>2, <2>1, Zenon DEF PhaseInv, OpenInv, SideInv, Transition, ApplyStage, SaveStage,
                      DisconnectStage, ReorgStage, Synced
  <2>3. ApplyInv' /\ SaveInv' /\ DisconnectInv'
    BY <1>1, <1>2, <1>3, <1>4, <1>5, <2>1, Zenon DEF ApplyInv, SaveInv, DisconnectInv,
       ApplyStage, SaveStage
  <2>4. OldInv'
    BY <1>1, <1>2, <2>1, ZenonT(60), Zenon DEF IInv, OldInv
  <2>5. ReorgInv'
    BY <1>1, <1>2, <1>5, <2>1, ZenonT(60), Zenon DEF IInv, ReorgInv, ApplyStage, SaveStage
  <2>6. GoodInv' /\ BranchInv'
    BY <1>1, <1>2, <1>5, <2>1, ZenonT(60), Zenon DEF IInv, GoodInv, BranchInv, ApplyStage, SaveStage,
       DisconnectStage, Synced
  <2> QED
    BY <1>6, <2>2, <2>3, <2>4, <2>5, <2>6, Zenon DEF IInv
<1> QED
  BY <1>7, <1>8, Zenon

\* Restore preserves the invariant: the index it writes is the one before the
\* disconnect.
LEMMA RestoreStep ==
    ASSUME IInv, Restore
    PROVE  IInv'
<1>1. stage = "restore"
  BY Zenon DEF Restore
<1>2. /\ owner = "transition" /\ ~persistence_fault /\ unsynced = Synced
      /\ job.kind \in {"disconnect", "reorg"} /\ job \in Job
      /\ job.snapshot \in Seq(Block) /\ job.snapshot # <<>>
      /\ chain_state = Front(job.snapshot) /\ canonical = disk_index
      /\ tip_timestamp = Tip(job.snapshot) /\ job.len_before = Len(job.snapshot)
      /\ Good(job.snapshot) /\ Good(chain_state) /\ Good(disk_state) /\ Good(job.old)
      /\ job.kind = "disconnect" => job.snapshot = job.old /\ job.disconnects = 0
  BY <1>1, DisconnectFacts, ZenonT(60), Zenon
<1>3. canonical = chain_state
  BY <1>1, Zenon DEF IInv, DisconnectInv
<1>4. /\ chain_state \in Seq(Block) /\ Len(chain_state) = Len(job.snapshot) - 1
      /\ chain_state # job.snapshot /\ chain_state \o <<Tip(job.snapshot)>> = job.snapshot
      /\ Tip(job.snapshot) \in Block
  BY <1>2, FrontFacts, Zenon
<1>5. rollback_canonical(job.len_before - 1, <<Tip(job.snapshot)>>) = job.snapshot
  <2>1. ~(job.len_before - 1 < Len(canonical))
    BY <1>2, <1>3, <1>4, SMTT(60)
  <2>2. SubSeq(canonical, 1, Len(canonical)) = chain_state
    BY <1>3, <1>4, PrefixWhole, Zenon
  <2> QED
    BY <1>4, <2>1, <2>2, Zenon DEF rollback_canonical
<1>6. PICK r \in Outcome :
         /\ save_blockstore_index(r, job.snapshot)
         /\ handle_persistence_error(r, TRUE)
         /\ CommitToMemory(r, job.snapshot)
         /\ chain_state' = IF r = "before" THEN chain_state ELSE job.snapshot
         /\ tip_timestamp' = IF r = "before" THEN Tip(chain_state) ELSE tip_timestamp
         /\ Fail(TRUE)
  BY <1>5, ZenonT(60), Zenon DEF Restore
<1>7. /\ disk_index' = IF r = "before" THEN chain_state ELSE job.snapshot
      /\ canonical' \in {chain_state, job.snapshot}
      /\ r # "after" => canonical' = disk_index'
      /\ unsynced' = IF r = "after" THEN [file |-> "index", prior |-> chain_state] ELSE Synced
      /\ persistence_fault' = (r = "after")
      /\ reload_error' \in BOOLEAN
      /\ UNCHANGED <<blocks, headers, undos, disk_state, lost>>
  BY <1>2, <1>3, <1>6, Zenon DEF IInv, TypeOK, Outcome, save_blockstore_index,
                    handle_persistence_error, CommitToMemory
<1>8. TypeOK'
  BY <1>2, <1>4, <1>6, <1>7, NoJobType, TipType, Zenon
, ZenonT(60)     DEF IInv, TypeOK, Fail, finish_failure, Stage, Owner, Commit, Synced
<1>9. /\ Good(disk_index') /\ Good(disk_state') /\ Good(chain_state') /\ Good(canonical')
      /\ unsynced'.file \in {"index", "state"} => Good(unsynced'.prior)
  BY <1>2, <1>6, <1>7, Zenon DEF Synced
<1>10. ASSUME job.kind = "reorg"
       PROVE  \A s \in {chain_state, job.snapshot} :
                job.base <= Len(s) /\ \A i \in 1..job.base : s[i] = job.old[i]
  <2>1. /\ job.base \in Nat /\ job.base <= Len(chain_state)
        /\ \A i \in 1..job.base : chain_state[i] = job.old[i]
    BY <1>2, <1>3, <1>10, Zenon DEF IInv, ReorgInv, Job
  <2>2. \A i \in 1..Len(chain_state) : chain_state[i] = job.snapshot[i]
    BY <1>2, <1>4, SMTT(60) DEF Front
  <2>3. job.base <= Len(job.snapshot) /\ \A i \in 1..job.base : i \in 1..Len(chain_state)
    BY <1>2, <1>4, <2>1, SMTT(60)
  <2> QED
    BY <2>1, <2>2, <2>3, Zenon
<1>11. job.kind # "reorg" /\ ~persistence_fault' /\ chain_state' = job.old =>
         canonical' = chain_state' /\ tip_timestamp' = Tip(chain_state')
  BY <1>2, <1>4, <1>6, <1>7, Zenon DEF Outcome
<1>12. ~persistence_fault' => unsynced' = Synced /\ disk_index' = canonical'
  BY <1>7, Zenon
<1> QED
  BY <1>2, <1>6, <1>7, <1>8, <1>9, <1>10, <1>11, <1>12, Failed, ZenonT(60), Zenon

\* RollbackIndex preserves the invariant: the index it writes is the one the
\* reorg started from.
LEMMA RollbackIndexStep ==
    ASSUME IInv, RollbackIndex
    PROVE  IInv'
<1>1. /\ stage = "rollback_index" /\ owner = "transition" /\ ~persistence_fault
      /\ unsynced = Synced /\ job.kind = "reorg" /\ job \in Job
      /\ job.old \in Seq(Block) /\ canonical \in Seq(Block) /\ job.base \in Nat
      /\ disk_index = canonical /\ job.base <= Len(canonical) /\ job.base <= Len(job.old)
      /\ \A i \in 1..job.base : canonical[i] = job.old[i]
      /\ job.suffix = SubSeq(job.old, job.base + 1, Len(job.old))
      /\ job.old_timestamp = Tip(job.old)
      /\ Good(job.old) /\ Good(disk_index) /\ Good(disk_state) /\ Good(chain_state)
  BY ZenonT(60), Zenon DEF RollbackIndex, IInv, TypeOK, Job, PhaseInv, Transition, ReorgStage, ReorgInv,
     OldInv, GoodInv
<1>2. rollback_canonical(job.base, job.suffix) = job.old
  <2>1. (IF job.base < Len(canonical) THEN job.base ELSE Len(canonical)) = job.base
    BY <1>1
  <2>2. SubSeq(canonical, 1, job.base) \o SubSeq(job.old, job.base + 1, Len(job.old)) = job.old
    BY <1>1, RollbackFacts, Zenon
  <2> QED
    BY <1>1, <2>1, <2>2, ZenonT(60), Zenon DEF rollback_canonical
<1>3. PICK r \in Outcome :
         /\ save_blockstore_index(r, job.old)
         /\ handle_persistence_error(r, TRUE)
         /\ CommitToMemory(r, job.old)
         /\ chain_state' = IF r = "before" THEN chain_state ELSE job.old
         /\ tip_timestamp' = IF r = "before" THEN tip_timestamp ELSE job.old_timestamp
         /\ IF r = "ok"
            THEN stage' = "rollback_save" /\ UNCHANGED <<owner, stable_tip, job>>
            ELSE finish_failure(FALSE)
  BY <1>2, ZenonT(60), Zenon DEF RollbackIndex
<1>4. /\ disk_index' = IF r = "before" THEN disk_index ELSE job.old
      /\ canonical' \in {canonical, job.old}
      /\ r # "after" => canonical' = disk_index'
      /\ unsynced' = IF r = "after" THEN [file |-> "index", prior |-> disk_index] ELSE Synced
      /\ persistence_fault' = (r = "after")
      /\ reload_error' \in BOOLEAN
      /\ UNCHANGED <<blocks, headers, undos, disk_state, lost>>
  BY <1>1, <1>3, Zenon DEF IInv, TypeOK, Outcome, save_blockstore_index,
                    handle_persistence_error, CommitToMemory
<1>5. TypeOK'
  BY <1>1, <1>3, <1>4, NoJobType, Zenon
, ZenonT(60)     DEF IInv, TypeOK, finish_failure, Stage, Owner, Commit, Synced, Job
<1>6. CASE r # "ok"
  <2>1. stage' = "idle" /\ job' = NoJob /\ owner' = "unavailable"
    BY <1>3, <1>6, Zenon DEF finish_failure
  <2>2. /\ Good(disk_index') /\ Good(disk_state') /\ Good(chain_state') /\ Good(canonical')
        /\ unsynced'.file \in {"index", "state"} => Good(unsynced'.prior)
        /\ ~persistence_fault' => unsynced' = Synced
    BY <1>1, <1>3, <1>4, Zenon DEF Synced
  <2> QED
    BY <1>5, <2>1, <2>2, Ended, Zenon
<1>7. CASE r = "ok"
  <2>1. /\ stage' = "rollback_save" /\ UNCHANGED <<owner, stable_tip, job>>
        /\ disk_index' = job.old /\ canonical' = job.old /\ chain_state' = job.old
        /\ tip_timestamp' = Tip(job.old) /\ unsynced' = Synced /\ ~persistence_fault'
        /\ disk_state' = disk_state
    BY <1>1, <1>3, <1>4, <1>7, Zenon
  <2>2. PhaseInv' /\ OpenInv' /\ SideInv'
    BY <1>1, <2>1, Zenon DEF PhaseInv, OpenInv, SideInv, Transition, ApplyStage, SaveStage,
                      DisconnectStage, ReorgStage, Synced
  <2>3. ApplyInv' /\ SaveInv' /\ DisconnectInv' /\ OldInv'
    BY <1>1, <2>1, ZenonT(60), Zenon DEF IInv, ApplyInv, SaveInv, DisconnectInv, OldInv, ApplyStage,
       SaveStage
  <2>4. ReorgInv'
    BY <1>1, <2>1, ZenonT(60), Zenon DEF ReorgInv, ApplyStage, SaveStage
  <2>5. GoodInv'
    BY <1>1, <2>1, ZenonT(60), Zenon DEF IInv, GoodInv, Synced
  <2>6. BranchInv'
    BY <2>1, Zenon DEF IInv, BranchInv, ApplyStage, SaveStage, DisconnectStage
  <2> QED
    BY <1>5, <2>2, <2>3, <2>4, <2>5, <2>6, Zenon DEF IInv
<1> QED
  BY <1>6, <1>7, Zenon

\* RollbackSave preserves the invariant: only a complete rollback reopens.
LEMMA RollbackSaveStep ==
    ASSUME IInv, RollbackSave
    PROVE  IInv'
<1>1. /\ stage = "rollback_save" /\ ~persistence_fault /\ unsynced = Synced
      /\ chain_state = job.old /\ canonical = chain_state /\ disk_index = chain_state
      /\ stable_tip = Tip(chain_state) /\ tip_timestamp = Tip(chain_state)
      /\ Good(chain_state) /\ Good(disk_state)
      /\ UNCHANGED <<canonical, tip_timestamp>>
  BY Zenon DEF RollbackSave, IInv, PhaseInv, Transition, ReorgStage, OldInv, DisconnectInv, GoodInv
<1>2. PICK r \in Outcome :
         /\ save_atomic(r, chain_state)
         /\ handle_persistence_error(r, TRUE)
         /\ UNCHANGED chain_state
         /\ finish_failure(r = "ok")
  BY ZenonT(60), Zenon DEF RollbackSave
<1>3. /\ disk_state' = IF r = "before" THEN disk_state ELSE chain_state
      /\ unsynced' = IF r = "after" THEN [file |-> "state", prior |-> disk_state] ELSE Synced
      /\ persistence_fault' = (r = "after")
      /\ reload_error' \in BOOLEAN
      /\ UNCHANGED <<blocks, headers, undos, disk_index, lost>>
      /\ stage' = "idle" /\ job' = NoJob /\ owner' \in {"open", "unavailable"}
      /\ stable_tip' = stable_tip
  BY <1>1, <1>2, Zenon DEF IInv, TypeOK, Outcome, save_atomic, handle_persistence_error, finish_failure
<1>4. TypeOK'
  BY <1>1, <1>2, <1>3, NoJobType, Zenon DEF IInv, TypeOK, Stage, Owner, Commit, Synced
<1> QED
  BY <1>1, <1>2, <1>3, <1>4, Ended, ZenonT(60), Zenon DEF Synced

\* ConnectNext preserves the invariant: the next branch block extends the chain.
LEMMA ConnectNextStep ==
    ASSUME IInv, ConnectNext
    PROVE  IInv'
<1>1. /\ stage = "connect_next" /\ owner = "transition" /\ ~persistence_fault
      /\ unsynced = Synced /\ job.kind = "reorg" /\ job \in Job /\ job.connects \in Seq(Block)
      /\ chain_state \in Seq(Block) /\ canonical = chain_state /\ disk_index = chain_state
      /\ tip_timestamp = Tip(chain_state) /\ job.base \in Nat
      /\ Good(chain_state) /\ Good(disk_state) /\ Good(job.old)
      /\ job.base <= Len(chain_state) /\ \A i \in 1..job.base : chain_state[i] = job.old[i]
      /\ UNCHANGED <<blocks, headers, undos, disk_index, disk_state, unsynced, lost, canonical,
                     tip_timestamp, persistence_fault, reload_error>>
  BY Zenon DEF ConnectNext, disk, IInv, TypeOK, Job, PhaseInv, DisconnectInv, ReorgInv, GoodInv,
         Transition, ReorgStage
<1>2. CASE /\ job.connects # <<>>
           /\ Connect(Head(job.connects), [job EXCEPT !.connects = Tail(@)])
           /\ UNCHANGED <<owner, stable_tip>>
  <2> DEFINE c == job.connects
             b == Head(c)
             rest == Tail(c)
  <2>1. /\ c \in Seq(Block) /\ b \in Block /\ b = c[1] /\ 1 \in 1..Len(c)
        /\ rest \in Seq(Block) /\ Len(rest) = Len(c) - 1
        /\ \A i \in 1..Len(rest) : rest[i] = c[i + 1]
    BY <1>1, <1>2
  <2>2. b \notin Invalid /\ Parent(b) = Tip(chain_state)
    BY <1>1, <1>2, <2>1, Zenon DEF IInv, BranchInv
  <2>3. /\ chain_state' = Append(chain_state, b) /\ stage' = "block"
        /\ job' = [job EXCEPT !.connects = rest, !.block = b, !.snapshot = chain_state,
                              !.len_before = Len(canonical)]
        /\ UNCHANGED <<owner, stable_tip>>
    BY <1>2, Zenon DEF Connect
  <2>4. \A i \in 1..Len(rest) : rest[i] \notin Invalid
    <3>1. \A i \in 1..Len(rest) : i + 1 \in 1..Len(c)
      BY <2>1, SMTT(60)
    <3> QED
      BY <2>1, <3>1, Zenon DEF IInv, BranchInv
  <2>5. \A i \in 2..Len(rest) : Parent(rest[i]) = rest[i - 1]
    <3> TAKE i \in 2..Len(rest)
    <3>1. /\ i + 1 \in 2..Len(c) /\ i \in 1..Len(rest) /\ i - 1 \in 1..Len(rest)
          /\ (i - 1) + 1 = i /\ (i + 1) - 1 = i
      BY <2>1, SMTT(60)
    <3>2. Parent(c[i + 1]) = c[(i + 1) - 1]
      BY <3>1, Zenon DEF IInv, BranchInv
    <3> QED
      BY <2>1, <3>1, <3>2, Zenon
  <2>6. rest # <<>> => Parent(rest[1]) = b
    <3>1. rest # <<>> => 2 \in 2..Len(c) /\ 1 \in 1..Len(rest) /\ 1 + 1 = 2 /\ 2 - 1 = 1
      BY <2>1, SMTT(60)
    <3>2. rest # <<>> => Parent(c[2]) = c[2 - 1]
      BY <3>1, Zenon DEF IInv, BranchInv
    <3> QED
      BY <2>1, <3>1, <3>2, Zenon
  <2> HIDE DEF b, rest, c
  <2>7. Good(chain_state') /\ chain_state' \in Seq(Block)
    BY <1>1, <2>1, <2>2, <2>3, GoodAppend, AppendFacts, Zenon
  <2>8. Len(canonical) \in Nat
    BY <1>1
  <2>9. /\ job' \in Job /\ job'.kind = "reorg" /\ job'.connects = rest /\ job'.block = b
        /\ job'.snapshot = chain_state /\ job'.len_before = Len(canonical)
        /\ job'.old = job.old /\ job'.old_timestamp = job.old_timestamp
        /\ job'.base = job.base /\ job'.suffix = job.suffix
    BY <1>1, <2>1, <2>3, <2>8, Zenon DEF Job
  <2>10. TypeOK'
    BY <1>1, <2>3, <2>7, <2>9, Zenon DEF IInv, TypeOK, Stage
  <2>11. PhaseInv' /\ OpenInv' /\ SideInv'
    BY <1>1, <2>3, <2>9, Zenon DEF PhaseInv, OpenInv, SideInv, Transition, ApplyStage, SaveStage,
                            DisconnectStage, ReorgStage, Synced
  <2>12. ApplyInv' /\ SaveInv' /\ DisconnectInv'
    BY <1>1, <2>1, <2>3, <2>9, Zenon DEF ApplyInv, SaveInv, DisconnectInv, ApplyStage, SaveStage
  <2>13. OldInv'
    BY <1>1, <2>3, <2>9, Zenon DEF IInv, OldInv
  <2>14. ReorgInv'
    BY <1>1, <2>3, <2>9, Zenon DEF IInv, ReorgInv, ApplyStage, SaveStage
  <2>15. GoodInv'
    BY <1>1, <2>7, <2>9, Zenon DEF GoodInv, Synced
  <2>16. BranchInv'
    BY <2>3, <2>4, <2>5, <2>6, <2>9, Zenon DEF BranchInv, ApplyStage, SaveStage, DisconnectStage
  <2> QED
    BY <2>10, <2>11, <2>12, <2>13, <2>14, <2>15, <2>16, Zenon DEF IInv
<1>3. CASE UNCHANGED chain_state /\ UNCHANGED persistence_fault /\ Fail(TRUE)
  <2>1. TypeOK'
    BY <1>1, <1>3, NoJobType, Zenon DEF IInv, TypeOK, Fail, finish_failure, Stage, Owner
  <2> QED
    BY <1>1, <1>3, <2>1, Failed, ZenonT(60), Zenon DEF Synced
<1>4. CASE UNCHANGED chain_state /\ finish_success
  <2>1. TypeOK'
    BY <1>1, <1>4, NoJobType, TipType, Zenon DEF IInv, TypeOK, finish_success, Stage, Owner
  <2> QED
    BY <1>1, <1>4, <2>1, Ended, ZenonT(60), Zenon DEF finish_success, Synced
<1> QED
  BY <1>2, <1>3, <1>4, Zenon DEF ConnectNext

\* A step that ends the process: nothing of the engine is left.
LEMMA Exited ==
    ASSUME IInv, Exit, blocks' \subseteq Block, headers' \subseteq Block, undos' \subseteq Block,
           disk_index' \in Seq(Block), disk_state' \in Seq(Block), unsynced' \in Commit,
           lost' \in Nat, Good(disk_index'), Good(disk_state'),
           unsynced'.file \in {"index", "state"} => Good(unsynced'.prior)
    PROVE  IInv'
<1>1. TypeOK'
  <2>1. <<>> \in Seq(Block)
    OBVIOUS
  <2> QED
    BY <2>1, NoJobType, ZenonT(60), Zenon DEF TypeOK, Exit, Stage, Owner
<1>2. PhaseInv' /\ OpenInv' /\ SideInv'
  BY Zenon DEF Exit, PhaseInv, OpenInv, SideInv, Transition, ApplyStage, SaveStage, DisconnectStage,
         ReorgStage, NoJob
<1>3. ApplyInv' /\ SaveInv' /\ DisconnectInv' /\ OldInv' /\ ReorgInv'
  BY Zenon DEF Exit, ApplyInv, SaveInv, DisconnectInv, OldInv, ReorgInv, ApplyStage, SaveStage,
     NoJob
<1>4. GoodInv' /\ BranchInv'
  BY GoodEmpty, SMTT(60) DEF Exit, GoodInv, BranchInv, NoJob
<1> QED
  BY <1>1, <1>2, <1>3, <1>4, Zenon DEF IInv

\* Crash and PowerLoss preserve the invariant.
LEMMA CrashStep ==
    ASSUME IInv, Crash \/ PowerLoss
    PROVE  IInv'
<1>1. CASE Crash
  BY <1>1, Exited, Zenon DEF Crash, disk, IInv, TypeOK, GoodInv
<1>2. CASE PowerLoss
  <2>1. Exit /\ unsynced' = Synced /\ lost' = lost
    BY <1>2, Zenon DEF PowerLoss
  <2>2. blocks' \subseteq Block /\ headers' \subseteq Block /\ undos' \subseteq Block
    BY <1>2, ZenonT(60), Zenon DEF PowerLoss, Reverted, IInv, TypeOK
  <2>3. disk_index' \in Seq(Block) /\ disk_state' \in Seq(Block)
    BY <1>2, ZenonT(60), Zenon DEF PowerLoss, Reverted, IInv, TypeOK, Commit
  <2>4. Good(disk_index') /\ Good(disk_state')
    BY <1>2, ZenonT(60), Zenon DEF PowerLoss, Reverted, IInv, GoodInv
  <2>5. unsynced' \in Commit /\ unsynced'.file \notin {"index", "state"} /\ lost' \in Nat
    BY <2>1 DEF Synced, Commit, IInv, TypeOK
  <2> QED
    BY <2>1, <2>2, <2>3, <2>4, <2>5, Exited, Zenon
<1> QED
  BY <1>1, <1>2, Zenon

\* LoseFile preserves the invariant.
LEMMA LoseFileStep ==
    ASSUME IInv, LoseFile
    PROVE  IInv'
<1>1. /\ stage = "down" /\ lost' = lost + 1
      /\ blocks' \subseteq blocks /\ headers' \subseteq headers /\ undos' \subseteq undos
      /\ disk_state' \in {disk_state, <<>>}
      /\ UNCHANGED <<disk_index, unsynced, stage, chain_state, canonical, tip_timestamp,
                     persistence_fault, reload_error, owner, stable_tip, job>>
  BY Zenon DEF LoseFile, engine
<1>2. TypeOK'
  <2>1. disk_state \in Seq(Block) /\ <<>> \in Seq(Block)
    BY DEF IInv, TypeOK
  <2>2. disk_state' \in Seq(Block)
    BY <1>1, <2>1, Zenon
  <2> QED
    BY <1>1, <2>2, SMTT(60) DEF IInv, TypeOK
<1>3. PhaseInv' /\ OpenInv' /\ SideInv' /\ ApplyInv' /\ SaveInv' /\ DisconnectInv'
  BY <1>1, Zenon DEF IInv, PhaseInv, OpenInv, SideInv, ApplyInv, SaveInv, DisconnectInv
<1>4. OldInv' /\ ReorgInv' /\ BranchInv'
  BY <1>1, ZenonT(60), Zenon DEF IInv, OldInv, ReorgInv, BranchInv
<1>5. GoodInv'
  BY <1>1, GoodEmpty, ZenonT(60), Zenon DEF IInv, GoodInv
<1> QED
  BY <1>2, <1>3, <1>4, <1>5, Zenon DEF IInv

\* Lemma for a startup step: the engine has chains but no operation yet.
LEMMA Booting ==
    ASSUME TypeOK', stage' \in {"boot_truncate", "boot_save"}, job' = NoJob, owner' = "none",
           ~persistence_fault', unsynced' = Synced, canonical' = disk_index',
           Good(disk_index'), Good(disk_state'), Good(chain_state')
    PROVE  IInv'
<1>1. PhaseInv' /\ OpenInv' /\ SideInv'
  BY Zenon DEF PhaseInv, OpenInv, SideInv, Transition, ApplyStage, SaveStage, DisconnectStage,
         ReorgStage, NoJob
<1>2. ApplyInv' /\ SaveInv' /\ DisconnectInv' /\ OldInv' /\ ReorgInv'
  BY ZenonT(60), Zenon DEF ApplyInv, SaveInv, DisconnectInv, OldInv, ReorgInv, ApplyStage, SaveStage, NoJob
<1>3. GoodInv' /\ BranchInv'
  BY GoodEmpty, SMTT(60) DEF GoodInv, BranchInv, NoJob, Synced
<1> QED
  BY <1>1, <1>2, <1>3, Zenon DEF IInv

\* Startup preserves the invariant.
LEMMA StartupStep ==
    ASSUME IInv, Startup
    PROVE  IInv'
<1>1. /\ stage = "down" /\ stage' \in {"boot_save", "boot_truncate"} /\ unsynced' = Synced
      /\ chain_state' = disk_state /\ canonical' = disk_index
      /\ UNCHANGED <<blocks, headers, undos, disk_index, disk_state, lost, tip_timestamp,
                     persistence_fault, reload_error, owner, stable_tip, job>>
  BY Zenon DEF Startup
<1>2. owner = "none" /\ job = NoJob /\ ~persistence_fault
  BY <1>1, Zenon DEF IInv, PhaseInv
<1>3. TypeOK'
  BY <1>1 DEF IInv, TypeOK, Stage, Commit, Synced
<1> QED
  BY <1>1, <1>2, <1>3, Booting, ZenonT(60), Zenon DEF IInv, GoodInv

\* BootTruncate preserves the invariant.
LEMMA BootTruncateStep ==
    ASSUME IInv, BootTruncate
    PROVE  IInv'
<1>1. PICK r \in Outcome, n \in 0..Len(canonical) :
         /\ save_blockstore_index(r, SubSeq(canonical, 1, n))
         /\ \/ /\ r = "ok"
               /\ canonical' = SubSeq(canonical, 1, n)
               /\ stage' = "boot_save"
               /\ UNCHANGED <<chain_state, tip_timestamp, persistence_fault, reload_error,
                              owner, stable_tip, job>>
            \/ r # "ok" /\ Exit
  BY Zenon DEF BootTruncate
<1> DEFINE p == SubSeq(canonical, 1, n)
<1>2. /\ stage = "boot_truncate" /\ owner = "none" /\ job = NoJob /\ ~persistence_fault
      /\ unsynced = Synced /\ canonical = disk_index /\ canonical \in Seq(Block)
      /\ Good(canonical) /\ Good(disk_state) /\ Good(chain_state)
  BY ZenonT(60), Zenon DEF BootTruncate, IInv, TypeOK, PhaseInv, GoodInv
<1>3. p \in Seq(Block) /\ Good(p)
  BY <1>2, PrefixType, GoodPrefix, SMTT(60)
<1> HIDE DEF p
<1>4. /\ disk_index' = IF r = "before" THEN disk_index ELSE p
      /\ unsynced' = IF r = "after" THEN [file |-> "index", prior |-> disk_index] ELSE Synced
      /\ UNCHANGED <<blocks, headers, undos, disk_state, lost>>
  BY <1>1, <1>2, Zenon DEF save_blockstore_index, p
<1>5. /\ disk_index' \in Seq(Block) /\ unsynced' \in Commit /\ Good(disk_index')
      /\ unsynced'.file \in {"index", "state"} => Good(unsynced'.prior)
  BY <1>2, <1>3, <1>4, SMTT(60) DEF Commit, Synced
<1>6. CASE r = "ok"
  <2>1. /\ canonical' = p /\ disk_index' = p /\ stage' = "boot_save" /\ unsynced' = Synced
        /\ UNCHANGED <<chain_state, tip_timestamp, persistence_fault, reload_error,
                       owner, stable_tip, job>>
    BY <1>1, <1>4, <1>6, Zenon DEF p
  <2>2. TypeOK'
    BY <1>3, <1>4, <1>5, <2>1, Zenon DEF IInv, TypeOK, Stage
  <2> QED
    BY <1>2, <1>3, <1>4, <2>1, <2>2, Booting, Zenon
<1>7. CASE r # "ok"
  BY <1>1, <1>2, <1>4, <1>5, <1>7, Exited, ZenonT(60), Zenon DEF IInv, TypeOK
<1> QED
  BY <1>6, <1>7, Zenon

\* reconcile_chain_state_with_block_store ends with the chain of the index,
\* whatever valid chain the snapshot holds.
LEMMA ReconcileFacts ==
    ASSUME NEW s \in Seq(Block), NEW t \in Seq(Block), Good(s), Good(t)
    PROVE  reconcile(s, t) = t
<1>1. CASE s # <<>> /\ Len(s) <= Len(t) /\ t[Len(s)] = Tip(s)
  <2>1. replay_base(s, t) = s
    BY <1>1, Zenon DEF replay_base
  <2>2. SubSeq(t, 1, Len(s)) = s
    BY <1>1, GoodAgree, Zenon
  <2>3. SubSeq(t, 1, Len(s)) \o SubSeq(t, Len(s) + 1, Len(t)) = t
    <3>1. Len(s) \in Nat /\ Len(s) <= Len(t) /\ \A i \in 1..Len(s) : t[i] = t[i]
      BY <1>1
    <3> QED
      BY <3>1, RollbackFacts, Zenon
  <2> QED
    BY <2>1, <2>2, <2>3, Zenon DEF reconcile
<1>2. CASE ~(s # <<>> /\ Len(s) <= Len(t) /\ t[Len(s)] = Tip(s))
  <2>1. replay_base(s, t) = <<>>
    BY <1>2, Zenon DEF replay_base
  <2>2. SubSeq(t, Len(<<>>) + 1, Len(t)) = t /\ <<>> \o t = t
    BY SMTT(60)
  <2> QED
    BY <2>1, <2>2, Zenon DEF reconcile
<1> QED
  BY <1>1, <1>2, Zenon

\* BootSave preserves the invariant: the engine opens at the tip of the index.
LEMMA BootSaveStep ==
    ASSUME IInv, BootSave
    PROVE  IInv'
<1>1. /\ stage = "boot_save" /\ owner = "none" /\ job = NoJob /\ ~persistence_fault
      /\ unsynced = Synced /\ canonical = disk_index /\ canonical \in Seq(Block)
      /\ Good(canonical) /\ Good(disk_state) /\ Good(chain_state) /\ chain_state \in Seq(Block)
  BY Zenon DEF BootSave, IInv, TypeOK, PhaseInv, GoodInv
<1>2. reconcile(chain_state, canonical) = canonical
  BY <1>1, ReconcileFacts, Zenon
<1>3. PICK r \in Outcome :
         /\ save_atomic(r, canonical)
         /\ \/ /\ r = "ok"
               /\ chain_state' = canonical
               /\ tip_timestamp' = Tip(canonical)
               /\ stage' = "idle"
               /\ owner' = "open"
               /\ stable_tip' = Tip(canonical)
               /\ UNCHANGED <<canonical, persistence_fault, reload_error, job>>
            \/ r # "ok" /\ Exit
  BY <1>2, Zenon DEF BootSave
<1>4. /\ disk_state' = IF r = "before" THEN disk_state ELSE canonical
      /\ unsynced' = IF r = "after" THEN [file |-> "state", prior |-> disk_state] ELSE Synced
      /\ UNCHANGED <<blocks, headers, undos, disk_index, lost>>
  BY <1>1, <1>3, Zenon DEF save_atomic
<1>5. /\ disk_state' \in Seq(Block) /\ unsynced' \in Commit /\ Good(disk_state')
      /\ unsynced'.file \in {"index", "state"} => Good(unsynced'.prior)
  BY <1>1, <1>4, Zenon DEF Commit, Synced, IInv, TypeOK
<1>6. CASE r = "ok"
  <2>1. TypeOK'
    BY <1>1, <1>3, <1>4, <1>5, <1>6, TipType, Zenon DEF IInv, TypeOK, Stage, Owner
  <2> QED
    BY <1>1, <1>3, <1>4, <1>5, <1>6, <2>1, Ended, ZenonT(60), Zenon DEF Synced
<1>7. CASE r # "ok"
  BY <1>1, <1>3, <1>4, <1>5, <1>7, Exited, Zenon DEF IInv, TypeOK
<1> QED
  BY <1>6, <1>7, Zenon

-----------------------------------------------------------------------------
(* The theorems. *)

\* Every state of a fresh datadir is one the invariant describes.
LEMMA InitInv ==
    ASSUME Init
    PROVE  IInv
<1>1. TypeOK
  <2>1. <<>> \in Seq(Block)
    OBVIOUS
  <2> QED
    BY <2>1, NoJobType, Zenon DEF Init, TypeOK, Stage, Owner, Commit, Synced
<1>2. PhaseInv /\ OpenInv /\ SideInv
  BY Zenon DEF Init, PhaseInv, OpenInv, SideInv, Transition, ApplyStage, SaveStage,
     DisconnectStage,
         ReorgStage, NoJob
<1>3. ApplyInv /\ SaveInv /\ DisconnectInv /\ OldInv /\ ReorgInv
  BY Zenon DEF Init, ApplyInv, SaveInv, DisconnectInv, OldInv, ReorgInv, ApplyStage,
     SaveStage, NoJob
<1>4. GoodInv /\ BranchInv
  BY GoodEmpty DEF Init, GoodInv, BranchInv, NoJob, Synced
<1> QED
  BY <1>1, <1>2, <1>3, <1>4, Zenon DEF IInv

\* Every step, and stuttering, preserves the invariant.
LEMMA NextInv ==
    ASSUME IInv, [Next]_vars
    PROVE  IInv'
<1>1. CASE UNCHANGED vars
  <2>1. UNCHANGED <<blocks, headers, undos, disk_index, disk_state, unsynced, lost, stage,
                    chain_state, canonical, tip_timestamp, persistence_fault, reload_error, owner,
                    stable_tip, job>>
    BY <1>1, Zenon DEF vars, disk, engine
  <2>2. TypeOK' /\ PhaseInv' /\ OpenInv' /\ SideInv'
    BY <2>1, SMTT(60) DEF IInv, TypeOK, PhaseInv, OpenInv, SideInv
  <2>3. ApplyInv' /\ SaveInv' /\ DisconnectInv' /\ OldInv' /\ ReorgInv'
    BY <2>1, ZenonT(60), Zenon DEF IInv, ApplyInv, SaveInv, DisconnectInv, OldInv, ReorgInv
  <2>4. GoodInv' /\ BranchInv'
    BY <2>1, Zenon DEF IInv, GoodInv, BranchInv
  <2> QED
    BY <2>2, <2>3, <2>4, Zenon DEF IInv
<1>2. CASE \E b \in Block : ApplyDirect(b) \/ StoreSide(b) \/ StartReorg(b)
  BY <1>2, ApplyDirectStep, StoreSideStep, StartReorgStep, Zenon
<1>3. CASE DisconnectTip
  BY <1>3, DisconnectTipStep, Zenon
<1>4. CASE WriteBlock \/ WriteHeader \/ WriteUndo \/ WriteIndex \/ SaveSnapshot \/ Rewind
  BY <1>4, WriteBlockStep, WriteHeaderStep, WriteUndoStep, WriteIndexStep, SaveSnapshotStep,
     RewindStep, Zenon
<1>5. CASE WriteSideBlock \/ WriteSideHeader
  BY <1>5, WriteSideBlockStep, WriteSideHeaderStep, Zenon
<1>6. CASE DisconnectNext \/ Truncate \/ DisconnectSave \/ Restore
  BY <1>6, DisconnectNextStep, TruncateStep, DisconnectSaveStep, RestoreStep, Zenon
<1>7. CASE ConnectNext \/ RollbackIndex \/ RollbackSave
  BY <1>7, ConnectNextStep, RollbackIndexStep, RollbackSaveStep, Zenon
<1>8. CASE Startup \/ BootTruncate \/ BootSave
  BY <1>8, StartupStep, BootTruncateStep, BootSaveStep, Zenon
<1>9. CASE Crash \/ PowerLoss \/ LoseFile
  BY <1>9, CrashStep, LoseFileStep, Zenon
<1> QED
  BY <1>1, <1>2, <1>3, <1>4, <1>5, <1>6, <1>7, <1>8, <1>9, Zenon DEF Next, Step

\* IInv holds in every state of the node, for every block tree.
THEOREM Invariance == Spec => []IInv
<1>1. Init => IInv
  BY InitInv, Zenon
<1>2. IInv /\ [Next]_vars => IInv'
  BY NextInv, Zenon
<1> QED
  BY <1>1, <1>2, PTL DEF Spec

\* Every variable of the engine and of the datadir always holds a value of its
\* kind; in particular no chain is ever shortened below its genesis.
THEOREM TypeCorrectness == Spec => []TypeOK
<1>1. IInv => TypeOK
  BY Zenon DEF IInv
<1> QED
  BY <1>1, Invariance, PTL

\* The owner admits transactions (finish_pending_outpoint_transition_*) only while
\* chain state, canonical index and durable index.json are one chain whose tip
\* is the admission tip, for every block tree and every failure of every write.
THEOREM AdmissionSafety == Spec => []AdmissionOnDurableTip
<1>1. IInv => AdmissionOnDurableTip
  BY Zenon DEF IInv, PhaseInv, OpenInv, AdmissionOnDurableTip, Reverted
<1> QED
  BY <1>1, Invariance, PTL

\* What a transition may touch, from the invariant.
LEMMA ForkBaseKept ==
    ASSUME IInv
    PROVE  CrashKeepsForkBase
<1> SUFFICES ASSUME owner = "transition"
             PROVE  /\ Len(disk_index) >= Untouched
                    /\ \A i \in 1..Untouched : disk_index[i] = job.old[i]
  BY SMTT(60) DEF IInv, PhaseInv, Transition, ApplyStage, SaveStage, DisconnectStage, ReorgStage,
     Synced,
         CrashKeepsForkBase, Reverted
<1>1. stage \in Transition /\ job \in Job /\ job.old \in Seq(Block) /\ job.base \in Nat
  BY Zenon DEF IInv, PhaseInv, TypeOK, Job
<1>2. CASE job.kind = "reorg"
  <2>1. /\ disk_index = canonical /\ job.base <= Len(canonical) /\ Untouched = job.base
        /\ \A i \in 1..job.base : canonical[i] = job.old[i]
    BY <1>2, Zenon DEF IInv, ReorgInv, Untouched
  <2>2. Len(canonical) \in Nat
    BY SMTT(60) DEF IInv, TypeOK
  <2> QED
    BY <1>1, <2>1, <2>2, Zenon
<1>3. CASE job.kind = "disconnect"
  <2>1. stage \in DisconnectStage
    BY <1>1, <1>3, Zenon DEF IInv, PhaseInv, Transition
  <2>2. job.old # <<>> /\ disk_index \in {job.old, Front(job.old)}
    BY <1>3, <2>1, Zenon DEF IInv, OldInv, DisconnectInv, DisconnectStage
  <2>3. Untouched = Len(job.old) - 1
    BY <1>3, Zenon DEF Untouched
  <2>4. /\ Len(Front(job.old)) = Len(job.old) - 1 /\ Len(job.old) \in Nat
        /\ \A i \in 1..(Len(job.old) - 1) : Front(job.old)[i] = job.old[i]
    BY <1>1, <2>2, SMTT(60) DEF Front
  <2> QED
    BY <1>1, <2>2, <2>3, <2>4, SMTT(60)
<1>4. CASE job.kind \notin {"reorg", "disconnect"}
  <2>1. stage \in ApplyStage \union SaveStage /\ job.kind = "apply"
    BY <1>1, <1>4, Zenon DEF IInv, PhaseInv, Transition
  <2>2. /\ job.snapshot = job.old /\ job.block \in Block
        /\ disk_index \in {job.old, Append(job.old, job.block)}
    BY <2>1, Zenon DEF IInv, OldInv, ApplyInv, SaveInv
  <2>3. Untouched = Len(job.old)
    BY <1>4, Zenon DEF Untouched
  <2>4. /\ Len(Append(job.old, job.block)) = Len(job.old) + 1 /\ Len(job.old) \in Nat
        /\ \A i \in 1..Len(job.old) : Append(job.old, job.block)[i] = job.old[i]
    BY <1>1, <2>2
  <2> QED
    BY <2>2, <2>3, <2>4, SMTT(60)
<1> QED
  BY <1>2, <1>3, <1>4, Zenon

\* A crash or power loss inside a reorg, a disconnect or an apply never costs a
\* block at or below the fork point.
THEOREM ForkBaseSafety == Spec => []CrashKeepsForkBase
<1>1. IInv => CrashKeepsForkBase
  BY ForkBaseKept, Zenon
<1> QED
  BY <1>1, Invariance, PTL

\* A latched engine (mutation_allowed) writes nothing until it goes down.
THEOREM LatchSafety == Spec => LatchStopsWrites
<1>1. IInv /\ [Next]_vars => [persistence_fault => UNCHANGED disk \/ stage' = "down"]_vars
  <2> SUFFICES ASSUME IInv, Next, persistence_fault
               PROVE  UNCHANGED disk \/ stage' = "down"
    BY Zenon
  <2>1. stage = "idle"
    BY Zenon DEF IInv, PhaseInv
  <2>2. CASE \E b \in Block : ApplyDirect(b) \/ StoreSide(b) \/ StartReorg(b)
    BY <2>2, Zenon DEF ApplyDirect, StoreSide, StartReorg, SideDelivery
  <2>3. CASE DisconnectTip
    BY <2>3, Zenon DEF DisconnectTip
  <2>4. CASE Step
    BY <2>1, <2>4, Zenon DEF Step, WriteBlock, WriteHeader, WriteUndo, WriteIndex,
       SaveSnapshot, Rewind,
                      WriteSideBlock, WriteSideHeader, DisconnectNext, Truncate, DisconnectSave,
                      Restore, ConnectNext, RollbackIndex, RollbackSave, BootTruncate, BootSave
  <2>5. CASE Startup \/ LoseFile
    BY <2>1, <2>5, Zenon DEF Startup, LoseFile
  <2>6. CASE Crash \/ PowerLoss
    BY <2>6, Zenon DEF Crash, PowerLoss, Exit
  <2> QED
    BY <2>2, <2>3, <2>4, <2>5, <2>6, Zenon DEF Next
<1> QED
  BY <1>1, Invariance, PTL DEF Spec, LatchStopsWrites

=============================================================================
