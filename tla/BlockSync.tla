------------------------------ MODULE BlockSync ------------------------------
\* Two connected nodes exchange blocks: getblocks with a locator, inv, getdata
\* and block (p2p_runtime.rs over the canonical index of blockstore.rs).  The
\* handshake is over: each node knows the height the other had then.  A node
\* may mine meanwhile and announces what it mines.
\*
\* A block is the sequence of the miners of its chain: its parent is its front,
\* its height its length, the genesis block the empty sequence.
EXTENDS Integers, Sequences, FiniteSets

CONSTANTS
  Nodes,            \* the two nodes, as numbers: they order hashes
  StartTips,        \* the pairs of tips the session may start with
  Miners, MaxMined, \* who mines during the session, and bound of how much
  InvLimit,         \* hashes in one answer to getblocks (128)
  MaxBlocks,        \* MAX_GETDATA_RESPONSE_BLOCKS (16)
  MaxBytes,         \* MAX_GETDATA_RESPONSE_BYTES
  BigHeights,       \* heights of the blocks of two units; the others have one
  Dense,            \* locator entries before the step doubles (10)
  LocatorLimit,     \* entries of a locator (32)
  MaxDelta          \* MAX_BEST_HEIGHT_DELTA

VARIABLES
  tip,      \* the canonical tip; its prefixes are the canonical index
  has,      \* the blocks stored, on the canonical chain or beside it
  orphans,  \* the orphan pool of the session
  rbest,    \* remote_version.best_height
  chan,     \* chan[n]: messages to n, in order
  mined     \* blocks mined since the session began

vars == <<tip, has, orphans, rbest, chan, mined>>

Other(n) == CHOOSE m \in Nodes : m # n
Front(b) == SubSeq(b, 1, Len(b) - 1)
Chain(b) == {SubSeq(b, 1, h) : h \in 0 .. Len(b)}
Size(b) == IF Len(b) \in BigHeights THEN 2 ELSE 1
Smallest(S) == CHOOSE x \in S : \A y \in S : x <= y

Msg(c, items) == [cmd |-> c, items |-> items]

(***************************************************************************)
(* The canonical index                                                     *)
(***************************************************************************)
\* locator_hashes: dense from the tip, then with doubling steps, down to the
\* genesis block.
locator_hashes(t) ==
  LET step(k) == IF k > Dense THEN 2 ^ (k - Dense) ELSE 1
      height[k \in 1 .. LocatorLimit] ==
        IF k = 1 THEN Len(t)
        ELSE LET h == height[k - 1] IN IF h <= step(k) THEN 0 ELSE h - step(k)
      entries == Smallest({k \in 1 .. LocatorLimit : height[k] = 0} \cup {LocatorLimit})
  IN [k \in 1 .. entries |-> SubSeq(t, 1, height[k])]

\* hashes_after_locators: the canonical blocks after the first locator entry
\* that is canonical here.
hashes_after_locators(t, locator) ==
  LET known == {i \in 1 .. Len(locator) : locator[i] \in Chain(t)}
      start == IF known = {} THEN 0 ELSE Len(locator[Smallest(known)]) + 1
      stop == Smallest({Len(t), start + InvLimit - 1})
  IN [i \in 1 .. (stop - start + 1) |-> SubSeq(t, 1, start + i - 1)]

(***************************************************************************)
(* Answers                                                                 *)
(***************************************************************************)
\* is_behind, with the claim of the peer clamped.
is_behind(n, t) == Len(t) < Smallest({rbest[n], Len(t) + MaxDelta})

GetBlocks(n, t) == IF is_behind(n, t) THEN <<Msg("getblocks", locator_hashes(t))>> ELSE <<>>

\* collect_getdata_responses: unknown hashes are skipped; the first block over
\* a limit ends the answer, so that what is sent keeps the order asked for.
Fitting(blocks) ==
  {k \in 0 .. Len(blocks) :
     k <= MaxBlocks /\ k + Cardinality({i \in 1 .. k : Size(blocks[i]) = 2}) <= MaxBytes}
Served(n, items) ==
  LET known == SelectSeq(items, LAMBDA b : b \in has[n])
      count == CHOOSE k \in Fitting(known) : \A j \in Fitting(known) : j <= k
  IN SubSeq(known, 1, count)

\* handle_inv: the blocks that are not stored.
Wanted(n, items) == SelectSeq(items, LAMBDA b : b \notin has[n])

(***************************************************************************)
(* Blocks                                                                  *)
(***************************************************************************)
\* Fork choice: more work, or equal work and the smaller hash.
Hash(b) ==
  LET h[k \in 0 .. Len(b)] == IF k = 0 THEN 0 ELSE 3 * h[k - 1] + b[k] IN h[Len(b)]
Prefers(b, t) == Len(b) > Len(t) \/ (Len(b) = Len(t) /\ Hash(b) < Hash(t))
Best(S, t) ==
  LET better == {b \in S : Prefers(b, t)} IN
  IF better = {} THEN t ELSE CHOOSE b \in better : \A c \in better : ~Prefers(c, b)

\* resolve_orphans: the orphans whose ancestors up to b are orphans as well.
Resolved(n, b) ==
  {o \in orphans[n] : \A h \in Len(b) + 1 .. Len(o) : SubSeq(o, 1, h) \in orphans[n]
                      /\ SubSeq(o, 1, Len(b)) = b}


\* handle_block_with_acceptance: known, orphan, or applied with its orphans.
Accepted(n, b) ==
  IF b \in has[n] \/ Front(b) \notin has[n] THEN {} ELSE {b} \cup Resolved(n, b)

(***************************************************************************)
(* Actions                                                                 *)
(***************************************************************************)
Init ==
  /\ tip \in StartTips
  /\ has = [n \in Nodes |-> Chain(tip[n])]
  /\ orphans = [n \in Nodes |-> {}]
  /\ rbest = [n \in Nodes |-> Len(tip[Other(n)])]
  \* the initial request of handle_peer
  /\ chan = [n \in Nodes |-> GetBlocks(Other(n), tip[Other(n)])]
  /\ mined = 0

\* n takes the first message and answers it.
Answer(n, c, msgs) ==
  /\ chan[n] # <<>> /\ Head(chan[n]).cmd = c
  /\ chan' = [chan EXCEPT ![n] = Tail(@), ![Other(n)] = @ \o msgs]

OrNothing(c, items) == IF items = <<>> THEN <<>> ELSE <<Msg(c, items)>>

HandleGetBlocks(n) ==
  /\ chan[n] # <<>>
  /\ Answer(n, "getblocks",
            OrNothing("inv", hashes_after_locators(tip[n], Head(chan[n]).items)))
  /\ UNCHANGED <<tip, has, orphans, rbest, mined>>

HandleInv(n) ==
  /\ chan[n] # <<>>
  /\ Answer(n, "inv", OrNothing("getdata", Wanted(n, Head(chan[n]).items)))
  /\ UNCHANGED <<tip, has, orphans, rbest, mined>>

HandleGetData(n) ==
  /\ chan[n] # <<>>
  /\ LET blocks == Served(n, Head(chan[n]).items) IN
       Answer(n, "getdata", [i \in 1 .. Len(blocks) |-> Msg("block", <<blocks[i]>>)])
  /\ UNCHANGED <<tip, has, orphans, rbest, mined>>

\* The block is applied or kept; the next request goes out while behind.
HandleBlock(n) ==
  /\ chan[n] # <<>>
  /\ LET b == Head(chan[n]).items[1]
         new == Accepted(n, b)
         t == Best(new, tip[n]) IN
       /\ Answer(n, "block", GetBlocks(n, t))
       /\ tip' = [tip EXCEPT ![n] = t]
       /\ has' = [has EXCEPT ![n] = @ \cup new]
       /\ orphans' = [orphans EXCEPT ![n] =
            IF b \notin has[n] /\ new = {} THEN @ \cup {b} ELSE @ \ new]
  /\ UNCHANGED <<rbest, mined>>

\* /mine_next applies a block on the tip and announces it (announce_block).
Mine(n) ==
  /\ n \in Miners /\ mined < MaxMined
  /\ LET b == Append(tip[n], n) IN
       /\ b \notin has[n]
       /\ tip' = [tip EXCEPT ![n] = b]
       /\ has' = [has EXCEPT ![n] = @ \cup {b}]
       /\ chan' = [chan EXCEPT ![Other(n)] = Append(@, Msg("inv", <<b>>))]
  /\ mined' = mined + 1
  /\ UNCHANGED <<orphans, rbest>>

Handle(n) == HandleGetBlocks(n) \/ HandleInv(n) \/ HandleGetData(n) \/ HandleBlock(n)

Next == \E n \in Nodes : Handle(n) \/ Mine(n)

Spec == Init /\ [][Next]_vars

(***************************************************************************)
(* Properties                                                              *)
(***************************************************************************)
\* ParentsFirst: as long as nobody mines, a block reaches a node after its
\* parent, whatever the limits of the answers cut off: no orphan is made.
ParentsFirst == mined = 0 => \A n \in Nodes : orphans[n] = {}

\* OrphansWait: an orphan is kept only until its parent is stored.
OrphansWait == \A n \in Nodes : \A o \in orphans[n] : Front(o) \notin has[n] /\ o \notin has[n]

\* TypeOK: the canonical chain is stored and what is stored has its ancestors.
TypeOK ==
  \A n \in Nodes : /\ tip[n] \in has[n]
                   /\ \A b \in has[n] : Chain(b) \subseteq has[n]

==============================================================================
