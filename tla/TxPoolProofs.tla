---------------------------- MODULE TxPoolProofs ----------------------------
(***************************************************************************)
(* Proofs about TxPool, for any number of threads, any transactions and    *)
(* any chain: claims and pool entries stay in step, admissions are valid   *)
(* at the tip they meet, no clean-up plan is lost, and the pool keeps to   *)
(* its limits.                                                             *)
(***************************************************************************)
EXTENDS TxPool, SequenceTheorems, FiniteSetTheorems, TLAPS

-----------------------------------------------------------------------------
(* The inductive invariant. *)

\* The types the proofs need. The byte count and the admission sequences are
\* left out: they take no part in the claims.
TypeInv ==
    /\ by_outpoint \in [Outpoint -> Row \cup {NoRow}]
    /\ by_token \in [Sequence -> Claim \cup {NoClaim}]
    /\ token_high_water \in 0 .. MaxSequence
    /\ generation \in 0 .. MaxGeneration
    /\ stable_tip \in Tip
    /\ txs \subseteq Tx
    /\ owner_tokens \in [Tx -> 0 .. MaxSequence]
    /\ chain_tip \in Tip
    /\ pc \in [Thread -> Label]
    /\ target \in [Thread -> Tip]
    /\ plan \in [Thread -> PlanType]
    /\ clone \in [Thread -> Tip]
    /\ todo \in [Thread -> Seq(Tx)]
    /\ context \in [Thread -> Context]
    /\ token \in [Thread -> 0 .. MaxSequence]

\* Where a thread holds the pool's mutex and a reservation, and what its
\* validation has established.
ThreadInv ==
    \A c \in Thread :
        /\ pc[c] \in {"next", "validate", "reserved", "release"}
               => pool_lock = c
        /\ token[c] # 0 <=> pc[c] \in {"reserved", "release"}
        /\ pc[c] \in {"validate", "reserved", "release"} => todo[c] # <<>>
        /\ pc[c] \in {"validate", "reserved"} => context[c].tip = clone[c]
        /\ pc[c] = "reserved" => Valid(Head(todo[c]), clone[c])

\* A reservation is an open claim for the transaction being admitted.
ReservationInv ==
    \A c \in Thread : token[c] # 0 =>
        /\ by_token[token[c]] # NoClaim
        /\ ~by_token[token[c]].finalized
        /\ by_token[token[c]].txid = Head(todo[c])

\* Rows and claims are two views of one relation.
RowInv ==
    /\ \A o \in Outpoint : by_outpoint[o] # NoRow =>
           /\ by_token[by_outpoint[o].sequence] # NoClaim
           /\ by_token[by_outpoint[o].sequence].txid = by_outpoint[o].txid
           /\ o \in Inputs[by_outpoint[o].txid]
    /\ \A s \in Sequence : by_token[s] # NoClaim =>
           /\ s <= token_high_water
           /\ \A o \in Inputs[by_token[s].txid] :
                  by_outpoint[o] = [sequence |-> s, txid |-> by_token[s].txid]

\* Every live claim is that of a pooled transaction or a reservation.
OwnedInv ==
    \A s \in Sequence : by_token[s] # NoClaim =>
        IF by_token[s].finalized
        THEN /\ by_token[s].txid \in txs
             /\ owner_tokens[by_token[s].txid] = s
        ELSE \E c \in Thread : token[c] = s

\* Every pooled transaction has a finalized claim.
EntryInv ==
    \A t \in txs :
        /\ owner_tokens[t] \in Sequence
        /\ by_token[owner_tokens[t]] # NoClaim
        /\ by_token[owner_tokens[t]].finalized
        /\ by_token[owner_tokens[t]].txid = t

\* Unless it is latched, the engine has the tip the owner is open at.
TipInv == ~unavailable => chain_tip = stable_tip

IInv ==
    /\ TypeInv
    /\ ThreadInv
    /\ ReservationInv
    /\ RowInv
    /\ OwnedInv
    /\ EntryInv
    /\ TipInv
    /\ SpentInputsArePlanned

-----------------------------------------------------------------------------
(* Lemmas about the operators. *)

\* A live claim is a claim of a transaction, an absent one of none.
LEMMA ClaimFacts ==
    ASSUME TypeInv, NEW s \in Sequence, by_token[s] # NoClaim
    PROVE  /\ by_token[s] \in Claim
           /\ by_token[s].txid \in Tx
           /\ Inputs[by_token[s].txid] \subseteq Outpoint
           /\ Inputs[by_token[s].txid] # {}
BY OwnerAssumption, Zenon DEF TypeInv, Claim, NoClaim

\* The row of a claimed output, and the claim it belongs to.
LEMMA RowFacts ==
    ASSUME TypeInv, NEW o \in Outpoint, by_outpoint[o] # NoRow
    PROVE  /\ by_outpoint[o] \in Row
           /\ by_outpoint[o].sequence \in Sequence
           /\ by_outpoint[o].txid \in Tx
BY Zenon DEF TypeInv, Row, NoRow

\* What a plan lists is what becomes spent: every output spent at the new tip
\* was spent at the old one or is in the plan (apply_preferred_branch).
LEMMA PlanCovers ==
    ASSUME NEW from, NEW to
    PROVE  Spent(to) \subseteq
               Spent(from) \cup PlanOf(from, to).conflicting_inputs
<1>1. PlanOf(from, to).conflicting_inputs =
          UNION {Inputs[t] : t \in TxsOf(BlocksOf(to) \ BlocksOf(from))}
  BY Zenon DEF PlanOf
<1>2. TxsOf(BlocksOf(to)) \subseteq
          TxsOf(BlocksOf(from)) \cup TxsOf(BlocksOf(to) \ BlocksOf(from))
  BY Zenon DEF TxsOf
<1> QED
  BY <1>1, <1>2, Zenon DEF Spent

\* The transactions of blocks are transactions.
LEMMA TxsOfType ==
    ASSUME NEW tip \in Tip
    PROVE  /\ BlocksOf(tip) \subseteq Block
           /\ TxsOf(BlocksOf(tip)) \subseteq Tx
           /\ \A B \in SUBSET BlocksOf(tip) : TxsOf(B) \subseteq Tx
<1>1. BlocksOf(tip) \subseteq Block
  BY PoolAssumption DEF BlocksOf, Range
<1>2. \A b \in Block : Range(Body[b]) \subseteq Tx
  BY PoolAssumption DEF Range
<1> QED
  BY <1>1, <1>2, Zenon DEF TxsOf

\* A plan between two tips is a plan.
LEMMA PlanOfType ==
    ASSUME NEW from \in Tip, NEW to \in Tip
    PROVE  PlanOf(from, to) \in PlanType
<1> DEFINE connected == BlocksOf(to) \ BlocksOf(from)
           chain == Blocks[from]
           common == {i \in DOMAIN chain : chain[i] \in BlocksOf(to)}
           base == Cardinality(common)
           list == [i \in 1 .. Len(chain) - base |-> chain[Len(chain) + 1 - i]]
<1>1. TxsOf(connected) \subseteq Tx
  BY TxsOfType, Zenon
<1>2. UNION {Inputs[t] : t \in TxsOf(connected)} \subseteq Outpoint
  BY <1>1, OwnerAssumption, Zenon
<1>3. chain \in Seq(Block) /\ Len(chain) \in Nat /\ DOMAIN chain = 1 .. Len(chain)
  BY PoolAssumption
<1>4. base \in Nat /\ base <= Len(chain)
  <2>1. IsFiniteSet(1 .. Len(chain)) /\ Cardinality(1 .. Len(chain)) = Len(chain)
    BY <1>3, FS_Interval
  <2>2. common \subseteq 1 .. Len(chain)
    BY <1>3, Zenon
  <2> QED
    BY <1>3, <2>1, <2>2, FS_Subset, FS_CardinalityType
<1>5. list \in Seq(Block)
  <2> HIDE DEF base
  <2>1. Len(chain) - base \in Nat
    BY <1>3, <1>4
  <2>2. \A i \in 1 .. Len(chain) - base : chain[Len(chain) + 1 - i] \in Block
    BY <1>3, <1>4, <2>1
  <2> QED
    BY <2>1, <2>2
<1>6. PlanOf(from, to) = [confirmed_txids |-> TxsOf(connected),
          conflicting_inputs |-> UNION {Inputs[t] : t \in TxsOf(connected)},
          requeue_blocks |-> list]
  BY Zenon DEF PlanOf
<1> DEFINE confirmed == TxsOf(connected)
           spent == UNION {Inputs[t] : t \in TxsOf(connected)}
<1>7. /\ PlanOf(from, to) = [confirmed_txids |-> confirmed,
                             conflicting_inputs |-> spent,
                             requeue_blocks |-> list]
      /\ confirmed \in SUBSET Tx
      /\ spent \in SUBSET Outpoint
      /\ list \in Seq(Block)
  BY <1>1, <1>2, <1>5, <1>6, Zenon
<1> HIDE DEF confirmed, spent, list
<1> QED
  BY <1>7 DEF PlanType

\* Merging plans gives a plan.
LEMMA MergeType ==
    ASSUME NEW a \in PlanType, NEW b \in PlanType
    PROVE  merge(a, b) \in PlanType
<1>1. a.requeue_blocks \o b.requeue_blocks \in Seq(Block)
  BY ConcatProperties, Zenon DEF PlanType
<1> QED
  BY <1>1, Zenon DEF merge, PlanType

-----------------------------------------------------------------------------
(* Steps that leave claims and pool alone. *)

\* The invariants on claims depend on the claims, the pool, the tokens, and on
\* what a thread with a token is about to admit.
LEMMA ClaimsUnchanged ==
    ASSUME ReservationInv, RowInv, OwnedInv, EntryInv,
           UNCHANGED <<claims, txs, owner_tokens, token>>,
           \A d \in Thread : token[d] # 0 => todo'[d] = todo[d]
    PROVE  ReservationInv' /\ RowInv' /\ OwnedInv' /\ EntryInv'
<1>1. ReservationInv'
  BY Zenon DEF ReservationInv, claims
<1>2. RowInv'
  BY Zenon DEF RowInv, claims
<1>3. OwnedInv'
  BY Zenon DEF OwnedInv, claims
<1>4. EntryInv'
  BY Zenon DEF EntryInv, claims
<1> QED
  BY <1>1, <1>2, <1>3, <1>4, Zenon

\* The plan invariant survives a step that adds nothing to the pool, moves no
\* tip and drops no conflicting input from a plan.
LEMMA PlansUnchanged ==
    ASSUME SpentInputsArePlanned,
           unavailable' = unavailable, chain_tip' = chain_tip,
           txs' \subseteq txs,
           \A d \in Thread : plan[d].conflicting_inputs
                                 \subseteq plan'[d].conflicting_inputs
    PROVE  SpentInputsArePlanned'
BY Zenon DEF SpentInputsArePlanned, Spent, BlocksOf

\* The initial state has the invariant.
LEMMA InitInv == Init => IInv
<1> SUFFICES ASSUME Init PROVE IInv
  BY Zenon
<1> USE OwnerAssumption, PoolAssumption
<1>1. TypeInv
  <2>1. NoPlan \in PlanType
    BY DEF NoPlan, PlanType
  <2>2. [tip |-> Genesis, generation |-> 0] \in Context
    BY DEF Context
  <2> QED
    BY <2>1, <2>2 DEF Init, OwnerInit, TypeInv, Label
<1>2. ThreadInv
  BY Zenon DEF Init, ThreadInv
<1>3. ReservationInv
  BY Zenon DEF Init, ReservationInv
<1>4. RowInv /\ OwnedInv
  BY Zenon DEF Init, OwnerInit, RowInv, OwnedInv
<1>5. EntryInv /\ TipInv /\ SpentInputsArePlanned
  BY Zenon DEF Init, OwnerInit, EntryInv, TipInv, SpentInputsArePlanned
<1> QED
  BY <1>1, <1>2, <1>3, <1>4, <1>5, Zenon DEF IInv

\* The types, when a step leaves the claims and the pool alone.
LEMMA TypeStep ==
    ASSUME TypeInv,
           UNCHANGED <<by_outpoint, by_token, token_high_water, txs,
                       owner_tokens, token>>,
           generation' \in 0 .. MaxGeneration,
           stable_tip' \in Tip,
           chain_tip' \in Tip,
           pc' \in [Thread -> Label],
           target' \in [Thread -> Tip],
           plan' \in [Thread -> PlanType],
           clone' \in [Thread -> Tip],
           todo' \in [Thread -> Seq(Tx)],
           context' \in [Thread -> Context]
    PROVE  TypeInv'
BY Zenon DEF TypeInv

\* The whole invariant, when a step also leaves the owner and the engine alone.
LEMMA QuietStep ==
    ASSUME IInv, ThreadInv',
           UNCHANGED <<ownerVars, poolVars, chain_tip, target, token>>,
           \A d \in Thread : token[d] # 0 => todo'[d] = todo[d],
           \A d \in Thread : plan[d].conflicting_inputs
                                 \subseteq plan'[d].conflicting_inputs,
           pc' \in [Thread -> Label],
           plan' \in [Thread -> PlanType],
           clone' \in [Thread -> Tip],
           todo' \in [Thread -> Seq(Tx)],
           context' \in [Thread -> Context]
    PROVE  IInv'
<1>1. /\ UNCHANGED <<by_outpoint, by_token, token_high_water>>
      /\ UNCHANGED <<generation, unavailable, stable_tip>>
      /\ UNCHANGED <<txs, owner_tokens>>
  BY Zenon DEF ownerVars, claims, fence, poolVars
<1>2. TypeInv'
  <2>1. /\ generation \in 0 .. MaxGeneration
        /\ stable_tip \in Tip
        /\ chain_tip \in Tip
        /\ target \in [Thread -> Tip]
    BY Zenon DEF IInv, TypeInv
  <2> QED
    BY <1>1, <2>1, TypeStep, Zenon DEF IInv
<1>3. ReservationInv' /\ RowInv' /\ OwnedInv' /\ EntryInv'
  BY <1>1, ClaimsUnchanged, Zenon DEF IInv, claims
<1>4. TipInv'
  BY <1>1, Zenon DEF IInv, TipInv
<1>5. SpentInputsArePlanned'
  BY <1>1, PlansUnchanged, Zenon DEF IInv
<1> QED
  BY <1>2, <1>3, <1>4, <1>5, Zenon DEF IInv

\* What the invariant says of the threads' locals.
LEMMA LocalTypes ==
    ASSUME IInv
    PROVE  /\ pc \in [Thread -> Label]
           /\ target \in [Thread -> Tip]
           /\ plan \in [Thread -> PlanType]
           /\ clone \in [Thread -> Tip]
           /\ todo \in [Thread -> Seq(Tx)]
           /\ context \in [Thread -> Context]
           /\ generation \in 0 .. MaxGeneration
           /\ stable_tip \in Tip
           /\ chain_tip \in Tip
BY Zenon DEF IInv, TypeInv

\* The engine raises the fence.
LEMMA BeginTransitionInv ==
    ASSUME IInv, NEW c \in Thread, NEW to \in Tip, BeginTransition(c, to)
    PROVE  IInv'
<1>1. /\ pc' = [pc EXCEPT ![c] = "moving"]
      /\ pc[c] \in {"idle", "applied"}
      /\ target' = [target EXCEPT ![c] = to]
      /\ generation < MaxGeneration
      /\ generation' = generation + 1
  BY Zenon DEF BeginTransition, begin_transition, Goto
<1>2. /\ UNCHANGED <<by_outpoint, by_token, token_high_water>>
      /\ UNCHANGED <<unavailable, stable_tip, chain_tip, pool_lock, plan>>
      /\ UNCHANGED <<txs, owner_tokens, clone, todo, context, token>>
  BY Zenon DEF BeginTransition, begin_transition, claims, poolVars, admissionVars
<1>3. generation' \in 0 .. MaxGeneration
  BY <1>1, LocalTypes, OwnerAssumption
<1>4. pc' \in [Thread -> Label] /\ target' \in [Thread -> Tip]
  BY <1>1, LocalTypes, Zenon DEF Label
<1>5. TypeInv'
  BY <1>2, <1>3, <1>4, LocalTypes, TypeStep, Zenon DEF IInv
<1>6. ThreadInv'
  BY <1>1, <1>2, LocalTypes, Zenon DEF IInv, ThreadInv
<1>7. ReservationInv' /\ RowInv' /\ OwnedInv' /\ EntryInv'
  BY <1>2, ClaimsUnchanged, Zenon DEF IInv, claims
<1>8. TipInv' /\ SpentInputsArePlanned'
  BY <1>2, PlansUnchanged, Zenon DEF IInv, TipInv
<1> QED
  BY <1>5, <1>6, <1>7, <1>8, Zenon DEF IInv

\* The tip moves, and the plan takes note of everything that becomes spent.
LEMMA CommitTipInv ==
    ASSUME IInv, NEW c \in Thread, CommitTip(c)
    PROVE  IInv'
<1> DEFINE to == target[c]
           new == merge(plan[c], PlanOf(chain_tip, to))
<1>1. /\ pc' = [pc EXCEPT ![c] = "applied"]
      /\ pc[c] = "moving"
      /\ target' = [target EXCEPT ![c] = Genesis]
      /\ plan' = [plan EXCEPT ![c] = new]
      /\ chain_tip' = to
      /\ stable_tip' = to
      /\ ~unavailable
  BY Zenon DEF CommitTip, commit_stable_tip, Goto
<1>2. /\ UNCHANGED <<by_outpoint, by_token, token_high_water>>
      /\ UNCHANGED <<generation, unavailable, pool_lock>>
      /\ UNCHANGED <<txs, owner_tokens, clone, todo, context, token>>
  BY Zenon DEF CommitTip, commit_stable_tip, claims, poolVars, admissionVars
<1>3. to \in Tip /\ chain_tip \in Tip /\ plan[c] \in PlanType
  BY LocalTypes, Zenon
<1>4. new \in PlanType
  BY <1>3, PlanOfType, MergeType, Zenon
<1>5. new.conflicting_inputs = plan[c].conflicting_inputs
                  \cup PlanOf(chain_tip, to).conflicting_inputs
  BY Zenon DEF merge
<1> HIDE DEF new, to
<1>6. TypeInv'
  <2>1. pc' \in [Thread -> Label] /\ target' \in [Thread -> Tip]
    BY <1>1, LocalTypes, OwnerAssumption, Zenon DEF Label
  <2>2. plan' \in [Thread -> PlanType]
    BY <1>1, <1>4, LocalTypes, Zenon
  <2> QED
    BY <1>1, <1>2, <1>3, <2>1, <2>2, LocalTypes, TypeStep, Zenon DEF IInv
<1>7. ThreadInv'
  BY <1>1, <1>2, LocalTypes, Zenon DEF IInv, ThreadInv
<1>8. ReservationInv' /\ RowInv' /\ OwnedInv' /\ EntryInv'
  BY <1>2, ClaimsUnchanged, Zenon DEF IInv, claims
<1>9. TipInv'
  BY <1>1, Zenon DEF TipInv
<1>10. \A d \in Thread : plan[d].conflicting_inputs
                             \subseteq plan'[d].conflicting_inputs
  BY <1>1, <1>5, LocalTypes, Zenon
<1>11. PlanOf(chain_tip, to).conflicting_inputs
           \subseteq plan'[c].conflicting_inputs
  BY <1>1, <1>5, LocalTypes, Zenon
<1>12. SpentInputsArePlanned'
  <2> SUFFICES ASSUME NEW t \in txs, NEW o \in Inputs[t], o \in Spent(to)
               PROVE  \E d \in Thread : o \in plan'[d].conflicting_inputs
    BY <1>1, <1>2, Zenon DEF SpentInputsArePlanned, Spent, BlocksOf
  <2>1. CASE o \in Spent(chain_tip)
    BY <1>1, <1>10, <2>1, Zenon DEF IInv, SpentInputsArePlanned
  <2>2. CASE o \in PlanOf(chain_tip, to).conflicting_inputs
    BY <1>11, <2>2, Zenon
  <2> QED
    BY <2>1, <2>2, PlanCovers, Zenon
<1> QED
  BY <1>6, <1>7, <1>8, <1>9, <1>12, Zenon DEF IInv

\* A failed move keeps the plans of the moves before it.
LEMMA FailTransitionInv ==
    ASSUME IInv, NEW c \in Thread, FailTransition(c)
    PROVE  IInv'
<1>1. /\ pc' = [pc EXCEPT ![c] = "applied"]
      /\ pc[c] = "moving"
      /\ target' = [target EXCEPT ![c] = Genesis]
      /\ UNCHANGED <<by_outpoint, by_token, token_high_water, generation>>
      /\ UNCHANGED <<stable_tip, pool_lock, plan, txs, owner_tokens>>
      /\ UNCHANGED <<clone, todo, context, token>>
  BY Zenon DEF FailTransition, reopen_old_tip, latch_unavailable, Goto, claims,
     poolVars, admissionVars
<1>2. chain_tip' \in {chain_tip, target[c]}
  BY Zenon DEF FailTransition
<1>3. TypeInv'
  <2>1. pc' \in [Thread -> Label] /\ target' \in [Thread -> Tip]
    BY <1>1, LocalTypes, OwnerAssumption, Zenon DEF Label
  <2>2. chain_tip' \in Tip
    BY <1>2, LocalTypes, Zenon
  <2> QED
    BY <1>1, <2>1, <2>2, LocalTypes, TypeStep, Zenon DEF IInv
<1>4. ThreadInv'
  BY <1>1, LocalTypes, Zenon DEF IInv, ThreadInv
<1>5. ReservationInv' /\ RowInv' /\ OwnedInv' /\ EntryInv'
  BY <1>1, ClaimsUnchanged, Zenon DEF IInv, claims
<1>6. TipInv' /\ SpentInputsArePlanned'
  <2>1. CASE reopen_old_tip /\ chain_tip' = chain_tip
    BY <1>1, <2>1, PlansUnchanged, Zenon DEF IInv, reopen_old_tip, TipInv
  <2>2. CASE latch_unavailable
    BY <2>2, Zenon DEF latch_unavailable, TipInv, SpentInputsArePlanned
  <2> QED
    BY <2>1, <2>2, Zenon DEF FailTransition
<1> QED
  BY <1>3, <1>4, <1>5, <1>6, Zenon DEF IInv

\* The engine's mutex goes, the plan stays.
LEMMA DropEngineInv ==
    ASSUME IInv, NEW c \in Thread, DropEngine(c)
    PROVE  IInv'
<1>1. /\ pc[c] = "applied"
      /\ pc' = [pc EXCEPT ![c] = IF plan[c] = NoPlan THEN "idle"
                                                     ELSE "planned"]
      /\ UNCHANGED <<ownerVars, poolVars, chain_tip, target>>
      /\ UNCHANGED <<pool_lock, plan, clone, todo, context, token>>
  BY Zenon DEF DropEngine, Goto, admissionVars
<1>2. pc' \in [Thread -> Label]
  BY <1>1, LocalTypes, Zenon DEF Label
<1>3. ThreadInv'
  BY <1>1, LocalTypes, Zenon DEF IInv, ThreadInv
<1> QED
  BY <1>1, <1>2, <1>3, LocalTypes, QuietStep, Zenon

\* A thread outside the pool clones the chain state.
LEMMA CloneInv ==
    ASSUME IInv, NEW c \in Thread, NEW work \in Seq(Tx),
           CloneChainState(c, work), pc[c] \in {"idle", "planned"}
    PROVE  IInv'
<1>1. /\ pc' = [pc EXCEPT ![c] = "cloned"]
      /\ clone' = [clone EXCEPT ![c] = chain_tip]
      /\ todo' = [todo EXCEPT ![c] = work]
      /\ UNCHANGED <<ownerVars, poolVars, chain_tip, target>>
      /\ UNCHANGED <<pool_lock, plan, context, token>>
  BY Zenon DEF CloneChainState, Goto
<1>2. /\ pc' \in [Thread -> Label]
      /\ clone' \in [Thread -> Tip]
      /\ todo' \in [Thread -> Seq(Tx)]
  BY <1>1, LocalTypes, Zenon DEF Label
<1>3. ThreadInv'
  BY <1>1, LocalTypes, Zenon DEF IInv, ThreadInv
<1>4. \A d \in Thread : token[d] # 0 => todo'[d] = todo[d]
  BY <1>1, LocalTypes, Zenon DEF IInv, ThreadInv
<1> QED
  BY <1>1, <1>2, <1>3, <1>4, LocalTypes, QuietStep, Zenon

\* The clean-up turns to the next disconnected block.
LEMMA NextBlockInv ==
    ASSUME IInv, NEW c \in Thread, NextBlock(c)
    PROVE  IInv'
<1> DEFINE blocks == plan[c].requeue_blocks
           rest == SubSeq(blocks, 1, Len(blocks) - 1)
           left == [plan[c] EXCEPT !.requeue_blocks = rest]
           work == Body[blocks[Len(blocks)]]
<1>1. /\ pc[c] = "next"
      /\ blocks # <<>>
      /\ todo' = [todo EXCEPT ![c] = work]
      /\ plan' = [plan EXCEPT ![c].requeue_blocks = rest]
      /\ UNCHANGED <<ownerVars, poolVars, chain_tip, target>>
      /\ UNCHANGED <<pool_lock, pc, clone, context, token>>
  BY Zenon DEF NextBlock, engineVars
<1>2. plan[c] \in PlanType /\ blocks \in Seq(Block)
  BY LocalTypes, Zenon DEF PlanType
<1>3. blocks[Len(blocks)] \in Block /\ rest \in Seq(Block)
  BY <1>1, <1>2
<1>4. work \in Seq(Tx)
  BY <1>3, PoolAssumption, Zenon
<1>5. left \in PlanType /\ left.conflicting_inputs = plan[c].conflicting_inputs
  <2> HIDE DEF rest
  <2> QED
    BY <1>2, <1>3, Zenon DEF PlanType
<1>6. plan' = [plan EXCEPT ![c] = left]
  <2> HIDE DEF rest
  <2> QED
    BY <1>1, Zenon
<1> HIDE DEF left, work, rest, blocks
<1>7. todo' \in [Thread -> Seq(Tx)] /\ plan' \in [Thread -> PlanType]
  BY <1>1, <1>4, <1>5, <1>6, LocalTypes, Zenon
<1>8. ThreadInv'
  BY <1>1, LocalTypes, Zenon DEF IInv, ThreadInv
<1>9. \A d \in Thread :
          /\ token[d] # 0 => todo'[d] = todo[d]
          /\ plan[d].conflicting_inputs \subseteq plan'[d].conflicting_inputs
  BY <1>1, <1>5, <1>6, LocalTypes, Zenon DEF IInv, ThreadInv
<1> QED
  BY <1>1, <1>7, <1>8, <1>9, LocalTypes, QuietStep, Zenon

\* The rest of what a thread has to admit.
LEMMA TailType ==
    ASSUME IInv, NEW c \in Thread, todo[c] # <<>>,
           todo' = [todo EXCEPT ![c] = Tail(todo[c])]
    PROVE  todo' \in [Thread -> Seq(Tx)]
<1>1. Tail(todo[c]) \in Seq(Tx)
  BY LocalTypes
<1> QED
  BY <1>1, LocalTypes, Zenon

\* An admission that stops before it reserves has nothing to undo.
LEMMA GiveUpInv ==
    ASSUME IInv, NEW c \in Thread, NextTx(c),
           pc[c] \in {"next", "validate"}, todo[c] # <<>>,
           UNCHANGED <<ownerVars, poolVars, chain_tip, target>>,
           UNCHANGED <<pool_lock, plan, clone, context, token>>
    PROVE  IInv'
<1>1. /\ pc' = [pc EXCEPT ![c] = "next"]
      /\ todo' = [todo EXCEPT ![c] = Tail(todo[c])]
  BY Zenon DEF NextTx, Goto
<1>2. pc' \in [Thread -> Label] /\ todo' \in [Thread -> Seq(Tx)]
  BY <1>1, LocalTypes, TailType, Zenon DEF Label
<1>3. ThreadInv'
  BY <1>1, LocalTypes, Zenon DEF IInv, ThreadInv
<1>4. \A d \in Thread : token[d] # 0 => todo'[d] = todo[d]
  BY <1>1, LocalTypes, Zenon DEF IInv, ThreadInv
<1> QED
  BY <1>2, <1>3, <1>4, LocalTypes, QuietStep, Zenon

\* An admission takes its context, or is given up.
LEMMA AdmissionContextInv ==
    ASSUME IInv, NEW c \in Thread, AdmissionContext(c)
    PROVE  IInv'
<1>1. /\ pc[c] = "next"
      /\ todo[c] # <<>>
      /\ UNCHANGED <<ownerVars, poolVars, chain_tip, target>>
      /\ UNCHANGED <<pool_lock, plan, clone, token>>
  BY Zenon DEF AdmissionContext, engineVars
<1>2. CASE NextTx(c) /\ UNCHANGED context
  BY <1>1, <1>2, GiveUpInv, Zenon
<1>3. CASE /\ stable_tip = clone[c]
           /\ context' = [context EXCEPT ![c] = admission_context]
           /\ pc' = [pc EXCEPT ![c] = "validate"]
           /\ UNCHANGED todo
  <2>1. admission_context \in Context /\ admission_context.tip = clone[c]
    BY <1>3, LocalTypes, Zenon DEF admission_context, Context
  <2>2. pc' \in [Thread -> Label] /\ context' \in [Thread -> Context]
    BY <1>3, <2>1, LocalTypes, Zenon DEF Label
  <2>3. ThreadInv'
    BY <1>1, <1>3, <2>1, LocalTypes, Zenon DEF IInv, ThreadInv
  <2> QED
    BY <1>1, <1>3, <2>2, <2>3, LocalTypes, QuietStep, Zenon
<1> QED
  BY <1>2, <1>3, Zenon DEF AdmissionContext, Goto

\* A refusal before the reservation.
LEMMA RefuseReservationInv ==
    ASSUME IInv, NEW c \in Thread, RefuseReservation(c)
    PROVE  IInv'
<1>1. /\ pc[c] = "validate"
      /\ NextTx(c)
      /\ UNCHANGED <<ownerVars, poolVars, chain_tip, target>>
      /\ UNCHANGED <<pool_lock, plan, clone, context, token>>
  BY Zenon DEF RefuseReservation, engineVars
<1>2. todo[c] # <<>>
  BY <1>1, Zenon DEF IInv, ThreadInv
<1> QED
  BY <1>1, <1>2, GiveUpInv, Zenon

\* A refusal after it keeps the token for ReleaseReservation.
LEMMA RefuseDeltaInv ==
    ASSUME IInv, NEW c \in Thread, RefuseDelta(c)
    PROVE  IInv'
<1>1. /\ pc[c] = "reserved"
      /\ pc' = [pc EXCEPT ![c] = "release"]
      /\ UNCHANGED <<ownerVars, poolVars, chain_tip, target>>
      /\ UNCHANGED <<pool_lock, plan, clone, todo, context, token>>
  BY Zenon DEF RefuseDelta, Goto, engineVars, admissionVars
<1>2. pc' \in [Thread -> Label]
  BY <1>1, LocalTypes, Zenon DEF Label
<1>3. ThreadInv'
  BY <1>1, LocalTypes, Zenon DEF IInv, ThreadInv
<1> QED
  BY <1>1, <1>2, <1>3, LocalTypes, QuietStep, Zenon

\* The pool's mutex is returned without a reservation.
LEMMA UnlockPoolInv ==
    ASSUME IInv, NEW c \in Thread, UnlockPool(c)
    PROVE  IInv'
<1> DEFINE none == [tip |-> Genesis, generation |-> 0]
<1>1. /\ pc[c] = "next"
      /\ pc' = [pc EXCEPT ![c] = "idle"]
      /\ clone' = [clone EXCEPT ![c] = Genesis]
      /\ context' = [context EXCEPT ![c] = none]
      /\ UNCHANGED <<ownerVars, poolVars, chain_tip, target>>
      /\ UNCHANGED <<plan, todo, token>>
  BY Zenon DEF UnlockPool, Goto
<1>2. none \in Context
  BY OwnerAssumption DEF Context
<1> HIDE DEF none
<1>3. /\ pc' \in [Thread -> Label]
      /\ clone' \in [Thread -> Tip]
      /\ context' \in [Thread -> Context]
  BY <1>1, <1>2, LocalTypes, OwnerAssumption, Zenon DEF Label
<1>4. ThreadInv'
  <2>1. \A d \in Thread : d # c =>
            pc[d] \notin {"next", "validate", "reserved", "release"}
    BY <1>1, Zenon DEF IInv, ThreadInv
  <2> QED
    BY <1>1, <2>1, LocalTypes, Zenon DEF IInv, ThreadInv
<1> QED
  BY <1>1, <1>3, <1>4, LocalTypes, QuietStep, Zenon


-----------------------------------------------------------------------------
(* Steps that change claims. *)

\* A pooled transaction owns all its rows.
LEMMA EntryRows ==
    ASSUME TypeInv, RowInv, EntryInv, NEW t \in txs
    PROVE  /\ validate_standard_entry(t, owner_tokens[t], TRUE)
           /\ t \in Tx
BY DEF TypeInv, RowInv, EntryInv, validate_standard_entry

\* So remove_entries_exact never gives up on pooled transactions.
LEMMA ExactlyAll ==
    ASSUME TypeInv, RowInv, EntryInv, NEW S, S \subseteq txs
    PROVE  exactly(S) = S
BY EntryRows, Zenon DEF exactly

\* drop_claim takes exactly the rows that carry a dropped token.
LEMMA DroppedRows ==
    ASSUME TypeInv, RowInv, NEW S, S \subseteq Sequence, NEW o \in Outpoint
    PROVE  rows_without(S)[o] = IF by_outpoint[o].sequence \in S
                                THEN NoRow ELSE by_outpoint[o]
<1>1. CASE by_outpoint[o] = NoRow
  BY <1>1, Zenon DEF rows_without
<1>2. CASE by_outpoint[o] # NoRow
  <2>1. /\ by_token[by_outpoint[o].sequence] # NoClaim
        /\ o \in Inputs[by_token[by_outpoint[o].sequence].txid]
    BY <1>2, Zenon DEF RowInv
  <2> QED
    BY <2>1, Zenon DEF rows_without
<1> QED
  BY <1>1, <1>2, Zenon

\* Rows and claims agree after the claims of S are dropped, whether or not
\* another claim is finalized at the same time.
LEMMA DropKeepsRows ==
    ASSUME TypeInv, RowInv, NEW S, S \subseteq Sequence,
           by_outpoint' = rows_without(S),
           token_high_water' = token_high_water,
           \A s \in Sequence :
               IF s \in S THEN by_token'[s] = NoClaim
               ELSE /\ by_token'[s] # NoClaim <=> by_token[s] # NoClaim
                    /\ by_token'[s].txid = by_token[s].txid
    PROVE  RowInv'
<1>1. ASSUME NEW o \in Outpoint, by_outpoint'[o] # NoRow
      PROVE  /\ by_token'[by_outpoint'[o].sequence] # NoClaim
             /\ by_token'[by_outpoint'[o].sequence].txid = by_outpoint'[o].txid
             /\ o \in Inputs[by_outpoint'[o].txid]
  <2>1. by_outpoint'[o] = by_outpoint[o] /\ by_outpoint[o].sequence \notin S
    BY <1>1, DroppedRows, Zenon
  <2>2. by_outpoint[o].sequence \in Sequence
    BY <1>1, <2>1, RowFacts, Zenon
  <2> QED
    BY <1>1, <2>1, <2>2 DEF RowInv
<1>2. ASSUME NEW s \in Sequence, by_token'[s] # NoClaim
      PROVE  /\ s <= token_high_water'
             /\ \A o \in Inputs[by_token'[s].txid] :
                    by_outpoint'[o] = [sequence |-> s,
                                       txid |-> by_token'[s].txid]
  <2>1. /\ s \notin S
        /\ by_token[s] # NoClaim
        /\ by_token'[s].txid = by_token[s].txid
    BY <1>2, Zenon
  <2>2. Inputs[by_token[s].txid] \subseteq Outpoint
    BY <2>1, ClaimFacts, Zenon
  <2>3. \A o \in Inputs[by_token[s].txid] :
            by_outpoint[o] = [sequence |-> s, txid |-> by_token[s].txid]
    BY <2>1, Zenon DEF RowInv
  <2>4. \A o \in Inputs[by_token[s].txid] : by_outpoint'[o] = by_outpoint[o]
    BY <2>1, <2>2, <2>3, DroppedRows
  <2>5. s <= token_high_water
    BY <2>1, Zenon DEF RowInv
  <2> QED
    BY <2>1, <2>3, <2>4, <2>5, Zenon
<1> QED
  BY <1>1, <1>2, Zenon DEF RowInv

\* The two tables without some claims have their types.
LEMMA DropType ==
    ASSUME TypeInv, NEW S
    PROVE  /\ tokens_without(S) \in [Sequence -> Claim \cup {NoClaim}]
           /\ rows_without(S) \in [Outpoint -> Row \cup {NoRow}]
<1>1. tokens_without(S) \in [Sequence -> Claim \cup {NoClaim}]
  BY Zenon DEF TypeInv, tokens_without
<1>2. rows_without(S) \in [Outpoint -> Row \cup {NoRow}]
  BY Zenon DEF TypeInv, rows_without
<1> QED
  BY <1>1, <1>2, Zenon

\* The tokens of pooled transactions are finalized, different ones for
\* different transactions.
LEMMA EntryTokens ==
    ASSUME EntryInv, NEW gone, gone \subseteq txs
    PROVE  /\ {owner_tokens[t] : t \in gone} \subseteq Sequence
           /\ \A s \in {owner_tokens[t] : t \in gone} :
                  /\ by_token[s] # NoClaim
                  /\ by_token[s].finalized
                  /\ by_token[s].txid \in gone
                  /\ owner_tokens[by_token[s].txid] = s
           /\ \A u \in txs \ gone :
                  owner_tokens[u] \notin {owner_tokens[t] : t \in gone}
BY DEF EntryInv

\* The clean-up removes pooled transactions with their claims, all of those
\* whose inputs the plan lists.
LEMMA LockPoolInv ==
    ASSUME IInv, NEW c \in Thread, LockPool(c)
    PROVE  IInv'
<1> USE DEF IInv
<1> DEFINE confirmed == plan[c].confirmed_txids \cap txs
           conflicting == (txids_for_outpoints(plan[c].conflicting_inputs)
                               \cap txs) \ confirmed
           gone == confirmed \cup conflicting
           dropped == {owner_tokens[t] : t \in gone}
           left == [NoPlan EXCEPT !.requeue_blocks = plan[c].requeue_blocks]
<1>1. exactly(confirmed) = confirmed /\ exactly(conflicting) = conflicting
  BY ExactlyAll, Zenon
<1>2. /\ txs' = txs \ gone
      /\ owner_tokens' = [t \in Tx |-> IF t \in gone THEN 0
                                                     ELSE owner_tokens[t]]
      /\ by_token' = tokens_without(dropped)
      /\ by_outpoint' = rows_without(dropped)
      /\ token_high_water' = token_high_water
  BY <1>1, Zenon DEF LockPool, remove_entries_raw, drop_claims
<1>3. /\ dropped \subseteq Sequence
      /\ \A s \in dropped : /\ by_token[s].finalized
                            /\ by_token[s].txid \in gone
                            /\ owner_tokens[by_token[s].txid] = s
      /\ \A u \in txs \ gone : owner_tokens[u] \notin dropped
  BY EntryTokens, Zenon
<1>4. \A s \in Sequence : by_token'[s] = IF s \in dropped THEN NoClaim
                                                         ELSE by_token[s]
  BY <1>2, Zenon DEF tokens_without
<1>5. plan' = [plan EXCEPT ![c] = left] /\ left \in PlanType
  BY Zenon DEF LockPool, PlanType, NoPlan, TypeInv
<1>6. \A t \in gone : t \in Tx /\ t \in txs
  BY Zenon DEF TypeInv
<1>7. \A t \in txs \ gone : plan[c].conflicting_inputs \cap Inputs[t] = {}
  <2> SUFFICES ASSUME NEW t \in txs, NEW o \in Inputs[t],
                      o \in plan[c].conflicting_inputs
               PROVE  t \in gone
    BY Zenon
  <2>1. /\ by_outpoint[o] = [sequence |-> owner_tokens[t], txid |-> t]
        /\ owner_tokens[t] \in Sequence
    BY EntryRows, Zenon DEF validate_standard_entry
  <2>2. by_outpoint[o] # NoRow /\ by_outpoint[o].txid = t
    BY <2>1, OwnerAssumption DEF NoRow, Sequence
  <2> QED
    BY <2>2, Zenon DEF txids_for_outpoints
<1> HIDE DEF gone, dropped, left
<1>8. TypeInv'
  <2>1. /\ tokens_without(dropped) \in [Sequence -> Claim \cup {NoClaim}]
        /\ rows_without(dropped) \in [Outpoint -> Row \cup {NoRow}]
    BY DropType, Zenon
  <2>2. owner_tokens' \in [Tx -> 0 .. MaxSequence]
    BY <1>2, OwnerAssumption DEF TypeInv
  <2> QED
    BY <1>2, <1>5, <2>1, <2>2, Zenon DEF LockPool, TypeInv, Goto, Label, fence,
       engineVars, admissionVars
<1>9. \A d \in Thread :
          /\ token[d] = 0
          /\ pc[d] \notin {"next", "validate", "reserved", "release"}
  BY PoolAssumption, Zenon DEF LockPool, ThreadInv
<1>10. ThreadInv' /\ ReservationInv'
  <2>1. /\ pc' = [pc EXCEPT ![c] = "next"]
        /\ pool_lock' = c
        /\ token' = token
    BY Zenon DEF LockPool, Goto, admissionVars
  <2> QED
    BY <1>9, <2>1, Zenon DEF ThreadInv, ReservationInv, TypeInv
<1>11. RowInv'
  BY <1>2, <1>3, <1>4, DropKeepsRows, Zenon
<1>12. OwnedInv'
  <2> SUFFICES ASSUME NEW s \in Sequence, by_token[s] # NoClaim,
                      s \notin dropped
               PROVE  IF by_token[s].finalized
                      THEN /\ by_token[s].txid \in txs'
                           /\ owner_tokens'[by_token[s].txid] = s
                      ELSE \E d \in Thread : token'[d] = s
    BY <1>4, Zenon DEF OwnedInv
  <2>1. by_token[s].txid \in Tx
    BY ClaimFacts, Zenon
  <2>2. token' = token
    BY Zenon DEF LockPool, admissionVars
  <2>3. by_token[s].finalized => by_token[s].txid \notin gone
    BY Zenon DEF OwnedInv, dropped
  <2> QED
    BY <1>2, <2>1, <2>2, <2>3, Zenon DEF OwnedInv
<1>13. EntryInv'
  <2> SUFFICES ASSUME NEW t \in txs, t \notin gone
               PROVE  /\ owner_tokens'[t] \in Sequence
                      /\ by_token'[owner_tokens'[t]] # NoClaim
                      /\ by_token'[owner_tokens'[t]].finalized
                      /\ by_token'[owner_tokens'[t]].txid = t
    BY <1>2, Zenon DEF EntryInv
  <2>1. owner_tokens'[t] = owner_tokens[t]
    BY <1>2, Zenon DEF TypeInv
  <2> QED
    BY <1>3, <1>4, <2>1 DEF EntryInv
<1>14. TipInv'
  BY Zenon DEF LockPool, TipInv, fence, engineVars
<1>15. SpentInputsArePlanned'
  <2> SUFFICES ASSUME ~unavailable, NEW t \in txs, t \notin gone,
                      NEW o \in Inputs[t], o \in Spent(chain_tip)
               PROVE  \E d \in Thread : o \in plan'[d].conflicting_inputs
    BY <1>2, Zenon DEF SpentInputsArePlanned, LockPool, fence, engineVars, Spent,
       BlocksOf
  <2>1. PICK d \in Thread : o \in plan[d].conflicting_inputs
    BY Zenon DEF SpentInputsArePlanned
  <2>2. d # c
    BY <1>7, <2>1, Zenon
  <2> QED
    BY <1>5, <2>1, <2>2, Zenon DEF TypeInv
<1> QED
  BY <1>8, <1>10, <1>11, <1>12, <1>13, <1>14, <1>15, Zenon

\* The thread that holds the pool's mutex has the only reservation there is.
LEMMA OneReservation ==
    ASSUME ThreadInv, NEW c \in Thread, NEW d \in Thread, d # c,
           pc[c] \in {"validate", "reserved", "release"}
    PROVE  token[d] = 0
BY Zenon DEF ThreadInv

\* A claim that is given back takes its rows with it.
LEMMA ReleaseReservationInv ==
    ASSUME IInv, NEW c \in Thread, ReleaseReservation(c)
    PROVE  IInv'
<1> USE DEF IInv
<1> DEFINE s == token[c]
<1>1. /\ s \in Sequence
      /\ by_token[s] # NoClaim
      /\ ~by_token[s].finalized
  BY DEF ReleaseReservation, ThreadInv, ReservationInv, TypeInv, Sequence
<1>2. /\ by_token' = tokens_without({s})
      /\ by_outpoint' = rows_without({s})
      /\ token_high_water' = token_high_water
  BY <1>1, Zenon DEF ReleaseReservation, release, drop_claims, RowInv
<1>3. \A r \in Sequence : by_token'[r] = IF r = s THEN NoClaim
                                                  ELSE by_token[r]
  BY <1>2, Zenon DEF tokens_without
<1>4. \A d \in Thread : token'[d] = 0
  BY OneReservation, Zenon DEF ReleaseReservation, TypeInv
<1>5. TypeInv'
  <2>1. /\ tokens_without({s}) \in [Sequence -> Claim \cup {NoClaim}]
        /\ rows_without({s}) \in [Outpoint -> Row \cup {NoRow}]
    BY DropType, Zenon
  <2>2. todo' \in [Thread -> Seq(Tx)]
    BY DEF ReleaseReservation, NextTx, TypeInv, ThreadInv
  <2>3. pc' \in [Thread -> Label] /\ token' \in [Thread -> 0 .. MaxSequence]
    BY OwnerAssumption DEF ReleaseReservation, NextTx, TypeInv, Goto, Label
  <2> QED
    BY <1>2, <2>1, <2>2, <2>3, Zenon DEF ReleaseReservation, TypeInv, fence,
       poolVars, engineVars
<1>6. ThreadInv' /\ ReservationInv'
  BY <1>4, Zenon DEF ReleaseReservation, NextTx, ThreadInv, ReservationInv, TypeInv,
     Goto
<1>7. RowInv'
  BY <1>1, <1>2, <1>3, DropKeepsRows
<1>8. OwnedInv'
  <2>1. \A r \in Sequence : by_token'[r] # NoClaim =>
            by_token[r].finalized /\ by_token'[r] = by_token[r]
    BY <1>3, OneReservation DEF OwnedInv, ReleaseReservation, Sequence
  <2> QED
    BY <2>1, Zenon DEF OwnedInv, ReleaseReservation, poolVars
<1>9. EntryInv'
  <2>1. \A t \in txs : owner_tokens[t] # s
    BY <1>1, Zenon DEF EntryInv
  <2> QED
    BY <1>3, <2>1, Zenon DEF EntryInv, ReleaseReservation, poolVars
<1>10. TipInv' /\ SpentInputsArePlanned'
  BY PlansUnchanged, Zenon DEF ReleaseReservation, fence, poolVars, engineVars,
     TipInv
<1> QED
  BY <1>5, <1>6, <1>7, <1>8, <1>9, <1>10, Zenon

\* What an admission is about is a transaction.
LEMMA CandidateFacts ==
    ASSUME TypeInv, ThreadInv, NEW c \in Thread,
           pc[c] \in {"validate", "reserved", "release"}
    PROVE  /\ Head(todo[c]) \in Tx
           /\ Head(todo[c]) # 0
           /\ Inputs[Head(todo[c])] \subseteq Outpoint
<1>1. todo[c] \in Seq(Tx) /\ todo[c] # <<>>
  BY Zenon DEF TypeInv, ThreadInv
<1>2. Head(todo[c]) \in Tx
  BY <1>1
<1> QED
  BY <1>2, OwnerAssumption, Zenon

\* No token above the high water is live.
LEMMA HighWater ==
    ASSUME TypeInv, RowInv
    PROVE  /\ token_high_water \in Nat
           /\ \A s \in Sequence : s \in Nat
           /\ \A s \in Sequence : by_token[s] # NoClaim
                                      => s <= token_high_water
<1>1. token_high_water \in Nat
  BY OwnerAssumption DEF TypeInv
<1>2. \A s \in Sequence : s \in Nat
  BY OwnerAssumption DEF Sequence
<1>3. \A s \in Sequence : by_token[s] # NoClaim => s <= token_high_water
  BY Zenon DEF RowInv
<1> QED
  BY <1>1, <1>2, <1>3, Zenon

\* A reservation claims unclaimed outputs with a new token.
LEMMA ReserveInv ==
    ASSUME IInv, NEW c \in Thread, Reserve(c)
    PROVE  IInv'
<1> USE DEF IInv
<1> DEFINE t == Head(todo[c])
           s == token_high_water + 1
           claim == [txid |-> t, generation |-> generation, finalized |-> FALSE]
           row == [sequence |-> s, txid |-> t]
<1>1. t \in Tx /\ Inputs[t] \subseteq Outpoint /\ t # 0
  BY CandidateFacts, Zenon DEF Reserve
<1>2. s \in Sequence /\ s \notin 0 .. token_high_water /\ s # 0
  BY OwnerAssumption DEF Reserve, can_reserve, TypeInv, Sequence
<1>3. /\ token_high_water' = s
      /\ by_token' = [by_token EXCEPT ![s] = claim]
      /\ by_outpoint' = [o \in Outpoint |-> IF o \in Inputs[t] THEN row
                                            ELSE by_outpoint[o]]
      /\ \A o \in Inputs[t] : by_outpoint[o] = NoRow
  BY Zenon DEF Reserve, reserve, can_reserve
<1>4. /\ token' = [token EXCEPT ![c] = s]
      /\ pc' = [pc EXCEPT ![c] = "reserved"]
      /\ UNCHANGED <<fence, poolVars, engineVars, pool_lock, plan, clone, todo,
                     context>>
  BY Zenon DEF Reserve, Goto
<1>5. by_token[s] = NoClaim
  BY <1>2, HighWater
<1>6. claim \in Claim /\ claim # NoClaim /\ row \in Row /\ row # NoRow
  BY <1>1, <1>2, Zenon DEF Claim, NoClaim, Row, NoRow, TypeInv
<1>7. claim.txid = t /\ ~claim.finalized /\ row.sequence = s /\ row.txid = t
  BY Zenon
<1>8. /\ \A r \in Sequence : by_token'[r] = IF r = s THEN claim ELSE by_token[r]
      /\ \A o \in Outpoint : by_outpoint'[o] = IF o \in Inputs[t] THEN row
                                               ELSE by_outpoint[o]
      /\ \A d \in Thread : token'[d] = IF d = c THEN s ELSE token[d]
  BY <1>3, <1>4, Zenon DEF TypeInv
<1>9. Valid(t, clone[c]) /\ pc[c] = "validate"
  BY Zenon DEF Reserve
<1>10. TypeInv'
  <2>1. by_token' \in [Sequence -> Claim \cup {NoClaim}]
    BY <1>3, <1>6, Zenon DEF TypeInv
  <2>2. by_outpoint' \in [Outpoint -> Row \cup {NoRow}]
    BY <1>3, <1>6, Zenon DEF TypeInv
  <2>3. token_high_water' \in 0 .. MaxSequence
    BY <1>2, <1>3 DEF Sequence
  <2>4. token' \in [Thread -> 0 .. MaxSequence]
    BY <1>2, <1>4 DEF Sequence, TypeInv
  <2>5. pc' \in [Thread -> Label]
    BY <1>4, Zenon DEF TypeInv, Label
  <2> QED
    BY <1>4, <2>1, <2>2, <2>3, <2>4, <2>5, Zenon DEF TypeInv, fence, poolVars,
       engineVars
<1>11. ThreadInv'
  BY <1>2, <1>4, <1>9, Zenon DEF ThreadInv, TypeInv
<1> HIDE DEF s, claim, row
<1>12. ReservationInv'
  <2> SUFFICES ASSUME NEW d \in Thread, token'[d] # 0
               PROVE  /\ by_token'[token'[d]] # NoClaim
                      /\ ~by_token'[token'[d]].finalized
                      /\ by_token'[token'[d]].txid = Head(todo'[d])
    BY Zenon DEF ReservationInv
  <2>1. d = c
    BY <1>8, <1>9, OneReservation, Zenon
  <2> QED
    BY <1>2, <1>4, <1>6, <1>7, <1>8, <2>1, Zenon
<1>13. RowInv'
  <2>1. ASSUME NEW o \in Outpoint, by_outpoint'[o] # NoRow
        PROVE  /\ by_token'[by_outpoint'[o].sequence] # NoClaim
               /\ by_token'[by_outpoint'[o].sequence].txid
                      = by_outpoint'[o].txid
               /\ o \in Inputs[by_outpoint'[o].txid]
    <3>1. CASE o \in Inputs[t]
      BY <1>2, <1>6, <1>7, <1>8, <3>1, Zenon
    <3>2. CASE o \notin Inputs[t]
      <4>1. by_outpoint'[o] = by_outpoint[o] /\ by_outpoint[o] # NoRow
        BY <1>8, <2>1, <3>2, Zenon
      <4>2. by_outpoint[o].sequence \in Sequence
        BY <4>1, RowFacts, Zenon
      <4>3. by_outpoint[o].sequence # s
        BY <1>5, <4>1, Zenon DEF RowInv
      <4> QED
        BY <1>8, <4>1, <4>2, <4>3 DEF RowInv
    <3> QED
      BY <3>1, <3>2, Zenon
  <2>2. ASSUME NEW r \in Sequence, by_token'[r] # NoClaim
        PROVE  /\ r <= token_high_water'
               /\ \A o \in Inputs[by_token'[r].txid] :
                      by_outpoint'[o] = [sequence |-> r,
                                         txid |-> by_token'[r].txid]
    <3>1. CASE r = s
      <4>1. by_token'[r].txid = t
        BY <1>7, <1>8, <3>1, Zenon
      <4> QED
        BY <1>1, <1>3, <1>8, <3>1, <4>1 DEF row, Sequence
    <3>2. CASE r # s
      <4>1. by_token'[r] = by_token[r] /\ by_token[r] # NoClaim
        BY <1>8, <2>2, <3>2, Zenon
      <4>2. Inputs[by_token[r].txid] \subseteq Outpoint
        BY <4>1, ClaimFacts, Zenon
      <4>3. \A o \in Inputs[by_token[r].txid] :
                by_outpoint[o] = [sequence |-> r, txid |-> by_token[r].txid]
        BY <4>1, Zenon DEF RowInv
      <4>4. \A o \in Inputs[by_token[r].txid] : o \notin Inputs[t]
        BY <1>3, <4>3, OwnerAssumption DEF NoRow, Sequence
      <4>5. r <= token_high_water /\ token_high_water \in Nat /\ r \in Nat
        BY <4>1, HighWater, Zenon
      <4>6. r <= token_high_water'
        BY <1>3, <4>5 DEF s
      <4> QED
        BY <1>8, <4>1, <4>2, <4>3, <4>4, <4>6, Zenon
    <3> QED
      BY <3>1, <3>2, Zenon
  <2> QED
    BY <2>1, <2>2, Zenon DEF RowInv
<1>14. OwnedInv'
  <2> SUFFICES ASSUME NEW r \in Sequence, by_token'[r] # NoClaim
               PROVE  IF by_token'[r].finalized
                      THEN /\ by_token'[r].txid \in txs'
                           /\ owner_tokens'[by_token'[r].txid] = r
                      ELSE \E d \in Thread : token'[d] = r
    BY Zenon DEF OwnedInv
  <2>1. CASE r = s
    BY <1>7, <1>8, <2>1, Zenon
  <2>2. CASE r # s
    <3>1. by_token'[r] = by_token[r] /\ by_token[r] # NoClaim
      BY <1>8, <2>2, Zenon
    <3>2. \A d \in Thread : token[d] = 0
      BY <1>9, OneReservation, Zenon DEF ThreadInv
    <3> QED
      BY <1>4, <3>1, <3>2 DEF OwnedInv, poolVars, Sequence
  <2> QED
    BY <2>1, <2>2, Zenon
<1>15. EntryInv'
  <2>1. \A u \in txs : owner_tokens[u] # s
    BY <1>5, Zenon DEF EntryInv
  <2> QED
    BY <1>4, <1>8, <2>1, Zenon DEF EntryInv, poolVars
<1>16. TipInv' /\ SpentInputsArePlanned'
  BY <1>4, PlansUnchanged, Zenon DEF fence, poolVars, engineVars, TipInv
<1> QED
  BY <1>10, <1>11, <1>12, <1>13, <1>14, <1>15, <1>16, Zenon


-----------------------------------------------------------------------------
(* The commit of an admission. *)

\* What CommitStandardDelta does, with the outcomes of its checks.
LEMMA CommitFacts ==
    ASSUME IInv, NEW c \in Thread, CommitStandardDelta(c)
    PROVE  /\ pc[c] = "reserved"
           /\ Head(todo[c]) \in Tx
           /\ token[c] \in Sequence
           /\ by_token[token[c]] # NoClaim
           /\ ~by_token[token[c]].finalized
           /\ by_token[token[c]].txid = Head(todo[c])
           /\ Head(todo[c]) \notin txs
           /\ Valid(Head(todo[c]), clone[c])
           /\ clone[c] = chain_tip
           /\ ~transition
           /\ ~unavailable
<1> USE DEF IInv
<1> DEFINE t == Head(todo[c])
           s == token[c]
<1>1. pc[c] = "reserved" /\ check_available(context[c])
  BY Zenon DEF CommitStandardDelta
<1>2. t \in Tx
  BY <1>1, CandidateFacts, Zenon
<1>3. /\ s \in Sequence
      /\ by_token[s] # NoClaim
      /\ ~by_token[s].finalized
      /\ by_token[s].txid = t
  BY <1>1 DEF ThreadInv, ReservationInv, TypeInv, Sequence
<1>4. t \notin txs
  <2> SUFFICES ASSUME t \in txs PROVE FALSE
    BY Zenon
  <2>1. PICK o \in Inputs[t] : TRUE
    BY <1>2, OwnerAssumption, Zenon
  <2>2. by_outpoint[o] = [sequence |-> owner_tokens[t], txid |-> t]
    BY EntryRows, Zenon DEF validate_standard_entry
  <2>3. by_outpoint[o] = [sequence |-> s, txid |-> t]
    BY <1>3, Zenon DEF RowInv
  <2>4. owner_tokens[t] = s
    BY <2>2, <2>3
  <2> QED
    BY <1>3, <2>4, Zenon DEF EntryInv
<1>5. Valid(t, clone[c]) /\ context[c].tip = clone[c]
  BY <1>1, Zenon DEF ThreadInv
<1>6. clone[c] = chain_tip /\ ~transition /\ ~unavailable
  BY <1>1, <1>5, Zenon DEF check_available, TipInv
<1> QED
  BY <1>1, <1>2, <1>3, <1>4, <1>5, <1>6, Zenon

\* The claims after commit_standard_delta: the victims' are gone, the
\* candidate's is finalized.
LEMMA CommittedClaims ==
    ASSUME TypeInv, NEW S, NEW s \in Sequence, s \notin S,
           by_token[s] # NoClaim, commit_claims(s, S)
    PROVE  /\ by_token' \in [Sequence -> Claim \cup {NoClaim}]
           /\ \A r \in Sequence : r # s =>
                  by_token'[r] = IF r \in S THEN NoClaim ELSE by_token[r]
           /\ by_token'[s] # NoClaim
           /\ by_token'[s].finalized
           /\ by_token'[s].txid = by_token[s].txid
<1> DEFINE claim == [by_token[s] EXCEPT !.finalized = TRUE]
<1>1. by_token[s] \in Claim /\ by_token[s].txid \in Tx
  BY ClaimFacts, Zenon
<1>2. tokens_without(S)[s] = by_token[s]
  BY Zenon DEF tokens_without
<1>3. tokens_without(S) \in [Sequence -> Claim \cup {NoClaim}]
  BY DropType, Zenon
<1>4. by_token' = [tokens_without(S) EXCEPT ![s] = claim]
  <2> DEFINE left == tokens_without(S)
  <2>1. by_token' = [left EXCEPT ![s].finalized = TRUE]
    BY Zenon DEF commit_claims
  <2>2. left[s] = by_token[s]
    BY <1>2, Zenon
  <2> HIDE DEF left, claim
  <2>3. by_token' = [left EXCEPT ![s] = [left[s] EXCEPT !.finalized = TRUE]]
    BY <2>1, Zenon
  <2>4. by_token' = [left EXCEPT ![s] = claim]
    BY <2>2, <2>3, Zenon DEF claim
  <2> QED
    BY <2>4, Zenon DEF left
<1>5. claim \in Claim
  BY <1>1, Zenon DEF Claim
<1>6. claim # NoClaim /\ claim.finalized /\ claim.txid = by_token[s].txid
  BY <1>1, Zenon DEF Claim, NoClaim
<1> HIDE DEF claim
<1>7. by_token' \in [Sequence -> Claim \cup {NoClaim}] /\ by_token'[s] = claim
  BY <1>3, <1>4, <1>5, Zenon
<1>8. \A r \in Sequence : r # s =>
          by_token'[r] = IF r \in S THEN NoClaim ELSE by_token[r]
  BY <1>3, <1>4, Zenon DEF tokens_without
<1> QED
  BY <1>6, <1>7, <1>8, Zenon

\* A transaction enters the pool: its claim is finalized, the victims' claims
\* go with the victims, and nothing it spends is spent at the tip.
LEMMA CommitStandardDeltaInv ==
    ASSUME IInv, NEW c \in Thread, CommitStandardDelta(c)
    PROVE  IInv'
<1> USE DEF IInv
<1> DEFINE t == Head(todo[c])
           s == token[c]
<1>1. /\ pc[c] = "reserved"
      /\ t \in Tx
      /\ s \in Sequence
      /\ by_token[s] # NoClaim
      /\ ~by_token[s].finalized
      /\ by_token[s].txid = t
      /\ t \notin txs
      /\ Valid(t, clone[c])
      /\ clone[c] = chain_tip
  BY CommitFacts, Zenon
<1>2. PICK victims \in SUBSET txs :
          /\ replace_entries_raw(victims, t, s)
          /\ commit_claims(s, {owner_tokens[v] : v \in victims})
  BY Zenon DEF CommitStandardDelta
<1> DEFINE dropped == {owner_tokens[v] : v \in victims}
<1>3. /\ txs' = (txs \ victims) \cup {t}
      /\ owner_tokens' = [u \in Tx |-> IF u = t THEN s ELSE
                             IF u \in victims THEN 0 ELSE owner_tokens[u]]
      /\ by_outpoint' = rows_without(dropped)
      /\ token_high_water' = token_high_water
  BY <1>2, Zenon DEF replace_entries_raw, commit_claims
<1>4. /\ token' = [token EXCEPT ![c] = 0]
      /\ pc' = [pc EXCEPT ![c] = "next"]
      /\ todo' = [todo EXCEPT ![c] = Tail(todo[c])]
      /\ UNCHANGED <<fence, engineVars, pool_lock, plan, clone, context>>
  BY Zenon DEF CommitStandardDelta, NextTx, Goto
<1>5. /\ dropped \subseteq Sequence
      /\ \A r \in dropped : by_token[r].finalized
      /\ \A u \in txs \ victims : owner_tokens[u] \notin dropped
  BY EntryTokens, Zenon
<1>6. s \notin dropped
  BY <1>1, <1>5, Zenon
<1>7. commit_claims(s, dropped)
  BY <1>2, Zenon
<1> HIDE DEF dropped
<1>8. /\ by_token' \in [Sequence -> Claim \cup {NoClaim}]
      /\ \A r \in Sequence : r # s =>
             by_token'[r] = IF r \in dropped THEN NoClaim ELSE by_token[r]
      /\ by_token'[s] # NoClaim
      /\ by_token'[s].finalized
      /\ by_token'[s].txid = t
  BY <1>1, <1>6, <1>7, CommittedClaims
<1>9. \A d \in Thread : token'[d] = 0
  BY <1>1, <1>4, OneReservation, Zenon DEF TypeInv
<1>10. \A u \in txs \ victims : owner_tokens'[u] = owner_tokens[u] /\ u # t
  BY <1>1, <1>3, Zenon DEF TypeInv
<1>11. TypeInv'
  <2>1. rows_without(dropped) \in [Outpoint -> Row \cup {NoRow}]
    BY DropType, Zenon
  <2>2. todo' \in [Thread -> Seq(Tx)]
    BY <1>1, <1>4 DEF TypeInv, ThreadInv
  <2>3. pc' \in [Thread -> Label] /\ token' \in [Thread -> 0 .. MaxSequence]
    BY <1>4, OwnerAssumption DEF TypeInv, Label
  <2>4. owner_tokens' \in [Tx -> 0 .. MaxSequence] /\ txs' \subseteq Tx
    <3>1. s \in 0 .. MaxSequence /\ 0 \in 0 .. MaxSequence
      BY <1>1, OwnerAssumption DEF Sequence
    <3>2. \A u \in Tx : owner_tokens[u] \in 0 .. MaxSequence
      BY Zenon DEF TypeInv
    <3>3. owner_tokens' \in [Tx -> 0 .. MaxSequence]
      BY <1>3, <3>1, <3>2, Zenon
    <3>4. txs' \subseteq Tx
      BY <1>1, <1>3, Zenon DEF TypeInv
    <3> QED
      BY <3>3, <3>4, Zenon
  <2>5. UNCHANGED <<generation, stable_tip, chain_tip, target, plan, clone,
                    context>>
    BY <1>4, Zenon DEF fence, engineVars
  <2> QED
    BY <1>3, <1>8, <2>1, <2>2, <2>3, <2>4, <2>5, Zenon DEF TypeInv
<1>12. ThreadInv' /\ ReservationInv'
  <2>1. \A d \in Thread : pc'[d] \in {"next", "validate", "reserved", "release"}
            => d = c
    BY <1>1, <1>4, Zenon DEF ThreadInv, TypeInv
  <2> QED
    BY <1>1, <1>4, <1>9, <2>1, Zenon DEF ThreadInv, ReservationInv, TypeInv
<1>13. RowInv'
  <2>1. \A r \in Sequence :
            IF r \in dropped THEN by_token'[r] = NoClaim
            ELSE /\ by_token'[r] # NoClaim <=> by_token[r] # NoClaim
                 /\ by_token'[r].txid = by_token[r].txid
    BY <1>1, <1>6, <1>8, Zenon
  <2> QED
    BY <1>3, <1>5, <2>1, DropKeepsRows, Zenon
<1>14. OwnedInv'
  <2> SUFFICES ASSUME NEW r \in Sequence, by_token'[r] # NoClaim
               PROVE  IF by_token'[r].finalized
                      THEN /\ by_token'[r].txid \in txs'
                           /\ owner_tokens'[by_token'[r].txid] = r
                      ELSE \E d \in Thread : token'[d] = r
    BY Zenon DEF OwnedInv
  <2>1. CASE r = s
    BY <1>1, <1>3, <1>8, <2>1, Zenon
  <2>2. CASE r # s
    <3>1. r \notin dropped /\ by_token'[r] = by_token[r]
      BY <1>8, <2>2, Zenon
    <3>2. by_token[r].finalized
      BY <1>1, <2>2, <3>1, OneReservation DEF OwnedInv, Sequence
    <3>3. by_token[r].txid \in txs /\ owner_tokens[by_token[r].txid] = r
      BY <3>1, <3>2, Zenon DEF OwnedInv
    <3>4. by_token[r].txid \notin victims
      BY <3>1, <3>3, Zenon DEF dropped
    <3> QED
      BY <1>3, <1>10, <3>1, <3>2, <3>3, <3>4, Zenon
  <2> QED
    BY <2>1, <2>2, Zenon
<1>15. EntryInv'
  <2> SUFFICES ASSUME NEW u \in txs'
               PROVE  /\ owner_tokens'[u] \in Sequence
                      /\ by_token'[owner_tokens'[u]] # NoClaim
                      /\ by_token'[owner_tokens'[u]].finalized
                      /\ by_token'[owner_tokens'[u]].txid = u
    BY Zenon DEF EntryInv
  <2>1. CASE u = t
    BY <1>1, <1>3, <1>8, <2>1, Zenon
  <2>2. CASE u \in txs \ victims
    <3>1. /\ owner_tokens'[u] = owner_tokens[u]
          /\ owner_tokens[u] \notin dropped
          /\ owner_tokens[u] \in Sequence
          /\ owner_tokens[u] # s
      BY <1>1, <1>5, <1>10, <2>2, Zenon DEF EntryInv
    <3> QED
      BY <1>8, <2>2, <3>1 DEF EntryInv
  <2> QED
    BY <1>3, <2>1, <2>2, Zenon
<1>16. TipInv'
  BY <1>4, Zenon DEF TipInv, fence, engineVars
<1>17. SpentInputsArePlanned'
  <2> SUFFICES ASSUME ~unavailable, NEW u \in txs', NEW o \in Inputs[u],
                      o \in Spent(chain_tip)
               PROVE  \E d \in Thread : o \in plan[d].conflicting_inputs
    BY <1>4, Zenon DEF SpentInputsArePlanned, fence, engineVars, Spent, BlocksOf
  <2>1. u # t
    BY <1>1, Zenon DEF Valid
  <2> QED
    BY <1>3, <2>1, Zenon DEF SpentInputsArePlanned
<1> QED
  BY <1>11, <1>12, <1>13, <1>14, <1>15, <1>16, <1>17, Zenon

-----------------------------------------------------------------------------
(* The theorems. *)

\* Every step preserves the invariant.
LEMMA StepInv ==
    ASSUME IInv, [Next]_vars
    PROVE  IInv'
<1>1. CASE UNCHANGED vars
  <2>1. /\ UNCHANGED <<ownerVars, poolVars, chain_tip, target>>
        /\ UNCHANGED <<pool_lock, pc, plan, clone, todo, context, token>>
    BY <1>1, Zenon DEF vars, engineVars, admissionVars
  <2>2. ThreadInv'
    BY <2>1, Zenon DEF IInv, ThreadInv
  <2> QED
    BY <2>1, <2>2, LocalTypes, QuietStep, Zenon
<1>2. ASSUME NEW c \in Thread, Step(c)
      PROVE  IInv'
  <2>1. CASE CloneForCleanup(c)
    <3>1. pc[c] \in {"idle", "planned"} /\ CloneChainState(c, <<>>)
      BY <2>1, Zenon DEF CloneForCleanup
    <3>2. <<>> \in Seq(Tx)
      OBVIOUS
    <3> QED
      BY <3>1, <3>2, CloneInv, Zenon
  <2> QED
    BY <1>2, <2>1, CommitTipInv, FailTransitionInv, DropEngineInv,
       LockPoolInv, NextBlockInv, AdmissionContextInv, ReserveInv,
       RefuseReservationInv, CommitStandardDeltaInv, RefuseDeltaInv,
       ReleaseReservationInv, UnlockPoolInv, Zenon DEF Step
<1>3. ASSUME NEW c \in Thread, Request(c)
      PROVE  IInv'
  <2>1. ASSUME NEW t \in Tx
        PROVE  <<t>> \in Seq(Tx)
    OBVIOUS
  <2>2. ASSUME NEW t \in Tx, SubmitTx(c, t)
        PROVE  IInv'
    <3>1. pc[c] \in {"idle", "planned"} /\ CloneChainState(c, <<t>>)
      BY <2>2, Zenon DEF SubmitTx
    <3> QED
      BY <2>1, <3>1, CloneInv, Zenon
  <2>3. ASSUME NEW t \in Tx, RelayTx(c, t)
        PROVE  IInv'
    <3>1. pc[c] \in {"idle", "planned"} /\ CloneChainState(c, <<t>>)
      BY <2>3, Zenon DEF RelayTx
    <3> QED
      BY <2>1, <3>1, CloneInv, Zenon
  <2> QED
    BY <1>3, <2>2, <2>3, BeginTransitionInv, Zenon DEF Request
<1> QED
  BY <1>1, <1>2, <1>3, Zenon DEF Next

\* The invariant holds throughout.
THEOREM Invariance == Spec => []IInv
<1>1. Init => IInv
  BY InitInv, Zenon
<1>2. IInv /\ [Next]_vars => IInv'
  BY StepInv, Zenon
<1> QED
  BY <1>1, <1>2, PTL DEF Spec

\* The invariant gives the two properties on claims.
LEMMA ClaimProperties ==
    ASSUME IInv
    PROVE  PooledHoldClaims /\ NoLeakedClaim
<1> USE DEF IInv
<1>1. PooledHoldClaims
  BY EntryRows, Zenon DEF PooledHoldClaims
<1>2. NoLeakedClaim
  <2>1. ASSUME NEW s \in Sequence, by_token[s] # NoClaim
        PROVE  IF by_token[s].finalized
               THEN /\ by_token[s].txid \in txs
                    /\ owner_tokens[by_token[s].txid] = s
               ELSE \E c \in Thread : /\ token[c] = s
                                      /\ pc[c] \in {"reserved", "release"}
    <3>1. CASE by_token[s].finalized
      BY <2>1, <3>1, Zenon DEF OwnedInv
    <3>2. CASE ~by_token[s].finalized
      <4>1. PICK c \in Thread : token[c] = s
        BY <2>1, <3>2, Zenon DEF OwnedInv
      <4>2. token[c] # 0
        BY <4>1, OwnerAssumption DEF Sequence
      <4> QED
        BY <3>2, <4>1, <4>2, Zenon DEF ThreadInv
    <3> QED
      BY <3>1, <3>2, Zenon
  <2> QED
    BY <2>1, Zenon DEF NoLeakedClaim, RowInv
<1> QED
  BY <1>1, <1>2, Zenon

\* Every pooled transaction always owns a finalized claim and the rows of all
\* its inputs: the pool and the owner, two tables behind two mutexes, agree
\* whatever admissions, evictions and clean-ups interleave.
THEOREM PoolAndOwnerAgree == Spec => []PooledHoldClaims
<1>1. IInv => PooledHoldClaims
  BY ClaimProperties, Zenon
<1> QED
  BY <1>1, Invariance, PTL

\* Every claim always belongs to a pooled transaction or to an admission in
\* progress: no error path of add_tx_with_source leaks one.
THEOREM ClaimsNeverLeak == Spec => []NoLeakedClaim
<1>1. IInv => NoLeakedClaim
  BY ClaimProperties, Zenon
<1> QED
  BY <1>1, Invariance, PTL

\* No two pooled transactions spend the same output.
NoDoubleSpend ==
    \A t, u \in txs : t # u => Inputs[t] \cap Inputs[u] = {}

\* What the owner is for: the pool never holds a double spend.
THEOREM PoolHasNoDoubleSpend == Spec => []NoDoubleSpend
<1>1. IInv => NoDoubleSpend
  <2> SUFFICES ASSUME IInv, NEW t \in txs, NEW u \in txs,
                      NEW o \in Inputs[t], o \in Inputs[u]
               PROVE  t = u
    BY Zenon DEF NoDoubleSpend
  <2>1. /\ by_outpoint[o] = [sequence |-> owner_tokens[t], txid |-> t]
        /\ by_outpoint[o] = [sequence |-> owner_tokens[u], txid |-> u]
    BY EntryRows, Zenon DEF IInv, validate_standard_entry
  <2> QED
    BY <2>1
<1> QED
  BY <1>1, Invariance, PTL

\* No clean-up plan is lost: while the engine is not latched, an output that
\* the chain has spent is held by a pooled transaction only until a plan that
\* some thread still carries is applied.
THEOREM NoPlanIsLost == Spec => []SpentInputsArePlanned
<1>1. IInv => SpentInputsArePlanned
  BY Zenon DEF IInv
<1> QED
  BY <1>1, Invariance, PTL

\* Only commit_standard_delta adds to the pool, and only its transaction.
LEMMA OnlyCommitAdds ==
    ASSUME [Next]_vars, NEW t \in txs' \ txs
    PROVE  \E c \in Thread : CommitStandardDelta(c) /\ t = Head(todo[c])
<1>1. txs' # txs
  BY Zenon
<1>2. PICK c \in Thread : Step(c) \/ Request(c)
  BY <1>1, Zenon DEF Next, vars, poolVars
<1>3. CASE Request(c)
  BY <1>1, <1>3, Zenon DEF Request, BeginTransition, SubmitTx, RelayTx,
     CloneChainState, poolVars
<1>4. CASE LockPool(c)
  BY <1>4, Zenon DEF LockPool, remove_entries_raw
<1>5. CASE CommitStandardDelta(c)
  BY <1>5, Zenon DEF CommitStandardDelta, replace_entries_raw
<1>6. ASSUME ~LockPool(c), ~CommitStandardDelta(c), Step(c)
      PROVE  txs' = txs
  BY <1>6, Zenon DEF Step, CommitTip, FailTransition, DropEngine, CloneForCleanup,
     CloneChainState, NextBlock, AdmissionContext, Reserve, RefuseReservation,
     RefuseDelta, ReleaseReservation, UnlockPool, poolVars
<1> QED
  BY <1>1, <1>2, <1>3, <1>4, <1>5, <1>6, Zenon

\* A transaction enters the pool only with the fence down and valid at the tip
\* the engine has at that moment, although it was validated against a clone
\* and the engine's mutex was dropped: the context check of
\* commit_standard_delta is enough.
THEOREM AdmissionsAreCurrent == Spec => AdmittedAtLiveTip
<1>1. ASSUME IInv, [Next]_vars
      PROVE  [\A t \in txs' \ txs : /\ ~transition
                                    /\ ~unavailable
                                    /\ Valid(t, chain_tip)]_vars
  <2> SUFFICES ASSUME NEW t \in txs' \ txs
               PROVE  ~transition /\ ~unavailable /\ Valid(t, chain_tip)
    BY Zenon
  <2>1. PICK c \in Thread : CommitStandardDelta(c) /\ t = Head(todo[c])
    BY <1>1, OnlyCommitAdds, Zenon
  <2> QED
    BY <1>1, <2>1, CommitFacts, Zenon
<1> QED
  BY <1>1, Invariance, PTL DEF Spec, AdmittedAtLiveTip

\* An admission never evicts what pays a higher fee rate than something it
\* keeps, the newcomer included, under either pressure and either tie rule.
THEOREM EvictionIsWorstFirst == Spec => EvictsWorstFirst
<1>1. ASSUME IInv, [Next]_vars
      PROVE  [\A t \in txs' \ txs : \A v \in txs \ txs' : \A k \in txs' :
                  Fee[v] * Weight[k] <= Fee[k] * Weight[v]]_vars
  <2> SUFFICES ASSUME NEW t \in txs' \ txs, NEW v \in txs \ txs',
                      NEW k \in txs'
               PROVE  Fee[v] * Weight[k] <= Fee[k] * Weight[v]
    BY Zenon
  <2>1. PICK c \in Thread : CommitStandardDelta(c) /\ t = Head(todo[c])
    BY <1>1, OnlyCommitAdds, Zenon
  <2>2. PICK victims \in SUBSET txs :
            /\ eviction_plan(t, victims)
            /\ txs' = (txs \ victims) \cup {t}
    BY <2>1, Zenon DEF CommitStandardDelta, replace_entries_raw
  <2>3. v \in victims /\ k \in (txs \cup {t}) \ victims
    BY <2>2, Zenon
  <2>4. ByteWorse(v, k) \/ CountWorse(v, k)
    BY <2>2, <2>3, Zenon DEF eviction_plan
  <2>5. Fee[v] * Weight[k] < Fee[k] * Weight[v]
            \/ Fee[v] * Weight[k] = Fee[k] * Weight[v]
    BY <2>4, Zenon DEF ByteWorse, CountWorse, FeeRateLess, FeeRateEqual
  <2>6. v \in Tx /\ k \in Tx
    BY <1>1, <2>1, <2>3, CommitFacts, Zenon DEF IInv, TypeInv
  <2>7. Fee[v] * Weight[k] \in Nat /\ Fee[k] * Weight[v] \in Nat
    BY <2>6, PoolAssumption
  <2> QED
    BY <2>5, <2>7
<1> QED
  BY <1>1, Invariance, PTL DEF Spec, EvictsWorstFirst

-----------------------------------------------------------------------------
(* Capacity. *)

\* The pool is within its limits and is a finite set of entries, so that what it
\* holds can be counted.
CapacityInv ==
    /\ IsFiniteSet(txs)
    /\ IsFiniteSet(BytesOf(txs))
    /\ WithinCapacity

\* One transaction has as many bytes as its size says.
LEMMA OneTxBytes ==
    ASSUME NEW t \in Tx
    PROVE  /\ IsFiniteSet({t} \X (1 .. Size[t]))
           /\ Cardinality({t} \X (1 .. Size[t])) = Size[t]
           /\ Size[t] \in Nat
<1>1. Size[t] \in Nat \ {0}
  BY PoolAssumption, Zenon
<1>2. IsFiniteSet(1 .. Size[t]) /\ Cardinality(1 .. Size[t]) = Size[t]
  <2>1. 1 \in Int /\ Size[t] \in Int /\ ~(1 > Size[t]) /\ Size[t] - 1 + 1 = Size[t]
    BY <1>1
  <2>2. /\ IsFiniteSet(1 .. Size[t])
        /\ Cardinality(1 .. Size[t]) = IF 1 > Size[t] THEN 0 ELSE Size[t] - 1 + 1
    BY <2>1, FS_Interval, Zenon
  <2> QED
    BY <2>1, <2>2, Zenon
<1>3. IsFiniteSet({t}) /\ Cardinality({t}) = 1
  BY FS_Singleton, Zenon
<1>4. /\ IsFiniteSet({t} \X (1 .. Size[t]))
      /\ Cardinality({t} \X (1 .. Size[t])) = 1 * Size[t]
  <2>1. /\ IsFiniteSet({t} \X (1 .. Size[t]))
        /\ Cardinality({t} \X (1 .. Size[t])) = Cardinality({t}) * Cardinality(1 .. Size[t])
    BY <1>2, <1>3, FS_Product, Zenon
  <2> QED
    BY <1>2, <1>3, <2>1, Zenon
<1>5. 1 * Size[t] = Size[t] /\ Size[t] \in Nat
  BY <1>1
<1> QED
  BY <1>4, <1>5, Zenon

\* The bytes of a part of the pool are a part of its bytes: subtracting them
\* never wraps (remove_entries_raw).
LEMMA BytesOfRest ==
    ASSUME NEW P, IsFiniteSet(BytesOf(P)), NEW S \in SUBSET P
    PROVE  /\ IsFiniteSet(BytesOf(P \ S))
           /\ Bytes(P) \in Nat /\ Bytes(S) \in Nat /\ Bytes(S) <= Bytes(P)
           /\ Bytes(P \ S) = Bytes(P) - Bytes(S)
<1>1. BytesOf(S) \subseteq BytesOf(P) /\ BytesOf(P \ S) = BytesOf(P) \ BytesOf(S)
  <2>1. \A x : x \in BytesOf(P \ S) <=> x \in BytesOf(P) /\ x \notin BytesOf(S)
    BY DEF BytesOf
  <2> QED
    BY <2>1 DEF BytesOf
<1>2. /\ IsFiniteSet(BytesOf(S)) /\ Cardinality(BytesOf(S)) <= Cardinality(BytesOf(P))
      /\ Cardinality(BytesOf(P)) \in Nat /\ Cardinality(BytesOf(S)) \in Nat
  BY <1>1, FS_Subset, FS_CardinalityType, Zenon
<1>3. BytesOf(P) \cap BytesOf(S) = BytesOf(S)
  BY <1>1, Zenon
<1>4. /\ IsFiniteSet(BytesOf(P \ S))
      /\ Cardinality(BytesOf(P \ S)) = Cardinality(BytesOf(P)) - Cardinality(BytesOf(S))
  <2>1. /\ IsFiniteSet(BytesOf(P) \ BytesOf(S))
        /\ Cardinality(BytesOf(P) \ BytesOf(S)) =
               Cardinality(BytesOf(P)) - Cardinality(BytesOf(P) \cap BytesOf(S))
    BY FS_Difference, Zenon
  <2> QED
    BY <1>1, <1>3, <2>1, Zenon
<1> QED
  BY <1>2, <1>4, Zenon DEF Bytes

\* A transaction that is not pooled adds its size (add_entry).
LEMMA BytesOfMore ==
    ASSUME NEW P \in SUBSET Tx, IsFiniteSet(BytesOf(P)), NEW t \in Tx, t \notin P
    PROVE  /\ IsFiniteSet(BytesOf(P \cup {t}))
           /\ Bytes(P \cup {t}) = Bytes(P) + Size[t]
<1> DEFINE own == {t} \X (1 .. Size[t])
<1>1. IsFiniteSet(own) /\ Cardinality(own) = Size[t] /\ Size[t] \in Nat
  BY OneTxBytes, Zenon
<1>2. BytesOf(P \cup {t}) = BytesOf(P) \cup own
  BY Zenon DEF BytesOf
<1>3. BytesOf(P) \cap own = {}
  <2> SUFFICES ASSUME NEW x \in BytesOf(P), x \in own PROVE FALSE
    BY Zenon
  <2>1. PICK u \in P : x \in {u} \X (1 .. Size[u])
    BY Zenon DEF BytesOf
  <2>2. x[1] = u
    BY <2>1, Zenon
  <2>3. x[1] = t
    BY Zenon
  <2> QED
    BY <2>2, <2>3, Zenon
<1> HIDE DEF own
<1>4. /\ IsFiniteSet(BytesOf(P) \cup own)
      /\ Cardinality(BytesOf(P) \cup own) =
             Cardinality(BytesOf(P)) + Cardinality(own) - Cardinality({})
  <2>1. /\ IsFiniteSet(BytesOf(P) \cup own)
        /\ Cardinality(BytesOf(P) \cup own) =
               Cardinality(BytesOf(P)) + Cardinality(own) - Cardinality(BytesOf(P) \cap own)
    BY <1>1, FS_Union, Zenon
  <2> QED
    BY <1>3, <2>1, Zenon
<1>5. Cardinality({}) = 0 /\ Cardinality(BytesOf(P)) \in Nat
  BY FS_EmptySet, FS_CardinalityType, Zenon
<1>6. Cardinality(BytesOf(P)) + Cardinality(own) - 0 = Cardinality(BytesOf(P)) + Size[t]
  BY <1>1, <1>5
<1> QED
  BY <1>2, <1>4, <1>5, <1>6, Zenon DEF Bytes

\* The removals of a plan keep the byte count exact.
LEMMA LockPoolCapacity ==
    ASSUME IInv, CapacityInv, NEW c \in Thread, LockPool(c)
    PROVE  CapacityInv'
<1>1. PICK gone \in SUBSET txs : remove_entries_raw(gone)
  BY Zenon DEF LockPool, exactly
<1>2. txs' = txs \ gone /\ used_bytes' = used_bytes - Bytes(gone)
  BY <1>1, Zenon DEF remove_entries_raw
<1>3. /\ IsFiniteSet(txs') /\ Cardinality(txs') <= Cardinality(txs)
      /\ Cardinality(txs') \in Nat /\ Cardinality(txs) \in Nat
  BY <1>2, FS_Subset, FS_CardinalityType, Zenon DEF CapacityInv
<1>4. /\ IsFiniteSet(BytesOf(txs \ gone)) /\ Bytes(txs) \in Nat /\ Bytes(gone) \in Nat
      /\ Bytes(gone) <= Bytes(txs) /\ Bytes(txs \ gone) = Bytes(txs) - Bytes(gone)
  BY BytesOfRest, Zenon DEF CapacityInv
<1>5. /\ used_bytes' = Bytes(txs \ gone) /\ used_bytes' <= max_bytes
      /\ Cardinality(txs') <= max_transactions
  BY <1>2, <1>3, <1>4, PoolAssumption DEF CapacityInv, WithinCapacity
<1>6. IsFiniteSet(BytesOf(txs')) /\ used_bytes' = Bytes(txs')
  BY <1>2, <1>4, <1>5, Zenon
<1>7. BytesOf(txs)' = BytesOf(txs') /\ Bytes(txs)' = Bytes(txs')
  BY Zenon DEF BytesOf, Bytes
<1> QED
  BY <1>3, <1>5, <1>6, <1>7, Zenon DEF CapacityInv, WithinCapacity

\* capacity_eviction_plan makes room for the newcomer: without pressure there is
\* room, and under pressure the victims' count and bytes reach the target.
LEMMA PlanMakesRoom ==
    ASSUME CapacityInv, NEW t \in Tx, NEW victims \in SUBSET txs, eviction_plan(t, victims)
    PROVE  /\ Cardinality(txs) + 1 - Cardinality(victims) <= max_transactions
           /\ used_bytes + Size[t] - Bytes(victims) <= max_bytes
<1>1. /\ max_transactions \in Nat /\ max_bytes \in Nat /\ Size[t] \in Nat
      /\ low_water_bytes \in Nat /\ low_water_bytes <= max_bytes
  BY PoolAssumption
<1>2. /\ Cardinality(txs) \in Nat /\ Cardinality(victims) \in Nat
      /\ Cardinality({}) = 0
  BY FS_Subset, FS_CardinalityType, FS_EmptySet, Zenon DEF CapacityInv
<1>3. /\ used_bytes \in Nat /\ Bytes(victims) \in Nat
  BY BytesOfRest, Zenon DEF CapacityInv, WithinCapacity
<1>4. CASE /\ ~(Cardinality(txs) >= max_transactions) /\ ~(used_bytes + Size[t] > max_bytes)
           /\ victims = {}
  <2>1. Bytes(victims) = 0
    <3>1. BytesOf({}) = {}
      BY Zenon DEF BytesOf
    <3> QED
      BY <1>2, <1>4, <3>1, Zenon DEF Bytes
  <2>2. Cardinality(victims) = 0
    BY <1>2, <1>4, Zenon
  <2> QED
    BY <1>1, <1>2, <1>3, <1>4, <2>1, <2>2
<1>5. CASE \E goal \in {low_water_bytes, Size[t], max_bytes} :
             /\ Cardinality(txs) + 1 - Cardinality(victims) <= max_transactions
             /\ used_bytes + Size[t] - Bytes(victims) <= goal
  <2>1. PICK goal \in {low_water_bytes, Size[t], max_bytes} :
             /\ Cardinality(txs) + 1 - Cardinality(victims) <= max_transactions
             /\ used_bytes + Size[t] - Bytes(victims) <= goal
    BY <1>5, Zenon
  <2>2. Size[t] <= max_bytes
    BY Zenon DEF eviction_plan
  <2>3. goal \in Nat /\ goal <= max_bytes
    BY <1>1, <2>2
  <2> QED
    BY <1>1, <1>3, <2>1, <2>3
<1> QED
  BY <1>4, <1>5, Zenon DEF eviction_plan

\* The commit of an admission.
LEMMA CommitCapacity ==
    ASSUME IInv, CapacityInv, NEW c \in Thread, CommitStandardDelta(c)
    PROVE  CapacityInv'
<1> DEFINE t == Head(todo[c])
<1>1. t \in Tx /\ t \notin txs /\ txs \in SUBSET Tx
  BY CommitFacts, Zenon DEF IInv, TypeInv
<1>2. PICK victims \in SUBSET txs :
          /\ eviction_plan(t, victims)
          /\ txs' = (txs \ victims) \cup {t}
          /\ used_bytes' = used_bytes - Bytes(victims) + Size[t]
  BY Zenon DEF CommitStandardDelta, replace_entries_raw
<1> HIDE DEF t
<1> DEFINE kept == txs \ victims
<1>3. kept \in SUBSET Tx /\ t \notin kept
  BY <1>1, Zenon
<1>4. /\ IsFiniteSet(kept)
      /\ Cardinality(kept) = Cardinality(txs) - Cardinality(victims)
  <2>1. txs \cap victims = victims
    BY Zenon
  <2> QED
    BY <2>1, FS_Difference, Zenon DEF CapacityInv
<1>5. /\ IsFiniteSet(BytesOf(kept)) /\ Bytes(txs) \in Nat /\ Bytes(victims) \in Nat
      /\ Bytes(victims) <= Bytes(txs) /\ Bytes(kept) = Bytes(txs) - Bytes(victims)
  BY BytesOfRest, Zenon DEF CapacityInv
<1> HIDE DEF kept
<1>6. IsFiniteSet(BytesOf(kept \cup {t})) /\ Bytes(kept \cup {t}) = Bytes(kept) + Size[t]
  BY <1>1, <1>3, <1>5, BytesOfMore, Zenon
<1>7. IsFiniteSet(kept \cup {t}) /\ Cardinality(kept \cup {t}) = Cardinality(kept) + 1
  BY <1>3, <1>4, FS_AddElement, Zenon
<1>8. txs' = kept \cup {t}
  BY <1>2, Zenon DEF kept
<1>9. /\ Cardinality(txs) + 1 - Cardinality(victims) <= max_transactions
      /\ used_bytes + Size[t] - Bytes(victims) <= max_bytes
  BY <1>1, <1>2, PlanMakesRoom, Zenon
<1>10. /\ Cardinality(txs) \in Nat /\ Cardinality(victims) \in Nat /\ used_bytes = Bytes(txs)
       /\ Size[t] \in Nat /\ max_bytes \in Nat /\ max_transactions \in Nat
  BY <1>1, OneTxBytes, PoolAssumption, FS_Subset, FS_CardinalityType, Zenon DEF CapacityInv, WithinCapacity
<1>11. Cardinality(kept \cup {t}) <= max_transactions
  BY <1>4, <1>7, <1>9, <1>10
<1>12. used_bytes' = Bytes(kept \cup {t}) /\ used_bytes' <= max_bytes
  BY <1>2, <1>5, <1>6, <1>9, <1>10
<1>13. BytesOf(txs)' = BytesOf(txs') /\ Bytes(txs)' = Bytes(txs')
  BY Zenon DEF BytesOf, Bytes
<1> QED
  BY <1>6, <1>7, <1>8, <1>11, <1>12, <1>13, Zenon DEF CapacityInv, WithinCapacity

\* The pool changes with a plan's removals and with a commit only.
LEMMA OnlyTwoChangePool ==
    ASSUME [Next]_vars
    PROVE  \/ UNCHANGED <<txs, used_bytes>>
           \/ \E c \in Thread : LockPool(c) \/ CommitStandardDelta(c)
<1>1. CASE UNCHANGED vars
  BY <1>1, Zenon DEF vars, poolVars
<1>2. ASSUME NEW c \in Thread, Request(c)
      PROVE  UNCHANGED <<txs, used_bytes>>
  BY <1>2, Zenon DEF Request, BeginTransition, SubmitTx, RelayTx, CloneChainState, poolVars
<1>3. ASSUME NEW c \in Thread, ~LockPool(c), ~CommitStandardDelta(c), Step(c)
      PROVE  UNCHANGED <<txs, used_bytes>>
  BY <1>3, Zenon DEF Step, CommitTip, FailTransition, DropEngine, CloneForCleanup,
     CloneChainState, NextBlock, AdmissionContext, Reserve, RefuseReservation,
     RefuseDelta, ReleaseReservation, UnlockPool, poolVars
<1> QED
  BY <1>1, <1>2, <1>3, Zenon DEF Next

\* The pool never exceeds either limit, and the byte count that is kept by
\* additions and subtractions (used_bytes) is always the sum of the sizes of
\* the entries, whatever admissions, evictions and clean-ups interleave.
THEOREM PoolStaysWithinCapacity == Spec => []WithinCapacity
<1>1. Init => CapacityInv
  <2> SUFFICES ASSUME Init PROVE CapacityInv
    BY Zenon
  <2>1. txs = {} /\ used_bytes = 0
    BY Zenon DEF Init
  <2>2. BytesOf(txs) = {}
    BY <2>1, Zenon DEF BytesOf
  <2>3. IsFiniteSet({}) /\ Cardinality({}) = 0
    BY FS_EmptySet, Zenon
  <2>4. 0 <= max_transactions /\ 0 <= max_bytes
    BY PoolAssumption
  <2> QED
    BY <2>1, <2>2, <2>3, <2>4, Zenon DEF CapacityInv, WithinCapacity, Bytes
<1>2. IInv /\ CapacityInv /\ [Next]_vars => CapacityInv'
  <2>1. CapacityInv /\ UNCHANGED <<txs, used_bytes>> => CapacityInv'
    BY Zenon DEF CapacityInv, WithinCapacity, Bytes, BytesOf
  <2> QED
    BY <2>1, OnlyTwoChangePool, LockPoolCapacity, CommitCapacity, Zenon
<1>3. CapacityInv => WithinCapacity
  BY Zenon DEF CapacityInv
<1> QED
  BY <1>1, <1>2, <1>3, Invariance, PTL DEF Spec

=============================================================================
