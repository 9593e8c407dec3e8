------------------------------- MODULE TxPool -------------------------------
(***************************************************************************)
(* The transaction pool (txpool.rs), the pending-outpoint owner it shares  *)
(* with the sync engine, and the clean-up plans that a change of tip       *)
(* leaves behind (TxPoolCleanupPlan of sync_reorg.rs, applied by           *)
(* p2p_service.rs).                                                        *)
(*                                                                         *)
(* A thread is a peer's message loop or an RPC request. It                 *)
(*   - moves the tip under the engine's mutex, collecting a plan, drops    *)
(*     the mutex, and later applies the plan; or                           *)
(*   - submits a transaction.                                              *)
(* In both cases it clones the chain state under the engine's mutex and    *)
(* uses the clone under the pool's mutex, when the tip may have moved on.  *)
(* The sync engine itself is module SyncEngine; here it is a tip that      *)
(* moves to a preferred one, fails and stays, or latches unavailable.      *)
(***************************************************************************)
EXTENDS Naturals, Sequences, FiniteSets, FiniteSetsExt, Functions

-----------------------------------------------------------------------------
(* The pending-outpoint owner (pending_outpoint_owner.rs): one mutex that  *)
(* records which transaction, pooled or being admitted, claims each        *)
(* unspent output, and a fence that the sync engine raises around every    *)
(* change of the tip. Every operator of this part is one call under the    *)
(* owner's mutex, hence atomic; those that change state leave the fence or *)
(* the claims alone.                                                       *)


CONSTANTS
    Tx,             \* transaction identifiers, ordered as the txids are
    Outpoint,       \* outputs a transaction may spend
    Inputs,         \* Inputs[t]: the outpoints t spends
    Tip,            \* the tips the chain may have
    Genesis,        \* the tip the owner is created with
    MaxSequence,    \* stands for u64::MAX, the last token
    MaxGeneration   \* stands for u64::MAX, the last generation

\* A transaction that consensus accepts spends something, and its txid is not
\* zero; validate_request refuses the others.
ASSUME OwnerAssumption ==
    /\ Tx \subseteq Nat \ {0}
    /\ Inputs \in [Tx -> (SUBSET Outpoint) \ {{}}]
    /\ Genesis \in Tip
    /\ MaxSequence \in Nat
    /\ MaxGeneration \in Nat

VARIABLES
    by_outpoint,        \* outpoint -> the row that claims it, or NoRow
    by_token,           \* sequence -> the live claim, or NoClaim
    token_high_water,   \* the last sequence handed out
    generation,         \* counts the transitions begun
    transition,         \* the fence is up
    unavailable,        \* the fence is up for good
    stable_tip          \* the tip admissions are fenced to

claims == <<by_outpoint, by_token, token_high_water>>
fence == <<generation, transition, unavailable, stable_tip>>
ownerVars == <<claims, fence>>

Sequence == 1 .. MaxSequence
Row == [sequence : Sequence, txid : Tx]
Claim == [txid : Tx, generation : 0 .. MaxGeneration, finalized : BOOLEAN]
Context == [tip : Tip, generation : 0 .. MaxGeneration]
NoRow == [sequence |-> 0, txid |-> 0]
NoClaim == [txid |-> 0, generation |-> 0, finalized |-> FALSE]

OwnerInit ==
    /\ by_outpoint = [o \in Outpoint |-> NoRow]
    /\ by_token = [s \in Sequence |-> NoClaim]
    /\ token_high_water = 0
    /\ generation = 0
    /\ transition = FALSE
    /\ unavailable = FALSE
    /\ stable_tip = Genesis

-----------------------------------------------------------------------------
(* Reads. *)

admission_context_available ==
    /\ ~transition
    /\ ~unavailable
    /\ generation # MaxGeneration

admission_context == [tip |-> stable_tip, generation |-> generation]

\* Mutant: an admission is not held to the tip it was validated for.
check_available_FenceOnly(context) == ~transition /\ ~unavailable

check_available(context) ==
    /\ ~transition
    /\ ~unavailable
    /\ context.tip = stable_tip
    /\ context.generation = generation

\* The token of an unfinished admission is still good: no transition began
\* since it was handed out.
check_candidate(s) ==
    /\ ~transition
    /\ ~unavailable
    /\ by_token[s] # NoClaim
    /\ by_token[s].generation = generation

\* A token that is live, names t, and owns the row of every input of t.
validate_standard_entry(t, s, finalized) ==
    /\ s \in Sequence
    /\ by_token[s] # NoClaim
    /\ by_token[s].txid = t
    /\ by_token[s].finalized = finalized
    /\ \A o \in Inputs[t] : by_outpoint[o] = [sequence |-> s, txid |-> t]

txids_for_outpoints(outpoints) ==
    {by_outpoint[o].txid : o \in {p \in outpoints : by_outpoint[p] # NoRow}}

-----------------------------------------------------------------------------
(* Claims. *)

\* Mutant: the inputs are not looked up among the claims.
can_reserve_NoConflict(context, t) ==
    check_available(context) /\ token_high_water < MaxSequence

\* reserve succeeds: the fence is down and still where the context saw it, a
\* sequence is left, and nobody claims an input.
can_reserve(context, t) ==
    /\ check_available(context)
    /\ token_high_water < MaxSequence
    /\ \A o \in Inputs[t] : by_outpoint[o] = NoRow

reserve(t) ==
    LET s == token_high_water + 1
    IN  /\ token_high_water' = s
        /\ by_token' = [by_token EXCEPT ![s] =
                [txid |-> t, generation |-> generation, finalized |-> FALSE]]
        /\ by_outpoint' = [o \in Outpoint |->
                IF o \in Inputs[t] THEN [sequence |-> s, txid |-> t]
                                   ELSE by_outpoint[o]]

\* drop_claim for a set of tokens: the two tables without their claims. A row
\* goes only with the token that owns it, and only if the claim lists it.
tokens_without(S) ==
    [s \in Sequence |-> IF s \in S THEN NoClaim ELSE by_token[s]]

rows_without(S) ==
    [o \in Outpoint |->
        IF \E s \in S : /\ by_outpoint[o].sequence = s
                        /\ by_token[s] # NoClaim
                        /\ o \in Inputs[by_token[s].txid]
        THEN NoRow ELSE by_outpoint[o]]

\* drop_after_validation of a set of tokens under one hold of the mutex.
drop_claims(S) ==
    /\ by_token' = tokens_without(S)
    /\ by_outpoint' = rows_without(S)
    /\ UNCHANGED token_high_water

\* release refuses a token whose rows are not its own, and leaves it.
release(s) ==
    IF /\ by_token[s] # NoClaim
       /\ \A o \in Inputs[by_token[s].txid] :
              by_outpoint[o] = [sequence |-> s, txid |-> by_token[s].txid]
    THEN drop_claims({s})
    ELSE UNCHANGED claims

\* The owner's half of a pool commit: the victims' claims go, the candidate's
\* is finalized.
commit_claims(s, victims) ==
    /\ by_token' = [tokens_without(victims) EXCEPT ![s].finalized = TRUE]
    /\ by_outpoint' = rows_without(victims)
    /\ UNCHANGED token_high_water

-----------------------------------------------------------------------------
(* The fence. *)

begin_transition ==
    /\ ~transition
    /\ ~unavailable
    /\ generation < MaxGeneration
    /\ generation' = generation + 1
    /\ transition' = TRUE
    /\ UNCHANGED <<unavailable, stable_tip>>

commit_stable_tip(tip) ==
    /\ transition
    /\ ~unavailable
    /\ stable_tip' = tip
    /\ transition' = FALSE
    /\ UNCHANGED <<generation, unavailable>>

reopen_old_tip ==
    /\ transition
    /\ ~unavailable
    /\ transition' = FALSE
    /\ UNCHANGED <<generation, unavailable, stable_tip>>

latch_unavailable ==
    /\ unavailable' = TRUE
    /\ transition' = FALSE
    /\ UNCHANGED <<generation, stable_tip>>

-----------------------------------------------------------------------------
(* The pool. *)

CONSTANTS
    Thread,
    None,               \* no thread
    Block,
    Blocks,             \* Blocks[tip]: the chain below and at tip, oldest first
    Body,               \* Body[block]: its transactions in order, no coinbase
    Rank,               \* Rank[tip]: position in the engine's chain preference
    Coins,              \* outpoints that exist before any block
    Outputs,            \* Outputs[t]: the outpoints t creates
    Fee, Weight, Size,  \* what admission learns of a transaction
    BelowFloor,         \* the transactions under the rolling fee floor
    max_transactions,
    max_bytes,
    low_water_bytes,
    MaxHeapId           \* stands for u64::MAX, the last admission sequence

ASSUME PoolAssumption ==
    /\ None \notin Thread
    /\ Blocks \in [Tip -> Seq(Block)]
    /\ Body \in [Block -> Seq(Tx)]
    /\ Rank \in [Tip -> Nat]
    /\ \A t \in Tx : Fee[t] \in Nat /\ Weight[t] \in Nat \ {0}
                                    /\ Size[t] \in Nat \ {0}
    /\ max_transactions \in Nat \ {0}
    /\ max_bytes \in Nat \ {0}
    /\ low_water_bytes \in 1 .. max_bytes
    /\ MaxHeapId \in Nat

VARIABLES
    txs,            \* the pooled transactions
    owner_tokens,   \* txid -> token of its claim, 0 when not pooled
    heap_seqs,      \* txid -> admission sequence, 0 when not pooled
    next_heap_id,
    used_bytes,
    chain_tip,      \* the tip of the engine's chain state
    engine_lock,    \* the thread that holds the engine's mutex, or None
    pool_lock,      \* the thread that holds the pool's mutex, or None
    pc,             \* where each thread is
    target,         \* the tip its transition goes to
    plan,           \* its TxPoolCleanupPlan
    clone,          \* the tip of its chain-state clone
    todo,           \* transactions it still has to admit
    context,        \* the admission context of the one in progress
    token           \* the reservation of the one in progress, 0 without one

poolVars == <<txs, owner_tokens, heap_seqs, next_heap_id, used_bytes>>
engineVars == <<chain_tip, engine_lock, target>>
admissionVars == <<clone, todo, context, token>>
vars == <<ownerVars, poolVars, engineVars, pool_lock, pc, plan, admissionVars>>

-----------------------------------------------------------------------------
(* The chain, as far as the pool depends on it. *)

BlocksOf(tip) == Range(Blocks[tip])
TxsOf(blocks) == UNION {Range(Body[b]) : b \in blocks}
Spent(tip) == UNION {Inputs[t] : t \in TxsOf(BlocksOf(tip))}
Created(tip) == Coins \cup UNION {Outputs[t] : t \in TxsOf(BlocksOf(tip))}

\* Consensus validation against the unspent outputs of a chain state.
Valid(t, tip) == Inputs[t] \subseteq Created(tip) \ Spent(tip)

NoPlan == [confirmed_txids |-> {}, conflicting_inputs |-> {},
           requeue_blocks |-> <<>>]

\* What a move of the tip asks of the pool: forget what the connected blocks
\* confirm or spend, and take back the transactions of the disconnected ones,
\* which are listed newest first. Blocks that both chains have are common.
PlanOf(from, to) ==
    LET connected == BlocksOf(to) \ BlocksOf(from)
        chain == Blocks[from]
        base == Cardinality({i \in DOMAIN chain : chain[i] \in BlocksOf(to)})
    IN  [confirmed_txids |-> TxsOf(connected),
         conflicting_inputs |-> UNION {Inputs[t] : t \in TxsOf(connected)},
         requeue_blocks |-> [i \in 1 .. Len(chain) - base |->
                                 chain[Len(chain) + 1 - i]]]

merge(a, b) ==
    [confirmed_txids |-> a.confirmed_txids \cup b.confirmed_txids,
     conflicting_inputs |-> a.conflicting_inputs \cup b.conflicting_inputs,
     requeue_blocks |-> a.requeue_blocks \o b.requeue_blocks]

-----------------------------------------------------------------------------
(* capacity_eviction_plan. *)

\* Mutant: the fee decides, not the fee rate.
FeeRateLess_ByFee(a, b) == Fee[a] < Fee[b]

\* compare_fee_rate_values: exact, by cross multiplication.
FeeRateLess(a, b) == Fee[a] * Weight[b] < Fee[b] * Weight[a]
FeeRateEqual(a, b) == Fee[a] * Weight[b] = Fee[b] * Weight[a]

\* compare_priority_values, the order under count pressure: the higher fee,
\* then the smaller weight, then the smaller txid is better.
CountWorse(a, b) ==
    \/ FeeRateLess(a, b)
    \/ /\ FeeRateEqual(a, b)
       /\ \/ Fee[a] < Fee[b]
          \/ /\ Fee[a] = Fee[b]
             /\ \/ Weight[a] > Weight[b]
                \/ Weight[a] = Weight[b] /\ a > b

\* compare_capacity_priority, the order under byte pressure: among equals the
\* later admission is better. The candidate has sequence 0, which is its entry
\* in heap_seqs while it is not pooled.
ByteWorse(a, b) ==
    \/ FeeRateLess(a, b)
    \/ /\ FeeRateEqual(a, b)
       /\ \/ Fee[a] < Fee[b]
          \/ /\ Fee[a] = Fee[b]
             /\ \/ heap_seqs[a] < heap_seqs[b]
                \/ heap_seqs[a] = heap_seqs[b] /\ a > b

\* The bytes of a set of transactions: as many for each as its size says.
BytesOf(S) == UNION {{t} \X (1 .. Size[t]) : t \in S}
Bytes(S) == Cardinality(BytesOf(S))

\* Mutant: a full pool is not yet under count pressure.
eviction_plan_LatePressure(t, victims) ==
    /\ Size[t] <= max_bytes
    /\ victims = {}
    /\ Cardinality(txs) <= max_transactions
    /\ used_bytes + Size[t] <= max_bytes

\* victims is what the loop collects for candidate t: nothing without
\* pressure; otherwise the worst residents, one at a time, until the count and
\* the byte target are met. The loop gives up, and t has no plan, when t itself
\* is the worst left.
eviction_plan(t, victims) ==
    LET count_pressure == Cardinality(txs) >= max_transactions
        byte_pressure == used_bytes + Size[t] > max_bytes
        target_bytes == IF byte_pressure
                        THEN IF low_water_bytes > Size[t]
                             THEN low_water_bytes ELSE Size[t]
                        ELSE max_bytes
        Worse(a, b) == IF byte_pressure THEN ByteWorse(a, b)
                                        ELSE CountWorse(a, b)
        Fits(V) == /\ Cardinality(txs) + 1 - Cardinality(V) <= max_transactions
                   /\ used_bytes + Size[t] - Bytes(V) <= target_bytes
    IN  /\ Size[t] <= max_bytes
        /\ victims \subseteq txs
        /\ IF ~count_pressure /\ ~byte_pressure
           THEN victims = {}
           ELSE /\ Fits(victims)
                /\ \A v \in victims :
                       \A k \in (txs \cup {t}) \ victims : Worse(v, k)
                /\ \A v \in victims :
                       (\A u \in victims \ {v} : Worse(u, v))
                           => ~Fits(victims \ {v})

\* Removing a set of entries, and then perhaps adding one.
remove_entries_raw(S) ==
    /\ txs' = txs \ S
    /\ owner_tokens' = [t \in Tx |-> IF t \in S THEN 0 ELSE owner_tokens[t]]
    /\ heap_seqs' = [t \in Tx |-> IF t \in S THEN 0 ELSE heap_seqs[t]]
    /\ used_bytes' = used_bytes - Bytes(S)
    /\ UNCHANGED next_heap_id

replace_entries_raw(S, new, s) ==
    /\ txs' = (txs \ S) \cup {new}
    /\ owner_tokens' = [t \in Tx |-> IF t = new THEN s
                                     ELSE IF t \in S THEN 0 ELSE owner_tokens[t]]
    /\ heap_seqs' = [t \in Tx |-> IF t = new THEN next_heap_id + 1
                                  ELSE IF t \in S THEN 0 ELSE heap_seqs[t]]
    /\ used_bytes' = used_bytes - Bytes(S) + Size[new]
    /\ next_heap_id' = next_heap_id + 1

\* remove_entries_exact removes all the listed entries or, if the owner does
\* not confirm one of them, none.
exactly(S) ==
    IF \A t \in S : validate_standard_entry(t, owner_tokens[t], TRUE)
    THEN S ELSE {}

-----------------------------------------------------------------------------
(* The sync engine. *)

Goto(c, label) == pc' = [pc EXCEPT ![c] = label]

\* Under the engine's mutex, taken now or held since the block before, a block
\* or a branch with more work starts to move the tip.
BeginTransition(c, to) ==
    /\ \/ pc[c] = "idle" /\ engine_lock = None
       \/ pc[c] = "applied"
    /\ Rank[to] > Rank[chain_tip]
    /\ begin_transition
    /\ engine_lock' = c
    /\ target' = [target EXCEPT ![c] = to]
    /\ Goto(c, "moving")
    /\ UNCHANGED <<claims, poolVars, chain_tip, pool_lock, plan, admissionVars>>

CommitTip(c) ==
    /\ pc[c] = "moving"
    /\ commit_stable_tip(target[c])
    /\ chain_tip' = target[c]
    /\ plan' = [plan EXCEPT ![c] = merge(@, PlanOf(chain_tip, target[c]))]
    /\ target' = [target EXCEPT ![c] = Genesis]
    /\ Goto(c, "applied")
    /\ UNCHANGED <<claims, poolVars, engine_lock, pool_lock, admissionVars>>

\* Mutant: the plan of the blocks before the failed one is lost with it.
FailTransition_LosesPlan(c) ==
    /\ pc[c] = "moving"
    /\ \/ reopen_old_tip /\ UNCHANGED chain_tip
       \/ latch_unavailable /\ chain_tip' \in {chain_tip, target[c]}
    /\ target' = [target EXCEPT ![c] = Genesis]
    /\ plan' = [plan EXCEPT ![c] = NoPlan]
    /\ Goto(c, "applied")
    /\ UNCHANGED <<claims, poolVars, engine_lock, pool_lock,
                   admissionVars>>

\* The move fails and is undone, or it fails and cannot be undone; the chain
\* state is then reloaded from disk, which may have either tip.
FailTransition(c) ==
    /\ pc[c] = "moving"
    /\ \/ reopen_old_tip /\ UNCHANGED chain_tip
       \/ latch_unavailable /\ chain_tip' \in {chain_tip, target[c]}
    /\ target' = [target EXCEPT ![c] = Genesis]
    /\ Goto(c, "applied")
    /\ UNCHANGED <<claims, poolVars, engine_lock, pool_lock, plan,
                   admissionVars>>

\* The message loop drops the engine's mutex; an empty plan is not applied.
DropEngine(c) ==
    /\ pc[c] = "applied"
    /\ engine_lock' = None
    /\ Goto(c, IF plan[c] = NoPlan THEN "idle" ELSE "planned")
    /\ UNCHANGED <<ownerVars, poolVars, chain_tip, target, pool_lock, plan,
                   admissionVars>>

-----------------------------------------------------------------------------
(* Before the pool's mutex: cloning the chain state. *)

CloneChainState(c, work) ==
    /\ engine_lock = None
    /\ clone' = [clone EXCEPT ![c] = chain_tip]
    /\ todo' = [todo EXCEPT ![c] = work]
    /\ Goto(c, "cloned")
    /\ UNCHANGED <<ownerVars, poolVars, chain_tip, target, pool_lock, plan,
                   context, token>>

\* apply_tx_pool_cleanup, first half.
CloneForCleanup(c) ==
    /\ pc[c] = "planned"
    /\ CloneChainState(c, <<>>)
    /\ UNCHANGED engine_lock

\* submit_tx, first half: the clone outlives the engine's mutex.
SubmitTx(c, t) ==
    /\ pc[c] = "idle"
    /\ CloneChainState(c, <<t>>)
    /\ UNCHANGED engine_lock

\* A relayed transaction is admitted with the engine's mutex held throughout.
RelayTx(c, t) ==
    /\ pc[c] = "idle"
    /\ CloneChainState(c, <<t>>)
    /\ engine_lock' = c

-----------------------------------------------------------------------------
(* Under the pool's mutex. *)

\* Take the mutex and carry out the removals of the plan: what is confirmed,
\* then what conflicts with a confirmed transaction.
LockPool(c) ==
    LET confirmed == exactly(plan[c].confirmed_txids \cap txs)
        conflicting == exactly(
            (txids_for_outpoints(plan[c].conflicting_inputs) \cap txs)
                \ confirmed)
        gone == confirmed \cup conflicting
    IN  /\ pc[c] = "cloned"
        /\ pool_lock = None
        /\ pool_lock' = c
        /\ remove_entries_raw(gone)
        /\ drop_claims({owner_tokens[t] : t \in gone})
        /\ plan' = [plan EXCEPT ![c] = [NoPlan EXCEPT !.requeue_blocks =
                                           plan[c].requeue_blocks]]
        /\ Goto(c, "next")
        /\ UNCHANGED <<fence, engineVars, admissionVars>>

\* The admission in progress is over, with or without success.
NextTx(c) == todo' = [todo EXCEPT ![c] = Tail(@)] /\ Goto(c, "next")

\* apply_with_report goes through the disconnected blocks oldest first, that
\* is from the end of the list, and admits their transactions in order.
NextBlock(c) ==
    LET blocks == plan[c].requeue_blocks
    IN  /\ pc[c] = "next"
        /\ todo[c] = <<>>
        /\ blocks # <<>>
        /\ todo' = [todo EXCEPT ![c] = Body[blocks[Len(blocks)]]]
        /\ plan' = [plan EXCEPT ![c].requeue_blocks =
                                    SubSeq(blocks, 1, Len(blocks) - 1)]
        /\ UNCHANGED <<ownerVars, poolVars, engineVars, pool_lock, pc, clone,
                       context, token>>

\* add_tx_with_source starts: the owner's context, if the fence is down, must
\* be for the tip of the clone.
AdmissionContext(c) ==
    /\ pc[c] = "next"
    /\ todo[c] # <<>>
    /\ IF admission_context_available /\ stable_tip = clone[c]
       THEN /\ context' = [context EXCEPT ![c] = admission_context]
            /\ Goto(c, "validate")
            /\ UNCHANGED todo
       ELSE NextTx(c) /\ UNCHANGED context
    /\ UNCHANGED <<ownerVars, poolVars, engineVars, pool_lock, plan, clone,
                   token>>

\* Validation against the clone, the duplicate check and the reservation.
Reserve(c) ==
    LET t == Head(todo[c])
    IN  /\ pc[c] = "validate"
        /\ Valid(t, clone[c])
        /\ t \notin txs
        /\ can_reserve(context[c], t)
        /\ reserve(t)
        /\ token' = [token EXCEPT ![c] = token_high_water + 1]
        /\ Goto(c, "reserved")
        /\ UNCHANGED <<fence, poolVars, engineVars, pool_lock, plan, clone,
                       todo, context>>

\* The transaction is invalid, pooled already, in conflict or too late, or
\* memory for the claim runs out.
RefuseReservation(c) ==
    /\ pc[c] = "validate"
    /\ NextTx(c)
    /\ UNCHANGED <<ownerVars, poolVars, engineVars, pool_lock, plan, clone,
                   context, token>>

\* Fee floor, capacity_eviction_plan, preflight_standard_delta, and then
\* commit_standard_delta under the owner's mutex.
CommitStandardDelta(c) ==
    LET t == Head(todo[c])
    IN  /\ pc[c] = "reserved"
        /\ t \notin BelowFloor
        /\ next_heap_id # MaxHeapId
        /\ check_available(context[c])
        /\ check_candidate(token[c])
        /\ validate_standard_entry(t, token[c], FALSE)
        /\ \E victims \in SUBSET txs :
               /\ eviction_plan(t, victims)
               /\ exactly(victims) = victims
               /\ replace_entries_raw(victims, t, token[c])
               /\ commit_claims(token[c], {owner_tokens[v] : v \in victims})
        /\ token' = [token EXCEPT ![c] = 0]
        /\ NextTx(c)
        /\ UNCHANGED <<fence, engineVars, pool_lock, plan, clone, context>>

\* Mutant: an error path forgets the reservation.
RefuseDelta_NoRelease(c) ==
    /\ pc[c] = "reserved"
    /\ NextTx(c)
    /\ token' = [token EXCEPT ![c] = 0]
    /\ UNCHANGED <<ownerVars, poolVars, engineVars, pool_lock, plan, clone,
                   context>>

\* One of those checks fails, or memory for the delta runs out: the
\* reservation has to go back.
RefuseDelta(c) ==
    /\ pc[c] = "reserved"
    /\ Goto(c, "release")
    /\ UNCHANGED <<ownerVars, poolVars, engineVars, pool_lock, plan,
                   admissionVars>>

ReleaseReservation(c) ==
    /\ pc[c] = "release"
    /\ release(token[c])
    /\ token' = [token EXCEPT ![c] = 0]
    /\ NextTx(c)
    /\ UNCHANGED <<fence, poolVars, engineVars, pool_lock, plan, clone, context>>

\* Nothing left to admit: the pool's mutex, and a relay's engine mutex, go.
UnlockPool(c) ==
    /\ pc[c] = "next"
    /\ todo[c] = <<>>
    /\ plan[c].requeue_blocks = <<>>
    /\ pool_lock' = None
    /\ engine_lock' = IF engine_lock = c THEN None ELSE engine_lock
    /\ clone' = [clone EXCEPT ![c] = Genesis]
    /\ context' = [context EXCEPT ![c] = [tip |-> Genesis, generation |-> 0]]
    /\ Goto(c, "idle")
    /\ UNCHANGED <<ownerVars, poolVars, chain_tip, target, plan, todo, token>>

-----------------------------------------------------------------------------
Init ==
    /\ OwnerInit
    /\ txs = {}
    /\ owner_tokens = [t \in Tx |-> 0]
    /\ heap_seqs = [t \in Tx |-> 0]
    /\ next_heap_id = 0
    /\ used_bytes = 0
    /\ chain_tip = Genesis
    /\ engine_lock = None
    /\ pool_lock = None
    /\ pc = [c \in Thread |-> "idle"]
    /\ target = [c \in Thread |-> Genesis]
    /\ plan = [c \in Thread |-> NoPlan]
    /\ clone = [c \in Thread |-> Genesis]
    /\ todo = [c \in Thread |-> <<>>]
    /\ context = [c \in Thread |-> [tip |-> Genesis, generation |-> 0]]
    /\ token = [c \in Thread |-> 0]

\* What a thread does once it has started something, its locks permitting.
Step(c) ==
    \/ CommitTip(c)
    \/ FailTransition(c)
    \/ DropEngine(c)
    \/ CloneForCleanup(c)
    \/ LockPool(c)
    \/ NextBlock(c)
    \/ AdmissionContext(c)
    \/ Reserve(c)
    \/ RefuseReservation(c)
    \/ CommitStandardDelta(c)
    \/ RefuseDelta(c)
    \/ ReleaseReservation(c)
    \/ UnlockPool(c)

\* What peers and users make a thread start.
Request(c) ==
    \/ \E to \in Tip : BeginTransition(c, to)
    \/ \E t \in Tx : SubmitTx(c, t)
    \/ \E t \in Tx : RelayTx(c, t)

Next == \E c \in Thread : Step(c) \/ Request(c)

Spec == Init /\ [][Next]_vars

-----------------------------------------------------------------------------
(* Properties. *)

Label == {"idle", "moving", "applied", "planned", "cloned", "next", "validate",
          "reserved", "release"}

PlanType == [confirmed_txids : SUBSET Tx,
             conflicting_inputs : SUBSET Outpoint,
             requeue_blocks : Seq(Block)]

\* Every variable has the type its Rust field has, counters within their bounds.
TypeOK ==
    /\ by_outpoint \in [Outpoint -> Row \cup {NoRow}]
    /\ by_token \in [Sequence -> Claim \cup {NoClaim}]
    /\ token_high_water \in 0 .. MaxSequence
    /\ generation \in 0 .. MaxGeneration
    /\ transition \in BOOLEAN
    /\ unavailable \in BOOLEAN
    /\ stable_tip \in Tip
    /\ txs \subseteq Tx
    /\ owner_tokens \in [Tx -> 0 .. MaxSequence]
    /\ heap_seqs \in [Tx -> 0 .. MaxHeapId]
    /\ next_heap_id \in 0 .. MaxHeapId
    /\ used_bytes \in Nat
    /\ chain_tip \in Tip
    /\ engine_lock \in Thread \cup {None}
    /\ pool_lock \in Thread \cup {None}
    /\ pc \in [Thread -> Label]
    /\ target \in [Thread -> Tip]
    /\ plan \in [Thread -> PlanType]
    /\ clone \in [Thread -> Tip]
    /\ todo \in [Thread -> Seq(Tx)]
    /\ context \in [Thread -> Context]
    /\ token \in [Thread -> 0 .. MaxSequence]

\* Every pooled transaction owns a live, finalized claim and the rows of all
\* its inputs, so no two pooled transactions spend the same output.
\* remove_entries_exact and commit_standard_delta give up silently on an entry
\* of which this is not so: it could never be removed again.
PooledHoldClaims ==
    \A t \in txs : validate_standard_entry(t, owner_tokens[t], TRUE)

\* No claim is leaked: each live one belongs to a pooled transaction, or to an
\* admission that is still running and will finish or release it, and each row
\* belongs to a live claim. A leaked claim would bar its outputs for good.
NoLeakedClaim ==
    /\ \A s \in Sequence : by_token[s] # NoClaim =>
           IF by_token[s].finalized
           THEN /\ by_token[s].txid \in txs
                /\ owner_tokens[by_token[s].txid] = s
           ELSE \E c \in Thread : /\ token[c] = s
                                  /\ pc[c] \in {"reserved", "release"}
    /\ \A o \in Outpoint : by_outpoint[o] # NoRow =>
           /\ by_token[by_outpoint[o].sequence] # NoClaim
           /\ by_token[by_outpoint[o].sequence].txid = by_outpoint[o].txid

\* An output that the chain has spent is claimed by a pooled transaction only
\* while some thread still has to apply the plan that removes it: plans may be
\* applied late and out of order, but none is lost, and no admission validated
\* at an older tip slips in behind one. (A latched engine admits and mines
\* nothing until restart, when the pool is empty.)
SpentInputsArePlanned ==
    ~unavailable => \A t \in txs : \A o \in Inputs[t] \cap Spent(chain_tip) :
        \E c \in Thread : o \in plan[c].conflicting_inputs

\* A transaction enters the pool only while the fence is down and it is valid
\* at the tip the engine has then, although it was validated against a clone.
AdmittedAtLiveTip ==
    [][\A t \in txs' \ txs : /\ ~transition
                             /\ ~unavailable
                             /\ Valid(t, chain_tip)]_vars

\* The pool stays within both limits, and its byte count, kept by additions
\* and subtractions, is the sum of its entries' sizes.
WithinCapacity ==
    /\ Cardinality(txs) <= max_transactions
    /\ used_bytes = Bytes(txs)
    /\ used_bytes <= max_bytes

\* An admission evicts nothing that pays a higher fee rate than something it
\* keeps, the newcomer included (capacity_eviction_plan is worst first).
EvictsWorstFirst ==
    [][\A t \in txs' \ txs : \A v \in txs \ txs' : \A k \in txs' :
           Fee[v] * Weight[k] <= Fee[k] * Weight[v]]_vars
=============================================================================
