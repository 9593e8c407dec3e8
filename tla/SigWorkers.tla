----------------------------- MODULE SigWorkers -----------------------------
(***************************************************************************)
(* Signature checks done by threads: the queue a block's spends fill       *)
(* (sig_queue.rs), the worker pool that empties it (worker_pool.rs), the   *)
(* cache the threads share (sig_cache.rs), and the per-transaction workers *)
(* that use the same pool and cache (tx_validate_worker.rs).               *)
(*                                                                         *)
(* A signature is a value with a verdict, the same whoever asks.  A job is *)
(* a sequence of signatures checked in order by one thread: one signature  *)
(* for a queued task, those of one transaction for a transaction worker    *)
(* (a failing structural check is a signature whose verdict is "error").   *)
(* A thread's lookup, verification and insertion are separate steps, since *)
(* only the first and the last hold the cache's lock.                      *)
(***************************************************************************)
EXTENDS Integers, Sequences, FiniteSets, TLC

CONSTANTS Sig,            \* signatures with their key, suite and digest
          Verdict,        \* Sig -> {"valid", "invalid", "error", "panic"}
          Bytes,          \* Sig -> size of a queued task
          Registry,       \* suite registries a spend may be checked under
          TxBatches,      \* batches of [index, sigs] for transaction workers
          MAX_TASKS,      \* max_sigcheck_queue_tasks
          MAX_BYTES,      \* MAX_SIGCHECK_QUEUE_BYTES
          MaxWorkers,     \* threads a pool may use
          Capacity,       \* of the cache
          MaxMarks        \* nesting of queue marks: transaction, threshold

VARIABLES queue,      \* tasks, queued_bytes and registry of SigCheckQueue
          marks,      \* marks taken and not yet dropped, innermost last
          failed,     \* a spend has failed: its marks are being rolled back
          mode,       \* "idle", or who waits: "inline", "batch", "txs"
          jobs,       \* the batch being run
          next,       \* front of the pool's queue
          slot,       \* results, in submission order
          thread,     \* what each spawned thread is doing
          cancelled,  \* WorkerCancellationToken
          cache,      \* keys in SigCache
          out         \* the batch just joined and what was made of it

vars == <<queue, marks, failed, mode, jobs, next, slot, thread, cancelled, cache, out>>
poolVars == <<mode, jobs, next, slot, thread, cancelled, cache, out>>
queueVars == <<queue, marks, failed>>

None == "none"
Empty == [tasks |-> <<>>, bytes |-> 0, registry |-> None]
Done(k, s) == [kind |-> k, sig |-> s]
OkResult == Done("ok", None)
Unset == Done("unset", None)
NoError == [code |-> None, sig |-> None]
NoBatch == [mode |-> "none", jobs |-> <<>>, slot |-> <<>>, error |-> NoError]
Gone == [step |-> "gone", idx |-> 0, pos |-> 0]

Init ==
  /\ queue \in {[Empty EXCEPT !.registry = r] : r \in Registry \cup {None}}
  /\ marks = <<>> /\ failed = FALSE
  /\ mode = "idle" /\ jobs = <<>> /\ next = 1 /\ slot = <<>> /\ thread = <<>>
  /\ cancelled = FALSE /\ cache = {}
  /\ out = NoBatch

-----------------------------------------------------------------------------
(* The queue, filled by one thread while a block's transactions are        *)
(* applied.  Every spend runs under a mark and a failing one is rolled     *)
(* back, mark by mark.                                                     *)

Mark ==
  /\ mode = "idle" /\ ~failed /\ Len(marks) < MaxMarks
  /\ marks' = Append(marks, [len |-> Len(queue.tasks), bytes |-> queue.bytes,
                             bound |-> queue.registry # None, was |-> queue])
  /\ out' = NoBatch
  /\ UNCHANGED <<queue, failed, mode, jobs, next, slot, thread, cancelled, cache>>

\* The spend succeeds: its mark is forgotten.
Keep ==
  /\ mode = "idle" /\ ~failed /\ marks # <<>>
  /\ marks' = SubSeq(marks, 1, Len(marks) - 1)
  /\ UNCHANGED <<queue, failed, poolVars>>

Rollback ==
  /\ mode = "idle" /\ marks # <<>>
  /\ LET m == marks[Len(marks)]
     IN queue' = [tasks |-> SubSeq(queue.tasks, 1, m.len), bytes |-> m.bytes,
                  registry |-> IF m.bound THEN queue.registry ELSE None]
  /\ marks' = SubSeq(marks, 1, Len(marks) - 1)
  /\ failed' = (Len(marks) > 1)
  /\ UNCHANGED poolVars

\* The queue after an attempt to add a task; unchanged when refused.
push(q, s) ==
  IF Len(q.tasks) >= MAX_TASKS \/ q.bytes + Bytes[s] > MAX_BYTES THEN q
  ELSE [q EXCEPT !.tasks = Append(@, s), !.bytes = @ + Bytes[s]]

\* The registry is bound first and stays bound when the push is refused.
queue_or_verify_signature(s, r) ==
  /\ mode = "idle" /\ ~failed /\ marks # <<>>
  /\ IF queue.registry \notin {None, r}
     THEN failed' = TRUE /\ UNCHANGED queue
     ELSE LET bound == [queue EXCEPT !.registry = r]
          IN /\ queue' = push(bound, s)
             /\ failed' = (Len(queue'.tasks) = Len(queue.tasks))
  /\ UNCHANGED <<marks, poolVars>>

-----------------------------------------------------------------------------
(* The pool.                                                               *)

normalized_worker_count(max_workers, count) ==
  IF max_workers < count THEN max_workers ELSE count

\* A batch of two or more jobs is given to threads; the caller waits.
StartPool(m, js, workers) ==
  /\ mode' = m /\ jobs' = js /\ next' = 1
  /\ slot' = [i \in DOMAIN js |-> Unset]
  /\ thread' = [w \in 1..normalized_worker_count(workers, Len(js)) |-> [Gone EXCEPT !.step = "pop"]]
  /\ cancelled' = FALSE /\ out' = NoBatch
  /\ UNCHANGED cache

\* One worker, or one task: the calling thread checks the tasks in order.
Flush(workers) ==
  /\ mode = "idle" /\ ~failed /\ marks = <<>> /\ queue.tasks # <<>>
  /\ LET n == Len(queue.tasks)
         js == [i \in 1..n |-> [index |-> i, sigs |-> <<queue.tasks[i]>>]]
     IN IF n = 1 \/ workers <= 1 THEN StartPool("inline", js, 1) ELSE StartPool("batch", js, workers)
  /\ queue' = [queue EXCEPT !.tasks = <<>>, !.bytes = 0]
  /\ UNCHANGED <<marks, failed>>

\* A batch of one is run by the caller, which is a pool of one thread.
run_tx_validation_workers(js, workers) ==
  /\ mode = "idle" /\ queue.tasks = <<>> /\ marks = <<>>
  /\ StartPool("txs", js, workers)
  /\ UNCHANGED queueVars

\* The caller's token, which only transaction workers share with others.
Cancel ==
  /\ mode = "txs" /\ ~cancelled
  /\ cancelled' = TRUE
  /\ UNCHANGED <<queueVars, mode, jobs, next, slot, thread, cache, out>>

\* pop_front, and the token's test at the start of exec_task.
Pop(w) ==
  /\ thread[w].step = "pop"
  /\ IF next > Len(jobs)
     THEN thread' = [thread EXCEPT ![w] = Gone] /\ UNCHANGED <<next, slot>>
     ELSE /\ next' = next + 1
          /\ IF cancelled
             THEN slot' = [slot EXCEPT ![next] = Done("cancelled", None)] /\ UNCHANGED thread
             ELSE /\ thread' = [thread EXCEPT ![w] = [step |-> "lookup", idx |-> next, pos |-> 1]]
                  /\ UNCHANGED slot
  /\ UNCHANGED <<queueVars, mode, jobs, cancelled, cache, out>>

Current(w) == jobs[thread[w].idx].sigs[thread[w].pos]

\* The result of the job goes into its own slot.  The caller alone stops at
\* the first failure; threads take the next job.
Store(w, r) ==
  /\ slot' = [slot EXCEPT ![thread[w].idx] = r]
  /\ IF mode = "inline" /\ r # OkResult
     THEN thread' = [thread EXCEPT ![w] = Gone] /\ next' = Len(jobs) + 1
     ELSE thread' = [thread EXCEPT ![w] = [Gone EXCEPT !.step = "pop"]] /\ UNCHANGED next

\* The signature is good: the job's next signature, or its end.
Advance(w) ==
  IF thread[w].pos < Len(jobs[thread[w].idx].sigs)
  THEN thread' = [thread EXCEPT ![w].step = "lookup", ![w].pos = @ + 1] /\ UNCHANGED <<slot, next>>
  ELSE Store(w, OkResult)

lookup(w) ==
  /\ thread[w].step = "lookup"
  /\ IF Current(w) \in cache THEN Advance(w)
     ELSE thread' = [thread EXCEPT ![w].step = "verify"] /\ UNCHANGED <<slot, next>>
  /\ UNCHANGED <<queueVars, mode, jobs, cancelled, cache, out>>

verify_sig_with_registry(w) ==
  /\ thread[w].step = "verify"
  /\ IF Verdict[Current(w)] = "valid"
     THEN thread' = [thread EXCEPT ![w].step = "insert"] /\ UNCHANGED <<slot, next>>
     ELSE Store(w, Done(IF Verdict[Current(w)] = "panic" THEN "panic" ELSE "task", Current(w)))
  /\ UNCHANGED <<queueVars, mode, jobs, cancelled, cache, out>>

insert(w) ==
  /\ thread[w].step = "insert"
  /\ cache' = IF Cardinality(cache) < Capacity THEN cache \cup {Current(w)} ELSE cache
  /\ Advance(w)
  /\ UNCHANGED <<queueVars, mode, jobs, cancelled, out>>

\* SigCache::reset, by any holder of the cache, at any time.
reset ==
  /\ cache' = {}
  /\ UNCHANGED <<queueVars, mode, jobs, next, slot, thread, cancelled, out>>

-----------------------------------------------------------------------------
(* What the caller makes of the results.                                   *)

Code(s) == IF Verdict[s] = "error" THEN "TxErrSigAlgInvalid" ELSE "TxErrSigInvalid"

\* The smallest index of a set, 0 when there is none.
First(S) == IF S = {} THEN 0 ELSE CHOOSE i \in S : \A j \in S : i <= j

reduce_queued_task_results(res) ==
  LET i == First({k \in DOMAIN res : res[k].kind \in {"task", "panic"}})
  IN IF i = 0 THEN NoError ELSE [code |-> Code(res[i].sig), sig |-> res[i].sig]

\* Without catch_unwind, a panic of the calling thread unwinds the caller.
InlineError(res) ==
  LET r == reduce_queued_task_results(res)
  IN IF r.sig # None /\ Verdict[r.sig] = "panic" THEN [r EXCEPT !.code = "unwinds"] ELSE r

tx_error_candidate(js, res, i) ==
  CASE res[i].kind = "task" -> [index |-> js[i].index, code |-> Code(res[i].sig), sig |-> res[i].sig]
    [] res[i].kind \in {"panic", "cancelled"} -> [index |-> 0, code |-> "TxErrParse", sig |-> None]
    [] OTHER -> [index |-> 0, code |-> None, sig |-> None]

\* Mutant: the first error in submission order, wherever it is in the block.
first_tx_error_Submitted(js, res) ==
  LET c == [i \in DOMAIN js |-> tx_error_candidate(js, res, i)]
      i == First({k \in DOMAIN js : c[k].code # None})
  IN IF i = 0 THEN NoError ELSE [code |-> c[i].code, sig |-> c[i].sig]

\* The error of the smallest positive index, or the first without an index.
first_tx_error(js, res) ==
  LET c == [i \in DOMAIN js |-> tx_error_candidate(js, res, i)]
      positive == {k \in DOMAIN js : c[k].code # None /\ c[k].index > 0}
      best == IF positive # {}
              THEN CHOOSE k \in positive : \A m \in positive : c[k].index <= c[m].index
              ELSE First({k \in DOMAIN js : c[k].code # None})
  IN IF best = 0 THEN NoError ELSE [code |-> c[best].code, sig |-> c[best].sig]

\* The scope's join, and the reduction: an empty slot is a panicked worker.
Join ==
  /\ mode # "idle" /\ \A w \in DOMAIN thread : thread[w] = Gone
  /\ LET filled == [i \in DOMAIN slot |-> IF slot[i] = Unset /\ mode # "inline" THEN Done("panic", jobs[i].sigs[1]) ELSE slot[i]]
     IN out' = [mode |-> mode, jobs |-> jobs, slot |-> filled,
                error |-> CASE mode = "inline" -> InlineError(filled)
                            [] mode = "batch" -> reduce_queued_task_results(filled)
                            [] mode = "txs" -> first_tx_error(jobs, filled)]
  /\ mode' = "idle" /\ jobs' = <<>> /\ next' = 1 /\ slot' = <<>> /\ thread' = <<>> /\ cancelled' = FALSE
  /\ UNCHANGED <<queueVars, cache>>

Work(w) == w \in DOMAIN thread /\ (Pop(w) \/ lookup(w) \/ verify_sig_with_registry(w) \/ insert(w))

Next ==
  \/ Mark \/ Keep \/ Rollback
  \/ \E s \in Sig, r \in Registry : queue_or_verify_signature(s, r)
  \/ \E n \in 1..MaxWorkers : Flush(n)
  \/ \E js \in TxBatches, n \in 1..MaxWorkers : run_tx_validation_workers(js, n)
  \/ Cancel \/ reset
  \/ \E w \in 1..MaxWorkers : Work(w)
  \/ Join

Spec == Init /\ [][Next]_vars

-----------------------------------------------------------------------------
(* Properties.                                                             *)

\* Each variable has its type.
TypeOK ==
  /\ queue \in [tasks : Seq(Sig), bytes : Nat, registry : Registry \cup {None}]
  /\ failed \in BOOLEAN /\ cancelled \in BOOLEAN
  /\ mode \in {"idle", "inline", "batch", "txs"}
  /\ DOMAIN slot = DOMAIN jobs /\ next \in 1..(Len(jobs) + 1)
  /\ cache \subseteq Sig

\* The first signature of the batch that does not verify, as a sequential
\* check of the tasks would meet it.
SequentialError(js, m) ==
  LET i == First({k \in DOMAIN js : Verdict[js[k].sigs[1]] # "valid"})
      s == js[i].sigs[1]
  IN IF i = 0 THEN NoError
     ELSE [code |-> IF m = "inline" /\ Verdict[s] = "panic" THEN "unwinds" ELSE Code(s), sig |-> s]

\* A flush reports the failure a sequential check would report first, with
\* any number of threads, in whatever order they finish and whatever is in
\* the cache (reduce_queued_task_results: "the same earliest failing
\* signature it would have surfaced sequentially").
FirstErrorWins ==
  out.mode \in {"inline", "batch"} => out.error = SequentialError(out.jobs, out.mode)

\* Transaction workers report the completed failure that comes first in the
\* block, however the transactions were submitted, and no panic or
\* cancellation hides it (first_tx_error: "cannot preempt a positive-index
\* error").
TxErrorIsSmallest ==
  LET bad == {i \in DOMAIN out.jobs : out.slot[i].kind = "task"}
      first == CHOOSE i \in bad : \A j \in bad : out.jobs[i].index <= out.jobs[j].index
  IN out.mode = "txs" /\ bad # {} => out.error.sig = out.slot[first].sig

\* No error is reported only when every signature of every job is valid:
\* neither a cancelled job, nor a panicked one, nor one whose check was
\* replaced by the cache passes for a good one.
NothingSlipsThrough ==
  out.error.code = None
    => \A i \in DOMAIN out.jobs : \A k \in DOMAIN out.jobs[i].sigs : Verdict[out.jobs[i].sigs[k]] = "valid"

\* The cache holds only signatures that verify, and no more than its
\* capacity, although threads look up, verify and insert in separate steps.
CacheIsSound ==
  /\ \A s \in cache : Verdict[s] = "valid"
  /\ Cardinality(cache) <= Capacity

RECURSIVE BytesOf(_)
BytesOf(s) == IF s = <<>> THEN 0 ELSE Bytes[Head(s)] + BytesOf(Tail(s))

\* queued_bytes is the size of the queued tasks after any mixture of pushes,
\* refused pushes, rollbacks and flushes, and within the limit.
QueueIsExact == queue.bytes = BytesOf(queue.tasks) /\ queue.bytes <= MAX_BYTES

=============================================================================
