----------------------------- MODULE AtomicFile -----------------------------
(***************************************************************************)
(* What the durable writer promises (AtomicWriteError of io_utils.rs and   *)
(* its callers): a destination goes from one whole value to another in one *)
(* step, a create-only destination is never replaced, and the result says  *)
(* truthfully whether that step happened and whether it is durable.        *)
(***************************************************************************)
CONSTANTS
    Writer,     \* threads that write files of one directory
    Path,       \* destinations in that directory
    CreateOnly, \* destinations written with CreateIfAbsent
    Value,      \* file contents
    Absent      \* no such file

VARIABLES
    file,       \* what readers see
    durable,    \* what a power loss leaves
    request,    \* request[w]: <<path, value>> of the write in flight, or <<>>
    committed,  \* committed[w]: the write in flight is visible
    result      \* result[w]: what the write in flight returns, once it is known

vars == <<file, durable, request, committed, result>>

Result == {"ok", "before", "after"}

Init ==
    /\ file = [p \in Path |-> Absent]
    /\ durable = [p \in Path |-> Absent]
    /\ request = [w \in Writer |-> <<>>]
    /\ committed = [w \in Writer |-> FALSE]
    /\ result = [w \in Writer |-> "none"]

Begin(w, p, v) ==
    /\ request[w] = <<>>
    /\ request' = [request EXCEPT ![w] = <<p, v>>]
    /\ UNCHANGED <<file, durable, committed, result>>

\* The namespace commit; a create-only file that exists must already be equal.
Commit(w, p, v) ==
    /\ request[w] = <<p, v>>
    /\ result[w] = "none"
    /\ ~committed[w]
    /\ p \in CreateOnly => file[p] \in {Absent, v}
    /\ file' = [file EXCEPT ![p] = v]
    /\ committed' = [committed EXCEPT ![w] = TRUE]
    /\ UNCHANGED <<durable, request, result>>

\* Some entries of the directory reach the disk.
Flush == \E P \in SUBSET Path : durable' = [p \in Path |-> IF p \in P THEN file[p] ELSE durable[p]]

\* "ok": visible and durable; "after": visible; "before": this write changed nothing.
Finish(w, p, v, r) ==
    /\ request[w] = <<p, v>>
    /\ result[w] = "none"
    /\ r = "before" <=> ~committed[w]
    /\ Flush
    /\ r = "ok" => file[p] = v /\ durable'[p] = v
    /\ result' = [result EXCEPT ![w] = r]
    /\ UNCHANGED <<file, request, committed>>

Return(w) ==
    /\ result[w] # "none"
    /\ request' = [request EXCEPT ![w] = <<>>]
    /\ committed' = [committed EXCEPT ![w] = FALSE]
    /\ result' = [result EXCEPT ![w] = "none"]
    /\ UNCHANGED <<file, durable>>

\* Some process dies with the writes it had in flight.
Crash(W) ==
    /\ request' = [w \in Writer |-> IF w \in W THEN <<>> ELSE request[w]]
    /\ committed' = [w \in Writer |-> w \notin W /\ committed[w]]
    /\ result' = [w \in Writer |-> IF w \in W THEN "none" ELSE result[w]]
    /\ UNCHANGED <<file, durable>>

PowerLoss ==
    /\ file' = durable
    /\ request' = [w \in Writer |-> <<>>]
    /\ committed' = [w \in Writer |-> FALSE]
    /\ result' = [w \in Writer |-> "none"]
    /\ UNCHANGED durable

Next ==
    \/ \E w \in Writer, p \in Path, v \in Value :
         \/ Begin(w, p, v)
         \/ Commit(w, p, v)
         \/ \E r \in Result : Finish(w, p, v, r)
    \/ \E w \in Writer : Return(w)
    \/ Flush /\ UNCHANGED <<file, request, committed, result>>
    \/ \E W \in SUBSET Writer : Crash(W)
    \/ PowerLoss

Spec == Init /\ [][Next]_vars

=============================================================================
