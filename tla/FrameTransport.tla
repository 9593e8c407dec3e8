--------------------------- MODULE FrameTransport ---------------------------
(***************************************************************************)
(* The framed transport of one live peer session (p2p_runtime.rs, driven   *)
(* by the live loop of p2p_service.rs or, outside the service, by          *)
(* run_message_loop): polling for the first byte of a frame, reading the   *)
(* rest of it against a stall and an absolute deadline, writing frames     *)
(* against deadlines of their own, and the full-block request that is      *)
(* written in the middle of either when a compact-block request expires.   *)
(*                                                                         *)
(* Time is counted in ticks.  It passes while the thread is blocked in a   *)
(* socket call, until that call's timeout, and while it waits elsewhere    *)
(* (the authorizer, the engine lock).  The clock is rebased at the top of  *)
(* the loop: the code only compares instants.                              *)
(***************************************************************************)
EXTENDS Integers, Sequences

CONSTANTS
  Frames,                     \* the frames the peer sends: [kind, len], len in units
  WIRE_HEADER_SIZE,           \* length of the header, in units
  STREAM_READ_CHUNK_BYTES,    \* most that one read or write of a payload moves
  FRAME_MINIMUM_BUDGET,       \* ticks every frame may take
  FRAME_BUDGET_NUMERATOR,     \* ticks per FRAME_BUDGET_DENOMINATOR units ...
  FRAME_BUDGET_DENOMINATOR,   \* ... granted to a longer one
  read_deadline, write_deadline,   \* PeerRuntimeConfig
  PollInterval,               \* LIVE_LOOP_IDLE_DRAIN_POLL_INTERVAL
  CompactTimeout,             \* ticks until an outstanding getblocktxn expires
  OutLen,                     \* payload length of the frames the session writes
  MaxQueued,                  \* frames the outbox holds
  MaxDelay,                   \* bound: ticks spent outside socket calls per round
  Drivers,                    \* {TRUE}: the service's live loop, {FALSE}: run_message_loop
  None

\* "ping" asks for an answer, "cmpct" leads to an outstanding request, "quiet"
\* is only consumed, "badhdr" fails parse_envelope_header, "badsum" its checksum.

VARIABLES
  service,   \* which loop drives the session
  now,       \* the clock
  open,      \* the service authorizes I/O (always so outside the service)
  pc,        \* where the session's thread is
  wake,      \* when the socket call it is (about to be) blocked in times out
  stream,    \* frames the peer has sent and the session has not consumed
  pos,       \* units of the first of them taken from the socket
  avail,     \* units of them that have arrived
  got,       \* units of the current frame in the reader's buffers
  fs,        \* frame_start, or None outside a frame
  prog,      \* last_positive_progress of the reader
  abs,       \* absolute_deadline of the reader, None before validate_payload
  exp,       \* expires_at of compact_outstanding, or None
  w,         \* the frame being written
  outLeft,   \* units of the latest outgoing frame still unwritten
  queued,    \* raw frames waiting in the peer's outbox
  budget,    \* frames the current flush_peer_outbox may still take
  after,     \* where the loop goes on after the flush
  msg,       \* the frame being handled
  delay      \* ticks spent outside socket calls in this round

readVars == <<stream, pos, avail, got, fs, prog, abs>>
boxVars == <<queued, budget, after>>
vars == <<service, now, open, pc, wake, readVars, exp, w, outLeft, boxVars, msg, delay>>

Least(a, b) == IF a <= b THEN a ELSE b
Greatest(a, b) == IF a >= b THEN a ELSE b

NoWrite == [kind |-> "none", prog |-> 0, abs |-> 0]

Init ==
  /\ service \in Drivers /\ open = TRUE
  /\ now = 0 /\ pc = "loop" /\ wake = 0 /\ delay = 0
  /\ stream = <<>> /\ pos = 0 /\ avail = 0
  /\ got = 0 /\ fs = None /\ prog = 0 /\ abs = None
  /\ exp = None /\ w = NoWrite /\ outLeft = 0
  /\ queued = 0 /\ budget = 0 /\ after = "poll" /\ msg = None

(***************************************************************************)
(* Deadlines.                                                              *)
(***************************************************************************)
absolute_budget(len) ==
  Greatest((FRAME_BUDGET_NUMERATOR * len + FRAME_BUDGET_DENOMINATOR - 1) \div FRAME_BUDGET_DENOMINATOR,
           FRAME_MINIMUM_BUDGET)

frame_stall_timeout(configured) == Least(configured, FRAME_MINIMUM_BUDGET)

Expired(deadline) == now > deadline

transport_deadline ==
  Least(prog + frame_stall_timeout(read_deadline),
        IF abs = None THEN fs + FRAME_MINIMUM_BUDGET ELSE abs)

frame_write_deadline == Least(w.prog + frame_stall_timeout(write_deadline), w.abs)

RequestExpired == exp # None /\ now >= exp

\* compact_expiry_bounded_read_timeout, as an instant.
BoundedByExpiry(timeout) == IF exp = None THEN now + timeout ELSE Least(exp, now + timeout)

(***************************************************************************)
(* Errors and who survives them.                                           *)
(***************************************************************************)
terminal_idle_fallback_write_error(err) == IF err = "timeout" THEN "other" ELSE err

\* Mutant: a timeout inside a frame looks like an idle one.
partial_frame_timeout_Raw(err) == err

partial_frame_timeout(err) == "partial"

\* The live loop goes on after an idle poll that timed out and after nothing
\* else; run_message_loop goes on after every timeout that is not "partial".
Survives(err, at) == err = "timeout" /\ (at = "poll" \/ (at = "frame" /\ ~service))

\* An error leaves the frame: whatever was read of it is dropped.
Fail(err, at) ==
  /\ pc' = IF Survives(err, at) THEN "drain" ELSE "over"
  /\ fs' = None /\ abs' = None /\ got' = 0

\* defer_read_interrupted_error: for the service it ends the read; outside the
\* service read_exact retries it.
interrupted(at) == IF at = "frame" /\ ~service THEN "retry" ELSE "interrupted"

Interrupt(at) ==
  IF interrupted(at) = "retry"
  THEN pc' = "read" /\ UNCHANGED <<fs, abs, got>>
  ELSE Fail("interrupted", at)

(***************************************************************************)
(* Writing a frame.                                                        *)
(***************************************************************************)
\* kind: "reply" and "outbox", or "idle" and "frame": the fallback written while
\* polling and inside a frame.
StartWrite(kind, deadline) ==
  /\ w' = [kind |-> kind, prog |-> now, abs |-> deadline]
  /\ outLeft' = WIRE_HEADER_SIZE + OutLen
  /\ pc' = "w_auth"

write_frame_bounded(kind) == StartWrite(kind, now + absolute_budget(OutLen))

write_message(kind) == write_frame_bounded(kind)

write_live_raw_frame == write_frame_bounded("outbox")

Resumes(kind) == CASE kind = "frame" -> "read" [] kind = "outbox" -> "flush" [] OTHER -> "drain"

WriteError(err) ==
  /\ w' = NoWrite
  /\ CASE w.kind = "idle" -> Fail(terminal_idle_fallback_write_error(err), "poll")
       [] w.kind = "frame" -> Fail(IF err = "timeout" THEN partial_frame_timeout(err) ELSE err, "frame")
       [] OTHER -> Fail(err, "write")

WriteInterrupted ==
  IF w.kind = "frame" THEN Interrupt("frame") /\ w' = NoWrite ELSE WriteError("interrupted")

\* before_io and arm_frame_write, before every write and before the flush.
ArmWrite ==
  /\ pc = "w_auth" /\ open /\ ~Expired(frame_write_deadline) /\ outLeft > 0
  /\ wake' = frame_write_deadline
  /\ pc' = "write"
  /\ UNCHANGED <<service, now, open, readVars, exp, w, outLeft, boxVars, msg, delay>>

ArmFails ==
  /\ pc = "w_auth"
  /\ \/ ~open /\ WriteInterrupted
     \/ open /\ Expired(frame_write_deadline) /\ WriteError("timeout")
  /\ UNCHANGED <<service, now, open, wake, stream, pos, avail, prog, exp, outLeft, boxVars, msg, delay>>

WriteSome(n) ==
  /\ pc = "write" /\ n <= Least(outLeft, STREAM_READ_CHUNK_BYTES)
  /\ outLeft' = outLeft - n
  /\ w' = [w EXCEPT !.prog = now]
  /\ pc' = "w_auth"
  /\ UNCHANGED <<service, now, open, wake, readVars, exp, boxVars, msg, delay>>

WriteFails ==
  /\ pc = "write"
  /\ \/ now = wake /\ WriteError("timeout")
     \/ WriteError("closed")
     \/ WriteInterrupted
  /\ UNCHANGED <<service, now, open, wake, stream, pos, avail, prog, exp, outLeft, boxVars, msg, delay>>

\* Flushed: a fallback ends its request, and the reader takes up its frame.
WriteDone ==
  /\ pc = "w_auth" /\ open /\ ~Expired(frame_write_deadline) /\ outLeft = 0
  /\ w' = NoWrite
  /\ exp' = IF w.kind \in {"idle", "frame"} THEN None ELSE exp
  /\ pc' = Resumes(w.kind)
  /\ UNCHANGED <<service, now, open, wake, readVars, outLeft, boxVars, msg, delay>>

(***************************************************************************)
(* The loop and the poll for a first byte.                                 *)
(***************************************************************************)
Rebase ==
  /\ now' = 0 /\ delay' = 0
  /\ exp' = IF exp = None THEN None ELSE Greatest(exp - now, 0)

\* The top of the loop, and the way back to it after an idle poll or a message.
Loop ==
  /\ pc \in {"loop", "drain"}
  /\ \/ pc = "loop" /\ ~open /\ pc' = "over" /\ UNCHANGED <<budget, after>>
     \/ /\ pc' = "flush" /\ budget' = queued
        /\ after' = IF pc = "loop" THEN "poll" ELSE "loop"
  /\ Rebase
  /\ msg' = None /\ wake' = 0 /\ prog' = 0
  /\ UNCHANGED <<service, open, stream, pos, avail, got, fs, abs, w, outLeft, queued>>

\* flush_peer_outbox: as many frames as were queued when it began.
Flush ==
  /\ pc = "flush"
  /\ IF budget > 0 /\ open
     THEN budget' = budget - 1 /\ queued' = queued - 1 /\ write_live_raw_frame
     ELSE budget' = 0 /\ pc' = after /\ UNCHANGED <<queued, w, outLeft>>
  /\ UNCHANGED <<service, now, open, wake, readVars, exp, after, msg, delay>>

poll_timeout == IF service THEN Least(read_deadline, PollInterval) ELSE read_deadline

Poll ==
  /\ pc = "poll"
  /\ IF RequestExpired
     THEN write_message("idle") /\ UNCHANGED wake
     ELSE wake' = BoundedByExpiry(poll_timeout) /\ pc' = "poll_auth" /\ UNCHANGED <<w, outLeft>>
  /\ UNCHANGED <<service, now, open, readVars, exp, boxVars, msg, delay>>

PollArmed ==
  /\ pc = "poll_auth"
  /\ \/ ~open /\ Interrupt("poll") /\ UNCHANGED <<w, outLeft>>
     \/ open /\ RequestExpired /\ write_message("idle") /\ UNCHANGED <<fs, abs, got>>
     \/ /\ open /\ ~RequestExpired
        /\ pc' = IF now >= wake THEN "drain" ELSE "poll_read"
        /\ UNCHANGED <<w, outLeft, fs, abs, got>>
  /\ UNCHANGED <<service, now, open, wake, stream, pos, avail, prog, exp, boxVars, msg, delay>>

PollByte ==
  /\ pc = "poll_read" /\ avail > 0
  /\ avail' = avail - 1 /\ pos' = pos + 1
  /\ got' = 1 /\ fs' = now /\ prog' = now /\ abs' = None
  /\ pc' = "read"
  /\ UNCHANGED <<service, now, open, wake, stream, exp, w, outLeft, boxVars, msg, delay>>

PollTimeout ==
  /\ pc = "poll_read" /\ now = wake
  /\ IF RequestExpired
     THEN write_message("idle")
     ELSE pc' = "drain" /\ UNCHANGED <<w, outLeft>>
  /\ UNCHANGED <<service, now, open, wake, readVars, exp, boxVars, msg, delay>>

\* The peer closes the connection, or the socket call is interrupted.
PollError ==
  /\ pc = "poll_read"
  /\ Fail("closed", "poll") \/ Interrupt("poll")
  /\ UNCHANGED <<service, now, open, wake, stream, pos, avail, prog, exp, w, outLeft, boxVars, msg, delay>>

(***************************************************************************)
(* Reading the rest of the frame (CompactFallbackFrameReader::read and     *)
(* read_message_from_compact_reader).                                      *)
(***************************************************************************)
\* The fallback inherits the frame's deadline.
StartFallback == StartWrite("frame", transport_deadline)

Read ==
  /\ pc = "read"
  /\ \/ RequestExpired /\ StartFallback /\ UNCHANGED <<wake, fs, abs, got>>
     \/ /\ ~RequestExpired /\ Expired(transport_deadline)
        /\ Fail(partial_frame_timeout("timeout"), "frame")
        /\ UNCHANGED <<wake, w, outLeft>>
     \/ /\ ~RequestExpired /\ ~Expired(transport_deadline)
        /\ wake' = Least(BoundedByExpiry(read_deadline), transport_deadline)
        /\ pc' = "read_auth"
        /\ UNCHANGED <<w, outLeft, fs, abs, got>>
  /\ UNCHANGED <<service, now, open, stream, pos, avail, prog, exp, boxVars, msg, delay>>

\* At the deadline itself one more nanosecond is granted, which may or may not
\* be over when the socket call is made.
ReadArmed ==
  /\ pc = "read_auth"
  /\ \/ ~open /\ Interrupt("frame") /\ UNCHANGED <<w, outLeft>>
     \/ open /\ RequestExpired /\ StartFallback /\ UNCHANGED <<fs, abs, got>>
     \/ /\ open /\ ~RequestExpired /\ now >= wake
        /\ Fail(partial_frame_timeout("timeout"), "frame")
        /\ UNCHANGED <<w, outLeft>>
     \/ /\ open /\ ~RequestExpired /\ now <= wake
        /\ pc' = "read_blocked"
        /\ UNCHANGED <<w, outLeft, fs, abs, got>>
  /\ UNCHANGED <<service, now, open, wake, stream, pos, avail, prog, exp, boxVars, msg, delay>>

\* What read_exact is filling: the header, then the payload chunk by chunk.
Wanted ==
  IF got < WIRE_HEADER_SIZE THEN WIRE_HEADER_SIZE - got
  ELSE Least(STREAM_READ_CHUNK_BYTES, WIRE_HEADER_SIZE + Head(stream).len - got)

\* The whole frame is in: the checksum decides.
Complete(f) ==
  IF f.kind = "badsum"
  THEN Fail("invalid", "frame") /\ UNCHANGED <<stream, pos, msg>>
  ELSE /\ stream' = Tail(stream) /\ pos' = 0 /\ msg' = f.kind
       /\ got' = 0 /\ fs' = None /\ abs' = None /\ pc' = "handle"

HeaderRead(f) ==
  CASE f.kind = "badhdr" -> Fail("invalid", "frame") /\ UNCHANGED <<stream, pos, msg>>
    [] f.kind # "badhdr" /\ f.len = 0 -> Complete(f)
    [] OTHER -> /\ abs' = fs + absolute_budget(f.len)
                /\ pc' = "read"
                /\ UNCHANGED <<fs, stream, msg>>

ReadSome(n) ==
  LET f == Head(stream)
      have == got + n IN
  /\ pc = "read_blocked" /\ n <= Least(avail, Wanted)
  /\ avail' = avail - n /\ prog' = now
  /\ CASE have = WIRE_HEADER_SIZE /\ (f.kind = "badhdr" \/ f.len = 0) -> HeaderRead(f)
       [] have = WIRE_HEADER_SIZE /\ f.kind # "badhdr" /\ f.len > 0 ->
            HeaderRead(f) /\ got' = have /\ pos' = pos + n
       [] have = WIRE_HEADER_SIZE + f.len /\ f.len > 0 -> Complete(f)
       [] OTHER -> /\ got' = have /\ pos' = pos + n /\ pc' = "read"
                   /\ UNCHANGED <<fs, abs, stream, msg>>
  /\ UNCHANGED <<service, now, open, wake, exp, w, outLeft, boxVars, delay>>

ReadTimeout ==
  /\ pc = "read_blocked" /\ now = wake
  /\ IF RequestExpired
     THEN StartFallback /\ UNCHANGED <<fs, abs, got>>
     ELSE Fail(partial_frame_timeout("timeout"), "frame") /\ UNCHANGED <<w, outLeft>>
  /\ UNCHANGED <<service, now, open, wake, stream, pos, avail, prog, exp, boxVars, msg, delay>>

ReadError ==
  /\ pc = "read_blocked"
  /\ Fail("closed", "frame") \/ Interrupt("frame")
  /\ UNCHANGED <<service, now, open, wake, stream, pos, avail, prog, exp, w, outLeft, boxVars, msg, delay>>

(***************************************************************************)
(* Handling a message and writing what it asks for.                        *)
(***************************************************************************)
Handle ==
  /\ pc = "handle"
  /\ IF msg \in {"ping", "cmpct"} THEN write_message("reply")
     ELSE pc' = "drain" /\ UNCHANGED <<w, outLeft>>
  /\ exp' = IF msg = "cmpct" /\ exp = None THEN now + CompactTimeout ELSE exp
  /\ UNCHANGED <<service, now, open, wake, readVars, boxVars, msg, delay>>

(***************************************************************************)
(* Environment: the peer, the clock, the outbox, the service's close.      *)
(***************************************************************************)
Units(f) == WIRE_HEADER_SIZE + f.len

OnTheWire == (IF stream = <<>> THEN 0 ELSE Units(stream[1]) - pos)
             + (IF Len(stream) > 1 THEN Units(stream[2]) ELSE 0)

PeerSends(f) ==
  /\ Len(stream) < 2 /\ pc # "over"
  /\ stream' = Append(stream, f)
  /\ UNCHANGED <<service, now, open, pc, wake, pos, avail, got, fs, prog, abs, exp, w, outLeft, boxVars, msg, delay>>

Arrive ==
  /\ avail < OnTheWire /\ avail < STREAM_READ_CHUNK_BYTES /\ pc # "over"
  /\ avail' = avail + 1
  /\ UNCHANGED <<service, now, open, pc, wake, stream, pos, got, fs, prog, abs, exp, w, outLeft, boxVars, msg, delay>>

Blocked == {"poll_read", "read_blocked", "write"}

Tick ==
  /\ \/ pc \in Blocked /\ now < wake /\ UNCHANGED delay
     \/ pc \in {"poll_auth", "read_auth", "w_auth", "handle"} /\ delay < MaxDelay /\ delay' = delay + 1
  /\ now' = now + 1
  /\ UNCHANGED <<service, open, pc, wake, readVars, exp, w, outLeft, boxVars, msg>>

Enqueue ==
  /\ service /\ queued < MaxQueued /\ pc # "over"
  /\ queued' = queued + 1
  /\ UNCHANGED <<service, now, open, pc, wake, readVars, exp, w, outLeft, budget, after, msg, delay>>

Revoke ==
  /\ service /\ open /\ pc # "over"
  /\ open' = FALSE
  /\ UNCHANGED <<service, now, pc, wake, readVars, exp, w, outLeft, boxVars, msg, delay>>

Session ==
  \/ Loop \/ Flush \/ Poll \/ PollArmed \/ PollByte \/ PollTimeout
  \/ Read \/ ReadArmed \/ ReadTimeout
  \/ ArmWrite \/ ArmFails \/ WriteDone \/ Handle
  \/ \E n \in 1 .. STREAM_READ_CHUNK_BYTES : ReadSome(n)

\* What the network, the peer or a signal may do to a blocked call.
Faults == PollError \/ ReadError \/ WriteFails

Next ==
  \/ Session \/ Faults
  \/ \E n \in 1 .. STREAM_READ_CHUNK_BYTES : WriteSome(n)
  \/ \E f \in Frames : PeerSends(f)
  \/ Arrive \/ Tick \/ Enqueue \/ Revoke

Spec == Init /\ [][Next]_vars

-----------------------------------------------------------------------------
(***************************************************************************)
(* Properties.                                                             *)
(***************************************************************************)
TypeOK ==
  /\ service \in BOOLEAN /\ open \in BOOLEAN
  /\ queued \in 0 .. MaxQueued /\ budget \in 0 .. queued
  /\ pc \in {"loop", "drain", "flush", "poll", "poll_auth", "poll_read", "read", "read_auth", "read_blocked",
             "w_auth", "write", "handle", "over"}
  /\ now \in Nat /\ wake \in Nat /\ delay \in 0 .. MaxDelay
  /\ fs \in Nat \cup {None} /\ abs \in Nat \cup {None} /\ exp \in Nat \cup {None}
  /\ outLeft \in 0 .. WIRE_HEADER_SIZE + OutLen
  /\ w.kind \in {"none", "reply", "outbox", "idle", "frame"}

\* "A timeout after partial header progress ... is terminal for that connection
\* and MUST NOT be followed by parsing later bytes as a fresh frame"
\* (POLICY_P2P_TRANSPORT_HARDENING.md:92-95): as long as the session lives, the
\* reader's idea of where it is in the peer's stream is right.
InSync == pc # "over" => got = pos

\* A frame that the session began to write is finished before anything else
\* happens, or the session is over: no timeout, interruption or lost
\* authorization lets the live loop write on behind a truncated frame.
OutFramesWhole == service /\ outLeft > 0 => pc \in {"w_auth", "write", "over"}

\* From the first byte of a frame on, no socket call can block beyond the
\* budget of the frame, and no read beyond the stall limit, however the bytes
\* drip in and even while a fallback request is written in the middle of it.
FrameEndsInBudget ==
  fs # None /\ pc \in Blocked =>
    /\ wake <= fs + (IF abs = None THEN FRAME_MINIMUM_BUDGET ELSE absolute_budget(Head(stream).len))
    /\ pc = "read_blocked" => wake <= prog + FRAME_MINIMUM_BUDGET

\* Once the service has withdrawn its authorization the session's thread makes
\* no further socket call, whichever path it is on.
NoCallAfterRevocation ==
  pc # pc' /\ pc' \in Blocked => open

=============================================================================
