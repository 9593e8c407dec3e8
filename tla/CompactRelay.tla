---------------------------- MODULE CompactRelay ----------------------------
(***************************************************************************)
(* Compact-block reception in one peer session (p2p_runtime.rs, with       *)
(* enable_compact_receive set and compact mode negotiated): a cmpctblock   *)
(* whose transactions are not all known leads to one outstanding           *)
(* getblocktxn request; when that expires, at any read of the session, the *)
(* full block is requested and the session remembers which late blocktxn   *)
(* answer it has to tolerate.                                              *)
(*                                                                         *)
(* A message is read in three steps, because the request may expire        *)
(* between the first byte, the block hash and the rest of the frame, and   *)
(* handled in a fourth, once the engine lock has been obtained.  Both      *)
(* directions of the connection are FIFO.                                  *)
(***************************************************************************)
EXTENDS Integers, Sequences, FiniteSets

CONSTANTS
  Block,        \* blocks the peer may announce
  CmpctSorts,   \* sorts of cmpctblock the peer may send
  AnswerSorts,  \* sorts of blocktxn it may answer with
  StraySorts,   \* sorts of blocktxn it may send without being asked
  MaxSends,     \* bound: announcements and unrequested messages of the peer
  None

\* cmpctblock: "whole" (every transaction in it), "full" (all of them known),
\* "part" (some missing), "odd" (reconstruction fails), "bad" (does not decode), "nopow" (fails its target).
\* blocktxn: "ok", "mismatch" (short id), "bad" (does not decode), "big" (over the
\* cap of the request), "bare" (the hash only), "short" (less than the hash).

VARIABLES
  stored,     \* blocks the engine has
  orphaned,   \* blocks in this session's orphan pool
  out,        \* compact_outstanding: the block asked for, or None
  expired,    \* the outstanding request is past its expires_at
  late,       \* late_blocktxn: the block whose late answer is tolerated, or None
  ban,        \* ban_score
  pc,         \* "poll", "frame", "body", "engine", "write", "over"
  msg,        \* the message being read or handled
  resp,       \* requests the handler wants written
  inq,        \* messages of the peer on their way
  todo,       \* our requests on their way to the peer
  sends,      \* messages the peer has sent unasked
  heard,      \* history: blocks accepted for reconstruction from a cmpctblock
  asked,      \* history: blocks whose full form was requested
  dropped     \* history: requests that expired while their handler waited

peerVars == <<inq, todo, sends>>
vars == <<stored, orphaned, out, expired, late, ban, pc, msg, resp, peerVars,
          heard, asked, dropped>>

Message(cmd, b, sort) == [cmd |-> cmd, b |-> b, sort |-> sort]

Init ==
  /\ stored = {} /\ orphaned = {}
  /\ out = None /\ expired = FALSE /\ late = None
  /\ ban = 0
  /\ pc = "poll" /\ msg = None /\ resp = <<>>
  /\ inq = <<>> /\ todo = <<>> /\ sends = 0
  /\ heard = {} /\ asked = {} /\ dropped = {}

(***************************************************************************)
(* The peer: answers requests in order, announces blocks at any time.      *)
(***************************************************************************)
PeerAnnounces(b, sort) ==
  /\ sends < MaxSends /\ sends' = sends + 1
  /\ inq' = Append(inq, Message("cmpctblock", b, sort))
  /\ UNCHANGED <<stored, orphaned, out, expired, late, ban, pc, msg, resp, todo, heard, asked, dropped>>

PeerOffers(b) ==
  /\ sends < MaxSends /\ sends' = sends + 1
  /\ inq' = Append(inq, Message("inv", b, "ok"))
  /\ UNCHANGED <<stored, orphaned, out, expired, late, ban, pc, msg, resp, todo, heard, asked, dropped>>

PeerStrays(b, sort) ==
  /\ sends < MaxSends /\ sends' = sends + 1
  /\ inq' = Append(inq, Message("blocktxn", b, sort))
  /\ UNCHANGED <<stored, orphaned, out, expired, late, ban, pc, msg, resp, todo, heard, asked, dropped>>

PeerAnswers ==
  /\ todo # <<>>
  /\ todo' = Tail(todo)
  /\ IF Head(todo).cmd = "getblocktxn"
     THEN \E sort \in AnswerSorts : inq' = Append(inq, Message("blocktxn", Head(todo).b, sort))
     ELSE inq' = Append(inq, Message("block", Head(todo).b, "ok"))
  /\ UNCHANGED <<stored, orphaned, out, expired, late, ban, pc, msg, resp, sends, heard, asked, dropped>>

\* Another session or the miner gives the engine the block.
StoreElsewhere(b) ==
  /\ b \notin stored
  /\ stored' = stored \cup {b}
  /\ UNCHANGED <<orphaned, out, expired, late, ban, pc, msg, resp, peerVars, heard, asked, dropped>>

Expire ==
  /\ out # None /\ ~expired /\ pc # "over"
  /\ expired' = TRUE
  /\ UNCHANGED <<stored, orphaned, out, late, ban, pc, msg, resp, peerVars, heard, asked, dropped>>

(***************************************************************************)
(* The expired request: written from poll_read_ready and from inside a     *)
(* frame by CompactFallbackFrameReader; the state changes only after the   *)
(* write succeeded.                                                        *)
(***************************************************************************)
Reading == pc \in {"poll", "frame", "body"}

SendExpiredFallback ==
  /\ Reading /\ out # None /\ expired
  /\ todo' = Append(todo, Message("getdata", out, "ok"))
  /\ asked' = asked \cup {out}
  /\ out' = None /\ expired' = FALSE /\ late' = out
  /\ UNCHANGED <<stored, orphaned, ban, pc, msg, resp, inq, sends, heard, dropped>>

\* A write that fails, a frame that stalls or a closed connection ends the
\* session, whatever it was doing.
Disconnect ==
  /\ pc \notin {"over", "engine"}
  /\ pc' = "over"
  /\ UNCHANGED <<stored, orphaned, out, expired, late, ban, msg, resp, peerVars, heard, asked, dropped>>

(***************************************************************************)
(* Reading a frame.                                                        *)
(***************************************************************************)
FirstByte ==
  /\ pc = "poll" /\ inq # <<>>
  /\ ~(out # None /\ expired)
  /\ msg' = Head(inq) /\ inq' = Tail(inq)
  /\ pc' = "frame"
  /\ UNCHANGED <<stored, orphaned, out, expired, late, ban, resp, todo, sends, heard, asked, dropped>>

\* read_blocktxn_from_compact_reader: a body is read only for the active or the
\* late request and within that request's cap.
BodyRefused(m) ==
  /\ m.cmd = "blocktxn" /\ m.sort # "short"
  /\ IF m.b \in {out, late} THEN m.sort = "big" ELSE m.sort # "bare"

ReadPrefix ==
  /\ pc = "frame"
  /\ pc' = IF BodyRefused(msg) THEN "over" ELSE "body"
  /\ late' = IF BodyRefused(msg) /\ msg.b # out THEN None ELSE late
  /\ UNCHANGED <<stored, orphaned, out, expired, ban, msg, resp, peerVars, heard, asked, dropped>>

FrameComplete ==
  /\ pc = "body"
  /\ pc' = "engine"
  /\ UNCHANGED <<stored, orphaned, out, expired, late, ban, msg, resp, peerVars, heard, asked, dropped>>

(***************************************************************************)
(* Handling, under the engine lock.  A handler ends by replying (Reply),   *)
(* possibly with nothing, or by failing the session (Fail).                *)
(***************************************************************************)
Reply(r) == pc' = "write" /\ resp' = r /\ msg' = None
Fail(score) == pc' = "over" /\ ban' = ban + score /\ UNCHANGED <<resp, msg>>

FullBlock(b) == Message("getdata", b, "ok")

request_compact_full_block_fallback(b) == <<FullBlock(b)>>

\* clear_expired_compact_outstanding_request forgets the request silently.
Lapsed == out # None /\ expired
outNow == IF Lapsed THEN None ELSE out
noteLapsed == dropped' = IF Lapsed THEN dropped \cup {out} ELSE dropped

\* handle_block_with_acceptance for a block of valid work: stored, kept as an
\* orphan, or refused by the engine.
Applied(b) == stored' = stored \cup {b} /\ UNCHANGED orphaned
Kept(b) == b \notin stored /\ orphaned' = orphaned \cup {b} /\ UNCHANGED stored

\* process_compact_transactions with the request `o` still noted: success clears
\* the block's request, a refusal asks for the full block (or fails if nothing
\* was filled in).
ProcessCompact(b, o, fallback) ==
  /\ out' = IF o = b THEN None ELSE o
  /\ expired' = (expired /\ out' # None)
  /\ \/ (Applied(b) \/ Kept(b)) /\ Reply(<<>>) /\ UNCHANGED ban
     \/ /\ b \notin stored
        /\ UNCHANGED <<stored, orphaned>>
        /\ IF fallback THEN Reply(request_compact_full_block_fallback(b)) /\ UNCHANGED ban ELSE Fail(0)

HandleCmpct ==
  LET b == msg.b
      sort == msg.sort IN
  /\ pc = "engine" /\ msg.cmd = "cmpctblock"
  /\ noteLapsed
  /\ UNCHANGED <<late, peerVars, asked>>
  /\ heard' = IF sort \in {"bad", "nopow"} \/ b \in stored THEN heard ELSE heard \cup {b}
  /\ CASE sort \in {"bad", "nopow"} ->
            /\ Fail(IF sort = "bad" THEN 10 ELSE 100)
            /\ out' = outNow /\ expired' = (expired /\ out' # None)
            /\ UNCHANGED <<stored, orphaned>>
       [] sort \notin {"bad", "nopow"} /\ b \in stored ->
            /\ Reply(<<>>)
            /\ out' = IF outNow = b THEN None ELSE outNow
            /\ expired' = (expired /\ out' # None)
            /\ UNCHANGED <<stored, orphaned, ban>>
       [] sort \in {"whole", "full"} /\ b \notin stored ->
            ProcessCompact(b, outNow, sort = "full")
       [] sort = "odd" /\ b \notin stored ->
            /\ Reply(request_compact_full_block_fallback(b))
            /\ out' = IF outNow = b THEN None ELSE outNow
            /\ expired' = (expired /\ out' # None)
            /\ UNCHANGED <<stored, orphaned, ban>>
       [] sort = "part" /\ b \notin stored ->
            /\ UNCHANGED <<stored, orphaned, ban>>
            /\ IF outNow # None
               THEN /\ Reply(request_compact_full_block_fallback(b))
                    /\ out' = IF outNow = b THEN None ELSE outNow
                    /\ expired' = (expired /\ out' # None)
               ELSE /\ Reply(<<Message("getblocktxn", b, "ok")>>)
                    /\ out' = b /\ expired' = FALSE

\* Mutant: a late answer is held against the peer.
LateAnswer_Penalised(b, sort) ==
  /\ late' = None
  /\ out' = outNow /\ expired' = FALSE
  /\ UNCHANGED <<stored, orphaned>>
  /\ IF sort = "bare" THEN Reply(<<>>) /\ UNCHANGED ban ELSE Fail(10)

\* Not the active request, and an answer may still be due: ignored if it is that
\* one or carries nothing.
LateAnswer(b, sort) ==
  /\ late' = None
  /\ out' = outNow /\ expired' = FALSE
  /\ UNCHANGED <<stored, orphaned>>
  /\ IF b = late \/ sort = "bare" THEN Reply(<<>>) /\ UNCHANGED ban ELSE Fail(0)

StaleAnswer(b, sort) ==
  /\ UNCHANGED <<late, stored, orphaned>>
  /\ out' = outNow /\ expired' = FALSE
  /\ IF outNow # None /\ sort # "bare" THEN Fail(0) ELSE Reply(<<>>) /\ UNCHANGED ban

ActiveAnswer(b, sort) ==
  /\ UNCHANGED late
  /\ CASE sort \in {"bad", "bare", "big"} ->
            /\ Fail(10)
            /\ out' = None /\ expired' = FALSE
            /\ UNCHANGED <<stored, orphaned>>
       [] sort = "mismatch" ->
            /\ Reply(request_compact_full_block_fallback(b))
            /\ out' = None /\ expired' = FALSE
            /\ UNCHANGED <<stored, orphaned, ban>>
       [] sort = "ok" -> ProcessCompact(b, None, TRUE)

HandleBlockTxn ==
  LET b == msg.b
      sort == msg.sort IN
  /\ pc = "engine" /\ msg.cmd = "blocktxn"
  /\ UNCHANGED <<peerVars, heard, asked>>
  /\ IF sort = "short"
     THEN /\ late' = IF out = None THEN None ELSE late
          /\ Fail(IF out = None /\ late # None THEN 0 ELSE 10)
          /\ UNCHANGED <<stored, orphaned, out, expired, dropped>>
     ELSE /\ noteLapsed
          /\ IF outNow = b THEN ActiveAnswer(b, sort)
             ELSE IF late # None THEN LateAnswer(b, sort) ELSE StaleAnswer(b, sort)

HandleBlock ==
  LET b == msg.b IN
  /\ pc = "engine" /\ msg.cmd = "block"
  /\ out' = IF out = b THEN None ELSE out
  /\ expired' = (expired /\ out' # None)
  /\ UNCHANGED <<late, peerVars, heard, asked, dropped>>
  /\ \/ (Applied(b) \/ Kept(b)) /\ Reply(<<>>) /\ UNCHANGED ban
     \/ b \notin stored /\ Fail(0) /\ UNCHANGED <<stored, orphaned>>

HandleInv ==
  /\ pc = "engine" /\ msg.cmd = "inv"
  /\ Reply(IF msg.b \in stored THEN <<>> ELSE <<FullBlock(msg.b)>>)
  /\ UNCHANGED <<stored, orphaned, out, expired, late, ban, peerVars, heard, asked, dropped>>

\* The responses are written outside the engine lock.
WriteResponses ==
  /\ pc = "write"
  /\ todo' = todo \o resp
  /\ asked' = asked \cup {resp[i].b : i \in {j \in 1 .. Len(resp) : resp[j].cmd = "getdata"}}
  /\ resp' = <<>>
  /\ pc' = "poll"
  /\ UNCHANGED <<stored, orphaned, out, expired, late, ban, msg, inq, sends, heard, dropped>>

Session ==
  \/ SendExpiredFallback
  \/ FirstByte \/ ReadPrefix \/ FrameComplete
  \/ HandleCmpct \/ HandleBlockTxn \/ HandleBlock \/ HandleInv
  \/ WriteResponses

Next ==
  \/ Session
  \/ Expire \/ Disconnect
  \/ PeerAnswers
  \/ \E b \in Block :
       \/ \E sort \in CmpctSorts : PeerAnnounces(b, sort)
       \/ \E sort \in StraySorts : PeerStrays(b, sort)
       \/ PeerOffers(b)
       \/ StoreElsewhere(b)

Spec == Init /\ [][Next]_vars

-----------------------------------------------------------------------------
(***************************************************************************)
(* Properties.                                                             *)
(***************************************************************************)
Pending(b) == \E i \in 1 .. Len(resp) : resp[i] = FullBlock(b)

\* A block announced in compact form is never silently given up: as long as the
\* session lives it is stored, waits for its parent, has the outstanding request
\* or was requested in full.  The exception is a request that expires while its
\* own handler waits for the engine: the handler forgets it without a request.
WantedBlocksArePursued ==
  pc # "over" =>
    \A b \in heard \ dropped :
      b \in stored \cup orphaned \cup asked \cup {out} \/ Pending(b)

\* A late answer is tolerated only for a request whose full-block replacement is
\* really on its way: "may clear its outstanding request and record late context
\* only after its complete header and payload write succeeds"
\* (POLICY_P2P_TRANSPORT_HARDENING.md:74).
LateFollowsFallback == late # None => late \in asked

\* A peer that sends well-formed announcements and answers what it was asked, in
\* order but arbitrarily late, is never penalised: whatever expires meanwhile,
\* its ban score stays zero.
SlowPeerKeepsItsScore == ban = 0

=============================================================================
