------------------------------ MODULE Handshake ------------------------------
\* The version handshake of two nodes over one TCP connection
\* (perform_version_handshake_with_read_authorizer of p2p_runtime.rs as the
\* service calls it) and the first messages of the live session after it.
\* Both directions are FIFO; a node that gives up closes its socket, and what
\* the other side had not read yet may be lost with it.
EXTENDS Integers, Sequences, FiniteSets

CONSTANTS
  Nodes,                \* the two ends of the connection
  Odd,                  \* the ends that run other code
  Locals,               \* the version payloads a node may start with
  OddMsgs, MaxOdd,      \* what an end in Odd may send, and how often
  Budget,               \* handshake_timeout_budget, in ticks
  WriteDeadline,        \* write timeout of one send, in ticks
  MaxClock,             \* bound of the clock
  BanThreshold,         \* cfg.ban_threshold
  MaxVersion            \* MAX_PROTOCOL_VERSION

VARIABLES
  pc,      \* where the thread of handle_peer is
  local,   \* the version payload the node sent (best_height read beforehand)
  peer,    \* session.peer, sent_verack and remote_compact_mode
  chan,    \* chan[n]: what was sent to n and not read yet
  clock,   \* ticks since the connection was made
  limit,   \* when the socket call in progress gives up
  open,    \* shared.lifecycle.authorized()
  late,    \* messages n handled since the service was closed
  last,    \* the message n handled last
  odds     \* messages sent by ends in Odd

vars == <<pc, local, peer, chan, clock, limit, open, late, last, odds>>

Other(n) == CHOOSE m \in Nodes : m # n
Cmd(c) == [cmd |-> c]
Version(l) == [cmd |-> "version", v |-> l]
Sendcmpct(mode, version) == [cmd |-> "sendcmpct", mode |-> mode, version |-> version]
NoVersion == [pv |-> 0, chain |-> "none", genesis |-> "none"]
NoMode == [mode |-> 0, version |-> 0]   \* CompactModeSnapshot::default

HandshakePc == {"start", "writing", "ready", "recv", "answer"}
LivePc == {"admit", "advertise", "live"}

\* PeerSession::new
NewPeer == [version_received |-> FALSE, verack_received |-> FALSE,
            sent_verack |-> FALSE, handshake_complete |-> FALSE,
            remote_version |-> NoVersion, ban_score |-> 0,
            compact |-> NoMode]

Init ==
  /\ pc = [n \in Nodes |-> IF n \in Odd THEN "odd" ELSE "start"]
  /\ local \in [Nodes -> Locals]
  /\ peer = [n \in Nodes |-> NewPeer]
  /\ chan = [n \in Nodes |-> <<>>]
  /\ clock = 0
  /\ limit = [n \in Nodes |-> 0]
  /\ open = [n \in Nodes |-> TRUE]
  /\ late = [n \in Nodes |-> 0]
  /\ last = [n \in Nodes |-> Cmd("none")]
  /\ odds = 0

(***************************************************************************)
(* Sockets                                                                 *)
(***************************************************************************)
Send(n, msg) == chan' = [chan EXCEPT ![Other(n)] = Append(@, msg)]

\* The thread of n returns an error: the socket is closed.  A reset may take
\* the unread tail of the other side's buffer with it.
EndsWith(n, unread) ==
  /\ pc' = [pc EXCEPT ![n] = "ended"]
  /\ \E k \in 0 .. Len(unread[Other(n)]) :
       chan' = [unread EXCEPT ![Other(n)] = Append(SubSeq(@, 1, k), Cmd("eof"))]
Ends(n) == EndsWith(n, chan)

\* A write of a small message: it is in the socket buffer at once or the send
\* waits; version has a payload, so write_wire_message_to_stream sends twice.
WriteTime(c) == IF c = "version" THEN 2 * WriteDeadline ELSE WriteDeadline
StartWrite(n, c) ==
  limit' = [limit EXCEPT ![n] = clock + WriteTime(c)]

\* DeadlineReader::read gives every recv the time left of the one budget and
\* refuses to start one when nothing is left.
BeginRecv(n) ==
  \/ /\ clock < Budget
     /\ pc' = [pc EXCEPT ![n] = "recv"]
     /\ limit' = [limit EXCEPT ![n] = Budget]
     /\ UNCHANGED chan
  \/ /\ clock >= Budget
     /\ Ends(n)
     /\ UNCHANGED limit

(***************************************************************************)
(* validate_remote_version                                                 *)
(***************************************************************************)
protocol_versions_compatible(a, b) ==
  \/ a = b
  \/ a > b /\ a - b <= 1
  \/ b > a /\ b - a <= 1

\* The expected chain and genesis are the node's own (shared.chain_id and
\* shared.genesis_hash are also what service_local_version sends).
validate_remote_version(n, remote) ==
  /\ remote.pv # 0
  /\ remote.pv <= MaxVersion
  /\ protocol_versions_compatible(local[n].pv, remote.pv)
  /\ remote.chain = local[n].chain
  /\ remote.genesis = local[n].genesis

\* The three facts the loop waits for.
Completed(p) == p.version_received /\ p.verack_received /\ p.sent_verack

(***************************************************************************)
(* The handshake                                                           *)
(***************************************************************************)
\* handle_peer: the version message goes out first.
Start(n) ==
  /\ pc[n] = "start"
  /\ pc' = [pc EXCEPT ![n] = "writing"]
  /\ StartWrite(n, "version")
  /\ UNCHANGED <<local, peer, chan, clock, open, late, last, odds>>

WriteVersion(n) ==
  /\ pc[n] = "writing"
  /\ pc' = [pc EXCEPT ![n] = "ready"]
  /\ Send(n, Version(local[n]))
  /\ UNCHANGED <<local, peer, clock, limit, open, late, last, odds>>

\* before_read, then the first recv of the next message.
Authorize(n) ==
  /\ pc[n] = "ready"
  /\ \/ open[n] /\ BeginRecv(n)
     \/ ~open[n] /\ Ends(n) /\ UNCHANGED limit
  /\ UNCHANGED <<local, peer, clock, open, late, last, odds>>

\* Part of a message arrived: read_exact starts the next recv.
Drip(n) ==
  /\ pc[n] = "recv" /\ chan[n] # <<>>
  /\ BeginRecv(n)
  /\ UNCHANGED <<local, peer, clock, open, late, last, odds>>

RecvTimeout(n) ==
  /\ pc[n] = "recv" /\ clock >= limit[n]
  /\ Ends(n)
  /\ UNCHANGED <<local, peer, clock, limit, open, late, last, odds>>

WriteTimeout(n) ==
  /\ pc[n] \in {"writing", "answer"} /\ clock >= limit[n]
  /\ Ends(n)
  /\ UNCHANGED <<local, peer, clock, limit, open, late, last, odds>>

Pop(n) == [chan EXCEPT ![n] = Tail(@)]
Handled(n, msg) ==
  /\ last' = [last EXCEPT ![n] = msg]
  /\ late' = [late EXCEPT ![n] = IF open[n] THEN 0 ELSE @ + 1]

\* What the loop does after a message: leave it, or authorize the next read.
NextRead(n, p) ==
  /\ peer' = [peer EXCEPT ![n] = [p EXCEPT !.handshake_complete = Completed(p)]]
  /\ pc' = [pc EXCEPT ![n] = IF Completed(p) THEN "admit" ELSE "ready"]

Fails(n) ==
  /\ EndsWith(n, Pop(n))
  /\ UNCHANGED <<peer, limit>>

\* Mutant: the verack goes out before the version is validated.
ReadVersion_AnswerFirst(n, msg) ==
  LET p == [peer[n] EXCEPT !.version_received = TRUE, !.remote_version = msg.v] IN
  /\ peer' = [peer EXCEPT ![n] = p]
  /\ pc' = [pc EXCEPT ![n] = "answer"]
  /\ StartWrite(n, "verack")
  /\ chan' = Pop(n)

\* A version: validated, recorded, and answered by one verack.
ReadVersion(n, msg) ==
  LET p == [peer[n] EXCEPT !.version_received = TRUE, !.remote_version = msg.v] IN
  \/ /\ ~validate_remote_version(n, msg.v)
     /\ Fails(n)
  \/ /\ validate_remote_version(n, msg.v)
     /\ ~p.sent_verack
     /\ peer' = [peer EXCEPT ![n] = p]
     /\ pc' = [pc EXCEPT ![n] = "answer"]
     /\ StartWrite(n, "verack")
     /\ chan' = Pop(n)
  \/ /\ validate_remote_version(n, msg.v)
     /\ p.sent_verack
     /\ NextRead(n, p)
     /\ chan' = Pop(n)
     /\ UNCHANGED limit

WriteVerack(n) ==
  /\ pc[n] = "answer"
  /\ Send(n, Cmd("verack"))
  /\ NextRead(n, [peer[n] EXCEPT !.sent_verack = TRUE])
  /\ UNCHANGED <<local, clock, limit, open, late, last, odds>>

\* Any other command: ten points, and the end at the threshold.
ReadUnexpected(n) ==
  LET p == [peer[n] EXCEPT !.ban_score = @ + 10] IN
  \/ /\ p.ban_score >= BanThreshold
     /\ Fails(n)
  \/ /\ p.ban_score < BanThreshold
     /\ NextRead(n, p)
     /\ chan' = Pop(n)
     /\ UNCHANGED limit

\* pre_handshake_payload_cap admits a payload to version alone, and the
\* envelope is refused before anything of the payload is read.
OverPreHandshakeCap(msg) == "mode" \in DOMAIN msg \/ "payload" \in DOMAIN msg

ReadMessage(n) ==
  /\ pc[n] = "recv" /\ chan[n] # <<>>
  /\ LET msg == Head(chan[n]) IN
       /\ Handled(n, msg)
       /\ \/ /\ msg.cmd = "eof" \/ OverPreHandshakeCap(msg)
             /\ Fails(n)
          \/ /\ msg.cmd = "version"
             /\ ReadVersion(n, msg)
          \/ /\ msg.cmd = "verack"
             /\ NextRead(n, [peer[n] EXCEPT !.verack_received = TRUE])
             /\ chan' = Pop(n)
             /\ UNCHANGED limit
          \/ /\ msg.cmd \notin {"eof", "version", "verack"}
             /\ ~OverPreHandshakeCap(msg)
             /\ ReadUnexpected(n)
  /\ UNCHANGED <<local, clock, open, odds>>

(***************************************************************************)
(* The live session                                                        *)
(***************************************************************************)
\* A session slot is taken after the handshake; without one the session ends.
Admit(n) ==
  /\ pc[n] = "admit"
  /\ \/ pc' = [pc EXCEPT ![n] = "advertise"] /\ UNCHANGED chan
     \/ Ends(n)
  /\ UNCHANGED <<local, peer, clock, limit, open, late, last, odds>>

\* sendcmpct_advertisement_message: mode 0 of version 1.
Advertise(n) ==
  /\ pc[n] = "advertise"
  /\ Send(n, Sendcmpct(0, 1))
  /\ pc' = [pc EXCEPT ![n] = "live"]
  /\ UNCHANGED <<local, peer, clock, limit, open, late, last, odds>>

\* parse_sendcmpct_runtime_payload
SendcmpctOk(msg) == msg.version = 1 /\ msg.mode <= 2

\* collect_live_responses for the messages that carry no inventory.
LiveMessage(n) ==
  /\ pc[n] = "live" /\ chan[n] # <<>>
  /\ LET msg == Head(chan[n])
         reply(c) == chan' = [Pop(n) EXCEPT ![Other(n)] = Append(@, Cmd(c))] IN
       /\ Handled(n, msg)
       /\ \/ /\ msg.cmd = "sendcmpct" /\ SendcmpctOk(msg)
             /\ peer' = [peer EXCEPT ![n].compact = [mode |-> msg.mode, version |-> msg.version]]
             /\ chan' = Pop(n)
             /\ UNCHANGED <<pc, limit>>
          \/ /\ msg.cmd = "ping" /\ reply("pong")
             /\ UNCHANGED <<pc, peer, limit>>
          \/ /\ msg.cmd = "getaddr" /\ reply("addr")
             /\ UNCHANGED <<pc, peer, limit>>
          \/ /\ msg.cmd \in {"pong", "headers", "addr"}
             /\ chan' = Pop(n)
             /\ UNCHANGED <<pc, peer, limit>>
          \/ /\ \/ msg.cmd = "sendcmpct" /\ ~SendcmpctOk(msg)
                \/ msg.cmd \in {"version", "verack", "eof"}
             /\ Fails(n)
  /\ UNCHANGED <<local, clock, open, odds>>

(***************************************************************************)
(* Environment                                                             *)
(***************************************************************************)
Close(n) ==
  /\ n \notin Odd /\ open[n]
  /\ open' = [open EXCEPT ![n] = FALSE]
  /\ UNCHANGED <<pc, local, peer, chan, clock, limit, late, last, odds>>

\* An end that runs other code sends anything, or hangs up.
OddSend(n) ==
  /\ pc[n] = "odd" /\ odds < MaxOdd
  /\ odds' = odds + 1
  /\ \/ /\ \E msg \in OddMsgs : Send(n, msg)
        /\ UNCHANGED pc
     \/ Ends(n)
  /\ UNCHANGED <<local, peer, clock, limit, open, late, last>>

\* No call outlives its timeout; time counts from the start of the threads.
Tick ==
  /\ \A n \in Nodes : pc[n] # "start"
  /\ clock < MaxClock
  /\ \A n \in Nodes : pc[n] \in {"writing", "recv", "answer"} => clock < limit[n]
  /\ \E n \in Nodes : pc[n] \in {"writing", "recv", "answer"}
  /\ clock' = clock + 1
  /\ UNCHANGED <<pc, local, peer, chan, limit, open, late, last, odds>>

NodeStep(n) ==
  \/ Start(n) \/ WriteVersion(n) \/ Authorize(n) \/ RecvTimeout(n)
  \/ WriteTimeout(n) \/ ReadMessage(n) \/ WriteVerack(n)
  \/ Admit(n) \/ Advertise(n) \/ LiveMessage(n)

Next ==
  \/ \E n \in Nodes : NodeStep(n) \/ Drip(n) \/ Close(n) \/ OddSend(n)
  \/ Tick

Spec == Init /\ [][Next]_vars

(***************************************************************************)
(* Properties                                                              *)
(***************************************************************************)
TypeOK ==
  /\ pc \in [Nodes -> HandshakePc \cup LivePc \cup {"odd", "ended"}]
  /\ clock \in 0 .. MaxClock
  /\ \A n \in Nodes : /\ peer[n].ban_score \in 0 .. BanThreshold - 1
                      /\ limit[n] <= MaxClock + Budget
                      /\ local[n] \in Locals

\* Agreement: a completed handshake means that the peer's last version was
\* accepted here and, when the peer runs this code, that it has accepted ours
\* and that what is recorded of it is what it sent.
Agreement ==
  \A n \in Nodes \ Odd :
    peer[n].handshake_complete =>
      /\ validate_remote_version(n, peer[n].remote_version)
      /\ Other(n) \notin Odd =>
           /\ peer[n].remote_version = local[Other(n)]
           /\ peer[Other(n)].version_received
           /\ validate_remote_version(Other(n), local[n])

\* CleanHandover: between two ends that run this code no live message reaches
\* the handshake loop, which would cost the sender ban score or the connection,
\* and no handshake message reaches the live loop, which ends the session.
CleanHandover ==
  Odd = {} =>
    \A n \in Nodes :
      /\ peer[n].ban_score = 0
      /\ pc[n] \in {"live", "advertise", "admit"} =>
           \A i \in 1 .. Len(chan[n]) : chan[n][i].cmd \notin {"version", "verack"}
      /\ last[n].cmd = "sendcmpct" => peer[n].handshake_complete

\* RecvWithinBudget: however the peer spaces its bytes, no read of the
\* handshake is outstanding after the one absolute deadline, and the handshake
\* is over one write timeout later.
RecvWithinBudget ==
  \A n \in Nodes :
    /\ pc[n] = "recv" => clock <= Budget
    /\ pc[n] \in HandshakePc => clock <= Budget + 2 * WriteDeadline

\* CloseStopsHandshake: once the service is closed a handshake finishes at
\* most the message it was reading.
CloseStopsHandshake ==
  \A n \in Nodes : pc[n] \in HandshakePc \cup {"admit"} => late[n] <= 1

==============================================================================
