------------------------------ MODULE HttpRead ------------------------------
(* Reading one request from a connection of the node's RPC server: the      *)
(* header block, the choice of framing, and a body framed by its length or  *)
(* chunked.  Bytes come in reads of any size, and every loop looks for its  *)
(* terminator in what has arrived before it asks for more.  Only the length *)
(* of the header block matters, so its text is a list of parsed fields; the *)
(* chunked body is a sequence of characters, "r" and "n" standing for       *)
(* carriage return and line feed and "_" for a blank.                       *)
EXTENDS Checks, SequencesExt

CONSTANTS
  Requests,              \* what a client may send on a connection
  ReadSizes,             \* bytes one read may return (4096 at most in the code)
  MAX_HEADER_BYTES,
  MAX_BODY_BYTES,
  MAX_CHUNK_LINE_BYTES,
  CHUNK_EXCESS_LIMIT,    \* encoded bytes beyond the allowance of the data
  CHUNK_ALLOWANCE        \* free bytes for each chunk (16 in the code)

VARIABLES
  req,      \* the request on the wire, sent whole before the client closes
  got,      \* bytes received
  phase,    \* the loop the reader is in
  pos,      \* bytes of the body section consumed
  base,     \* bytes drained from the buffer
  chunk,    \* size of the chunk being read
  excess, trailer_bytes,
  body,     \* decoded so far
  verdict   \* the error, or Ok

vars == <<req, got, phase, pos, base, chunk, excess, trailer_bytes, body, verdict>>

Digits == <<"0", "1", "2", "3", "4", "5", "6", "7", "8", "9", "a">>
HexDigit(c) == \E d \in DOMAIN Digits : Digits[d] = c
Value(c) == (CHOOSE d \in DOMAIN Digits : Digits[d] = c) - 1
Tchar(c) == c \notin {"r", "n", "_", ":", ";", "~"}
FieldChar(c) == c \notin {"r", "n", "~"}        \* "~" is a control byte
Floor0(n) == IF n < 0 THEN 0 ELSE n

-----------------------------------------------------------------------------
(* The header block. *)

\* The fields of the header block, in order, as the loop reads them.
FramingOf(r) ==
  LET step(s, f) ==
        CASE s.error # Ok -> s
          [] f.name = "malformed" -> [s EXCEPT !.error = "malformed header"]
          [] f.name = "content-length" /\ s.raw # "none" ->
               [s EXCEPT !.error = Check(f.value = s.raw, "conflicting Content-Length")]
          [] f.name = "content-length" /\ f.value = "junk" ->
               [s EXCEPT !.error = "invalid Content-Length"]
          [] f.name = "content-length" -> [s EXCEPT !.length = f.n, !.raw = f.value]
          [] f.name = "transfer-encoding" /\ ~r.http11 -> s
          [] f.name = "transfer-encoding" ->
               [s EXCEPT !.error = Check(~s.chunked, "duplicate Transfer-Encoding")
                                     ?? Check(f.value = "chunked", "unsupported transfer-encoding"),
                         !.chunked = TRUE]
          [] OTHER -> s
  IN  FoldLeft(step, [error |-> Ok, length |-> 0, raw |-> "none", chunked |-> FALSE], r.fields)

\* What the header block says, once it is complete.
HeaderVerdict(r) ==
  LET f == FramingOf(r)
  IN  r.request_line
        ?? f.error
        ?? Check(~(f.chunked /\ f.raw # "none"), "conflicting transfer-encoding and content-length")
        ?? Check(f.chunked \/ f.length <= MAX_BODY_BYTES, "body too large")

BodyStart(r) == r.head + 4
Sent(r) == BodyStart(r) + Len(r.body)

-----------------------------------------------------------------------------
(* A chunked body. *)

\* The first line end at or after p in the first n bytes of s; 0 if none.
find_crlf(s, p, n) ==
  LET at == {k \in p..(n - 1) : s[k] = "r" /\ s[k + 1] = "n"}
  IN  IF at = {} THEN 0 ELSE CHOOSE k \in at : \A j \in at : k <= j

\* The size a line states, or -1: blanks are cut from its end, then an
\* extension, and what is left must be hexadecimal digits.
ChunkSize(line) ==
  LET last == SelectLastInSeq(line, LAMBDA c : c # "_")
      trimmed == SubSeq(line, 1, last)
      semi == SelectInSeq(trimmed, LAMBDA c : c = ";")
      digits == IF semi = 0 THEN trimmed ELSE SubSeq(trimmed, 1, semi - 1)
  IN  IF digits = <<>> \/ \E i \in DOMAIN digits : ~HexDigit(digits[i]) THEN -1
      ELSE FoldLeft(LAMBDA n, c : 16 * n + Value(c), 0, digits)

ExcessAfter(before, lineLen, size) ==
  Floor0(before + lineLen + 2 - (CHUNK_ALLOWANCE + 2 * size))

\* A trailer line is a header field.
TrailerOk(line) ==
  LET colon == SelectInSeq(line, LAMBDA c : c = ":")
  IN  /\ colon > 1
      /\ \A i \in 1..(colon - 1) : Tchar(line[i])
      /\ \A i \in (colon + 1)..Len(line) : FieldChar(line[i])

-----------------------------------------------------------------------------
Init ==
  /\ req \in Requests
  /\ got = 0 /\ phase = "header" /\ pos = 0 /\ base = 0 /\ chunk = 0
  /\ excess = 0 /\ trailer_bytes = 0 /\ body = <<>> /\ verdict = Ok

Avail == got - BodyStart(req)
Unread == Avail - pos
Wire(a, n) == SubSeq(req.body, a, a + n - 1)

Stop(why) ==
  /\ phase' = "done"
  /\ verdict' = why
  /\ UNCHANGED <<req, got, pos, base, chunk, excess, trailer_bytes, body>>

\* Drains the buffer once enough of it has been consumed.
compact(p) == IF BodyStart(req) + p - base >= MAX_HEADER_BYTES THEN BodyStart(req) + p ELSE base

\* The loop of the phase finds that it can go on without another read.
HeaderComplete == got >= BodyStart(req)
LineEnd == find_crlf(req.body, pos + 1, Avail)
LineLen == LineEnd - (pos + 1)
CanGoOn ==
  CASE phase = "header" -> HeaderComplete \/ got > MAX_HEADER_BYTES
    [] phase \in {"size", "trailer"} -> LineEnd # 0 \/ Unread >= MAX_CHUNK_LINE_BYTES
    [] phase = "data" -> Avail >= pos + chunk + 2
    [] phase = "length" -> Avail >= FramingOf(req).length
    [] OTHER -> FALSE

\* One read of the socket, of what has arrived.
Read(n) ==
  /\ phase # "done" /\ ~CanGoOn
  /\ got < Sent(req)
  /\ got' = IF got + n < Sent(req) THEN got + n ELSE Sent(req)
  /\ UNCHANGED <<req, phase, pos, base, chunk, excess, trailer_bytes, body, verdict>>

\* The client has closed, or the read has timed out.
ReadEof ==
  /\ phase # "done" /\ ~CanGoOn
  /\ got = Sent(req)
  /\ Stop(IF phase \in {"header", "length"} THEN "unexpected eof" ELSE "invalid chunked body")
ReadTimeout ==
  /\ phase # "done" /\ ~CanGoOn
  /\ Stop("read")

ParseHeader ==
  /\ phase = "header" /\ CanGoOn
  /\ LET why == Check(HeaderComplete /\ req.head <= MAX_HEADER_BYTES, "headers too large")
                  ?? HeaderVerdict(req)
     IN  IF why # Ok THEN Stop(why)
         ELSE /\ phase' = IF FramingOf(req).chunked THEN "size" ELSE "length"
              /\ UNCHANGED <<req, got, pos, base, chunk, excess, trailer_bytes, body, verdict>>

TakeLength ==
  /\ phase = "length" /\ CanGoOn
  /\ body' = Wire(1, FramingOf(req).length)
  /\ phase' = "done"
  /\ UNCHANGED <<req, got, pos, base, chunk, excess, trailer_bytes, verdict>>

\* Mutant: a size line may be of any length once its end is there.
TakeSizeLine_AnyLength ==
  /\ phase = "size" /\ CanGoOn
  /\ LET size == ChunkSize(Wire(pos + 1, LineLen))
         spent == ExcessAfter(excess, LineLen, size)
         why == Check(LineEnd # 0, "invalid chunk size")
                  ?? Check(size >= 0, "invalid chunk size")
                  ?? Check(spent <= CHUNK_EXCESS_LIMIT, "invalid chunked body")
                  ?? Check(size <= MAX_BODY_BYTES - Len(body), "body too large")
     IN  IF why # Ok THEN Stop(why)
         ELSE /\ pos' = pos + LineLen + 2
              /\ chunk' = size
              /\ excess' = spent
              /\ phase' = IF size = 0 THEN "trailer" ELSE "data"
              /\ UNCHANGED <<req, got, base, trailer_bytes, body, verdict>>

\* A chunk-size line: its length is checked before its terminator counts.
TakeSizeLine ==
  /\ phase = "size" /\ CanGoOn
  /\ LET size == ChunkSize(Wire(pos + 1, LineLen))
         spent == ExcessAfter(excess, LineLen, size)
         why == Check(LineEnd # 0 /\ LineLen < MAX_CHUNK_LINE_BYTES, "invalid chunk size")
                  ?? Check(size >= 0, "invalid chunk size")
                  ?? Check(spent <= CHUNK_EXCESS_LIMIT, "invalid chunked body")
                  ?? Check(size <= MAX_BODY_BYTES - Len(body), "body too large")
     IN  IF why # Ok THEN Stop(why)
         ELSE /\ pos' = pos + LineLen + 2
              /\ chunk' = size
              /\ excess' = spent
              /\ phase' = IF size = 0 THEN "trailer" ELSE "data"
              /\ UNCHANGED <<req, got, base, trailer_bytes, body, verdict>>

TakeData ==
  /\ phase = "data" /\ CanGoOn
  /\ IF Wire(pos + chunk + 1, 2) # <<"r", "n">> THEN Stop("invalid chunk terminator")
     ELSE /\ body' = body \o Wire(pos + 1, chunk)
          /\ pos' = pos + chunk + 2
          /\ base' = compact(pos + chunk + 2)
          /\ phase' = "size"
          /\ UNCHANGED <<req, got, chunk, excess, trailer_bytes, verdict>>

TakeTrailerLine ==
  /\ phase = "trailer" /\ CanGoOn
  /\ LET why == Check(LineEnd # 0, "invalid chunked body")
                  ?? Check(LineLen < MAX_CHUNK_LINE_BYTES, "invalid chunked body")
                  ?? Check(LineLen = 0 \/ TrailerOk(Wire(pos + 1, LineLen)), "invalid chunked body")
                  ?? Check(LineLen = 0 \/ trailer_bytes + LineLen + 2 <= MAX_HEADER_BYTES,
                           "invalid chunked body")
     IN  IF why # Ok \/ LineLen = 0 THEN Stop(why)
         ELSE /\ trailer_bytes' = trailer_bytes + LineLen + 2
              /\ pos' = pos + LineLen + 2
              /\ base' = compact(pos + LineLen + 2)
              /\ UNCHANGED <<req, got, phase, chunk, excess, body, verdict>>

Next ==
  \/ \E n \in ReadSizes : Read(n)
  \/ ReadEof \/ ReadTimeout
  \/ ParseHeader \/ TakeLength \/ TakeSizeLine \/ TakeData \/ TakeTrailerLine

Spec == Init /\ [][Next]_vars

-----------------------------------------------------------------------------
(* Properties. *)

\* Decoding the rest of a chunked body with every byte at hand.
RECURSIVE Trailers(_, _, _, _)
Trailers(s, p, seen, out) ==
  LET e == find_crlf(s, p, Len(s))
      line == SubSeq(s, p, e - 1)
      fits == Len(line) < MAX_CHUNK_LINE_BYTES /\ seen + Len(line) + 2 <= MAX_HEADER_BYTES
  IN  CASE e = 0 -> <<"invalid chunked body", out>>
        [] e = p -> <<Ok, out>>
        [] fits /\ TrailerOk(line) -> Trailers(s, e + 2, seen + Len(line) + 2, out)
        [] OTHER -> <<"invalid chunked body", out>>

RECURSIVE Chunks(_, _, _, _)
Chunks(s, p, spent, out) ==
  LET e == find_crlf(s, p, Len(s))
      unended == Len(s) + 1 - p >= MAX_CHUNK_LINE_BYTES
      size == ChunkSize(SubSeq(s, p, e - 1))
      now == Floor0(spent + e - p + 2 - (CHUNK_ALLOWANCE + 2 * size))
      data == e + 2
  IN  CASE e = 0 -> <<IF unended THEN "invalid chunk size" ELSE "invalid chunked body", out>>
        [] e - p >= MAX_CHUNK_LINE_BYTES \/ size < 0 -> <<"invalid chunk size", out>>
        [] now > CHUNK_EXCESS_LIMIT -> <<"invalid chunked body", out>>
        [] size = 0 -> Trailers(s, data, 0, out)
        [] Len(out) + size > MAX_BODY_BYTES -> <<"body too large", out>>
        [] data + size + 1 > Len(s) -> <<"invalid chunked body", out>>
        [] SubSeq(s, data + size, data + size + 1) # <<"r", "n">> -> <<"invalid chunk terminator", out>>
        [] OTHER -> Chunks(s, data + size + 2, now, out \o SubSeq(s, data, data + size - 1))

WholeRequest(r) ==
  LET f == FramingOf(r)
      why == Check(r.head <= MAX_HEADER_BYTES, "headers too large") ?? HeaderVerdict(r)
  IN  CASE why # Ok -> <<why, <<>>>>
        [] f.chunked -> Chunks(r.body, 1, 0, <<>>)
        [] f.length > Len(r.body) -> <<"unexpected eof", <<>>>>
        [] OTHER -> <<Ok, SubSeq(r.body, 1, f.length)>>

Answered == phase = "done" /\ verdict # "read"

\* What the reader makes of a request does not depend on how the network
\* cut it into reads: it is what one look at all the bytes says
\* (read_http_request, read_chunked_body).
SplitIndependent == Answered => <<verdict, body>> = WholeRequest(req)

\* A body sent in chunks within the limits comes out as it went in, with
\* the extensions and the trailers gone.
RoundTrips ==
  Answered /\ req.request_line = Ok /\ req.chunks # <<>> => verdict = Ok /\ body = req.chunks

\* A request is accepted only when every field that speaks of the body's
\* length says the same thing (read_http_request).
FramingIsUnambiguous ==
  phase \notin {"header", "done"} =>
    LET spoken == {i \in DOMAIN req.fields :
                     \/ req.fields[i].name = "content-length"
                     \/ req.fields[i].name = "transfer-encoding" /\ req.http11}
    IN  \A i, j \in spoken : req.fields[i] = req.fields[j]

\* The buffer never holds more than a header block, one line and one chunk
\* beyond the last read, however long the encoded body (compact).
RetainedIsBounded ==
  got - base <= MAX_HEADER_BYTES + 4 + (MAX_CHUNK_LINE_BYTES + 2)
                  + (MAX_BODY_BYTES + 2) + CHOOSE n \in ReadSizes : \A m \in ReadSizes : m <= n

\* Encoded bytes beyond what the data allows are bounded: a request whose
\* lines outweigh its data is given up, however small its chunks
\* (read_chunked_body's excess).
OverheadIsBounded ==
  pos <= CHUNK_EXCESS_LIMIT + trailer_bytes + 2
           + (MAX_BODY_BYTES + 1) * (CHUNK_ALLOWANCE + 5)

=============================================================================
