----------------------------- MODULE UndoRecords -----------------------------
(***************************************************************************)
(* The undo records on disk (undo.rs and put_undo_typed, get_undo of       *)
(* blockstore.rs): a payload bound to a block hash and a checksum.         *)
(*                                                                         *)
(* A file is the sequence of the segments the byte layout has: prefix with *)
(* the version, block hash, separator, base64 body, separator, checksum,   *)
(* suffix.  SHA3 is injective: a digest is what was hashed.  Files suffer  *)
(* faults (a segment lost, doubled or garbled, a torn tail, one file's     *)
(* tail on another's head, a file under another's name), and builds other  *)
(* than this one write records too (version 1, unversioned, odd payloads). *)
(***************************************************************************)
EXTENDS Checks

CONSTANTS
  Keys,        \* block hashes
  Undos,       \* block undos: [height, supply, txs, bytes]
  U64Max,      \* u64::MAX, for the supply
  FrameBytes,  \* UNDO_ENVELOPE_FRAME_BYTES
  FileMax,     \* UNDO_FILE_MAX_BYTES
  MaxFaults    \* bound on faults

VARIABLES
  files,    \* Keys -> sequence of segments, <<>> when absent
  written,  \* the records some build wrote: [key, version, payload]
  faults,
  last      \* the put_undo that has just succeeded, or failed for its size

vars == <<files, written, faults, last>>

V1 == 1
V2 == 2
Garbled == "garbled"
NoUndo == [height |-> 0, supply |-> 0, txs |-> <<>>, bytes |-> 0]
NoPut == [key |-> "none", undo |-> NoUndo, verdict |-> "none"]

-----------------------------------------------------------------------------
(* Payloads.                                                               *)

\* A supply as JSON: a number, a decimal string, or any other spelling.
Supply(form, n) == [form |-> form, n |-> n]
Payload(u, supply) ==
  [height |-> u.height, supply |-> supply, txs |-> u.txs, bytes |-> u.bytes,
   shape |-> TRUE, lowercase |-> TRUE, compact |-> TRUE]
NoPayload == [Payload(NoUndo, Supply("none", 0)) EXCEPT !.shape = FALSE]

marshal_block_undo(u) == Payload(u, Supply("number", u.supply))
marshal_block_undo_v2(u) == Payload(u, Supply("string", u.supply))

\* A numeric token above u64 reads as a float, and so as no integer at all.
supply_v1(s) == Check(s.form = "number" /\ s.n <= U64Max, "supply")
supply_v2(s) == Check(s.form = "string", "supply")

decode_block_undo_supply(p) == Check(p.shape, "payload")
check_undo_txs_canonical_fields(p) == Check(p.lowercase, "payload")
canonical_payload_matches(p) == Check(p.compact, "payload")

decode_validated(version, p) ==
  decode_block_undo_supply(p)
    ?? (IF version = V1 THEN supply_v1(p.supply) ELSE supply_v2(p.supply))
    ?? check_undo_txs_canonical_fields(p)
    ?? canonical_payload_matches(p)

block_undo_from_validated(p) ==
  [height |-> p.height, supply |-> p.supply.n, txs |-> p.txs, bytes |-> p.bytes]

validated_block_undo_matches(p, u) ==
  p.height = u.height /\ p.supply.n = u.supply /\ p.txs = u.txs

-----------------------------------------------------------------------------
(* Envelopes.                                                              *)

Seg(kind) ==
  [kind |-> kind, version |-> 0, hex |-> "", payload |-> NoPayload, loose |-> FALSE,
   sum |-> <<>>]

undo_envelope_checksum_for_version(version, key, p) == <<version, key, p>>

Envelope(version, key, p) ==
  << [Seg("prefix") EXCEPT !.version = version],
     [Seg("hash") EXCEPT !.hex = key],
     Seg("payload_sep"),
     [Seg("body") EXCEPT !.payload = p],
     Seg("checksum_sep"),
     [Seg("checksum") EXCEPT !.sum = undo_envelope_checksum_for_version(version, key, p)],
     Seg("suffix") >>

PayloadMax == 3 * ((FileMax - FrameBytes) \div 4)
Base64Bytes(n) == 4 * ((n + 2) \div 3)
EnvelopeBytes(n) == FrameBytes + Base64Bytes(n)

marshal_undo_envelope_version(version, u) ==
  Check(version # V1 \/ u.supply <= U64Max, "supply")
    ?? Check(u.bytes <= PayloadMax, "bound")
    ?? Check(EnvelopeBytes(u.bytes) <= FileMax, "bound")

\* The body is what lies between the fixed segments, counted from both ends.
BodyOf(raw) == SubSeq(raw, 4, Len(raw) - 3)
KindsOf(raw) == [i \in DOMAIN raw |-> raw[i].kind]

Layout(raw) ==
  /\ Len(raw) >= 6
  /\ raw[1].kind = "prefix" /\ raw[1].version \in {V1, V2}
  /\ SubSeq(KindsOf(raw), 2, 3) = <<"hash", "payload_sep">>
  /\ SubSeq(KindsOf(raw), Len(raw) - 2, Len(raw)) = <<"checksum_sep", "checksum", "suffix">>

\* Why the layout is wrong, for the operator: the record may be no JSON object,
\* carry no version (written before there was one) or one nobody knows.
classify_undo_envelope_failure(raw) ==
  LET prefixes == SelectSeq(raw, LAMBDA s : s.kind = "prefix")
      object == /\ raw[1].kind = "prefix" /\ Len(prefixes) = 1
                /\ \E i \in DOMAIN raw : raw[i].kind = "suffix"
  IN  Check(object, "not_object")
        ?? Check(raw[1].version # 0, "legacy")
        ?? Check(raw[1].version \in {V1, V2}, "unsupported")
        ?? "layout"

split_undo_envelope_versioned(raw) ==
  IF ~Layout(raw) THEN classify_undo_envelope_failure(raw)
  ELSE Check(raw[2].hex # Garbled /\ raw[Len(raw) - 1].hex # Garbled, "hex")

base64_decode_canonical(body) ==
  Check(Len(body) = 1, "base64")
    ?? Check(body[1].kind = "body" /\ ~body[1].loose, "base64")

\* Everything before the payload is looked into.
Opened(key, raw) ==
  split_undo_envelope_versioned(raw)
    ?? Check(raw[2].hex = key, "hash")
    ?? base64_decode_canonical(BodyOf(raw))
    ?? Check(BodyOf(raw)[1].payload.bytes <= PayloadMax, "bound")
    ?? Check(raw[Len(raw) - 1].sum
               = undo_envelope_checksum_for_version(raw[1].version, key, BodyOf(raw)[1].payload),
             "checksum")

unmarshal_undo_envelope_disk(key, raw) ==
  Opened(key, raw) ?? decode_validated(raw[1].version, BodyOf(raw)[1].payload)

PayloadOf(raw) == BodyOf(raw)[1].payload

get_undo(key) ==
  IF files[key] = <<>> THEN "absent" ELSE unmarshal_undo_envelope_disk(key, files[key])

\* The classes that carry UNDO_INTEGRITY; the others are schema faults.
Integrity == {"not_object", "layout", "legacy", "unsupported", "hex", "hash", "base64",
              "bound", "checksum"}

-----------------------------------------------------------------------------
Init ==
  /\ files = [k \in Keys |-> <<>>]
  /\ written = {}
  /\ faults = 0
  /\ last = NoPut

\* Mutant: a record that does not match is replaced.
put_undo_Overwrite(k, u) ==
  LET verdict == marshal_undo_envelope_version(V2, u)
      p == marshal_block_undo_v2(u)
  IN  /\ last' = IF verdict \in {Ok, "bound"} THEN [key |-> k, undo |-> u, verdict |-> verdict] ELSE NoPut
      /\ IF verdict = Ok
         THEN /\ files' = [files EXCEPT ![k] = Envelope(V2, k, p)]
              /\ written' = written \cup {[key |-> k, version |-> V2, payload |-> p]}
         ELSE UNCHANGED <<files, written>>
      /\ UNCHANGED faults

\* put_undo_typed: encode, then accept an equal record or create one; a record
\* that is there is never replaced.
put_undo(k, u) ==
  LET present == files[k] # <<>>
      p == marshal_block_undo_v2(u)
      verdict == marshal_undo_envelope_version(V2, u)
                   ?? (IF present
                       THEN unmarshal_undo_envelope_disk(k, files[k])
                              ?? Check(validated_block_undo_matches(PayloadOf(files[k]), u), "differs")
                       ELSE Ok)
  IN  /\ last' = IF verdict \in {Ok, "bound"} THEN [key |-> k, undo |-> u, verdict |-> verdict] ELSE NoPut
      /\ IF verdict = Ok /\ ~present
         THEN /\ files' = [files EXCEPT ![k] = Envelope(V2, k, p)]
              /\ written' = written \cup {[key |-> k, version |-> V2, payload |-> p]}
         ELSE UNCHANGED <<files, written>>
      /\ UNCHANGED faults

\* Another build writes a record: version 1, or a well-formed envelope around a
\* payload this build would not write.
OddPayloads(u) ==
  LET p == marshal_block_undo_v2(u)
  IN  { [p EXCEPT !.shape = FALSE], [p EXCEPT !.lowercase = FALSE], [p EXCEPT !.compact = FALSE],
        [p EXCEPT !.supply.form = "escaped"], marshal_block_undo(u) }

Record(version, k, p) ==
  /\ files' = [files EXCEPT ![k] = Envelope(version, k, p)]
  /\ written' = written \cup {[key |-> k, version |-> version, payload |-> p]}

OtherBuild ==
  \E k \in Keys, u \in Undos :
    /\ files[k] = <<>>
    /\ \/ /\ marshal_undo_envelope_version(V1, u) = Ok
          /\ Record(V1, k, marshal_block_undo(u))
       \/ \E p \in OddPayloads(u) :
            /\ EnvelopeBytes(p.bytes) <= FileMax
            /\ Record(V2, k, p)
       \/ /\ files' = [files EXCEPT ![k] =
                         << Seg("prefix"), [Seg("body") EXCEPT !.payload = marshal_block_undo(u)], Seg("suffix") >>]
          /\ UNCHANGED written
    /\ last' = NoPut
    /\ UNCHANGED faults

Broken(s) ==
  IF s.kind = "body" THEN {[s EXCEPT !.loose = TRUE], [s EXCEPT !.payload.height = @ + 1]}
  ELSE IF s.kind = "prefix" THEN {[s EXCEPT !.version = v] : v \in {V1, V2, 3}}
  ELSE IF s.kind = "hash" THEN {[s EXCEPT !.hex = x] : x \in Keys \cup {Garbled}}
  ELSE IF s.kind = "checksum" THEN {[s EXCEPT !.hex = Garbled], [s EXCEPT !.sum = <<>>]}
  ELSE {[s EXCEPT !.kind = "junk"]}

Damaged(raw, other) ==
  UNION {{SubSeq(raw, 1, i - 1) \o <<b>> \o SubSeq(raw, i + 1, Len(raw)) : b \in Broken(raw[i])} : i \in DOMAIN raw}
    \cup {SubSeq(raw, 1, i - 1) \o SubSeq(raw, i + 1, Len(raw)) : i \in DOMAIN raw}
    \cup {SubSeq(raw, 1, i) \o SubSeq(raw, i, Len(raw)) : i \in DOMAIN raw}
    \cup {SubSeq(raw, 1, i) : i \in 1..(Len(raw) - 1)}
    \cup {SubSeq(raw, 1, i) \o SubSeq(other, i + 1, Len(other)) : i \in {0} \cup (DOMAIN other \cap DOMAIN raw)}

Fault ==
  /\ faults < MaxFaults
  /\ faults' = faults + 1
  /\ \E k, o \in Keys :
       /\ files[k] # <<>>
       /\ files' \in {[files EXCEPT ![k] = f] : f \in Damaged(files[k], files[o]) \ {<<>>, files[k]}}
  /\ last' = NoPut
  /\ UNCHANGED written

\* The operator resets the data directory.
Reset ==
  /\ \E k \in Keys : files[k] # <<>>
  /\ files' = [k \in Keys |-> <<>>]
  /\ written' = {}
  /\ faults' = 0
  /\ last' = NoPut

Put == \E k \in Keys, u \in Undos : put_undo(k, u)
Next == Put \/ OtherBuild \/ Fault \/ Reset

Spec == Init /\ [][Next]_vars

-----------------------------------------------------------------------------
\* Whatever happened to the files, an undo that get_undo hands out for a block
\* is one a build wrote for that very block (unmarshal_undo_envelope_disk).
OpensAsWritten ==
  \A k \in Keys :
    get_undo(k) = Ok =>
      \E w \in written : w.key = k /\ w.version = files[k][1].version /\ w.payload = PayloadOf(files[k])

\* "A record that clears the checksum is intact on disk": a refusal outside
\* UNDO_INTEGRITY is never said of a damaged or misplaced record.
SchemaFaultsAreIntact ==
  \A k \in Keys :
    get_undo(k) \in {"supply", "payload"} =>
      \E w \in written : w.key = k /\ files[k] = Envelope(w.version, k, w.payload)

\* When put_undo succeeds, get_undo returns that undo at once, whether the
\* record was created now or was there already, in either version.
PutIsReadBack ==
  last.verdict = Ok =>
    /\ get_undo(last.key) = Ok
    /\ block_undo_from_validated(PayloadOf(files[last.key])) = last.undo

\* A record that is on disk is only ever lost to a fault or a reset, never to a
\* later put_undo.
NeverReplaced ==
  \A k \in Keys : files[k] \notin {<<>>, files'[k]} => ~Put

\* The bound on the payload, derived backwards from the bound on the file,
\* refuses no undo whose record the readers would take.
FittingIsSaved ==
  last.verdict = "bound" => EnvelopeBytes(last.undo.bytes) > FileMax
=============================================================================
