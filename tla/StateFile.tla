------------------------------ MODULE StateFile ------------------------------
(***************************************************************************)
(* chainstate.json on disk: the store envelope (store_envelope.rs) and the *)
(* versioned chain state inside it (save_atomic, load_chain_state of       *)
(* chainstate.rs).  index.json shares the envelope under another domain.   *)
(*                                                                         *)
(* A file is the sequence of its envelope's segments and the payload is    *)
(* the sequence of the JSON fields, each a key and a token.  SHA3 is       *)
(* injective.  Writing is atomic (AtomicWrite); what is damaged here is    *)
(* damaged at rest.  Other builds write version 1, the bare payload of     *)
(* before the envelope, or odd fields.                                     *)
(***************************************************************************)
EXTENDS Checks, FiniteSets, SequencesExt

CONSTANTS
  States,     \* chain states: [has_tip, height, tip_hash, supply, utxos]
  U64Max,     \* u64::MAX
  MaxFaults   \* bound on faults

VARIABLES
  file,     \* chainstate.json as segments, <<>> when absent
  index,    \* index.json
  saved,    \* envelopes some build wrote, since the file was last deleted
  state,    \* the state this build saved last, while that file is in place
  faults

vars == <<file, index, saved, state, faults>>

V1 == 1
V2 == 2
ChainDomain == "RUBIN_CHAINSTATE_V1"
IndexDomain == "RUBIN_BLOCKSTORE_INDEX_V1"
Fresh == [has_tip |-> FALSE, height |-> 0, tip_hash |-> 0, supply |-> 0, utxos |-> {}]
None == [Fresh EXCEPT !.tip_hash = -1]

-----------------------------------------------------------------------------
(* The payload.  A utxo is an outpoint (txid, vout) and its value.         *)

Tok(form, n) == [form |-> form, n |-> n, utxos |-> <<>>, edge |-> FALSE]
Field(key, tok) == [key |-> key, tok |-> tok]

\* Mutant: sorted by txid only, so outputs of one transaction keep map order.
Sorted_ByTxid(utxos) == SortSeq(utxos, LAMBDA a, b : a.txid < b.txid)
Sorted(utxos) ==
  SortSeq(utxos, LAMBDA a, b : a.txid < b.txid \/ (a.txid = b.txid /\ a.vout < b.vout))

\* state_to_disk and the JSON of it; order is the hash map's iteration order.
state_to_disk(s, order, version) ==
  << Field("tip_hash", Tok("string", s.tip_hash)),
     Field("utxos", [Tok("list", 0) EXCEPT !.utxos = Sorted(order)]),
     Field("height", Tok("uint", s.height)),
     Field("already_generated", Tok(IF version = V1 THEN "uint" ELSE "string", s.supply)),
     Field("version", Tok("uint", version)),
     Field("has_tip", Tok("bool", IF s.has_tip THEN 1 ELSE 0)) >>

Of(fields, key) == SelectSeq(fields, LAMBDA f : f.key = key)
First(fields, key) == Of(fields, key)[1].tok

\* Null and duplicates are looked for before any value.
presence_error(fields, key) ==
  LET seen == Of(fields, key)
      null == \E i \in DOMAIN seen : seen[i].tok.form = "null"
  IN  Check(seen # <<>> /\ ~null, "missing " \o key)
        ?? Check(Len(seen) = 1, "duplicate " \o key)

validate_chainstate_version(fields) ==
  Check(First(fields, "version").form = "uint", "invalid version")
    ?? Check(First(fields, "version").n \in {V1, V2}, "unsupported version")

\* A number above u64 is no unsigned token; an escaped string is no canonical one.
validate_chainstate_supply(fields) ==
  LET tok == First(fields, "already_generated")
  IN  IF First(fields, "version").n = V1
      THEN Check(tok.form = "uint" /\ tok.n <= U64Max, "invalid already_generated")
      ELSE Check(tok.form = "string", "invalid already_generated")

Others == << [key |-> "has_tip", form |-> "bool"], [key |-> "height", form |-> "uint"],
             [key |-> "tip_hash", form |-> "string"], [key |-> "utxos", form |-> "list"] >>
Known == {"version", "already_generated"} \cup {Others[i].key : i \in DOMAIN Others}

\* ChainStateDiskVisitor, for what the earlier passes have not looked at.
decode_disk(fields) ==
  Check(\A i \in DOMAIN fields : fields[i].key \in Known, "not canonical")
    ?? FirstError([i \in DOMAIN Others |->
         Check(Len(Of(fields, Others[i].key)) = 1, "not canonical")
           ?? Check(First(fields, Others[i].key).form = Others[i].form, "not canonical")])

chainstate_has_edge_ascii_whitespace(fields) ==
  \E i \in DOMAIN fields : fields[i].key \in {"tip_hash", "utxos"} /\ fields[i].tok.edge

Outpoints(utxos) == {<<utxos[i].txid, utxos[i].vout>> : i \in DOMAIN utxos}

chain_state_from_disk(fields) ==
  LET utxos == First(fields, "utxos").utxos
  IN  Check(Cardinality(Outpoints(utxos)) = Len(utxos), "duplicate utxo")

Decoded(fields) ==
  presence_error(fields, "version")
    ?? validate_chainstate_version(fields)
    ?? presence_error(fields, "already_generated")
    ?? validate_chainstate_supply(fields)
    ?? decode_disk(fields)
    ?? Check(~chainstate_has_edge_ascii_whitespace(fields), "not canonical")
    ?? chain_state_from_disk(fields)

StateOf(fields) ==
  [has_tip |-> First(fields, "has_tip").n = 1, height |-> First(fields, "height").n,
   tip_hash |-> First(fields, "tip_hash").n, supply |-> First(fields, "already_generated").n,
   utxos |-> ToSet(First(fields, "utxos").utxos)]

-----------------------------------------------------------------------------
(* The envelope.                                                           *)

Seg(kind) == [kind |-> kind, version |-> 0, body |-> <<>>, loose |-> FALSE, hex |-> TRUE, sum |-> <<>>]

store_envelope_checksum(domain, payload) == <<domain, payload>>

marshal_store_envelope(domain, payload) ==
  << [Seg("prefix") EXCEPT !.version = 1],
     [Seg("body") EXCEPT !.body = payload],
     Seg("checksum_sep"),
     [Seg("checksum") EXCEPT !.sum = store_envelope_checksum(domain, payload)],
     Seg("suffix") >>

Kinds(raw) == [i \in DOMAIN raw |-> raw[i].kind]
Layout(raw) ==
  /\ Len(raw) >= 4
  /\ raw[1].kind = "prefix" /\ raw[1].version = 1
  /\ SubSeq(Kinds(raw), Len(raw) - 2, Len(raw)) = <<"checksum_sep", "checksum", "suffix">>
Body(raw) == SubSeq(raw, 2, Len(raw) - 3)

\* The bare payload of before the envelope is one segment, legacy.  The keys of
\* the envelope stand in its prefix and in the separator.
classify_store_envelope_failure(raw) ==
  LET prefixes == SelectSeq(raw, LAMBDA g : g.kind = "prefix")
      whole == \/ raw[1].kind = "legacy"
               \/ raw[1].kind = "prefix" /\ Len(prefixes) = 1 /\ \E i \in DOMAIN raw : raw[i].kind = "suffix"
      bare == \A i \in DOMAIN raw : raw[i].kind \notin {"prefix", "checksum_sep"}
  IN  Check(whole, "not_object")
        ?? Check(~bare, "legacy")
        ?? Check(raw[1].version = 1, "unsupported")
        ?? "layout"

split_store_envelope(raw) ==
  IF ~Layout(raw) THEN classify_store_envelope_failure(raw)
  ELSE Check(raw[Len(raw) - 1].hex, "hex")

decode_canonical_store_base64(body) ==
  Check(Len(body) = 1, "base64") ?? Check(body[1].kind = "body" /\ ~body[1].loose, "base64")

open_store_envelope(domain, raw) ==
  split_store_envelope(raw)
    ?? decode_canonical_store_base64(Body(raw))
    ?? Check(raw[Len(raw) - 1].sum = store_envelope_checksum(domain, Body(raw)[1].body), "checksum")

Integrity == {"not_object", "legacy", "unsupported", "layout", "hex", "base64", "checksum"}
Loadable == file # <<>> /\ open_store_envelope(ChainDomain, file) = Ok
Fields == Body(file)[1].body

\* An absent file is a fresh state, to be rebuilt by replay; a file that is
\* there never is.
load_chain_state ==
  IF file = <<>> THEN Ok ELSE open_store_envelope(ChainDomain, file) ?? Decoded(Fields)
Loaded == IF file = <<>> THEN Fresh ELSE StateOf(Fields)

-----------------------------------------------------------------------------
IndexFile == marshal_store_envelope(IndexDomain, << Field("canonical", Tok("list", 0)), Field("version", Tok("uint", 1)) >>)

Init ==
  /\ file = <<>> /\ index = IndexFile
  /\ saved = {} /\ state = None /\ faults = 0

save_atomic ==
  \E s \in States : \E order \in SetToSeqs(s.utxos) :
    LET f == marshal_store_envelope(ChainDomain, state_to_disk(s, order, V2))
    IN  /\ file' = f
        /\ saved' = {f}
        /\ state' = s
        /\ UNCHANGED <<index, faults>>

\* Fields another build, or a hand, might have written in place of ours.
Tokens == { Tok(form, n) : form \in {"null", "uint", "string", "escaped", "other"}, n \in {V1, V2, U64Max + 1} }
Odd(fields) ==
  { fields \o << fields[i] >> : i \in DOMAIN fields }
    \cup { RemoveAt(fields, i) : i \in DOMAIN fields }
    \cup { Append(fields, Field("extra", Tok("null", 0))) }
    \cup { [fields EXCEPT ![i].tok = t] : i \in DOMAIN fields, t \in Tokens }
    \cup { InsertAt(fields, i, Field(fields[i].key, Tok("null", 0))) : i \in DOMAIN fields }
    \cup { [fields EXCEPT ![i].tok.edge = TRUE] : i \in DOMAIN fields }
    \cup { [fields EXCEPT ![2].tok.utxos = @ \o @] }

OtherBuild ==
  /\ file = <<>>
  /\ \E s \in States :
       LET v1 == state_to_disk(s, SetToSeq(s.utxos), V1)
           v2 == state_to_disk(s, SetToSeq(s.utxos), V2)
       IN  \/ \E fields \in ({v1} \cup Odd(v1) \cup Odd(v2)) :
                /\ file' = marshal_store_envelope(ChainDomain, fields)
                /\ saved' = {file'}
           \/ /\ file' = << [Seg("legacy") EXCEPT !.version = 1, !.body = v1] >>
              /\ saved' = {}
  /\ state' = None
  /\ UNCHANGED <<index, faults>>

Broken(s) ==
  IF s.kind = "body" THEN {[s EXCEPT !.loose = TRUE], [s EXCEPT !.body[1].tok.n = @ + 1]}
  ELSE IF s.kind = "prefix" THEN {[s EXCEPT !.version = 2]}
  ELSE IF s.kind = "checksum" THEN {[s EXCEPT !.hex = FALSE], [s EXCEPT !.sum = <<>>]}
  ELSE {[s EXCEPT !.kind = "junk"]}

Damaged(raw, other) ==
  UNION {{[raw EXCEPT ![i] = b] : b \in Broken(raw[i])} : i \in DOMAIN raw}
    \cup {RemoveAt(raw, i) : i \in DOMAIN raw}
    \cup {InsertAt(raw, i, raw[i]) : i \in DOMAIN raw}
    \cup {SubSeq(raw, 1, i) : i \in 1..(Len(raw) - 1)}
    \cup {SubSeq(raw, 1, i) \o SubSeq(other, i + 1, Len(other)) : i \in 0..Len(raw)}
    \cup {SubSeq(other, 1, i) \o SubSeq(raw, i + 1, Len(raw)) : i \in {0} \cup (DOMAIN raw \cap DOMAIN other)}

Fault ==
  /\ faults < MaxFaults /\ file # <<>>
  /\ file' \in Damaged(file, index) \ {<<>>, file}
  /\ state' = None
  /\ faults' = faults + 1
  /\ UNCHANGED <<index, saved>>

\* The operator deletes the file, as the legacy message asks.
Delete ==
  /\ file # <<>>
  /\ file' = <<>> /\ saved' = {} /\ state' = None /\ faults' = 0
  /\ UNCHANGED index

Next == save_atomic \/ OtherBuild \/ Fault \/ Delete
Spec == Init /\ [][Next]_vars

-----------------------------------------------------------------------------
\* What is saved is what is loaded, supplies beyond u64 and coins included.
SavedIsLoaded ==
  state # None => load_chain_state = Ok /\ Loaded = state

\* Damage at rest, a missing tail or another store file under this name never
\* loads, and never falls back to the fresh state of an absent file.
OnlyWrittenLoads ==
  file # <<>> /\ load_chain_state = Ok => file \in saved

\* A refusal outside STORE_INTEGRITY is only said of a file exactly as written.
SchemaFaultsAreIntact ==
  file # <<>> /\ load_chain_state \notin ({Ok} \cup Integrity) => file \in saved

\* The verdict on a payload, and the state, do not depend on the order in which
\* its fields stand, though five passes read them one after the other.
Swapped(fields, i) == [fields EXCEPT ![i] = fields[i + 1], ![i + 1] = fields[i]]
OrderFree ==
  Loadable =>
    \A i \in 1..(Len(Fields) - 1) :
      /\ Decoded(Swapped(Fields, i)) = Decoded(Fields)
      /\ Decoded(Fields) = Ok => StateOf(Swapped(Fields, i)) = StateOf(Fields)

\* Saving a state again leaves the file as it is, byte for byte, in whatever
\* order the hash map of coins is walked.
SameStateSameFile ==
  state' # None /\ state' = state => file' = file
=============================================================================
