------------------------------ MODULE MCRelay ------------------------------
(***************************************************************************)
(* What the node reads and passes on, each part on a small instance of its *)
(* own.  A behaviour picks one part and runs it; the others stand still,   *)
(* so that the states are those of the parts, one beside the other.        *)
(***************************************************************************)
EXTENDS Integers, Sequences, FiniteSets, TLC

CONSTANTS
  Parts,            \* the parts a run works on
  Err, Local, None, b1, d1, d2, p1, p2, q1, q2, r1, r2, s1, s2, s3

-----------------------------------------------------------------------------
(* Transactions: a cache of seen ones and a pool of two, and two callers. *)

TxPeer == {q1, q2}
TxRpc == {r1}
TwoRpc == {r1, r2}
TxTx == 1 .. 3
OneTx == {1}
TxBlock == {b1}
NoBlock == {}
\* 3 pays most but has the lowest rate; 1 and 2 have the same rate.
TxFee == [t \in 1 .. 3 |-> <<2, 4, 5>>[t]]
TxSize == [t \in 1 .. 3 |-> <<1, 2, 4>>[t]]

-----------------------------------------------------------------------------
(* Data sets.  The first has two commits that name different payloads, the
   chunks of both, a chunk no commit names and one whose hash is wrong; the
   second has one commit and its only chunk. *)

Commit(da_id, count, payload) ==
    [da_id |-> da_id, chunk_count |-> count, wire_bytes |-> 2, payload_commitment |-> payload]

DaChunk(da_id, index, hash, payload) ==
    [da_id |-> da_id, chunk_index |-> index, chunk_hash |-> hash, payload |-> payload,
     wire_bytes |-> Len(payload) + 1]


DaCommits ==
    {Commit(d1, 2, <<"a", "b", "b">>), Commit(d1, 1, <<"c">>), Commit(d2, 1, <<"a">>)}

DaChunks ==
    {DaChunk(d1, 0, <<"a">>, <<"a">>), DaChunk(d1, 0, <<"c">>, <<"c">>),
     DaChunk(d1, 1, <<"b", "b">>, <<"b", "b">>), DaChunk(d1, 0, <<"a">>, <<"c">>),
     DaChunk(d1, 2, <<"c">>, <<"c">>), DaChunk(d2, 3, <<"a">>, <<"a">>), DaChunk(d2, 0, <<"a">>, <<"a">>)}

-----------------------------------------------------------------------------
(* Requests for the chunks of three sets to two peers. *)

PrefetchPeerKeys == <<p1, p2>>

-----------------------------------------------------------------------------
(* Compact blocks of up to four transactions, with colliding short ids. *)

FillTx == 1 .. 4
FillSize == [t \in 0 .. 5 |-> CASE t = 0 -> 0 [] t = 1 -> 1 [] t = 2 -> 2 [] t = 3 -> 3 [] t = 4 -> 2 [] OTHER -> 1]

Injective(n) == {s \in [1 .. n -> FillTx] : \A i, j \in 1 .. n : i # j => s[i] # s[j]}

\* Every block of up to three transactions, and some of four.
FillBlocks == Injective(1) \cup Injective(2) \cup Injective(3) \cup {<<1, 2, 3, 4>>, <<4, 2, 1, 3>>}
FillPools == {<<>>, <<4, 3, 2, 1>>, <<1, 2, 3, 4>>} \cup Injective(1) \cup {<<1, 3>>, <<2, 4>>}

\* Short ids up to renaming: 1 is first, a new id is the next one.
FillShortIds == {s \in [0 .. 5 -> 0 .. 4] :
  /\ s[0] = 0 /\ s[5] = 0 /\ s[1] = 1 /\ s[2] \in {1, 2} /\ s[3] \in 1 .. 3 /\ s[4] \in 1 .. 4
  /\ (s[3] = 3 => s[2] = 2) /\ (s[4] = 4 => s[3] = 3)}

\* Payloads of any shape: 0 is an empty transaction, 5 a non-canonical one.
FillOdd ==
  LET pre == {<<>>} \cup {<<[index |-> i, tx |-> t]>> : i \in 0 .. 3, t \in {0, 1, 3, 5}}
             \cup {<<[index |-> i, tx |-> t], [index |-> j, tx |-> u]>> : i, j \in 0 .. 3, t, u \in {1, 3}}
  IN [short : {<<>>, <<1>>, <<2>>, <<1, 1>>, <<1, 2>>}, pre : pre]
OneBlock == {<<1, 2, 3>>}
SomePools == {<<>>, <<1>>, <<1, 2>>, <<3, 2, 1>>}

-----------------------------------------------------------------------------
(* Small requests, whole, cut short and with one byte wrong. *)

CRLF == <<"r", "n">>
HttpChunk(data, ext) == <<<<"0", "1", "2", "3", "4">>[Len(data) + 1]>> \o ext \o CRLF \o data \o CRLF
LastChunk(trailers) == <<"0">> \o CRLF \o trailers \o CRLF

Four(s) == s \o s \o s \o s

Field(n, v, k) == [name |-> n, value |-> v, n |-> k]
Chunked == Field("transfer-encoding", "chunked", 0)
Gzip == Field("transfer-encoding", "gzip", 0)
Two == Field("content-length", "2", 2)
ZeroTwo == Field("content-length", "02", 2)
Six == Field("content-length", "6", 6)
Junk == Field("content-length", "junk", 0)
Spaced == Field("malformed", "", 0)
Other == Field("host", "", 0)

Request(fields, bytes, decoded) ==
  [request_line |-> "ok", http11 |-> TRUE, head |-> 3, fields |-> fields, body |-> bytes, chunks |-> decoded]

\* Data that looks like framing, an extension, blanks and trailers.
Whole == {
  [wire |-> HttpChunk(<<"r", "n">>, <<>>) \o LastChunk(<<>>), data |-> <<"r", "n">>],
  [wire |-> HttpChunk(<<"0">>, <<"_">>) \o HttpChunk(<<"x">>, <<";">>) \o LastChunk(<<"x", ":">> \o CRLF),
   data |-> <<"0", "x">>],
  [wire |-> Four(HttpChunk(<<"x">>, <<";">>))
              \o LastChunk(<<"x", ":", "_">> \o CRLF \o <<"x", ":", "_">> \o CRLF),
   data |-> <<"x", "x", "x", "x">>]}

Sound == {Request(<<Other, Chunked>>, w.wire, w.data) : w \in Whole}
Cut(s, n) == [i \in 1..n |-> s[i]]
CutShort == UNION {{Request(<<Chunked>>, Cut(w.wire, n), <<>>) : n \in 1..(Len(w.wire) - 1)} : w \in Whole}
OneByteWrong ==
  UNION {{Request(<<Chunked>>, [w.wire EXCEPT ![i] = c], <<>>) :
            i \in 1..Len(w.wire), c \in {"x", "_", "1", "9", "~"}} : w \in Whole}
Ext(n) == <<";">> \o [i \in 1..n |-> "x"]
TooMuch ==
  {Request(<<Chunked>>, Four(HttpChunk(<<"x">>, Ext(n))) \o LastChunk(<<>>), <<>>) : n \in {1, 5, 8, 11, 14}}
    \cup {Request(<<Chunked>>, HttpChunk(<<"x", "x", "x">>, <<>>) \o HttpChunk(<<"x", "x">>, <<>>) \o LastChunk(<<>>), <<>>),
          Request(<<Chunked>>, [i \in 1..15 |-> "1"], <<>>),
          Request(<<Chunked>>, LastChunk(Four(<<"x", ":">> \o CRLF)), <<>>)}

\* Every pair of fields that speak of the length.
Framings ==
  {[Request(f, <<"1", "r", "n", "x", "r", "n", "0", "r", "n", "r", "n">>, <<>>) EXCEPT !.http11 = v] :
     f \in {<<a, b>> : a, b \in {Chunked, Gzip, Two, ZeroTwo, Six, Junk, Spaced, Other}}, v \in BOOLEAN}
Odd == {[Request(<<Two>>, <<"x", "x">>, <<>>) EXCEPT !.head = 15],
        [Request(<<Two>>, <<"x", "x">>, <<>>) EXCEPT !.head = 40],
        [Request(<<Two>>, <<"x", "x">>, <<>>) EXCEPT !.request_line = "missing target"],
        Request(<<Two>>, <<"x">>, <<>>), Request(<<>>, <<"x">>, <<>>)}

SmallRequests == Sound \cup CutShort \cup OneByteWrong \cup TooMuch \cup Framings \cup Odd

-----------------------------------------------------------------------------
(* Command lines: the words they are made of and how each is read. *)

PeerWords == {"--peers", "--peer", "--max-peers", "--dry-run", "a,b", "b", "0"}
ScanWords == {"--legacy-exposure-scan", "--legacy-suite-id", "--legacy-exposure-include-outpoints",
              "1", "0x02", "--create-store"}
StartWords == {"--network", " Main ", "devnet", "--datadir", "/../x/.", "--rpc-bind", "[::1]:7", "localhost:0",
               "name:7", "0.0.0.0:19111", "--mine-address", "zz", "1", "--pv-mode", "ON", "--mine-exit"}
PathWords == {"/../x/.", "a/../..", "../..", "../x", "x//y", "./", ""}

AllWords == PeerWords \cup ScanWords \cup StartWords \cup PathWords \cup {"", "~/.rubin", "off"}
            \cup {"a", "b"}

Addr(f, h, p) == [form |-> f, host |-> h, port |-> p]
ConfigAddrOf == [w \in AllWords |->
  CASE w = "[::1]:7" -> Addr("bracketed", "::1", 7)
    [] w = "localhost:0" -> Addr("plain", "localhost", 0)
    [] w = "name:7" -> Addr("plain", "name", 7)
    [] w = "0.0.0.0:19111" -> Addr("plain", "0.0.0.0", 19111)
    [] w = "" -> Addr("blank", "", -1)
    [] w = "a" -> Addr("plain", "name", 1)
    [] w = "b" -> Addr("plain", "127.0.0.1", 1)
    [] w = "zz" -> Addr("plain", "-label", 1)
    [] w = "1" -> Addr("stray", "", -1)
    [] w = "../x" -> Addr("unclosed", "", -1)
    [] OTHER -> Addr("no colon", "", -1)]

Path(r, p) == [rooted |-> r, parts |-> p]
ConfigPathOf == [w \in AllWords |->
  CASE w = "/../x/." -> Path(TRUE, <<"", "..", "x", ".">>)
    [] w = "a/../.." -> Path(FALSE, <<"a", "..", "..">>)
    [] w = "../.." -> Path(FALSE, <<"..", "..">>)
    [] w = "../x" -> Path(FALSE, <<"..", "x">>)
    [] w = "x//y" -> Path(FALSE, <<"x", "", "y">>)
    [] w = "./" -> Path(FALSE, <<".", "">>)
    [] w = "" -> Path(FALSE, <<"">>)
    [] OTHER -> Path(FALSE, <<w>>)]

ConfigNum == [w \in AllWords |-> CASE w = "0" -> 0 [] w = "1" -> 1 [] OTHER -> -1]
ConfigSuite == [w \in AllWords |-> CASE w = "0" -> 0 [] w = "1" -> 1 [] w = "0x02" -> 2 [] OTHER -> -1]
ConfigCsv == [w \in AllWords |-> CASE w = "a,b" -> <<"a", "b">> [] w = "" -> <<>> [] OTHER -> <<w>>]
ConfigNet == [w \in AllWords |-> CASE w = " Main " -> "mainnet" [] w = "devnet" -> "devnet" [] w = "" -> "" [] OTHER -> "?"]
ConfigMode == [w \in AllWords |-> CASE w = "ON" -> "on" [] w = "off" -> "off" [] OTHER -> w]
ConfigMine == [w \in AllWords |-> CASE w = "" -> "none" [] w = "1" -> "ok" [] OTHER -> "bad"]
ConfigCoins == ("o1" :> 1) @@ ("o2" :> 1) @@ ("o3" :> 2) @@ ("o4" :> -1)


VARIABLES
  part,             \* the part at work; all others stand still
  seen, pool, block_seen, peers, box, rpc, handler, calls, added, offered, barred,
  bcasts, queued,
  relay,
  indexes, expires, now, asked,
  blk, sid, fill_pool, wire, out, announced, outcome,
  req, got, phase, pos, base, chunk, excess, trailer_bytes, body, verdict,
  argv

-----------------------------------------------------------------------------
(* The parts. *)

Transactions == INSTANCE TxRelay WITH
  Peer <- TxPeer, Rpc <- TxRpc, Tx <- TxTx, Fee <- TxFee, Size <- TxSize,
  Block <- NoBlock, SeenCap <- 2, PoolCap <- 2, Fanout <- 1, BoxFrames <- 1,
  MaxCalls <- 5

Announcements == INSTANCE TxRelay WITH
  Peer <- TxPeer, Rpc <- TwoRpc, Tx <- OneTx, Fee <- TxFee, Size <- TxSize,
  Block <- TxBlock, SeenCap <- 1, PoolCap <- 1, Fanout <- 0, BoxFrames <- 1,
  MaxCalls <- 3

DataSets == INSTANCE DaRelay WITH
  DaIds <- {d1, d2}, PeerKeys <- {p1, p2}, Commits <- DaCommits, Chunks <- DaChunks,
  MAX_DA_CHUNK_COUNT <- 3, CHUNK_BYTES <- 2, orphan_pool_bytes <- 14,
  orphan_pool_per_peer_bytes <- 8, orphan_pool_per_da_id_bytes <- 10,
  orphan_commit_overhead_bytes <- 4, orphan_ttl_blocks <- 2,
  pinned_payload_bytes <- 4, MaxAdvance <- 2

Prefetch == INSTANCE DaPrefetch WITH
  DaIds <- {s1, s2, s3}, Indexes <- {0, 1}, PeerKeys <- PrefetchPeerKeys,
  PerPeerChunks <- 2, GlobalChunks <- 3, MaxConcurrentSets <- 2, RequestTtl <- 1,
  MaxTime <- 1

Fill == INSTANCE CompactFill WITH
  Tx <- FillTx, Size <- FillSize, NonCanonical <- {5}, Blocks <- FillBlocks,
  Pools <- FillPools, ShortIdMaps <- FillShortIds, OddPayloads <- {},
  MAX_BLOCK_BYTES <- 8, MAX_RELAY_MSG_BYTES <- 40, MAX_COMPACT_RELAY_ENTRIES <- 3,
  COMPACT_LOCAL_TX_CANDIDATE_BYTES_LIMIT <- 6, BLOCK_HEADER_BYTES <- 2,
  COMPACT_SHORT_ID_BYTES <- 1, COMPACT_RELAY_INDEX_BYTES <- 1, HASH_BYTES <- 1,
  MAX_COMPACT_SIZE_BYTES <- 3, ONE_BYTE_MAX <- 2, pool <- fill_pool

Codec == INSTANCE CompactFill WITH
  Tx <- FillTx, Size <- FillSize, NonCanonical <- {5}, Blocks <- OneBlock,
  Pools <- SomePools, ShortIdMaps <- FillShortIds, OddPayloads <- FillOdd,
  MAX_BLOCK_BYTES <- 6, MAX_RELAY_MSG_BYTES <- 12, MAX_COMPACT_RELAY_ENTRIES <- 3,
  COMPACT_LOCAL_TX_CANDIDATE_BYTES_LIMIT <- 6, BLOCK_HEADER_BYTES <- 2,
  COMPACT_SHORT_ID_BYTES <- 1, COMPACT_RELAY_INDEX_BYTES <- 1, HASH_BYTES <- 1,
  MAX_COMPACT_SIZE_BYTES <- 3, ONE_BYTE_MAX <- 2, pool <- fill_pool

Http == INSTANCE HttpRead WITH
  Requests <- SmallRequests, ReadSizes <- {1, 3, 14}, MAX_HEADER_BYTES <- 10,
  MAX_BODY_BYTES <- 4, MAX_CHUNK_LINE_BYTES <- 12, CHUNK_EXCESS_LIMIT <- 6,
  CHUNK_ALLOWANCE <- 1

PeerLines == INSTANCE NodeConfig WITH
  Words <- PeerWords, MaxWords <- 5, Num <- ConfigNum, Suite <- ConfigSuite,
  Csv <- ConfigCsv, Net <- ConfigNet, Mode <- ConfigMode, Mine <- ConfigMine,
  PathOf <- ConfigPathOf, AddrOf <- ConfigAddrOf, MaxPeerList <- 3,
  MaxMaxPeers <- 64, Coins <- ConfigCoins

ScanLines == INSTANCE NodeConfig WITH
  Words <- ScanWords, MaxWords <- 6, Num <- ConfigNum, Suite <- ConfigSuite,
  Csv <- ConfigCsv, Net <- ConfigNet, Mode <- ConfigMode, Mine <- ConfigMine,
  PathOf <- ConfigPathOf, AddrOf <- ConfigAddrOf, MaxPeerList <- 3,
  MaxMaxPeers <- 64, Coins <- ConfigCoins

StartLines == INSTANCE NodeConfig WITH
  Words <- StartWords, MaxWords <- 4, Num <- ConfigNum, Suite <- ConfigSuite,
  Csv <- ConfigCsv, Net <- ConfigNet, Mode <- ConfigMode, Mine <- ConfigMine,
  PathOf <- ConfigPathOf, AddrOf <- ConfigAddrOf, MaxPeerList <- 3,
  MaxMaxPeers <- 64, Coins <- ConfigCoins

PathLines == INSTANCE NodeConfig WITH
  Words <- PathWords, MaxWords <- 3, Num <- ConfigNum, Suite <- ConfigSuite,
  Csv <- ConfigCsv, Net <- ConfigNet, Mode <- ConfigMode, Mine <- ConfigMine,
  PathOf <- ConfigPathOf, AddrOf <- ConfigAddrOf, MaxPeerList <- 3,
  MaxMaxPeers <- 64, Coins <- ConfigCoins

-----------------------------------------------------------------------------
(* One part works; the variables of the others are not in use. *)

TxVars == <<seen, pool, block_seen, peers, box, rpc, handler, calls, added,
    offered, barred, bcasts, queued>>
DaVars == <<relay>>
PrefetchVars == <<indexes, expires, now, asked>>
FillVars == <<blk, sid, fill_pool, wire, out, announced, outcome>>
HttpVars == <<req, got, phase, pos, base, chunk, excess, trailer_bytes, body,
    verdict>>
ConfigVars == <<argv>>

NoTx ==
  /\ seen = 0 /\ pool = 0 /\ block_seen = 0 /\ peers = 0 /\ box = 0 /\ rpc = 0
  /\ handler = 0 /\ calls = 0 /\ added = 0 /\ offered = 0 /\ barred = 0
  /\ bcasts = 0 /\ queued = 0
NoDa ==
  /\ relay = 0
NoPrefetch ==
  /\ indexes = 0 /\ expires = 0 /\ now = 0 /\ asked = 0
NoFill ==
  /\ blk = 0 /\ sid = 0 /\ fill_pool = 0 /\ wire = 0 /\ out = 0 /\ announced = 0
  /\ outcome = 0
NoHttp ==
  /\ req = 0 /\ got = 0 /\ phase = 0 /\ pos = 0 /\ base = 0 /\ chunk = 0 /\ excess = 0
  /\ trailer_bytes = 0 /\ body = 0 /\ verdict = 0
NoConfig ==
  /\ argv = 0

AllVars == <<part, TxVars, DaVars, PrefetchVars, FillVars, HttpVars, ConfigVars>>

PartsInit ==
  /\ part \in Parts
  /\ CASE part = "transactions" -> Transactions!Init
       [] part = "announcements" -> Announcements!Init
       [] OTHER -> NoTx
  /\ IF part = "data sets" THEN DataSets!Init ELSE NoDa
  /\ IF part = "prefetch" THEN Prefetch!Init ELSE NoPrefetch
  /\ CASE part = "fill" -> Fill!Init
       [] part = "codec" -> Codec!Init
       [] OTHER -> NoFill
  /\ IF part = "http" THEN Http!Init ELSE NoHttp
  /\ CASE part = "peer words" -> PeerLines!Init
       [] part = "scan words" -> ScanLines!Init
       [] part = "start words" -> StartLines!Init
       [] part = "path words" -> PathLines!Init
       [] OTHER -> NoConfig

PartsNext ==
  /\ UNCHANGED part
  /\ CASE part = "transactions" -> Transactions!Next
       [] part = "announcements" -> Announcements!Next
       [] OTHER -> UNCHANGED TxVars
  /\ IF part = "data sets" THEN DataSets!Next ELSE UNCHANGED DaVars
  /\ IF part = "prefetch" THEN Prefetch!Next ELSE UNCHANGED PrefetchVars
  /\ CASE part = "fill" -> Fill!Next
       [] part = "codec" -> Codec!Next
       [] OTHER -> UNCHANGED FillVars
  /\ IF part = "http" THEN Http!Next ELSE UNCHANGED HttpVars
  /\ CASE part = "peer words" -> PeerLines!Next
       [] part = "scan words" -> ScanLines!Next
       [] part = "start words" -> StartLines!Next
       [] part = "path words" -> PathLines!Next
       [] OTHER -> UNCHANGED ConfigVars

PartsSpec == PartsInit /\ [][PartsNext]_AllVars

-----------------------------------------------------------------------------
(* Properties. *)

\* Prefetching treats its sets alike, and transaction relay its peers.
RelaySymmetry == Permutations({s1, s2, s3}) \cup Permutations({q1, q2})



=============================================================================
