------------------------------ MODULE NodeConfig ------------------------------
(***************************************************************************)
(* From the words of rubin-node's command line to the configuration it     *)
(* runs with (parse_args, validate_config and the readers of addresses and *)
(* paths they rest on), and the report of --legacy-exposure-scan.  A word  *)
(* is a member of Words; what a word says when it is read as a number, a   *)
(* path, an address, ... is given by the constants.                        *)
(***************************************************************************)
EXTENDS Integers, Sequences, SequencesExt, FiniteSets, FiniteSetsExt

CONSTANTS
  Words,      \* the words an operator may type, flags included
  MaxWords,   \* bound: words on one command line
  Num,        \* Words -> Int: the number, -1 for none
  Suite,      \* Words -> Int: parse_legacy_suite_id, -1 for an error
  Csv,        \* Words -> Seq: the trimmed non-empty items between commas
  Net,        \* Words -> the canonical network name, "" if blank, "?" if unknown
  Mode,       \* Words -> the trimmed lowercase pv mode
  Mine,       \* Words -> "none" (blank), "ok", "bad": parse_mine_address
  PathOf,     \* Words -> [rooted: BOOLEAN, parts: Seq of components]
  AddrOf,     \* Words -> AddrType
  MaxPeerList, MaxMaxPeers,   \* 1000 and 4096 in the code
  Coins       \* outpoint -> suite id its covenant data names, -1 for none

(***************************************************************************)
(* Paths.                                                                  *)
(***************************************************************************)

LOCAL Final(s) == s[Len(s)]

step_clean(rooted, parts, c) ==
  IF c \in {"", "."} THEN parts
  ELSE IF c # ".." THEN Append(parts, c)
  ELSE IF parts # <<>> /\ Final(parts) # ".." THEN Front(parts)
  ELSE IF rooted THEN parts ELSE Append(parts, c)

(* An empty relative result is written ".".                                *)
lexical_clean(p) ==
  LET kept == FoldLeft(LAMBDA parts, c : step_clean(p.rooted, parts, c), <<>>, p.parts)
  IN  [rooted |-> p.rooted, parts |-> IF kept = <<>> /\ ~p.rooted THEN <<".">> ELSE kept]

(***************************************************************************)
(* Addresses.  form: how the brackets and colons of the text fall.         *)
(***************************************************************************)

\* A port of -1 is text that is no u16.
IpLoopback == {"127.0.0.1", "::1"}
IsIp(host) == host \in IpLoopback \cup {"0.0.0.0"}
DnsName(host) == host \in {"localhost", "name"}

validate_addr_inner(a, allow_ephemeral) ==
  /\ \/ a.form = "bracketed" /\ a.host = "::1"
     \/ a.form = "plain" /\ a.host \notin {"", "::1"}
  /\ a.host # "control"
  /\ IsIp(a.host) \/ DnsName(a.host)
  /\ a.port >= 0
  /\ a.port = 0 => allow_ephemeral

rpc_bind_host_is_loopback(a) ==
  /\ \/ a.form = "bracketed" /\ a.host # ""
     \/ a.form = "plain" /\ a.host \notin {"", "::1"}
  /\ a.port >= 0
  /\ a.host = "localhost" \/ a.host \in IpLoopback

(***************************************************************************)
(* parse_args: one pass; a flag that takes a value takes the next word,    *)
(* whatever it is.                                                         *)
(***************************************************************************)

Single == [f \in {"--network", "--datadir", "--genesis-file", "--bind", "--rpc-bind", "--mine-address",
                  "--pv-mode"} |->
             CASE f = "--network" -> "network"
               [] f = "--datadir" -> "data_dir"
               [] f = "--genesis-file" -> "genesis_file"
               [] f = "--bind" -> "bind_addr"
               [] f = "--rpc-bind" -> "rpc_bind_addr"
               [] f = "--mine-address" -> "mine_address"
               [] f = "--pv-mode" -> "pv_mode"]
Numeric == [f \in {"--max-peers", "--mine-blocks", "--pv-shadow-max"} |->
              CASE f = "--max-peers" -> "max_peers"
                [] f = "--mine-blocks" -> "mine_blocks"
                [] f = "--pv-shadow-max" -> "pv_shadow_max"]
Switch == [f \in {"--mine-exit", "--legacy-exposure-scan", "--legacy-exposure-include-outpoints",
                  "--dry-run", "--create-store"} |->
             CASE f = "--mine-exit" -> "mine_exit"
               [] f = "--legacy-exposure-scan" -> "legacy_exposure_scan"
               [] f = "--legacy-exposure-include-outpoints" -> "legacy_exposure_include_outpoints"
               [] f = "--dry-run" -> "dry_run"
               [] f = "--create-store" -> "create_store"]
ValueFlags == DOMAIN Single \cup DOMAIN Numeric \cup {"--peers", "--peer", "--legacy-suite-id"}

(* What the built-in defaults read as is in the constants too.             *)
Defaults == [network |-> "devnet", data_dir |-> "~/.rubin", genesis_file |-> "", bind_addr |-> "0.0.0.0:19111",
             rpc_bind_addr |-> "", mine_address |-> "", pv_mode |-> "off", max_peers |-> 64,
             mine_blocks |-> 0, pv_shadow_max |-> 3, mine_exit |-> FALSE,
             legacy_exposure_scan |-> FALSE, legacy_exposure_include_outpoints |-> FALSE,
             dry_run |-> FALSE, create_store |-> FALSE, peers |-> <<>>, legacy_suite_ids |-> <<>>]

Begin == [cfg |-> Defaults, csv |-> <<>>, peers |-> <<>>, suites |-> <<>>, want |-> "", err |-> ""]

TakeFlag(s, w) ==
  IF w \in ValueFlags THEN [s EXCEPT !.want = w]
  ELSE IF w \in DOMAIN Switch THEN [s EXCEPT !.cfg[Switch[w]] = TRUE]
  ELSE [s EXCEPT !.err = "unknown flag"]


TakeValue(s, f, w) ==
  IF f \in DOMAIN Single THEN [s EXCEPT !.cfg[Single[f]] = w]
  ELSE IF f \in DOMAIN Numeric
       THEN IF Num[w] >= 0 THEN [s EXCEPT !.cfg[Numeric[f]] = Num[w]] ELSE [s EXCEPT !.err = "invalid value"]
  ELSE IF f = "--peers" THEN [s EXCEPT !.csv = Csv[w]]
  ELSE IF f = "--peer" THEN [s EXCEPT !.peers = @ \o Csv[w]]
  ELSE IF Suite[w] >= 0 THEN [s EXCEPT !.suites = Append(@, Suite[w])] ELSE [s EXCEPT !.err = "suite id"]

Take(s, w) ==
  IF s.err # "" THEN s
  ELSE IF s.want = "" THEN TakeFlag(s, w)
  ELSE TakeValue([s EXCEPT !.want = ""], s.want, w)

(* The first occurrence of each peer, in order.                            *)
normalize_peers(raw) ==
  FoldLeft(LAMBDA out, p : IF Contains(out, p) THEN out ELSE Append(out, p), <<>>, raw)

watched(suites) == SetToSortSeq(ToSet(suites), <)

parse_args(argv) ==
  LET s == FoldLeft(Take, Begin, argv)
  IN  [err |-> IF s.err = "" /\ s.want # "" THEN "missing value" ELSE s.err,
       cfg |-> [s.cfg EXCEPT !.peers = normalize_peers(s.csv \o s.peers),
                             !.legacy_suite_ids = watched(s.suites)]]

(***************************************************************************)
(* validate_config: refusals in the code's order, and what it rewrites.    *)
(***************************************************************************)

ConfigError(c) ==
  CASE Net[c.network] = "" -> "network is required"
    [] Net[c.network] = "?" -> "unknown network"
    [] ~validate_addr_inner(AddrOf[c.bind_addr], TRUE) -> "bind_addr"
    [] AddrOf[c.rpc_bind_addr].form # "blank" /\ ~validate_addr_inner(AddrOf[c.rpc_bind_addr], TRUE)
         -> "rpc_bind_addr"
    [] Len(c.peers) > MaxPeerList -> "too many peers"
    [] \E i \in DOMAIN c.peers : ~validate_addr_inner(AddrOf[c.peers[i]], FALSE) -> "peer"
    [] c.max_peers = 0 \/ c.max_peers > MaxMaxPeers -> "max_peers"
    [] Mine[c.mine_address] = "bad" -> "mine_address"
    [] Mode[c.pv_mode] \notin {"off", "shadow", "on"} -> "pv_mode"
    [] c.legacy_exposure_scan /\ c.legacy_suite_ids = <<>> -> "scan without a suite"
    [] ~c.legacy_exposure_scan /\ (c.legacy_suite_ids # <<>> \/ c.legacy_exposure_include_outpoints)
         -> "suite without a scan"
    [] OTHER -> ""

(* What a later stage reads out of an accepted configuration.              *)
Effective(c) ==
  [network |-> Net[c.network], data_dir |-> lexical_clean(PathOf[c.data_dir]),
   genesis_file |-> IF c.genesis_file = "" THEN <<>> ELSE <<lexical_clean(PathOf[c.genesis_file])>>,
   peers |-> c.peers, max_peers |-> c.max_peers, mine_address |-> Mine[c.mine_address],
   rpc |-> AddrOf[c.rpc_bind_addr], pv_mode |-> Mode[c.pv_mode],
   pv_shadow_max |-> IF c.pv_shadow_max = 0 THEN 3 ELSE c.pv_shadow_max,
   suites |-> c.legacy_suite_ids, with_outpoints |-> c.legacy_exposure_include_outpoints]

live_devnet_loopback_mining_allowed(e) ==
  e.network = "devnet" /\ rpc_bind_host_is_loopback(e.rpc)

(***************************************************************************)
(* --legacy-exposure-scan.                                                 *)
(***************************************************************************)

utxo_outpoints_by_suite_id(id) == {o \in DOMAIN Coins : Coins[o] = id}

legacy_exposure_hooks(total) ==
  IF total = 0 THEN "start_operator_defined_grace_window" ELSE "not_applicable_legacy_exposure_present"

build_legacy_exposure_report(e) ==
  LET rows == [i \in DOMAIN e.suites |->
                 [suite |-> e.suites[i], count |-> Cardinality(utxo_outpoints_by_suite_id(e.suites[i])),
                  outpoints |-> IF e.with_outpoints THEN utxo_outpoints_by_suite_id(e.suites[i]) ELSE {}]]
      total == FoldLeft(LAMBDA n, r : n + r.count, 0, rows)
  IN  [rows |-> rows, total |-> total, hook |-> legacy_exposure_hooks(total)]

(***************************************************************************)
(* An operator types a command line, word by word.                         *)
(***************************************************************************)

VARIABLE argv

Init == argv = <<>>

Type(w) == Len(argv) < MaxWords /\ argv' = Append(argv, w)

Next == \E w \in Words : Type(w)

Spec == Init /\ [][Next]_argv

Accepted(a) == parse_args(a).err = "" /\ ConfigError(parse_args(a).cfg) = ""

(***************************************************************************)
(* Properties.                                                             *)
(***************************************************************************)

(* The places at which the words of argv start a flag.                     *)
Starts(a) == {i \in DOMAIN a : LET s == FoldLeft(Take, Begin, SubSeq(a, 1, i - 1))
                               IN  s.err = "" /\ s.want = ""}

(* The order of different flags does not matter: --peers stands ahead of   *)
(* every --peer wherever it is typed, and each flag's last value (or each  *)
(* --peer, in turn) counts (parse_args).                                   *)
OrderFree ==
  parse_args(argv).err = "" =>
    \A i, j \in Starts(argv) :
      LET end == {k \in Starts(argv) : k > j} \cup {Len(argv) + 1}
          e == Min(end)
      IN  (i < j /\ argv[i] # argv[j] /\ ~ \E k \in Starts(argv) : i < k /\ k < j)
          => parse_args(SubSeq(argv, 1, i - 1) \o SubSeq(argv, j, e - 1) \o SubSeq(argv, i, j - 1)
                        \o SubSeq(argv, e, Len(argv))) = parse_args(argv)

(* What start-up relies on after validate_config: the engine can read the  *)
(* mode, the miner its address, every peer and address can be dialled or   *)
(* bound, no peer is listed twice, and the path reported is the path read  *)
(* (cleaning it again changes nothing).                                    *)
AcceptedIsUsable ==
  Accepted(argv) =>
    LET e == Effective(parse_args(argv).cfg)
    IN  /\ e.pv_mode \in {"off", "shadow", "on"} /\ e.pv_shadow_max > 0
        /\ e.mine_address # "bad"
        /\ IsInjective(e.peers)
        /\ \A i \in DOMAIN e.peers : AddrOf[e.peers[i]].port > 0
        /\ e.max_peers \in 1 .. MaxMaxPeers
        /\ lexical_clean(e.data_dir) = e.data_dir

(* Two readers of one address, the validator and the loopback gate of live *)
(* mining, agree on its host: live mining is allowed exactly on loopback.  *)
LoopbackGateAgrees ==
  Accepted(argv) =>
    LET e == Effective(parse_args(argv).cfg)
    IN  live_devnet_loopback_mining_allowed(e) <=>
          /\ e.network = "devnet"
          /\ e.rpc.form # "blank"
          /\ e.rpc.host \in {"localhost", "127.0.0.1", "::1"}

Resolve(cwd, p) ==
  FoldLeft(LAMBDA at, c : IF c \in {"", "."} THEN at
                          ELSE IF c = ".." THEN (IF at = <<>> THEN at ELSE Front(at))
                          ELSE Append(at, c),
           IF p.rooted THEN <<>> ELSE cwd, p.parts)

(* Without links, the cleaned path names the same place as the typed one   *)
(* from every directory (normalize_data_dir).                              *)
CleanNamesTheSame ==
  \A w \in ToSet(argv) : \A cwd \in {<<>>, <<"u">>, <<"u", "v", "w">>} :
    Resolve(cwd, lexical_clean(PathOf[w])) = Resolve(cwd, PathOf[w])

(* A coin is counted once however often its suite is asked for, and the    *)
(* total is zero exactly when no watched coin is left, with or without the *)
(* outpoints listed (build_legacy_exposure_report).                        *)
ExposureCountsOnce ==
  Accepted(argv) =>
    LET e == Effective(parse_args(argv).cfg)
        r == build_legacy_exposure_report(e)
    IN  /\ r.total = Cardinality({o \in DOMAIN Coins : Coins[o] \in ToSet(e.suites)})
        /\ r.hook = "start_operator_defined_grace_window"
             <=> \A o \in DOMAIN Coins : Coins[o] \notin ToSet(e.suites)
=============================================================================
