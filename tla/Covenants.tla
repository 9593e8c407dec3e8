------------------------------ MODULE Covenants ------------------------------
(***************************************************************************)
(* The covenants an output may carry: what may be created                  *)
(* (covenant_genesis.rs), how covenant data is parsed (vault.rs, htlc.rs,  *)
(* stealth.rs) and what a witness must show to spend it (spend_verify.rs,  *)
(* htlc.rs, stealth.rs).                                                   *)
(*                                                                         *)
(* A covenant is named by its lock id, the hash of its descriptor, and     *)
(* Cov gives the covenant behind a lock id.  Lock ids and key ids are      *)
(* numbers because the code orders them.  Every check returns Ok or an     *)
(* error code (TxErr... without its prefix), and a ?? b goes on to b only  *)
(* when a is Ok, as the operator of that shape does in Rust.               *)
(***************************************************************************)
EXTENDS Checks, FiniteSets, SequencesExt, FiniteSetsExt

CONSTANTS
  Cov,            \* lock id -> covenant, a sequence of records with a kind
  NativeCreate,   \* height -> suites a CORE_P2PK output may name
  NativeSpend,    \* height -> suites a signature may use
  Registered,     \* suites of the registry
  SimplicityFrom, \* height from which CORE_SIMPLICITY may be created
  MAX_KEYS,       \* MAX_VAULT_KEYS, MAX_MULTISIG_KEYS
  MAX_WHITELIST,  \* MAX_VAULT_WHITELIST_ENTRIES
  MAX_GROUP       \* SIMPLICITY_MAX_GROUP_OUTPUTS

SENTINEL == 0

StrictlySorted(s) == \A i \in 1..(Len(s) - 1) : s[i] < s[i + 1]

\* slice::binary_search: the window [lo, hi) is halved until it is empty.
Search[w \in [list : Seq(Nat), x : Nat, lo : Nat, hi : Nat]] ==
  LET mid == (w.lo + w.hi) \div 2
  IN  CASE w.lo >= w.hi -> FALSE
        [] w.lo < w.hi /\ w.list[mid + 1] = w.x -> TRUE
        [] w.lo < w.hi /\ w.list[mid + 1] < w.x -> Search[[w EXCEPT !.lo = mid + 1]]
        [] w.lo < w.hi /\ w.list[mid + 1] > w.x -> Search[[w EXCEPT !.hi = mid]]

hash_in_sorted_32(list, target) ==
  Search[[list |-> list, x |-> target, lo |-> 0, hi |-> Len(list)]]

-----------------------------------------------------------------------------
(* Parsing.  `size' is "ok", "short" (the fixed fields are cut) or         *)
(* "mismatch" (the length is not the one the counts ask for).              *)

CountsError(c, code) ==
  Check(Len(c.keys) \in 1..MAX_KEYS, code) ?? Check(c.threshold \in 1..Len(c.keys), code)

parse_multisig_covenant_data(c) ==
  LET code == "CovenantTypeInvalid"
  IN  Check(c.size # "short", code) ?? CountsError(c, code)
        ?? Check(c.size = "ok", code) ?? Check(StrictlySorted(c.keys), code)

\* What parse_vault_covenant_data_inner checks in both modes.
parse_vault_covenant_data_for_spend(c) ==
  Check(c.size # "short", "VaultMalformed")
    ?? CountsError(c, "VaultParamsInvalid")
    ?? Check(StrictlySorted(c.keys), "VaultKeysNotCanonical")
    ?? Check(Len(c.whitelist) \in 1..MAX_WHITELIST, "VaultParamsInvalid")
    ?? Check(c.size = "ok", "VaultMalformed")

\* enforce_whitelist_canonical.
WhitelistError(c) ==
  Check(StrictlySorted(c.whitelist), "VaultWhitelistNotCanonical")
    ?? Check(~hash_in_sorted_32(c.whitelist, c.owner), "VaultOwnerDestinationForbidden")

parse_vault_covenant_data(c) == parse_vault_covenant_data_for_spend(c) ?? WhitelistError(c)

parse_htlc_covenant_data(c) ==
  Check(c.size = "ok", "CovenantTypeInvalid")
    ?? Check(c.mode \in {"height", "timestamp"}, "CovenantTypeInvalid")
    ?? Check(c.lock > 0, "CovenantTypeInvalid")
    ?? Check(c.claim # c.refund, "Parse")

parse_stealth_covenant_data(c) == Check(c.size = "ok", "CovenantTypeInvalid")

\* Witness items an input consumes; 0 stands for the error of other types.
witness_slots(c) ==
  CASE c.kind \in {"p2pk", "stealth", "simplicity"} -> 1
    [] c.kind \in {"multisig", "vault"} -> Len(c.keys)
    [] c.kind = "htlc" -> 2
    [] OTHER -> 0

-----------------------------------------------------------------------------
(* Creation.  An output is [value, lock].                                  *)

validate_p2pk_anchor(c, value, h) ==
  IF c.kind = "p2pk"
  THEN Check(value > 0, "CovenantTypeInvalid") ?? Check(c.size = "ok", "CovenantTypeInvalid")
         ?? Check(c.suite \in NativeCreate[h], "SigAlgInvalid")
  ELSE Check(value = 0, "CovenantTypeInvalid") ?? Check(c.size = "ok", "CovenantTypeInvalid")

validate_vault_multisig_htlc(c, value) ==
  CASE c.kind = "vault" -> Check(value > 0, "VaultParamsInvalid") ?? parse_vault_covenant_data(c)
    [] c.kind = "multisig" ->
         Check(value > 0, "CovenantTypeInvalid") ?? parse_multisig_covenant_data(c)
    [] c.kind = "htlc" -> parse_htlc_covenant_data(c) ?? Check(value > 0, "CovenantTypeInvalid")

validate_stealth_da(c, value, tx_kind) ==
  IF c.kind = "stealth"
  THEN Check(value > 0, "CovenantTypeInvalid") ?? parse_stealth_covenant_data(c)
  ELSE Check(tx_kind = 1 /\ value = 0 /\ c.size = "ok", "CovenantTypeInvalid")

validate_simplicity_genesis_output(c, value, h) ==
  Check(h >= SimplicityFrom /\ value > 0 /\ c.size = "ok", "CovenantTypeInvalid")

validate_tx_output_covenant_genesis(tx_kind, out, h) ==
  LET c == Cov[out.lock]
  IN  CASE c.kind \in {"p2pk", "anchor"} -> validate_p2pk_anchor(c, out.value, h)
        [] c.kind \in {"vault", "multisig", "htlc"} -> validate_vault_multisig_htlc(c, out.value)
        [] c.kind \in {"stealth", "da_commit"} -> validate_stealth_da(c, out.value, tx_kind)
        [] c.kind = "simplicity" -> validate_simplicity_genesis_output(c, out.value, h)
        [] OTHER -> "CovenantTypeInvalid"

validate_simplicity_output_group_cap(outputs) ==
  LET cmrs == SelectSeq([i \in DOMAIN outputs |-> Cov[outputs[i].lock]],
                        LAMBDA c : c.kind = "simplicity")
  IN  Check(\A i \in DOMAIN cmrs :
              Cardinality({j \in DOMAIN cmrs : cmrs[j].cmr = cmrs[i].cmr}) <= MAX_GROUP,
            "CovenantTypeInvalid")

\* Every output in wire order, and the group cap once all are right.
validate_tx_covenants_genesis(tx, h) ==
  FirstError([i \in DOMAIN tx.outputs |->
                validate_tx_output_covenant_genesis(tx.kind, tx.outputs[i], h)])
    ?? validate_simplicity_output_group_cap(tx.outputs)

-----------------------------------------------------------------------------
(* Spending.  A witness item is                                            *)
(*   [suite, key, form, good, path, preimage]:                             *)
(* the key id of its public key, "canonical", "length" or "sighash" (the   *)
(* lengths or the trailing sighash byte are wrong) or "empty", whether the *)
(* signature verifies, and for a CORE_HTLC selector its path and preimage. *)
(* With `defer' the last check is left to the signature queue.             *)

queue_or_verify_signature(w, defer) == Check(defer \/ w.good, "SigInvalid")

verify_mldsa_key_and_sig_q(w, key, defer) ==
  Check(w.key = key, "SigInvalid")
    ?? Check(w.form # "sighash", "SighashTypeInvalid")
    ?? queue_or_verify_signature(w, defer)

spend_suite_params(w, h) ==
  Check(w.suite \in NativeSpend[h] \cap Registered, "SigAlgInvalid")
    ?? Check(w.form \in {"canonical", "sighash"}, "SigNoncanonical")

validate_p2pk_spend_q(c, w, h, defer) ==
  spend_suite_params(w, h)
    ?? Check(c.size = "ok" /\ c.suite = w.suite, "CovenantTypeInvalid")
    ?? verify_mldsa_key_and_sig_q(w, c.key, defer)

validate_stealth_spend_q(c, w, h, defer) ==
  parse_stealth_covenant_data(c) ?? spend_suite_params(w, h)
    ?? verify_mldsa_key_and_sig_q(w, c.key, defer)

\* An absent signer is an empty sentinel; one bad signature fails them all.
ThresholdItemError(w, key, h, defer) ==
  IF w.suite = SENTINEL
  THEN Check(w.form = "empty", "Parse")
  ELSE spend_suite_params(w, h) ?? verify_mldsa_key_and_sig_q(w, key, defer)

\* Mutant: absent signers count towards the threshold.
validate_threshold_sig_spend_q_Absent(c, ws, h, defer) ==
  Check(Len(ws) = Len(c.keys), "Parse")
    ?? FirstError([i \in DOMAIN ws |-> ThresholdItemError(ws[i], c.keys[i], h, defer)])
    ?? Check(Len(ws) >= c.threshold, "SigInvalid")

validate_threshold_sig_spend_q(c, ws, h, defer) ==
  Check(Len(ws) = Len(c.keys), "Parse")
    ?? FirstError([i \in DOMAIN ws |-> ThresholdItemError(ws[i], c.keys[i], h, defer)])
    ?? Check(Cardinality({i \in DOMAIN ws : ws[i].suite # SENTINEL}) >= c.threshold, "SigInvalid")

validate_htlc_claim_path(c, sel) ==
  Check(sel.key = c.claim, "SigInvalid")
    ?? Check(sel.preimage # "badlength", "Parse")
    ?? Check(sel.preimage = c.hash, "SigInvalid")

validate_htlc_refund_path(c, sel, h, mtp) ==
  Check(sel.preimage = "none", "Parse")
    ?? Check((IF c.mode = "height" THEN h ELSE mtp) >= c.lock, "TimelockNotMet")
    ?? Check(sel.key = c.refund, "SigInvalid")

validate_htlc_spend_q(c, sel, w, h, mtp, defer) ==
  parse_htlc_covenant_data(c)
    ?? Check(sel.suite = SENTINEL /\ sel.form = "canonical", "Parse")
    ?? (CASE sel.path = "claim" -> validate_htlc_claim_path(c, sel)
          [] sel.path = "refund" -> validate_htlc_refund_path(c, sel, h, mtp)
          [] OTHER -> "Parse")
    ?? spend_suite_params(w, h)
    ?? verify_mldsa_key_and_sig_q(w, IF sel.path = "claim" THEN c.claim ELSE c.refund, defer)

check_spend_covenant(c) ==
  CASE c.kind = "p2pk" -> Ok
    [] c.kind = "stealth" -> parse_stealth_covenant_data(c)
    [] c.kind = "vault" -> parse_vault_covenant_data_for_spend(c)
    [] c.kind = "multisig" -> parse_multisig_covenant_data(c)
    [] c.kind = "htlc" -> parse_htlc_covenant_data(c)
    [] OTHER -> "CovenantTypeInvalid"
=============================================================================
