--------------------------- MODULE HeaderSchedule ---------------------------
(* The rules on a header's time and target, as the node applies them on     *)
(* every path a block can take: straight onto the tip, onto a side branch,  *)
(* in the dry run of a reorganisation, in a replay after a restart and in   *)
(* the miner's template.  The target is derived from headers read by hash,  *)
(* the median time from the canonical index and a window slid along the     *)
(* side branch.  A header is named by its place in the store's history; its *)
(* hash matters only for the fork choice's tie, through HashRank.           *)
EXTENDS Checks, FiniteSets, TLC

CONSTANTS
  WINDOW_SIZE,                   \* headers between two retargets
  TARGET_BLOCK_INTERVAL,         \* seconds a block should take
  MAX_TIMESTAMP_STEP_PER_BLOCK,  \* clamp of one block's time in a retarget
  MAX_FUTURE_DRIFT,              \* how far past the median a time may be
  MTP_WINDOW,                    \* timestamps in the median (11 in the code)
  POW_LIMIT,                     \* the easiest target; hashes are below 1 + it
  GenesisTarget,
  HashRank,                      \* order of the headers' hashes
  Offsets,                       \* times offered, from the median
  Clocks,                        \* readings of the miner's clock
  MaxHeaders, MaxForks           \* bounds on the store's history

VARIABLES
  headers,    \* every stored header: its parent, height, time and target
  canonical   \* canonical[i] is the header of height i - 1

vars == <<headers, canonical>>

NoParent == 0
Genesis == 1
Stored == 1..Len(headers)
Tip == canonical[Len(canonical)]
OnCanonical(h) == h \in {canonical[i] : i \in DOMAIN canonical}
Least(a, b) == IF a < b THEN a ELSE b
Greatest(a, b) == IF a > b THEN a ELSE b

-----------------------------------------------------------------------------
(* Median time past. *)

Newest(s, n) == SubSeq(s, 1, Least(n, Len(s)))

\* The median of the last timestamps, newest first; none at the genesis.
median_time_past(height, prev) ==
  LET k == Least(height, MTP_WINDOW)
      window == SortSeq(SubSeq(prev, 1, k), <)
  IN  window[((k - 1) \div 2) + 1]

validate_timestamp_rules(timestamp, height, prev) ==
  LET median == median_time_past(height, prev)
  IN  Check(timestamp > median, "TimestampOld")
        ?? Check(timestamp <= median + MAX_FUTURE_DRIFT, "TimestampFuture")

\* The window below a height, read from the canonical index.
prev_timestamps_for_height(next_height) ==
  [i \in 1..Least(next_height, MTP_WINDOW) |-> headers[canonical[next_height + 1 - i]].timestamp]

advance_prev_timestamps(prev, new_ts) == <<new_ts>> \o Newest(prev, MTP_WINDOW - 1)

\* The headers from the fork point, exclusive, up to h.
collect_branch_to_canonical(h) ==
  LET up[x \in Stored] == IF OnCanonical(x) THEN <<>> ELSE Append(up[headers[x].parent], x)
  IN  up[h]

AncestorHeight(branch, parent) ==
  IF branch = <<>> THEN headers[parent].height ELSE headers[branch[1]].height - 1

\* The window a block on top of h is judged by: the canonical one at the
\* fork point, slid over the branch's stored headers.
side_branch_prev_timestamps(h) ==
  LET branch == collect_branch_to_canonical(h)
      slide[n \in 0..Len(branch)] ==
        IF n = 0 THEN prev_timestamps_for_height(AncestorHeight(branch, h) + 1)
                 ELSE advance_prev_timestamps(slide[n - 1], headers[branch[n]].timestamp)
  IN  slide[Len(branch)]

-----------------------------------------------------------------------------
(* Targets. *)

\* Each timestamp of the window, kept between one and the largest step
\* after the one before it.
ClampedTimes(timestamps) ==
  LET clamp[n \in 1..Len(timestamps)] ==
        IF n = 1 THEN timestamps[1]
        ELSE Greatest(clamp[n - 1] + 1,
                      Least(timestamps[n], clamp[n - 1] + MAX_TIMESTAMP_STEP_PER_BLOCK))
  IN  clamp

retarget_v1_with_actual(target_old, t_actual) ==
  LET t_expected == TARGET_BLOCK_INTERVAL * WINDOW_SIZE
      lower == Greatest(target_old \div 4, 1)
      upper == Least(4 * target_old, POW_LIMIT)
  IN  Greatest(lower, Least((target_old * t_actual) \div t_expected, upper))

retarget_v1_clamped(target_old, timestamps) ==
  LET clamped == ClampedTimes(timestamps)
      t_actual == Greatest(clamped[WINDOW_SIZE] - clamped[1], 1)
  IN  retarget_v1_with_actual(target_old, t_actual)

ScheduleError(why) == [error |-> why, target |-> 0]
Target(t) == [error |-> Ok, target |-> t]

\* The headers read from parent backwards, newest first, as far as the
\* window asks; the walk stops early only at the genesis.
AncestorsRead(parent, window) ==
  LET walk[n \in 1..window] ==
        IF n = 1 THEN <<parent>>
        ELSE LET s == walk[n - 1]
                 up == headers[s[Len(s)]].parent
             IN  IF Len(s) < n - 1 \/ up = NoParent THEN s ELSE Append(s, up)
  IN  walk[window]

expected_target_for_candidate(parent, candidate_height) ==
  LET boundary == candidate_height % WINDOW_SIZE = 0
      window == IF boundary THEN WINDOW_SIZE ELSE 1
      read == AncestorsRead(parent, window)
  IN  CASE candidate_height = 0 -> ScheduleError("HeightInvalid")
        [] parent \notin Stored -> ScheduleError("ParentUnknown")
        [] Len(read) < window -> ScheduleError("HistoryMissing")
        [] ~boundary -> Target(headers[parent].target)
        [] OTHER -> Target(retarget_v1_clamped(headers[parent].target,
                      [i \in 1..window |-> headers[read[window + 1 - i]].timestamp]))

\* The replay after a restart takes the parent from the canonical index.
replay_expected_target(height) ==
  IF height = 0 THEN Target(GenesisTarget)
  ELSE expected_target_for_candidate(canonical[height], height)

-----------------------------------------------------------------------------
(* Fork choice. *)

work_from_target(target) == (POW_LIMIT + 1) \div target

chain_work(h) ==
  LET w[x \in 0..h] ==
        IF x = NoParent THEN 0 ELSE work_from_target(headers[x].target) + w[headers[x].parent]
  IN  w[h]

\* Mutant: the longer branch wins, whatever its work.
should_switch_to_branch_Longest(parent, target, new) == headers[parent].height + 1 > headers[Tip].height

\* Is the branch that ends in one more header worth switching to?
should_switch_to_branch(parent, target, new) ==
  LET candidate == chain_work(parent) + work_from_target(target)
      current == chain_work(Tip)
  IN  \/ candidate > current
      \/ candidate = current /\ HashRank[new] < HashRank[Tip]

-----------------------------------------------------------------------------
(* The miner's template. *)

mtp_median(next_height, prev) ==
  LET k == Least(Least(next_height, MTP_WINDOW), Len(prev))
      window == SortSeq(SubSeq(prev, 1, k), <)
  IN  IF k = 0 THEN 0 ELSE window[((k - 1) \div 2) + 1]

choose_valid_timestamp(next_height, prev, now) ==
  LET median == mtp_median(next_height, prev)
  IN  IF now > median /\ now <= median + MAX_FUTURE_DRIFT THEN now ELSE median + 1

-----------------------------------------------------------------------------
Init ==
  /\ headers = <<[parent |-> NoParent, height |-> 0, timestamp |-> 0, target |-> GenesisTarget]>>
  /\ canonical = <<Genesis>>

NextHeight(parent) == headers[parent].height + 1

Judged(parent, timestamp, target) ==
  LET expected == expected_target_for_candidate(parent, NextHeight(parent))
  IN  expected.error
        ?? Check(target = expected.target, "TargetInvalid")
        ?? validate_timestamp_rules(timestamp, NextHeight(parent),
                                    side_branch_prev_timestamps(parent))

Store(parent, timestamp, target) ==
  headers' = Append(headers, [parent |-> parent, height |-> NextHeight(parent),
                              timestamp |-> timestamp, target |-> target])

\* The block extends the tip: its window is the canonical one.
apply_direct_if_possible(timestamp, target) ==
  /\ Len(headers) < MaxHeaders
  /\ Judged(Tip, timestamp, target) = Ok
  /\ Store(Tip, timestamp, target)
  /\ canonical' = Append(canonical, Len(headers) + 1)

\* Headers stored off the canonical chain.
Forks == {h \in Stored : ~OnCanonical(h)}

\* The block is on a side branch: stored, and the branch preferred or not.
ApplySideBlock(parent, timestamp, target) ==
  LET new == Len(headers) + 1
      branch == Append(collect_branch_to_canonical(parent), new)
      fork == AncestorHeight(collect_branch_to_canonical(parent), parent)
  IN  /\ parent # Tip
      /\ Len(headers) < MaxHeaders
      /\ Cardinality(Forks) < MaxForks
      /\ Judged(parent, timestamp, target) = Ok
      /\ Store(parent, timestamp, target)
      /\ canonical' = IF should_switch_to_branch(parent, target, new)
                      THEN SubSeq(canonical, 1, fork + 1) \o branch ELSE canonical

OfferedTimes(parent) ==
  LET median == median_time_past(NextHeight(parent), side_branch_prev_timestamps(parent))
  IN  {Greatest(0, median + d) : d \in Offsets}

OfferedTargets(parent) ==
  {headers[parent].target, expected_target_for_candidate(parent, NextHeight(parent)).target}

Next ==
  \/ \E t \in OfferedTimes(Tip), g \in OfferedTargets(Tip) : apply_direct_if_possible(t, g)
  \/ \E p \in Stored : \E t \in OfferedTimes(p), g \in OfferedTargets(p) : ApplySideBlock(p, t, g)

Spec == Init /\ [][Next]_vars

-----------------------------------------------------------------------------
(* Properties. *)

\* Every stored header has a parent one lower, and the canonical index
\* lists a chain from the genesis.
TypeOK ==
  /\ \A h \in Stored \ {Genesis} :
       /\ headers[h].parent \in 1..(h - 1)
       /\ headers[h].height = headers[headers[h].parent].height + 1
       /\ headers[h].target \in 1..POW_LIMIT
  /\ canonical[1] = Genesis
  /\ \A i \in 2..Len(canonical) : headers[canonical[i]].parent = canonical[i - 1]

\* The times of the last MTP_WINDOW headers ending in h, along its parents.
AncestryWindow(h) ==
  LET read == AncestorsRead(h, MTP_WINDOW)
  IN  [i \in DOMAIN read |-> headers[read[i]].timestamp]

MedianAt(h) == median_time_past(NextHeight(h), AncestryWindow(h))

\* The window slid along a branch from the canonical index at the fork is
\* the window of the block's own ancestors, whatever the fork and however
\* many reorganisations came before (side_branch_prev_timestamps,
\* prepare_preferred_branch).
SlidWindowIsAncestry ==
  \A h \in Stored : side_branch_prev_timestamps(h) = AncestryWindow(h)

\* The median time past never decreases along any stored chain, so a
\* timestamp lock that has opened stays open for every descendant
\* (validate_timestamp_rules, median_time_past).
MedianNeverGoesBack ==
  \A h \in Stored \ {Genesis} : MedianAt(headers[h].parent) <= MedianAt(h)

\* The next target can be derived on top of every stored header: the walk
\* never runs out of ancestors at a retarget, and the result is a target
\* that proof of work accepts, at most four times harder or easier, and the
\* parent's own away from a retarget (expected_target_for_candidate).
ScheduleIsDefined ==
  \A h \in Stored :
    LET next == expected_target_for_candidate(h, NextHeight(h))
        old == headers[h].target
    IN  /\ next.error = Ok
        /\ next.target \in 1..POW_LIMIT
        /\ 4 * next.target + 3 >= old /\ next.target <= 4 * old
        /\ NextHeight(h) % WINDOW_SIZE # 0 => next.target = old

\* The canonical tip is the best of all the stored headers: no other chain
\* has more work, or as much work and a smaller hash, even across retargets
\* where the longest chain is not the heaviest (should_switch_to_branch).
TipIsHeaviest ==
  \A h \in Stored \ {Tip} :
    \/ chain_work(h) < chain_work(Tip)
    \/ chain_work(h) = chain_work(Tip) /\ HashRank[Tip] < HashRank[h]

\* Whatever the clock says, the miner's timestamp passes the rules the
\* node then applies to its block (choose_valid_timestamp).
MinedIsAccepted ==
  \A now \in Clocks :
    LET prev == prev_timestamps_for_height(NextHeight(Tip))
    IN  validate_timestamp_rules(choose_valid_timestamp(NextHeight(Tip), prev, now),
                                 NextHeight(Tip), prev) = Ok

\* A replay after a restart derives for every canonical block the target
\* it was accepted with (replay_expected_target).
ReplayAgrees ==
  \A i \in DOMAIN canonical : replay_expected_target(i - 1) = Target(headers[canonical[i]].target)
=============================================================================
