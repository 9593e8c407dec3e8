---------------------------- MODULE MCSyncEngine ----------------------------
(***************************************************************************)
(* Instances of SyncEngine for TLC.  Two branches of the genesis g:        *)
(*   g - a1 - a2 - a3                                                      *)
(*   g - b1 - b2 - b3   b2 wins a tie against a2, a3 one against b3        *)
(*   a1 - m             fails the basic validation                         *)
(*   b1 - x             fails connect_block only                           *)
(***************************************************************************)
EXTENDS SyncEngine

CONSTANTS g, a1, a2, a3, b1, b2, b3, m, x

MCBlock == {g, a1, a2, a3, b1, b2, b3, m, x}

MCChain ==
    [b \in MCBlock |->
        CASE b = g -> <<g>>
          [] b = a1 -> <<g, a1>>
          [] b = a2 -> <<g, a1, a2>>
          [] b = a3 -> <<g, a1, a2, a3>>
          [] b = b1 -> <<g, b1>>
          [] b = b2 -> <<g, b1, b2>>
          [] b = b3 -> <<g, b1, b2, b3>>
          [] b = m -> <<g, a1, m>>
          [] b = x -> <<g, b1, x>>]

\* Every block carries the same work.
MCWork == [b \in MCBlock |-> Len(MCChain[b])]

\* Ties are won by a1 against b1, by b2 against a2 and by a3 against b3.
MCHashRank ==
    [b \in MCBlock |->
        CASE b = g -> 0 [] b = a1 -> 1 [] b = b2 -> 2 [] b = a2 -> 3
          [] b = b1 -> 4 [] b = a3 -> 5 [] b = b3 -> 8 [] b = m -> 6 [] b = x -> 7]

MCInvalid == {m, x}

MCMalformed == {m}

\* Snapshots are written at a1 and b3 by size, at even heights by interval, and
\* skipped at b1 and a3.
MCSmallUtxo == {a1, b3}
=============================================================================
