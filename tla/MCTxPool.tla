------------------------------ MODULE MCTxPool ------------------------------
(***************************************************************************)
(* A small chain for TxPool.                                               *)
(*                                                                         *)
(* Transactions 1 and 2 both spend coin "o1"; 3 spends coin "o2"; 4 spends *)
(* what 1 creates. Block "a1" confirms 1 and "b1" confirms 2. The engine   *)
(* prefers a1 to the genesis, b1 b2 to a1, and a1 a2 to b1 b2, so a        *)
(* transaction is confirmed, disconnected and confirmed again.             *)
(***************************************************************************)
EXTENDS TxPool, TLC

MCTx == 1 .. 4
MCOutpoint == {"o1", "o2", "p1"}
MCInputs == <<{"o1"}, {"o1"}, {"o2"}, {"p1"}>>
MCOutputs == <<{"p1"}, {}, {}, {}>>
MCCoins == {"o1", "o2"}

MCBlocks ==
    [g |-> <<>>, a |-> <<"a1">>, b |-> <<"b1", "b2">>, c |-> <<"a1", "a2">>]
MCTip == DOMAIN MCBlocks
MCBlock == {"a1", "a2", "b1", "b2"}
MCBody == [a1 |-> <<1>>, a2 |-> <<4>>, b1 |-> <<2>>, b2 |-> <<3>>]
MCRank == [g |-> 0, a |-> 1, b |-> 2, c |-> 3]

\* 1 and 2 have the same fee rate; 3 pays the highest fee at the lowest rate.
MCFee == <<2, 4, 5, 3>>
MCWeight == <<1, 2, 5, 1>>
MCSize == <<1, 2, 2, 1>>

\* Threads are alike.
Symmetry == Permutations(Thread)
=============================================================================
