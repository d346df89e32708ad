---------------------------- MODULE MCBlockChain ----------------------------
(***************************************************************************)
(* Block trees for BlockChain.  Each configuration takes some of the       *)
(* blocks below; a name gives the branch and the height.                   *)
(*                                                                         *)
(*   g - c1 - c2 - a3 - a4           a3 spends output 1 of c1's coinbase    *)
(*             |                     with t1, a4 that of c2 with t6        *)
(*             | - b3 - b4 - b5      b3 spends it with t2, and t2 with t3   *)
(*             |    \- x4 - x5       x4 is invalid: it spends it again      *)
(*             | - d3 - d4           d3 has a3's t1 too                     *)
(*             |    \- y4           y4 is invalid: t2 is a double spend    *)
(*             \ - e3 - e4           e3 spends c1's coinbase, e4 repeats it *)
(*                                                                         *)
(* Every block has work 1, so work is height plus 1.                       *)
(***************************************************************************)
EXTENDS BlockChain

Tree == [g  |-> Null, c1 |-> "g",  c2 |-> "c1", a3 |-> "c2", a4 |-> "a3", b3 |-> "c2",
         b4 |-> "b3", b5 |-> "b4", x4 |-> "b3", x5 |-> "x4", d3 |-> "c2", y4 |-> "d3",
         d4 |-> "d3", e3 |-> "c2", e4 |-> "e3"]

Txs == [g  |-> <<"kg">>,        c1 |-> <<"k1">>,        c2 |-> <<"k2">>,
        a3 |-> <<"ka3", "t1">>, a4 |-> <<"ka4", "t6">>, b3 |-> <<"kb3", "t2", "t3">>,
        b4 |-> <<"kb4">>,       b5 |-> <<"kb5", "t4">>, x4 |-> <<"kx4", "t1">>,
        x5 |-> <<"kx5">>,       d3 |-> <<"kd3", "t1">>, y4 |-> <<"ky4", "t2">>,
        d4 |-> <<"kd4">>,       e3 |-> <<"ke3", "t5">>, e4 |-> <<"k1">>]

Inputs == [t1 |-> {<<"k1", 1>>}, t2 |-> {<<"k1", 1>>}, t3 |-> {<<"t2", 1>>},
           t4 |-> {<<"k1", 2>>, <<"t3", 1>>}, t5 |-> {<<"k1", 1>>, <<"k1", 2>>},
           t6 |-> {<<"k2", 1>>}]

\* Coinbases that are not listed pay the floor subsidy; t3 leaves a fee of 1.
Outputs == [k1 |-> <<1, 1>>, kb3 |-> <<2>>, t3 |-> <<0>>, t5 |-> <<1, 1>>]

MCTx       == UNION {{Txs[b][i] : i \in DOMAIN Txs[b]} : b \in Block}
MCCoinBase == MCTx \ DOMAIN Inputs
MCPrev     == [b \in Block |-> Tree[b]]
MCVtx      == [b \in Block |-> Txs[b]]
MCVin      == [t \in MCTx |-> IF t \in DOMAIN Inputs THEN Inputs[t] ELSE {}]
MCVout     == [t \in MCTx |-> IF t \in DOMAIN Outputs THEN Outputs[t] ELSE <<1>>]
MCHeight[b \in Block] == IF b = "g" THEN 0 ELSE MCHeight[Tree[b]] + 1
MCBranch[b \in Block] == {b} \cup (IF b = "g" THEN {} ELSE MCBranch[Tree[b]])
MCWork     == [b \in Block |-> MCHeight[b] + 1]
=============================================================================
