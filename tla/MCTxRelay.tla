----------------------------- MODULE MCTxRelay ------------------------------
(***************************************************************************)
(* A line of transactions over one output of the chain:                    *)
(*   b -> t1 -> t2 -> t3 -> t4     t4 spends from t2 as well, and is bad   *)
(* No peer sends t1, which only a block brings, so that the three others   *)
(* may all be orphans.  One peer has only t2, the other everything.        *)
(***************************************************************************)
EXTENDS TxRelay

CONSTANTS p1, p2

Inputs == [t1 |-> {<<"b", 1>>}, t2 |-> {<<"t1", 1>>}, t3 |-> {<<"t2", 1>>},
           t4 |-> {<<"t2", 2>>, <<"t3", 1>>}]
MCVin == [t \in Tx |-> Inputs[t]]
MCHas == [p \in Peer |-> IF p = p2 THEN Tx \ {"t1"} ELSE {"t2"}]
=============================================================================
