------------------------------- MODULE Ledger -------------------------------
(***************************************************************************)
(* What the block database promises: a tip and the transaction index of    *)
(* its branch, which change together, only to a branch that obeys every    *)
(* rule, and only to one with more work.  Crashes do not appear here: to   *)
(* this specification they are stuttering steps.                           *)
(*                                                                         *)
(* The rules are stated over the whole branch at once, as the reference    *)
(* the incremental ConnectBlock and DisconnectBlock are compared with.     *)
(* The rules that look at one transaction or one block only are parameters *)
(* and are those of ChainData.                                             *)
(***************************************************************************)
EXTENDS Integers, Sequences

CONSTANTS
    Block, Genesis, Tx, Null, nHeight, bnChainWork, Branch, vtx, CoinBase, vin, vout,
    BadScript, COINBASE_MATURITY, TotalBlocksEstimate,
    CheckBlock(_), GetValueIn(_), GetValueOut(_), GetBlockValue(_, _), Fees(_), MoneyRange(_)

VARIABLES tip, index

\* The places in b's branch where a transaction occurs; genesis is never connected.
Occurrences(b) == UNION {{<<c, i>> : i \in DOMAIN vtx[c]} : c \in Branch[b] \ {Genesis}}

TxAt(x) == vtx[x[1]][x[2]]

\* Occurrence x comes before occurrence y in their branch.
Before(x, y) == \/ nHeight[x[1]] < nHeight[y[1]]
                \/ x[1] = y[1] /\ x[2] < y[2]

\* Every rule that a transaction at y must obey in the branch of b.  Scripts
\* are only vouched for above the last checkpoint.
SpendsProperly(b, y) ==
    LET t == TxAt(y)
    IN  /\ \A o \in vin[t] :
              /\ \E x \in Occurrences(b) :
                    /\ TxAt(x) = o[1] /\ Before(x, y)
                    /\ o[1] \in CoinBase
                         => nHeight[y[1]] - nHeight[x[1]] >= COINBASE_MATURITY
              /\ o[2] \in DOMAIN vout[o[1]] /\ MoneyRange(vout[o[1]][o[2]])
              /\ \A z \in Occurrences(b) : o \in vin[TxAt(z)] => z = y
        /\ t \notin CoinBase => /\ GetValueOut(t) <= GetValueIn(t)
                              /\ MoneyRange(GetValueIn(t))
        /\ nHeight[y[1]] > TotalBlocksEstimate => t \notin BadScript

\* A branch without a double spend, an unknown input, an early coinbase spend,
\* a transaction that occurs twice or a coinbase that pays too much.
ValidBranch(b) ==
    /\ \A c \in Branch[b] \ {Genesis} :
          /\ CheckBlock(c)
          /\ GetValueOut(vtx[c][1]) <= GetBlockValue(nHeight[c], Fees(c))
    /\ \A x, y \in Occurrences(b) : TxAt(x) = TxAt(y) => x = y
    /\ \A y \in Occurrences(b) : SpendsProperly(b, y)

\* The index of a branch: where each transaction is and what spends it.
IndexOf(b) ==
    [t \in Tx |->
        LET at == {x \in Occurrences(b) : TxAt(x) = t}
        IN  IF at = {} THEN Null
            ELSE [pos    |-> (CHOOSE x \in at : TRUE)[1],
                  vSpent |-> [n \in 1..Len(vout[t]) |->
                    LET s == {u \in {TxAt(x) : x \in Occurrences(b)} : <<t, n>> \in vin[u]}
                    IN  IF s = {} THEN Null ELSE CHOOSE u \in s : TRUE]]]

Init == tip = Genesis /\ index = IndexOf(Genesis)

Switch(b) ==
    /\ bnChainWork[b] > bnChainWork[tip]
    /\ ValidBranch(b)
    /\ tip' = b
    /\ index' = IndexOf(b)

Next == \E b \in Block : Switch(b)

Spec == Init /\ [][Next]_<<tip, index>>
=============================================================================
