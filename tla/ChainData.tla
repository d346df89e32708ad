------------------------------ MODULE ChainData ------------------------------
(***************************************************************************)
(* The blocks and transactions the node can meet, and the transaction      *)
(* index that CTxDB keeps for the blocks of the best chain.                *)
(*                                                                         *)
(* A block or a transaction is named by its hash, a model value; what the  *)
(* code reads from it is given by the functions below.  ConnectBlock and   *)
(* DisconnectBlock are the two methods of CBlock as functions of the       *)
(* transaction index.  The code walks the block's transactions one by one  *)
(* and keeps the changes in mapQueuedChanges; here the entry that          *)
(* transaction i finds is given directly by what the transactions before   *)
(* it did, so that no operator is recursive.                               *)
(***************************************************************************)
EXTENDS Integers, Sequences, FiniteSets, FiniteSetsExt, Functions

CONSTANTS
    Block,              \* block hashes, the genesis block included
    Genesis,            \* hashGenesisBlock
    Tx,                 \* transaction hashes
    Null,               \* no block, no transaction, no index entry
    hashPrevBlock,      \* [Block -> Block \cup {Null}]
    nHeight,            \* [Block -> Nat], CBlockIndex::nHeight
    bnChainWork,        \* [Block -> Nat], CBlockIndex::bnChainWork
    Branch,             \* [Block -> SUBSET Block], what following pprev visits
    vtx,                \* [Block -> Seq(Tx)]
    CoinBase,           \* the transactions whose single input is null
    vin,                \* [Tx -> SUBSET (Tx \X Nat)], the outpoints spent
    vout,               \* [Tx -> Seq(Nat)], the output values
    BadScript,          \* transactions an input of which fails VerifySignature
    Malformed,          \* blocks that CheckBlock rejects: size, work, merkle root
    COINBASE_MATURITY,
    MAX_MONEY,
    InitialSubsidy, SubsidyStep, FloorHeight, FloorSubsidy, \* GetBlockValue
    TotalBlocksEstimate \* height of the last checkpoint

\* A block index entry takes its height and its chain work from its parent's,
\* and the work of a block that passed CheckProofOfWork is positive.  Branch is
\* a constant with its recursive equation, not a recursive definition, so that
\* the proofs can unfold it.  CheckTransaction refuses a transaction without
\* inputs; the null input of a coinbase is not one.
ASSUME ChainDataAssumption ==
    /\ Genesis \in Block
    /\ Null \notin Block /\ Null \notin Tx
    /\ hashPrevBlock \in [Block -> Block \cup {Null}]
    /\ \A b \in Block : hashPrevBlock[b] = Null <=> b = Genesis
    /\ nHeight \in [Block -> Nat] /\ bnChainWork \in [Block -> Nat]
    /\ Branch \in [Block -> SUBSET Block]
    /\ nHeight[Genesis] = 0 /\ Branch[Genesis] = {Genesis}
    /\ \A b \in Block \ {Genesis} :
          /\ nHeight[b] = nHeight[hashPrevBlock[b]] + 1
          /\ bnChainWork[b] > bnChainWork[hashPrevBlock[b]]
          /\ Branch[b] = {b} \cup Branch[hashPrevBlock[b]]
    /\ vtx \in [Block -> Seq(Tx)]
    /\ CoinBase \subseteq Tx /\ BadScript \subseteq Tx \ CoinBase /\ Malformed \subseteq Block
    /\ vin \in [Tx -> SUBSET (Tx \X Nat)]
    /\ \A t \in Tx : vin[t] = {} <=> t \in CoinBase
    /\ vout \in [Tx -> Seq(Nat)]
    /\ COINBASE_MATURITY \in Nat /\ TotalBlocksEstimate \in Nat

-----------------------------------------------------------------------------
\* Blocks of b's branch whose coinbase is still immature in b.
ImmatureIn(b) == {a \in Branch[b] : nHeight[b] - nHeight[a] < COINBASE_MATURITY}

GetValueOut(t) == SumFunction(vout[t])
GetValueIn(t)  == MapThenSumSet(LAMBDA o : vout[o[1]][o[2]], vin[t])

\* What the coinbase of a block at height h may pay, given the block's fees.
GetBlockValue(h, nFees) ==
    (IF h < FloorHeight THEN InitialSubsidy - h * SubsidyStep ELSE FloorSubsidy)
      + nFees

MoneyRange(n) == n >= 0 /\ n <= MAX_MONEY

\* The transactions of b.
TxsOf(b) == {vtx[b][i] : i \in DOMAIN vtx[b]}

\* CBlock::CheckBlock: one coinbase, the first, and no transaction twice.
CheckBlock(b) ==
    /\ b \notin Malformed
    /\ vtx[b] # <<>>
    /\ \A i \in DOMAIN vtx[b] : vtx[b][i] \in CoinBase <=> i = 1
    /\ \A i, j \in DOMAIN vtx[b] : vtx[b][i] = vtx[b][j] => i = j

-----------------------------------------------------------------------------
(***************************************************************************)
(* The transaction index: a CTxIndex (the block the transaction is in and, *)
(* per output, the transaction that spends it) or Null for each hash.      *)
(***************************************************************************)
CTxIndex(t) == [pos : Block, vSpent : [1..Len(vout[t]) -> Tx \cup {Null}]]

IsTxIndex(txdb) == /\ DOMAIN txdb = Tx
                   /\ \A t \in Tx : txdb[t] \in CTxIndex(t) \cup {Null}

\* A missing entry is not an entry.
ASSUME NullAssumption == \A t \in Tx : Null \notin CTxIndex(t)

NewTxIndex(t, b) == [pos |-> b, vSpent |-> [n \in 1..Len(vout[t]) |-> Null]]

\* The transactions at positions lo..hi of b that spend output o.
Spenders(b, lo, hi, o) == {vtx[b][k] : k \in {j \in lo..hi : o \in vin[vtx[b][j]]}}

\* Entry e of p with the outputs marked that transactions lo..hi of b spend.
Marked(e, p, b, lo, hi) ==
    [pos    |-> e.pos,
     vSpent |-> [n \in DOMAIN e.vSpent |->
                   LET s == Spenders(b, lo, hi, <<p, n>>)
                   IN  IF s = {} THEN e.vSpent[n] ELSE CHOOSE t \in s : TRUE]]

\* The entry of p after the first i transactions of b are connected on top of
\* txdb: what FetchInputs finds in mapQueuedChanges or else in the database.
Fetch(txdb, b, i, p) ==
    IF \E k \in 1..i : vtx[b][k] = p
    THEN LET j == CHOOSE k \in 1..i : vtx[b][k] = p
         IN  Marked(NewTxIndex(p, b), p, b, j + 1, i)
    ELSE IF txdb[p] = Null THEN Null ELSE Marked(txdb[p], p, b, 1, i)

\* Mutant: mapQueuedChanges is not consulted.
ConnectInputsFromDisk(txdb, b, i, fCheckSig) ==
    LET t == vtx[b][i]
    IN  /\ \A o \in vin[t] : /\ txdb[o[1]] # Null
                             /\ o[2] \in DOMAIN txdb[o[1]].vSpent
                             /\ txdb[o[1]].vSpent[o[2]] = Null
        /\ GetValueIn(t) >= GetValueOut(t)

\* Mutant: a double spend is not noticed.
ConnectInputsUnspent(txdb, b, i, fCheckSig) ==
    LET t == vtx[b][i]
    IN  /\ \A o \in vin[t] : Fetch(txdb, b, i - 1, o[1]) # Null
        /\ GetValueIn(t) >= GetValueOut(t)

\* FetchInputs and ConnectInputs for transaction i of b; fCheckSig is false
\* below the last checkpoint.
ConnectInputs(txdb, b, i, fCheckSig) ==
    LET t == vtx[b][i]
    IN  /\ \A o \in vin[t] :
              LET txindex == Fetch(txdb, b, i - 1, o[1])
              IN  /\ txindex # Null
                  /\ o[2] \in DOMAIN txindex.vSpent
                  /\ o[1] \in CoinBase => txindex.pos \notin ImmatureIn(b)
                  /\ MoneyRange(vout[o[1]][o[2]])
                  /\ txindex.vSpent[o[2]] = Null
        /\ MoneyRange(GetValueIn(t))
        /\ fCheckSig => t \notin BadScript
        /\ GetValueIn(t) >= GetValueOut(t)

\* BIP30: an indexed transaction may be overwritten only once it is fully spent.
Overwrites(txdb, t) ==
    /\ txdb[t] # Null
    /\ \E n \in DOMAIN txdb[t].vSpent : txdb[t].vSpent[n] = Null

Fees(b) == MapThenSumSet(LAMBDA t : GetValueIn(t) - GetValueOut(t), TxsOf(b) \ CoinBase)

\* CBlock::ConnectBlock: whether b connects on top of txdb ...
ConnectBlockOK(txdb, b, fCheckSig) ==
    /\ CheckBlock(b)
    /\ \A i \in DOMAIN vtx[b] :
          /\ ~Overwrites(txdb, vtx[b][i])
          /\ vtx[b][i] \notin CoinBase => ConnectInputs(txdb, b, i, fCheckSig)
    /\ GetValueOut(vtx[b][1]) <= GetBlockValue(nHeight[b], Fees(b))

\* ... and the index after it.
ConnectBlock(txdb, b) == [p \in Tx |-> Fetch(txdb, b, Len(vtx[b]), p)]

\* Mutant: DisconnectBlock undoes the transactions first to last.
DisconnectForwardOK(txdb, b) ==
    \A i \in DOMAIN vtx[b] : \A o \in vin[vtx[b][i]] :
        /\ txdb[o[1]] # Null
        /\ o[2] \in DOMAIN txdb[o[1]].vSpent
        /\ \A k \in 1 .. i - 1 : vtx[b][k] # o[1]

\* CBlock::DisconnectBlock undoes the transactions last first: an input's entry
\* must still be there when its spender is undone.
DisconnectBlockOK(txdb, b) ==
    \A i \in DOMAIN vtx[b] : \A o \in vin[vtx[b][i]] :
        /\ txdb[o[1]] # Null
        /\ o[2] \in DOMAIN txdb[o[1]].vSpent
        /\ \A k \in i + 1 .. Len(vtx[b]) : vtx[b][k] # o[1]

\* Mutant: the spent marks of the inputs stay.
DisconnectKeepingMarks(txdb, b) == [p \in Tx |-> IF p \in TxsOf(b) THEN Null ELSE txdb[p]]

\* DisconnectInputs clears the spent marks of the inputs and erases the entry.
DisconnectBlock(txdb, b) ==
    [p \in Tx |->
        IF p \in TxsOf(b) \/ txdb[p] = Null THEN Null
        ELSE [pos    |-> txdb[p].pos,
              vSpent |-> [n \in DOMAIN txdb[p].vSpent |->
                            IF Spenders(b, 1, Len(vtx[b]), <<p, n>>) = {}
                            THEN txdb[p].vSpent[n] ELSE Null]]]
=============================================================================
