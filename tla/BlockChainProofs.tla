-------------------------- MODULE BlockChainProofs --------------------------
(***************************************************************************)
(* Theorems about BlockChain, for every tree of blocks, every set of       *)
(* transactions and any number of crashes.                                 *)
(***************************************************************************)
EXTENDS BlockChain, WellFoundedInduction, SequenceTheorems, TLAPS

-----------------------------------------------------------------------------
(* The block tree and the transaction index of ChainData. *)

\* Every block but genesis has a parent, one lower and with less work, and its
\* branch is its parent's and itself.
LEMMA TreeFacts ==
    ASSUME NEW b \in Block, b # Genesis
    PROVE  /\ hashPrevBlock[b] \in Block
           /\ nHeight[hashPrevBlock[b]] < nHeight[b]
           /\ bnChainWork[hashPrevBlock[b]] < bnChainWork[b]
           /\ Branch[b] = {b} \cup Branch[hashPrevBlock[b]]
<1>1. hashPrevBlock[b] \in Block
  BY ChainDataAssumption
<1>2. nHeight[b] = nHeight[hashPrevBlock[b]] + 1 /\ nHeight[hashPrevBlock[b]] \in Nat
  BY <1>1, ChainDataAssumption
<1> QED
  BY <1>1, <1>2, ChainDataAssumption

\* The pairs of blocks <<a, b>> with a lower than b.
Lower == {p \in Block \X Block : nHeight[p[1]] < nHeight[p[2]]}

\* Heights are natural numbers, so no branch descends for ever: the order the
\* code relies on whenever it follows pprev until it meets a null pointer.
LEMMA LowerIsWellFounded == IsWellFoundedOn(Lower, Block)
<1>1. SUFFICES ASSUME NEW f \in [Nat -> Block],
                      \A n \in Nat : <<f[n + 1], f[n]>> \in Lower
               PROVE  FALSE
  BY DEF IsWellFoundedOn
<1> DEFINE g == [n \in Nat |-> nHeight[f[n]]]
<1>2. g \in [Nat -> Nat]
  BY ChainDataAssumption
<1>3. \A n \in Nat : <<g[n + 1], g[n]>> \in OpToRel(<, Nat)
  <2>1. TAKE n \in Nat
  <2>2. g[n] \in Nat /\ g[n + 1] \in Nat
    BY <1>2
  <2>3. nHeight[f[n + 1]] < nHeight[f[n]]
    BY <1>1 DEF Lower
  <2>4. g[n + 1] < g[n]
    BY <2>3
  <2> QED
    BY <2>2, <2>4 DEF OpToRel
<1> QED
  BY <1>2, <1>3, NatLessThanWellFounded DEF IsWellFoundedOn

\* The blocks that pprev leads to have at most the work of the block it starts
\* from, so the intermediate block of SetBestChain is never ahead of the new one.
LEMMA BranchWork ==
    ASSUME NEW b \in Block, NEW c \in Branch[b]
    PROVE  c \in Block /\ bnChainWork[c] <= bnChainWork[b]
<1> DEFINE T == {x \in Block : \E y \in Branch[x] : ~(bnChainWork[y] <= bnChainWork[x])}
<1>1. c \in Block
  BY ChainDataAssumption
<1>2. T = {}
  <2>1. SUFFICES ASSUME T # {} PROVE FALSE
    OBVIOUS
  <2>2. PICK x \in T : \A y \in T : <<y, x>> \notin Lower
    BY <2>1, LowerIsWellFounded, WFMin
  <2>3. x # Genesis
    BY ChainDataAssumption
  <2> DEFINE p == hashPrevBlock[x]
  <2>4. /\ p \in Block /\ nHeight[p] < nHeight[x] /\ bnChainWork[p] < bnChainWork[x]
        /\ Branch[x] = {x} \cup Branch[p]
    BY <2>3, TreeFacts
  <2>5. p \notin T
    BY <2>2, <2>4 DEF Lower
  <2>6. ASSUME NEW y \in Branch[x] PROVE bnChainWork[y] <= bnChainWork[x]
    <3>1. bnChainWork[x] \in Nat /\ bnChainWork[p] \in Nat
      BY <2>4, ChainDataAssumption
    <3>2. CASE y = x
      BY <3>1, <3>2
    <3>3. CASE y \in Branch[p]
      <4>1. y \in Block /\ bnChainWork[y] \in Nat
        BY <2>4, <3>3, ChainDataAssumption
      <4>2. bnChainWork[y] <= bnChainWork[p]
        BY <2>4, <2>5, <3>3
      <4> QED
        BY <2>4, <3>1, <4>1, <4>2
    <3> QED
      BY <2>4, <3>2, <3>3
  <2> QED
    BY <2>2, <2>6
<1> QED
  BY <1>1, <1>2

-----------------------------------------------------------------------------
\* The transactions of a block are transactions.
LEMMA TxsOfType == ASSUME NEW b \in Block PROVE TxsOf(b) \subseteq Tx
<1>1. vtx[b] \in Seq(Tx)
  BY ChainDataAssumption
<1>2. \A i \in DOMAIN vtx[b] : vtx[b][i] \in Tx
  BY <1>1, ElementOfSeq, LenProperties
<1> QED
  BY <1>2 DEF TxsOf

\* Marking outputs as spent keeps an entry well formed.
LEMMA MarkedType ==
    ASSUME NEW b \in Block, NEW p \in Tx, NEW e \in CTxIndex(p),
           NEW lo \in Nat, lo >= 1, NEW hi \in 0..Len(vtx[b])
    PROVE  Marked(e, p, b, lo, hi) \in CTxIndex(p)
<1>1. vtx[b] \in Seq(Tx)
  BY ChainDataAssumption
<1>2. Len(vtx[b]) \in Nat /\ \A k \in lo..hi : vtx[b][k] \in Tx
  BY <1>1, ElementOfSeq, LenProperties
<1>3. \A n : Spenders(b, lo, hi, <<p, n>>) \subseteq Tx
  BY <1>2 DEF Spenders
<1> DEFINE mark(n) == LET s == Spenders(b, lo, hi, <<p, n>>)
                      IN  IF s = {} THEN e.vSpent[n] ELSE CHOOSE t \in s : TRUE
<1>4. /\ e.pos \in Block /\ DOMAIN e.vSpent = 1..Len(vout[p])
      /\ \A n \in 1..Len(vout[p]) : e.vSpent[n] \in Tx \cup {Null}
  BY DEF CTxIndex
<1>5. \A n \in 1..Len(vout[p]) : mark(n) \in Tx \cup {Null}
  BY <1>3, <1>4
<1>6. Marked(e, p, b, lo, hi) = [pos |-> e.pos, vSpent |-> [n \in DOMAIN e.vSpent |-> mark(n)]]
  BY DEF Marked
<1>7. [n \in DOMAIN e.vSpent |-> mark(n)] \in [1..Len(vout[p]) -> Tx \cup {Null}]
  BY <1>4, <1>5
<1> HIDE DEF mark
<1> QED
  BY <1>4, <1>6, <1>7 DEF CTxIndex

\* The entry FetchInputs finds is Null or a well-formed CTxIndex of the
\* transaction it is asked for: one spent mark per output.
LEMMA FetchType ==
    ASSUME NEW txdb, IsTxIndex(txdb), NEW b \in Block, NEW i \in 0..Len(vtx[b]), NEW p \in Tx
    PROVE  Fetch(txdb, b, i, p) \in CTxIndex(p) \cup {Null}
<1>1. CASE \E k \in 1..i : vtx[b][k] = p
  <2> DEFINE j == CHOOSE k \in 1..i : vtx[b][k] = p
  <2>1. j \in 1..i /\ Fetch(txdb, b, i, p) = Marked(NewTxIndex(p, b), p, b, j + 1, i)
    BY <1>1 DEF Fetch
  <2>2. j + 1 \in Nat /\ j + 1 >= 1
    BY <2>1
  <2>3. NewTxIndex(p, b) \in CTxIndex(p)
    BY DEF NewTxIndex, CTxIndex
  <2> QED
    BY <2>1, <2>2, <2>3, MarkedType
<1>2. CASE ~\E k \in 1..i : vtx[b][k] = p
  <2>1. txdb[p] \in CTxIndex(p) \cup {Null}
    BY DEF IsTxIndex
  <2>2. Fetch(txdb, b, i, p) = IF txdb[p] = Null THEN Null ELSE Marked(txdb[p], p, b, 1, i)
    BY <1>2 DEF Fetch
  <2> QED
    BY <2>1, <2>2, MarkedType
<1> QED
  BY <1>1, <1>2

\* ConnectBlock leaves a well-formed index.
LEMMA ConnectBlockType ==
    ASSUME NEW txdb, IsTxIndex(txdb), NEW b \in Block
    PROVE  IsTxIndex(ConnectBlock(txdb, b))
<1>1. Len(vtx[b]) \in 0..Len(vtx[b])
  BY ChainDataAssumption, LenProperties
<1> QED
  BY <1>1, FetchType DEF ConnectBlock, IsTxIndex

\* DisconnectBlock leaves a well-formed index.
LEMMA DisconnectBlockType ==
    ASSUME NEW txdb, IsTxIndex(txdb), NEW b \in Block
    PROVE  IsTxIndex(DisconnectBlock(txdb, b))
<1> DEFINE undone(p, n) == IF Spenders(b, 1, Len(vtx[b]), <<p, n>>) = {}
                           THEN txdb[p].vSpent[n] ELSE Null
<1>1. ASSUME NEW p \in Tx, txdb[p] # Null
      PROVE  [pos |-> txdb[p].pos, vSpent |-> [n \in DOMAIN txdb[p].vSpent |-> undone(p, n)]]
               \in CTxIndex(p)
  BY <1>1 DEF IsTxIndex, CTxIndex
<1> QED
  BY <1>1 DEF DisconnectBlock, IsTxIndex

-----------------------------------------------------------------------------

USE DEF diskVars, walletVars, txnVars, poolVars, keptVars, callVars, jobVars

-----------------------------------------------------------------------------
(***************************************************************************)
(* Type correctness.                                                       *)
(***************************************************************************)
LEMMA TypeInit == Init => TypeOK
<1> SUFFICES ASSUME Init PROVE TypeOK
  OBVIOUS
<1>1. DiskType
  BY ChainDataAssumption DEF Init, DiskType, IsTxIndex
<1>2. WalletType
  BY DEF Init, WalletType
<1>3. MemoryType
  BY BlockChainAssumption, ChainDataAssumption DEF Init, MemoryType
<1>4. PoolType
  BY DEF Init, PoolType
<1>5. LocalType
  BY ChainDataAssumption, EmptySeq DEF Init, LocalType
<1> QED
  BY <1>1, <1>2, <1>3, <1>4, <1>5 DEF TypeOK

\* A block that AcceptBlock takes is appended to the queue or made the new one.
LEMMA AcceptBlockType ==
    ASSUME TypeOK, NEW b \in Block, AcceptBlock(b)
    PROVE  /\ diskIndex' \subseteq Block /\ mapBlockIndex' \subseteq Block
           /\ pc' \in {"setbest", "orphans"} /\ pindexNew' \in Block
           /\ vWorkQueue' \in Seq(Block) /\ (pc' = "orphans" => vWorkQueue' # <<>>)
<1>1. Append(vWorkQueue, b) \in Seq(Block) /\ Append(vWorkQueue, b) # <<>>
  BY AppendProperties DEF TypeOK, LocalType
<1> QED
  BY <1>1 DEF AcceptBlock, AddToBlockIndex, TypeOK, DiskType, MemoryType, LocalType

LEMMA ReorganizeFailedType ==
    ASSUME TypeOK, ReorganizeFailed
    PROVE  /\ IsTxIndex(txnTx') /\ txnNext' \in [Block -> Block \cup {Null}]
           /\ bnBestInvalidWork' \in Nat
           /\ pc' \in {"idle", "orphans"} /\ (pc' = "orphans" => vWorkQueue # <<>>)
           /\ pindexNew' \in Block /\ pindexIntermediate' \in Block
           /\ vpindexSecondary' \subseteq Block /\ fSecondary' \in BOOLEAN
           /\ vDisconnect' \subseteq Block /\ vConnect' \subseteq Block
           /\ done' \subseteq Block /\ vResurrect' \in Seq(Tx)
BY ChainDataAssumption, EmptySeq
DEF ReorganizeFailed, TxnAbort, InvalidChainFound, Return, TypeOK, DiskType, LocalType

LEMMA TypeNext == TypeOK /\ [Next]_vars => TypeOK'
<1> SUFFICES ASSUME TypeOK, [Next]_vars PROVE TypeOK'
  OBVIOUS
<1> USE DEF TypeOK
<1>1. ASSUME NEW t \in Tx, AcceptToMemoryPool(t) PROVE TypeOK'
  <2>1. DiskType' /\ MemoryType' /\ LocalType'
    BY <1>1 DEF AcceptToMemoryPool, DiskType, MemoryType, LocalType
  <2>2. WalletType'
    BY <1>1 DEF AcceptToMemoryPool, SyncWithWallets, WalletType
  <2>3. PoolType'
    BY <1>1 DEF AcceptToMemoryPool, addUnchecked, PoolType
  <2> QED
    BY <2>1, <2>2, <2>3
<1>2. ASSUME NEW b \in Block, ProcessBlock(b) PROVE TypeOK'
  <2>1. WalletType' /\ PoolType'
    BY <1>2 DEF ProcessBlock, WalletType, PoolType
  <2>2. DiskType'
    BY <1>2, AcceptBlockType DEF ProcessBlock, AcceptBlock, AddToBlockIndex, DiskType
  <2>3. MemoryType'
    BY <1>2, AcceptBlockType DEF ProcessBlock, MemoryType
  <2>4. LocalType'
    BY <1>2, AcceptBlockType DEF ProcessBlock, LocalType
  <2> QED
    BY <2>1, <2>2, <2>3, <2>4
<1>3. ASSUME NEW b \in Block, ProcessOrphan(b) PROVE TypeOK'
  <2>1. WalletType' /\ PoolType'
    BY <1>3 DEF ProcessOrphan, WalletType, PoolType
  <2>2. DiskType'
    BY <1>3, AcceptBlockType DEF ProcessOrphan, AcceptBlock, AddToBlockIndex, DiskType
  <2>3. MemoryType'
    BY <1>3, AcceptBlockType DEF ProcessOrphan, MemoryType
  <2>4. LocalType'
    BY <1>3, AcceptBlockType DEF ProcessOrphan, LocalType
  <2> QED
    BY <2>1, <2>2, <2>3, <2>4
<1>4. CASE OrphansDone
  <2>1. DiskType' /\ WalletType' /\ MemoryType' /\ PoolType'
    BY <1>4 DEF OrphansDone, DiskType, WalletType, MemoryType, PoolType
  <2>2. Tail(vWorkQueue) \in Seq(Block)
    BY <1>4, HeadTailProperties DEF OrphansDone, LocalType
  <2>3. LocalType'
    BY <1>4, <2>2 DEF OrphansDone, LocalType
  <2> QED
    BY <2>1, <2>2, <2>3
<1>5. CASE SetBestChain
  <2>1. DiskType' /\ WalletType' /\ MemoryType' /\ PoolType'
    BY <1>5 DEF SetBestChain, DiskType, WalletType, MemoryType, PoolType
  <2>2. \A c \in Block : Branch[c] \subseteq Block
    BY ChainDataAssumption
  <2>3. LocalType'
    BY <1>5, <2>2 DEF SetBestChain, LocalType, MemoryType
  <2> QED
    BY <2>1, <2>2, <2>3
<1>6. CASE DisconnectStep
  <2>1. WalletType' /\ MemoryType' /\ PoolType'
    BY <1>6 DEF DisconnectStep, WalletType, MemoryType, PoolType
  <2>2. DiskType'
    <3>1. \A b \in Block : IsTxIndex(DisconnectBlock(txnTx, b))
      BY DisconnectBlockType DEF DiskType
    <3>2. IsTxIndex(txnTx')
      BY <1>6, <3>1, ReorganizeFailedType DEF DisconnectStep, DiskType, LocalType
    <3>3. txnNext' \in [Block -> Block \cup {Null}] /\ bnBestInvalidWork' \in Nat
      BY <1>6, ReorganizeFailedType DEF DisconnectStep, DiskType
    <3> QED
      BY <1>6, <3>2, <3>3 DEF DisconnectStep, DiskType, IsTxIndex
  <2>3. LocalType'
    <3>1. \A b \in Block : vResurrect \o vtx[b] \in Seq(Tx)
      BY ChainDataAssumption, ConcatProperties DEF LocalType
    <3> QED
      BY <1>6, <3>1, ReorganizeFailedType DEF DisconnectStep, LocalType
  <2> QED
    BY <2>1, <2>2, <2>3
<1>7. CASE ConnectStep
  <2>1. MemoryType' /\ PoolType'
    BY <1>7 DEF ConnectStep, MemoryType, PoolType
  <2>2. DiskType'
    <3>1. \A b \in Block : IsTxIndex(ConnectBlock(txnTx, b))
      BY ConnectBlockType DEF DiskType
    <3>2. IsTxIndex(txnTx')
      BY <1>7, <3>1, ReorganizeFailedType DEF ConnectStep, TxnAbort, DiskType, LocalType
    <3>3. txnNext' \in [Block -> Block \cup {Null}] /\ bnBestInvalidWork' \in Nat
      <4>1. txnNext' \in [Block -> Block \cup {Null}]
        BY <1>7, ReorganizeFailedType DEF ConnectStep, TxnAbort, DiskType, LocalType
      <4>2. \A b \in Block : InvalidChainFound(b) => bnBestInvalidWork' \in Nat
        BY ChainDataAssumption DEF InvalidChainFound, DiskType
      <4>3. bnBestInvalidWork' \in Nat
        BY <1>7, <4>2, ReorganizeFailedType DEF ConnectStep, DiskType, LocalType
      <4> QED
        BY <4>1, <4>3
    <3> QED
      BY <1>7, <3>2, <3>3 DEF ConnectStep, DiskType, IsTxIndex
  <2>3. WalletType'
    BY <1>7 DEF ConnectStep, SyncWithWallets, WalletType, LocalType
  <2>4. LocalType'
    BY <1>7, ReorganizeFailedType DEF ConnectStep, LocalType
  <2> QED
    BY <2>1, <2>2, <2>3, <2>4
<1>8. CASE Commit
  <2>1. WalletType' /\ PoolType' /\ LocalType'
    BY <1>8 DEF Commit, WalletType, PoolType, LocalType
  <2>2. DiskType'
    BY <1>8 DEF Commit, DiskType, LocalType
  <2>3. MemoryType'
    BY <1>8 DEF Commit, PnextSwitched, MemoryType, LocalType
  <2> QED
    BY <2>1, <2>2, <2>3
<1>9. CASE ResurrectStep
  <2>1. DiskType' /\ WalletType' /\ MemoryType'
    BY <1>9 DEF ResurrectStep, DiskType, WalletType, MemoryType
  <2>2. Head(vResurrect) \in Tx /\ Tail(vResurrect) \in Seq(Tx)
    BY <1>9, HeadTailProperties DEF ResurrectStep, LocalType
  <2>3. PoolType'
    BY <1>9, <2>2 DEF ResurrectStep, addUnchecked, PoolType
  <2>4. LocalType'
    BY <1>9, <2>2 DEF ResurrectStep, LocalType
  <2> QED
    BY <2>1, <2>2, <2>3, <2>4
<1>10. CASE DeleteStep
  <2>1. DiskType' /\ WalletType' /\ MemoryType' /\ LocalType'
    BY <1>10 DEF DeleteStep, DiskType, WalletType, MemoryType, LocalType
  <2>2. PoolType'
    BY <1>10 DEF DeleteStep, remove, PoolType
  <2> QED
    BY <2>1, <2>2
<1>11. CASE SecondaryStep
  <2>1. DiskType' /\ WalletType' /\ MemoryType' /\ PoolType'
    BY <1>11 DEF SecondaryStep, DiskType, WalletType, MemoryType, PoolType
  <2>2. LocalType'
    BY <1>11, EmptySeq DEF SecondaryStep, LocalType
  <2> QED
    BY <2>1, <2>2
<1>12. CASE NewBest
  <2>1. DiskType' /\ PoolType'
    BY <1>12 DEF NewBest, DiskType, PoolType
  <2>2. WalletType'
    BY <1>12 DEF NewBest, WalletType, LocalType
  <2>3. MemoryType'
    BY <1>12 DEF NewBest, MemoryType, LocalType
  <2>4. LocalType'
    <3>1. Append(vWorkQueue, pindexNew) \in Seq(Block) /\ Append(vWorkQueue, pindexNew) # <<>>
      BY AppendProperties DEF LocalType
    <3> QED
      BY <1>12, <3>1, ChainDataAssumption, EmptySeq DEF NewBest, Return, LocalType
  <2> QED
    BY <2>1, <2>2, <2>3, <2>4
<1>13. CASE CrashAndRestart
  <2>1. DiskType'
    BY <1>13 DEF CrashAndRestart, TxnAbort, DiskType
  <2>2. WalletType'
    <3>1. Rescanned \subseteq Block
      BY DEF Rescanned, DiskType
    <3>2. mapWallet' \subseteq Mine /\ walletBest' \in Block \cup {Null}
      BY <1>13 DEF CrashAndRestart, WalletType
    <3>3. hashBlock' \in [Tx -> Block \cup {Null}]
      BY <1>13, <3>1 DEF CrashAndRestart, WalletType
    <3> QED
      BY <3>2, <3>3 DEF WalletType
  <2>3. MemoryType'
    BY <1>13, BlockChainAssumption DEF CrashAndRestart, LoadBlockIndex, MemoryType, DiskType
  <2>4. PoolType'
    <3>1. PICK R \in Reaccepted(mapWallet') :
             /\ mapTx' = R
             /\ mapNextTx' = [o \in Outpoint |-> IF \E t \in R : o \in vin[t]
                                                 THEN CHOOSE t \in R : o \in vin[t] ELSE Null]
      BY <1>13 DEF CrashAndRestart
    <3>2. R \subseteq Tx
      BY <2>2, <3>1, BlockChainAssumption DEF Reaccepted, WalletType
    <3> QED
      BY <3>1, <3>2 DEF PoolType
  <2>5. LocalType'
    BY <1>13, ChainDataAssumption, EmptySeq DEF CrashAndRestart, Return, LocalType
  <2> QED
    BY <2>1, <2>2, <2>3, <2>4, <2>5
<1>14. CASE UNCHANGED vars
  BY <1>14 DEF vars, DiskType, WalletType, MemoryType, PoolType, LocalType
<1> QED
  BY <1>1, <1>2, <1>3, <1>4, <1>5, <1>6, <1>7, <1>8, <1>9, <1>10, <1>11, <1>12, <1>13, <1>14 DEF Next, Internal

\* Every variable keeps its type, across crashes too.
THEOREM TypeCorrect == Spec => []TypeOK
<1>1. Init => TypeOK
  BY TypeInit
<1>2. TypeOK /\ [Next]_vars => TypeOK'
  BY TypeNext
<1> QED
  BY <1>1, <1>2, PTL DEF Spec

-----------------------------------------------------------------------------
(***************************************************************************)
(* The memory pool never holds a double spend.                             *)
(***************************************************************************)
\* accept() followed by addUnchecked() keeps mapNextTx in step with mapTx: the
\* outpoints of the new transaction were free.
LEMMA AddKeepsPoolLinked ==
    ASSUME PoolType, PoolLinked, NEW t \in Tx, Acceptable(t), addUnchecked(t)
    PROVE  PoolLinked'
<1> SUFFICES ASSUME NEW o \in Outpoint, NEW u \in Tx
             PROVE  mapNextTx'[o] = u <=> u \in mapTx' /\ o \in vin[u]
  BY DEF PoolLinked
<1>1. mapTx' = mapTx \cup {t} /\ mapNextTx'[o] = IF o \in vin[t] THEN t ELSE mapNextTx[o]
  BY DEF addUnchecked
<1>2. t \notin mapTx /\ (o \in vin[t] => mapNextTx[o] = Null)
  BY DEF Acceptable
<1>3. mapNextTx[o] = u <=> u \in mapTx /\ o \in vin[u]
  BY DEF PoolLinked
<1>4. u # Null
  BY ChainDataAssumption
<1> QED
  BY <1>1, <1>2, <1>3, <1>4

\* remove() frees exactly the outpoints of the transactions it takes out.
LEMMA RemoveKeepsPoolLinked ==
    ASSUME PoolType, PoolLinked, NEW S, remove(S)
    PROVE  PoolLinked'
<1> SUFFICES ASSUME NEW o \in Outpoint, NEW u \in Tx
             PROVE  mapNextTx'[o] = u <=> u \in mapTx' /\ o \in vin[u]
  BY DEF PoolLinked
<1>1. /\ mapTx' = mapTx \ S
      /\ mapNextTx'[o] = IF \E t \in S \cap mapTx : o \in vin[t] THEN Null ELSE mapNextTx[o]
  BY DEF remove
<1>2. \A t \in Tx : mapNextTx[o] = t <=> t \in mapTx /\ o \in vin[t]
  BY DEF PoolLinked
<1>3. u # Null /\ mapTx \subseteq Tx
  BY ChainDataAssumption DEF PoolType
<1> QED
  BY <1>1, <1>2, <1>3

\* The pool that ReacceptWalletTransactions rebuilds after a crash is linked.
LEMMA ReacceptIsPoolLinked ==
    ASSUME TypeOK, CrashAndRestart
    PROVE  PoolLinked'
<1>1. PICK R \in Reaccepted(mapWallet') :
         /\ mapTx' = R
         /\ mapNextTx' = [o \in Outpoint |-> IF \E t \in R : o \in vin[t]
                                             THEN CHOOSE t \in R : o \in vin[t] ELSE Null]
  BY DEF CrashAndRestart
<1>2. \A t, u \in R : t # u => vin[t] \cap vin[u] = {}
  BY DEF Reaccepted, Conflict
<1> SUFFICES ASSUME NEW o \in Outpoint, NEW u \in Tx
             PROVE  mapNextTx'[o] = u <=> u \in mapTx' /\ o \in vin[u]
  BY DEF PoolLinked
<1>3. CASE \E t \in R : o \in vin[t]
  <2>1. PICK t \in R : o \in vin[t]
    BY <1>3
  <2>2. mapNextTx'[o] = t
    BY <1>1, <1>2, <2>1
  <2> QED
    BY <1>1, <1>2, <2>1, <2>2
<1>4. CASE ~\E t \in R : o \in vin[t]
  BY <1>1, <1>4, ChainDataAssumption
<1> QED
  BY <1>3, <1>4

LEMMA PoolLinkedNext == TypeOK /\ PoolLinked /\ [Next]_vars => PoolLinked'
<1> SUFFICES ASSUME TypeOK, PoolLinked, [Next]_vars PROVE PoolLinked'
  OBVIOUS
<1>1. PoolType /\ LocalType
  BY DEF TypeOK
<1>2. ASSUME UNCHANGED poolVars PROVE PoolLinked'
  BY <1>2 DEF PoolLinked
<1>3. ASSUME NEW t \in Tx, AcceptToMemoryPool(t) PROVE PoolLinked'
  BY <1>1, <1>3, AddKeepsPoolLinked DEF AcceptToMemoryPool
<1>4. CASE ResurrectStep
  <2>1. Head(vResurrect) \in Tx
    BY <1>1, <1>4, HeadTailProperties DEF ResurrectStep, LocalType
  <2>2. CASE Acceptable(Head(vResurrect))
    BY <1>1, <1>4, <2>1, <2>2, AddKeepsPoolLinked DEF ResurrectStep
  <2>3. CASE ~Acceptable(Head(vResurrect))
    BY <1>2, <1>4, <2>3 DEF ResurrectStep
  <2> QED
    BY <2>2, <2>3
<1>5. CASE DeleteStep
  BY <1>1, <1>5, RemoveKeepsPoolLinked DEF DeleteStep
<1>6. CASE CrashAndRestart
  BY <1>6, ReacceptIsPoolLinked
<1>7. CASE \E b \in Block : ProcessBlock(b) \/ ProcessOrphan(b)
  BY <1>2, <1>7 DEF ProcessBlock, ProcessOrphan
<1>8. CASE OrphansDone \/ SetBestChain \/ DisconnectStep \/ ConnectStep
  BY <1>2, <1>8 DEF OrphansDone, SetBestChain, DisconnectStep, ConnectStep
<1>9. CASE Commit \/ SecondaryStep \/ NewBest \/ UNCHANGED vars
  BY <1>2, <1>9 DEF Commit, SecondaryStep, NewBest, vars
<1> QED
  BY <1>3, <1>4, <1>5, <1>6, <1>7, <1>8, <1>9 DEF Next, Internal

\* The pool holds no double spend and mapNextTx leaks no entry, whatever blocks,
\* loose transactions, reorganisations and crashes the node goes through.
THEOREM PoolIsLinked == Spec => []PoolLinked
<1>1. Init => PoolLinked
  BY ChainDataAssumption DEF Init, PoolLinked
<1>2. TypeOK /\ PoolLinked /\ [Next]_vars => PoolLinked'
  BY PoolLinkedNext
<1> QED
  BY <1>1, <1>2, TypeCorrect, PTL DEF Spec

-----------------------------------------------------------------------------
(***************************************************************************)
(* The stored best block only gains work.                                  *)
(*                                                                         *)
(* WorkIncreases is not inductive by itself: Commit stores the block that  *)
(* SetBestChain or SecondaryStep chose several steps before.  WorkInv      *)
(* carries the comparison made then to the commit.                         *)
(***************************************************************************)
Switching == {"disconnect", "connect", "commit", "resurrect", "secondary"}

WorkInv ==
    /\ pc \in {"idle", "orphans", "setbest", "disconnect"} =>
          bnChainWork[diskBest] <= bnChainWork[pindexBest]
    /\ pc \in {"connect", "commit"} /\ fSecondary = FALSE =>
          bnChainWork[diskBest] <= bnChainWork[pindexBest]
    /\ pc = "setbest" => bnChainWork[pindexBest] < bnChainWork[pindexNew]
    /\ pc \in {"disconnect", "connect", "commit"} =>
          bnChainWork[diskBest] < bnChainWork[pindexIntermediate]
    /\ pc \in {"resurrect", "secondary"} => diskBest = pindexIntermediate
    /\ pc \in Switching =>
          /\ bnChainWork[pindexIntermediate] <= bnChainWork[pindexNew]
          /\ \A d \in vpindexSecondary :
                /\ bnChainWork[pindexIntermediate] < bnChainWork[d]
                /\ bnChainWork[d] <= bnChainWork[pindexNew]
    /\ pc = "newbest" => bnChainWork[diskBest] <= bnChainWork[pindexNew]

\* The work of every block that WorkInv compares is a number.
LEMMA WorkIsNat ==
    ASSUME TypeOK
    PROVE  /\ bnChainWork \in [Block -> Nat]
           /\ bnChainWork[diskBest] \in Nat /\ bnChainWork[pindexBest] \in Nat
           /\ bnChainWork[pindexNew] \in Nat /\ bnChainWork[pindexIntermediate] \in Nat
           /\ \A d \in vpindexSecondary : d \in Block /\ bnChainWork[d] \in Nat
BY ChainDataAssumption DEF TypeOK, DiskType, MemoryType, LocalType

LEMMA ReorganizeFailedWork ==
    ASSUME bnChainWork[diskBest] <= bnChainWork[pindexBest], ReorganizeFailed,
           UNCHANGED <<diskBest, pindexBest>>
    PROVE  WorkInv'
BY DEF ReorganizeFailed, WorkInv, Return, Switching

LEMMA WorkNext == TypeOK /\ WorkInv /\ [Next]_vars => WorkInv'
<1> SUFFICES ASSUME TypeOK, WorkInv, [Next]_vars PROVE WorkInv'
  OBVIOUS
<1> USE DEF Switching
<1>1. ASSUME NEW t \in Tx, AcceptToMemoryPool(t) PROVE WorkInv'
  BY <1>1 DEF AcceptToMemoryPool, WorkInv
<1>2. ASSUME NEW b \in Block, ProcessBlock(b) PROVE WorkInv'
  BY <1>2, WorkIsNat DEF ProcessBlock, AcceptBlock, AddToBlockIndex, WorkInv
<1>3. ASSUME NEW b \in Block, ProcessOrphan(b) PROVE WorkInv'
  BY <1>3, WorkIsNat DEF ProcessOrphan, AcceptBlock, AddToBlockIndex, WorkInv
<1>4. CASE OrphansDone
  BY <1>4 DEF OrphansDone, WorkInv
<1>5. CASE SetBestChain
  <2>1. pindexNew \in Block
    BY DEF TypeOK, LocalType
  <2>2. CASE hashPrevBlock[pindexNew] = pindexBest
    BY <1>5, <2>2, WorkIsNat DEF SetBestChain, WorkInv
  <2>3. CASE hashPrevBlock[pindexNew] # pindexBest
    <3>1. PICK c \in Branch[pindexNew] :
             /\ bnChainWork[c] > bnChainWork[pindexBest]
             /\ pindexIntermediate' = c
             /\ vpindexSecondary' = {d \in Branch[pindexNew] : bnChainWork[d] > bnChainWork[c]}
             /\ pc' = "disconnect"
      BY <1>5, <2>3 DEF SetBestChain, WorkInv
    <3>2. \A d \in Branch[pindexNew] : d \in Block /\ bnChainWork[d] <= bnChainWork[pindexNew]
      BY <2>1, BranchWork
    <3>3. /\ UNCHANGED <<diskBest, pindexBest, pindexNew>>
          /\ bnChainWork[diskBest] <= bnChainWork[pindexBest]
      BY <1>5 DEF SetBestChain, WorkInv
    <3> QED
      BY <3>1, <3>2, <3>3, WorkIsNat DEF WorkInv
  <2> QED
    BY <2>2, <2>3
<1>6. CASE DisconnectStep
  <2>1. CASE ReorganizeFailed
    BY <1>6, <2>1, ReorganizeFailedWork DEF DisconnectStep, WorkInv
  <2>2. CASE ~ReorganizeFailed
    BY <1>6, <2>2 DEF DisconnectStep, WorkInv
  <2> QED
    BY <2>1, <2>2
<1>7. CASE ConnectStep
  <2>1. CASE ReorganizeFailed /\ ~fSecondary
    BY <1>7, <2>1, ReorganizeFailedWork DEF ConnectStep, WorkInv
  <2>2. CASE pc' \in {"connect", "commit"} /\ UNCHANGED keptVars
    BY <1>7, <2>2 DEF ConnectStep, WorkInv
  <2>3. CASE pc' = "newbest" /\ UNCHANGED keptVars
    BY <1>7, <2>3, WorkIsNat DEF ConnectStep, WorkInv
  <2> QED
    BY <1>7, <2>1, <2>2, <2>3 DEF ConnectStep
<1>8. CASE Commit
  BY <1>8, WorkIsNat DEF Commit, WorkInv
<1>9. CASE ResurrectStep
  BY <1>9 DEF ResurrectStep, WorkInv
<1>10. CASE DeleteStep
  BY <1>10 DEF DeleteStep, WorkInv
<1>11. CASE SecondaryStep
  <2>1. CASE vpindexSecondary = {} /\ pc' = "newbest" /\ UNCHANGED callVars
    BY <1>11, <2>1, WorkIsNat DEF SecondaryStep, WorkInv
  <2>2. ASSUME NEW b \in vpindexSecondary,
               \A d \in vpindexSecondary \ {b} : bnChainWork[d] > bnChainWork[b],
               pindexIntermediate' = b, fSecondary' = TRUE,
               vpindexSecondary' = vpindexSecondary \ {b}, pc' = "connect"
        PROVE  WorkInv'
    BY <1>11, <2>2, WorkIsNat DEF SecondaryStep, WorkInv
  <2> QED
    BY <1>11, <2>1, <2>2 DEF SecondaryStep
<1>12. CASE NewBest
  BY <1>12, WorkIsNat DEF NewBest, Return, WorkInv
<1>13. CASE CrashAndRestart
  BY <1>13, WorkIsNat DEF CrashAndRestart, LoadBlockIndex, Return, WorkInv
<1>14. CASE UNCHANGED vars
  BY <1>14 DEF vars, WorkInv
<1> QED
  BY <1>1, <1>2, <1>3, <1>4, <1>5, <1>6, <1>7, <1>8, <1>9, <1>10, <1>11, <1>12, <1>13, <1>14
  DEF Next, Internal

\* Only Commit stores a best block, and it stores one with more work.
LEMMA WorkStep ==
    TypeOK /\ WorkInv /\ [Next]_vars
      => [diskBest' # diskBest => bnChainWork[diskBest'] > bnChainWork[diskBest]]_vars
<1> SUFFICES ASSUME TypeOK, WorkInv, Next, diskBest' # diskBest
             PROVE  bnChainWork[diskBest'] > bnChainWork[diskBest]
  BY DEF vars
<1>1. Commit
  BY DEF Next, Internal, AcceptToMemoryPool, ProcessBlock, ProcessOrphan, AcceptBlock,
         AddToBlockIndex, OrphansDone, SetBestChain, DisconnectStep, ConnectStep,
         ResurrectStep, DeleteStep, SecondaryStep, NewBest, CrashAndRestart
<1> QED
  BY <1>1, WorkIsNat DEF Commit, WorkInv

\* The stored best chain is replaced only by one with more work: a crash, an
\* invalid block or a failed postponed connect never takes the node back.
THEOREM StoredWorkIncreases == Spec => WorkIncreases
<1>1. Init => WorkInv
  BY ChainDataAssumption DEF Init, WorkInv, Switching
<1>2. TypeOK /\ WorkInv /\ [Next]_vars => WorkInv'
  BY WorkNext
<1>3. TypeOK /\ WorkInv /\ [Next]_vars
        => [diskBest' # diskBest => bnChainWork[diskBest'] > bnChainWork[diskBest]]_vars
  BY WorkStep
<1> QED
  BY <1>1, <1>2, <1>3, TypeCorrect, PTL DEF Spec, WorkIncreases
==============================================================================
