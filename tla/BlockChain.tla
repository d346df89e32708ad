----------------------------- MODULE BlockChain -----------------------------
(***************************************************************************)
(* Block acceptance, reorganisation, the memory pool and the wallet's view *)
(* of the chain: ProcessBlock, AcceptBlock, AddToBlockIndex, SetBestChain, *)
(* Reorganize and CTxMemPool of main.cpp, over the database of db.cpp.     *)
(*                                                                         *)
(* All of it runs under cs_main, so it is one sequential process.  It is   *)
(* cut into steps where the database is written, because the process may   *)
(* be killed between any two of them: the disk variables survive, the      *)
(* memory variables are rebuilt by LoadBlockIndex and AppInit2, and what   *)
(* the open database transaction held is lost.                             *)
(***************************************************************************)
EXTENDS ChainData

CONSTANTS
    NonStandard,  \* transactions that are not IsStandard
    Mine,         \* transactions that pay to or spend from the wallet
    Unacceptable, \* blocks AcceptBlock refuses: nBits, time, finality, checkpoint
    Early,        \* blocks ahead of the local clock, which AcceptBlock may refuse
    LowWork,      \* blocks ProcessBlock refuses unless they extend the best chain
    MaxCrash      \* bound on the number of crashes

ASSUME BlockChainAssumption ==
    /\ NonStandard \subseteq Tx /\ Mine \subseteq Tx
    /\ Unacceptable \subseteq Block /\ Early \subseteq Block /\ LowWork \subseteq Block
    /\ Genesis \notin Unacceptable
    /\ MaxCrash \in Nat

VARIABLES
    (* on disk: blkindex.dat and the wallet file *)
    diskIndex,          \* blocks with a CDiskBlockIndex record
    diskNext,           \* hashNext of those records
    diskBest,           \* the hashBestChain record
    diskTx,             \* the CTxIndex records
    bnBestInvalidWork,  \* written through whenever it changes
    mapWallet,          \* wallet transactions
    hashBlock,          \* the block each of them was last seen in
    walletBest,         \* block of the wallet's best block locator
    (* the open transaction of CTxDB: what its owner reads *)
    txnTx, txnNext,
    (* in memory *)
    mapBlockIndex, pnext, pindexBest,
    mapOrphanBlocks,
    mapTx, mapNextTx,
    (* local variables of ProcessBlock, SetBestChain and Reorganize *)
    pc, vWorkQueue, pindexNew, pindexIntermediate, vpindexSecondary, fSecondary,
    vDisconnect, vConnect, done, vResurrect,
    (* history *)
    relayed,            \* blocks announced to peers
    crashes

diskVars   == <<diskIndex, diskNext, diskBest, diskTx>>
walletVars == <<mapWallet, hashBlock, walletBest>>
txnVars    == <<txnTx, txnNext>>
poolVars   == <<mapTx, mapNextTx>>
keptVars   == <<pindexNew, pindexIntermediate, vpindexSecondary, fSecondary,
                vDisconnect, vConnect>>
callVars   == <<pindexIntermediate, vpindexSecondary, fSecondary,
                vDisconnect, vConnect, done, vResurrect>>
jobVars    == <<keptVars, done, vResurrect>>
vars == <<diskVars, bnBestInvalidWork, walletVars, txnVars, mapBlockIndex, pnext,
          pindexBest, mapOrphanBlocks, poolVars, pc, vWorkQueue, jobVars, relayed, crashes>>

\* The outpoints that some transaction spends.
Outpoint == UNION {vin[t] : t \in Tx}

DiskType ==
    /\ diskIndex \subseteq Block /\ diskBest \in Block
    /\ diskNext \in [Block -> Block \cup {Null}] /\ txnNext \in [Block -> Block \cup {Null}]
    /\ IsTxIndex(diskTx) /\ IsTxIndex(txnTx)
    /\ bnBestInvalidWork \in Nat

WalletType ==
    /\ mapWallet \subseteq Mine
    /\ hashBlock \in [Tx -> Block \cup {Null}]
    /\ walletBest \in Block \cup {Null}

MemoryType ==
    /\ mapBlockIndex \subseteq Block /\ pindexBest \in Block
    /\ pnext \in [Block -> Block \cup {Null}]
    /\ mapOrphanBlocks \subseteq Block
    /\ relayed \subseteq Block /\ crashes \in 0..MaxCrash

PoolType == mapTx \subseteq Tx /\ mapNextTx \in [Outpoint -> Tx \cup {Null}]

LocalType ==
    /\ pc \in {"idle", "setbest", "disconnect", "connect", "commit",
               "resurrect", "secondary", "newbest", "orphans"}
    /\ vWorkQueue \in Seq(Block) /\ (pc = "orphans" => vWorkQueue # <<>>)
    /\ pindexNew \in Block /\ pindexIntermediate \in Block
    /\ vpindexSecondary \subseteq Block /\ fSecondary \in BOOLEAN
    /\ vDisconnect \subseteq Block /\ vConnect \subseteq Block /\ done \subseteq Block
    /\ vResurrect \in Seq(Tx)

\* The type invariant.  ProcessBlock's work queue is not empty while it works on
\* the orphans, so that its head and its tail are defined.
TypeOK == DiskType /\ WalletType /\ MemoryType /\ PoolType /\ LocalType

\* A fresh node: LoadBlockIndex has written the genesis block.
Init ==
    /\ diskIndex = {Genesis} /\ mapBlockIndex = {Genesis}
    /\ diskNext = [b \in Block |-> Null] /\ pnext = diskNext /\ txnNext = diskNext
    /\ diskBest = Genesis /\ pindexBest = Genesis
    /\ diskTx = [t \in Tx |-> Null] /\ txnTx = diskTx
    /\ bnBestInvalidWork = 0
    /\ mapWallet = {} /\ hashBlock = [t \in Tx |-> Null] /\ walletBest = Null
    /\ mapOrphanBlocks = {}
    /\ mapTx = {} /\ mapNextTx = [o \in Outpoint |-> Null]
    /\ pc = "idle" /\ vWorkQueue = <<>>
    /\ pindexNew = Genesis /\ pindexIntermediate = Genesis
    /\ vpindexSecondary = {} /\ fSecondary = FALSE
    /\ vDisconnect = {} /\ vConnect = {} /\ done = {} /\ vResurrect = <<>>
    /\ relayed = {} /\ crashes = 0

-----------------------------------------------------------------------------
(***************************************************************************)
(* The memory pool: CTxMemPool.                                            *)
(***************************************************************************)
\* accept() with fCheckInputs false: what it asks of any loose transaction.
Acceptable(t) ==
    /\ t \notin CoinBase /\ t \notin NonStandard
    /\ t \notin mapTx
    /\ \A o \in vin[t] : mapNextTx[o] = Null

\* The further conditions with fCheckInputs: each input is an unspent output
\* of an indexed transaction, or an output of a pool transaction.
InputsAvailable(t) ==
    /\ diskTx[t] = Null
    /\ \A o \in vin[t] :
          /\ o[2] \in DOMAIN vout[o[1]]
          /\ \/ /\ diskTx[o[1]] # Null
                /\ diskTx[o[1]].vSpent[o[2]] = Null
                /\ o[1] \in CoinBase => diskTx[o[1]].pos \notin ImmatureIn(pindexBest)
             \/ diskTx[o[1]] = Null /\ o[1] \in mapTx
          /\ MoneyRange(vout[o[1]][o[2]])
    /\ MoneyRange(GetValueIn(t))
    /\ t \notin BadScript
    /\ GetValueIn(t) >= GetValueOut(t)

addUnchecked(t) ==
    /\ mapTx' = mapTx \cup {t}
    /\ mapNextTx' = [o \in Outpoint |-> IF o \in vin[t] THEN t ELSE mapNextTx[o]]

\* Mutant: remove() forgets mapNextTx.
RemoveLeavingNext(S) == mapTx' = mapTx \ S /\ UNCHANGED mapNextTx

\* remove() for each transaction of S.
remove(S) ==
    /\ mapTx' = mapTx \ S
    /\ mapNextTx' = [o \in Outpoint |-> IF \E t \in S \cap mapTx : o \in vin[t]
                                        THEN Null ELSE mapNextTx[o]]

\* Mutant: a transaction the wallet already has is not updated.
SyncOnlyNew(S, b) ==
    /\ mapWallet' = mapWallet \cup (S \cap Mine)
    /\ hashBlock' = [t \in Tx |-> IF t \in (S \cap Mine) \ mapWallet
                                  THEN b ELSE hashBlock[t]]

\* SyncWithWallets for the transactions S found in block b, or loose if b is Null.
SyncWithWallets(S, b) ==
    /\ mapWallet' = mapWallet \cup (S \cap Mine)
    /\ hashBlock' = [t \in Tx |-> IF t \in S \cap Mine /\ b # Null THEN b ELSE hashBlock[t]]

\* The "tx" message: a loose transaction the pool accepts.
AcceptToMemoryPool(t) ==
    /\ pc = "idle"
    /\ Acceptable(t) /\ InputsAvailable(t)
    /\ addUnchecked(t)
    /\ SyncWithWallets({t}, Null)
    /\ UNCHANGED <<diskVars, bnBestInvalidWork, walletBest, txnVars, mapBlockIndex, pnext,
                   pindexBest, mapOrphanBlocks, pc, vWorkQueue, jobVars,
                   relayed, crashes>>

-----------------------------------------------------------------------------
(***************************************************************************)
(* Receiving a block: ProcessBlock and AcceptBlock.                        *)
(***************************************************************************)
\* Mutant: a block with as much work as the best one replaces it.
AddPreferringLatest(b) ==
    /\ mapBlockIndex' = mapBlockIndex \cup {b}
    /\ diskIndex' = diskIndex \cup {b}
    /\ IF bnChainWork[b] >= bnChainWork[pindexBest]
       THEN pc' = "setbest" /\ pindexNew' = b /\ UNCHANGED vWorkQueue
       ELSE pc' = "orphans" /\ vWorkQueue' = Append(vWorkQueue, b) /\ UNCHANGED pindexNew
    /\ UNCHANGED <<diskNext, diskBest, diskTx>>

\* AddToBlockIndex writes the new entry in a transaction of its own; the block
\* becomes the best one if its branch has more work, and is queued as a parent
\* of orphans if AcceptBlock is done with it.
AddToBlockIndex(b) ==
    /\ mapBlockIndex' = mapBlockIndex \cup {b}
    /\ diskIndex' = diskIndex \cup {b}
    /\ IF bnChainWork[b] > bnChainWork[pindexBest]
       THEN pc' = "setbest" /\ pindexNew' = b /\ UNCHANGED vWorkQueue
       ELSE pc' = "orphans" /\ vWorkQueue' = Append(vWorkQueue, b) /\ UNCHANGED pindexNew
    /\ UNCHANGED <<diskNext, diskBest, diskTx>>

\* AcceptBlock refuses a block it already has and one that fails its checks.
AcceptBlock(b) == b \notin mapBlockIndex /\ b \notin Unacceptable /\ AddToBlockIndex(b)

\* ProcessBlock up to the point where the block is stored or shunted off.  A
\* block that fails a check leaves no trace.
ProcessBlock(b) ==
    /\ pc = "idle"
    /\ b \notin mapBlockIndex /\ b \notin mapOrphanBlocks
    /\ CheckBlock(b)
    /\ b \in LowWork => hashPrevBlock[b] = pindexBest
    /\ IF hashPrevBlock[b] \notin mapBlockIndex
       THEN /\ mapOrphanBlocks' = mapOrphanBlocks \cup {b}
            /\ UNCHANGED <<diskVars, mapBlockIndex, pc, vWorkQueue, pindexNew>>
       ELSE AcceptBlock(b) /\ UNCHANGED mapOrphanBlocks
    /\ UNCHANGED <<bnBestInvalidWork, walletVars, txnVars, pnext, pindexBest, poolVars,
                   callVars, relayed, crashes>>

\* Mutant: an orphan leaves the map only if AcceptBlock takes it.
ProcessOrphanKeepingRejects(b) ==
    /\ pc = "orphans"
    /\ b \in mapOrphanBlocks /\ hashPrevBlock[b] = Head(vWorkQueue)
    /\ AcceptBlock(b) /\ mapOrphanBlocks' = mapOrphanBlocks \ {b}
    /\ UNCHANGED <<bnBestInvalidWork, walletVars, txnVars, pnext, pindexBest, poolVars,
                   callVars, relayed, crashes>>

\* One orphan that waited for the block at the head of the queue: it leaves
\* the map whether AcceptBlock takes it or not.
ProcessOrphan(b) ==
    /\ pc = "orphans"
    /\ b \in mapOrphanBlocks /\ hashPrevBlock[b] = Head(vWorkQueue)
    /\ mapOrphanBlocks' = mapOrphanBlocks \ {b}
    /\ \/ AcceptBlock(b)
       \/ /\ b \in mapBlockIndex \cup Unacceptable \cup Early
          /\ UNCHANGED <<diskVars, mapBlockIndex, pc, vWorkQueue, pindexNew>>
    /\ UNCHANGED <<bnBestInvalidWork, walletVars, txnVars, pnext, pindexBest, poolVars,
                   callVars, relayed, crashes>>

\* Mutant: ProcessBlock looks at the orphans of the first block only.
OrphansDoneAfterFirst ==
    /\ pc = "orphans"
    /\ \A b \in mapOrphanBlocks : hashPrevBlock[b] # Head(vWorkQueue)
    /\ vWorkQueue' = <<>> /\ pc' = "idle"
    /\ UNCHANGED <<diskVars, bnBestInvalidWork, walletVars, txnVars, mapBlockIndex, pnext,
                   pindexBest, mapOrphanBlocks, poolVars, jobVars, relayed, crashes>>

\* Mutant: the queue is read once too often.
OrphansDoneTooLate ==
    /\ pc = "orphans"
    /\ \A b \in mapOrphanBlocks : hashPrevBlock[b] # Head(vWorkQueue)
    /\ vWorkQueue' = Tail(vWorkQueue) /\ pc' = "orphans"
    /\ UNCHANGED <<diskVars, bnBestInvalidWork, walletVars, txnVars, mapBlockIndex, pnext,
                   pindexBest, mapOrphanBlocks, poolVars, jobVars, relayed, crashes>>

\* No orphan waits for the head of the queue any more.
OrphansDone ==
    /\ pc = "orphans"
    /\ \A b \in mapOrphanBlocks : hashPrevBlock[b] # Head(vWorkQueue)
    /\ vWorkQueue' = Tail(vWorkQueue)
    /\ pc' = IF Tail(vWorkQueue) = <<>> THEN "idle" ELSE "orphans"
    /\ UNCHANGED <<diskVars, bnBestInvalidWork, walletVars, txnVars, mapBlockIndex, pnext,
                   pindexBest, mapOrphanBlocks, poolVars, jobVars, relayed,
                   crashes>>

-----------------------------------------------------------------------------
(***************************************************************************)
(* Switching to a branch with more work: SetBestChain, SetBestChainInner   *)
(* and Reorganize.                                                         *)
(***************************************************************************)
\* SetBestChain begins.  A child of the best block is connected directly;
\* otherwise Reorganize goes as far as the first block that has more work than
\* the best one, and the blocks after it are postponed.
SetBestChain ==
    /\ pc = "setbest"
    /\ IF hashPrevBlock[pindexNew] = pindexBest
       THEN /\ pindexIntermediate' = pindexNew
            /\ vpindexSecondary' = {} /\ vDisconnect' = {} /\ vConnect' = {pindexNew}
            /\ pc' = "connect"
       ELSE \E c \in Branch[pindexNew] \ {Genesis} :
            /\ c = pindexNew \/ bnChainWork[c] > bnChainWork[pindexBest]
            /\ bnChainWork[hashPrevBlock[c]] <= bnChainWork[pindexBest]
            /\ pindexIntermediate' = c
            /\ vpindexSecondary' = {d \in Branch[pindexNew] : bnChainWork[d] > bnChainWork[c]}
            /\ vDisconnect' = Branch[pindexBest] \ Branch[c]
            /\ vConnect' = Branch[c] \ Branch[pindexBest]
            /\ pc' = "disconnect"
    /\ UNCHANGED <<diskVars, bnBestInvalidWork, walletVars, txnVars, mapBlockIndex, pnext,
                   pindexBest, mapOrphanBlocks, poolVars, vWorkQueue, pindexNew, fSecondary,
                   done, vResurrect, relayed, crashes>>

\* The local variables of SetBestChain and Reorganize are gone.
Return ==
    /\ pindexNew' = Genesis /\ pindexIntermediate' = Genesis
    /\ vpindexSecondary' = {} /\ fSecondary' = FALSE
    /\ vDisconnect' = {} /\ vConnect' = {} /\ done' = {} /\ vResurrect' = <<>>

InvalidChainFound(b) ==
    bnBestInvalidWork' = IF bnChainWork[b] > bnBestInvalidWork
                         THEN bnChainWork[b] ELSE bnBestInvalidWork

\* Mutant: the failed transaction stays open.
NoAbort == UNCHANGED txnVars

TxnAbort == txnTx' = diskTx /\ txnNext' = diskNext

\* SetBestChain fails: ProcessBlock goes on with the other orphans, or returns
\* if the block was not an orphan.
ReorganizeFailed ==
    /\ TxnAbort
    /\ InvalidChainFound(pindexNew)
    /\ pc' = IF vWorkQueue = <<>> THEN "idle" ELSE "orphans"
    /\ Return

\* Mutant: only the transactions of the last block disconnected are kept.
DisconnectKeepingLast ==
    /\ pc = "disconnect"
    /\ \/ /\ vDisconnect \subseteq done
          /\ pc' = "connect" /\ done' = {}
          /\ UNCHANGED <<txnVars, vResurrect, bnBestInvalidWork, keptVars>>
       \/ \E b \in vDisconnect \ done :
          /\ \A d \in vDisconnect \ done : nHeight[d] <= nHeight[b]
          /\ txnTx' = DisconnectBlock(txnTx, b)
          /\ txnNext' = [txnNext EXCEPT ![hashPrevBlock[b]] = Null]
          /\ done' = done \cup {b}
          /\ vResurrect' = vtx[b]
          /\ UNCHANGED <<pc, bnBestInvalidWork, keptVars>>
    /\ UNCHANGED <<diskVars, walletVars, mapBlockIndex, pnext, pindexBest, mapOrphanBlocks,
                   poolVars, vWorkQueue, relayed, crashes>>

\* DisconnectBlock for the highest block not yet disconnected.
DisconnectStep ==
    /\ pc = "disconnect"
    /\ \/ /\ vDisconnect \subseteq done
          /\ pc' = "connect" /\ done' = {}
          /\ UNCHANGED <<txnVars, vResurrect, bnBestInvalidWork, keptVars>>
       \/ \E b \in vDisconnect \ done :
          /\ \A d \in vDisconnect \ done : nHeight[d] <= nHeight[b]
          /\ IF DisconnectBlockOK(txnTx, b)
             THEN /\ txnTx' = DisconnectBlock(txnTx, b)
                  /\ txnNext' = [txnNext EXCEPT ![hashPrevBlock[b]] = Null]
                  /\ done' = done \cup {b}
                  /\ vResurrect' = vResurrect \o vtx[b]
                  /\ UNCHANGED <<pc, bnBestInvalidWork, keptVars>>
             ELSE ReorganizeFailed
    /\ UNCHANGED <<diskVars, walletVars, mapBlockIndex, pnext, pindexBest, mapOrphanBlocks,
                   poolVars, vWorkQueue, relayed, crashes>>

\* Signatures are skipped while the best block is below the last checkpoint.
fCheckSig == nHeight[pindexBest] >= TotalBlocksEstimate

\* ConnectBlock for the lowest block not yet connected.  The wallet learns of
\* the block's transactions before the database transaction commits.
ConnectStep ==
    /\ pc = "connect"
    /\ \E b \in vConnect \ done :
       /\ \A d \in vConnect \ done : nHeight[b] <= nHeight[d]
       /\ IF ConnectBlockOK(txnTx, b, fCheckSig)
          THEN /\ txnTx' = ConnectBlock(txnTx, b)
               /\ txnNext' = [txnNext EXCEPT ![hashPrevBlock[b]] = b]
               /\ SyncWithWallets(TxsOf(b), b)
               /\ done' = done \cup {b}
               /\ pc' = IF vConnect \subseteq done' THEN "commit" ELSE "connect"
               /\ UNCHANGED <<bnBestInvalidWork, vResurrect, keptVars>>
          ELSE /\ IF fSecondary
                  THEN /\ TxnAbort
                       /\ InvalidChainFound(b)
                       /\ pc' = "newbest"
                       /\ UNCHANGED <<done, vResurrect, keptVars>>
                  ELSE ReorganizeFailed
               /\ UNCHANGED <<mapWallet, hashBlock>>
    /\ UNCHANGED <<diskVars, walletBest, mapBlockIndex, pnext, pindexBest, mapOrphanBlocks,
                   poolVars, vWorkQueue, relayed, crashes>>

\* Mutant: the branch that is left keeps its pnext.
PnextKeepingOld ==
    [b \in Block |-> IF \E c \in vConnect : hashPrevBlock[c] = b
                     THEN CHOOSE c \in vConnect : hashPrevBlock[c] = b ELSE pnext[b]]

\* pnext is cleared on the branch that was left and set on the one that was entered.
PnextSwitched ==
    [b \in Block |-> IF \E c \in vConnect : hashPrevBlock[c] = b
                     THEN CHOOSE c \in vConnect : hashPrevBlock[c] = b
                     ELSE IF \E d \in vDisconnect : hashPrevBlock[d] = b
                     THEN Null ELSE pnext[b]]

\* WriteHashBestChain and TxnCommit, and only then the memory index.
Commit ==
    /\ pc = "commit"
    /\ diskTx' = txnTx /\ diskNext' = txnNext /\ diskBest' = pindexIntermediate
    /\ pnext' = PnextSwitched
    /\ pc' = "resurrect"
    /\ UNCHANGED <<diskIndex, bnBestInvalidWork, walletVars, txnVars, mapBlockIndex,
                   pindexBest, mapOrphanBlocks, poolVars, vWorkQueue, jobVars,
                   relayed, crashes>>

\* The transactions of the disconnected blocks go back to the memory pool with
\* fCheckInputs false, one by one.
ResurrectStep ==
    /\ pc = "resurrect" /\ vResurrect # <<>>
    /\ IF Acceptable(Head(vResurrect)) THEN addUnchecked(Head(vResurrect))
                                       ELSE UNCHANGED poolVars
    /\ vResurrect' = Tail(vResurrect)
    /\ UNCHANGED <<diskVars, bnBestInvalidWork, walletVars, txnVars, mapBlockIndex, pnext,
                   pindexBest, mapOrphanBlocks, pc, vWorkQueue, keptVars,
                   done, relayed, crashes>>

\* The transactions of the connected blocks leave the memory pool.
DeleteStep ==
    /\ pc = "resurrect" /\ vResurrect = <<>>
    /\ remove(UNION {TxsOf(b) : b \in vConnect})
    /\ pc' = "secondary"
    /\ UNCHANGED <<diskVars, bnBestInvalidWork, walletVars, txnVars, mapBlockIndex, pnext,
                   pindexBest, mapOrphanBlocks, vWorkQueue, jobVars, relayed,
                   crashes>>

\* The next postponed block, in a database transaction of its own.
SecondaryStep ==
    /\ pc = "secondary"
    /\ \/ /\ vpindexSecondary = {}
          /\ pc' = "newbest"
          /\ UNCHANGED callVars
       \/ \E b \in vpindexSecondary :
          /\ \A d \in vpindexSecondary \ {b} : bnChainWork[d] > bnChainWork[b]
          /\ pindexIntermediate' = b /\ fSecondary' = TRUE
          /\ vpindexSecondary' = vpindexSecondary \ {b}
          /\ vDisconnect' = {} /\ vConnect' = {b} /\ done' = {} /\ vResurrect' = <<>>
          /\ pc' = "connect"
    /\ UNCHANGED <<diskVars, bnBestInvalidWork, walletVars, txnVars, mapBlockIndex, pnext,
                   pindexBest, mapOrphanBlocks, poolVars, vWorkQueue, pindexNew, relayed,
                   crashes>>

\* The end of SetBestChain: pindexNew is the best block, even if a postponed
\* block failed.  The locator is not written during the initial download.
\* AcceptBlock announces the block and ProcessBlock queues it.
NewBest ==
    /\ pc = "newbest"
    /\ pindexBest' = pindexNew
    /\ walletBest' \in {walletBest, pindexNew}
    /\ relayed' = relayed \cup {pindexNew}
    /\ vWorkQueue' = Append(vWorkQueue, pindexNew)
    /\ pc' = "orphans"
    /\ Return
    /\ UNCHANGED <<diskVars, bnBestInvalidWork, mapWallet, hashBlock, txnVars, mapBlockIndex,
                   pnext, mapOrphanBlocks, poolVars, crashes>>

-----------------------------------------------------------------------------
(***************************************************************************)
(* A crash at any point, and the start that follows it: LoadBlockIndex and *)
(* steps 7 and 9 of AppInit2.                                              *)
(***************************************************************************)
\* The blocks ScanForWalletTransactions visits from r along hashNext.
ScanFrom(r) ==
    LET reached[n \in 0..Cardinality(Block)] ==
            IF n = 0 THEN {r}
            ELSE reached[n - 1] \cup ({diskNext[b] : b \in reached[n - 1]} \ {Null})
    IN  reached[Cardinality(Block)]

\* CBlockLocator::GetBlockIndex: the last block of the locator in the main chain.
InMainChain(b) == b \in diskIndex /\ (diskNext[b] # Null \/ b = diskBest)

pindexRescan ==
    IF walletBest = Null THEN diskBest
    ELSE CHOOSE b \in Branch[walletBest] :
            /\ InMainChain(b) \/ b = Genesis
            /\ \A c \in Branch[walletBest] : InMainChain(c) => nHeight[c] <= nHeight[b]

Rescanned == IF pindexRescan = diskBest THEN {}
             ELSE {b \in diskIndex : b \in ScanFrom(pindexRescan)}

\* Sets of wallet transactions ReacceptWalletTransactions may leave in the pool:
\* each unindexed one is offered in turn without checking its inputs.
Conflict(t, u) == t # u /\ vin[t] \cap vin[u] # {}
ReacceptedIndexed(W) == \* Mutant: without looking into the transaction index.
    LET S == W \ (CoinBase \cup NonStandard)
    IN  {R \in SUBSET S : /\ \A t, u \in R : ~Conflict(t, u)
                          /\ \A t \in S \ R : \E u \in R : Conflict(t, u)}
Reaccepted(W) ==
    LET S == {t \in W \ (CoinBase \cup NonStandard) : diskTx[t] = Null}
    IN  {R \in SUBSET S : /\ \A t, u \in R : ~Conflict(t, u)
                          /\ \A t \in S \ R : \E u \in R : Conflict(t, u)}

\* Mutant: the block with the most work becomes the best one.
LoadHeaviest ==
    /\ mapBlockIndex' = diskIndex /\ pnext' = diskNext
    /\ pindexBest' = CHOOSE b \in diskIndex :
                        \A c \in diskIndex : bnChainWork[c] <= bnChainWork[b]

\* CTxDB::LoadBlockIndex.
LoadBlockIndex == mapBlockIndex' = diskIndex /\ pnext' = diskNext /\ pindexBest' = diskBest

CrashAndRestart ==
    /\ crashes < MaxCrash
    /\ crashes' = crashes + 1
    /\ TxnAbort
    /\ LoadBlockIndex
    /\ mapOrphanBlocks' = {}
    /\ mapWallet' = mapWallet \cup (Mine \cap UNION {TxsOf(b) : b \in Rescanned})
    /\ hashBlock' = [t \in Tx |->
                       LET last == {b \in Rescanned :
                                      /\ t \in TxsOf(b)
                                      /\ \A c \in Rescanned : t \in TxsOf(c) =>
                                            nHeight[c] <= nHeight[b]}
                       IN  IF t \in Mine /\ last # {} THEN CHOOSE b \in last : TRUE
                                                     ELSE hashBlock[t]]
    /\ \E R \in Reaccepted(mapWallet') :
          /\ mapTx' = R
          /\ mapNextTx' = [o \in Outpoint |-> IF \E t \in R : o \in vin[t]
                                              THEN CHOOSE t \in R : o \in vin[t] ELSE Null]
    /\ pc' = "idle" /\ vWorkQueue' = <<>> /\ Return
    /\ UNCHANGED <<diskVars, bnBestInvalidWork, walletBest, relayed>>

-----------------------------------------------------------------------------
\* The thread that holds cs_main carries on.
Internal ==
    \/ \E b \in Block : ProcessOrphan(b)
    \/ OrphansDone
    \/ SetBestChain \/ DisconnectStep \/ ConnectStep \/ Commit
    \/ ResurrectStep \/ DeleteStep \/ SecondaryStep \/ NewBest

Next ==
    \/ \E b \in Block : ProcessBlock(b)
    \/ \E t \in Tx : AcceptToMemoryPool(t)
    \/ Internal
    \/ CrashAndRestart

Spec == Init /\ [][Next]_vars

\* The thread is not stopped for ever inside ProcessBlock, and peers offer a
\* block again until the node has it.
FairSpec == Spec /\ WF_vars(Internal) /\ \A b \in Block : WF_vars(ProcessBlock(b))

-----------------------------------------------------------------------------
(***************************************************************************)
(* What must hold.                                                         *)
(***************************************************************************)
Promised == INSTANCE Ledger WITH tip <- diskBest, index <- diskTx

\* The block database goes from one valid branch to another with more work in
\* one atomic step, with exactly that branch's transaction index, whatever was
\* disconnected and connected on the way and wherever a crash or an invalid
\* block cut it short (Reorganize, SetBestChainInner and their TxnCommit).
DatabaseIsLedger == Promised!Spec

\* The database holds the index of exactly the branch hashBestChain names.
TxIndexIsBranch == diskTx = Promised!IndexOf(diskBest)

\* A block of the best branch can be disconnected: the entries its inputs point
\* to are there, so that a longer valid branch can always be switched to.  The
\* comment in DisconnectInputs argues it for an entry that was erased.
DisconnectNeverFails ==
    pc = "disconnect" => \A b \in vDisconnect \ done :
        (\A d \in vDisconnect \ done : nHeight[d] <= nHeight[b]) => DisconnectBlockOK(txnTx, b)

\* The best block is valid when ProcessBlock has returned: SetBestChain claims
\* that a postponed block which fails leaves a valid reorganisation behind.
BestIsValid == pc = "idle" => Promised!ValidBranch(pindexBest)

\* hashNext links exactly the blocks of the best branch, and when ProcessBlock
\* has returned pnext, mapBlockIndex and pindexBest agree with the disk, so a
\* restart would find the same main chain.
MainChainLinked ==
    /\ \A b, c \in Block : diskNext[b] = c <=> c \in Branch[diskBest] /\ hashPrevBlock[c] = b
    /\ pc = "idle" => /\ pnext = diskNext /\ mapBlockIndex = diskIndex
                      /\ pindexBest = diskBest

\* A block is announced to peers only if its whole branch is valid.
RelayedIsValid == \A b \in relayed : Promised!ValidBranch(b)

\* mapNextTx is the inverse of the inputs of mapTx: no outpoint is spent twice
\* in the pool and none is left behind by remove().
PoolLinked ==
    \A o \in Outpoint, t \in Tx : mapNextTx[o] = t <=> t \in mapTx /\ o \in vin[t]

\* No transaction is both in the pool and in the best branch once ProcessBlock
\* has returned: a block that is connected takes its transactions out.
PoolNotInBranch == pc = "idle" => \A t \in mapTx : diskTx[t] = Null

\* A reorganisation loses no transaction: one of a disconnected block is then
\* in the pool, in the new branch, refused as non-standard, or in conflict with
\* a transaction of the pool or of the new branch.
ReorganizeKeepsTxs ==
    pc = "secondary" /\ ~fSecondary =>
        \A b \in vDisconnect : \A t \in TxsOf(b) \ (CoinBase \cup NonStandard) :
            \/ t \in mapTx \/ diskTx[t] # Null
            \/ \E u \in Tx : Conflict(t, u) /\ (u \in mapTx \/ diskTx[u] # Null)

\* Without crashes, no valid branch the node has ever has more work than the
\* one it is on when ProcessBlock returns.
BestIsHeaviest ==
    pc = "idle" => \A b \in mapBlockIndex :
        bnChainWork[b] > bnChainWork[pindexBest] => ~Promised!ValidBranch(b)

\* bnBestInvalidWork, the source of the "you may need to upgrade" warning, is
\* never the work of a valid branch.
WarningIsJustified ==
    bnBestInvalidWork > 0 => \E b \in diskIndex :
        bnChainWork[b] = bnBestInvalidWork /\ ~Promised!ValidBranch(b)

\* When ProcessBlock returns, an orphan waits for a block the node does not
\* have, or for one whose branch is invalid.
OrphansDrained ==
    pc = "idle" => \A b \in mapOrphanBlocks :
        \/ hashPrevBlock[b] \notin mapBlockIndex
        \/ ~Promised!ValidBranch(hashPrevBlock[b])

\* A wallet transaction of the best branch points to the block it is in, so
\* that GetDepthInMainChain counts its confirmations.
WalletFollowsBranch ==
    pc = "idle" => \A t \in Mine : diskTx[t] # Null =>
        t \in mapWallet /\ hashBlock[t] = diskTx[t].pos

\* The stored best block only ever changes to one with more work.
WorkIncreases ==
    [][diskBest' # diskBest => bnChainWork[diskBest'] > bnChainWork[diskBest]]_vars

\* ProcessBlock returns.
ProcessBlockReturns == []<>(pc = "idle")

\* Once every block has been offered, the node ends up on the heaviest valid branch.
Heaviest(b) == /\ Promised!ValidBranch(b)
               /\ \A c \in Block : Promised!ValidBranch(c) => bnChainWork[c] <= bnChainWork[b]
Converges == <>[](Heaviest(pindexBest))
=============================================================================
