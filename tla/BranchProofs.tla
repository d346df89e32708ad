---------------------------- MODULE BranchProofs ----------------------------
(***************************************************************************)
(* The block database holds exactly one valid branch, and the wallet       *)
(* follows it: theorems about BlockChain and Ledger for every tree of      *)
(* blocks.                                                                 *)
(*                                                                         *)
(* What the code lets happen and makes a statement false is excluded: a    *)
(* coinbase that occurs twice in a branch; a postponed block that fails    *)
(* and still becomes pindexBest; for the wallet, a transaction in two      *)
(* blocks, or a switch that is cut short after it has told of a block.     *)
(***************************************************************************)
EXTENDS BlockChainProofs, FiniteSetTheorems

Occurrences(b) == Promised!Occurrences(b)
TxAt(x)        == Promised!TxAt(x)
Before(x, y)   == Promised!Before(x, y)
IndexOf(b)     == Promised!IndexOf(b)
ValidBranch(b) == Promised!ValidBranch(b)

\* No branch holds the same coinbase in two blocks.
CoinBasesAreUnique ==
    \A b \in Block : \A x, y \in Occurrences(b) :
        TxAt(x) = TxAt(y) /\ TxAt(x) \in CoinBase => x[1] = y[1]

\* What SetBestChain takes for granted of the blocks it postponed.
PostponedNeverFails == [][pc = "connect" => pc' # "newbest"]_vars

\* Then the block that becomes the best one in memory is the one the database names.
BestIsStored ==
    /\ pc \in {"idle", "orphans", "setbest", "disconnect"} => pindexBest = diskBest
    /\ pc \in {"connect", "commit"} /\ ~fSecondary => pindexBest = diskBest
    /\ pc = "newbest" => pindexNew = diskBest

\* Scripts are checked in every block, or all are good.
ScriptsAreChecked == TotalBlocksEstimate = 0 \/ BadScript = {}

-----------------------------------------------------------------------------
\* The part of ValidBranch that the index depends on: no transaction twice,
\* and every input is the one spender of an output that exists before it.
Sound(b) ==
    /\ \A x, y \in Occurrences(b) : TxAt(x) = TxAt(y) => x = y
    /\ \A y \in Occurrences(b) : \A o \in vin[TxAt(y)] :
          /\ \E x \in Occurrences(b) : TxAt(x) = o[1] /\ Before(x, y)
          /\ o[2] \in DOMAIN vout[o[1]]
          /\ \A z \in Occurrences(b) : o \in vin[TxAt(z)] => z = y

\* next links the blocks of the branch of b, and nothing else.
Links(b, next) == \A a, c \in Block : next[a] = c <=> c \in Branch[b] /\ hashPrevBlock[c] = a

\* A database, or an open transaction of one, that holds the branch of b.
Holds(b, txdb, next) ==
    /\ txdb = IndexOf(b) /\ Links(b, next)
    /\ Sound(b) /\ (ScriptsAreChecked => ValidBranch(b))

\* What SetBestChain decided: how far it goes in this transaction, what it
\* disconnects and connects for it, and what it postpones.
Planned ==
    /\ pc \in Switching =>
          /\ pindexIntermediate \in Branch[pindexNew]
          /\ vpindexSecondary = {d \in Branch[pindexNew] :
                                   bnChainWork[d] > bnChainWork[pindexIntermediate]}
    /\ pc \in {"disconnect", "connect", "commit"} =>
          /\ vDisconnect = Branch[diskBest] \ Branch[pindexIntermediate]
          /\ vConnect = Branch[pindexIntermediate] \ Branch[diskBest]
    /\ pc \in {"idle", "orphans", "setbest"} =>
          done = {} /\ vResurrect = <<>>

\* How far the open transaction has come.
Progress ==
    /\ pc = "disconnect" =>
          /\ done \subseteq vDisconnect
          /\ \E t \in Block : Branch[t] = Branch[diskBest] \ done /\ Holds(t, txnTx, txnNext)
    /\ pc = "connect" =>
          /\ done \subseteq vConnect
          /\ \E t \in Block : /\ Branch[t] = (Branch[pindexIntermediate] \ vConnect) \cup done
                              /\ Holds(t, txnTx, txnNext)
    /\ pc = "commit" => Holds(pindexIntermediate, txnTx, txnNext)
    /\ pc \notin {"disconnect", "connect", "commit"} => txnTx = diskTx /\ txnNext = diskNext

\* The database between two transactions, and the memory index.
Stored ==
    /\ Holds(diskBest, diskTx, diskNext)
    /\ pnext = diskNext /\ mapBlockIndex = diskIndex
    /\ ScriptsAreChecked => \A b \in relayed : ValidBranch(b)

\* The pool and the transactions on their way back to it stay clear of the
\* blocks that are not being connected.
Clear ==
    /\ pc # "resurrect" => \A t \in mapTx : diskTx[t] = Null
    /\ pc = "resurrect" => \A t \in mapTx, x \in Occurrences(diskBest) :
                              TxAt(x) = t => x[1] \in vConnect
    /\ pc \in Switching => \A i \in DOMAIN vResurrect, x \in Occurrences(pindexIntermediate) :
                              TxAt(x) = vResurrect[i] => x[1] \in vConnect

BranchInv == Planned /\ Progress /\ Stored /\ Clear

-----------------------------------------------------------------------------
(***************************************************************************)
(* The tree of blocks.                                                     *)
(***************************************************************************)
\* A branch starts at genesis and ends at its block.
LEMMA BranchEnds ==
    ASSUME NEW b \in Block
    PROVE  b \in Branch[b] /\ Genesis \in Branch[b] /\ Branch[b] \subseteq Block
<1> DEFINE T == {x \in Block : Genesis \notin Branch[x]}
<1>1. T = {}
  <2>1. SUFFICES ASSUME T # {} PROVE FALSE
    OBVIOUS
  <2>2. PICK x \in T : \A y \in T : <<y, x>> \notin Lower
    BY <2>1, LowerIsWellFounded, WFMin
  <2>3. x # Genesis
    BY ChainDataAssumption
  <2>4. hashPrevBlock[x] \in Block /\ <<hashPrevBlock[x], x>> \in Lower
    BY <2>3, TreeFacts DEF Lower
  <2> QED
    BY <2>2, <2>3, <2>4, TreeFacts
<1>2. b \in Branch[b]
  <2>1. CASE b = Genesis
    BY <2>1, ChainDataAssumption
  <2>2. CASE b # Genesis
    BY <2>2, TreeFacts
  <2> QED
    BY <2>1, <2>2
<1>3. Branch[b] \subseteq Block
  BY ChainDataAssumption
<1> QED
  BY <1>1, <1>2, <1>3

\* The branch of a block holds the branches of its blocks, which are lower.
LEMMA BranchClosed ==
    ASSUME NEW b \in Block, NEW c \in Branch[b]
    PROVE  /\ c \in Block /\ Branch[c] \subseteq Branch[b]
           /\ nHeight[c] <= nHeight[b]
           /\ c # b => nHeight[c] < nHeight[b]
<1> DEFINE Good(x, y) == /\ Branch[y] \subseteq Branch[x] /\ nHeight[y] <= nHeight[x]
                         /\ y # x => nHeight[y] < nHeight[x]
           T == {x \in Block : \E y \in Branch[x] : ~Good(x, y)}
<1>1. T = {}
  <2>1. SUFFICES ASSUME T # {} PROVE FALSE
    OBVIOUS
  <2>2. PICK x \in T : \A y \in T : <<y, x>> \notin Lower
    BY <2>1, LowerIsWellFounded, WFMin
  <2>3. nHeight[x] \in Nat
    BY ChainDataAssumption
  <2>4. x # Genesis
    BY <2>3, ChainDataAssumption
  <2> DEFINE p == hashPrevBlock[x]
  <2>5. p \in Block /\ nHeight[p] < nHeight[x] /\ Branch[x] = {x} \cup Branch[p]
    BY <2>4, TreeFacts
  <2>6. p \notin T
    BY <2>2, <2>5 DEF Lower
  <2>7. ASSUME NEW y \in Branch[x] PROVE Good(x, y)
    <3>1. CASE y = x
      BY <2>3, <3>1
    <3>2. CASE y \in Branch[p]
      <4>1. Good(p, y)
        BY <2>5, <2>6, <3>2
      <4>2. nHeight[p] \in Nat /\ nHeight[y] \in Nat
        BY <2>5, <3>2, ChainDataAssumption
      <4> QED
        BY <2>3, <2>5, <4>1, <4>2
    <3> QED
      BY <2>5, <3>1, <3>2
  <2> HIDE DEF Good
  <2> QED
    BY <2>2, <2>7
<1>2. Good(b, c)
  BY <1>1
<1> QED
  BY <1>2, ChainDataAssumption

\* The blocks of a branch follow one another: of two, the lower is in the
\* branch of the other.
LEMMA BranchIsChain ==
    ASSUME NEW b \in Block, NEW a \in Branch[b], NEW c \in Branch[b],
           nHeight[a] <= nHeight[c]
    PROVE  a \in Branch[c]
<1> DEFINE Bad(x, y, z) == nHeight[y] <= nHeight[z] /\ y \notin Branch[z]
           T == {x \in Block : \E y, z \in Branch[x] : Bad(x, y, z)}
<1>1. T = {}
  <2>1. SUFFICES ASSUME T # {} PROVE FALSE
    OBVIOUS
  <2> HIDE DEF Bad
  <2>2. PICK x \in T : \A y \in T : <<y, x>> \notin Lower
    BY <2>1, LowerIsWellFounded, WFMin
  <2> USE DEF Bad
  <2>3. PICK y \in Branch[x], z \in Branch[x] : Bad(x, y, z)
    BY <2>2
  <2>4. x # Genesis
    BY <2>3, ChainDataAssumption
  <2> DEFINE p == hashPrevBlock[x]
  <2>5. p \in Block /\ nHeight[p] < nHeight[x] /\ Branch[x] = {x} \cup Branch[p]
    BY <2>4, TreeFacts
  <2>6. p \notin T
    BY <2>2, <2>5 DEF Lower
  <2>7. z # x
    BY <2>3
  <2>8. z \in Branch[p] /\ nHeight[z] <= nHeight[p]
    BY <2>5, <2>7, BranchClosed
  <2>9. nHeight[x] \in Nat /\ nHeight[p] \in Nat /\ nHeight[z] \in Nat
    BY <2>5, <2>8, BranchClosed, ChainDataAssumption
  <2>10. y # x
    BY <2>3, <2>5, <2>8, <2>9
  <2> QED
    BY <2>3, <2>5, <2>6, <2>8, <2>10
<1> QED
  BY <1>1

\* A block is named by its branch.
LEMMA BranchNames ==
    ASSUME NEW a \in Block, NEW b \in Block, Branch[a] = Branch[b]
    PROVE  a = b
<1>1. a \in Branch[b] /\ b \in Branch[a]
  BY BranchEnds
<1>2. nHeight[a] \in Nat /\ nHeight[b] \in Nat
  BY ChainDataAssumption
<1> QED
  BY <1>1, <1>2, BranchClosed

\* Along a branch the work grows with the height.
LEMMA BranchWorkOrder ==
    ASSUME NEW b \in Block, NEW a \in Branch[b], NEW c \in Branch[b],
           bnChainWork[a] < bnChainWork[c]
    PROVE  a \in Branch[c] /\ a # c
<1>1. /\ a \in Block /\ c \in Block /\ bnChainWork[a] \in Nat /\ bnChainWork[c] \in Nat
      /\ nHeight[a] \in Nat /\ nHeight[c] \in Nat
  BY BranchClosed, ChainDataAssumption
<1>2. CASE nHeight[a] <= nHeight[c]
  BY <1>1, <1>2, BranchIsChain
<1>3. CASE nHeight[c] <= nHeight[a]
  <2>1. c \in Branch[a]
    BY <1>3, BranchIsChain
  <2> QED
    BY <1>1, <2>1, BranchWork
<1> QED
  BY <1>1, <1>2, <1>3

\* A block below the end of its branch is in the branch of the end's parent.
LEMMA BelowIsInParent ==
    ASSUME NEW b \in Block, NEW a \in Branch[b], a # b
    PROVE  /\ b # Genesis /\ hashPrevBlock[b] \in Block
           /\ a \in Branch[hashPrevBlock[b]]
           /\ Branch[hashPrevBlock[b]] = Branch[b] \ {b}
<1>1. b # Genesis
  BY ChainDataAssumption
<1>2. /\ hashPrevBlock[b] \in Block /\ nHeight[hashPrevBlock[b]] < nHeight[b]
      /\ Branch[b] = {b} \cup Branch[hashPrevBlock[b]]
  BY <1>1, TreeFacts
<1>3. b \notin Branch[hashPrevBlock[b]]
  <2>1. nHeight[b] \in Nat /\ nHeight[hashPrevBlock[b]] \in Nat
    BY <1>2, ChainDataAssumption
  <2> QED
    BY <1>2, <2>1, BranchClosed
<1> QED
  BY <1>1, <1>2, <1>3

\* The highest block left to disconnect is the end of the branch that remains,
\* and its parent is the end after it.
LEMMA DisconnectTakesTip ==
    ASSUME NEW best \in Block, NEW c \in Block, NEW D, D \subseteq Branch[best] \ Branch[c],
           NEW t \in Block, Branch[t] = Branch[best] \ D,
           NEW b \in (Branch[best] \ Branch[c]) \ D,
           \A d \in (Branch[best] \ Branch[c]) \ D : nHeight[d] <= nHeight[b]
    PROVE  /\ b = t /\ b # Genesis /\ hashPrevBlock[b] \in Block
           /\ Branch[hashPrevBlock[b]] = Branch[best] \ (D \cup {b})
<1>1. t \in Branch[t] /\ b \in Branch[t] /\ b \in Block
  BY BranchEnds, ChainDataAssumption
<1>2. t \notin Branch[c]
  BY <1>1, BranchClosed
<1>3. nHeight[t] <= nHeight[b]
  BY <1>1, <1>2
<1>4. b = t
  <2>1. nHeight[t] \in Nat /\ nHeight[b] \in Nat
    BY <1>1, ChainDataAssumption
  <2> QED
    BY <1>1, <1>3, <2>1, BranchClosed
<1>5. Genesis \in Branch[t] /\ Genesis # b
  BY BranchEnds
<1> QED
  BY <1>4, <1>5, BelowIsInParent

\* The lowest block left to connect has the end of the branch as its parent.
LEMMA ConnectTakesChild ==
    ASSUME NEW c \in Block, NEW K, K \subseteq Branch[c], NEW D, D \subseteq K,
           NEW t \in Block, Branch[t] = (Branch[c] \ K) \cup D,
           NEW b \in K \ D, \A d \in K \ D : nHeight[b] <= nHeight[d]
    PROVE  /\ b \in Block /\ b # Genesis /\ hashPrevBlock[b] = t
           /\ Branch[b] = (Branch[c] \ K) \cup (D \cup {b})
<1>1. /\ b \in Block /\ b \in Branch[c] /\ b \notin Branch[t]
      /\ t \in Branch[t] /\ t \in Branch[c] /\ Genesis \in Branch[t]
  BY BranchEnds
<1>2. b # Genesis
  BY <1>1
<1> DEFINE p == hashPrevBlock[b]
<1>3. p \in Block /\ nHeight[p] < nHeight[b] /\ Branch[b] = {b} \cup Branch[p]
  BY <1>1, <1>2, TreeFacts
<1>4. nHeight[p] \in Nat /\ nHeight[b] \in Nat /\ nHeight[t] \in Nat
  BY <1>1, <1>3, ChainDataAssumption
<1>5. p \in Branch[c] /\ p \in Branch[p]
  BY <1>1, <1>3, BranchEnds, BranchClosed
<1>6. p \in Branch[t]
  BY <1>3, <1>4, <1>5
<1>7. Branch[p] \subseteq Branch[t]
  BY <1>6, BranchClosed
<1>8. nHeight[t] < nHeight[b]
  <2>1. SUFFICES ASSUME nHeight[b] <= nHeight[t] PROVE FALSE
    BY <1>4
  <2> QED
    BY <1>1, <2>1, BranchIsChain
<1>9. t \in Branch[b] /\ t # b
  BY <1>1, <1>4, <1>8, BranchIsChain
<1>10. Branch[t] \subseteq Branch[p]
  BY <1>1, <1>3, <1>9, BranchClosed
<1>11. t = p
  BY <1>3, <1>7, <1>10, BranchNames
<1> QED
  BY <1>1, <1>2, <1>3, <1>11

\* The next postponed block is the child of the block reached so far.
LEMMA PostponedIsChild ==
    ASSUME NEW n \in Block, NEW i \in Branch[n],
           NEW b \in Branch[n], bnChainWork[b] > bnChainWork[i],
           \A d \in Branch[n] : bnChainWork[d] > bnChainWork[i] /\ d # b =>
                                  bnChainWork[d] > bnChainWork[b]
    PROVE  b # Genesis /\ hashPrevBlock[b] = i
<1>1. i \in Block /\ b \in Block /\ bnChainWork[i] \in Nat /\ bnChainWork[b] \in Nat
  BY BranchClosed, ChainDataAssumption
<1>2. i \in Branch[b] /\ i # b
  BY <1>1, BranchWorkOrder
<1> DEFINE p == hashPrevBlock[b]
<1>3. b # Genesis /\ p \in Block /\ i \in Branch[p] /\ p \in Branch[p]
  BY <1>1, <1>2, BelowIsInParent, BranchEnds
<1>4. p \in Branch[n] /\ bnChainWork[p] < bnChainWork[b] /\ bnChainWork[p] \in Nat
  BY <1>1, <1>3, TreeFacts, BranchClosed, ChainDataAssumption
<1>5. bnChainWork[p] <= bnChainWork[i]
  BY <1>1, <1>3, <1>4
<1>6. CASE i # p
  <2>1. p # Genesis /\ hashPrevBlock[p] \in Block /\ i \in Branch[hashPrevBlock[p]]
    BY <1>3, <1>6, BelowIsInParent
  <2>2. bnChainWork[hashPrevBlock[p]] < bnChainWork[p]
    BY <1>3, <2>1, TreeFacts
  <2>3. bnChainWork[i] <= bnChainWork[hashPrevBlock[p]]
    BY <2>1, BranchWork
  <2>4. bnChainWork[hashPrevBlock[p]] \in Nat
    BY <2>1, ChainDataAssumption
  <2> QED
    BY <1>1, <1>4, <1>5, <2>2, <2>3, <2>4
<1> QED
  BY <1>3, <1>6

-----------------------------------------------------------------------------
(***************************************************************************)
(* Where transactions occur in a branch.                                   *)
(***************************************************************************)
\* The occurrences in a branch are the positions of its blocks above genesis.
LEMMA OccurrenceFacts ==
    ASSUME NEW b \in Block, NEW x \in Occurrences(b)
    PROVE  /\ x[1] \in Branch[b] \ {Genesis} /\ x[1] \in Block
           /\ x[2] \in DOMAIN vtx[x[1]] /\ x[2] \in 1..Len(vtx[x[1]])
           /\ x = <<x[1], x[2]>>
           /\ TxAt(x) = vtx[x[1]][x[2]] /\ TxAt(x) \in Tx
           /\ nHeight[x[1]] \in Nat /\ nHeight[x[1]] <= nHeight[b]
<1>1. PICK c \in Branch[b] \ {Genesis} : \E i \in DOMAIN vtx[c] : x = <<c, i>>
  BY DEF Occurrences, Promised!Occurrences
<1> PICK i \in DOMAIN vtx[c] : x = <<c, i>>
  BY <1>1
<1>2. c \in Block /\ vtx[c] \in Seq(Tx)
  BY ChainDataAssumption
<1>3. i \in 1..Len(vtx[c]) /\ vtx[c][i] \in Tx
  BY <1>1, <1>2, LenProperties, ElementOfSeq
<1>4. nHeight[c] \in Nat /\ nHeight[c] <= nHeight[b]
  BY <1>2, BranchClosed, ChainDataAssumption
<1> QED
  BY <1>1, <1>2, <1>3, <1>4 DEF TxAt, Promised!TxAt

LEMMA OccurrenceAt ==
    ASSUME NEW b \in Block, NEW c \in Branch[b] \ {Genesis}, NEW i \in DOMAIN vtx[c]
    PROVE  <<c, i>> \in Occurrences(b) /\ TxAt(<<c, i>>) = vtx[c][i]
BY DEF Occurrences, Promised!Occurrences, TxAt, Promised!TxAt

\* The occurrences of a branch are those of the parent's branch, which are
\* lower, and those of the block itself.
LEMMA OccurrencesSplit ==
    ASSUME NEW b \in Block, b # Genesis
    PROVE  /\ Occurrences(hashPrevBlock[b]) \subseteq Occurrences(b)
           /\ \A x \in Occurrences(b) :
                 \/ x \in Occurrences(hashPrevBlock[b])
                 \/ x[1] = b
           /\ \A x \in Occurrences(hashPrevBlock[b]) :
                 x[1] # b /\ nHeight[x[1]] < nHeight[b]
<1> DEFINE p == hashPrevBlock[b]
<1>1. p \in Block /\ nHeight[p] < nHeight[b] /\ Branch[b] = {b} \cup Branch[p]
  BY TreeFacts
<1>2. Occurrences(p) \subseteq Occurrences(b)
  BY <1>1 DEF Occurrences, Promised!Occurrences
<1>3. ASSUME NEW x \in Occurrences(b), x[1] # b PROVE x \in Occurrences(p)
  <2>1. x[1] \in Branch[p] \ {Genesis} /\ x[2] \in DOMAIN vtx[x[1]] /\ x = <<x[1], x[2]>>
    BY <1>1, <1>3, OccurrenceFacts
  <2> QED
    BY <1>1, <2>1, OccurrenceAt
<1>4. ASSUME NEW x \in Occurrences(p) PROVE x[1] # b /\ nHeight[x[1]] < nHeight[b]
  <2>1. nHeight[x[1]] \in Nat /\ nHeight[x[1]] <= nHeight[p]
    BY <1>1, OccurrenceFacts
  <2>2. nHeight[p] \in Nat /\ nHeight[b] \in Nat
    BY <1>1, ChainDataAssumption
  <2> QED
    BY <1>1, <2>1, <2>2
<1> QED
  BY <1>2, <1>3, <1>4

\* The transaction that spends o in the branch of b.
SpenderIn(b, o) ==
    LET s == {u \in {TxAt(x) : x \in Occurrences(b)} : o \in vin[u]}
    IN  IF s = {} THEN Null ELSE CHOOSE u \in s : TRUE

LEMMA SpenderFacts ==
    ASSUME NEW b \in Block, Sound(b), NEW o
    PROVE  /\ \A y \in Occurrences(b) : o \in vin[TxAt(y)] => SpenderIn(b, o) = TxAt(y)
           /\ (\A y \in Occurrences(b) : o \notin vin[TxAt(y)]) => SpenderIn(b, o) = Null
<1>1. ASSUME NEW y \in Occurrences(b), o \in vin[TxAt(y)] PROVE SpenderIn(b, o) = TxAt(y)
  <2>1. \A z \in Occurrences(b) : o \in vin[TxAt(z)] => z = y
    BY <1>1 DEF Sound
  <2> QED
    BY <1>1, <2>1 DEF SpenderIn
<1> QED
  BY <1>1 DEF SpenderIn

\* The entries of the index of a branch.
LEMMA IndexEntries ==
    ASSUME NEW b \in Block, Sound(b)
    PROVE  /\ IndexOf(b) = [t \in Tx |-> IndexOf(b)[t]]
           /\ \A x \in Occurrences(b) :
                 IndexOf(b)[TxAt(x)] =
                   [pos |-> x[1], vSpent |-> [n \in 1..Len(vout[TxAt(x)]) |->
                                                SpenderIn(b, <<TxAt(x), n>>)]]
           /\ \A t \in Tx : (\A x \in Occurrences(b) : TxAt(x) # t) => IndexOf(b)[t] = Null
<1>1. IndexOf(b) = [t \in Tx |-> IndexOf(b)[t]]
  BY DEF IndexOf, Promised!IndexOf
<1>2. ASSUME NEW x \in Occurrences(b)
      PROVE  IndexOf(b)[TxAt(x)] =
                   [pos |-> x[1], vSpent |-> [n \in 1..Len(vout[TxAt(x)]) |->
                                                SpenderIn(b, <<TxAt(x), n>>)]]
  <2>1. {y \in Occurrences(b) : TxAt(y) = TxAt(x)} = {x}
    BY <1>2 DEF Sound
  <2>2. TxAt(x) \in Tx
    BY OccurrenceFacts
  <2>3. (CHOOSE y \in {x} : TRUE) = x
    OBVIOUS
  <2> QED
    BY <2>1, <2>2, <2>3 DEF IndexOf, Promised!IndexOf, SpenderIn, Occurrences, TxAt
<1>3. ASSUME NEW t \in Tx, \A x \in Occurrences(b) : TxAt(x) # t
      PROVE  IndexOf(b)[t] = Null
  <2>1. {x \in Occurrences(b) : TxAt(x) = t} = {}
    BY <1>3
  <2> QED
    BY <2>1 DEF IndexOf, Promised!IndexOf, Occurrences, TxAt
<1> QED
  BY <1>1, <1>2, <1>3

\* A prefix of a sound branch is sound.
LEMMA ParentIsSound ==
    ASSUME NEW b \in Block, b # Genesis, Sound(b)
    PROVE  Sound(hashPrevBlock[b])
<1> DEFINE p == hashPrevBlock[b]
<1>1. p \in Block
  BY TreeFacts
<1>2. ASSUME NEW y \in Occurrences(p), NEW o \in vin[TxAt(y)]
      PROVE  \E x \in Occurrences(p) : TxAt(x) = o[1] /\ Before(x, y)
  <2>1. y \in Occurrences(b) /\ nHeight[y[1]] < nHeight[b]
    BY OccurrencesSplit
  <2>2. PICK x \in Occurrences(b) : TxAt(x) = o[1] /\ Before(x, y)
    BY <2>1 DEF Sound
  <2>3. nHeight[x[1]] < nHeight[y[1]] \/ x[1] = y[1]
    BY <2>2 DEF Before, Promised!Before
  <2>4. nHeight[y[1]] \in Nat /\ nHeight[b] \in Nat
    BY <2>1, OccurrenceFacts, ChainDataAssumption
  <2> QED
    BY <2>1, <2>2, <2>3, <2>4, OccurrencesSplit
<1> QED
  BY <1>2, OccurrencesSplit DEF Sound

\* A prefix of a valid branch is valid.
LEMMA ParentIsValid ==
    ASSUME NEW b \in Block, b # Genesis, ValidBranch(b), Sound(b)
    PROVE  ValidBranch(hashPrevBlock[b])
<1> DEFINE p == hashPrevBlock[b]
<1>1. p \in Block /\ Branch[p] \subseteq Branch[b]
  BY TreeFacts
<1>2. \A c \in Branch[p] \ {Genesis} :
         CheckBlock(c) /\ GetValueOut(vtx[c][1]) <= GetBlockValue(nHeight[c], Fees(c))
  BY <1>1 DEF ValidBranch, Promised!ValidBranch
<1>3. Sound(p)
  BY ParentIsSound
<1>4. ASSUME NEW y \in Occurrences(p) PROVE Promised!SpendsProperly(p, y)
  <2>1. y \in Occurrences(b) /\ Occurrences(p) \subseteq Occurrences(b)
    BY OccurrencesSplit
  <2>2. Promised!SpendsProperly(b, y)
    BY <2>1 DEF ValidBranch, Promised!ValidBranch, Occurrences
  <2>3. ASSUME NEW o \in vin[TxAt(y)]
        PROVE  /\ \E x \in Occurrences(p) :
                     /\ TxAt(x) = o[1] /\ Before(x, y)
                     /\ o[1] \in CoinBase
                          => nHeight[y[1]] - nHeight[x[1]] >= COINBASE_MATURITY
               /\ o[2] \in DOMAIN vout[o[1]] /\ MoneyRange(vout[o[1]][o[2]])
               /\ \A z \in Occurrences(p) : o \in vin[TxAt(z)] => z = y
    <3>1. PICK x \in Occurrences(p) : TxAt(x) = o[1] /\ Before(x, y)
      BY <1>3 DEF Sound
    <3>2. PICK w \in Occurrences(b) :
             /\ TxAt(w) = o[1]
             /\ o[1] \in CoinBase => nHeight[y[1]] - nHeight[w[1]] >= COINBASE_MATURITY
             /\ MoneyRange(vout[o[1]][o[2]])
      BY <2>2 DEF Promised!SpendsProperly, Occurrences, TxAt
    <3>3. w = x
      BY <2>1, <3>1, <3>2 DEF Sound
    <3> QED
      BY <1>3, <3>1, <3>2, <3>3 DEF Sound
  <2> QED
    BY <2>2, <2>3 DEF Promised!SpendsProperly, Occurrences, TxAt, Before
<1> QED
  BY <1>2, <1>3, <1>4 DEF ValidBranch, Promised!ValidBranch, Sound, Occurrences, TxAt

\* The index needs of a branch what every valid branch has.
LEMMA ValidIsSound ==
    ASSUME NEW b \in Block, ValidBranch(b)
    PROVE  Sound(b)
<1>1. ASSUME NEW y \in Occurrences(b) PROVE Promised!SpendsProperly(b, y)
  BY DEF ValidBranch, Promised!ValidBranch, Occurrences
<1> QED
  BY <1>1 DEF Sound, ValidBranch, Promised!ValidBranch, Promised!SpendsProperly,
              Occurrences, TxAt, Before

\* Every block of a valid branch ends a valid branch.
LEMMA AncestorIsValid ==
    ASSUME NEW b \in Block, ValidBranch(b), NEW c \in Branch[b]
    PROVE  ValidBranch(c)
<1> DEFINE T == {x \in Block : ValidBranch(x) /\ \E y \in Branch[x] : ~ValidBranch(y)}
<1>1. T = {}
  <2>1. SUFFICES ASSUME T # {} PROVE FALSE
    OBVIOUS
  <2>2. PICK x \in T : \A y \in T : <<y, x>> \notin Lower
    BY <2>1, LowerIsWellFounded, WFMin
  <2>3. PICK y \in Branch[x] : ~ValidBranch(y)
    BY <2>2
  <2>4. y # x
    BY <2>2, <2>3
  <2> DEFINE p == hashPrevBlock[x]
  <2>5. x # Genesis /\ p \in Block /\ y \in Branch[p]
    BY <2>2, <2>4, BelowIsInParent
  <2>6. ValidBranch(p)
    BY <2>2, <2>5, ValidIsSound, ParentIsValid
  <2>7. <<p, x>> \in Lower
    BY <2>5, TreeFacts DEF Lower
  <2> QED
    BY <2>2, <2>3, <2>5, <2>6, <2>7
<1> QED
  BY <1>1

\* The transactions of a block that spend o: at most one in a sound branch.
LEMMA SpendersInBlock ==
    ASSUME NEW b \in Block, NEW lo \in Nat, lo >= 1, NEW hi \in 0..Len(vtx[b]), NEW o
    PROVE  /\ Spenders(b, lo, hi, o) = {vtx[b][k] : k \in {j \in lo..hi : o \in vin[vtx[b][j]]}}
           /\ lo..hi \subseteq DOMAIN vtx[b]
           /\ Spenders(b, lo, hi, o) \subseteq Tx
<1>1. vtx[b] \in Seq(Tx)
  BY ChainDataAssumption
<1>2. Len(vtx[b]) \in Nat /\ DOMAIN vtx[b] = 1..Len(vtx[b])
      /\ \A i \in DOMAIN vtx[b] : vtx[b][i] \in Tx
  BY <1>1, ElementOfSeq, LenProperties
<1>3. lo..hi \subseteq DOMAIN vtx[b]
  BY <1>2
<1> QED
  BY <1>2, <1>3 DEF Spenders

\* DisconnectBlock of the last block leaves the index of the parent's branch.
LEMMA DisconnectGivesParent ==
    ASSUME NEW b \in Block, b # Genesis, Sound(b)
    PROVE  DisconnectBlock(IndexOf(b), b) = IndexOf(hashPrevBlock[b])
<1> DEFINE p == hashPrevBlock[b]
           len == Len(vtx[b])
<1>1. p \in Block /\ Sound(p) /\ b \in Branch[b] \ {Genesis}
  BY TreeFacts, ParentIsSound, BranchEnds
<1>2. len \in Nat /\ DOMAIN vtx[b] = 1..len
  BY ChainDataAssumption, LenProperties
<1> HIDE DEF len
<1>3. ASSUME NEW t \in Tx PROVE DisconnectBlock(IndexOf(b), b)[t] = IndexOf(p)[t]
  <2>1. CASE t \in TxsOf(b)
    <3>1. PICK k \in DOMAIN vtx[b] : t = vtx[b][k]
      BY <2>1 DEF TxsOf
    <3>2. <<b, k>> \in Occurrences(b) /\ TxAt(<<b, k>>) = t
      BY <1>1, <3>1, OccurrenceAt
    <3>3. \A x \in Occurrences(p) : TxAt(x) # t
      BY <3>2, OccurrencesSplit DEF Sound
    <3> QED
      BY <1>1, <2>1, <3>3, IndexEntries DEF DisconnectBlock
  <2>2. CASE t \notin TxsOf(b) /\ \E x \in Occurrences(p) : TxAt(x) = t
    <3>1. PICK x \in Occurrences(p) : TxAt(x) = t
      BY <2>2
    <3> DEFINE entry(c) == [pos |-> x[1], vSpent |-> [n \in 1..Len(vout[t]) |->
                                                        SpenderIn(c, <<t, n>>)]]
    <3>2. x \in Occurrences(b)
      BY <3>1, OccurrencesSplit
    <3>3. IndexOf(b)[t] = entry(b) /\ IndexOf(p)[t] = entry(p)
      BY <1>1, <3>1, <3>2, IndexEntries
    <3>4. ASSUME NEW n \in 1..Len(vout[t])
          PROVE  (IF Spenders(b, 1, len, <<t, n>>) = {}
                  THEN SpenderIn(b, <<t, n>>) ELSE Null) = SpenderIn(p, <<t, n>>)
      <4> DEFINE o == <<t, n>>
      <4>1. Spenders(b, 1, len, o) = {vtx[b][k] : k \in {j \in 1..len : o \in vin[vtx[b][j]]}}
        BY DEF Spenders
      <4>2. CASE \E y \in Occurrences(b) : o \in vin[TxAt(y)] /\ y[1] = b
        <5>1. PICK y \in Occurrences(b) : o \in vin[TxAt(y)] /\ y[1] = b
          BY <4>2
        <5>2. y[2] \in 1..len /\ TxAt(y) = vtx[b][y[2]]
          BY <5>1, OccurrenceFacts DEF len
        <5>3. Spenders(b, 1, len, o) # {}
          BY <4>1, <5>1, <5>2
        <5>4. \A z \in Occurrences(p) : o \notin vin[TxAt(z)]
          BY <5>1, OccurrencesSplit DEF Sound
        <5>5. SpenderIn(p, o) = Null
          BY <1>1, <5>4, SpenderFacts
        <5> QED
          BY <5>3, <5>5
      <4>3. CASE \A y \in Occurrences(b) : o \in vin[TxAt(y)] => y[1] # b
        <5>1. ASSUME NEW k \in 1..len PROVE o \notin vin[vtx[b][k]]
          <6>1. <<b, k>> \in Occurrences(b) /\ TxAt(<<b, k>>) = vtx[b][k] /\ <<b, k>>[1] = b
            BY <1>1, <1>2, OccurrenceAt
          <6> QED
            BY <4>3, <6>1
        <5>2. Spenders(b, 1, len, o) = {}
          BY <4>1, <5>1
        <5>3. SpenderIn(b, o) = SpenderIn(p, o)
          BY <1>1, <4>3, SpenderFacts, OccurrencesSplit
        <5> QED
          BY <5>2, <5>3
      <4> QED
        BY <4>2, <4>3
    <3>5. entry(b) # Null
      <4>1. x[1] \in Block
        BY <3>2, OccurrenceFacts
      <4>2. \A n \in 1..Len(vout[t]) : SpenderIn(b, <<t, n>>) \in Tx \cup {Null}
        BY SpenderFacts, OccurrenceFacts
      <4>3. entry(b) \in CTxIndex(t)
        BY <4>1, <4>2 DEF CTxIndex
      <4> QED
        BY <4>3, NullAssumption
    <3>6. DisconnectBlock(IndexOf(b), b)[t] =
            [pos    |-> entry(b).pos,
             vSpent |-> [n \in DOMAIN entry(b).vSpent |->
                           IF Spenders(b, 1, len, <<t, n>>) = {}
                           THEN entry(b).vSpent[n] ELSE Null]]
      BY <2>2, <3>3, <3>5 DEF DisconnectBlock, len
    <3>7. /\ entry(b).pos = x[1] /\ DOMAIN entry(b).vSpent = 1..Len(vout[t])
          /\ \A n \in 1..Len(vout[t]) : entry(b).vSpent[n] = SpenderIn(b, <<t, n>>)
      OBVIOUS
    <3>8. DisconnectBlock(IndexOf(b), b)[t] = entry(p)
      BY <3>4, <3>6, <3>7
    <3> QED
      BY <3>3, <3>8
  <2>3. CASE t \notin TxsOf(b) /\ \A x \in Occurrences(p) : TxAt(x) # t
    <3>1. \A x \in Occurrences(b) : TxAt(x) # t
      BY <2>3, OccurrencesSplit, OccurrenceFacts DEF TxsOf
    <3> QED
      BY <1>1, <2>3, <3>1, IndexEntries DEF DisconnectBlock
  <2> QED
    BY <2>1, <2>2, <2>3
<1>4. IndexOf(p) = [t \in Tx |-> IndexOf(p)[t]]
  BY <1>1, IndexEntries
<1> QED
  BY <1>3, <1>4 DEF DisconnectBlock

\* The last block of a sound branch can be disconnected: the entries its inputs
\* point to are there, and none is erased before its spender is undone.
LEMMA DisconnectIsPossible ==
    ASSUME NEW b \in Block, b # Genesis, Sound(b)
    PROVE  DisconnectBlockOK(IndexOf(b), b)
<1>1. b \in Branch[b] \ {Genesis}
  BY BranchEnds
<1>2. Len(vtx[b]) \in Nat /\ DOMAIN vtx[b] = 1..Len(vtx[b])
  BY ChainDataAssumption, LenProperties
<1> SUFFICES ASSUME NEW i \in DOMAIN vtx[b], NEW o \in vin[vtx[b][i]]
             PROVE  /\ IndexOf(b)[o[1]] # Null
                    /\ o[2] \in DOMAIN IndexOf(b)[o[1]].vSpent
                    /\ \A k \in i + 1 .. Len(vtx[b]) : vtx[b][k] # o[1]
  BY DEF DisconnectBlockOK
<1>3. <<b, i>> \in Occurrences(b) /\ TxAt(<<b, i>>) = vtx[b][i]
  BY <1>1, OccurrenceAt
<1>4. PICK x \in Occurrences(b) : TxAt(x) = o[1] /\ Before(x, <<b, i>>)
  BY <1>3 DEF Sound
<1>5. x[1] \in Block /\ o[1] \in Tx
  BY <1>4, OccurrenceFacts
<1>6. o[2] \in 1..Len(vout[o[1]])
  <2>1. o[2] \in DOMAIN vout[o[1]]
    BY <1>3 DEF Sound
  <2>2. vout[o[1]] \in Seq(Nat)
    BY <1>5, ChainDataAssumption
  <2> QED
    BY <2>1, <2>2, LenProperties
<1> DEFINE entry == [pos |-> x[1], vSpent |-> [n \in 1..Len(vout[o[1]]) |->
                                                 SpenderIn(b, <<o[1], n>>)]]
<1>7. IndexOf(b)[o[1]] = entry
  BY <1>4, IndexEntries
<1>8. entry # Null
  <2>1. \A n \in 1..Len(vout[o[1]]) : SpenderIn(b, <<o[1], n>>) \in Tx \cup {Null}
    BY SpenderFacts, OccurrenceFacts
  <2>2. entry \in CTxIndex(o[1])
    BY <1>5, <2>1 DEF CTxIndex
  <2> QED
    BY <1>5, <2>2, NullAssumption
<1>9. ASSUME NEW k \in i + 1 .. Len(vtx[b]), vtx[b][k] = o[1] PROVE FALSE
  <2>1. k \in DOMAIN vtx[b] /\ i < k
    BY <1>2
  <2>2. <<b, k>> \in Occurrences(b) /\ TxAt(<<b, k>>) = o[1]
    BY <1>1, <1>9, <2>1, OccurrenceAt
  <2>3. x = <<b, k>>
    BY <1>4, <2>2 DEF Sound
  <2>4. nHeight[b] < nHeight[b] \/ k < i
    BY <1>4, <2>3 DEF Before, Promised!Before
  <2>5. i \in Nat /\ k \in Nat
    BY <1>2, <2>1
  <2>6. nHeight[b] \in Nat
    BY ChainDataAssumption
  <2> QED
    BY <2>1, <2>4, <2>5, <2>6
<1> QED
  BY <1>6, <1>7, <1>8, <1>9

-----------------------------------------------------------------------------
(***************************************************************************)
(* Connecting a block.                                                     *)
(***************************************************************************)
\* A set of numbers that is not empty has a least one.
LEMMA LeastNumber ==
    ASSUME NEW S, S \subseteq Nat, S # {}
    PROVE  \E m \in S : \A n \in S : m <= n
<1>1. PICK m \in S : \A n \in S : ~(<<n, m>> \in OpToRel(<, Nat))
  BY NatLessThanWellFounded, WFMin
<1>2. ASSUME NEW n \in S, n < m PROVE FALSE
  <2>1. <<n, m>> \in OpToRel(<, Nat)
    BY <1>2 DEF OpToRel
  <2> QED
    BY <1>1, <2>1
<1>3. \A n \in S : m <= n
  BY <1>2
<1> QED
  BY <1>3

\* What FetchInputs finds for p after i transactions of b: the entry of a
\* transaction of the block, or else the one in the database.
LEMMA FetchFromBlock ==
    ASSUME NEW txdb, NEW b \in Block, CheckBlock(b), NEW i \in 0..Len(vtx[b]), NEW p \in Tx,
           NEW k \in 1..i, vtx[b][k] = p
    PROVE  Fetch(txdb, b, i, p) = Marked(NewTxIndex(p, b), p, b, k + 1, i)
<1>1. vtx[b] \in Seq(Tx)
  BY ChainDataAssumption
<1>2. DOMAIN vtx[b] = 1..Len(vtx[b]) /\ Len(vtx[b]) \in Nat
  BY <1>1, LenProperties
<1>3. \A m \in 1..i : vtx[b][m] = p => m = k
  BY <1>2 DEF CheckBlock
<1>4. (CHOOSE m \in 1..i : vtx[b][m] = p) = k
  BY <1>3
<1> QED
  BY <1>4 DEF Fetch

LEMMA FetchFromDatabase ==
    ASSUME NEW txdb, NEW b \in Block, NEW i \in 0..Len(vtx[b]), NEW p \in Tx,
           \A k \in 1..i : vtx[b][k] # p
    PROVE  Fetch(txdb, b, i, p) =
             IF txdb[p] = Null THEN Null ELSE Marked(txdb[p], p, b, 1, i)
BY DEF Fetch

\* What a marked entry contains.
LEMMA MarkedEntry ==
    ASSUME NEW p \in Tx, NEW b, NEW lo, NEW hi, NEW e \in CTxIndex(p), NEW n \in 1..Len(vout[p])
    PROVE  /\ Marked(e, p, b, lo, hi).pos = e.pos
           /\ DOMAIN Marked(e, p, b, lo, hi).vSpent = 1..Len(vout[p])
           /\ Marked(e, p, b, lo, hi).vSpent[n] =
                IF Spenders(b, lo, hi, <<p, n>>) = {} THEN e.vSpent[n]
                ELSE CHOOSE t \in Spenders(b, lo, hi, <<p, n>>) : TRUE
BY DEF Marked, CTxIndex

\* An entry is what it contains.
LEMMA SameEntry ==
    ASSUME NEW p \in Tx, NEW d \in CTxIndex(p), NEW e \in CTxIndex(p), d.pos = e.pos,
           \A n \in 1..Len(vout[p]) : d.vSpent[n] = e.vSpent[n]
    PROVE  d = e
<1>1. d = [pos |-> d.pos, vSpent |-> d.vSpent] /\ e = [pos |-> e.pos, vSpent |-> e.vSpent]
  BY DEF CTxIndex
<1>2. d.vSpent = e.vSpent
  BY DEF CTxIndex
<1> QED
  BY <1>1, <1>2

\* The index of a sound branch is well formed.
LEMMA IndexIsIndex ==
    ASSUME NEW b \in Block, Sound(b)
    PROVE  /\ IsTxIndex(IndexOf(b))
           /\ \A x \in Occurrences(b) :
                 /\ IndexOf(b)[TxAt(x)] \in CTxIndex(TxAt(x))
                 /\ IndexOf(b)[TxAt(x)] # Null
                 /\ IndexOf(b)[TxAt(x)].pos = x[1]
                 /\ \A n \in 1..Len(vout[TxAt(x)]) :
                       IndexOf(b)[TxAt(x)].vSpent[n] = SpenderIn(b, <<TxAt(x), n>>)
<1>1. ASSUME NEW x \in Occurrences(b)
      PROVE  /\ IndexOf(b)[TxAt(x)] \in CTxIndex(TxAt(x))
             /\ IndexOf(b)[TxAt(x)].pos = x[1]
             /\ \A n \in 1..Len(vout[TxAt(x)]) :
                   IndexOf(b)[TxAt(x)].vSpent[n] = SpenderIn(b, <<TxAt(x), n>>)
  <2> DEFINE t == TxAt(x)
  <2>1. x[1] \in Block
    BY OccurrenceFacts
  <2>2. \A n \in 1..Len(vout[t]) : SpenderIn(b, <<t, n>>) \in Tx \cup {Null}
    BY SpenderFacts, OccurrenceFacts
  <2>3. IndexOf(b)[t] = [pos |-> x[1], vSpent |-> [n \in 1..Len(vout[t]) |->
                                                     SpenderIn(b, <<t, n>>)]]
    BY IndexEntries
  <2> QED
    BY <2>1, <2>2, <2>3 DEF CTxIndex
<1>2. \A x \in Occurrences(b) : TxAt(x) \in Tx
  BY OccurrenceFacts
<1>3. \A x \in Occurrences(b) : IndexOf(b)[TxAt(x)] # Null
  BY <1>1, <1>2, NullAssumption
<1>4. \A t \in Tx : IndexOf(b)[t] \in CTxIndex(t) \cup {Null}
  BY <1>1, IndexEntries
<1>5. DOMAIN IndexOf(b) = Tx
  BY IndexEntries
<1> QED
  BY <1>1, <1>3, <1>4, <1>5 DEF IsTxIndex

\* b connects to the database that holds its parent's branch.
Connects(b, sig) ==
    /\ b # Genesis /\ Sound(hashPrevBlock[b])
    /\ ConnectBlockOK(IndexOf(hashPrevBlock[b]), b, sig)

\* An input that ConnectInputs passes: FetchInputs found its transaction earlier
\* in the block or in the database, and nothing there spends the output.
LEMMA InputIsFound ==
    ASSUME NEW b \in Block, NEW sig, Connects(b, sig),
           NEW i \in DOMAIN vtx[b], NEW o \in vin[vtx[b][i]],
           NEW f, f = Fetch(IndexOf(hashPrevBlock[b]), b, i - 1, o[1])
    PROVE  /\ o = <<o[1], o[2]>> /\ o[1] \in Tx /\ o[2] \in 1..Len(vout[o[1]])
           /\ o[1] \in CoinBase => f.pos \notin ImmatureIn(b)
           /\ MoneyRange(vout[o[1]][o[2]])
           /\ \/ \E k \in 1..i - 1 : /\ vtx[b][k] = o[1] /\ f.pos = b
                                     /\ Spenders(b, k + 1, i - 1, o) = {}
              \/ /\ \A k \in 1..i - 1 : vtx[b][k] # o[1]
                 /\ \E x \in Occurrences(hashPrevBlock[b]) : TxAt(x) = o[1] /\ f.pos = x[1]
                 /\ Spenders(b, 1, i - 1, o) = {}
                 /\ SpenderIn(hashPrevBlock[b], o) = Null
<1> DEFINE p == hashPrevBlock[b]
           db == IndexOf(p)
<1>1. p \in Block /\ Sound(p) /\ CheckBlock(b) /\ ConnectBlockOK(db, b, sig)
  BY TreeFacts DEF Connects, ConnectBlockOK
<1> HIDE DEF p
<1>2. vtx[b] \in Seq(Tx)
  BY ChainDataAssumption
<1>3. i \in 1..Len(vtx[b]) /\ Len(vtx[b]) \in Nat /\ vtx[b][i] \in Tx
  BY <1>2, LenProperties, ElementOfSeq
<1>4. i - 1 \in 0..Len(vtx[b])
  BY <1>3
<1>5. o = <<o[1], o[2]>> /\ o[1] \in Tx
  <2>1. o \in Tx \X Nat
    BY <1>3, ChainDataAssumption
  <2> QED
    BY <2>1
<1>6. vtx[b][i] \notin CoinBase
  BY <1>3, ChainDataAssumption
<1>7. ConnectInputs(db, b, i, sig)
  BY <1>1, <1>6 DEF ConnectBlockOK
<1>8. f = Fetch(db, b, i - 1, o[1])
  BY DEF p
<1>9. /\ f # Null /\ o[2] \in DOMAIN f.vSpent /\ f.vSpent[o[2]] = Null
      /\ o[1] \in CoinBase => f.pos \notin ImmatureIn(b)
      /\ MoneyRange(vout[o[1]][o[2]])
  BY <1>7, <1>8 DEF ConnectInputs
<1>10. f \in CTxIndex(o[1]) /\ o[2] \in 1..Len(vout[o[1]])
  <2>1. f \in CTxIndex(o[1])
    BY <1>1, <1>4, <1>5, <1>8, <1>9, IndexIsIndex, FetchType
  <2> QED
    BY <1>9, <2>1 DEF CTxIndex
<1>11. ASSUME NEW lo \in Nat, lo >= 1, NEW e \in CTxIndex(o[1]),
              f = Marked(e, o[1], b, lo, i - 1)
       PROVE  Spenders(b, lo, i - 1, o) = {} /\ e.vSpent[o[2]] = Null
  <2>1. f.vSpent[o[2]] = IF Spenders(b, lo, i - 1, o) = {} THEN e.vSpent[o[2]]
                         ELSE CHOOSE t \in Spenders(b, lo, i - 1, o) : TRUE
    BY <1>5, <1>10, <1>11, MarkedEntry
  <2>2. Spenders(b, lo, i - 1, o) \subseteq Tx
    BY <1>4, <1>11, SpendersInBlock
  <2>3. f.vSpent[o[2]] = Null /\ Null \notin Tx
    BY <1>9, ChainDataAssumption
  <2> QED
    BY <2>1, <2>2, <2>3
<1>12. CASE \E k \in 1..i - 1 : vtx[b][k] = o[1]
  <2>1. PICK k \in 1..i - 1 : vtx[b][k] = o[1]
    BY <1>12
  <2>2. f = Marked(NewTxIndex(o[1], b), o[1], b, k + 1, i - 1)
    BY <1>1, <1>4, <1>5, <1>8, <2>1, FetchFromBlock
  <2>3. NewTxIndex(o[1], b) \in CTxIndex(o[1]) /\ NewTxIndex(o[1], b).pos = b
    BY <1>5 DEF NewTxIndex, CTxIndex
  <2>4. f.pos = b
    BY <1>5, <1>10, <2>2, <2>3, MarkedEntry
  <2>5. k + 1 \in Nat /\ k + 1 >= 1
    BY <2>1
  <2>6. Spenders(b, k + 1, i - 1, o) = {}
    BY <1>11, <2>2, <2>3, <2>5
  <2> QED
    BY <1>5, <1>9, <1>10, <2>1, <2>4, <2>6
<1>13. CASE \A k \in 1..i - 1 : vtx[b][k] # o[1]
  <2>1. f = IF db[o[1]] = Null THEN Null ELSE Marked(db[o[1]], o[1], b, 1, i - 1)
    BY <1>4, <1>5, <1>8, <1>13, FetchFromDatabase
  <2>2. db[o[1]] # Null /\ f = Marked(db[o[1]], o[1], b, 1, i - 1)
    BY <1>9, <2>1
  <2>3. PICK x \in Occurrences(p) : TxAt(x) = o[1]
    BY <1>1, <1>5, <2>2, IndexEntries
  <2>4. /\ db[o[1]] \in CTxIndex(o[1]) /\ db[o[1]].pos = x[1]
        /\ db[o[1]].vSpent[o[2]] = SpenderIn(p, o)
    BY <1>1, <1>5, <1>10, <2>3, IndexIsIndex
  <2>5. f.pos = x[1]
    BY <1>5, <1>10, <2>2, <2>4, MarkedEntry
  <2>6. Spenders(b, 1, i - 1, o) = {} /\ SpenderIn(p, o) = Null
    BY <1>11, <2>2, <2>4
  <2> QED
    BY <1>5, <1>9, <1>10, <1>13, <2>3, <2>5, <2>6 DEF p
<1> QED
  BY <1>12, <1>13

\* BIP30 and the spent inputs together keep a transaction from being connected
\* a second time, unless it is a coinbase.
LEMMA NothingRepeats ==
    ASSUME CoinBasesAreUnique, NEW b \in Block, NEW sig, Connects(b, sig),
           NEW j \in DOMAIN vtx[b], NEW y \in Occurrences(hashPrevBlock[b])
    PROVE  TxAt(y) # vtx[b][j]
<1> DEFINE p == hashPrevBlock[b]
           R == {i \in DOMAIN vtx[b] : \E x \in Occurrences(p) : TxAt(x) = vtx[b][i]}
<1>1. p \in Block /\ Sound(p) /\ b # Genesis /\ b \in Branch[b] \ {Genesis}
  BY TreeFacts, BranchEnds DEF Connects
<1>2. DOMAIN vtx[b] = 1..Len(vtx[b]) /\ Len(vtx[b]) \in Nat
  <2>1. vtx[b] \in Seq(Tx)
    BY ChainDataAssumption
  <2> QED
    BY <2>1, LenProperties
<1>3. R = {}
  <2>1. SUFFICES ASSUME R # {} PROVE FALSE
    OBVIOUS
  <2>2. R \subseteq Nat
    BY <1>2
  <2>3. PICK i \in R : \A k \in R : i <= k
    BY <2>1, <2>2, LeastNumber
  <2>4. PICK x \in Occurrences(p) : TxAt(x) = vtx[b][i]
    BY <2>3
  <2>5. TxAt(x) \in Tx \ CoinBase
    <3>1. <<b, i>> \in Occurrences(b) /\ TxAt(<<b, i>>) = vtx[b][i] /\ <<b, i>>[1] = b
      BY <1>1, <2>3, OccurrenceAt
    <3>2. x \in Occurrences(b) /\ x[1] # b /\ TxAt(x) \in Tx
      BY <1>1, OccurrencesSplit, OccurrenceFacts
    <3> QED
      BY <2>4, <3>1, <3>2 DEF CoinBasesAreUnique
  <2>6. PICK o \in vin[TxAt(x)] : TRUE
    BY <2>5, ChainDataAssumption
  <2>7. PICK w \in Occurrences(p) : TxAt(w) = o[1]
    BY <1>1 DEF Sound
  <2>8. \A k \in 1..i - 1 : vtx[b][k] # o[1]
    <3>1. SUFFICES ASSUME NEW k \in 1..i - 1, vtx[b][k] = o[1] PROVE FALSE
      OBVIOUS
    <3>2. k \in DOMAIN vtx[b] /\ k < i
      BY <1>2, <2>3
    <3>3. k \in R
      BY <2>7, <3>1, <3>2
    <3> QED
      BY <2>2, <2>3, <3>2, <3>3
  <2>9. SpenderIn(p, o) = Null
    BY <2>3, <2>4, <2>6, <2>8, InputIsFound
  <2>10. SpenderIn(p, o) = TxAt(x)
    BY <1>1, <2>6, SpenderFacts
  <2> QED
    BY <2>5, <2>9, <2>10, ChainDataAssumption
<1> QED
  BY <1>3

\* No transaction of the parent's branch, and none before it in the block,
\* spends what a transaction of the block spends.
LEMMA NothingSpentTwice ==
    ASSUME CoinBasesAreUnique, NEW b \in Block, NEW sig, Connects(b, sig),
           NEW i \in DOMAIN vtx[b], NEW o \in vin[vtx[b][i]]
    PROVE  /\ \A z \in Occurrences(hashPrevBlock[b]) : o \notin vin[TxAt(z)]
           /\ \A k \in 1..i - 1 : o \notin vin[vtx[b][k]]
<1> DEFINE p == hashPrevBlock[b]
           f == Fetch(IndexOf(p), b, i - 1, o[1])
<1>1. p \in Block /\ Sound(p) /\ CheckBlock(b)
  BY TreeFacts DEF Connects, ConnectBlockOK
<1>2. DOMAIN vtx[b] = 1..Len(vtx[b]) /\ Len(vtx[b]) \in Nat
  <2>1. vtx[b] \in Seq(Tx)
    BY ChainDataAssumption
  <2> QED
    BY <2>1, LenProperties
<1>3. CASE \E k \in 1..i - 1 : vtx[b][k] = o[1] /\ Spenders(b, k + 1, i - 1, o) = {}
  <2>1. PICK j \in 1..i - 1 : vtx[b][j] = o[1] /\ Spenders(b, j + 1, i - 1, o) = {}
    BY <1>3
  <2>2. j \in DOMAIN vtx[b]
    BY <1>2, <2>1
  <2>3. \A x \in Occurrences(p) : TxAt(x) # o[1]
    BY <2>1, <2>2, NothingRepeats
  <2>4. \A z \in Occurrences(p) : o \notin vin[TxAt(z)]
    BY <1>1, <2>3 DEF Sound
  <2>5. ASSUME NEW k \in 1..i - 1, o \in vin[vtx[b][k]] PROVE FALSE
    <3>1. k \in DOMAIN vtx[b]
      BY <1>2
    <3>2. CASE k > j
      <4>1. k \in j + 1 .. i - 1
        BY <1>2, <2>1, <3>2
      <4> QED
        BY <2>1, <2>5, <4>1 DEF Spenders
    <3>3. CASE k <= j
      <4>1. \A m \in 1..k - 1 : m \in DOMAIN vtx[b] /\ m # j
        BY <1>2, <2>1, <3>1, <3>3
      <4>2. \A m \in 1..k - 1 : vtx[b][m] # o[1]
        BY <1>1, <2>1, <2>2, <4>1 DEF CheckBlock
      <4>3. \E x \in Occurrences(p) : TxAt(x) = o[1]
        BY <2>5, <3>1, <4>2, InputIsFound
      <4> QED
        BY <2>3, <4>3
    <3> QED
      BY <1>2, <2>1, <3>2, <3>3
  <2> QED
    BY <2>4, <2>5
<1>4. CASE Spenders(b, 1, i - 1, o) = {} /\ SpenderIn(p, o) = Null
  <2>1. \A z \in Occurrences(p) : o \notin vin[TxAt(z)]
    <3>1. \A z \in Occurrences(p) : TxAt(z) # Null
      BY <1>1, OccurrenceFacts, ChainDataAssumption
    <3> QED
      BY <1>1, <1>4, <3>1, SpenderFacts
  <2>2. \A k \in 1..i - 1 : o \notin vin[vtx[b][k]]
    BY <1>4 DEF Spenders
  <2> QED
    BY <2>1, <2>2
<1> QED
  BY <1>3, <1>4, InputIsFound

\* Connecting a block to a sound branch gives a sound branch.
LEMMA ChildIsSound ==
    ASSUME CoinBasesAreUnique, NEW b \in Block, NEW sig, Connects(b, sig)
    PROVE  Sound(b)
<1> DEFINE p == hashPrevBlock[b]
<1>1. p \in Block /\ Sound(p) /\ b # Genesis /\ CheckBlock(b) /\ b \in Branch[b] \ {Genesis}
  BY TreeFacts, BranchEnds DEF Connects, ConnectBlockOK
<1>2. DOMAIN vtx[b] = 1..Len(vtx[b]) /\ Len(vtx[b]) \in Nat
  <2>1. vtx[b] \in Seq(Tx)
    BY ChainDataAssumption
  <2> QED
    BY <2>1, LenProperties
<1>3. ASSUME NEW x \in Occurrences(b), x \notin Occurrences(p)
      PROVE  x[1] = b /\ x = <<b, x[2]>> /\ x[2] \in DOMAIN vtx[b] /\ TxAt(x) = vtx[b][x[2]]
  BY <1>1, <1>3, OccurrencesSplit, OccurrenceFacts
<1>4. \A x, y \in Occurrences(b) : TxAt(x) = TxAt(y) => x = y
  <2>1. SUFFICES ASSUME NEW x \in Occurrences(b), NEW y \in Occurrences(b), TxAt(x) = TxAt(y)
                 PROVE  x = y
    OBVIOUS
  <2>2. CASE x \in Occurrences(p) /\ y \in Occurrences(p)
    BY <1>1, <2>1, <2>2 DEF Sound
  <2>3. CASE x \notin Occurrences(p) /\ y \notin Occurrences(p)
    BY <1>1, <1>3, <2>1, <2>3 DEF CheckBlock
  <2>4. CASE x \in Occurrences(p) /\ y \notin Occurrences(p)
    BY <1>3, <2>1, <2>4, NothingRepeats
  <2>5. CASE x \notin Occurrences(p) /\ y \in Occurrences(p)
    BY <1>3, <2>1, <2>5, NothingRepeats
  <2> QED
    BY <2>2, <2>3, <2>4, <2>5
<1>5. ASSUME NEW y \in Occurrences(b), NEW o \in vin[TxAt(y)]
      PROVE  /\ \E x \in Occurrences(b) : TxAt(x) = o[1] /\ Before(x, y)
             /\ o[2] \in DOMAIN vout[o[1]]
  <2>1. CASE y \in Occurrences(p)
    BY <1>1, <2>1, OccurrencesSplit DEF Sound
  <2>2. CASE y \notin Occurrences(p)
    <3> DEFINE i == y[2]
    <3>1. y = <<b, i>> /\ i \in DOMAIN vtx[b] /\ TxAt(y) = vtx[b][i]
      BY <1>3, <2>2
    <3>2. o[1] \in Tx /\ o[2] \in 1..Len(vout[o[1]])
      BY <3>1, InputIsFound
    <3>3. o[2] \in DOMAIN vout[o[1]]
      <4>1. vout[o[1]] \in Seq(Nat)
        BY <3>2, ChainDataAssumption
      <4> QED
        BY <3>2, <4>1, LenProperties
    <3>4. CASE \E k \in 1..i - 1 : vtx[b][k] = o[1]
      <4>1. PICK k \in 1..i - 1 : vtx[b][k] = o[1]
        BY <3>4
      <4>2. k \in DOMAIN vtx[b] /\ k < i
        BY <1>2, <3>1, <4>1
      <4>3. <<b, k>> \in Occurrences(b) /\ TxAt(<<b, k>>) = o[1]
        BY <1>1, <4>1, <4>2, OccurrenceAt
      <4>4. Before(<<b, k>>, <<b, i>>)
        BY <4>2 DEF Before, Promised!Before
      <4> QED
        BY <3>1, <3>3, <4>3, <4>4
    <3>5. CASE \E x \in Occurrences(p) : TxAt(x) = o[1]
      <4>1. PICK x \in Occurrences(p) : TxAt(x) = o[1]
        BY <3>5
      <4>2. x \in Occurrences(b) /\ nHeight[x[1]] < nHeight[b]
        BY <1>1, OccurrencesSplit
      <4>3. Before(x, <<b, i>>)
        BY <4>2 DEF Before, Promised!Before
      <4> QED
        BY <3>1, <3>3, <4>1, <4>2, <4>3
    <3> QED
      BY <3>1, <3>4, <3>5, InputIsFound
  <2> QED
    BY <2>1, <2>2
<1>6. ASSUME NEW y \in Occurrences(b), NEW z \in Occurrences(b),
             NEW o \in vin[TxAt(y)], o \in vin[TxAt(z)]
      PROVE  z = y
  <2>1. CASE y \in Occurrences(p) /\ z \in Occurrences(p)
    BY <1>1, <1>6, <2>1 DEF Sound
  <2>2. CASE y \in Occurrences(p) /\ z \notin Occurrences(p)
    BY <1>3, <1>6, <2>2, NothingSpentTwice
  <2>3. CASE y \notin Occurrences(p) /\ z \in Occurrences(p)
    BY <1>3, <1>6, <2>3, NothingSpentTwice
  <2>4. CASE y \notin Occurrences(p) /\ z \notin Occurrences(p)
    <3>1. /\ y = <<b, y[2]>> /\ y[2] \in DOMAIN vtx[b] /\ o \in vin[vtx[b][y[2]]]
          /\ z = <<b, z[2]>> /\ z[2] \in DOMAIN vtx[b] /\ o \in vin[vtx[b][z[2]]]
      BY <1>3, <1>6, <2>4
    <3>2. y[2] \notin 1..z[2] - 1 /\ z[2] \notin 1..y[2] - 1
      BY <3>1, NothingSpentTwice
    <3>3. y[2] = z[2]
      BY <1>2, <3>1, <3>2
    <3> QED
      BY <3>1, <3>3
  <2> QED
    BY <2>1, <2>2, <2>3, <2>4
<1> QED
  BY <1>4, <1>5, <1>6 DEF Sound

\* In a sound branch the transactions of b that spend o, from lo on, are none
\* or the one spender of o.
LEMMA SpendersAreSpender ==
    ASSUME NEW b \in Block, b # Genesis, Sound(b), NEW o, NEW lo \in Nat, lo >= 1,
           \A k \in DOMAIN vtx[b] : o \in vin[vtx[b][k]] => lo <= k
    PROVE  /\ (\E k \in DOMAIN vtx[b] : o \in vin[vtx[b][k]]) =>
                 /\ Spenders(b, lo, Len(vtx[b]), o) # {}
                 /\ (CHOOSE t \in Spenders(b, lo, Len(vtx[b]), o) : TRUE) = SpenderIn(b, o)
           /\ (\A k \in DOMAIN vtx[b] : o \notin vin[vtx[b][k]]) =>
                 /\ Spenders(b, lo, Len(vtx[b]), o) = {}
                 /\ SpenderIn(b, o) = SpenderIn(hashPrevBlock[b], o)
<1> DEFINE p == hashPrevBlock[b]
<1>1. p \in Block /\ Sound(p) /\ b \in Branch[b] \ {Genesis}
  BY TreeFacts, BranchEnds, ParentIsSound
<1>2. DOMAIN vtx[b] = 1..Len(vtx[b]) /\ Len(vtx[b]) \in Nat
  <2>1. vtx[b] \in Seq(Tx)
    BY ChainDataAssumption
  <2> QED
    BY <2>1, LenProperties
<1>3. \A k \in lo..Len(vtx[b]) : k \in DOMAIN vtx[b]
  BY <1>2
<1>4. ASSUME NEW k \in DOMAIN vtx[b], o \in vin[vtx[b][k]]
      PROVE  k \in lo..Len(vtx[b]) /\ SpenderIn(b, o) = vtx[b][k]
  <2>1. k \in lo..Len(vtx[b])
    BY <1>2, <1>4
  <2>2. <<b, k>> \in Occurrences(b) /\ TxAt(<<b, k>>) = vtx[b][k]
    BY <1>1, OccurrenceAt
  <2> QED
    BY <1>4, <2>1, <2>2, SpenderFacts
<1>5. \A t \in Spenders(b, lo, Len(vtx[b]), o) : t = SpenderIn(b, o)
  BY <1>3, <1>4 DEF Spenders
<1>6. ASSUME NEW k \in DOMAIN vtx[b], o \in vin[vtx[b][k]]
      PROVE  Spenders(b, lo, Len(vtx[b]), o) # {}
  BY <1>4, <1>6 DEF Spenders
<1>7. ASSUME \A k \in DOMAIN vtx[b] : o \notin vin[vtx[b][k]]
      PROVE  Spenders(b, lo, Len(vtx[b]), o) = {} /\ SpenderIn(b, o) = SpenderIn(p, o)
  <2>1. Spenders(b, lo, Len(vtx[b]), o) = {}
    BY <1>3, <1>7 DEF Spenders
  <2>2. \A y \in Occurrences(b) : o \in vin[TxAt(y)] => y \in Occurrences(p)
    BY <1>7, OccurrencesSplit, OccurrenceFacts
  <2>3. SpenderIn(b, o) = SpenderIn(p, o)
    BY <1>1, <2>2, SpenderFacts, OccurrencesSplit
  <2> QED
    BY <2>1, <2>3
<1> QED
  BY <1>5, <1>6, <1>7

\* ConnectBlock gives the index of the longer branch.
LEMMA ConnectGivesChild ==
    ASSUME CoinBasesAreUnique, NEW b \in Block, NEW sig, Connects(b, sig)
    PROVE  ConnectBlock(IndexOf(hashPrevBlock[b]), b) = IndexOf(b)
<1> DEFINE p   == hashPrevBlock[b]
           db  == IndexOf(p)
           len == Len(vtx[b])
<1>1. /\ p \in Block /\ Sound(p) /\ b # Genesis /\ CheckBlock(b) /\ Sound(b)
      /\ b \in Branch[b] \ {Genesis}
  BY TreeFacts, BranchEnds, ChildIsSound DEF Connects, ConnectBlockOK
<1>2. DOMAIN vtx[b] = 1..len /\ len \in Nat
  <2>1. vtx[b] \in Seq(Tx)
    BY ChainDataAssumption
  <2> QED
    BY <2>1, LenProperties
<1>3. len \in 0..len
  BY <1>2
<1>4. ASSUME NEW t \in Tx PROVE Fetch(db, b, len, t) = IndexOf(b)[t]
  <2>1. CASE \E k \in DOMAIN vtx[b] : vtx[b][k] = t
    <3>1. PICK k \in DOMAIN vtx[b] : vtx[b][k] = t
      BY <2>1
    <3>2. <<b, k>> \in Occurrences(b) /\ TxAt(<<b, k>>) = t /\ <<b, k>>[1] = b
      BY <1>1, <3>1, OccurrenceAt
    <3> DEFINE e == NewTxIndex(t, b)
               d == Marked(e, t, b, k + 1, len)
    <3>3. Fetch(db, b, len, t) = d
      BY <1>1, <1>2, <1>3, <3>1, FetchFromBlock
    <3>4. e \in CTxIndex(t) /\ e.pos = b /\ \A n \in 1..Len(vout[t]) : e.vSpent[n] = Null
      BY DEF NewTxIndex, CTxIndex
    <3>5. k + 1 \in Nat /\ k + 1 >= 1
      BY <1>2
    <3>6. d \in CTxIndex(t)
      BY <1>3, <3>4, <3>5, MarkedType
    <3>7. /\ IndexOf(b)[t] \in CTxIndex(t) /\ IndexOf(b)[t].pos = b
          /\ \A n \in 1..Len(vout[t]) : IndexOf(b)[t].vSpent[n] = SpenderIn(b, <<t, n>>)
      BY <1>1, <3>2, IndexIsIndex
    <3>8. ASSUME NEW n \in 1..Len(vout[t]) PROVE d.pos = b /\ d.vSpent[n] = SpenderIn(b, <<t, n>>)
      <4> DEFINE o == <<t, n>>
      <4>1. /\ d.pos = b
            /\ d.vSpent[n] = IF Spenders(b, k + 1, len, o) = {} THEN Null
                             ELSE CHOOSE u \in Spenders(b, k + 1, len, o) : TRUE
        BY <3>4, MarkedEntry
      <4>2. ASSUME NEW j \in DOMAIN vtx[b], o \in vin[vtx[b][j]] PROVE k + 1 <= j
        <5>1. <<b, j>> \in Occurrences(b) /\ TxAt(<<b, j>>) = vtx[b][j]
          BY <1>1, OccurrenceAt
        <5>2. PICK x \in Occurrences(b) : TxAt(x) = o[1] /\ Before(x, <<b, j>>)
          BY <1>1, <4>2, <5>1 DEF Sound
        <5>3. x = <<b, k>>
          BY <1>1, <3>2, <5>2 DEF Sound
        <5>4. nHeight[b] < nHeight[b] \/ k < j
          BY <5>2, <5>3 DEF Before, Promised!Before
        <5>5. nHeight[b] \in Nat
          BY ChainDataAssumption
        <5> QED
          BY <1>2, <5>4, <5>5
      <4>3. (\A j \in DOMAIN vtx[b] : o \notin vin[vtx[b][j]]) => SpenderIn(p, o) = Null
        <5>1. \A y \in Occurrences(p) : o \notin vin[TxAt(y)]
          BY <1>1, <3>1, NothingRepeats DEF Sound
        <5> QED
          BY <1>1, <5>1, SpenderFacts
      <4>4. d.vSpent[n] = SpenderIn(b, o)
        BY <1>1, <3>5, <4>1, <4>2, <4>3, SpendersAreSpender
      <4> QED
        BY <4>1, <4>4
    <3>9. d.pos = b
      BY <3>4 DEF Marked
    <3> HIDE DEF d
    <3> QED
      BY <3>3, <3>6, <3>7, <3>8, <3>9, SameEntry
  <2>2. CASE /\ \A k \in DOMAIN vtx[b] : vtx[b][k] # t
             /\ \E x \in Occurrences(p) : TxAt(x) = t
    <3>1. PICK x \in Occurrences(p) : TxAt(x) = t
      BY <2>2
    <3> DEFINE d == Marked(db[t], t, b, 1, len)
    <3>2. /\ db[t] \in CTxIndex(t) /\ db[t] # Null /\ db[t].pos = x[1]
          /\ \A n \in 1..Len(vout[t]) : db[t].vSpent[n] = SpenderIn(p, <<t, n>>)
      BY <1>1, <3>1, IndexIsIndex
    <3>3. Fetch(db, b, len, t) = d
      BY <1>2, <1>3, <2>2, <3>2, FetchFromDatabase
    <3>4. x \in Occurrences(b)
      BY <1>1, OccurrencesSplit
    <3>5. /\ IndexOf(b)[t] \in CTxIndex(t) /\ IndexOf(b)[t].pos = x[1]
          /\ \A n \in 1..Len(vout[t]) : IndexOf(b)[t].vSpent[n] = SpenderIn(b, <<t, n>>)
      BY <1>1, <3>1, <3>4, IndexIsIndex
    <3>6. d \in CTxIndex(t)
      BY <1>3, <3>2, MarkedType
    <3>7. ASSUME NEW n \in 1..Len(vout[t]) PROVE d.vSpent[n] = SpenderIn(b, <<t, n>>)
      <4> DEFINE o == <<t, n>>
      <4>1. d.vSpent[n] = IF Spenders(b, 1, len, o) = {} THEN SpenderIn(p, o)
                          ELSE CHOOSE u \in Spenders(b, 1, len, o) : TRUE
        BY <3>2, MarkedEntry
      <4>2. \A j \in DOMAIN vtx[b] : o \in vin[vtx[b][j]] => 1 <= j
        BY <1>2
      <4>3. 1 \in Nat /\ 1 >= 1
        OBVIOUS
      <4> HIDE DEF o
      <4>4. CASE \E j \in DOMAIN vtx[b] : o \in vin[vtx[b][j]]
        <5>1. /\ Spenders(b, 1, len, o) # {}
              /\ (CHOOSE u \in Spenders(b, 1, len, o) : TRUE) = SpenderIn(b, o)
          BY <1>1, <4>2, <4>4, <4>3, SpendersAreSpender
        <5> QED
          BY <4>1, <5>1 DEF o
      <4>5. CASE \A j \in DOMAIN vtx[b] : o \notin vin[vtx[b][j]]
        <5>1. Spenders(b, 1, len, o) = {} /\ SpenderIn(b, o) = SpenderIn(p, o)
          BY <1>1, <4>2, <4>5, <4>3, SpendersAreSpender
        <5> QED
          BY <4>1, <5>1 DEF o
      <4> QED
        BY <4>4, <4>5
    <3>8. d.pos = x[1]
      BY <3>2 DEF Marked
    <3> HIDE DEF d
    <3> QED
      BY <3>3, <3>5, <3>6, <3>7, <3>8, SameEntry
  <2>3. CASE /\ \A k \in DOMAIN vtx[b] : vtx[b][k] # t
             /\ \A x \in Occurrences(p) : TxAt(x) # t
    <3>1. db[t] = Null
      BY <1>1, <2>3, IndexEntries
    <3>2. Fetch(db, b, len, t) = Null
      BY <1>2, <1>3, <2>3, <3>1, FetchFromDatabase
    <3>3. \A x \in Occurrences(b) : TxAt(x) # t
      BY <1>1, <2>3, OccurrencesSplit, OccurrenceFacts
    <3> QED
      BY <1>1, <3>2, <3>3, IndexEntries
  <2> QED
    BY <2>1, <2>2, <2>3
<1>5. IndexOf(b) = [t \in Tx |-> IndexOf(b)[t]]
  BY <1>1, IndexEntries
<1>6. ConnectBlock(db, b) = [t \in Tx |-> Fetch(db, b, len, t)]
  BY DEF ConnectBlock
<1> QED
  BY <1>4, <1>5, <1>6

\* Connecting a block to a valid branch gives a valid branch.
LEMMA ChildIsValid ==
    ASSUME CoinBasesAreUnique, NEW b \in Block, NEW sig, Connects(b, sig),
           ValidBranch(hashPrevBlock[b]), sig \/ BadScript = {}
    PROVE  ValidBranch(b)
<1> DEFINE p == hashPrevBlock[b]
<1>1. /\ p \in Block /\ Sound(p) /\ b # Genesis /\ Sound(b) /\ Branch[b] = {b} \cup Branch[p]
      /\ ConnectBlockOK(IndexOf(p), b, sig) /\ b \in Branch[b] \ {Genesis}
  BY TreeFacts, BranchEnds, ChildIsSound DEF Connects
<1>2. DOMAIN vtx[b] = 1..Len(vtx[b]) /\ Len(vtx[b]) \in Nat /\ \A i \in DOMAIN vtx[b] : vtx[b][i] \in Tx
  <2>1. vtx[b] \in Seq(Tx)
    BY ChainDataAssumption
  <2> QED
    BY <2>1, LenProperties, ElementOfSeq
<1>3. \A c \in Branch[b] \ {Genesis} :
         CheckBlock(c) /\ GetValueOut(vtx[c][1]) <= GetBlockValue(nHeight[c], Fees(c))
  <2>1. CheckBlock(b) /\ GetValueOut(vtx[b][1]) <= GetBlockValue(nHeight[b], Fees(b))
    BY <1>1 DEF ConnectBlockOK
  <2>2. \A c \in Branch[p] \ {Genesis} :
           CheckBlock(c) /\ GetValueOut(vtx[c][1]) <= GetBlockValue(nHeight[c], Fees(c))
    BY DEF ValidBranch, Promised!ValidBranch
  <2> QED
    BY <1>1, <2>1, <2>2
<1>4. ASSUME NEW y \in Occurrences(b), NEW o \in vin[TxAt(y)], NEW x \in Occurrences(b),
             TxAt(x) = o[1], o[1] \in CoinBase
      PROVE  nHeight[y[1]] - nHeight[x[1]] >= COINBASE_MATURITY
  <2>1. CASE y \in Occurrences(p)
    <3>1. Promised!SpendsProperly(p, y)
      BY <2>1 DEF ValidBranch, Promised!ValidBranch, Occurrences
    <3>2. PICK w \in Occurrences(p) :
             TxAt(w) = o[1] /\ nHeight[y[1]] - nHeight[w[1]] >= COINBASE_MATURITY
      BY <1>4, <3>1 DEF Promised!SpendsProperly, Occurrences, TxAt
    <3>3. w = x
      BY <1>1, <1>4, <3>2, OccurrencesSplit DEF Sound
    <3> QED
      BY <3>2, <3>3
  <2>2. CASE y \notin Occurrences(p)
    <3> DEFINE i == y[2]
               f == Fetch(IndexOf(p), b, i - 1, o[1])
    <3>1. y[1] = b /\ i \in DOMAIN vtx[b] /\ TxAt(y) = vtx[b][i]
      BY <1>1, <2>2, OccurrencesSplit, OccurrenceFacts
    <3>2. f.pos \notin ImmatureIn(b)
      BY <1>4, <3>1, InputIsFound
    <3>3. f.pos = x[1]
      <4>1. CASE \E k \in 1..i - 1 : vtx[b][k] = o[1] /\ f.pos = b
        <5>1. PICK k \in 1..i - 1 : vtx[b][k] = o[1] /\ f.pos = b
          BY <4>1
        <5>2. k \in DOMAIN vtx[b]
          BY <1>2, <3>1, <5>1
        <5>3. <<b, k>> \in Occurrences(b) /\ TxAt(<<b, k>>) = o[1] /\ <<b, k>>[1] = b
          BY <1>1, <5>1, <5>2, OccurrenceAt
        <5>4. x = <<b, k>>
          BY <1>1, <1>4, <5>3 DEF Sound
        <5> QED
          BY <5>1, <5>3, <5>4
      <4>2. CASE \E w \in Occurrences(p) : TxAt(w) = o[1] /\ f.pos = w[1]
        BY <1>1, <1>4, <4>2, OccurrencesSplit DEF Sound
      <4> QED
        BY <3>1, <4>1, <4>2, InputIsFound
    <3>4. x[1] \in Branch[b] /\ nHeight[x[1]] \in Nat
      BY OccurrenceFacts
    <3>5. nHeight[b] \in Nat /\ COINBASE_MATURITY \in Nat
      BY ChainDataAssumption
    <3>6. ~(nHeight[b] - nHeight[x[1]] < COINBASE_MATURITY)
      BY <3>2, <3>3, <3>4 DEF ImmatureIn
    <3> QED
      BY <3>1, <3>4, <3>5, <3>6
  <2> QED
    BY <2>1, <2>2
<1>5. ASSUME NEW y \in Occurrences(b)
      PROVE  /\ TxAt(y) \notin CoinBase =>
                   GetValueOut(TxAt(y)) <= GetValueIn(TxAt(y)) /\ MoneyRange(GetValueIn(TxAt(y)))
             /\ nHeight[y[1]] > TotalBlocksEstimate => TxAt(y) \notin BadScript
  <2>1. CASE y \in Occurrences(p)
    <3>1. Promised!SpendsProperly(p, y)
      BY <2>1 DEF ValidBranch, Promised!ValidBranch, Occurrences
    <3> QED
      BY <3>1 DEF Promised!SpendsProperly, TxAt
  <2>2. CASE y \notin Occurrences(p)
    <3> DEFINE i == y[2]
    <3>1. i \in DOMAIN vtx[b] /\ TxAt(y) = vtx[b][i]
      BY <1>1, <2>2, OccurrencesSplit, OccurrenceFacts
    <3>2. CASE TxAt(y) \in CoinBase
      BY <3>2, ChainDataAssumption
    <3>3. CASE TxAt(y) \notin CoinBase
      <4>1. ConnectInputs(IndexOf(p), b, i, sig)
        BY <1>1, <3>1, <3>3 DEF ConnectBlockOK
      <4>2. GetValueIn(TxAt(y)) >= GetValueOut(TxAt(y)) /\ MoneyRange(GetValueIn(TxAt(y)))
            /\ (sig => TxAt(y) \notin BadScript)
        BY <3>1, <4>1 DEF ConnectInputs
      <4> QED
        BY <4>2
    <3> QED
      BY <3>2, <3>3
  <2> QED
    BY <2>1, <2>2
<1>6. ASSUME NEW y \in Occurrences(b), NEW o \in vin[TxAt(y)]
      PROVE  MoneyRange(vout[o[1]][o[2]])
  <2>1. CASE y \in Occurrences(p)
    <3>1. Promised!SpendsProperly(p, y)
      BY <2>1 DEF ValidBranch, Promised!ValidBranch, Occurrences
    <3> QED
      BY <1>6, <3>1 DEF Promised!SpendsProperly, TxAt
  <2>2. CASE y \notin Occurrences(p)
    <3>1. y[2] \in DOMAIN vtx[b] /\ TxAt(y) = vtx[b][y[2]]
      BY <1>1, <2>2, OccurrencesSplit, OccurrenceFacts
    <3> QED
      BY <1>6, <3>1, InputIsFound
  <2> QED
    BY <2>1, <2>2
<1>7. ASSUME NEW y \in Occurrences(b) PROVE Promised!SpendsProperly(b, y)
  BY <1>1, <1>4, <1>5, <1>6 DEF Sound, Promised!SpendsProperly, Occurrences, TxAt, Before
<1> QED
  BY <1>1, <1>3, <1>7 DEF Sound, ValidBranch, Promised!ValidBranch, Occurrences, TxAt

\* A block that ends a valid branch connects to the database of its parent:
\* ConnectBlock refuses nothing that obeys the rules.
LEMMA ValidConnects ==
    ASSUME NEW b \in Block, b # Genesis, ValidBranch(b), ScriptsAreChecked, NEW sig
    PROVE  ConnectBlockOK(IndexOf(hashPrevBlock[b]), b, sig)
<1> DEFINE p == hashPrevBlock[b]
           db == IndexOf(p)
<1>1. /\ p \in Block /\ Sound(b) /\ Sound(p) /\ b \in Branch[b] \ {Genesis}
      /\ vtx[b] \in Seq(Tx)
  BY TreeFacts, BranchEnds, ValidIsSound, ParentIsSound, ChainDataAssumption
<1>2. DOMAIN vtx[b] = 1..Len(vtx[b]) /\ Len(vtx[b]) \in Nat /\ \A i \in DOMAIN vtx[b] : vtx[b][i] \in Tx
  BY <1>1, LenProperties, ElementOfSeq
<1>3. CheckBlock(b) /\ GetValueOut(vtx[b][1]) <= GetBlockValue(nHeight[b], Fees(b))
  BY <1>1 DEF ValidBranch, Promised!ValidBranch
<1>4. ASSUME NEW i \in DOMAIN vtx[b] PROVE ~Overwrites(db, vtx[b][i])
  <2>1. <<b, i>> \in Occurrences(b) /\ TxAt(<<b, i>>) = vtx[b][i] /\ <<b, i>>[1] = b
    BY <1>1, OccurrenceAt
  <2>2. \A x \in Occurrences(p) : TxAt(x) # vtx[b][i]
    BY <1>1, <2>1, OccurrencesSplit DEF Sound
  <2> QED
    BY <1>1, <1>2, <2>2, IndexEntries DEF Overwrites
<1>5. ASSUME NEW i \in DOMAIN vtx[b], vtx[b][i] \notin CoinBase
      PROVE  ConnectInputs(db, b, i, sig)
  <2> DEFINE t == vtx[b][i]
             y == <<b, i>>
  <2>1. y \in Occurrences(b) /\ TxAt(y) = t /\ y[1] = b /\ y[2] = i /\ t \in Tx
    BY <1>1, <1>2, OccurrenceAt
  <2>2. Promised!SpendsProperly(b, y)
    BY <2>1 DEF ValidBranch, Promised!ValidBranch, Occurrences
  <2> HIDE DEF y
  <2>3. /\ GetValueOut(t) <= GetValueIn(t) /\ MoneyRange(GetValueIn(t))
        /\ nHeight[b] > TotalBlocksEstimate => t \notin BadScript
    BY <1>5, <2>1, <2>2 DEF Promised!SpendsProperly, TxAt
  <2>4. t \notin BadScript
    <3>1. nHeight[b] > 0
      BY ChainDataAssumption
    <3> QED
      BY <2>3, <3>1 DEF ScriptsAreChecked
  <2>5. ASSUME NEW o \in vin[t],
               NEW f, f = Fetch(db, b, i - 1, o[1])
        PROVE  /\ f # Null /\ o[2] \in DOMAIN f.vSpent /\ f.vSpent[o[2]] = Null
               /\ o[1] \in CoinBase => f.pos \notin ImmatureIn(b)
               /\ MoneyRange(vout[o[1]][o[2]])
    <3>1. PICK x \in Occurrences(b) :
             /\ TxAt(x) = o[1] /\ Before(x, y)
             /\ o[1] \in CoinBase => nHeight[b] - nHeight[x[1]] >= COINBASE_MATURITY
      BY <2>1, <2>2, <2>5 DEF Promised!SpendsProperly, Occurrences, TxAt, Before
    <3>2. /\ o[2] \in DOMAIN vout[o[1]] /\ MoneyRange(vout[o[1]][o[2]])
          /\ \A z \in Occurrences(b) : o \in vin[TxAt(z)] => z = y
      BY <2>1, <2>2, <2>5 DEF Promised!SpendsProperly, Occurrences, TxAt
    <3>3. o = <<o[1], o[2]>> /\ o[1] \in Tx /\ o[2] \in 1..Len(vout[o[1]])
      <4>1. o \in Tx \X Nat
        BY <2>1, <2>5, ChainDataAssumption
      <4>2. vout[o[1]] \in Seq(Nat)
        BY <4>1, ChainDataAssumption
      <4> QED
        BY <3>2, <4>1, <4>2, LenProperties
    <3>4. i \in 1..Len(vtx[b]) /\ i - 1 \in 0..Len(vtx[b])
      BY <1>2
    <3>5. ASSUME NEW lo \in Nat, lo >= 1 PROVE Spenders(b, lo, i - 1, o) = {}
      <4>1. SUFFICES ASSUME NEW k \in lo..i - 1, o \in vin[vtx[b][k]] PROVE FALSE
        BY DEF Spenders
      <4>2. k \in DOMAIN vtx[b] /\ k # i
        BY <1>2, <3>4, <3>5
      <4>3. <<b, k>> \in Occurrences(b) /\ TxAt(<<b, k>>) = vtx[b][k] /\ <<b, k>>[2] = k
        BY <1>1, <4>2, OccurrenceAt
      <4> QED
        BY <2>1, <3>2, <4>1, <4>2, <4>3
    <3>6. ASSUME NEW lo \in Nat, lo >= 1, NEW e \in CTxIndex(o[1]), e.pos = x[1],
                 e.vSpent[o[2]] = Null, f = Marked(e, o[1], b, lo, i - 1)
          PROVE  f # Null /\ o[2] \in DOMAIN f.vSpent /\ f.vSpent[o[2]] = Null /\ f.pos = x[1]
      <4> DEFINE S == Spenders(b, lo, i - 1, <<o[1], o[2]>>)
      <4>0. S = {}
        BY <3>3, <3>5, <3>6
      <4>1. /\ f.pos = x[1] /\ DOMAIN f.vSpent = 1..Len(vout[o[1]])
            /\ f.vSpent[o[2]] = IF S = {} THEN e.vSpent[o[2]] ELSE CHOOSE u \in S : TRUE
        BY <3>3, <3>6, MarkedEntry
      <4>2. f \in CTxIndex(o[1])
        BY <1>1, <3>3, <3>4, <3>6, MarkedType
      <4>3. f # Null
        BY <3>3, <4>2, NullAssumption
      <4> QED
        BY <3>3, <3>6, <4>0, <4>1, <4>3
    <3>7. f # Null /\ o[2] \in DOMAIN f.vSpent /\ f.vSpent[o[2]] = Null /\ f.pos = x[1]
      <4>1. CASE x \notin Occurrences(p)
        <5>1. x[1] = b /\ x[2] \in DOMAIN vtx[b] /\ vtx[b][x[2]] = o[1]
          BY <1>1, <3>1, <4>1, OccurrencesSplit, OccurrenceFacts
        <5>2. nHeight[b] \in Nat
          BY ChainDataAssumption
        <5>3. x[2] \in 1..i - 1
          BY <1>2, <2>1, <3>1, <3>4, <5>1, <5>2 DEF Before, Promised!Before
        <5>4. f = Marked(NewTxIndex(o[1], b), o[1], b, x[2] + 1, i - 1)
          BY <1>3, <2>5, <3>3, <3>4, <5>1, <5>3, FetchFromBlock
        <5>5. /\ NewTxIndex(o[1], b) \in CTxIndex(o[1]) /\ NewTxIndex(o[1], b).pos = x[1]
              /\ NewTxIndex(o[1], b).vSpent[o[2]] = Null
          BY <3>3, <5>1 DEF NewTxIndex, CTxIndex
        <5>6. x[2] + 1 \in Nat /\ x[2] + 1 >= 1
          BY <5>3
        <5> QED
          BY <3>6, <5>4, <5>5, <5>6
      <4>2. CASE x \in Occurrences(p)
        <5>1. \A k \in 1..i - 1 : vtx[b][k] # o[1]
          <6>1. SUFFICES ASSUME NEW k \in 1..i - 1, vtx[b][k] = o[1] PROVE FALSE
            OBVIOUS
          <6>2. k \in DOMAIN vtx[b]
            BY <1>2, <3>4
          <6>3. <<b, k>> \in Occurrences(b) /\ TxAt(<<b, k>>) = o[1] /\ <<b, k>>[1] = b
            BY <1>1, <6>1, <6>2, OccurrenceAt
          <6>4. x = <<b, k>>
            BY <1>1, <3>1, <6>3 DEF Sound
          <6> QED
            BY <4>2, <6>3, <6>4, OccurrencesSplit
        <5>2. /\ db[o[1]] \in CTxIndex(o[1]) /\ db[o[1]] # Null /\ db[o[1]].pos = x[1]
              /\ db[o[1]].vSpent[o[2]] = SpenderIn(p, o)
          BY <1>1, <3>1, <3>3, <4>2, IndexIsIndex
        <5>3. SpenderIn(p, o) = Null
          <6>1. \A z \in Occurrences(p) : o \notin vin[TxAt(z)]
            BY <2>1, <3>2, OccurrencesSplit
          <6> QED
            BY <1>1, <6>1, SpenderFacts
        <5>4. f = Marked(db[o[1]], o[1], b, 1, i - 1)
          BY <2>5, <3>3, <3>4, <5>1, <5>2, FetchFromDatabase
        <5> QED
          BY <3>6, <5>2, <5>3, <5>4
      <4> QED
        BY <4>1, <4>2
    <3>8. o[1] \in CoinBase => f.pos \notin ImmatureIn(b)
      <4>1. x[1] \in Branch[b] /\ nHeight[x[1]] \in Nat
        BY OccurrenceFacts
      <4>2. nHeight[b] \in Nat /\ COINBASE_MATURITY \in Nat
        BY ChainDataAssumption
      <4> QED
        BY <3>1, <3>7, <4>1, <4>2 DEF ImmatureIn
    <3> QED
      BY <3>2, <3>7, <3>8
  <2>6. GetValueIn(t) >= GetValueOut(t)
    BY <2>3
  <2> QED
    BY <2>3, <2>4, <2>5, <2>6 DEF ConnectInputs
<1> QED
  BY <1>3, <1>4, <1>5 DEF ConnectBlockOK

-----------------------------------------------------------------------------
(***************************************************************************)
(* The database from one block to the next.                                *)
(***************************************************************************)
\* A block and its parent's branch.
LEMMA ChildBranch ==
    ASSUME NEW b \in Block, b # Genesis
    PROVE  /\ hashPrevBlock[b] \in Block
           /\ Branch[hashPrevBlock[b]] \ Branch[b] = {}
           /\ Branch[b] \ Branch[hashPrevBlock[b]] = {b}
           /\ \A c \in Branch[hashPrevBlock[b]] : hashPrevBlock[c] # hashPrevBlock[b]
<1> DEFINE p == hashPrevBlock[b]
<1>1. p \in Block /\ nHeight[p] < nHeight[b] /\ Branch[b] = {b} \cup Branch[p]
  BY TreeFacts
<1>2. nHeight[b] \in Nat /\ nHeight[p] \in Nat
  BY <1>1, ChainDataAssumption
<1>3. b \notin Branch[p]
  BY <1>1, <1>2, BranchClosed
<1>4. ASSUME NEW c \in Branch[p], hashPrevBlock[c] = p PROVE FALSE
  <2>1. c \in Block /\ c # Genesis
    BY <1>1, <1>4, BranchClosed, ChainDataAssumption
  <2>2. nHeight[p] < nHeight[c] /\ nHeight[c] <= nHeight[p]
    BY <1>1, <1>4, <2>1, TreeFacts, BranchClosed
  <2>3. nHeight[c] \in Nat
    BY <2>1, ChainDataAssumption
  <2> QED
    BY <1>2, <2>2, <2>3
<1> QED
  BY <1>1, <1>3, <1>4

\* In a branch every block has at most one child.
LEMMA OneChild ==
    ASSUME NEW b \in Block, NEW c \in Branch[b], NEW d \in Branch[b],
           hashPrevBlock[c] = hashPrevBlock[d], hashPrevBlock[c] \in Block
    PROVE  c = d
<1>1. c \in Block \ {Genesis} /\ d \in Block \ {Genesis}
  BY BranchClosed, ChainDataAssumption
<1>2. nHeight[c] = nHeight[d] /\ nHeight[c] \in Nat
  BY <1>1, ChainDataAssumption
<1>3. c \in Branch[d]
  BY <1>2, BranchIsChain
<1> QED
  BY <1>1, <1>2, <1>3, BranchClosed

\* Connecting a block takes the database from the parent's branch to the block's.
LEMMA HoldsChild ==
    ASSUME CoinBasesAreUnique, NEW b \in Block, b # Genesis, NEW sig, sig \in BOOLEAN,
           TotalBlocksEstimate = 0 => sig,
           NEW txdb, NEW next \in [Block -> Block \cup {Null}],
           Holds(hashPrevBlock[b], txdb, next), ConnectBlockOK(txdb, b, sig)
    PROVE  Holds(b, ConnectBlock(txdb, b), [next EXCEPT ![hashPrevBlock[b]] = b])
<1> DEFINE p == hashPrevBlock[b]
           new == [next EXCEPT ![p] = b]
<1>1. /\ p \in Block /\ Branch[b] \ Branch[p] = {b} /\ Branch[p] \ Branch[b] = {}
      /\ \A c \in Branch[p] : hashPrevBlock[c] # p
  BY ChildBranch
<1>2. Connects(b, sig) /\ txdb = IndexOf(p)
  BY DEF Connects, Holds
<1>3. Sound(b) /\ ConnectBlock(txdb, b) = IndexOf(b)
  BY <1>2, ChildIsSound, ConnectGivesChild
<1>4. ScriptsAreChecked => ValidBranch(b)
  BY <1>2, ChildIsValid DEF Holds, ScriptsAreChecked
<1>5. ASSUME NEW a \in Block, NEW c \in Block
      PROVE  new[a] = c <=> c \in Branch[b] /\ hashPrevBlock[c] = a
  <2>1. next[a] = c <=> c \in Branch[p] /\ hashPrevBlock[c] = a
    BY DEF Holds, Links
  <2> QED
    BY <1>1, <2>1
<1> QED
  BY <1>3, <1>4, <1>5 DEF Holds, Links

\* Disconnecting the last block is possible and takes the database back.
LEMMA HoldsParent ==
    ASSUME NEW b \in Block, b # Genesis, NEW txdb, NEW next \in [Block -> Block \cup {Null}],
           Holds(b, txdb, next)
    PROVE  /\ DisconnectBlockOK(txdb, b)
           /\ Holds(hashPrevBlock[b], DisconnectBlock(txdb, b),
                    [next EXCEPT ![hashPrevBlock[b]] = Null])
<1> DEFINE p == hashPrevBlock[b]
           new == [next EXCEPT ![p] = Null]
<1>1. /\ p \in Block /\ Branch[b] \ Branch[p] = {b} /\ Branch[p] \ Branch[b] = {}
      /\ \A c \in Branch[p] : hashPrevBlock[c] # p
  BY ChildBranch
<1>2. Sound(b) /\ txdb = IndexOf(b)
  BY DEF Holds
<1>3. Sound(p) /\ DisconnectBlock(txdb, b) = IndexOf(p) /\ DisconnectBlockOK(txdb, b)
  BY <1>2, ParentIsSound, DisconnectGivesParent, DisconnectIsPossible
<1>4. ScriptsAreChecked => ValidBranch(p)
  BY <1>2, ParentIsValid DEF Holds
<1>5. ASSUME NEW a \in Block, NEW c \in Block
      PROVE  new[a] = c <=> c \in Branch[p] /\ hashPrevBlock[c] = a
  <2>1. next[a] = c <=> c \in Branch[b] /\ hashPrevBlock[c] = a
    BY DEF Holds, Links
  <2>2. Null # c
    BY ChainDataAssumption
  <2> QED
    BY <1>1, <2>1, <2>2
<1> QED
  BY <1>3, <1>4, <1>5 DEF Holds, Links

\* Switching pnext in memory gives what the database transaction wrote.
LEMMA SwitchedIsStored ==
    ASSUME NEW best \in Block, NEW new \in Block,
           vDisconnect = Branch[best] \ Branch[new], vConnect = Branch[new] \ Branch[best],
           pnext \in [Block -> Block \cup {Null}], NEW next \in [Block -> Block \cup {Null}],
           Links(best, pnext), Links(new, next)
    PROVE  PnextSwitched = next
<1>1. ASSUME NEW a \in Block PROVE PnextSwitched[a] = next[a]
  <2>1. /\ \A c \in Block : pnext[a] = c <=> c \in Branch[best] /\ hashPrevBlock[c] = a
        /\ \A c \in Block : next[a] = c <=> c \in Branch[new] /\ hashPrevBlock[c] = a
        /\ pnext[a] \in Block \cup {Null} /\ next[a] \in Block \cup {Null}
        /\ Branch[best] \subseteq Block /\ Branch[new] \subseteq Block
    BY BranchEnds DEF Links
  <2>2. CASE \E c \in vConnect : hashPrevBlock[c] = a
    <3>1. PnextSwitched[a] = CHOOSE c \in vConnect : hashPrevBlock[c] = a
      BY <2>2 DEF PnextSwitched
    <3> QED
      BY <2>1, <2>2, <3>1
  <2>3. CASE /\ ~\E c \in vConnect : hashPrevBlock[c] = a
             /\ \E d \in vDisconnect : hashPrevBlock[d] = a
    <3>1. PnextSwitched[a] = Null
      BY <2>3 DEF PnextSwitched
    <3>2. PICK d \in vDisconnect : hashPrevBlock[d] = a
      BY <2>3
    <3>3. ASSUME NEW c \in Block, next[a] = c PROVE FALSE
      <4>1. c \in Branch[new] /\ c \in Branch[best] /\ hashPrevBlock[c] = a
        BY <2>1, <2>3, <3>3
      <4>2. c = d
        BY <3>2, <4>1, OneChild
      <4> QED
        BY <3>2, <4>1, <4>2
    <3> QED
      BY <2>1, <3>1, <3>3
  <2>4. CASE /\ ~\E c \in vConnect : hashPrevBlock[c] = a
             /\ ~\E d \in vDisconnect : hashPrevBlock[d] = a
    <3>1. PnextSwitched[a] = pnext[a]
      BY <2>4 DEF PnextSwitched
    <3>2. \A c \in Block : pnext[a] = c <=> next[a] = c
      BY <2>1, <2>4
    <3> QED
      BY <2>1, <3>1, <3>2, ChainDataAssumption
  <2> QED
    BY <2>2, <2>3, <2>4
<1> QED
  BY <1>1 DEF PnextSwitched

-----------------------------------------------------------------------------
(***************************************************************************)
(* Every step keeps the invariant.                                         *)
(***************************************************************************)
USE DEF diskVars, walletVars, txnVars, poolVars, keptVars, callVars, jobVars

LEMMA BranchInit == Init => BranchInv
<1> SUFFICES ASSUME Init PROVE BranchInv
  OBVIOUS
<1> USE DEF Init
<1>1. Occurrences(Genesis) = {}
  BY ChainDataAssumption DEF Occurrences, Promised!Occurrences
<1>2. Sound(Genesis)
  BY <1>1 DEF Sound
<1>3. ValidBranch(Genesis)
  BY <1>1, ChainDataAssumption DEF ValidBranch, Promised!ValidBranch, Occurrences
<1>4. diskTx = IndexOf(Genesis)
  BY <1>1, <1>2, ChainDataAssumption, IndexEntries
<1>5. Links(Genesis, diskNext)
  BY ChainDataAssumption DEF Links
<1>6. Planned
  BY DEF Planned, Switching
<1>7. Progress
  BY DEF Progress
<1>8. Stored
  BY <1>2, <1>3, <1>4, <1>5 DEF Stored, Holds
<1>9. Clear
  BY DEF Clear, Switching
<1> QED
  BY <1>6, <1>7, <1>8, <1>9 DEF BranchInv

\* A step that changes neither the database, nor its open transaction, nor the
\* plan, nor the pool.
LEMMA StepAside ==
    ASSUME BranchInv, pc \in {"idle", "orphans"}, pc' \in {"idle", "orphans", "setbest"},
           UNCHANGED <<diskNext, diskBest, diskTx, txnVars, pnext, callVars, relayed>>,
           mapBlockIndex' = diskIndex', \A t \in mapTx' : t \in mapTx \/ diskTx[t] = Null
    PROVE  BranchInv'
<1> USE DEF BranchInv
<1>1. Planned'
  BY DEF Planned, Switching
<1>2. Progress'
  BY DEF Progress
<1>3. Stored'
  BY DEF Stored
<1>4. Clear'
  BY DEF Clear, Switching
<1> QED
  BY <1>1, <1>2, <1>3, <1>4

\* A reorganisation that fails leaves the database as it was.
LEMMA FailureAborts ==
    ASSUME BranchInv, pc \in {"disconnect", "connect"}, ReorganizeFailed,
           UNCHANGED <<diskVars, pnext, mapBlockIndex, mapTx, relayed>>
    PROVE  BranchInv'
<1> USE DEF BranchInv, ReorganizeFailed, TxnAbort, Return
<1>1. pc' \in {"idle", "orphans"}
  OBVIOUS
<1>2. Planned'
  BY <1>1 DEF Planned, Switching
<1>3. Progress'
  BY <1>1 DEF Progress
<1>4. Stored'
  BY DEF Stored
<1>5. Clear'
  BY <1>1 DEF Clear, Switching
<1> QED
  BY <1>2, <1>3, <1>4, <1>5

\* SetBestChain decides on a direct connection or a reorganisation.
LEMMA SetBestChainPlans ==
    ASSUME TypeOK, WorkInv, BranchInv, BestIsStored, SetBestChain
    PROVE  BranchInv'
<1> USE DEF BranchInv
<1>1. /\ pc = "setbest" /\ pindexBest = diskBest /\ done = {} /\ vResurrect = <<>>
      /\ pindexNew \in Block /\ diskBest \in Block /\ txnTx = diskTx /\ txnNext = diskNext
      /\ Holds(diskBest, diskTx, diskNext) /\ \A t \in mapTx : diskTx[t] = Null
  BY DEF SetBestChain, BestIsStored, Planned, Progress, Stored, Clear, TypeOK, DiskType, LocalType
<1>2. /\ UNCHANGED <<diskVars, txnVars, pnext, mapBlockIndex, mapTx, pindexNew, done,
                     vResurrect, relayed>>
      /\ pc' \in {"connect", "disconnect"}
  BY DEF SetBestChain
<1>3. Stored'
  BY <1>2 DEF Stored
<1>4. Clear'
  BY <1>1, <1>2 DEF Clear, Switching
<1>5. CASE hashPrevBlock[pindexNew] = pindexBest
  <2>1. /\ pindexIntermediate' = pindexNew /\ vpindexSecondary' = {}
        /\ vDisconnect' = {} /\ vConnect' = {pindexNew} /\ pc' = "connect"
    BY <1>5 DEF SetBestChain
  <2>2. pindexNew # Genesis
    BY <1>1, <1>5, ChainDataAssumption
  <2>3. /\ Branch[diskBest] \ Branch[pindexNew] = {}
        /\ Branch[pindexNew] \ Branch[diskBest] = {pindexNew}
    BY <1>1, <1>5, <2>2, ChildBranch
  <2>4. pindexNew \in Branch[pindexNew]
        /\ {d \in Branch[pindexNew] : bnChainWork[d] > bnChainWork[pindexNew]} = {}
    <3>1. \A d \in Branch[pindexNew] :
             bnChainWork[d] \in Nat /\ bnChainWork[d] <= bnChainWork[pindexNew]
      BY <1>1, BranchWork, ChainDataAssumption
    <3>2. bnChainWork[pindexNew] \in Nat
      BY <1>1, ChainDataAssumption
    <3> QED
      BY <1>1, <3>1, <3>2, BranchEnds
  <2>5. Planned'
    BY <1>2, <2>1, <2>3, <2>4 DEF Planned
  <2>6. Branch[diskBest] = (Branch[pindexNew] \ {pindexNew}) \cup {}
    BY <2>3
  <2>7. Progress'
    BY <1>1, <1>2, <2>1, <2>6 DEF Progress
  <2> QED
    BY <1>3, <1>4, <2>5, <2>7
<1>6. CASE hashPrevBlock[pindexNew] # pindexBest
  <2>1. PICK c \in Branch[pindexNew] :
           /\ pindexIntermediate' = c
           /\ vpindexSecondary' = {d \in Branch[pindexNew] : bnChainWork[d] > bnChainWork[c]}
           /\ vDisconnect' = Branch[diskBest] \ Branch[c]
           /\ vConnect' = Branch[c] \ Branch[diskBest]
           /\ pc' = "disconnect"
    BY <1>1, <1>6 DEF SetBestChain
  <2>2. Planned'
    BY <1>2, <2>1 DEF Planned
  <2>3. Branch[diskBest] = Branch[diskBest] \ {}
    OBVIOUS
  <2>4. Progress'
    BY <1>1, <1>2, <2>1, <2>3 DEF Progress
  <2> QED
    BY <1>3, <1>4, <2>2, <2>4
<1> QED
  BY <1>5, <1>6

\* What an outcome of DisconnectStep, ConnectStep or SecondaryStep leaves alone
\* is enough for the database.
LEMMA StoredStays ==
    ASSUME Stored, UNCHANGED <<diskVars, pnext, mapBlockIndex, relayed>>
    PROVE  Stored'
BY DEF Stored

\* Disconnecting takes the open transaction down the branch, and never fails.
LEMMA DisconnectDescends ==
    ASSUME TypeOK, BranchInv, DisconnectStep
    PROVE  BranchInv'
<1> USE DEF BranchInv
<1> DEFINE best == diskBest
           goal == pindexIntermediate
<1>1. /\ pc = "disconnect" /\ best \in Block /\ goal \in Block
      /\ vDisconnect = Branch[best] \ Branch[goal] /\ vConnect = Branch[goal] \ Branch[best]
      /\ done \subseteq vDisconnect /\ Sound(best)
      /\ txnNext \in [Block -> Block \cup {Null}] /\ vResurrect \in Seq(Tx)
  BY DEF DisconnectStep, Planned, Progress, Stored, Holds, TypeOK, DiskType, LocalType
<1>2. PICK t \in Block : Branch[t] = Branch[best] \ done /\ Holds(t, txnTx, txnNext)
  BY <1>1 DEF Progress
<1>3. UNCHANGED <<diskVars, pnext, mapBlockIndex, mapTx, relayed>>
  BY DEF DisconnectStep
<1>4. Stored'
  BY <1>3, StoredStays
<1>5. CASE /\ vDisconnect \subseteq done /\ pc' = "connect" /\ done' = {}
           /\ UNCHANGED <<txnVars, vResurrect, keptVars>>
  <2>1. Planned'
    BY <1>1, <1>3, <1>5 DEF Planned, Switching
  <2>2. Branch[t] = (Branch[goal] \ vConnect) \cup {}
    BY <1>1, <1>2, <1>5
  <2>3. Progress'
    BY <1>2, <1>5, <2>2 DEF Progress
  <2>4. Clear'
    BY <1>1, <1>3, <1>5 DEF Clear, Switching
  <2> QED
    BY <1>4, <2>1, <2>3, <2>4
<1>6. ASSUME NEW b \in vDisconnect \ done, \A d \in vDisconnect \ done : nHeight[d] <= nHeight[b]
      PROVE  /\ b = t /\ b \in Block /\ b # Genesis /\ hashPrevBlock[b] \in Block
             /\ Branch[hashPrevBlock[b]] = Branch[best] \ (done \cup {b})
             /\ DisconnectBlockOK(txnTx, b)
             /\ Holds(hashPrevBlock[b], DisconnectBlock(txnTx, b),
                      [txnNext EXCEPT ![hashPrevBlock[b]] = Null])
  <2>1. /\ b = t /\ b # Genesis /\ hashPrevBlock[b] \in Block
        /\ Branch[hashPrevBlock[b]] = Branch[best] \ (done \cup {b})
    BY <1>1, <1>2, <1>6, DisconnectTakesTip
  <2> QED
    BY <1>1, <1>2, <2>1, HoldsParent
<1>7. ASSUME NEW b \in vDisconnect \ done, \A d \in vDisconnect \ done : nHeight[d] <= nHeight[b],
             txnTx' = DisconnectBlock(txnTx, b),
             txnNext' = [txnNext EXCEPT ![hashPrevBlock[b]] = Null],
             done' = done \cup {b}, vResurrect' = vResurrect \o vtx[b],
             UNCHANGED <<pc, keptVars>>
      PROVE  BranchInv'
  <2>1. Planned'
    BY <1>1, <1>3, <1>7 DEF Planned
  <2>2. Progress'
    BY <1>1, <1>3, <1>6, <1>7 DEF Progress
  <2>3. ASSUME NEW i \in DOMAIN vResurrect', NEW x \in Occurrences(goal), TxAt(x) = vResurrect'[i]
        PROVE  x[1] \in vConnect
    <3>1. b \in Block /\ b # Genesis /\ b \in Branch[best] /\ b \notin Branch[goal]
      BY <1>1, <1>6, <1>7
    <3>2. vtx[b] \in Seq(Tx)
      BY <3>1, ChainDataAssumption
    <3>3. CASE i \in DOMAIN vResurrect /\ vResurrect'[i] = vResurrect[i]
      BY <1>1, <2>3, <3>3 DEF Clear, Switching
    <3>4. CASE \E j \in DOMAIN vtx[b] : vResurrect'[i] = vtx[b][j]
      <4>1. PICK j \in DOMAIN vtx[b] : TxAt(x) = vtx[b][j]
        BY <2>3, <3>4
      <4>2. <<b, j>> \in Occurrences(best) /\ TxAt(<<b, j>>) = TxAt(x) /\ <<b, j>>[1] = b
        BY <1>1, <3>1, <4>1, OccurrenceAt
      <4>3. /\ x[1] \in Branch[goal] \ {Genesis} /\ x[2] \in DOMAIN vtx[x[1]]
            /\ x = <<x[1], x[2]>>
        BY <1>1, OccurrenceFacts
      <4>4. CASE x[1] \in Branch[best]
        <5>1. x \in Occurrences(best)
          BY <1>1, <4>3, <4>4, OccurrenceAt
        <5>2. x = <<b, j>>
          BY <1>1, <4>2, <5>1 DEF Sound
        <5> QED
          BY <3>1, <4>2, <4>3, <5>2
      <4> QED
        BY <1>1, <4>3, <4>4
    <3>5. \/ i \in DOMAIN vResurrect /\ vResurrect'[i] = vResurrect[i]
          \/ \E j \in DOMAIN vtx[b] : vResurrect'[i] = vtx[b][j]
      <4>1. /\ vResurrect' \in Seq(Tx) /\ Len(vResurrect') = Len(vResurrect) + Len(vtx[b])
            /\ \A k \in 1..Len(vResurrect) + Len(vtx[b]) :
                  vResurrect'[k] = IF k <= Len(vResurrect) THEN vResurrect[k]
                                   ELSE vtx[b][k - Len(vResurrect)]
        BY <1>1, <1>7, <3>2, ConcatProperties
      <4>2. /\ Len(vResurrect) \in Nat /\ DOMAIN vResurrect = 1..Len(vResurrect)
            /\ Len(vtx[b]) \in Nat /\ DOMAIN vtx[b] = 1..Len(vtx[b])
            /\ i \in 1..Len(vResurrect) + Len(vtx[b])
        BY <1>1, <2>3, <3>2, <4>1, LenProperties
      <4>3. CASE i <= Len(vResurrect)
        BY <4>1, <4>2, <4>3
      <4>4. CASE i > Len(vResurrect)
        <5>1. i - Len(vResurrect) \in DOMAIN vtx[b] /\ vResurrect'[i] = vtx[b][i - Len(vResurrect)]
          BY <4>1, <4>2, <4>4
        <5> QED
          BY <5>1
      <4> QED
        BY <4>2, <4>3, <4>4
    <3> QED
      BY <3>3, <3>4, <3>5
  <2>4. Clear'
    BY <1>1, <1>3, <1>7, <2>3 DEF Clear
  <2> QED
    BY <1>4, <2>1, <2>2, <2>4
<1> QED
  BY <1>1, <1>5, <1>6, <1>7 DEF DisconnectStep

\* Connecting takes it up the new branch; a block that fails ends the transaction.
LEMMA ConnectAscends ==
    ASSUME CoinBasesAreUnique, TypeOK, BranchInv, ConnectStep
    PROVE  BranchInv'
<1> USE DEF BranchInv
<1> DEFINE goal == pindexIntermediate
<1>1. /\ pc = "connect" /\ goal \in Block /\ vConnect \subseteq Branch[goal]
      /\ done \subseteq vConnect /\ txnNext \in [Block -> Block \cup {Null}]
  BY DEF ConnectStep, Planned, Progress, TypeOK, DiskType, LocalType
<1>2. PICK t \in Block : Branch[t] = (Branch[goal] \ vConnect) \cup done /\ Holds(t, txnTx, txnNext)
  BY <1>1 DEF Progress
<1>3. UNCHANGED <<diskVars, pnext, mapBlockIndex, mapTx, relayed>>
  BY DEF ConnectStep
<1>4. Stored'
  BY <1>3, StoredStays
<1>5. ASSUME NEW b \in vConnect \ done, \A d \in vConnect \ done : nHeight[b] <= nHeight[d],
             ConnectBlockOK(txnTx, b, fCheckSig), txnTx' = ConnectBlock(txnTx, b),
             txnNext' = [txnNext EXCEPT ![hashPrevBlock[b]] = b], done' = done \cup {b},
             pc' = IF vConnect \subseteq done' THEN "commit" ELSE "connect",
             UNCHANGED <<vResurrect, keptVars>>
      PROVE  BranchInv'
  <2>1. /\ b \in Block /\ b # Genesis /\ hashPrevBlock[b] = t
        /\ Branch[b] = (Branch[goal] \ vConnect) \cup (done \cup {b})
    <3>1. b \in vConnect \ done /\ \A d \in vConnect \ done : nHeight[b] <= nHeight[d]
      BY <1>5
    <3> HIDE DEF goal
    <3> QED
      BY ONLY <1>1, <1>2, <3>1, ConnectTakesChild
  <2>2. fCheckSig \in BOOLEAN /\ (TotalBlocksEstimate = 0 => fCheckSig)
    BY ChainDataAssumption DEF fCheckSig, TypeOK, MemoryType
  <2>3. Holds(b, txnTx', txnNext')
    BY <1>1, <1>2, <1>5, <2>1, <2>2, HoldsChild
  <2>4. Planned'
    BY <1>1, <1>3, <1>5 DEF Planned, Switching
  <2>5. vConnect \subseteq done' => b = goal
    <3>1. vConnect \subseteq done' => Branch[b] = Branch[goal]
      BY <1>1, <1>5, <2>1
    <3> QED
      BY <1>1, <2>1, <3>1, BranchNames
  <2>6. Progress'
    BY <1>1, <1>5, <2>1, <2>3, <2>5 DEF Progress
  <2>7. Clear'
    BY <1>1, <1>3, <1>5 DEF Clear, Switching
  <2> QED
    BY <1>4, <2>4, <2>6, <2>7
<1>6. CASE TxnAbort /\ pc' = "newbest" /\ UNCHANGED <<done, vResurrect, keptVars>>
  <2>1. Planned' /\ Progress' /\ Clear'
    BY <1>1, <1>3, <1>6 DEF Planned, Progress, Clear, TxnAbort, Switching
  <2> QED
    BY <1>4, <2>1
<1>7. CASE ReorganizeFailed
  BY <1>1, <1>3, <1>7, FailureAborts
<1> QED
  BY <1>5, <1>6, <1>7 DEF ConnectStep

\* No occurrence of a transaction that the index of the branch misses.
LEMMA NotIndexed ==
    ASSUME NEW b \in Block, Sound(b), NEW t
    PROVE  /\ IndexOf(b)[t] = Null => \A x \in Occurrences(b) : TxAt(x) # t
           /\ t \in Tx /\ (\A x \in Occurrences(b) : TxAt(x) # t) => IndexOf(b)[t] = Null
BY IndexIsIndex, IndexEntries

\* The commit makes the new branch the stored one, in the database and in the
\* memory index.
LEMMA CommitSwitches ==
    ASSUME TypeOK, WorkInv, BranchInv, Commit
    PROVE  BranchInv'
<1> USE DEF BranchInv
<1> DEFINE goal == pindexIntermediate
<1>1. /\ pc = "commit" /\ pc' = "resurrect" /\ goal \in Block /\ diskBest \in Block
      /\ diskTx' = txnTx /\ diskNext' = txnNext /\ diskBest' = goal /\ pnext' = PnextSwitched
      /\ UNCHANGED <<diskIndex, txnVars, mapBlockIndex, jobVars, mapTx, relayed>>
      /\ Holds(goal, txnTx, txnNext)
  BY DEF Commit, Progress, TypeOK, DiskType, LocalType
<1>2. /\ vDisconnect = Branch[diskBest] \ Branch[goal]
      /\ vConnect = Branch[goal] \ Branch[diskBest]
      /\ Holds(diskBest, diskTx, diskNext) /\ pnext = diskNext /\ mapBlockIndex = diskIndex
  BY <1>1 DEF Planned, Stored
<1>3. PnextSwitched = txnNext
  BY <1>1, <1>2, SwitchedIsStored DEF Holds, TypeOK, DiskType
<1>4. Stored'
  BY <1>1, <1>2, <1>3 DEF Stored
<1>5. Planned'
  BY <1>1 DEF Planned, Switching
<1>6. Progress'
  BY <1>1 DEF Progress
<1>7. ASSUME NEW t \in mapTx, NEW x \in Occurrences(goal), TxAt(x) = t
      PROVE  x[1] \in vConnect
  <2>1. diskTx[t] = Null
    BY <1>1, <1>7 DEF Clear
  <2>2. \A y \in Occurrences(diskBest) : TxAt(y) # t
    BY <1>1, <1>2, <2>1, NotIndexed DEF Holds
  <2>3. x[1] \in Branch[goal] \ {Genesis} /\ x[2] \in DOMAIN vtx[x[1]] /\ x = <<x[1], x[2]>>
    BY <1>1, OccurrenceFacts
  <2>4. ASSUME x[1] \in Branch[diskBest] PROVE FALSE
    <3>1. x \in Occurrences(diskBest)
      BY <1>1, <2>3, <2>4, OccurrenceAt
    <3> QED
      BY <1>7, <2>2, <3>1
  <2> QED
    BY <1>2, <2>3, <2>4
<1>8. Clear'
  BY <1>1, <1>7 DEF Clear, Switching
<1> QED
  BY <1>4, <1>5, <1>6, <1>8

\* A transaction that goes back to the pool is not in a block that stays connected.
LEMMA ResurrectKeepsClear ==
    ASSUME TypeOK, WorkInv, BranchInv, ResurrectStep
    PROVE  BranchInv'
<1> USE DEF BranchInv
<1>1. /\ pc = "resurrect" /\ pc' = pc /\ diskBest = pindexIntermediate
      /\ vResurrect # <<>> /\ vResurrect \in Seq(Tx) /\ vResurrect' = Tail(vResurrect)
      /\ mapTx' \subseteq mapTx \cup {Head(vResurrect)}
      /\ UNCHANGED <<diskVars, txnVars, mapBlockIndex, pnext, keptVars, done, relayed>>
  BY DEF ResurrectStep, addUnchecked, WorkInv, TypeOK, LocalType
<1>2. /\ Head(vResurrect) = vResurrect[1] /\ 1 \in DOMAIN vResurrect
      /\ \A i \in DOMAIN vResurrect' : i + 1 \in DOMAIN vResurrect
                                       /\ vResurrect'[i] = vResurrect[i + 1]
  BY <1>1, HeadTailProperties, LenProperties, EmptySeq
<1>3. Stored'
  BY <1>1, StoredStays
<1>4. Planned'
  BY <1>1 DEF Planned, Switching
<1>5. Progress'
  BY <1>1 DEF Progress
<1>6. Clear'
  BY <1>1, <1>2 DEF Clear, Switching
<1> QED
  BY <1>3, <1>4, <1>5, <1>6

\* The transactions of the connected blocks leave the pool: what is left in it
\* is in no block of the branch.
LEMMA DeleteKeepsClear ==
    ASSUME TypeOK, WorkInv, BranchInv, DeleteStep
    PROVE  BranchInv'
<1> USE DEF BranchInv
<1>1. /\ pc = "resurrect" /\ pc' = "secondary" /\ diskBest = pindexIntermediate
      /\ diskBest \in Block /\ mapTx \subseteq Tx
      /\ vResurrect = <<>> /\ mapTx' = mapTx \ UNION {TxsOf(b) : b \in vConnect}
      /\ UNCHANGED <<diskVars, txnVars, mapBlockIndex, pnext, jobVars, relayed>>
      /\ Holds(diskBest, diskTx, diskNext)
  BY DEF DeleteStep, remove, WorkInv, Stored, TypeOK, DiskType, PoolType
<1>2. Stored'
  BY <1>1, StoredStays
<1>3. Planned'
  BY <1>1 DEF Planned, Switching
<1>4. Progress'
  BY <1>1 DEF Progress
<1>5. ASSUME NEW t \in mapTx' PROVE diskTx[t] = Null
  <2>1. ASSUME NEW x \in Occurrences(diskBest), TxAt(x) = t PROVE FALSE
    <3>1. x[1] \in vConnect
      BY <1>1, <1>5, <2>1 DEF Clear
    <3>2. t \in TxsOf(x[1])
      BY <1>1, <2>1, OccurrenceFacts DEF TxsOf
    <3> QED
      BY <1>1, <1>5, <3>1, <3>2
  <2> QED
    BY <1>1, <1>5, <2>1, NotIndexed DEF Holds
<1>6. Clear'
  BY <1>1, <1>5 DEF Clear, Switching
<1> QED
  BY <1>2, <1>3, <1>4, <1>6

\* The next postponed block is connected on top of what is stored.
LEMMA SecondaryPlans ==
    ASSUME TypeOK, WorkInv, BranchInv, SecondaryStep
    PROVE  BranchInv'
<1> USE DEF BranchInv
<1>1. /\ pc = "secondary" /\ diskBest = pindexIntermediate /\ diskBest \in Block
      /\ pindexNew \in Block /\ pindexIntermediate \in Branch[pindexNew]
      /\ vpindexSecondary = {d \in Branch[pindexNew] :
                               bnChainWork[d] > bnChainWork[pindexIntermediate]}
      /\ txnTx = diskTx /\ txnNext = diskNext /\ Holds(diskBest, diskTx, diskNext)
      /\ \A t \in mapTx : diskTx[t] = Null
      /\ UNCHANGED <<diskVars, txnVars, mapBlockIndex, pnext, mapTx, pindexNew, relayed>>
  BY DEF SecondaryStep, WorkInv, Planned, Progress, Stored, Clear, Switching,
         TypeOK, DiskType, LocalType
<1>2. Stored'
  BY <1>1, StoredStays
<1>3. CASE pc' = "newbest"
  <2>1. Planned' /\ Progress' /\ Clear'
    BY <1>1, <1>3 DEF Planned, Progress, Clear, Switching
  <2> QED
    BY <1>2, <2>1
<1>4. ASSUME NEW b \in vpindexSecondary,
             \A d \in vpindexSecondary \ {b} : bnChainWork[d] > bnChainWork[b],
             pindexIntermediate' = b, vpindexSecondary' = vpindexSecondary \ {b},
             vDisconnect' = {}, vConnect' = {b}, done' = {}, vResurrect' = <<>>,
             pc' = "connect"
      PROVE  BranchInv'
  <2>1. b \in Branch[pindexNew] /\ b \in Block
    BY <1>1, <1>4, BranchEnds
  <2>2. b # Genesis /\ hashPrevBlock[b] = diskBest
    BY <1>1, <1>4, PostponedIsChild
  <2>3. /\ Branch[diskBest] \ Branch[b] = {} /\ Branch[b] \ Branch[diskBest] = {b}
    BY <2>1, <2>2, ChildBranch
  <2>4. vpindexSecondary' = {d \in Branch[pindexNew] : bnChainWork[d] > bnChainWork[b]}
    <3>1. \A d \in Branch[pindexNew] : d \in Block /\ bnChainWork[d] \in Nat
      BY <1>1, BranchEnds, ChainDataAssumption
    <3>2. bnChainWork[b] \in Nat /\ bnChainWork[pindexIntermediate] \in Nat
      BY <1>1, <2>1, ChainDataAssumption
    <3>3. b \in vpindexSecondary /\ bnChainWork[b] > bnChainWork[pindexIntermediate]
      BY <1>1, <1>4
    <3> QED
      BY <1>1, <1>4, <3>1, <3>2, <3>3
  <2>5. Planned'
    BY <1>1, <1>4, <2>1, <2>3, <2>4 DEF Planned
  <2>6. Branch[diskBest] = (Branch[b] \ {b}) \cup {}
    BY <2>3
  <2>7. Progress'
    BY <1>1, <1>4, <2>6 DEF Progress
  <2>8. Clear'
    BY <1>1, <1>4 DEF Clear, Switching
  <2> QED
    BY <1>2, <2>5, <2>7, <2>8
<1> QED
  BY <1>3, <1>4 DEF SecondaryStep

\* SetBestChain ends, and the block is announced.
LEMMA NewBestIsStored ==
    ASSUME TypeOK, BranchInv, BestIsStored', NewBest
    PROVE  BranchInv'
<1> USE DEF BranchInv
<1>1. /\ pc = "newbest" /\ pc' = "orphans" /\ pindexBest' = pindexNew
      /\ relayed' = relayed \cup {pindexNew} /\ Return
      /\ UNCHANGED <<diskVars, txnVars, mapBlockIndex, pnext, mapTx>>
  BY DEF NewBest
<1>2. pindexNew = diskBest
  BY <1>1 DEF BestIsStored
<1>3. Stored'
  BY <1>1, <1>2 DEF Stored, Holds
<1>4. Planned' /\ Progress' /\ Clear'
  BY <1>1 DEF Planned, Progress, Clear, Switching, Return
<1> QED
  BY <1>3, <1>4

\* After a crash the open transaction is lost, and the pool is filled with
\* transactions the database does not have.
LEMMA RestartLoadsBranch ==
    ASSUME TypeOK, BranchInv, CrashAndRestart
    PROVE  BranchInv'
<1> USE DEF BranchInv
<1>1. /\ pc' = "idle" /\ txnTx' = diskTx /\ txnNext' = diskNext /\ Return
      /\ mapBlockIndex' = diskIndex /\ pnext' = diskNext
      /\ mapTx' \in Reaccepted(mapWallet') /\ UNCHANGED <<diskVars, relayed>>
  BY DEF CrashAndRestart, TxnAbort, LoadBlockIndex
<1>2. \A t \in mapTx' : diskTx[t] = Null
  BY <1>1 DEF Reaccepted
<1>3. Stored'
  BY <1>1 DEF Stored
<1>4. Planned' /\ Progress' /\ Clear'
  BY <1>1, <1>2 DEF Planned, Progress, Clear, Switching, Return
<1> QED
  BY <1>3, <1>4

LEMMA BranchNext ==
    ASSUME CoinBasesAreUnique, TypeOK, WorkInv, BestIsStored, BestIsStored', BranchInv,
           [Next]_vars
    PROVE  BranchInv'
<1>1. ASSUME NEW b \in Block, ProcessBlock(b) \/ ProcessOrphan(b) PROVE BranchInv'
  <2>1. /\ pc \in {"idle", "orphans"} /\ mapBlockIndex = diskIndex
        /\ UNCHANGED <<txnVars, pnext, poolVars, callVars, relayed>>
    BY <1>1 DEF ProcessBlock, ProcessOrphan, BranchInv, Stored
  <2>2. CASE AcceptBlock(b)
    <3>1. /\ mapBlockIndex' = diskIndex' /\ UNCHANGED <<diskNext, diskBest, diskTx>>
          /\ pc' \in {"orphans", "setbest"}
      BY <2>1, <2>2 DEF AcceptBlock, AddToBlockIndex
    <3> QED
      BY <2>1, <3>1, StepAside
  <2>3. CASE UNCHANGED <<diskVars, mapBlockIndex, pc>>
    BY <2>1, <2>3, StepAside
  <2> QED
    BY <1>1, <2>2, <2>3 DEF ProcessBlock, ProcessOrphan
<1>2. ASSUME NEW t \in Tx, AcceptToMemoryPool(t) PROVE BranchInv'
  <2>1. mapBlockIndex = diskIndex
    BY DEF BranchInv, Stored
  <2> QED
    BY <1>2, <2>1, StepAside DEF AcceptToMemoryPool, InputsAvailable, addUnchecked
<1>3. CASE OrphansDone
  <2>1. mapBlockIndex = diskIndex
    BY DEF BranchInv, Stored
  <2> QED
    BY <1>3, <2>1, StepAside DEF OrphansDone
<1>4. CASE SetBestChain
  BY <1>4, SetBestChainPlans
<1>5. CASE DisconnectStep
  BY <1>5, DisconnectDescends
<1>6. CASE ConnectStep
  BY <1>6, ConnectAscends
<1>7. CASE Commit
  BY <1>7, CommitSwitches
<1>8. CASE ResurrectStep
  BY <1>8, ResurrectKeepsClear
<1>9. CASE DeleteStep
  BY <1>9, DeleteKeepsClear
<1>10. CASE SecondaryStep
  BY <1>10, SecondaryPlans
<1>11. CASE NewBest
  BY <1>11, NewBestIsStored
<1>12. CASE CrashAndRestart
  BY <1>12, RestartLoadsBranch
<1>13. CASE UNCHANGED vars
  BY <1>13 DEF vars, BranchInv, Planned, Progress, Stored, Clear
<1> QED
  BY <1>1, <1>2, <1>3, <1>4, <1>5, <1>6, <1>7, <1>8, <1>9, <1>10, <1>11, <1>12, <1>13
  DEF Next, Internal

\* SetBestChain ends with everything it postponed connected, or fails as a whole.
LEMMA BestNext ==
    ASSUME TypeOK, WorkInv, BranchInv, BestIsStored, [Next]_vars,
           [pc = "connect" => pc' # "newbest"]_vars
    PROVE  BestIsStored'
<1> USE DEF BestIsStored
<1>1. ASSUME NEW b \in Block, ProcessBlock(b) \/ ProcessOrphan(b) PROVE BestIsStored'
  BY <1>1 DEF ProcessBlock, ProcessOrphan, AcceptBlock, AddToBlockIndex
<1>2. ASSUME NEW t \in Tx, AcceptToMemoryPool(t) PROVE BestIsStored'
  BY <1>2 DEF AcceptToMemoryPool
<1>3. CASE OrphansDone
  BY <1>3 DEF OrphansDone
<1>4. CASE SetBestChain
  BY <1>4 DEF SetBestChain
<1>5. ASSUME ReorganizeFailed, pindexBest = diskBest, UNCHANGED <<diskBest, pindexBest>>
      PROVE  BestIsStored'
  BY <1>5 DEF ReorganizeFailed, Return
<1>6. CASE DisconnectStep
  <2>1. pindexBest = diskBest /\ UNCHANGED <<diskBest, pindexBest>>
    BY <1>6 DEF DisconnectStep
  <2>2. CASE pc' \in {"disconnect", "connect"}
    BY <2>1, <2>2
  <2> QED
    BY <1>5, <1>6, <2>1, <2>2 DEF DisconnectStep
<1>7. CASE ConnectStep
  <2>1. pc = "connect" /\ UNCHANGED <<diskBest, pindexBest>>
    BY <1>7 DEF ConnectStep
  <2>2. CASE pc' \in {"connect", "commit"} /\ UNCHANGED fSecondary
    BY <2>1, <2>2
  <2>3. CASE pc' = "newbest"
    BY <2>1, <2>3 DEF vars
  <2>4. CASE ReorganizeFailed /\ ~fSecondary
    BY <1>5, <2>1, <2>4
  <2> QED
    BY <1>7, <2>2, <2>3, <2>4 DEF ConnectStep
<1>8. CASE Commit \/ ResurrectStep \/ DeleteStep
  BY <1>8 DEF Commit, ResurrectStep, DeleteStep
<1>9. CASE SecondaryStep
  <2>1. CASE pc' = "newbest" /\ vpindexSecondary = {} /\ UNCHANGED pindexNew
    <3>1. /\ pc = "secondary" /\ diskBest' = diskBest
          /\ pindexNew \in Block /\ pindexIntermediate \in Block
      BY <1>9 DEF SecondaryStep, TypeOK, LocalType
    <3>2. /\ pindexIntermediate \in Branch[pindexNew] /\ pindexNew \in Branch[pindexNew]
          /\ ~(bnChainWork[pindexNew] > bnChainWork[pindexIntermediate])
      BY <2>1, <3>1, BranchEnds DEF BranchInv, Planned, Switching
    <3>3. pindexIntermediate = pindexNew
      <4>1. SUFFICES ASSUME pindexIntermediate # pindexNew PROVE FALSE
        OBVIOUS
      <4> DEFINE p == hashPrevBlock[pindexNew]
      <4>2. pindexNew # Genesis /\ p \in Block /\ pindexIntermediate \in Branch[p]
        BY <3>1, <3>2, <4>1, BelowIsInParent
      <4>3. /\ bnChainWork[pindexIntermediate] <= bnChainWork[p]
            /\ bnChainWork[p] < bnChainWork[pindexNew]
        BY <3>1, <4>2, BranchWork, ChainDataAssumption
      <4>4. /\ bnChainWork[pindexNew] \in Nat /\ bnChainWork[pindexIntermediate] \in Nat
            /\ bnChainWork[p] \in Nat
        BY <3>1, <4>2, ChainDataAssumption
      <4> QED
        BY <3>2, <4>3, <4>4
    <3>4. diskBest = pindexIntermediate
      BY <3>1 DEF WorkInv
    <3> QED
      BY <2>1, <3>1, <3>3, <3>4
  <2>2. CASE pc' = "connect" /\ fSecondary' = TRUE
    BY <2>2
  <2> QED
    BY <1>9, <2>1, <2>2 DEF SecondaryStep
<1>10. CASE NewBest
  BY <1>10 DEF NewBest
<1>11. CASE CrashAndRestart
  BY <1>11 DEF CrashAndRestart, LoadBlockIndex
<1>12. CASE UNCHANGED vars
  BY <1>12 DEF vars
<1> QED
  BY <1>1, <1>2, <1>3, <1>4, <1>6, <1>7, <1>8, <1>9, <1>10, <1>11, <1>12 DEF Next, Internal

-----------------------------------------------------------------------------
(***************************************************************************)
(* The theorems.                                                           *)
(***************************************************************************)
\* The inductive invariant.
Inv == TypeOK /\ WorkInv /\ BranchInv /\ BestIsStored

LEMMA Invariance ==
    ASSUME CoinBasesAreUnique
    PROVE  Spec /\ PostponedNeverFails => []Inv
<1>1. Init => Inv
  <2>1. Init => TypeOK /\ BranchInv
    BY TypeInit, BranchInit
  <2>2. Init => WorkInv /\ BestIsStored
    BY ChainDataAssumption DEF Init, WorkInv, Switching, BestIsStored
  <2> QED
    BY <2>1, <2>2 DEF Inv
<1>2. Inv /\ [Next]_vars /\ [pc = "connect" => pc' # "newbest"]_vars => Inv'
  <2> SUFFICES ASSUME TypeOK, WorkInv, BranchInv, BestIsStored, [Next]_vars,
                      [pc = "connect" => pc' # "newbest"]_vars
               PROVE  Inv'
    BY DEF Inv
  <2>1. TypeOK' /\ WorkInv'
    BY TypeNext, WorkNext
  <2>2. BestIsStored'
    BY BestNext
  <2>3. BranchInv'
    BY <2>2, BranchNext
  <2> QED
    BY <2>1, <2>2, <2>3 DEF Inv
<1> QED
  BY <1>1, <1>2, PTL DEF Spec, PostponedNeverFails

\* The next block to disconnect is the end of the branch the transaction holds.
LEMMA InvDisconnects == Inv => DisconnectNeverFails
<1> SUFFICES ASSUME Inv, pc = "disconnect", NEW b \in vDisconnect \ done,
                    \A d \in vDisconnect \ done : nHeight[d] <= nHeight[b]
             PROVE  DisconnectBlockOK(txnTx, b)
  BY DEF DisconnectNeverFails
<1>1. /\ diskBest \in Block /\ pindexIntermediate \in Block
      /\ vDisconnect = Branch[diskBest] \ Branch[pindexIntermediate]
      /\ done \subseteq vDisconnect /\ txnNext \in [Block -> Block \cup {Null}]
  BY DEF Inv, BranchInv, Planned, Progress, TypeOK, DiskType, LocalType
<1>2. PICK t \in Block : Branch[t] = Branch[diskBest] \ done /\ Holds(t, txnTx, txnNext)
  BY DEF Inv, BranchInv, Progress
<1>3. b = t /\ b # Genesis
  BY <1>1, <1>2, DisconnectTakesTip
<1> QED
  BY <1>1, <1>2, <1>3, HoldsParent

\* The records DisconnectBlock and ConnectBlock leave behind, whatever
\* reorganisations, failures and crashes they went through, are those of exactly
\* the branch that hashBestChain names.
THEOREM IndexIsBranch ==
    ASSUME CoinBasesAreUnique
    PROVE  Spec /\ PostponedNeverFails => []TxIndexIsBranch
<1>1. Inv => TxIndexIsBranch
  BY DEF Inv, BranchInv, Stored, Holds, IndexOf, TxIndexIsBranch
<1> QED
  BY <1>1, Invariance, PTL

\* hashNext follows exactly the stored branch, and the memory index agrees with
\* it between two calls of ProcessBlock: Reorganize's loops over pnext in memory
\* do what the writes to the database did.
THEOREM ChainIsLinked ==
    ASSUME CoinBasesAreUnique
    PROVE  Spec /\ PostponedNeverFails => []MainChainLinked
<1>1. Inv => MainChainLinked
  BY DEF Inv, BranchInv, Stored, Holds, Links, BestIsStored, MainChainLinked
<1> QED
  BY <1>1, Invariance, PTL

\* DisconnectBlock never returns an error in a reorganisation: the entries it
\* looks up are there, in the order it undoes them.
THEOREM DisconnectSucceeds ==
    ASSUME CoinBasesAreUnique
    PROVE  Spec /\ PostponedNeverFails => []DisconnectNeverFails
<1> QED
  BY InvDisconnects, Invariance, PTL

\* No pool transaction is in the best branch when ProcessBlock returns: those of
\* connected blocks are removed, those of disconnected ones come back only if
\* they are in no block of the new branch.
THEOREM PoolIsOutsideBranch ==
    ASSUME CoinBasesAreUnique
    PROVE  Spec /\ PostponedNeverFails => []PoolNotInBranch
<1>1. Inv => PoolNotInBranch
  BY DEF Inv, BranchInv, Clear, PoolNotInBranch
<1> QED
  BY <1>1, Invariance, PTL

\* AcceptBlock announces only blocks whose whole branch obeys every rule.
THEOREM AnnouncedIsValid ==
    ASSUME CoinBasesAreUnique, ScriptsAreChecked
    PROVE  Spec /\ PostponedNeverFails => []RelayedIsValid
<1>1. Inv => RelayedIsValid
  BY DEF Inv, BranchInv, Stored, ValidBranch, RelayedIsValid
<1> QED
  BY <1>1, Invariance, PTL

\* The block ProcessBlock leaves as the best one is valid: the postponed block
\* that fails in SetBestChain is the only way to an invalid one.
THEOREM BestBlockIsValid ==
    ASSUME CoinBasesAreUnique, ScriptsAreChecked
    PROVE  Spec /\ PostponedNeverFails => []BestIsValid
<1>1. Inv => BestIsValid
  BY DEF Inv, BranchInv, Stored, Holds, BestIsStored, ValidBranch, BestIsValid
<1> QED
  BY <1>1, Invariance, PTL

\* SetBestChain with all its steps, failures and crashes implements a database
\* that switches in one step from a valid branch to one with more work.
THEOREM DatabaseImplementsLedger ==
    ASSUME CoinBasesAreUnique, ScriptsAreChecked
    PROVE  Spec /\ PostponedNeverFails => DatabaseIsLedger
<1>1. Init => Promised!Init
  BY BranchInit DEF Init, BranchInv, Stored, Holds, IndexOf, Promised!Init
<1>2. Inv /\ [Next]_vars => [Promised!Next]_<<diskBest, diskTx>>
  <2> SUFFICES ASSUME Inv, Next, <<diskBest, diskTx>>' # <<diskBest, diskTx>>
               PROVE  Promised!Next
    BY DEF vars
  <2>1. Commit
    BY DEF Next, Internal, AcceptToMemoryPool, ProcessBlock, ProcessOrphan, AcceptBlock,
           AddToBlockIndex, OrphansDone, SetBestChain, DisconnectStep, ConnectStep,
           ResurrectStep, DeleteStep, SecondaryStep, NewBest, CrashAndRestart
  <2>2. /\ pc = "commit" /\ diskBest' = pindexIntermediate /\ diskTx' = txnTx
        /\ pindexIntermediate \in Block
    BY <2>1 DEF Commit, Inv, TypeOK, LocalType
  <2>3. Holds(pindexIntermediate, txnTx, txnNext)
    BY <2>2 DEF Inv, BranchInv, Progress
  <2>4. bnChainWork[pindexIntermediate] > bnChainWork[diskBest]
    BY <2>2, WorkIsNat DEF Inv, WorkInv
  <2>5. Promised!Switch(pindexIntermediate)
    BY <2>2, <2>3, <2>4 DEF Holds, IndexOf, ValidBranch, Promised!Switch
  <2> QED
    BY <2>2, <2>5 DEF Promised!Next
<1> QED
  BY <1>1, <1>2, Invariance, PTL DEF Spec, DatabaseIsLedger, Promised!Spec

-----------------------------------------------------------------------------
(***************************************************************************)
(* What the node refuses is invalid.                                       *)
(***************************************************************************)
Working == {"setbest", "newbest"} \cup Switching

\* The block SetBestChain works on is stored, and the work that was called
\* invalid is that of a stored block that is.
Warned ==
    /\ pc \in Working => pindexNew \in diskIndex
    /\ bnBestInvalidWork > 0 =>
          \E b \in diskIndex : bnChainWork[b] = bnBestInvalidWork /\ ~ValidBranch(b)

\* Heavier blocks than the best one are invalid, but for the one being switched to.
Outweighed ==
    /\ pc \in Working => bnChainWork[pindexBest] < bnChainWork[pindexNew]
    /\ \A b \in diskIndex : bnChainWork[b] > bnChainWork[pindexBest] =>
          ~ValidBranch(b) \/ (pc \in Working /\ b = pindexNew)

\* If a reorganisation fails, no valid branch has been refused.
LEMMA FailedIsInvalid ==
    ASSUME ScriptsAreChecked, Inv, DisconnectStep \/ ConnectStep, ReorganizeFailed
    PROVE  ~ValidBranch(pindexNew) /\ pindexNew \in Block
<1>0. pc' \in {"idle", "orphans"}
  BY DEF ReorganizeFailed
<1>1. CASE DisconnectStep
  BY <1>0, <1>1, InvDisconnects DEF DisconnectStep, DisconnectNeverFails
<1>2. CASE ConnectStep
  <2>1. PICK b \in vConnect \ done : /\ \A d \in vConnect \ done : nHeight[b] <= nHeight[d]
                                     /\ ~ConnectBlockOK(txnTx, b, fCheckSig)
    BY <1>0, <1>2 DEF ConnectStep
  <2>2. /\ pc = "connect" /\ pindexNew \in Block /\ pindexIntermediate \in Block
        /\ pindexIntermediate \in Branch[pindexNew]
        /\ vConnect \subseteq Branch[pindexIntermediate] /\ done \subseteq vConnect
    BY <1>2 DEF ConnectStep, Inv, BranchInv, Planned, Progress, Switching, TypeOK, LocalType
  <2>3. PICK t \in Block : /\ Branch[t] = (Branch[pindexIntermediate] \ vConnect) \cup done
                           /\ Holds(t, txnTx, txnNext)
    BY <2>2 DEF Inv, BranchInv, Progress
  <2>4. b \in Block /\ b # Genesis /\ hashPrevBlock[b] = t
    <3>1. b \in vConnect \ done /\ \A d \in vConnect \ done : nHeight[b] <= nHeight[d]
      BY <2>1
    <3> DEFINE goal == pindexIntermediate
    <3>2. /\ goal \in Block /\ vConnect \subseteq Branch[goal] /\ done \subseteq vConnect
          /\ Branch[t] = (Branch[goal] \ vConnect) \cup done /\ t \in Block
      BY <2>2, <2>3
    <3> HIDE DEF goal
    <3> QED
      BY ONLY <3>1, <3>2, ConnectTakesChild
  <2>5. ~ValidBranch(b)
    BY <2>1, <2>3, <2>4, ValidConnects DEF Holds
  <2>6. b \in Branch[pindexNew]
    BY <2>1, <2>2, BranchClosed
  <2> QED
    BY <2>2, <2>5, <2>6, AncestorIsValid
<1> QED
  BY <1>1, <1>2

\* How a step treats the blocks that are stored.
LEMMA StepKinds ==
    ASSUME ScriptsAreChecked, Inv, [Next]_vars, [pc = "connect" => pc' # "newbest"]_vars
    PROVE  \/ /\ CrashAndRestart
              /\ UNCHANGED <<diskIndex, bnBestInvalidWork>> /\ pc' \notin Working
           \/ /\ UNCHANGED <<diskIndex, bnBestInvalidWork, pindexBest>>
              /\ \/ pc' \in Working /\ pc \in Working /\ UNCHANGED pindexNew
                 \/ pc' \notin Working /\ pc \notin Working
           \/ \E b \in Block :
              /\ diskIndex' = diskIndex \cup {b} /\ pc \notin Working
              /\ UNCHANGED <<bnBestInvalidWork, pindexBest>>
              /\ IF bnChainWork[b] > bnChainWork[pindexBest]
                 THEN pc' \in Working /\ pindexNew' = b ELSE pc' \notin Working
           \/ /\ UNCHANGED <<diskIndex, pindexBest>> /\ pc \in Working /\ pc' \notin Working
              /\ ~ValidBranch(pindexNew) /\ pindexNew \in Block /\ InvalidChainFound(pindexNew)
           \/ /\ UNCHANGED <<diskIndex, bnBestInvalidWork>> /\ pc \in Working /\ pc' \notin Working
              /\ pindexBest' = pindexNew
<1> USE DEF Working, Switching
<1>1. ASSUME NEW b \in Block, ProcessBlock(b) \/ ProcessOrphan(b)
      PROVE  \/ /\ UNCHANGED <<diskIndex, bnBestInvalidWork, pindexBest>>
                /\ pc' \notin Working /\ pc \notin Working
             \/ /\ diskIndex' = diskIndex \cup {b} /\ pc \notin Working
                /\ UNCHANGED <<bnBestInvalidWork, pindexBest>>
                /\ IF bnChainWork[b] > bnChainWork[pindexBest]
                   THEN pc' \in Working /\ pindexNew' = b ELSE pc' \notin Working
  BY <1>1 DEF ProcessBlock, ProcessOrphan, AcceptBlock, AddToBlockIndex
<1>2. CASE (\E t \in Tx : AcceptToMemoryPool(t)) \/ OrphansDone
  BY <1>2 DEF AcceptToMemoryPool, OrphansDone
<1>3. CASE SetBestChain \/ Commit \/ ResurrectStep \/ DeleteStep \/ SecondaryStep
  BY <1>3 DEF SetBestChain, Commit, ResurrectStep, DeleteStep, SecondaryStep
<1>4. CASE DisconnectStep \/ ConnectStep
  <2>1. pc \in Working /\ UNCHANGED <<diskIndex, pindexBest>>
    BY <1>4 DEF DisconnectStep, ConnectStep
  <2>2. CASE pc' \in Working /\ UNCHANGED <<pindexNew, bnBestInvalidWork>>
    BY <2>1, <2>2
  <2>3. CASE ReorganizeFailed
    <3>1. pc' \notin Working /\ InvalidChainFound(pindexNew)
      BY <2>3 DEF ReorganizeFailed
    <3> QED
      BY <1>4, <2>1, <2>3, <3>1, FailedIsInvalid
  <2>4. ~(pc = "connect" /\ pc' = "newbest")
    BY DEF vars
  <2> QED
    BY <1>4, <2>2, <2>3, <2>4 DEF DisconnectStep, ConnectStep
<1>5. CASE NewBest
  BY <1>5 DEF NewBest
<1>6. CASE CrashAndRestart
  BY <1>6 DEF CrashAndRestart
<1>7. CASE UNCHANGED vars
  BY <1>7 DEF vars
<1> QED
  BY <1>1, <1>2, <1>3, <1>4, <1>5, <1>6, <1>7 DEF Next, Internal

LEMMA WarnedNext ==
    ASSUME ScriptsAreChecked, Inv, Warned, [Next]_vars, [pc = "connect" => pc' # "newbest"]_vars
    PROVE  Warned'
<1> USE DEF Warned
<1>1. ASSUME UNCHANGED bnBestInvalidWork, diskIndex \subseteq diskIndex',
             pc' \in Working => pindexNew' \in diskIndex'
      PROVE  Warned'
  BY <1>1
<1>2. ASSUME UNCHANGED diskIndex, pc \in Working, pc' \notin Working,
             ~ValidBranch(pindexNew), pindexNew \in Block, InvalidChainFound(pindexNew)
      PROVE  Warned'
  <2>1. CASE bnBestInvalidWork' = bnChainWork[pindexNew]
    BY <1>2, <2>1
  <2>2. CASE bnBestInvalidWork' = bnBestInvalidWork
    BY <1>2, <2>2
  <2> QED
    BY <1>2, <2>1, <2>2 DEF InvalidChainFound
<1> QED
  BY <1>1, <1>2, StepKinds

LEMMA OutweighedNext ==
    ASSUME MaxCrash = 0, ScriptsAreChecked, Inv, Warned, Outweighed, [Next]_vars,
           [pc = "connect" => pc' # "newbest"]_vars
    PROVE  Outweighed'
<1> USE DEF Outweighed
<1>1. /\ pindexBest \in Block /\ pindexNew \in Block /\ diskIndex \subseteq Block
      /\ bnChainWork[pindexBest] \in Nat /\ bnChainWork[pindexNew] \in Nat
      /\ \A b \in Block : bnChainWork[b] \in Nat
  BY ChainDataAssumption DEF Inv, TypeOK, DiskType, MemoryType, LocalType
<1>2. CASE /\ UNCHANGED <<diskIndex, pindexBest>>
           /\ \/ pc' \in Working /\ pc \in Working /\ UNCHANGED pindexNew
              \/ pc' \notin Working /\ pc \notin Working
  BY <1>2
<1>3. ASSUME NEW b \in Block, diskIndex' = diskIndex \cup {b}, pc \notin Working,
             UNCHANGED pindexBest,
             IF bnChainWork[b] > bnChainWork[pindexBest]
             THEN pc' \in Working /\ pindexNew' = b ELSE pc' \notin Working
      PROVE  Outweighed'
  BY <1>1, <1>3
<1>4. CASE /\ UNCHANGED <<diskIndex, pindexBest>> /\ pc \in Working /\ pc' \notin Working
           /\ ~ValidBranch(pindexNew)
  BY <1>4
<1>5. CASE /\ UNCHANGED diskIndex /\ pc \in Working /\ pc' \notin Working
           /\ pindexBest' = pindexNew
  <2>1. ASSUME NEW b \in diskIndex, bnChainWork[b] > bnChainWork[pindexNew]
        PROVE  ~ValidBranch(b)
    <3>1. bnChainWork[b] > bnChainWork[pindexBest] /\ b # pindexNew
      BY <1>1, <1>5, <2>1
    <3> QED
      BY <3>1
  <2> QED
    BY <1>5, <2>1
<1>6. ~CrashAndRestart
  BY DEF CrashAndRestart, Inv, TypeOK, MemoryType
<1> QED
  BY <1>2, <1>3, <1>4, <1>5, <1>6, StepKinds

\* InvalidChainFound, the source of the "you may need to upgrade" warning, is
\* told of invalid blocks only: DisconnectBlock and ConnectBlock refuse nothing
\* that obeys the rules.
THEOREM WarningJustified ==
    ASSUME CoinBasesAreUnique, ScriptsAreChecked
    PROVE  Spec /\ PostponedNeverFails => []WarningIsJustified
<1>1. Init => Warned
  BY DEF Init, Warned, Working, Switching
<1>2. Inv /\ Warned /\ [Next]_vars /\ [pc = "connect" => pc' # "newbest"]_vars => Warned'
  BY WarnedNext
<1>3. Warned => WarningIsJustified
  BY DEF Warned, ValidBranch, WarningIsJustified
<1> QED
  BY <1>1, <1>2, <1>3, Invariance, PTL DEF Spec, PostponedNeverFails

\* While the process is not killed, the best block is a heaviest one among the
\* stored blocks that end valid branches: SetBestChain neither overlooks one
\* nor gives one up when a reorganisation fails.
THEOREM BestHeaviest ==
    ASSUME CoinBasesAreUnique, ScriptsAreChecked, MaxCrash = 0
    PROVE  Spec /\ PostponedNeverFails => []BestIsHeaviest
<1>1. Init => Warned /\ Outweighed
  <2>1. bnChainWork[Genesis] \in Nat
    BY ChainDataAssumption
  <2> QED
    BY <2>1 DEF Init, Warned, Outweighed, Working, Switching
<1>2. Inv /\ Warned /\ Outweighed /\ [Next]_vars /\ [pc = "connect" => pc' # "newbest"]_vars
        => Warned' /\ Outweighed'
  BY WarnedNext, OutweighedNext
<1>3. Inv /\ Outweighed => BestIsHeaviest
  BY DEF Inv, BranchInv, Stored, Outweighed, Working, Switching, ValidBranch, BestIsHeaviest
<1> QED
  BY <1>1, <1>2, <1>3, Invariance, PTL DEF Spec, PostponedNeverFails

Queued == {vWorkQueue[i] : i \in DOMAIN vWorkQueue}

\* An orphan with a stored parent waits for a block that ProcessBlock still has
\* to look at, or the parent is invalid.
Awaited ==
    /\ pc = "idle" => vWorkQueue = <<>>
    /\ \A b \in mapOrphanBlocks :
          \/ hashPrevBlock[b] \notin mapBlockIndex \/ ~ValidBranch(hashPrevBlock[b])
          \/ hashPrevBlock[b] \in Queued
          \/ pc \in Working /\ hashPrevBlock[b] = pindexNew

\* Appending to ProcessBlock's queue and taking its head.
LEMMA QueueFacts ==
    ASSUME TypeOK
    PROVE  /\ \A b \in Block : vWorkQueue' = Append(vWorkQueue, b) => Queued' = Queued \cup {b}
           /\ vWorkQueue # <<>> /\ vWorkQueue' = Tail(vWorkQueue)
                => Queued \subseteq Queued' \cup {Head(vWorkQueue)}
<1>1. vWorkQueue \in Seq(Block) /\ DOMAIN vWorkQueue = 1..Len(vWorkQueue) /\ Len(vWorkQueue) \in Nat
  BY LenProperties DEF TypeOK, LocalType
<1>2. ASSUME NEW b \in Block, vWorkQueue' = Append(vWorkQueue, b)
      PROVE  Queued' = Queued \cup {b}
  <2>1. /\ Len(vWorkQueue') = Len(vWorkQueue) + 1 /\ vWorkQueue' \in Seq(Block)
        /\ \A i \in 1..Len(vWorkQueue) : vWorkQueue'[i] = vWorkQueue[i]
        /\ vWorkQueue'[Len(vWorkQueue) + 1] = b
    BY <1>1, <1>2, AppendProperties
  <2>2. DOMAIN vWorkQueue' = 1..Len(vWorkQueue) + 1
    BY <2>1, LenProperties
  <2>3. DOMAIN vWorkQueue' = DOMAIN vWorkQueue \cup {Len(vWorkQueue) + 1}
    BY <1>1, <2>2
  <2> QED
    BY <1>1, <2>1, <2>3 DEF Queued
<1>3. ASSUME vWorkQueue # <<>>, vWorkQueue' = Tail(vWorkQueue), NEW i \in DOMAIN vWorkQueue
      PROVE  vWorkQueue[i] \in Queued' \cup {Head(vWorkQueue)}
  <2>1. /\ Head(vWorkQueue) = vWorkQueue[1] /\ vWorkQueue' \in Seq(Block)
        /\ Len(vWorkQueue') = Len(vWorkQueue) - 1
        /\ \A j \in 1..Len(vWorkQueue') : vWorkQueue'[j] = vWorkQueue[j + 1]
    BY <1>1, <1>3, HeadTailProperties
  <2>2. DOMAIN vWorkQueue' = 1..Len(vWorkQueue) - 1
    BY <2>1, LenProperties
  <2>3. CASE i # 1
    <3>1. i - 1 \in DOMAIN vWorkQueue' /\ vWorkQueue'[i - 1] = vWorkQueue[i]
      BY <1>1, <2>1, <2>2, <2>3
    <3> QED
      BY <3>1 DEF Queued
  <2> QED
    BY <2>1, <2>3
<1> QED
  BY <1>2, <1>3 DEF Queued

LEMMA AwaitedNext ==
    ASSUME ScriptsAreChecked, Inv, Awaited, [Next]_vars, [pc = "connect" => pc' # "newbest"]_vars
    PROVE  Awaited'
<1> USE DEF Awaited, Working, Switching
<1>1. TypeOK /\ vWorkQueue \in Seq(Block)
  BY DEF Inv, TypeOK, LocalType
<1>2. ASSUME UNCHANGED vWorkQueue PROVE Queued' = Queued
  BY <1>2 DEF Queued
<1>3. ASSUME NEW b \in Block, AcceptBlock(b), mapOrphanBlocks' \subseteq mapOrphanBlocks,
             pc \in {"idle", "orphans"}
      PROVE  Awaited'
  <2>1. mapBlockIndex' = mapBlockIndex \cup {b} /\ pc' \in {"setbest", "orphans"}
    BY <1>3 DEF AcceptBlock, AddToBlockIndex
  <2>2. Queued \subseteq Queued' /\ (b \in Queued' \/ (pc' = "setbest" /\ pindexNew' = b))
    <3>1. CASE pc' = "setbest" /\ pindexNew' = b /\ UNCHANGED vWorkQueue
      BY <1>2, <3>1
    <3>2. CASE vWorkQueue' = Append(vWorkQueue, b)
      <4>1. Queued' = Queued \cup {b}
        BY <1>1, <3>2, QueueFacts
      <4> QED
        BY <4>1
    <3> QED
      BY <1>3, <3>1, <3>2 DEF AcceptBlock, AddToBlockIndex
  <2> QED
    BY <1>3, <2>1, <2>2
<1>4. ASSUME NEW b \in Block, ProcessBlock(b) PROVE Awaited'
  <2>1. CASE hashPrevBlock[b] \notin mapBlockIndex
    BY <1>2, <1>4, <2>1 DEF ProcessBlock
  <2> QED
    BY <1>3, <1>4, <2>1 DEF ProcessBlock
<1>5. ASSUME NEW b \in Block, ProcessOrphan(b) PROVE Awaited'
  <2>1. CASE UNCHANGED <<mapBlockIndex, pc, vWorkQueue>>
    BY <1>2, <1>5, <2>1 DEF ProcessOrphan
  <2> QED
    BY <1>3, <1>5, <2>1 DEF ProcessOrphan
<1>6. CASE OrphansDone
  <2>1. /\ pc = "orphans" /\ vWorkQueue # <<>> /\ vWorkQueue' = Tail(vWorkQueue)
        /\ UNCHANGED <<mapBlockIndex, mapOrphanBlocks>>
        /\ pc' \in {"idle", "orphans"} /\ (pc' = "idle" => vWorkQueue' = <<>>)
        /\ \A b \in mapOrphanBlocks : hashPrevBlock[b] # Head(vWorkQueue)
    BY <1>6 DEF OrphansDone, Inv, TypeOK, LocalType
  <2>2. Queued \subseteq Queued' \cup {Head(vWorkQueue)}
    BY <1>1, <2>1, QueueFacts
  <2> QED
    BY <2>1, <2>2
<1>7. CASE NewBest
  <2>1. /\ pc = "newbest" /\ pc' = "orphans" /\ vWorkQueue' = Append(vWorkQueue, pindexNew)
        /\ UNCHANGED <<mapBlockIndex, mapOrphanBlocks>> /\ pindexNew \in Block
    BY <1>7 DEF NewBest, Inv, TypeOK, LocalType
  <2>2. Queued' = Queued \cup {pindexNew}
    BY <1>1, <2>1, QueueFacts
  <2> QED
    BY <2>1, <2>2
<1>8. CASE DisconnectStep \/ ConnectStep
  <2>1. /\ pc \in {"disconnect", "connect"}
        /\ UNCHANGED <<mapBlockIndex, mapOrphanBlocks, vWorkQueue>>
    BY <1>8 DEF DisconnectStep, ConnectStep
  <2>2. CASE ReorganizeFailed
    <3>1. ~ValidBranch(pindexNew)
      BY <1>8, <2>2, FailedIsInvalid
    <3>2. pc' = IF vWorkQueue = <<>> THEN "idle" ELSE "orphans"
      BY <2>2 DEF ReorganizeFailed
    <3> QED
      BY <1>2, <2>1, <3>1, <3>2
  <2>3. CASE pc' \in {"disconnect", "connect", "commit", "newbest"} /\ UNCHANGED pindexNew
    BY <1>2, <2>1, <2>3
  <2> QED
    BY <1>8, <2>2, <2>3 DEF DisconnectStep, ConnectStep
<1>9. CASE SetBestChain \/ Commit \/ ResurrectStep \/ DeleteStep \/ SecondaryStep
  <2>1. /\ pc \in Working /\ pc' \in Working
        /\ UNCHANGED <<mapBlockIndex, mapOrphanBlocks, vWorkQueue, pindexNew>>
    BY <1>9 DEF SetBestChain, Commit, ResurrectStep, DeleteStep, SecondaryStep
  <2> QED
    BY <1>2, <2>1
<1>10. CASE CrashAndRestart
  BY <1>10 DEF CrashAndRestart
<1>11. CASE (\E t \in Tx : AcceptToMemoryPool(t)) \/ UNCHANGED vars
  BY <1>2, <1>11 DEF AcceptToMemoryPool, vars
<1> QED
  BY <1>4, <1>5, <1>6, <1>7, <1>8, <1>9, <1>10, <1>11 DEF Next, Internal

\* ProcessBlock's work queue reaches every orphan whose parent has come: when it
\* has returned, an orphan waits for a block that is missing or for an invalid one.
THEOREM OrphansAreDrained ==
    ASSUME CoinBasesAreUnique, ScriptsAreChecked
    PROVE  Spec /\ PostponedNeverFails => []OrphansDrained
<1>1. Init => Awaited
  BY DEF Init, Awaited
<1>2. Inv /\ Awaited /\ [Next]_vars /\ [pc = "connect" => pc' # "newbest"]_vars => Awaited'
  BY AwaitedNext
<1>3. Awaited => OrphansDrained
  BY DEF Awaited, Queued, Working, Switching, ValidBranch, OrphansDrained
<1> QED
  BY <1>1, <1>2, <1>3, Invariance, PTL DEF Spec, PostponedNeverFails

-----------------------------------------------------------------------------
(***************************************************************************)
(* No transaction is lost.                                                 *)
(***************************************************************************)
Waiting == {vResurrect[i] : i \in DOMAIN vResurrect}

\* What becomes of the transactions of the blocks that are disconnected.
Kept ==
    /\ pc = "disconnect" => \A b \in done : TxsOf(b) \subseteq Waiting
    /\ pc \in {"connect", "commit"} => \A b \in vDisconnect : TxsOf(b) \subseteq Waiting
    /\ pc = "resurrect" =>
          /\ vConnect \subseteq Branch[diskBest] \ {Genesis}
          /\ \A b \in vDisconnect : \A t \in TxsOf(b) \ (CoinBase \cup NonStandard) :
                t \in Waiting \/ t \in mapTx \/ \E u \in mapTx : Conflict(t, u)
    /\ pc = "secondary" =>
          \A b \in vDisconnect : \A t \in TxsOf(b) \ (CoinBase \cup NonStandard) :
              \/ t \in mapTx \/ diskTx[t] # Null
              \/ \E u \in Tx : Conflict(t, u) /\ (u \in mapTx \/ diskTx[u] # Null)

\* Adding a block's transactions to vResurrect and taking its head.
LEMMA WaitingFacts ==
    ASSUME TypeOK
    PROVE  /\ \A b \in Block : vResurrect' = vResurrect \o vtx[b] => Waiting' = Waiting \cup TxsOf(b)
           /\ vResurrect # <<>> /\ vResurrect' = Tail(vResurrect)
                => Waiting \subseteq Waiting' \cup {Head(vResurrect)}
<1> DEFINE n == Len(vResurrect)
<1>1. vResurrect \in Seq(Tx) /\ DOMAIN vResurrect = 1..n /\ n \in Nat
  BY LenProperties DEF TypeOK, LocalType
<1>2. ASSUME NEW b \in Block, vResurrect' = vResurrect \o vtx[b]
      PROVE  Waiting' = Waiting \cup TxsOf(b)
  <2> DEFINE m == Len(vtx[b])
  <2>1. vtx[b] \in Seq(Tx) /\ DOMAIN vtx[b] = 1..m /\ m \in Nat
    BY ChainDataAssumption, LenProperties
  <2>2. /\ vResurrect' \in Seq(Tx) /\ Len(vResurrect') = n + m
        /\ \A i \in 1..n + m : vResurrect'[i] = IF i <= n THEN vResurrect[i] ELSE vtx[b][i - n]
    BY <1>1, <1>2, <2>1, ConcatProperties
  <2>3. DOMAIN vResurrect' = 1..n + m
    BY <2>2, LenProperties
  <2> HIDE DEF n, m
  <2>4. ASSUME NEW i \in 1..n + m PROVE vResurrect'[i] \in Waiting \cup TxsOf(b)
    <3>1. CASE i <= n
      <4>1. i \in 1..n /\ vResurrect'[i] = vResurrect[i]
        BY <1>1, <2>1, <2>2, <3>1
      <4> QED
        BY <1>1, <4>1 DEF Waiting
    <3>2. CASE i > n
      <4>1. i - n \in 1..m /\ ~(i <= n)
        BY <1>1, <2>1, <3>2
      <4>2. vResurrect'[i] = vtx[b][i - n]
        BY <2>2, <4>1
      <4> QED
        BY <2>1, <4>1, <4>2 DEF TxsOf
    <3> QED
      BY <1>1, <3>1, <3>2
  <2>5. ASSUME NEW i \in 1..n PROVE i \in 1..n + m /\ vResurrect'[i] = vResurrect[i]
    BY <1>1, <2>1, <2>2
  <2>6. ASSUME NEW i \in 1..m PROVE n + i \in 1..n + m /\ vResurrect'[n + i] = vtx[b][i]
    <3>1. n + i \in 1..n + m /\ ~(n + i <= n) /\ (n + i) - n = i
      BY <1>1, <2>1
    <3> QED
      BY <2>2, <3>1
  <2>7. Waiting' \subseteq Waiting \cup TxsOf(b)
    <3>1. Waiting' = {vResurrect'[i] : i \in 1..n + m}
      BY <2>3 DEF Waiting
    <3> QED
      BY <2>4, <3>1
  <2>8. Waiting \subseteq Waiting'
    BY <1>1, <2>3, <2>5 DEF Waiting
  <2>9. TxsOf(b) \subseteq Waiting'
    BY <2>1, <2>3, <2>6 DEF Waiting, TxsOf
  <2> QED
    BY <2>7, <2>8, <2>9
<1>3. ASSUME vResurrect # <<>>, vResurrect' = Tail(vResurrect), NEW i \in DOMAIN vResurrect
      PROVE  vResurrect[i] \in Waiting' \cup {Head(vResurrect)}
  <2>1. /\ Head(vResurrect) = vResurrect[1] /\ vResurrect' \in Seq(Tx)
        /\ Len(vResurrect') = n - 1
        /\ \A j \in 1..Len(vResurrect') : vResurrect'[j] = vResurrect[j + 1]
    BY <1>1, <1>3, HeadTailProperties
  <2>2. DOMAIN vResurrect' = 1..n - 1
    BY <2>1, LenProperties
  <2>3. CASE i # 1
    <3>1. i - 1 \in DOMAIN vResurrect' /\ vResurrect'[i - 1] = vResurrect[i]
      BY <1>1, <2>1, <2>2, <2>3
    <3> QED
      BY <3>1 DEF Waiting
  <2> QED
    BY <2>1, <2>3
<1> QED
  BY <1>2, <1>3 DEF Waiting

\* accept() refuses a resurrected transaction only if it is in the pool, may
\* never be there, or conflicts with one that is.
LEMMA ResurrectKeepsTx ==
    ASSUME TypeOK, PoolLinked, NEW t \in Tx, t \notin CoinBase \cup NonStandard,
           IF Acceptable(t) THEN addUnchecked(t) ELSE UNCHANGED poolVars
    PROVE  mapTx \subseteq mapTx' /\ (t \in mapTx' \/ \E u \in mapTx' : Conflict(t, u))
<1>1. CASE Acceptable(t)
  BY <1>1 DEF addUnchecked
<1>2. CASE ~Acceptable(t) /\ t \notin mapTx
  <2>1. PICK o \in vin[t] : mapNextTx[o] # Null
    BY <1>2 DEF Acceptable
  <2>2. o \in Outpoint /\ mapNextTx[o] \in Tx
    BY <2>1 DEF TypeOK, PoolType, Outpoint
  <2>3. mapNextTx[o] \in mapTx /\ o \in vin[mapNextTx[o]]
    BY <2>2 DEF PoolLinked
  <2>4. Conflict(t, mapNextTx[o])
    BY <1>2, <2>1, <2>3 DEF Conflict
  <2> QED
    BY <1>2, <2>3, <2>4
<1> QED
  BY <1>1, <1>2

LEMMA KeptNext ==
    ASSUME Inv, PoolLinked, Kept, [Next]_vars
    PROVE  Kept'
<1> USE DEF Kept
<1>1. /\ TypeOK /\ mapTx \subseteq Tx /\ diskBest \in Block /\ vDisconnect \subseteq Block
      /\ Holds(diskBest, diskTx, diskNext)
  BY DEF Inv, BranchInv, Stored, TypeOK, DiskType, PoolType, LocalType
<1>2. ASSUME UNCHANGED vResurrect PROVE Waiting' = Waiting
  BY <1>2 DEF Waiting
<1>3. ASSUME pc' \notin {"disconnect", "connect", "commit", "resurrect", "secondary"}
      PROVE  Kept'
  BY <1>3
<1>4. ASSUME NEW b \in Block, ProcessBlock(b) \/ ProcessOrphan(b) PROVE Kept'
  <2>1. pc' \in {"idle", "orphans", "setbest"}
    BY <1>4 DEF ProcessBlock, ProcessOrphan, AcceptBlock, AddToBlockIndex
  <2> QED
    BY <1>3, <2>1
<1>5. CASE OrphansDone \/ NewBest \/ CrashAndRestart \/ \E t \in Tx : AcceptToMemoryPool(t)
  BY <1>3, <1>5 DEF OrphansDone, NewBest, CrashAndRestart, AcceptToMemoryPool
<1>6. CASE SetBestChain
  <2>1. /\ done' = {} /\ pc' \in {"connect", "disconnect"}
        /\ pc' = "connect" => vDisconnect' = {}
    BY <1>6 DEF SetBestChain, Inv, BranchInv, Planned
  <2> QED
    BY <2>1
<1>7. CASE DisconnectStep
  <2>1. CASE /\ vDisconnect \subseteq done /\ pc' = "connect"
             /\ UNCHANGED <<vResurrect, vDisconnect>>
    BY <1>2, <1>7, <2>1 DEF DisconnectStep
  <2>2. ASSUME NEW b \in vDisconnect \ done, done' = done \cup {b},
               vResurrect' = vResurrect \o vtx[b], UNCHANGED pc
        PROVE  Kept'
    <3>1. Waiting' = Waiting \cup TxsOf(b)
      BY <1>1, <2>2, WaitingFacts
    <3> QED
      BY <1>7, <2>2, <3>1 DEF DisconnectStep
  <2>3. CASE ReorganizeFailed
    BY <1>3, <2>3 DEF ReorganizeFailed
  <2> QED
    BY <1>7, <2>1, <2>2, <2>3 DEF DisconnectStep
<1>8. CASE ConnectStep
  <2>1. CASE pc' \in {"connect", "commit"} /\ UNCHANGED <<vResurrect, vDisconnect>>
    BY <1>2, <1>8, <2>1 DEF ConnectStep
  <2>2. CASE ReorganizeFailed \/ pc' = "newbest"
    BY <1>3, <2>2 DEF ReorganizeFailed
  <2> QED
    BY <1>8, <2>1, <2>2 DEF ConnectStep
<1>9. CASE Commit
  <2>1. /\ pc = "commit" /\ pc' = "resurrect" /\ diskBest' = pindexIntermediate
        /\ UNCHANGED <<vConnect, vDisconnect, vResurrect, mapTx>>
        /\ vConnect = Branch[pindexIntermediate] \ Branch[diskBest]
    BY <1>9 DEF Commit, Inv, BranchInv, Planned
  <2>2. Genesis \in Branch[diskBest]
    BY <1>1, BranchEnds
  <2> QED
    BY <1>2, <2>1, <2>2
<1>10. CASE ResurrectStep
  <2> DEFINE h == Head(vResurrect)
  <2>1. /\ pc = "resurrect" /\ UNCHANGED <<pc, vConnect, vDisconnect, diskBest>>
        /\ vResurrect # <<>> /\ vResurrect' = Tail(vResurrect)
        /\ IF Acceptable(h) THEN addUnchecked(h) ELSE UNCHANGED poolVars
    BY <1>10 DEF ResurrectStep
  <2>2. h \in Tx /\ mapTx \subseteq mapTx'
    BY <1>1, <2>1, HeadTailProperties DEF TypeOK, LocalType, addUnchecked
  <2>3. Waiting \subseteq Waiting' \cup {h}
    BY <1>1, <2>1, WaitingFacts
  <2>4. h \notin CoinBase \cup NonStandard => h \in mapTx' \/ \E u \in mapTx' : Conflict(h, u)
    BY <1>1, <2>1, <2>2, ResurrectKeepsTx
  <2> HIDE DEF h
  <2> QED
    BY <2>1, <2>2, <2>3, <2>4
<1>11. CASE DeleteStep
  <2> DEFINE gone == UNION {TxsOf(b) : b \in vConnect}
  <2>1. /\ pc = "resurrect" /\ pc' = "secondary" /\ UNCHANGED <<vDisconnect, diskTx>>
        /\ vResurrect = <<>> /\ mapTx' = mapTx \ gone
    BY <1>11 DEF DeleteStep, remove
  <2>2. Waiting = {}
    BY <2>1 DEF Waiting
  <2>3. ASSUME NEW u \in gone PROVE diskTx[u] # Null
    <3>1. PICK c \in vConnect : u \in TxsOf(c)
      OBVIOUS
    <3>2. PICK i \in DOMAIN vtx[c] : u = vtx[c][i]
      BY <3>1 DEF TxsOf
    <3>3. <<c, i>> \in Occurrences(diskBest) /\ TxAt(<<c, i>>) = u
      BY <1>1, <2>1, <3>2, OccurrenceAt
    <3> QED
      BY <1>1, <3>3, IndexIsIndex DEF Holds
  <2> HIDE DEF gone
  <2> QED
    BY <1>1, <2>1, <2>2, <2>3
<1>12. CASE SecondaryStep
  <2>1. pc' = "newbest" \/ (pc' = "connect" /\ vDisconnect' = {})
    BY <1>12 DEF SecondaryStep
  <2> QED
    BY <2>1
<1>13. CASE UNCHANGED vars
  BY <1>2, <1>13 DEF vars, Conflict
<1> QED
  BY <1>4, <1>5, <1>6, <1>7, <1>8, <1>9, <1>10, <1>11, <1>12, <1>13 DEF Next, Internal

\* Reorganize loses no transaction of the blocks it disconnects: each is then
\* in the pool or in the new branch, or is barred from the pool by its kind or
\* by a conflict with a transaction that is in one of the two.
THEOREM TxsAreKept ==
    ASSUME CoinBasesAreUnique
    PROVE  Spec /\ PostponedNeverFails => []ReorganizeKeepsTxs
<1>1. Init => Kept
  BY DEF Init, Kept
<1>2. Inv /\ PoolLinked /\ Kept /\ [Next]_vars => Kept'
  BY KeptNext
<1>3. Kept => ReorganizeKeepsTxs
  BY DEF Kept, ReorganizeKeepsTxs
<1> QED
  BY <1>1, <1>2, <1>3, PoolIsLinked, Invariance, PTL DEF Spec

-----------------------------------------------------------------------------
(***************************************************************************)
(* The wallet.                                                             *)
(***************************************************************************)
\* No wallet transaction is in two blocks, of whatever branches.
WalletTxsAreUnique ==
    \A t \in Mine, b, c \in Block : t \in TxsOf(b) /\ t \in TxsOf(c) => b = c

\* No switch that has told the wallets of a block is cut short, by a block that
\* fails or by a crash.
ToldIsKept ==
    [][done # {} /\ pc \in {"connect", "commit"} => pc' \in {"connect", "commit", "resurrect"}]_vars

\* The wallet has what txdb holds of it, and knows a block of it.
Told(txdb) ==
    \A t \in Mine : txdb[t] # Null =>
        t \in mapWallet /\ t \in TxsOf(txdb[t].pos) /\ hashBlock[t] # Null

\* The wallet points to where txdb has its transactions.
Follows(txdb) ==
    \A t \in Mine : txdb[t] # Null => t \in mapWallet /\ hashBlock[t] = txdb[t].pos

\* What ConnectBlock and DisconnectBlock do to the positions of transactions.
LEMMA PosOfEntries ==
    ASSUME NEW txdb, IsTxIndex(txdb), NEW b \in Block, NEW t \in Tx
    PROVE  /\ txdb[t] # Null => txdb[t].pos \in Block
           /\ ConnectBlock(txdb, b)[t] # Null =>
                 IF t \in TxsOf(b) THEN ConnectBlock(txdb, b)[t].pos = b
                 ELSE txdb[t] # Null /\ ConnectBlock(txdb, b)[t].pos = txdb[t].pos
           /\ DisconnectBlock(txdb, b)[t] # Null =>
                 txdb[t] # Null /\ DisconnectBlock(txdb, b)[t].pos = txdb[t].pos
<1>1. txdb[t] # Null => txdb[t].pos \in Block
  BY DEF IsTxIndex, CTxIndex
<1>2. vtx[b] \in Seq(Tx) /\ DOMAIN vtx[b] = 1 .. Len(vtx[b])
  BY ChainDataAssumption, LenProperties
<1>3. ConnectBlock(txdb, b)[t] = Fetch(txdb, b, Len(vtx[b]), t)
  BY DEF ConnectBlock
<1>4. CASE t \in TxsOf(b)
  <2>1. \E k \in 1 .. Len(vtx[b]) : vtx[b][k] = t
    BY <1>2, <1>4 DEF TxsOf
  <2>2. ConnectBlock(txdb, b)[t].pos = b
    BY <1>3, <2>1 DEF Fetch, Marked, NewTxIndex
  <2> QED
    BY <1>1, <1>4, <2>2 DEF DisconnectBlock
<1>5. CASE t \notin TxsOf(b)
  <2>1. ~\E k \in 1 .. Len(vtx[b]) : vtx[b][k] = t
    BY <1>2, <1>5 DEF TxsOf
  <2>2. /\ txdb[t] = Null => ConnectBlock(txdb, b)[t] = Null
        /\ txdb[t] # Null => ConnectBlock(txdb, b)[t].pos = txdb[t].pos
    BY <1>3, <2>1 DEF Fetch, Marked
  <2> QED
    BY <1>1, <1>5, <2>2 DEF DisconnectBlock
<1> QED
  BY <1>4, <1>5

\* Steps that concern neither the wallet nor the index.
LEMMA WalletAside ==
    ASSUME TypeOK, [Next]_vars, ~DisconnectStep, ~ConnectStep, ~Commit, ~CrashAndRestart
    PROVE  /\ UNCHANGED <<hashBlock, diskTx, txnTx>> /\ mapWallet \subseteq mapWallet'
           /\ \/ UNCHANGED <<pc, done>>
              \/ pc = "setbest" /\ UNCHANGED done
              \/ pc' \notin {"connect", "commit"} \/ done' = {}
<1>1. ASSUME NEW b \in Block, ProcessBlock(b) \/ ProcessOrphan(b)
      PROVE  /\ UNCHANGED <<walletVars, diskTx, txnVars>>
             /\ UNCHANGED <<pc, done>> \/ pc' \notin {"connect", "commit"}
  BY <1>1 DEF ProcessBlock, ProcessOrphan, AcceptBlock, AddToBlockIndex
<1>2. ASSUME NEW t \in Tx, AcceptToMemoryPool(t)
      PROVE  /\ UNCHANGED <<hashBlock, diskTx, txnTx, pc, done>> /\ mapWallet \subseteq mapWallet'
  <2>1. hashBlock' = [u \in Tx |-> hashBlock[u]]
    BY <1>2 DEF AcceptToMemoryPool, SyncWithWallets
  <2> QED
    BY <1>2, <2>1 DEF AcceptToMemoryPool, SyncWithWallets, TypeOK, WalletType
<1>3. CASE OrphansDone \/ ResurrectStep \/ DeleteStep \/ NewBest
  BY <1>3 DEF OrphansDone, ResurrectStep, DeleteStep, NewBest
<1>4. CASE SetBestChain
  BY <1>4 DEF SetBestChain
<1>5. CASE SecondaryStep
  BY <1>5 DEF SecondaryStep
<1>6. CASE UNCHANGED vars
  BY <1>6 DEF vars
<1> QED
  BY <1>1, <1>2, <1>3, <1>4, <1>5, <1>6 DEF Next, Internal

\* While blocks are connected nothing but the switch and the memory pool acts.
LEMMA SwitchUndisturbed ==
    ASSUME pc \in {"connect", "commit"}, [Next]_vars,
           ~ConnectStep, ~Commit, ~CrashAndRestart
    PROVE  UNCHANGED <<pc, done>>
<1>1. ASSUME NEW b \in Block, ProcessBlock(b) \/ ProcessOrphan(b)
      PROVE  FALSE
  BY <1>1 DEF ProcessBlock, ProcessOrphan
<1>2. ASSUME NEW t \in Tx, AcceptToMemoryPool(t)
      PROVE  UNCHANGED <<pc, done>>
  BY <1>2 DEF AcceptToMemoryPool
<1>3. ~OrphansDone /\ ~SetBestChain /\ ~DisconnectStep /\ ~ResurrectStep /\ ~DeleteStep
      /\ ~SecondaryStep /\ ~NewBest
  BY DEF OrphansDone, SetBestChain, DisconnectStep, ResurrectStep, DeleteStep, SecondaryStep, NewBest
<1> QED
  BY <1>1, <1>2, <1>3 DEF Next, Internal, vars

\* One step of a switch: the open transaction afterwards, and what the wallet
\* was told for it.
LEMMA SwitchSteps ==
    ASSUME TypeOK, DisconnectStep \/ ConnectStep
    PROVE  /\ UNCHANGED diskTx
           /\ \/ txnTx' = diskTx /\ UNCHANGED <<mapWallet, hashBlock>>
              \/ UNCHANGED <<mapWallet, hashBlock, txnTx>> /\ DisconnectStep
              \/ /\ UNCHANGED <<mapWallet, hashBlock>> /\ DisconnectStep
                 /\ \E b \in Block : txnTx' = DisconnectBlock(txnTx, b)
              \/ /\ ConnectStep
                 /\ \E b \in Block : txnTx' = ConnectBlock(txnTx, b) /\ SyncWithWallets(TxsOf(b), b)
<1>1. vDisconnect \subseteq Block /\ vConnect \subseteq Block
  BY DEF TypeOK, LocalType
<1> QED
  BY <1>1 DEF DisconnectStep, ConnectStep, ReorganizeFailed, TxnAbort

\* The blocks a rescan visits are stored ones, and its effect on a transaction.
LEMMA RescanGives ==
    ASSUME TypeOK, CrashAndRestart, NEW t \in Mine
    PROVE  /\ UNCHANGED diskTx /\ txnTx' = diskTx /\ mapWallet \subseteq mapWallet'
           /\ \/ hashBlock'[t] = hashBlock[t]
              \/ hashBlock'[t] \in Rescanned /\ t \in TxsOf(hashBlock'[t])
           /\ Rescanned \subseteq Block
<1> DEFINE last == {b \in Rescanned : /\ t \in TxsOf(b)
                                      /\ \A c \in Rescanned : t \in TxsOf(c) =>
                                            nHeight[c] <= nHeight[b]}
<1>1. t \in Tx
  BY BlockChainAssumption
<1>2. hashBlock'[t] = IF t \in Mine /\ last # {} THEN CHOOSE b \in last : TRUE ELSE hashBlock[t]
  BY <1>1 DEF CrashAndRestart
<1>3. last # {} => (CHOOSE b \in last : TRUE) \in last
  OBVIOUS
<1>4. Rescanned \subseteq Block
  BY DEF TypeOK, DiskType, Rescanned
<1> QED
  BY <1>2, <1>3, <1>4 DEF CrashAndRestart, TxnAbort

\* Init: nothing is indexed.
LEMMA WalletInit ==
    ASSUME Init
    PROVE  Told(diskTx) /\ Told(txnTx) /\ Follows(diskTx) /\ Follows(txnTx)
           /\ (\A t \in Mine : hashBlock[t] = Null) /\ done = {} /\ pc = "idle"
BY BlockChainAssumption DEF Init, Told, Follows

-----------------------------------------------------------------------------
\* Where no wallet transaction is in two blocks, the wallet points to the one it
\* is in, in the middle of a switch and after failures and crashes too: what was
\* told too early is told of the only block there is.
Only == \A t \in Mine : hashBlock[t] # Null => hashBlock[t] \in Block /\ t \in TxsOf(hashBlock[t])

LEMMA ToldNext ==
    ASSUME TypeOK, Told(diskTx), Told(txnTx), Only, [Next]_vars
    PROVE  Told(diskTx)' /\ Told(txnTx)' /\ Only'
<1>1. Mine \subseteq Tx /\ Null \notin Block /\ IsTxIndex(diskTx) /\ IsTxIndex(txnTx)
  BY BlockChainAssumption, ChainDataAssumption DEF TypeOK, DiskType
<1>2. CASE DisconnectStep \/ ConnectStep
  <2>1. UNCHANGED diskTx
    BY <1>2, SwitchSteps
  <2>2. CASE UNCHANGED <<mapWallet, hashBlock>> /\ (txnTx' = diskTx \/ txnTx' = txnTx)
    BY <2>1, <2>2 DEF Told, Only
  <2>3. ASSUME UNCHANGED <<mapWallet, hashBlock>>,
               NEW b \in Block, txnTx' = DisconnectBlock(txnTx, b)
        PROVE  Told(diskTx)' /\ Told(txnTx)' /\ Only'
    BY <1>1, <2>1, <2>3, PosOfEntries DEF Told, Only
  <2>4. ASSUME NEW b \in Block, txnTx' = ConnectBlock(txnTx, b), SyncWithWallets(TxsOf(b), b)
        PROVE  Told(diskTx)' /\ Told(txnTx)' /\ Only'
    <3>1. /\ mapWallet' = mapWallet \cup (TxsOf(b) \cap Mine)
          /\ \A t \in Mine : hashBlock'[t] = IF t \in TxsOf(b) THEN b ELSE hashBlock[t]
      BY <1>1, <2>4 DEF SyncWithWallets
    <3>2. Told(diskTx)' /\ Only'
      BY <1>1, <2>1, <3>1 DEF Told, Only
    <3>3. Told(txnTx)'
      BY <1>1, <2>4, <3>1, PosOfEntries DEF Told
    <3> QED
      BY <3>2, <3>3
  <2> QED
    BY <1>2, <2>2, <2>3, <2>4, SwitchSteps
<1>3. CASE Commit
  BY <1>3 DEF Commit, Told, Only
<1>4. CASE CrashAndRestart
  BY <1>1, <1>4, RescanGives DEF Told, Only
<1>5. CASE ~DisconnectStep /\ ~ConnectStep /\ ~Commit /\ ~CrashAndRestart
  BY <1>5, WalletAside DEF Told, Only
<1> QED
  BY <1>2, <1>3, <1>4, <1>5

\* A wallet transaction of the best branch points to the block it is in, through
\* failed switches and crashes at any step, if it is in no second block: what
\* ConnectBlock tells the wallets too early is then not wrong.
THEOREM UniqueTxsAreFollowed ==
    ASSUME WalletTxsAreUnique
    PROVE  Spec => []WalletFollowsBranch
<1>1. Init => Told(diskTx) /\ Told(txnTx) /\ Only
  BY WalletInit DEF Only
<1>2. TypeOK /\ Told(diskTx) /\ Told(txnTx) /\ Only /\ [Next]_vars
        => Told(diskTx)' /\ Told(txnTx)' /\ Only'
  BY ToldNext
<1>3. TypeOK /\ Told(diskTx) /\ Only => WalletFollowsBranch
  <2> SUFFICES ASSUME TypeOK, Told(diskTx), Only, NEW t \in Mine, diskTx[t] # Null
               PROVE  t \in mapWallet /\ hashBlock[t] = diskTx[t].pos
    BY DEF WalletFollowsBranch
  <2>1. diskTx[t].pos \in Block
    BY BlockChainAssumption, PosOfEntries DEF TypeOK, DiskType
  <2> QED
    BY <2>1 DEF Told, Only, WalletTxsAreUnique
<1> QED
  BY <1>1, <1>2, <1>3, TypeCorrect, PTL DEF Spec

-----------------------------------------------------------------------------
\* f holds what ScanForWalletTransactions has reached from r after each step.
Reaches(f, r, m) ==
    f = [n \in 0..m |-> IF n = 0 THEN {r}
                        ELSE f[n - 1] \cup ({diskNext[b] : b \in f[n - 1]} \ {Null})]

LEMMA ReachesExist ==
    ASSUME NEW r, NEW m \in Nat
    PROVE  \E f : Reaches(f, r, m)
<1> DEFINE Further(S) == S \cup ({diskNext[b] : b \in S} \ {Null})
           T == {k \in Nat : ~\E f : Reaches(f, r, k)}
<1>1. T = {}
  <2>1. SUFFICES ASSUME T # {} PROVE FALSE
    OBVIOUS
  <2>2. PICK k \in T : \A j \in T : k <= j
    BY <2>1, LeastNumber
  <2>3. CASE k = 0
    <3>1. Reaches([n \in 0..0 |-> {r}], r, 0)
      BY DEF Reaches
    <3> QED
      BY <2>2, <2>3, <3>1
  <2>4. CASE k # 0
    <3>1. k - 1 \in Nat /\ k - 1 \notin T
      BY <2>2, <2>4
    <3>2. PICK f : Reaches(f, r, k - 1)
      BY <3>1
    <3> DEFINE g == [n \in 0..k |-> IF n = k THEN Further(f[k - 1]) ELSE f[n]]
    <3>3. \A n \in 0 .. k - 1 : f[n] = IF n = 0 THEN {r} ELSE Further(f[n - 1])
      BY <3>2 DEF Reaches
    <3> HIDE DEF Further
    <3>4. \A n \in 0..k : g[n] = IF n = 0 THEN {r} ELSE Further(g[n - 1])
      <4> TAKE n \in 0..k
      <4>1. CASE n = k
        <5>1. k - 1 \in 0..k /\ k - 1 # k
          BY <3>1
        <5> QED
          BY <2>4, <4>1, <5>1
      <4>2. CASE n # k /\ n # 0
        <5>1. n - 1 \in 0..k /\ n - 1 # k /\ n \in 0 .. k - 1
          BY <3>1, <4>2
        <5> QED
          BY <3>3, <4>2, <5>1
      <4>3. CASE n # k /\ n = 0
        <5>1. n \in 0 .. k - 1
          BY <3>1, <4>3
        <5> QED
          BY <3>3, <4>3, <5>1
      <4> QED
        BY <4>1, <4>2, <4>3
    <3>5. g = [n \in 0..k |-> g[n]]
      OBVIOUS
    <3> HIDE DEF g
    <3>6. Reaches(g, r, k)
      BY <3>4, <3>5 DEF Reaches, Further
    <3> QED
      BY <2>2, <3>6
  <2> QED
    BY <2>3, <2>4
<1> QED
  BY <1>1

\* From a block of the best branch, hashNext leads along that branch.
LEMMA ScanStaysOnBranch ==
    ASSUME IsFiniteSet(Block), diskBest \in Block, Links(diskBest, diskNext),
           diskNext \in [Block -> Block \cup {Null}], NEW r \in Branch[diskBest]
    PROVE  ScanFrom(r) \subseteq Branch[diskBest]
<1> DEFINE N == Cardinality(Block)
           Next1(S) == S \cup ({diskNext[b] : b \in S} \ {Null})
           T(f) == {n \in 0..N : ~(f[n] \subseteq Branch[diskBest])}
<1>1. N \in Nat
  BY FS_CardinalityType
<1>2. PICK f : Reaches(f, r, N)
  BY <1>1, ReachesExist
<1> DEFINE F == CHOOSE g : Reaches(g, r, N)
<1>3. Reaches(F, r, N)
  BY <1>2
<1>4. ScanFrom(r) = F[N]
  BY DEF ScanFrom, Reaches
<1> HIDE DEF F
<1>5. \A n \in 0..N : F[n] = IF n = 0 THEN {r} ELSE Next1(F[n - 1])
  BY <1>3 DEF Reaches
<1>6. ASSUME NEW S, S \subseteq Branch[diskBest] PROVE Next1(S) \subseteq Branch[diskBest]
  <2> SUFFICES ASSUME NEW b \in S, diskNext[b] # Null PROVE diskNext[b] \in Branch[diskBest]
    BY <1>6
  <2>1. b \in Block
    BY <1>6, BranchEnds
  <2> QED
    BY <2>1 DEF Links
<1> HIDE DEF Next1, N
<1>7. T(F) = {}
  <2>1. SUFFICES ASSUME T(F) # {} PROVE FALSE
    OBVIOUS
  <2>2. T(F) \subseteq Nat
    BY <1>1
  <2>3. PICK n \in T(F) : \A k \in T(F) : n <= k
    BY <2>1, <2>2, LeastNumber
  <2>4. n # 0
    BY <1>5, <2>3
  <2>5. n - 1 \in 0..N /\ n - 1 \notin T(F)
    BY <1>1, <2>3, <2>4
  <2>6. F[n - 1] \subseteq Branch[diskBest]
    BY <2>5
  <2>7. F[n] \subseteq Branch[diskBest]
    BY <1>5, <1>6, <2>3, <2>4, <2>6
  <2> QED
    BY <2>3, <2>7
<1> QED
  BY <1>1, <1>4, <1>7

\* A rescan starts at a block of the best branch.
LEMMA RescanStarts ==
    ASSUME diskBest \in Block, Links(diskBest, diskNext),
           diskNext \in [Block -> Block \cup {Null}], walletBest \in Block \cup {Null}
    PROVE  pindexRescan \in Branch[diskBest]
<1>1. ASSUME NEW b \in Block, InMainChain(b) PROVE b \in Branch[diskBest]
  <2>1. CASE b = diskBest
    BY <2>1, BranchEnds
  <2>2. CASE diskNext[b] # Null
    <3>1. /\ diskNext[b] \in Branch[diskBest] /\ hashPrevBlock[diskNext[b]] = b
          /\ diskNext[b] \in Block /\ diskNext[b] # Genesis
      BY <2>2, ChainDataAssumption DEF Links
    <3>2. Branch[diskNext[b]] \subseteq Branch[diskBest] /\ b \in Branch[diskNext[b]]
      BY <3>1, BranchClosed, BranchEnds, TreeFacts
    <3> QED
      BY <3>2
  <2> QED
    BY <1>1, <2>1, <2>2 DEF InMainChain
<1>2. CASE walletBest = Null
  BY <1>2, BranchEnds DEF pindexRescan
<1>3. CASE walletBest # Null
  <2> DEFINE w == walletBest
             S == {c \in Branch[w] : InMainChain(c)}
             D == {nHeight[w] - nHeight[c] : c \in S}
             Good(b) == /\ InMainChain(b) \/ b = Genesis
                        /\ \A c \in Branch[w] : InMainChain(c) => nHeight[c] <= nHeight[b]
  <2>1. w \in Block /\ Branch[w] \subseteq Block /\ Genesis \in Branch[w]
    BY <1>3, BranchEnds
  <2>2. \A c \in Branch[w] : nHeight[c] \in Nat /\ nHeight[c] <= nHeight[w]
    BY <2>1, BranchClosed, ChainDataAssumption
  <2>3. \E b \in Branch[w] : Good(b)
    <3>1. CASE S = {}
      BY <2>1, <3>1
    <3>2. CASE S # {}
      <4>1. D \subseteq Nat /\ D # {} /\ nHeight[w] \in Nat
        BY <2>1, <2>2, <3>2, ChainDataAssumption
      <4>2. PICK d \in D : \A x \in D : d <= x
        BY <4>1, LeastNumber
      <4>3. PICK b \in S : d = nHeight[w] - nHeight[b]
        BY <4>2
      <4>4. \A c \in S : nHeight[c] <= nHeight[b]
        BY <2>2, <4>1, <4>2, <4>3
      <4> QED
        BY <4>3, <4>4
    <3> QED
      BY <3>1, <3>2
  <2>4. pindexRescan = CHOOSE b \in Branch[w] : Good(b)
    BY <1>3 DEF pindexRescan
  <2> HIDE DEF Good
  <2>5. pindexRescan \in Branch[w] /\ Good(pindexRescan)
    BY <2>3, <2>4
  <2> USE DEF Good
  <2> QED
    BY <1>1, <2>1, <2>5, BranchEnds
<1> QED
  BY <1>2, <1>3

\* What a rescan says of a transaction is where the index has it.
LEMMA RescanFollows ==
    ASSUME IsFiniteSet(Block), Inv, Mine \cap TxsOf(Genesis) = {},
           NEW t \in Mine, NEW b \in Rescanned, t \in TxsOf(b)
    PROVE  diskTx[t] # Null => diskTx[t].pos = b
<1>1. /\ diskBest \in Block /\ Links(diskBest, diskNext) /\ Sound(diskBest)
      /\ diskTx = IndexOf(diskBest)
      /\ diskNext \in [Block -> Block \cup {Null}] /\ walletBest \in Block \cup {Null}
  BY DEF Inv, TypeOK, DiskType, WalletType, BranchInv, Stored, Holds
<1>2. b \in Branch[diskBest]
  BY <1>1, RescanStarts, ScanStaysOnBranch DEF Rescanned
<1>3. b # Genesis
  OBVIOUS
<1>4. PICK i \in DOMAIN vtx[b] : vtx[b][i] = t
  BY DEF TxsOf
<1>5. <<b, i>> \in Occurrences(diskBest) /\ TxAt(<<b, i>>) = t
  BY <1>1, <1>2, <1>3, <1>4, OccurrenceAt
<1> DEFINE x == <<b, i>>
<1>6. IndexOf(diskBest)[TxAt(x)] =
          [pos |-> x[1], vSpent |-> [n \in 1..Len(vout[TxAt(x)]) |-> SpenderIn(diskBest, <<TxAt(x), n>>)]]
  BY <1>1, <1>5, IndexEntries
<1>7. diskTx[t].pos = b
  BY <1>1, <1>5, <1>6
<1> QED
  BY <1>7

\* Between two switches the wallet follows the database; in a switch that will
\* be completed it follows the open transaction.
Following ==
    /\ Follows(txnTx)
    /\ (done # {} /\ pc \in {"connect", "commit"}) \/ Follows(diskTx)

LEMMA FollowingNext ==
    ASSUME IsFiniteSet(Block), Mine \cap TxsOf(Genesis) = {}, Inv, Following, [Next]_vars,
           [done # {} /\ pc \in {"connect", "commit"} => pc' \in {"connect", "commit", "resurrect"}]_vars
    PROVE  Following'
<1> DEFINE Switched == pc \in {"connect", "commit"} /\ done # {}
<1>1. Mine \subseteq Tx /\ TypeOK /\ IsTxIndex(diskTx) /\ IsTxIndex(txnTx)
  BY BlockChainAssumption DEF Inv, TypeOK, DiskType
<1>2. CASE DisconnectStep
  <2>1. pc = "disconnect" /\ UNCHANGED diskTx
    BY <1>2 DEF DisconnectStep
  <2>2. UNCHANGED <<mapWallet, hashBlock>> /\ Follows(diskTx)
    BY <1>2, <2>1 DEF DisconnectStep, Following
  <2>3. Follows(diskTx)'
    BY <2>1, <2>2 DEF Follows
  <2>4. CASE txnTx' = diskTx \/ txnTx' = txnTx
    BY <2>2, <2>3, <2>4 DEF Follows, Following
  <2>5. ASSUME NEW b \in Block, txnTx' = DisconnectBlock(txnTx, b) PROVE Follows(txnTx)'
    BY <1>1, <2>2, <2>5, PosOfEntries DEF Follows, Following
  <2>6. ~ConnectStep
    BY <2>1 DEF ConnectStep
  <2> QED
    BY <1>1, <1>2, <2>3, <2>4, <2>5, <2>6, SwitchSteps DEF Following
<1>3. CASE ConnectStep
  <2>1. pc = "connect" /\ UNCHANGED diskTx /\ ~DisconnectStep
    BY <1>3 DEF ConnectStep, DisconnectStep
  <2>2. CASE txnTx' = diskTx /\ UNCHANGED <<mapWallet, hashBlock>> /\ pc' \notin {"connect", "commit"}
    <3>1. done = {}
      BY <2>1, <2>2, <1>3 DEF ConnectStep, ReorganizeFailed, vars
    <3>2. Follows(diskTx)
      BY <3>1 DEF Following
    <3> QED
      BY <2>1, <2>2, <3>2 DEF Following, Follows
  <2>3. ASSUME NEW b \in Block, txnTx' = ConnectBlock(txnTx, b), SyncWithWallets(TxsOf(b), b),
               pc' \in {"connect", "commit"}, done' # {}
        PROVE  Following'
    <3>1. Null \notin Block
      BY ChainDataAssumption
    <3>2. /\ mapWallet' = mapWallet \cup (TxsOf(b) \cap Mine)
          /\ \A t \in Mine : hashBlock'[t] = IF t \in TxsOf(b) THEN b ELSE hashBlock[t]
      BY <1>1, <2>3, <3>1 DEF SyncWithWallets
    <3>3. Follows(txnTx)'
      BY <1>1, <2>3, <3>2, PosOfEntries DEF Follows, Following
    <3> QED
      BY <2>3, <3>3 DEF Following
  <2>4. \/ txnTx' = diskTx /\ UNCHANGED <<mapWallet, hashBlock>> /\ pc' \notin {"connect", "commit"}
        \/ \E b \in Block : /\ txnTx' = ConnectBlock(txnTx, b) /\ SyncWithWallets(TxsOf(b), b)
                            /\ pc' \in {"connect", "commit"} /\ done' # {}
    <3>1. vConnect \subseteq Block
      BY <1>1 DEF TypeOK, LocalType
    <3> QED
      BY <1>3, <3>1 DEF ConnectStep, ReorganizeFailed, TxnAbort
  <2> QED
    BY <2>2, <2>3, <2>4
<1>4. CASE Commit
  BY <1>4 DEF Commit, Following, Follows
<1>5. CASE CrashAndRestart
  <2>1. pc' = "idle"
    BY <1>5 DEF CrashAndRestart
  <2>2. Follows(diskTx)
    <3>1. ~Switched \/ pc' \in {"connect", "commit", "resurrect"} \/ UNCHANGED vars
      OBVIOUS
    <3>2. ~UNCHANGED vars
      BY <1>1, <1>5 DEF CrashAndRestart, vars, TypeOK, MemoryType
    <3> QED
      BY <2>1, <3>1, <3>2 DEF Following
  <2>3. ASSUME NEW t \in Mine, diskTx[t] # Null
        PROVE  t \in mapWallet' /\ hashBlock'[t] = diskTx[t].pos
    BY <1>1, <1>5, <2>2, <2>3, RescanGives, RescanFollows DEF Follows
  <2> QED
    BY <1>1, <1>5, <2>3, RescanGives DEF Follows, Following
<1>6. CASE ~DisconnectStep /\ ~ConnectStep /\ ~Commit /\ ~CrashAndRestart
  <2>1. UNCHANGED <<hashBlock, diskTx, txnTx>> /\ mapWallet \subseteq mapWallet'
    BY <1>1, <1>6, WalletAside
  <2>2. Switched => Switched'
    BY <1>6, SwitchUndisturbed
  <2>3. Follows(diskTx) => Follows(diskTx)'
    BY <2>1 DEF Follows
  <2>4. Follows(txnTx)'
    BY <2>1 DEF Follows, Following
  <2> QED
    BY <2>2, <2>3, <2>4 DEF Following
<1> QED
  BY <1>2, <1>3, <1>4, <1>5, <1>6

\* A wallet transaction of the best branch points to the block it is in, also
\* when it is in blocks of several branches, as long as no switch is cut short
\* after it has told the wallets of a block.
THEOREM KeptSwitchesAreFollowed ==
    ASSUME CoinBasesAreUnique, IsFiniteSet(Block), Mine \cap TxsOf(Genesis) = {}
    PROVE  Spec /\ PostponedNeverFails /\ ToldIsKept => []WalletFollowsBranch
<1>1. Init => Following
  BY WalletInit DEF Following
<1>2. Inv /\ Following /\ [Next]_vars
        /\ [done # {} /\ pc \in {"connect", "commit"} => pc' \in {"connect", "commit", "resurrect"}]_vars
        => Following'
  BY FollowingNext
<1>3. Following => WalletFollowsBranch
  BY DEF Following, Follows, WalletFollowsBranch
<1> QED
  BY <1>1, <1>2, <1>3, Invariance, PTL DEF Spec, ToldIsKept
====
