--------------------------- MODULE TxRelayProofs ----------------------------
(***************************************************************************)
(* Proofs about loose transactions for every set of transactions and       *)
(* peers: the types, with the limit of the orphan map and the bound of the *)
(* retry times; that the index by previous hash is exact; and that no      *)
(* orphan is forgotten by the work queue.                                  *)
(***************************************************************************)
EXTENDS TxRelay, TLAPS, FiniteSetTheorems, SequenceTheorems

-----------------------------------------------------------------------------
(* Types.  A request is put off once for every peer that announced. *)

Announcers(t) == {p \in Peer : <<p, t>> \in announced}
AskedPerPeer ==
    \A t \in Tx : mapAlreadyAskedFor[t] <= RetryTime * Cardinality(Announcers(t))

TypeInv == TypeOK /\ AskedPerPeer

LEMMA MaxTimeType == MaxTime \in Nat /\ Never \in Int /\ Never <= 0 /\ RetryTime \in Nat
<1>1. Cardinality(Peer) \in Nat /\ RetryTime \in Nat
  BY TxRelayAssumption, FS_CardinalityType
<1>2. \A r, c \in Nat : r * c \in Nat
  OBVIOUS
<1> QED
  BY <1>1, <1>2 DEF MaxTime, Never

LEMMA AnnouncersType ==
    ASSUME NEW t \in Tx
    PROVE  IsFiniteSet(Announcers(t)) /\ Cardinality(Announcers(t)) \in 0 .. Cardinality(Peer)
<1>1. Announcers(t) \in SUBSET Peer /\ IsFiniteSet(Peer)
  BY TxRelayAssumption DEF Announcers
<1>2. IsFiniteSet(Announcers(t)) /\ Cardinality(Announcers(t)) <= Cardinality(Peer)
  BY <1>1, FS_Subset
<1>3. Cardinality(Announcers(t)) \in Nat /\ Cardinality(Peer) \in Nat
  BY <1>1, <1>2, FS_CardinalityType
<1> QED
  BY <1>2, <1>3

LEMMA Distributes ==
    ASSUME NEW r \in Nat, NEW k \in Nat, NEW c \in Nat, k <= c
    PROVE  r * k \in Nat /\ r * k <= r * c /\ r * (k + 1) = r * k + r
<1>1. PICK d \in Nat : c = k + d
  <2>1. c - k \in Nat /\ c = k + (c - k)
    OBVIOUS
  <2> QED
    BY <2>1
<1>2. r * c = r * k + r * d /\ r * d \in Nat /\ r * k \in Nat
  BY <1>1
<1> QED
  BY <1>2

LEMMA TypeInit == Init => TypeInv
<1> SUFFICES ASSUME Init PROVE TypeInv
  OBVIOUS
<1>1. /\ mapAlreadyAskedFor \in [Tx -> Never .. MaxTime]
      /\ mapAskFor \in [Peer -> SUBSET [nRequestTime : 0 .. MaxTime, inv : Tx]]
      /\ mapOrphanTransactionsByPrev \in [Hash -> SUBSET Tx]
  BY MaxTimeType DEF Init
<1>2. Cardinality(mapOrphanTransactions) <= MAX_ORPHAN_TRANSACTIONS
  BY TxRelayAssumption, FS_EmptySet DEF Init
<1>3. vWorkQueue \in Seq(Tx) /\ chain \subseteq Hash
  BY DEF Init, Hash
<1>4. AskedPerPeer
  <2> SUFFICES ASSUME NEW t \in Tx
               PROVE  mapAlreadyAskedFor[t] <= RetryTime * Cardinality(Announcers(t))
    BY DEF AskedPerPeer
  <2>1. Cardinality(Announcers(t)) \in Nat
    BY AnnouncersType
  <2>2. RetryTime * Cardinality(Announcers(t)) \in Nat
    BY <2>1, MaxTimeType, Distributes
  <2> QED
    BY <2>2, MaxTimeType DEF Init
<1> QED
  BY <1>1, <1>2, <1>3, <1>4 DEF Init, TypeInv, TypeOK

\* What is asked for later still has a bound: one more peer has announced it.
LEMMA TypeAskFor ==
    ASSUME TypeInv, NEW p \in Peer, NEW t \in Tx, AskFor(p, t),
           <<p, t>> \notin announced, announced' = announced \cup {<<p, t>>}
    PROVE  /\ mapAlreadyAskedFor' \in [Tx -> Never .. MaxTime]
           /\ mapAskFor' \in [Peer -> SUBSET [nRequestTime : 0 .. MaxTime, inv : Tx]]
           /\ AskedPerPeer'
<1> DEFINE k == Cardinality(Announcers(t))
<1>1. Announcers(t)' = Announcers(t) \cup {p} /\ p \notin Announcers(t)
      /\ \A u \in Tx \ {t} : Announcers(u)' = Announcers(u)
  BY DEF Announcers
<1>2. IsFiniteSet(Announcers(t)) /\ k \in 0 .. Cardinality(Peer) /\ Cardinality(Peer) \in Nat
  BY AnnouncersType, TxRelayAssumption, FS_CardinalityType
<1>3. Cardinality(Announcers(t)') = k + 1
  BY <1>1, <1>2, FS_AddElement
<1>4. k + 1 <= Cardinality(Peer)
  <2>1. Announcers(t)' \subseteq Peer
    BY DEF Announcers
  <2> QED
    BY <1>3, <2>1, TxRelayAssumption, FS_Subset
<1>5. mapAlreadyAskedFor[t] \in Int /\ mapAlreadyAskedFor[t] <= RetryTime * k
  BY MaxTimeType DEF TypeInv, TypeOK, AskedPerPeer
<1>6. RetryTime * k \in Nat /\ RetryTime * (k + 1) = RetryTime * k + RetryTime
      /\ RetryTime * (k + 1) <= MaxTime
  BY <1>2, <1>4, MaxTimeType, Distributes DEF MaxTime
<1>7. RequestTime(t) \in 0 .. MaxTime /\ RequestTime(t) <= RetryTime * (k + 1)
  BY <1>5, <1>6, MaxTimeType DEF RequestTime, Later
<1>8. AskedPerPeer'
  BY <1>1, <1>3, <1>7 DEF AskFor, TypeInv, TypeOK, AskedPerPeer
<1> QED
  BY <1>7, <1>8, MaxTimeType DEF AskFor, TypeInv, TypeOK

LEMMA TypeAddOrphanTx ==
    ASSUME TypeInv, NEW t \in Tx, AddOrphanTx(t)
    PROVE  /\ mapOrphanTransactions' \subseteq Tx
           /\ mapOrphanTransactionsByPrev' \in [Hash -> SUBSET Tx]
           /\ Cardinality(mapOrphanTransactions') <= MAX_ORPHAN_TRANSACTIONS
<1> DEFINE all == mapOrphanTransactions \cup {t}
<1>1. PICK evicted \in SUBSET all :
        /\ Cardinality(evicted) = Later(Cardinality(all) - MAX_ORPHAN_TRANSACTIONS, 0)
        /\ mapOrphanTransactions' = all \ evicted
        /\ mapOrphanTransactionsByPrev' =
             [h \in Hash |-> (mapOrphanTransactionsByPrev[h]
                                \cup (IF h \in Prev(t) THEN {t} ELSE {})) \ evicted]
  BY Zenon DEF AddOrphanTx, LimitedOrphans
<1>2. all \subseteq Tx /\ IsFiniteSet(all) /\ Cardinality(all) \in Nat
  BY TxRelayAssumption, FS_Subset, FS_CardinalityType DEF TypeInv, TypeOK
<1>3. Cardinality(all \ evicted) = Cardinality(all) - Cardinality(evicted)
  <2>1. all \cap evicted = evicted
    OBVIOUS
  <2> QED
    BY <1>2, <2>1, FS_Difference
<1>4. Cardinality(all \ evicted) <= MAX_ORPHAN_TRANSACTIONS
  BY <1>1, <1>2, <1>3, TxRelayAssumption DEF Later
<1> QED
  BY <1>1, <1>2, <1>4 DEF TypeInv, TypeOK

LEMMA TypeEraseOrphanTx ==
    ASSUME TypeInv, NEW S, EraseOrphanTx(S)
    PROVE  /\ mapOrphanTransactions' \subseteq Tx
           /\ mapOrphanTransactionsByPrev' \in [Hash -> SUBSET Tx]
           /\ Cardinality(mapOrphanTransactions') <= MAX_ORPHAN_TRANSACTIONS
<1>1. IsFiniteSet(mapOrphanTransactions) /\ Cardinality(mapOrphanTransactions) \in Nat
  BY TxRelayAssumption, FS_Subset, FS_CardinalityType DEF TypeInv, TypeOK
<1>2. /\ mapOrphanTransactions' \in SUBSET mapOrphanTransactions
      /\ Cardinality(mapOrphanTransactions) <= MAX_ORPHAN_TRANSACTIONS
  BY DEF EraseOrphanTx, TypeInv, TypeOK
<1>3. Cardinality(mapOrphanTransactions') <= Cardinality(mapOrphanTransactions)
      /\ Cardinality(mapOrphanTransactions') \in Nat
  BY <1>1, <1>2, FS_Subset, FS_CardinalityType
<1>4. Cardinality(mapOrphanTransactions') <= MAX_ORPHAN_TRANSACTIONS
  BY <1>1, <1>2, <1>3, TxRelayAssumption
<1> QED
  BY <1>4 DEF EraseOrphanTx, TypeInv, TypeOK

\* Into the pool and to the end of the work queue.
LEMMA TypeTake ==
    ASSUME TypeInv, NEW t \in Tx, Take(t), UNCHANGED announced
    PROVE  /\ pool' \subseteq Tx /\ vEraseQueue' \subseteq Tx /\ vWorkQueue' \in Seq(Tx)
           /\ mapAlreadyAskedFor' \in [Tx -> Never .. MaxTime]
           /\ AskedPerPeer'
<1>1. Never \in Never .. MaxTime
  BY MaxTimeType
<1>2. \A u \in Tx : Never <= RetryTime * Cardinality(Announcers(u))
  <2> TAKE u \in Tx
  <2>1. RetryTime * Cardinality(Announcers(u)) \in Nat
    BY AnnouncersType, MaxTimeType, Distributes
  <2> QED
    BY <2>1, MaxTimeType
<1>3. AskedPerPeer'
  BY <1>2 DEF Take, TypeInv, TypeOK, AskedPerPeer, Announcers
<1> QED
  BY <1>1, <1>3 DEF Take, TypeInv, TypeOK

LEMMA TypeOfMessages ==
    ASSUME TypeInv, NEW p \in Peer, NEW t \in Tx, Inv(p, t) \/ ReceiveTx(p, t)
    PROVE  TypeInv'
<1> USE DEF pools, orphans, queue, asking, net
<1>1. CASE Inv(p, t) /\ AlreadyHave(t)
  <2>1. AskedPerPeer'
    <3> SUFFICES ASSUME NEW u \in Tx
                 PROVE  mapAlreadyAskedFor[u] <= RetryTime * Cardinality(Announcers(u)')
      BY <1>1 DEF Inv, AskedPerPeer
    <3>1. Announcers(u) \subseteq Announcers(u)' /\ Announcers(u)' \subseteq Peer
      BY <1>1 DEF Inv, Announcers
    <3>2. Cardinality(Announcers(u)) <= Cardinality(Announcers(u)')
          /\ Cardinality(Announcers(u)) \in Nat /\ Cardinality(Announcers(u)') \in Nat
      BY <3>1, TxRelayAssumption, FS_Subset, FS_CardinalityType
    <3>3. RetryTime * Cardinality(Announcers(u)) <= RetryTime * Cardinality(Announcers(u)')
          /\ RetryTime * Cardinality(Announcers(u)) \in Nat
      BY <3>2, MaxTimeType, Distributes
    <3>4. RetryTime * Cardinality(Announcers(u)') \in Nat
      BY <3>2, MaxTimeType, Distributes
    <3>5. mapAlreadyAskedFor[u] \in Int
          /\ mapAlreadyAskedFor[u] <= RetryTime * Cardinality(Announcers(u))
      BY MaxTimeType DEF TypeInv, TypeOK, AskedPerPeer
    <3> QED
      BY <3>3, <3>4, <3>5
  <2> QED
    BY <1>1, <2>1 DEF Inv, TypeInv, TypeOK
<1>2. CASE Inv(p, t) /\ ~AlreadyHave(t)
  <2>1. AskFor(p, t) /\ <<p, t>> \notin announced /\ announced' = announced \cup {<<p, t>>}
    BY <1>2 DEF Inv
  <2> QED
    BY <1>2, <2>1, TypeAskFor DEF Inv, TypeInv, TypeOK
<1>3. CASE ReceiveTx(p, t) /\ accept(t) = "accepted"
  <2>1. /\ Take(t) /\ UNCHANGED announced /\ UNCHANGED orphans
        /\ todo' = mapOrphanTransactionsByPrev[t]
    BY <1>3 DEF ReceiveTx
  <2>2. todo' \subseteq Tx
    BY <2>1 DEF TypeInv, TypeOK, Hash
  <2> QED
    BY <1>3, <2>1, <2>2, TypeTake DEF ReceiveTx, TypeInv, TypeOK
<1>4. CASE ReceiveTx(p, t) /\ accept(t) = "missing"
  <2>1. AskedPerPeer'
    BY <1>4 DEF ReceiveTx, TypeInv, AskedPerPeer, Announcers
  <2>2. CASE t \in mapOrphanTransactions \cup Big
    BY <1>4, <2>1, <2>2 DEF ReceiveTx, TypeInv, TypeOK
  <2>3. CASE t \notin mapOrphanTransactions \cup Big
    <3>1. AddOrphanTx(t)
      BY <1>4, <2>3 DEF ReceiveTx
    <3> QED
      BY <1>4, <2>1, <3>1, TypeAddOrphanTx DEF ReceiveTx, TypeInv, TypeOK
  <2> QED
    BY <2>2, <2>3
<1>5. CASE ReceiveTx(p, t) /\ accept(t) = "refused"
  BY <1>5 DEF ReceiveTx, TypeInv, TypeOK, AskedPerPeer, Announcers
<1> QED
  BY <1>1, <1>2, <1>3, <1>4, <1>5 DEF ReceiveTx

LEMMA TypeOfWork == ASSUME TypeInv, Work PROVE TypeInv'
<1> USE DEF pools, orphans, queue, asking, net
<1>1. ASSUME NEW t \in Tx, TryOrphan(t), accept(t) = "accepted" PROVE TypeInv'
  <2>1. Take(t) /\ UNCHANGED announced /\ todo' = todo \ {t}
    BY <1>1 DEF TryOrphan
  <2> QED
    BY <1>1, <2>1, TypeTake DEF TryOrphan, TypeInv, TypeOK
<1>2. ASSUME NEW t \in Tx, TryOrphan(t), accept(t) # "accepted" PROVE TypeInv'
  BY <1>2 DEF TryOrphan, TypeInv, TypeOK, AskedPerPeer, Announcers
<1>3. CASE NextInQueue
  <2>1. vWorkQueue' = Tail(vWorkQueue) /\ vWorkQueue # <<>> /\ Tail(vWorkQueue) \in Seq(Tx)
    BY <1>3, HeadTailProperties DEF NextInQueue, Idle, TypeInv, TypeOK
  <2>2. AskedPerPeer'
    BY <1>3 DEF NextInQueue, TypeInv, AskedPerPeer, Announcers
  <2>3. CASE Tail(vWorkQueue) = <<>>
    <3>1. EraseOrphanTx(vEraseQueue) /\ vEraseQueue' = {} /\ UNCHANGED todo
      BY <1>3, <2>3 DEF NextInQueue
    <3> QED
      BY <1>3, <2>1, <2>2, <3>1, TypeEraseOrphanTx DEF NextInQueue, TypeInv, TypeOK
  <2>4. CASE Tail(vWorkQueue) # <<>>
    <3>1. /\ todo' = mapOrphanTransactionsByPrev[Head(Tail(vWorkQueue))]
          /\ UNCHANGED <<orphans, vEraseQueue>>
      BY <1>3, <2>4 DEF NextInQueue
    <3>2. Head(Tail(vWorkQueue)) \in Tx
      BY <2>1, <2>4, HeadTailProperties
    <3>3. todo' \subseteq Tx
      BY <3>1, <3>2 DEF TypeInv, TypeOK, Hash
    <3> QED
      BY <1>3, <2>1, <2>2, <3>1, <3>3 DEF NextInQueue, TypeInv, TypeOK
  <2> QED
    BY <2>3, <2>4
<1> QED
  BY <1>1, <1>2, <1>3 DEF Work

LEMMA TypeOfRest ==
    ASSUME TypeInv,
           \/ Tick
           \/ \E p \in Peer : SendMessages(p) \/ Disconnect(p)
           \/ \E t \in Tx : ConnectBlock(t)
    PROVE  TypeInv'
<1> USE DEF pools, orphans, queue, asking, net
<1>0. \A t \in Tx : /\ RetryTime * Cardinality(Announcers(t)) \in Nat
                    /\ mapAlreadyAskedFor[t] \in Int
                    /\ mapAlreadyAskedFor[t] <= RetryTime * Cardinality(Announcers(t))
  BY AnnouncersType, MaxTimeType, Distributes DEF TypeInv, TypeOK, AskedPerPeer
<1>1. CASE Tick
  <2>1. mapAlreadyAskedFor' \in [Tx -> Never .. MaxTime]
    BY <1>1, MaxTimeType DEF Tick, Later, TypeInv, TypeOK
  <2>2. mapAskFor' \in [Peer -> SUBSET [nRequestTime : 0 .. MaxTime, inv : Tx]]
    <3>1. \A p \in Peer : \A e \in mapAskFor[p] :
            [e EXCEPT !.nRequestTime = Later(@ - 1, 0)] \in [nRequestTime : 0 .. MaxTime, inv : Tx]
      <4> TAKE p \in Peer
      <4> TAKE e \in mapAskFor[p]
      <4>1. e \in [nRequestTime : 0 .. MaxTime, inv : Tx]
        BY DEF TypeInv, TypeOK
      <4>2. Later(e.nRequestTime - 1, 0) \in 0 .. MaxTime
        BY <4>1, MaxTimeType DEF Later
      <4> QED
        BY <4>1, <4>2
    <3> QED
      BY <1>1, <3>1 DEF Tick
  <2>3. AskedPerPeer'
    <3> SUFFICES ASSUME NEW t \in Tx
                 PROVE  mapAlreadyAskedFor'[t] <= RetryTime * Cardinality(Announcers(t))
      BY <1>1 DEF Tick, AskedPerPeer, Announcers
    <3>1. mapAlreadyAskedFor'[t] = Later(mapAlreadyAskedFor[t] - 1, Never)
      BY <1>1 DEF Tick
    <3> QED
      BY <1>0, <3>1, MaxTimeType DEF Later
  <2> QED
    BY <1>1, <2>1, <2>2, <2>3 DEF Tick, TypeInv, TypeOK
<1>2. ASSUME NEW p \in Peer, SendMessages(p) PROVE TypeInv'
  <2>1. mapAlreadyAskedFor' \in [Tx -> Never .. MaxTime]
    BY <1>2, MaxTimeType DEF SendMessages, TypeInv, TypeOK
  <2>2. AskedPerPeer'
    BY <1>0, <1>2 DEF SendMessages, AskedPerPeer, Announcers
  <2>3. requested' \subseteq Peer \X Tx
    BY <1>2 DEF SendMessages, Wanted, DueAt, TypeInv, TypeOK
  <2> QED
    BY <1>2, <2>1, <2>2, <2>3 DEF SendMessages, TypeInv, TypeOK
<1>3. ASSUME NEW p \in Peer, Disconnect(p) PROVE TypeInv'
  BY <1>3 DEF Disconnect, TypeInv, TypeOK, AskedPerPeer, Announcers
<1>4. ASSUME NEW t \in Tx, ConnectBlock(t) PROVE TypeInv'
  BY <1>4 DEF ConnectBlock, TypeInv, TypeOK, AskedPerPeer, Announcers, Hash
<1> QED
  BY <1>1, <1>2, <1>3, <1>4

LEMMA TypeNext == ASSUME TypeInv, [Next]_vars PROVE TypeInv'
<1>1. CASE UNCHANGED vars
  BY <1>1 DEF vars, pools, orphans, queue, asking, net, TypeInv, TypeOK, AskedPerPeer, Announcers
<1>2. CASE Next
  BY <1>2, TypeOfMessages, TypeOfWork, TypeOfRest DEF Next
<1> QED
  BY <1>1, <1>2

\* Every variable keeps its type: for any number of peers and transactions there are
\* never more orphans than MAX_ORPHAN_TRANSACTIONS, and no request is put off by more
\* than two minutes for each peer.
THEOREM TxRelayTypeCorrect == Spec => []TypeOK
<1>1. Spec => []TypeInv
  BY TypeInit, TypeNext, PTL DEF Spec
<1> QED
  BY <1>1, PTL DEF TypeInv

-----------------------------------------------------------------------------
(* The index of the orphans by previous hash. *)

IndexedInv == TypeInv /\ OrphansAreIndexed

LEMMA IndexedAdd ==
    ASSUME IndexedInv, NEW t \in Tx, AddOrphanTx(t) PROVE OrphansAreIndexed'
<1>1. PICK evicted \in SUBSET (mapOrphanTransactions \cup {t}) :
        /\ mapOrphanTransactions' = (mapOrphanTransactions \cup {t}) \ evicted
        /\ mapOrphanTransactionsByPrev' =
             [h \in Hash |-> (mapOrphanTransactionsByPrev[h]
                                \cup (IF h \in Prev(t) THEN {t} ELSE {})) \ evicted]
  BY Zenon DEF AddOrphanTx, LimitedOrphans
<1> SUFFICES ASSUME NEW h \in Hash
             PROVE  mapOrphanTransactionsByPrev'[h] = {u \in mapOrphanTransactions' : h \in Prev(u)}
  BY DEF OrphansAreIndexed
<1>2. mapOrphanTransactionsByPrev[h] = {u \in mapOrphanTransactions : h \in Prev(u)}
  BY DEF IndexedInv, OrphansAreIndexed
<1> QED
  BY <1>1, <1>2

LEMMA IndexedErase ==
    ASSUME IndexedInv, NEW S, EraseOrphanTx(S) PROVE OrphansAreIndexed'
  BY DEF IndexedInv, OrphansAreIndexed, EraseOrphanTx

LEMMA IndexedNext == ASSUME IndexedInv, [Next]_vars PROVE IndexedInv'
<1>0. TypeInv'
  BY TypeNext DEF IndexedInv
<1>1. CASE UNCHANGED orphans
  BY <1>0, <1>1 DEF orphans, IndexedInv, OrphansAreIndexed
<1>2. ASSUME NEW p \in Peer, NEW t \in Tx, ReceiveTx(p, t), ~UNCHANGED orphans PROVE IndexedInv'
  <2>1. AddOrphanTx(t)
    BY <1>2 DEF ReceiveTx
  <2> QED
    BY <1>0, <2>1, IndexedAdd DEF IndexedInv
<1>3. ASSUME NextInQueue, ~UNCHANGED orphans PROVE IndexedInv'
  <2>1. EraseOrphanTx(vEraseQueue)
    BY <1>3 DEF NextInQueue
  <2> QED
    BY <1>0, <2>1, IndexedErase DEF IndexedInv
<1>4. UNCHANGED orphans \/ NextInQueue \/ \E p \in Peer, t \in Tx : ReceiveTx(p, t)
  BY DEF Next, Work, Tick, SendMessages, Disconnect, Inv, ConnectBlock, TryOrphan, vars
<1> QED
  BY <1>1, <1>2, <1>3, <1>4

\* mapOrphanTransactionsByPrev holds a pointer for every input of every orphan and none to
\* one that was erased, through additions, evictions and the work queue.
THEOREM OrphansStayIndexed == Spec => []OrphansAreIndexed
<1>1. Init => IndexedInv
  BY TypeInit DEF Init, IndexedInv, OrphansAreIndexed
<1>2. Spec => []IndexedInv
  BY <1>1, IndexedNext, PTL DEF Spec
<1> QED
  BY <1>2, PTL DEF IndexedInv

-----------------------------------------------------------------------------
(* The work queue. *)

\* An orphan that need not be tried; and every other one will be, or is done.
Waits(t) == MissingInputs(t) \/ Prev(t) \cap mined # {} \/ Conflicts(t, pool \cup chain)
Planned(t) == \/ t \in todo \cup vEraseQueue
              \/ \E i \in 2 .. Len(vWorkQueue) : vWorkQueue[i] \in Prev(t)
WorkIsPlanned == \A t \in mapOrphanTransactions : Waits(t) \/ Planned(t)
IdleIsDone == Idle => todo = {} /\ vEraseQueue = {}

QueueInv == IndexedInv /\ WorkIsPlanned /\ IdleIsDone

\* Only the new transaction t can have been the missing input of an orphan.
LEMMA TakeFreesOrphans ==
    ASSUME QueueInv, NEW t \in Tx, Take(t), UNCHANGED <<chain, mined>>,
           NEW u \in Tx, Waits(u)
    PROVE  Waits(u)' \/ t \in Prev(u)
  BY DEF Take, Waits, MissingInputs, Conflicts

LEMMA MissingWaits == ASSUME NEW t \in Tx, accept(t) = "missing" PROVE Waits(t)
  BY DEF accept, Waits

LEMMA QueueOfReceiveTx ==
    ASSUME QueueInv, NEW p \in Peer, NEW t \in Tx, ReceiveTx(p, t)
    PROVE  WorkIsPlanned' /\ IdleIsDone'
<1> USE DEF pools, orphans, queue
<1>0. vWorkQueue = <<>> /\ todo = {} /\ vEraseQueue = {} /\ UNCHANGED <<chain, mined>>
      /\ mapOrphanTransactions \subseteq Tx /\ \A u \in mapOrphanTransactions : Waits(u)
  BY DEF ReceiveTx, QueueInv, IndexedInv, TypeInv, TypeOK, IdleIsDone, Idle, WorkIsPlanned, Planned
<1>1. CASE accept(t) = "accepted"
  <2>1. /\ Take(t) /\ todo' = mapOrphanTransactionsByPrev[t] /\ UNCHANGED orphans
        /\ vWorkQueue' = <<t>>
    BY <1>0, <1>1 DEF ReceiveTx, Take
  <2>2. todo' = {u \in mapOrphanTransactions : t \in Prev(u)}
    BY <2>1 DEF QueueInv, IndexedInv, OrphansAreIndexed, Hash
  <2>3. \A u \in mapOrphanTransactions : Waits(u)' \/ u \in todo'
    BY <1>0, <2>1, <2>2, TakeFreesOrphans
  <2> QED
    BY <2>1, <2>3 DEF WorkIsPlanned, Planned, IdleIsDone, Idle
<1>2. CASE accept(t) # "accepted"
  <2>1. UNCHANGED <<pool, chain, mined, queue>>
    BY <1>0, <1>2 DEF ReceiveTx
  <2>2. \A u \in mapOrphanTransactions' : Waits(u)
    <3>1. CASE UNCHANGED orphans
      BY <1>0, <3>1
    <3>2. CASE ~UNCHANGED orphans
      <4>1. AddOrphanTx(t) /\ accept(t) = "missing"
        BY <1>2, <3>2 DEF ReceiveTx
      <4>2. mapOrphanTransactions' \subseteq mapOrphanTransactions \cup {t}
        BY <4>1 DEF AddOrphanTx, LimitedOrphans
      <4> QED
        BY <1>0, <4>1, <4>2, MissingWaits
    <3> QED
      BY <3>1, <3>2
  <2> QED
    BY <1>0, <2>1, <2>2 DEF WorkIsPlanned, Waits, MissingInputs, Conflicts, IdleIsDone, Idle
<1> QED
  BY <1>1, <1>2

LEMMA QueueOfTryOrphan ==
    ASSUME QueueInv, NEW t \in Tx, TryOrphan(t) PROVE WorkIsPlanned' /\ IdleIsDone'
<1> USE DEF orphans
<1>0. /\ vWorkQueue # <<>> /\ vWorkQueue \in Seq(Tx) /\ mapOrphanTransactions \subseteq Tx
      /\ todo' = todo \ {t} /\ UNCHANGED <<chain, mined, mapOrphanTransactions>>
  BY DEF TryOrphan, QueueInv, IndexedInv, TypeInv, TypeOK, Idle
<1>1. CASE accept(t) = "accepted"
  <2>1. Take(t)
    BY <1>1 DEF TryOrphan
  <2>2. /\ vWorkQueue' = Append(vWorkQueue, t) /\ Len(vWorkQueue') = Len(vWorkQueue) + 1
        /\ vWorkQueue'[Len(vWorkQueue) + 1] = t /\ Len(vWorkQueue) \in Nat \ {0}
        /\ \A i \in 1 .. Len(vWorkQueue) : vWorkQueue'[i] = vWorkQueue[i]
        /\ vEraseQueue' = vEraseQueue \cup {t}
    BY <1>0, <2>1, AppendProperties, EmptySeq DEF Take
  <2>3. ASSUME NEW u \in mapOrphanTransactions PROVE Waits(u)' \/ Planned(u)'
    <3>1. CASE Waits(u)
      <4>1. Waits(u)' \/ t \in Prev(u)
        BY <1>0, <2>1, <3>1, TakeFreesOrphans
      <4>2. Len(vWorkQueue) + 1 \in 2 .. Len(vWorkQueue')
        BY <2>2
      <4> QED
        BY <2>2, <4>1, <4>2 DEF Planned
    <3>2. CASE u \in todo \cup vEraseQueue
      BY <1>0, <2>2, <3>2 DEF Planned
    <3>3. CASE \E i \in 2 .. Len(vWorkQueue) : vWorkQueue[i] \in Prev(u)
      <4>1. PICK i \in 2 .. Len(vWorkQueue) : vWorkQueue[i] \in Prev(u)
        BY <3>3
      <4>2. i \in 2 .. Len(vWorkQueue') /\ vWorkQueue'[i] = vWorkQueue[i]
        BY <2>2
      <4> QED
        BY <4>1, <4>2 DEF Planned
    <3> QED
      BY <3>1, <3>2, <3>3 DEF QueueInv, WorkIsPlanned, Planned
  <2>4. vWorkQueue' # <<>>
    BY <2>2
  <2> QED
    BY <1>0, <2>3, <2>4 DEF WorkIsPlanned, IdleIsDone, Idle
<1>2. CASE accept(t) # "accepted"
  <2>1. /\ UNCHANGED <<pool, vWorkQueue>> /\ vEraseQueue \subseteq vEraseQueue'
        /\ Waits(t) \/ t \in vEraseQueue'
    BY <1>2, MissingWaits DEF TryOrphan
  <2>2. ASSUME NEW u \in mapOrphanTransactions PROVE Waits(u) \/ Planned(u)'
    BY <1>0, <2>1, <2>2 DEF QueueInv, WorkIsPlanned, Planned
  <2> QED
    BY <1>0, <2>1, <2>2 DEF WorkIsPlanned, Waits, MissingInputs, Conflicts, IdleIsDone, Idle
<1> QED
  BY <1>1, <1>2

LEMMA QueueOfNext == ASSUME QueueInv, NextInQueue PROVE WorkIsPlanned' /\ IdleIsDone'
<1> USE DEF pools, orphans
<1>0. /\ vWorkQueue # <<>> /\ vWorkQueue \in Seq(Tx) /\ todo = {} /\ UNCHANGED <<pool, chain, mined>>
      /\ vWorkQueue' = Tail(vWorkQueue)
  BY DEF NextInQueue, QueueInv, IndexedInv, TypeInv, TypeOK, Idle
<1>1. /\ Len(vWorkQueue) \in Nat \ {0} /\ Len(vWorkQueue') = Len(vWorkQueue) - 1
      /\ \A i \in 1 .. Len(vWorkQueue') : vWorkQueue'[i] = vWorkQueue[i + 1]
  BY <1>0, HeadTailProperties, EmptySeq
<1>2. CASE Tail(vWorkQueue) = <<>>
  <2>1. mapOrphanTransactions' = mapOrphanTransactions \ vEraseQueue /\ vEraseQueue' = {} /\ todo' = {}
    BY <1>0, <1>2 DEF NextInQueue, EraseOrphanTx
  <2>2. Len(vWorkQueue) = 1
    <3>1. vWorkQueue' = <<>>
      BY <1>0, <1>2
    <3>2. Len(vWorkQueue') = 0
      BY <3>1
    <3> QED
      BY <1>1, <3>2
  <2>3. \A u \in mapOrphanTransactions' : Waits(u)
    BY <1>0, <2>1, <2>2 DEF QueueInv, WorkIsPlanned, Planned
  <2> QED
    BY <1>0, <2>1, <2>3 DEF WorkIsPlanned, Waits, MissingInputs, Conflicts, IdleIsDone
<1>3. CASE Tail(vWorkQueue) # <<>>
  <2>1. /\ todo' = mapOrphanTransactionsByPrev[Head(Tail(vWorkQueue))]
        /\ UNCHANGED <<mapOrphanTransactions, vEraseQueue>>
    BY <1>3 DEF NextInQueue
  <2>2. /\ Tail(vWorkQueue) \in Seq(Tx) /\ Head(Tail(vWorkQueue)) = vWorkQueue'[1]
        /\ Head(Tail(vWorkQueue)) \in Tx /\ Len(vWorkQueue') >= 1
    BY <1>0, <1>1, <1>3, HeadTailProperties, EmptySeq
  <2>3. vWorkQueue'[1] = vWorkQueue[2]
    BY <1>1, <2>2
  <2>4. todo' = {u \in mapOrphanTransactions : vWorkQueue[2] \in Prev(u)}
    BY <2>1, <2>2, <2>3 DEF QueueInv, IndexedInv, OrphansAreIndexed, Hash
  <2>5. ASSUME NEW u \in mapOrphanTransactions PROVE Waits(u) \/ Planned(u)'
    <3>1. CASE Waits(u) \/ u \in vEraseQueue
      BY <2>1, <3>1 DEF Planned
    <3>2. CASE \E i \in 2 .. Len(vWorkQueue) : vWorkQueue[i] \in Prev(u)
      <4>1. PICK i \in 2 .. Len(vWorkQueue) : vWorkQueue[i] \in Prev(u)
        BY <3>2
      <4>2. CASE i = 2
        BY <2>4, <4>1, <4>2 DEF Planned
      <4>3. CASE i # 2
        <5>1. i - 1 \in 2 .. Len(vWorkQueue') /\ i - 1 \in 1 .. Len(vWorkQueue') /\ (i - 1) + 1 = i
          BY <1>1, <4>3
        <5>2. vWorkQueue'[i - 1] = vWorkQueue[i]
          BY <1>1, <5>1
        <5> QED
          BY <4>1, <5>1, <5>2 DEF Planned
      <4> QED
        BY <4>2, <4>3
    <3> QED
      BY <1>0, <3>1, <3>2 DEF QueueInv, WorkIsPlanned, Planned
  <2>6. vWorkQueue' # <<>>
    BY <1>0, <1>3
  <2> QED
    BY <1>0, <2>1, <2>5, <2>6 DEF WorkIsPlanned, Waits, MissingInputs, Conflicts, IdleIsDone, Idle
<1> QED
  BY <1>2, <1>3

\* A block that brings an input of an orphan was not in the pool, so it counts as mined.
LEMMA QueueOfConnectBlock ==
    ASSUME QueueInv, NEW t \in Tx, ConnectBlock(t) PROVE WorkIsPlanned' /\ IdleIsDone'
<1>1. /\ chain' = chain \cup {t} /\ pool' = pool \ {t}
      /\ mined' = IF t \in pool THEN mined ELSE mined \cup {t}
      /\ UNCHANGED <<orphans, queue>>
  BY DEF ConnectBlock
<1>2. ASSUME NEW u \in Tx, Waits(u) PROVE Waits(u)'
  <2>1. CASE MissingInputs(u)
    BY <1>1, <2>1 DEF Waits, MissingInputs
  <2>2. CASE Prev(u) \cap mined # {}
    BY <1>1, <2>2 DEF Waits
  <2>3. CASE Conflicts(u, pool \cup chain)
    BY <1>1, <2>3 DEF Waits, Conflicts
  <2> QED
    BY <1>2, <2>1, <2>2, <2>3 DEF Waits
<1>3. mapOrphanTransactions \subseteq Tx
  BY DEF QueueInv, IndexedInv, TypeInv, TypeOK
<1> QED
  BY <1>1, <1>2, <1>3 DEF orphans, queue, QueueInv, WorkIsPlanned, Planned, IdleIsDone, Idle

LEMMA QueueNext == ASSUME QueueInv, [Next]_vars PROVE QueueInv'
<1>0. IndexedInv'
  BY IndexedNext DEF QueueInv
<1>1. CASE UNCHANGED <<pools, orphans, queue>>
  BY <1>0, <1>1 DEF pools, orphans, queue, QueueInv, WorkIsPlanned, Waits, MissingInputs, Conflicts,
     Planned, IdleIsDone, Idle
<1>2. ASSUME NEW p \in Peer, NEW t \in Tx, ReceiveTx(p, t) PROVE QueueInv'
  BY <1>0, <1>2, QueueOfReceiveTx DEF QueueInv
<1>3. ASSUME NEW t \in Tx, TryOrphan(t) PROVE QueueInv'
  BY <1>0, <1>3, QueueOfTryOrphan DEF QueueInv
<1>4. CASE NextInQueue
  BY <1>0, <1>4, QueueOfNext DEF QueueInv
<1>5. ASSUME NEW t \in Tx, ConnectBlock(t) PROVE QueueInv'
  BY <1>0, <1>5, QueueOfConnectBlock DEF QueueInv
<1>6. \/ UNCHANGED <<pools, orphans, queue>> \/ NextInQueue
      \/ \E p \in Peer, t \in Tx : ReceiveTx(p, t)
      \/ \E t \in Tx : TryOrphan(t) \/ ConnectBlock(t)
  BY DEF Next, Work, Tick, SendMessages, Disconnect, Inv, vars
<1> QED
  BY <1>1, <1>2, <1>3, <1>4, <1>5, <1>6

\* "Recursively process any orphan transactions that depended on this one": for every
\* dependency between transactions and any order of arrivals, blocks and evictions, the
\* "tx" message ends with no orphan that the pool could have taken, but for one whose
\* input came in a block.
THEOREM NoOrphanIsForgotten == Spec => []OrphansWait
<1>1. Init => QueueInv
  BY TypeInit DEF Init, QueueInv, IndexedInv, OrphansAreIndexed, WorkIsPlanned, IdleIsDone
<1>2. QueueInv => OrphansWait
  <2> SUFFICES ASSUME QueueInv, Idle, NEW t \in mapOrphanTransactions PROVE Waits(t)
    BY DEF OrphansWait, Waits
  <2> QED
    BY DEF QueueInv, WorkIsPlanned, Planned, IdleIsDone, Idle
<1>3. Spec => []QueueInv
  BY <1>1, QueueNext, PTL DEF Spec
<1> QED
  BY <1>2, <1>3, PTL
=============================================================================
