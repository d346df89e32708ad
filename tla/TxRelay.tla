------------------------------ MODULE TxRelay -------------------------------
(***************************************************************************)
(* How a node obtains loose transactions: the "inv", "getdata" and "tx"    *)
(* messages of ProcessMessage and SendMessages, CNode::AskFor with its     *)
(* retries, and the orphan transactions (AddOrphanTx, EraseOrphanTx,       *)
(* LimitOrphanTxSize and the work queue of the "tx" message).              *)
(*                                                                         *)
(* cs_main makes a message one step; the work queue is a loop of steps in  *)
(* which nothing else of the node runs.  Peers answer, fall silent, or go  *)
(* away, and blocks bring transactions that were never loose.              *)
(***************************************************************************)
EXTENDS Integers, Sequences, FiniteSets

CONSTANTS
    Tx,         \* the loose transactions
    Base,       \* hashes of transactions that are in the chain from the start
    vin,        \* vin[t]: the outpoints <<hash, n>> t spends
    BadScript,  \* transactions that fail, but only once their inputs are found
    Big,        \* transactions of more than 5000 bytes
    Peer,
    Has,        \* Has[p]: the transactions p can announce and send
    Silent,     \* peers that may never answer a getdata
    RetryTime,  \* "2 * 60 * 1000000", in ticks of the clock
    MAX_ORPHAN_TRANSACTIONS

Hash   == Tx \cup Base
Prev(t) == {o[1] : o \in vin[t]}

ASSUME TxRelayAssumption ==
    /\ IsFiniteSet(Tx) /\ IsFiniteSet(Peer) /\ Tx \cap Base = {}
    /\ vin \in [Tx -> SUBSET (Hash \X Nat)] /\ \A t \in Tx : t \notin Prev(t)
    /\ Has \in [Peer -> SUBSET Tx]
    /\ BadScript \subseteq Tx /\ Big \subseteq Tx /\ Silent \subseteq Peer
    /\ RetryTime \in Nat \ {0} /\ MAX_ORPHAN_TRANSACTIONS \in Nat

VARIABLES
    pool,                           \* mempool.mapTx
    chain,                          \* what txdb.ContainsTx finds
    mapOrphanTransactions,
    mapOrphanTransactionsByPrev,    \* an absent entry is an empty set
    vWorkQueue, todo,               \* hashes to work off; orphans left of the first
    vEraseQueue,
    mapAlreadyAskedFor,             \* times, relative to now
    mapAskFor,                      \* of each peer: due times, relative to now
    requested,                      \* getdata on the way: <<peer, transaction>>
    connected,
    announced,                      \* what peers have announced: each once
    got,                            \* ghost: transactions received
    mined                           \* ghost: confirmed without having been in the pool

pools == <<pool, chain, mined>>
orphans == <<mapOrphanTransactions, mapOrphanTransactionsByPrev>>
queue == <<vWorkQueue, todo, vEraseQueue>>
asking == <<mapAlreadyAskedFor, mapAskFor, requested>>
net == <<connected, announced>>
vars == <<pools, orphans, queue, asking, net, got>>

Never == -RetryTime     \* no entry, which counts as the beginning of time
MaxTime == RetryTime * Cardinality(Peer)

TypeOK ==
    /\ pool \subseteq Tx /\ chain \subseteq Hash /\ mined \subseteq Tx /\ got \subseteq Tx
    /\ mapOrphanTransactions \subseteq Tx
    /\ mapOrphanTransactionsByPrev \in [Hash -> SUBSET Tx]
    /\ vWorkQueue \in Seq(Tx) /\ todo \subseteq Tx /\ vEraseQueue \subseteq Tx
    /\ mapAlreadyAskedFor \in [Tx -> Never .. MaxTime]
    /\ mapAskFor \in [Peer -> SUBSET [nRequestTime : 0 .. MaxTime, inv : Tx]]
    /\ requested \subseteq Peer \X Tx
    /\ connected \subseteq Peer /\ announced \subseteq Peer \X Tx
    /\ Cardinality(mapOrphanTransactions) <= MAX_ORPHAN_TRANSACTIONS

Init ==
    /\ pool = {} /\ chain = Base /\ mined = {} /\ got = {}
    /\ mapOrphanTransactions = {}
    /\ mapOrphanTransactionsByPrev = [h \in Hash |-> {}]
    /\ vWorkQueue = <<>> /\ todo = {} /\ vEraseQueue = {}
    /\ mapAlreadyAskedFor = [t \in Tx |-> Never]
    /\ mapAskFor = [p \in Peer |-> {}]
    /\ requested = {} /\ connected = Peer /\ announced = {}

-----------------------------------------------------------------------------
Later(a, b) == IF a >= b THEN a ELSE b
Idle == vWorkQueue = <<>>   \* cs_main is free

AlreadyHave(t) == t \in pool \cup mapOrphanTransactions \cup chain

\* AskFor: "Each retry is 2 minutes after the last".
RequestTime(t) == Later(mapAlreadyAskedFor[t] + RetryTime, 0)
\* Mutant: what was asked for less than two minutes ago is not queued again.
AskOnce(p, t) ==
    /\ mapAlreadyAskedFor' = [mapAlreadyAskedFor EXCEPT ![t] = RequestTime(t)]
    /\ mapAskFor' = [mapAskFor EXCEPT
         ![p] = @ \cup {[nRequestTime |-> 0, inv |-> i] : i \in {t} \cap {u \in Tx : RequestTime(u) = 0}}]
AskFor(p, t) ==
    /\ mapAlreadyAskedFor' = [mapAlreadyAskedFor EXCEPT ![t] = RequestTime(t)]
    /\ mapAskFor' = [mapAskFor EXCEPT
                       ![p] = @ \cup {[nRequestTime |-> RequestTime(t), inv |-> t]}]

\* The "inv" message.  A peer announces a transaction once (setInventoryKnown).
Inv(p, t) ==
    /\ Idle /\ p \in connected /\ t \in Has[p] /\ <<p, t>> \notin announced
    /\ announced' = announced \cup {<<p, t>>}
    /\ IF AlreadyHave(t) THEN UNCHANGED <<mapAlreadyAskedFor, mapAskFor>> ELSE AskFor(p, t)
    /\ UNCHANGED <<pools, orphans, queue, requested, connected, got>>

\* SendMessages: every request that is due is sent, or dropped if the node has the
\* transaction by now.
DueAt(p) == {e \in mapAskFor[p] : e.nRequestTime = 0}
Wanted(p) == {e.inv : e \in DueAt(p)} \ {t \in Tx : AlreadyHave(t)}
SendMessages(p) ==
    /\ Idle /\ p \in connected /\ DueAt(p) # {}
    /\ mapAskFor' = [mapAskFor EXCEPT ![p] = @ \ DueAt(p)]
    /\ mapAlreadyAskedFor' = [t \in Tx |-> IF t \in Wanted(p) THEN 0 ELSE mapAlreadyAskedFor[t]]
    /\ requested' = requested \cup {p} \X Wanted(p)
    /\ UNCHANGED <<pools, orphans, queue, net, got>>

-----------------------------------------------------------------------------
(* Orphans. *)

\* Mutant: only the orphan's own entry goes.
EraseKeepingIndex(S) ==
    /\ mapOrphanTransactions' = mapOrphanTransactions \ S
    /\ UNCHANGED mapOrphanTransactionsByPrev
\* EraseOrphanTx, for each of S.
EraseOrphanTx(S) ==
    /\ mapOrphanTransactions' = mapOrphanTransactions \ S
    /\ mapOrphanTransactionsByPrev' =
         [h \in Hash |-> mapOrphanTransactionsByPrev[h] \ (S \cap mapOrphanTransactions)]

\* AddOrphanTx, and LimitOrphanTxSize to nMaxOrphans: over it random orphans go, which
\* may be the new one.
LimitedOrphans(t, nMaxOrphans) ==
    LET all == mapOrphanTransactions \cup {t}
    IN  \E evicted \in SUBSET all :
          /\ Cardinality(evicted) = Later(Cardinality(all) - nMaxOrphans, 0)
          /\ mapOrphanTransactions' = all \ evicted
          /\ mapOrphanTransactionsByPrev' =
               [h \in Hash |-> (mapOrphanTransactionsByPrev[h]
                                  \cup (IF h \in Prev(t) THEN {t} ELSE {})) \ evicted]
\* Mutant: the limit is tested before the new one is counted.
AddOverLimit(t) == LimitedOrphans(t, MAX_ORPHAN_TRANSACTIONS + 1)
AddOrphanTx(t) == LimitedOrphans(t, MAX_ORPHAN_TRANSACTIONS)

\* CTxMemPool::accept, in the order of its checks.
Conflicts(t, S) == \E u \in S \cap Tx : u # t /\ vin[u] \cap vin[t] # {}
MissingInputs(t) == \E h \in Prev(t) : h \notin pool \cup chain
accept(t) ==
    CASE t \in pool \cup chain \/ Conflicts(t, pool) -> "refused"
      [] t \notin pool \cup chain /\ ~Conflicts(t, pool) /\ MissingInputs(t) -> "missing"
      [] OTHER -> IF t \in BadScript \/ Conflicts(t, chain) THEN "refused" ELSE "accepted"

\* Into the pool, relayed, and its own orphans are looked at later.
\* Mutant: they are not.
TakeAlone(t) ==
    /\ pool' = pool \cup {t}
    /\ mapAlreadyAskedFor' = [mapAlreadyAskedFor EXCEPT ![t] = Never]
    /\ vEraseQueue' = vEraseQueue \cup {t}
    /\ vWorkQueue' = IF Idle THEN <<t>> ELSE vWorkQueue
Take(t) ==
    /\ pool' = pool \cup {t}
    /\ mapAlreadyAskedFor' = [mapAlreadyAskedFor EXCEPT ![t] = Never]
    /\ vEraseQueue' = vEraseQueue \cup {t}
    /\ vWorkQueue' = Append(vWorkQueue, t)

\* The "tx" message with the answer of p.
ReceiveTx(p, t) ==
    /\ Idle /\ <<p, t>> \in requested
    /\ requested' = requested \ {<<p, t>>}
    /\ got' = got \cup {t}
    /\ \/ /\ accept(t) = "accepted"
          /\ Take(t)
          /\ todo' = mapOrphanTransactionsByPrev[t]
          /\ UNCHANGED orphans
       \/ /\ accept(t) = "missing"
          /\ IF t \in mapOrphanTransactions \cup Big THEN UNCHANGED orphans ELSE AddOrphanTx(t)
          /\ UNCHANGED <<pool, queue, mapAlreadyAskedFor>>
       \/ /\ accept(t) = "refused"
          /\ UNCHANGED <<pool, orphans, queue, mapAlreadyAskedFor>>
    /\ UNCHANGED <<chain, mined, mapAskFor, net>>

\* One turn of the inner loop: an orphan that spends from the first of the queue.
TryOrphan(t) ==
    /\ ~Idle /\ t \in todo
    /\ todo' = todo \ {t}
    /\ \/ /\ accept(t) = "accepted"
          /\ Take(t)
       \/ /\ accept(t) = "missing"
          /\ UNCHANGED <<pool, mapAlreadyAskedFor, vWorkQueue, vEraseQueue>>
       \/ /\ accept(t) = "refused"     \* "removed invalid orphan tx"
          /\ vEraseQueue' = vEraseQueue \cup {t}
          /\ UNCHANGED <<pool, mapAlreadyAskedFor, vWorkQueue>>
    /\ UNCHANGED <<chain, mined, orphans, mapAskFor, requested, net, got>>

\* The next of the work queue; at its end the erase queue goes.
NextInQueue ==
    /\ ~Idle /\ todo = {}
    /\ vWorkQueue' = Tail(vWorkQueue)
    /\ IF Tail(vWorkQueue) = <<>>
       THEN /\ EraseOrphanTx(vEraseQueue)
            /\ vEraseQueue' = {} /\ UNCHANGED todo
       ELSE /\ todo' = mapOrphanTransactionsByPrev[Head(Tail(vWorkQueue))]
            /\ UNCHANGED <<orphans, vEraseQueue>>
    /\ UNCHANGED <<pools, asking, net, got>>

-----------------------------------------------------------------------------
\* A block connects that holds t: it leaves the pool, and its orphans stay.
ConnectBlock(t) ==
    /\ Idle /\ t \notin chain \cup BadScript
    /\ Prev(t) \subseteq chain /\ ~Conflicts(t, chain)
    /\ chain' = chain \cup {t} /\ pool' = pool \ {t}
    /\ mined' = IF t \in pool THEN mined ELSE mined \cup {t}
    /\ UNCHANGED <<orphans, queue, asking, net, got>>

\* A connection ends, and with it the requests to that peer.
Disconnect(p) ==
    /\ p \in connected /\ connected' = connected \ {p}
    /\ mapAskFor' = [mapAskFor EXCEPT ![p] = {}]
    /\ requested' = requested \ ({p} \X Tx)
    /\ UNCHANGED <<pools, orphans, queue, mapAlreadyAskedFor, announced, got>>

\* Time passes.
Tick ==
    /\ mapAlreadyAskedFor' = [t \in Tx |-> Later(mapAlreadyAskedFor[t] - 1, Never)]
    /\ mapAskFor' = [p \in Peer |->
         {[e EXCEPT !.nRequestTime = Later(@ - 1, 0)] : e \in mapAskFor[p]}]
    /\ UNCHANGED <<pools, orphans, queue, requested, net, got>>

Work == NextInQueue \/ \E t \in Tx : TryOrphan(t)

Next ==
    \/ Work \/ Tick
    \/ \E p \in Peer : SendMessages(p) \/ Disconnect(p)
    \/ \E p \in Peer, t \in Tx : Inv(p, t) \/ ReceiveTx(p, t)
    \/ \E t \in Tx : ConnectBlock(t)

Spec == Init /\ [][Next]_vars

\* The message thread comes round to every peer, the clock goes on, and a peer that
\* is not silent answers what it is asked.
FairSpec ==
    /\ Spec /\ WF_vars(Work) /\ WF_vars(Tick)
    /\ \A p \in Peer : WF_vars(SendMessages(p))
    /\ \A p \in Peer \ Silent, t \in Tx : WF_vars(ReceiveTx(p, t))

-----------------------------------------------------------------------------
\* mapOrphanTransactionsByPrev indexes mapOrphanTransactions by every input, so that
\* the loop over it follows no pointer that EraseOrphanTx has freed.
OrphansAreIndexed ==
    \A h \in Hash : mapOrphanTransactionsByPrev[h] = {t \in mapOrphanTransactions : h \in Prev(t)}

\* "Recursively process any orphan transactions that depended on this one": when the
\* "tx" message is done, an orphan still lacks an input, or it got one from a block
\* without the pool having seen it, which no code looks for.
OrphansWait ==
    Idle => \A t \in mapOrphanTransactions :
              MissingInputs(t) \/ Prev(t) \cap mined # {} \/ Conflicts(t, pool \cup chain)

\* What a connected peer has announced is received, from it or from another, although
\* each request is put off while another peer may still answer, and those asked before
\* may be gone: otherwise that peer has gone too, or the chain has it.
AnnouncedIsObtained ==
    \A p \in Peer \ Silent, t \in Tx :
      <<p, t>> \in announced ~> t \in got \cup chain \/ p \notin connected
=============================================================================
