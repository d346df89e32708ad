------------------------------ MODULE Download ------------------------------
(***************************************************************************)
(* How a node that is behind obtains the main chain from its peers: the    *)
(* "version", "inv", "getdata", "getblocks" and "block" messages of        *)
(* ProcessMessage, ProcessBlock's orphans, AskFor with its retries,        *)
(* PushGetBlocks with its filter, and SendMessages.                        *)
(*                                                                         *)
(* The servers run the same code and have the main chain, so what they     *)
(* learn from the client is only that it has a block.  Messages arrive in  *)
(* order; a connection may end at any time.                                *)
(***************************************************************************)
EXTENDS Integers, Sequences, FiniteSets, Functions

CONSTANTS
    Server,     \* the client's peers
    Leaving,    \* those that may go away
    Tip,        \* Tip[s]: height of s's main chain at the start
    MaxHeight,  \* bound: the main chain grows to this height
    Fork,       \* the client's own branch leaves the main chain here
    SideLength, \* and has this many blocks
    nLimit,     \* blocks announced in answer to one getblocks: 500
    vHave       \* how far apart from its first one the blocks of a locator are

\* Blocks of the main chain are their heights, those of the client's branch negative.
Main  == 0 .. MaxHeight
Side  == {-i : i \in 1 .. SideLength}
Block == Main \cup Side
Prev(b) == IF b > 0 THEN b - 1 ELSE IF b = -1 THEN Fork ELSE b + 1
nHeight(b) == IF b >= 0 THEN b ELSE Fork - b

ASSUME DownloadAssumption ==
    /\ IsFiniteSet(Server) /\ Leaving \subseteq Server
    /\ MaxHeight \in Nat /\ Tip \in [Server -> 1 .. MaxHeight]
    /\ Fork \in 0 .. MaxHeight /\ SideLength \in Nat
    /\ nLimit \in Nat \ {0} /\ vHave \subseteq Nat /\ 0 \in vHave

VARIABLES
    index, pindexBest,      \* of the client: mapBlockIndex, the best block
    mapOrphanBlocks,
    nAskedForBlocks,
    mapAlreadyAskedFor,     \* times in retry times, relative to now
    mapAskFor,              \* per server, in the order of their time: <<time, block>>
    lastGetBlocks,          \* per server: pindexLastGetBlocksBegin, hashLastGetBlocksEnd
    setInventoryKnown, vInventoryToSend,        \* of the client, per server
    height,                 \* of each server: its best block
    known, toSend,          \* the servers' setInventoryKnown, vInventoryToSend
    hashContinue,           \* 0: none
    connected, greeted,     \* greeted: the version messages were exchanged
    toServer, toClient,     \* messages on the way
    fresh                   \* ghost: heights of the client when the last peer left found a block

chain   == <<index, pindexBest, mapOrphanBlocks>>
asking  == <<nAskedForBlocks, mapAlreadyAskedFor, mapAskFor, lastGetBlocks>>
relay   == <<setInventoryKnown, vInventoryToSend>>
server  == <<height, known, toSend, hashContinue>>
net     == <<connected, greeted>>
vars    == <<chain, asking, relay, server, net, toServer, toClient, fresh>>

Never == -1     \* no entry of mapAlreadyAskedFor
Message ==
    [type : {"inv", "getdata"}, vInv : Seq(Block)]
      \cup [type : {"getblocks"}, locator : Block, hashStop : Block]
      \cup [type : {"block"}, block : Block]

TypeOK ==
    /\ index \subseteq Block /\ pindexBest \in index
    /\ mapOrphanBlocks \subseteq Block \ index
    /\ nAskedForBlocks \in 0 .. Cardinality(Server)
    /\ mapAlreadyAskedFor \in [Block -> Int]
    /\ mapAskFor \in [Server -> Seq(Nat \X Block)]
    /\ lastGetBlocks \in [Server -> {<<>>} \cup Block \X Block]
    /\ setInventoryKnown \in [Server -> SUBSET Block]
    /\ vInventoryToSend \in [Server -> Seq(Block)]
    /\ height \in [Server -> Main] /\ known \in [Server -> SUBSET Block]
    /\ toSend \in [Server -> Seq(Block)] /\ hashContinue \in [Server -> Main]
    /\ greeted \subseteq connected /\ connected \subseteq Server
    /\ toServer \in [Server -> Seq(Message)] /\ toClient \in [Server -> Seq(Message)]
    /\ fresh \subseteq Main

Init ==
    /\ index = 0 .. Fork \cup Side
    /\ pindexBest = IF SideLength = 0 THEN Fork ELSE -SideLength
    /\ mapOrphanBlocks = {}
    /\ nAskedForBlocks = 0
    /\ mapAlreadyAskedFor = [b \in Block |-> Never]
    /\ mapAskFor = [s \in Server |-> <<>>] /\ lastGetBlocks = [s \in Server |-> <<>>]
    /\ setInventoryKnown = [s \in Server |-> {}] /\ vInventoryToSend = [s \in Server |-> <<>>]
    /\ height = Tip /\ hashContinue = [s \in Server |-> 0]
    /\ known = [s \in Server |-> {}] /\ toSend = [s \in Server |-> <<>>]
    /\ connected = Server /\ greeted = {}
    /\ toServer = [s \in Server |-> <<>>] /\ toClient = [s \in Server |-> <<>>]
    /\ fresh = {}

-----------------------------------------------------------------------------
Later(a, b) == IF a >= b THEN a ELSE b
Earlier(a, b) == IF a >= b THEN b ELSE a
inv(vInv) == IF vInv = <<>> THEN <<>> ELSE <<[type |-> "inv", vInv |-> vInv]>>
getdata(vInv) == IF vInv = <<>> THEN <<>> ELSE <<[type |-> "getdata", vInv |-> vInv]>>

\* The elements of a queue that are in S, in their order.
Kept(queue, S) ==
    LET kept[n \in 0 .. Len(queue)] ==
          IF n = 0 THEN <<>>
          ELSE IF queue[n] \in S THEN Append(kept[n - 1], queue[n]) ELSE kept[n - 1]
    IN  kept[Len(queue)]

\* PushInventory to every peer: what is not known to it.
Pushed(queue, knownTo, vInv) == queue \o Kept(vInv, Block \ knownTo)

\* SendMessages sends an inventory once, however often it was pushed.
Unsent(queue, knownTo) ==
    LET sent[n \in 0 .. Len(queue)] ==
          IF n = 0 THEN <<>>
          ELSE IF queue[n] \in knownTo \cup Range(sent[n - 1]) THEN sent[n - 1]
               ELSE Append(sent[n - 1], queue[n])
    IN  sent[Len(queue)]

(***************************************************************************)
(* The client.  What a message makes it ask of the peer that sent it is    *)
(* gathered in a record: its mapAlreadyAskedFor, the peer's mapAskFor, the *)
(* filter of PushGetBlocks, and the getblocks that are sent.               *)
(***************************************************************************)
Asking(s) == [already |-> mapAlreadyAskedFor, askFor |-> mapAskFor[s],
              last |-> lastGetBlocks[s], out |-> <<>>]
Ask(s, a) ==
    /\ mapAlreadyAskedFor' = a.already
    /\ mapAskFor' = [mapAskFor EXCEPT ![s] = a.askFor]
    /\ lastGetBlocks' = [lastGetBlocks EXCEPT ![s] = a.last]
    /\ toServer' = [toServer EXCEPT ![s] = @ \o a.out]

\* Mutant: what was asked of another peer is not asked of this one.
AskForOnce(a, b) ==
    IF a.already[b] # Never THEN a
    ELSE [already |-> [a.already EXCEPT ![b] = 0], askFor |-> <<<<0, b>>>> \o a.askFor,
          last |-> a.last, out |-> a.out]
\* AskFor keeps the requests in the order of their time.
AskFor(a, b) ==
    LET nRequestTime == Later(a.already[b] + 1, 0)
    IN  [already |-> [a.already EXCEPT ![b] = nRequestTime],
         askFor |-> Kept(a.askFor, (0 .. nRequestTime) \X Block)
                      \o <<<<nRequestTime, b>>>>
                      \o Kept(a.askFor, (Nat \ (0 .. nRequestTime)) \X Block),
         last |-> a.last, out |-> a.out]

\* The block has come: mapAlreadyAskedFor.erase.
Erase(a, b) ==
    [already |-> [a.already EXCEPT ![b] = Never], askFor |-> a.askFor, last |-> a.last, out |-> a.out]

\* "Filter out duplicate requests".
PushGetBlocks(a, begin, end) ==
    IF a.last = <<begin, end>> THEN a
    ELSE [already |-> a.already, askFor |-> a.askFor, last |-> <<begin, end>>,
          out |-> Append(a.out, [type |-> "getblocks", locator |-> begin, hashStop |-> end])]

\* The first of the orphans that b, one of orphans, follows on.
GetOrphanRoot(orphans, b) ==
    CHOOSE r \in orphans : /\ r <= b /\ r - 1 \notin orphans
                           /\ \A c \in r .. b : c \in orphans

\* "Ask the first connected node for block updates".
Version(s) ==
    /\ s \in connected \ greeted /\ greeted' = greeted \cup {s}
    /\ IF nAskedForBlocks < 1 \/ Cardinality(connected) <= 1
       THEN /\ nAskedForBlocks' = nAskedForBlocks + 1
            /\ Ask(s, PushGetBlocks(Asking(s), pindexBest, 0))
       ELSE UNCHANGED <<asking, toServer>>
    /\ UNCHANGED <<chain, relay, server, connected, toClient, fresh>>

\* One of the inventory; last says that it ends the message.
Had == index \cup mapOrphanBlocks
AlreadyHave(b) == b \in Had
GotInventory(a, b, last) ==
    IF ~AlreadyHave(b) THEN AskFor(a, b)
    ELSE IF b \in mapOrphanBlocks
         THEN PushGetBlocks(a, pindexBest, GetOrphanRoot(mapOrphanBlocks, b))
         ELSE IF last THEN PushGetBlocks(a, b, 0) ELSE a

\* What the first n of them make the client ask of s: Asked(s, vInv)[n].
Asked(s, vInv) ==
    LET asked[n \in 0 .. Len(vInv)] ==
          IF n = 0 THEN Asking(s) ELSE GotInventory(asked[n - 1], vInv[n], n = Len(vInv))
    IN  asked

ReceiveInv(s, vInv) ==
    /\ Ask(s, Asked(s, vInv)[Len(vInv)])
    /\ setInventoryKnown' = [setInventoryKnown EXCEPT ![s] = @ \cup Range(vInv)]
    /\ UNCHANGED <<chain, nAskedForBlocks, vInventoryToSend>>

\* Mutant: orphans that were accepted stay.
OrphansKept(accepted) == mapOrphanBlocks
OrphansLeft(accepted) == mapOrphanBlocks \ accepted

\* ProcessBlock of a block whose previous one is known, with the orphans that wait
\* for it: each that is heavier than the best becomes the best and is announced.
Accept(s, b) ==
    LET last == CHOOSE c \in {b} \cup mapOrphanBlocks :
                  b <= c /\ b + 1 .. c \subseteq mapOrphanBlocks /\ c + 1 \notin mapOrphanBlocks
        accepted == b .. last
        before == Later(b - 1, nHeight(pindexBest))
        becomeBest == [i \in 1 .. Later(last, before) - before |-> before + i]
    IN  /\ index' = index \cup accepted
        /\ mapOrphanBlocks' = OrphansLeft(accepted)
        /\ pindexBest' = IF before < last THEN last ELSE pindexBest
        /\ vInventoryToSend' = [t \in Server |->
             IF t \in connected THEN Pushed(vInventoryToSend[t], setInventoryKnown'[t], becomeBest)
             ELSE <<>>]
        /\ Ask(s, Erase(Asking(s), b))

\* Mutant: the sender of an orphan is not asked for what is missing.
KeepOrphan(s, b) ==
    /\ mapOrphanBlocks' = mapOrphanBlocks \cup {b}
    /\ Ask(s, Erase(Asking(s), b))
    /\ UNCHANGED <<index, pindexBest, vInventoryToSend>>
\* "Ask this guy to fill in what we're missing".
AddOrphanBlock(s, b) ==
    LET orphans == mapOrphanBlocks \cup {b}
    IN  /\ mapOrphanBlocks' = orphans
        /\ Ask(s, Erase(PushGetBlocks(Asking(s), pindexBest, GetOrphanRoot(orphans, b)), b))
        /\ UNCHANGED <<index, pindexBest, vInventoryToSend>>

ReceiveBlock(s, b) ==
    /\ setInventoryKnown' = [setInventoryKnown EXCEPT ![s] = @ \cup {b}]
    /\ \/ /\ AlreadyHave(b)
          /\ UNCHANGED <<chain, mapAlreadyAskedFor, mapAskFor, lastGetBlocks, vInventoryToSend, toServer>>
       \/ /\ ~AlreadyHave(b) /\ Prev(b) \in index
          /\ Accept(s, b)
       \/ /\ ~AlreadyHave(b) /\ Prev(b) \notin index
          /\ AddOrphanBlock(s, b)
    /\ UNCHANGED nAskedForBlocks

ClientReceive(s) ==
    /\ s \in greeted /\ toClient[s] # <<>>
    /\ toClient' = [toClient EXCEPT ![s] = Tail(@)]
    /\ LET m == Head(toClient[s])
       IN  \/ m.type = "inv" /\ ReceiveInv(s, m.vInv)
           \/ m.type = "block" /\ ReceiveBlock(s, m.block)
    /\ UNCHANGED <<server, net, fresh>>

\* SendMessages: blocks to announce, and the requests that are due.
ClientSend(s) ==
    LET vInv == Unsent(vInventoryToSend[s], setInventoryKnown[s])
        due == Kept(mapAskFor[s], {0} \X Block)
        wanted == Kept([i \in DOMAIN due |-> due[i][2]], Block \ Had)
    IN  /\ s \in greeted /\ (vInventoryToSend[s] # <<>> \/ due # <<>>)
        /\ setInventoryKnown' = [setInventoryKnown EXCEPT ![s] = @ \cup Range(vInv)]
        /\ vInventoryToSend' = [vInventoryToSend EXCEPT ![s] = <<>>]
        /\ mapAskFor' = [mapAskFor EXCEPT ![s] = Kept(@, (Nat \ {0}) \X Block)]
        /\ mapAlreadyAskedFor' =
             [b \in Block |-> IF b \in Range(wanted) THEN 0 ELSE mapAlreadyAskedFor[b]]
        /\ toServer' = [toServer EXCEPT ![s] = @ \o inv(vInv) \o getdata(wanted)]
        /\ UNCHANGED <<chain, nAskedForBlocks, lastGetBlocks, server, net, toClient, fresh>>

-----------------------------------------------------------------------------
(* A server. *)

\* The first block of a locator that the server has in its main chain, or genesis.
GetBlockIndex(s, locator) ==
    LET common == {h \in 0 .. Earlier(height[s], IF locator < 0 THEN Fork ELSE locator) :
                      h = 0 \/ nHeight(locator) - h \in vHave}
    IN  CHOOSE h \in common : \A c \in common : c <= h

\* "getblocks": what follows on it, up to hashStop or nLimit blocks, whether they are
\* sent or known.
ReceiveGetBlocks(s, m) ==
    LET begin == GetBlockIndex(s, m.locator)
        end == IF m.hashStop > begin THEN Earlier(m.hashStop - 1, height[s]) ELSE height[s]
        limited == begin + nLimit <= end
        sent == [i \in 1 .. (IF limited THEN nLimit ELSE end - begin) |-> begin + i]
    IN  /\ toSend' = [toSend EXCEPT ![s] = Pushed(@, known[s], sent)]
        /\ hashContinue' = [hashContinue EXCEPT ![s] = IF limited THEN begin + nLimit ELSE @]
        /\ UNCHANGED <<height, known, toClient>>

\* "getdata": the blocks, and after the last of a batch the best block, which "must
\* send even if redundant".
\* Mutant: as any other inventory.
BlocksAlone(s, vInv) ==
    /\ toClient' = [toClient EXCEPT ![s] = @ \o
                      [i \in DOMAIN vInv |-> [type |-> "block", block |-> vInv[i]]]]
    /\ UNCHANGED server
Answered(s, vInv) ==
    LET Continues(n) == vInv[n] = hashContinue[s] /\ \A j \in 1 .. n - 1 : vInv[j] # vInv[n]
        answered[n \in 0 .. Len(vInv)] ==
          IF n = 0 THEN toClient[s]
          ELSE answered[n - 1] \o <<[type |-> "block", block |-> vInv[n]]>>
                               \o inv(IF Continues(n) THEN <<height[s]>> ELSE <<>>)
    IN  answered
ReceiveGetData(s, vInv) ==
    /\ toClient' = [toClient EXCEPT ![s] = Answered(s, vInv)[Len(vInv)]]
    /\ hashContinue' = [hashContinue EXCEPT ![s] = IF @ \in Range(vInv) THEN 0 ELSE @]
    /\ UNCHANGED <<height, known, toSend>>

ServerReceive(s) ==
    /\ s \in greeted /\ toServer[s] # <<>>
    /\ toServer' = [toServer EXCEPT ![s] = Tail(@)]
    /\ LET m == Head(toServer[s])
       IN  \/ m.type = "getblocks" /\ ReceiveGetBlocks(s, m)
           \/ m.type = "getdata" /\ ReceiveGetData(s, m.vInv)
           \/ /\ m.type = "inv" /\ known' = [known EXCEPT ![s] = @ \cup Range(m.vInv)]
              /\ UNCHANGED <<height, toSend, hashContinue, toClient>>
    /\ UNCHANGED <<chain, asking, relay, net, fresh>>

ServerSend(s) ==
    LET vInv == Unsent(toSend[s], known[s])
    IN  /\ s \in greeted /\ toSend[s] # <<>>
        /\ toClient' = [toClient EXCEPT ![s] = @ \o inv(vInv)]
        /\ known' = [known EXCEPT ![s] = @ \cup Range(vInv)]
        /\ toSend' = [toSend EXCEPT ![s] = <<>>]
        /\ UNCHANGED <<chain, asking, relay, height, hashContinue, net, toServer, fresh>>

\* A server's chain grows, and it announces its new best block.
NewBlock(s) ==
    LET b == height[s] + 1
    IN  /\ s \in connected /\ b <= MaxHeight
        /\ height' = [height EXCEPT ![s] = b]
        /\ toSend' = [toSend EXCEPT ![s] = Pushed(@, known[s], <<b>>)]
        /\ fresh' = IF connected = {s} /\ nHeight(pindexBest) < b THEN fresh \cup {nHeight(pindexBest)} ELSE fresh
        /\ UNCHANGED <<chain, asking, relay, known, hashContinue, net, toServer, toClient>>

\* A connection ends, and with it all that concerns it.
Disconnect(s) ==
    /\ s \in connected \cap Leaving
    /\ connected' = connected \ {s} /\ greeted' = greeted \ {s}
    /\ toServer' = [toServer EXCEPT ![s] = <<>>] /\ toClient' = [toClient EXCEPT ![s] = <<>>]
    /\ mapAskFor' = [mapAskFor EXCEPT ![s] = <<>>]
    /\ lastGetBlocks' = [lastGetBlocks EXCEPT ![s] = <<>>]
    /\ setInventoryKnown' = [setInventoryKnown EXCEPT ![s] = {}]
    /\ vInventoryToSend' = [vInventoryToSend EXCEPT ![s] = <<>>]
    /\ known' = [known EXCEPT ![s] = {}] /\ toSend' = [toSend EXCEPT ![s] = <<>>]
    /\ hashContinue' = [hashContinue EXCEPT ![s] = 0]
    /\ UNCHANGED <<chain, nAskedForBlocks, mapAlreadyAskedFor, height, fresh>>

\* Two minutes pass.
Tick ==
    /\ mapAlreadyAskedFor' = [b \in Block |-> Later(mapAlreadyAskedFor[b] - 1, Never)]
    /\ mapAskFor' = [s \in Server |->
         [i \in DOMAIN mapAskFor[s] |-> <<Later(mapAskFor[s][i][1] - 1, 0), mapAskFor[s][i][2]>>]]
    /\ UNCHANGED <<chain, nAskedForBlocks, lastGetBlocks, relay, server, net, toServer, toClient, fresh>>

Work(s) == Version(s) \/ ClientReceive(s) \/ ClientSend(s) \/ ServerReceive(s) \/ ServerSend(s)
Next == Tick \/ \E s \in Server : Work(s) \/ NewBlock(s) \/ Disconnect(s)
Spec == Init /\ [][Next]_vars

\* Messages arrive, the message threads come round, and the clock goes on; nobody
\* has to find a block.
FairSpec ==
    /\ Spec /\ WF_vars(Tick)
    /\ \A s \in Server :
         /\ WF_vars(Version(s)) /\ WF_vars(ClientReceive(s)) /\ WF_vars(ClientSend(s))
         /\ WF_vars(ServerReceive(s)) /\ WF_vars(ServerSend(s))

-----------------------------------------------------------------------------
\* A block on its way from s: to be asked for, asked for, or sent.
Underway(s, b) ==
    \/ \E e \in Range(mapAskFor[s]) : e[2] = b
    \/ \E m \in Range(toServer[s]) : m.type = "getdata" /\ b \in Range(m.vInv)
    \/ \E m \in Range(toClient[s]) : m.type = "block" /\ m.block = b

\* What a peer has announced is asked of that peer until the client has it, whatever
\* AskFor and SendMessages leave out because it was asked of another (mapAlreadyAskedFor)
\* or had when its turn came (AlreadyHave).
NothingForgotten ==
    \A s \in Server : \A b \in setInventoryKnown[s] : AlreadyHave(b) \/ Underway(s, b)

\* "When this block is requested, we'll send an inv that'll make them getblocks the
\* next batch of inventory": as long as the client has shaken hands with one peer only,
\* it stops asking only at that peer's height, over its own branch, across the end
\* of every batch and with blocks that are found in the middle of one.
AtRest(s) == toServer[s] = <<>> /\ toClient[s] = <<>> /\ toSend[s] = <<>> /\ mapAskFor[s] = <<>>
DownloadCompletes ==
    \A s \in Server : connected = Server /\ greeted = {s} /\ AtRest(s) =>
        nHeight(pindexBest) >= height[s]

\* A peer that was asked is caught up with, unless a connection ends or another peer
\* sends something too: a block at the end of a batch that comes from another peer is not
\* requested of the first, which then never announces the next batch.
CatchesUp ==
    \A s \in Server :
        \/ <>(connected # Server \/ \E t \in Server \ {s} : toClient[t] # <<>>)
        \/ <>[](lastGetBlocks[s] # <<>> => nHeight(pindexBest) >= height[s])

\* A download that stopped because the peer it came from went away is taken up with the
\* next block that the peer that is left announces, if only to stop again.
AdvancesWithNewBlock == \A h \in Main : h \in fresh ~> nHeight(pindexBest) > h
=============================================================================
