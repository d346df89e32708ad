---------------------------- MODULE Connections -----------------------------
(***************************************************************************)
(* The life of the node objects (CNode) that the threads of net.cpp share: *)
(*   - the openers (ThreadOpenConnections, ThreadOpenAddedConnections and  *)
(*     ProcessOneShot) take a grant of semOutbound, connect, and move the  *)
(*     grant to the node;                                                  *)
(*   - the socket thread accepts, serves and disconnects nodes, and        *)
(*     deletes those that nobody refers to any more;                       *)
(*   - the message thread works on copies of vNodes.                       *)
(* Only cs_vNodes orders them: ConnectNode adds its reference to a node it *)
(* found, and moves its grant, without the lock.  There an access is a     *)
(* step of its own, and a lost update an outcome.                          *)
(***************************************************************************)
EXTENDS Integers, FiniteSets

CONSTANTS
    Opener,
    Address,
    MaxOutbound,    \* grants of semOutbound: MAX_OUTBOUND_CONNECTIONS
    MaxInbound,     \* "-maxconnections" less MAX_OUTBOUND_CONNECTIONS
    MaxNode         \* bound: node objects created

Node == 1 .. MaxNode
Thread == {"msghand", "net"}
NoNode == 0

ASSUME ConnectionsAssumption ==
    /\ IsFiniteSet(Opener) /\ MaxOutbound \in Nat /\ MaxInbound \in Nat /\ MaxNode \in Nat

VARIABLES
    value,              \* of semOutbound
    vNodes, vNodesDisconnected, nCreated, deleted,
    addr, nRefCount,
    fInbound, fNetworkNode, fDisconnect,        \* sets of nodes
    grantOutbound,      \* nodes that have a grant
    fHeld,              \* nodes whose nReleaseTime has not come
    pc, target, pnode, read, grant,             \* of the openers
    vNodesCopy,         \* of the two threads: the copy they work on
    removing, seesGrant,    \* the node the socket thread disconnects, under cs_vNodes
    overwritten,        \* ghost: nodes a reference of which was lost in a race
    unfinished,         \* ghost: disconnected before their opener was done
    raced               \* ghost: how often an opener saw a node without a grant when
                        \* another one was about to give it one

lists   == <<vNodes, vNodesDisconnected, nCreated, deleted, addr>>
flags   == <<fInbound, fNetworkNode, fDisconnect, fHeld>>
slots   == <<value, grantOutbound, grant>>
opening == <<pc, target, pnode, read>>
sock    == <<removing, seesGrant>>
ghosts  == <<overwritten, unfinished, raced>>
vars    == <<lists, nRefCount, flags, slots, opening, vNodesCopy, sock, ghosts>>

TypeOK ==
    /\ value \in Nat /\ nCreated \in 0 .. MaxNode
    /\ vNodes \subseteq 1 .. nCreated /\ deleted \subseteq 1 .. nCreated
    /\ vNodesDisconnected \subseteq 1 .. nCreated /\ removing \in 0 .. nCreated
    /\ vNodes \cap (vNodesDisconnected \cup deleted \cup {removing}) = {}
    /\ vNodesDisconnected \cap deleted = {}
    /\ addr \in [Node -> Address] /\ nRefCount \in [Node -> Int]
    /\ fInbound \subseteq Node /\ fNetworkNode \subseteq Node /\ fDisconnect \subseteq Node
    /\ grantOutbound \subseteq 1 .. nCreated /\ fHeld \subseteq Node
    /\ pc \in [Opener -> {"idle", "connect", "dial", "found", "move", "release", "assign", "flag"}]
    /\ target \in [Opener -> Address] /\ pnode \in [Opener -> 0 .. MaxNode]
    /\ read \in [Opener -> Int] /\ grant \subseteq Opener
    /\ vNodesCopy \in [Thread -> SUBSET Node] /\ seesGrant \in BOOLEAN
    /\ overwritten \subseteq Node /\ unfinished \subseteq Node /\ raced \in Nat

Init ==
    /\ value = MaxOutbound /\ grantOutbound = {} /\ grant = {}
    /\ vNodes = {} /\ vNodesDisconnected = {} /\ nCreated = 0 /\ deleted = {}
    /\ addr \in [Node -> Address] /\ nRefCount = [n \in Node |-> 0]
    /\ fInbound = {} /\ fNetworkNode = {} /\ fDisconnect = {} /\ fHeld = {}
    /\ pc = [o \in Opener |-> "idle"] /\ target \in [Opener -> Address]
    /\ pnode = [o \in Opener |-> NoNode] /\ read = [o \in Opener |-> 0]
    /\ vNodesCopy = [t \in Thread |-> {}]
    /\ removing = NoNode /\ seesGrant = FALSE
    /\ overwritten = {} /\ unfinished = {} /\ raced = 0

-----------------------------------------------------------------------------
Locked == removing # NoNode     \* the socket thread is inside cs_vNodes
FindNode(a) == {n \in vNodes : addr[n] = a}
Later(a, b) == IF a >= b THEN a ELSE b
GetRefCount(n) == Later(nRefCount[n], 0) + (IF n \in fHeld THEN 1 ELSE 0)

\* A node of address a with its first reference, in vNodes.
NewNode(a) ==
    /\ nCreated < MaxNode /\ nCreated' = nCreated + 1
    /\ addr' = [addr EXCEPT ![nCreated'] = a]
    /\ nRefCount' = [nRefCount EXCEPT ![nCreated'] = 1]
    /\ vNodes' = vNodes \cup {nCreated'}
    /\ UNCHANGED <<vNodesDisconnected, deleted>>

(* An opener. *)

\* OpenNetworkConnection: with a grant, if no node of that address is there.
Open(o, a) ==
    /\ pc[o] = "idle" /\ ~Locked /\ value > 0 /\ FindNode(a) = {}
    /\ value' = value - 1 /\ grant' = grant \cup {o}
    /\ pc' = [pc EXCEPT ![o] = "connect"] /\ target' = [target EXCEPT ![o] = a]
    /\ UNCHANGED <<lists, nRefCount, flags, grantOutbound, pnode, read, vNodesCopy, sock, ghosts>>

\* ConnectNode: "Look for an existing connection".
Connect(o) ==
    /\ pc[o] = "connect" /\ ~Locked
    /\ \/ /\ FindNode(target[o]) = {}
          /\ pc' = [pc EXCEPT ![o] = "dial"] /\ UNCHANGED <<pnode, read>>
       \/ \E n \in FindNode(target[o]) :
            /\ pc' = [pc EXCEPT ![o] = "found"]
            /\ pnode' = [pnode EXCEPT ![o] = n] /\ read' = [read EXCEPT ![o] = nRefCount[n]]
    /\ UNCHANGED <<lists, nRefCount, flags, slots, target, vNodesCopy, sock, ghosts>>

\* Its AddRef holds no lock: when the count has changed since, one of the two is lost.
AddRef(o) ==
    LET n == pnode[o]
        counts == nRefCount[n] + 1
        outcomes == IF nRefCount[n] = read[o] THEN {counts}
                    ELSE {counts, nRefCount[n], read[o] + 1}
    IN  /\ pc[o] = "found" /\ pc' = [pc EXCEPT ![o] = "move"]
        /\ \E c \in outcomes :
             /\ nRefCount' = [nRefCount EXCEPT ![n] = c]
             /\ overwritten' = IF c < counts THEN overwritten \cup {n} ELSE overwritten
        /\ read' = [read EXCEPT ![o] = 0]
        /\ UNCHANGED <<lists, flags, slots, target, pnode, vNodesCopy, sock, unfinished, raced>>

\* ConnectSocket fails, or there is a new node.
DialFails(o) ==
    /\ pc[o] = "dial" /\ pc' = [pc EXCEPT ![o] = "idle"]
    /\ value' = value + 1 /\ grant' = grant \ {o}
    /\ UNCHANGED <<lists, nRefCount, flags, grantOutbound, target, pnode, read, vNodesCopy, sock, ghosts>>
Dial(o) ==
    /\ pc[o] = "dial" /\ ~Locked /\ NewNode(target[o])
    /\ pc' = [pc EXCEPT ![o] = "move"] /\ pnode' = [pnode EXCEPT ![o] = nCreated']
    /\ UNCHANGED <<flags, slots, target, read, vNodesCopy, sock, ghosts>>

\* grantOutbound->MoveTo(pnode->grantOutbound): the node's own grant is looked at and, if
\* there is one, given back; then it gets the opener's.  No lock is held.
Assigning == {o \in Opener : pc[o] = "assign"}
Receiving == {pnode[o] : o \in Assigning}       \* nodes that are about to get a grant
\* Mutant: what the node has is not given back.
TestNothing(o) ==
    /\ pc[o] = "move" /\ pc' = [pc EXCEPT ![o] = "assign"]
    /\ UNCHANGED <<lists, nRefCount, flags, slots, target, pnode, read, vNodesCopy, sock, ghosts>>
TestGrant(o) ==
    /\ pc[o] = "move"
    /\ \/ /\ pnode[o] \in grantOutbound
          /\ pc' = [pc EXCEPT ![o] = "release"] /\ raced' = raced
       \/ /\ pnode[o] \notin grantOutbound
          /\ pc' = [pc EXCEPT ![o] = "assign"]
          /\ raced' = IF pnode[o] \in Receiving THEN raced + 1 ELSE raced
    /\ UNCHANGED <<lists, nRefCount, flags, slots, target, pnode, read, vNodesCopy, sock,
                   overwritten, unfinished>>
ReleaseGrant(o) ==
    /\ pc[o] = "release" /\ pc' = [pc EXCEPT ![o] = "assign"]
    /\ value' = value + 1 /\ grantOutbound' = grantOutbound \ {pnode[o]}
    /\ UNCHANGED <<lists, nRefCount, flags, grant, target, pnode, read, vNodesCopy, sock, ghosts>>
MoveTo(o) ==
    /\ pc[o] = "assign" /\ pc' = [pc EXCEPT ![o] = "flag"]
    /\ grantOutbound' = grantOutbound \cup {pnode[o]} /\ grant' = grant \ {o}
    /\ UNCHANGED <<lists, nRefCount, flags, value, target, pnode, read, vNodesCopy, sock, ghosts>>

Flag(o) ==
    /\ pc[o] = "flag" /\ pc' = [pc EXCEPT ![o] = "idle"]
    /\ fNetworkNode' = fNetworkNode \cup {pnode[o]}
    /\ pnode' = [pnode EXCEPT ![o] = NoNode]
    /\ UNCHANGED <<lists, nRefCount, fInbound, fDisconnect, fHeld, slots, target, read, vNodesCopy, sock, ghosts>>

-----------------------------------------------------------------------------
(* The message thread and the socket thread, on a copy of vNodes. *)

\* Mutant: the copy is taken without references.
CopyPointers(t) ==
    /\ ~Locked /\ vNodesCopy[t] = {} /\ vNodes # {}
    /\ vNodesCopy' = [vNodesCopy EXCEPT ![t] = vNodes]
    /\ UNCHANGED <<lists, nRefCount, flags, slots, opening, sock, ghosts>>
Copy(t) ==
    /\ ~Locked /\ vNodesCopy[t] = {} /\ vNodes # {}
    /\ vNodesCopy' = [vNodesCopy EXCEPT ![t] = vNodes]
    /\ nRefCount' = [n \in Node |-> IF n \in vNodes THEN nRefCount[n] + 1 ELSE nRefCount[n]]
    /\ UNCHANGED <<lists, flags, slots, opening, sock, ghosts>>

\* A peer misbehaves, its socket closes, nothing comes for too long.
Fail(t, n) ==
    /\ n \in vNodesCopy[t] \ fDisconnect /\ fDisconnect' = fDisconnect \cup {n}
    /\ UNCHANGED <<lists, nRefCount, fInbound, fNetworkNode, fHeld, slots, opening, vNodesCopy, sock, ghosts>>

Release(t) ==
    /\ ~Locked /\ vNodesCopy[t] # {}
    /\ vNodesCopy' = [vNodesCopy EXCEPT ![t] = {}]
    /\ nRefCount' = [n \in Node |-> IF n \in vNodesCopy[t] THEN nRefCount[n] - 1 ELSE nRefCount[n]]
    /\ UNCHANGED <<lists, flags, slots, opening, sock, ghosts>>

(* The rest of the socket thread's loop. *)

Accept(a) ==
    /\ ~Locked /\ vNodesCopy["net"] = {}
    /\ Cardinality(vNodes \cap fInbound) < MaxInbound
    /\ NewNode(a) /\ fInbound' = fInbound \cup {nCreated'}
    /\ UNCHANGED <<fNetworkNode, fDisconnect, fHeld, slots, opening, vNodesCopy, sock, ghosts>>

\* "Disconnect unused nodes": out of vNodes, and "release outbound grant (if any)".
Remove(n) ==
    /\ ~Locked /\ vNodesCopy["net"] = {} /\ n \in vNodes
    /\ n \in fDisconnect \/ GetRefCount(n) <= 0
    /\ vNodes' = vNodes \ {n} /\ removing' = n /\ seesGrant' = (n \in grantOutbound)
    /\ unfinished' = IF \E o \in Opener : pnode[o] = n THEN unfinished \cup {n} ELSE unfinished
    /\ UNCHANGED <<vNodesDisconnected, nCreated, deleted, addr, nRefCount, flags, slots,
                   opening, vNodesCopy, overwritten, raced>>
Retire ==
    LET n == removing
    IN  /\ Locked /\ removing' = NoNode /\ seesGrant' = FALSE
        /\ value' = IF seesGrant THEN value + 1 ELSE value
        /\ grantOutbound' = IF seesGrant THEN grantOutbound \ {n} ELSE grantOutbound
        /\ fDisconnect' = fDisconnect \cup {n} /\ fHeld' = fHeld \cup {n}
        /\ nRefCount' = IF n \in fNetworkNode \cup fInbound
                        THEN [nRefCount EXCEPT ![n] = @ - 1] ELSE nRefCount
        /\ vNodesDisconnected' = vNodesDisconnected \cup {n}
        /\ UNCHANGED <<vNodes, nCreated, deleted, addr, fInbound, fNetworkNode, grant, opening,
                       vNodesCopy, ghosts>>

\* Its nReleaseTime comes, fifteen minutes later: an opener that found it is done by
\* then, a thread that works on a copy need not be.
Expire(n) ==
    /\ n \in fHeld /\ \A o \in Opener : pnode[o] # n
    /\ fHeld' = fHeld \ {n}
    /\ UNCHANGED <<lists, nRefCount, fInbound, fNetworkNode, fDisconnect, slots, opening,
                   vNodesCopy, sock, ghosts>>

\* Mutant: the list of disconnected nodes keeps it.
ListKept(n) == vNodesDisconnected
ListWithout(n) == vNodesDisconnected \ {n}
\* "wait until threads are done using it"; the grant goes with the object.
Delete(n) ==
    /\ ~Locked /\ vNodesCopy["net"] = {}
    /\ n \in vNodesDisconnected /\ GetRefCount(n) <= 0
    /\ vNodesDisconnected' = ListWithout(n) /\ deleted' = deleted \cup {n}
    /\ value' = IF n \in grantOutbound THEN value + 1 ELSE value
    /\ grantOutbound' = grantOutbound \ {n}
    /\ UNCHANGED <<vNodes, nCreated, addr, nRefCount, flags, grant, opening, vNodesCopy, sock, ghosts>>

Step(o) == Connect(o) \/ AddRef(o) \/ DialFails(o) \/ Dial(o) \/ TestGrant(o)
           \/ ReleaseGrant(o) \/ MoveTo(o) \/ Flag(o)
Next ==
    \/ \E o \in Opener : Step(o) \/ \E a \in Address : Open(o, a)
    \/ \E t \in Thread : Copy(t) \/ Release(t) \/ \E n \in Node : Fail(t, n)
    \/ \E a \in Address : Accept(a)
    \/ \E n \in Node : Remove(n) \/ Expire(n) \/ Delete(n)
    \/ Retire
Spec == Init /\ [][Next]_vars

-----------------------------------------------------------------------------
\* No thread works on a node that was deleted, however long it takes, unless the count
\* of that node lost a reference to ConnectNode's AddRef without the lock.
UsedIsAlive ==
    \A n \in deleted \ overwritten :
      /\ \A t \in Thread : n \notin vNodesCopy[t]
      /\ \A o \in Opener : pnode[o] # n

\* Every grant is free, with an opener, or with a node that has it or is about to get it
\* and is connected or was disconnected before its opener was done.  A grant is lost only
\* where two openers found a node without one, one grant each time; there is one too many
\* only where a node was disconnected under its openers' hands, one for each such node
\* however many openers and the socket thread release at once.
Slots == value + Cardinality(grant \ Assigning)
         + Cardinality((grantOutbound \cap (vNodes \cup {removing} \cup unfinished)) \cup Receiving)
SlotsConserved == Slots + raced \in MaxOutbound .. MaxOutbound + Cardinality(unfinished)
=============================================================================
