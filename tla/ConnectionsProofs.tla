------------------------- MODULE ConnectionsProofs --------------------------
(***************************************************************************)
(* Proofs about the node objects for every number of openers, addresses,   *)
(* grants and nodes: their types, that no thread works on a deleted one,   *)
(* and how many grants of semOutbound the races can lose or double.        *)
(***************************************************************************)
EXTENDS Connections, TLAPS, FiniteSetTheorems

-----------------------------------------------------------------------------
(* Types. *)

\* The node that is being disconnected is in no list.
Apart == removing \notin vNodesDisconnected \cup deleted

\* An opener has a node from when it found or made it.
OpenersPoint ==
    \A o \in Opener : /\ pnode[o] \in 0 .. nCreated
                      /\ pnode[o] = NoNode <=> pc[o] \in {"idle", "connect", "dial"}

TypeInv == TypeOK /\ Apart /\ OpenersPoint

LEMMA TypeInit == Init => TypeInv
<1> SUFFICES ASSUME Init PROVE TypeInv
  OBVIOUS
<1> USE ConnectionsAssumption DEF Init
<1>2. /\ nRefCount \in [Node -> Int] /\ vNodesCopy \in [Thread -> SUBSET Node]
      /\ pc \in [Opener -> {"idle", "connect", "dial", "found", "move", "release", "assign", "flag"}]
      /\ pnode \in [Opener -> 0 .. MaxNode] /\ read \in [Opener -> Int]
  BY DEF NoNode
<1>3. value \in Nat /\ nCreated \in 0 .. MaxNode
  OBVIOUS
<1>4. TypeOK
  <2>1. /\ vNodes \subseteq 1 .. nCreated /\ deleted \subseteq 1 .. nCreated
        /\ vNodesDisconnected \subseteq 1 .. nCreated /\ removing \in 0 .. nCreated
        /\ grantOutbound \subseteq 1 .. nCreated
    BY DEF NoNode
  <2> QED
    BY <1>2, <1>3, <2>1, Zenon DEF TypeOK, NoNode
<1> QED
  BY <1>4 DEF TypeInv, Apart, OpenersPoint, NoNode

LEMMA TypeNewNode ==
    ASSUME TypeInv, NEW a \in Address, NewNode(a)
    PROVE  /\ nCreated' = nCreated + 1 /\ nCreated' \in Node
           /\ vNodes' = vNodes \cup {nCreated'}
           /\ addr' \in [Node -> Address] /\ nRefCount' \in [Node -> Int]
           /\ nRefCount' = [nRefCount EXCEPT ![nCreated'] = 1]
           /\ UNCHANGED <<vNodesDisconnected, deleted>>
  BY ConnectionsAssumption DEF TypeInv, TypeOK, NewNode, Node

LEMMA TypeOfOpeners ==
    ASSUME TypeInv, NEW o \in Opener, Step(o) \/ \E a \in Address : Open(o, a)
    PROVE  TypeInv'
<1> USE DEF TypeInv, TypeOK, Apart, OpenersPoint, NoNode, lists, flags, slots, opening, sock, ghosts
<1>0. nCreated \in 0 .. MaxNode /\ MaxNode \in Nat /\ 1 .. nCreated \subseteq Node
  BY ConnectionsAssumption DEF Node
<1>1. CASE \E a \in Address : Open(o, a)
  BY <1>1 DEF Open
<1>2. CASE Connect(o)
  <2>1. CASE FindNode(target[o]) = {} /\ pc' = [pc EXCEPT ![o] = "dial"] /\ UNCHANGED <<pnode, read>>
    BY <1>2, <2>1 DEF Connect
  <2>2. CASE \E n \in FindNode(target[o]) :
               /\ pc' = [pc EXCEPT ![o] = "found"]
               /\ pnode' = [pnode EXCEPT ![o] = n] /\ read' = [read EXCEPT ![o] = nRefCount[n]]
    <3>1. PICK n \in 1 .. nCreated :
               /\ pc' = [pc EXCEPT ![o] = "found"]
               /\ pnode' = [pnode EXCEPT ![o] = n] /\ read' = [read EXCEPT ![o] = nRefCount[n]]
      BY <2>2 DEF FindNode
    <3>2. n \in Node /\ n \in 0 .. nCreated /\ n \in 0 .. MaxNode /\ n # 0
      BY <1>0 DEF Node
    <3> QED
      BY <1>2, <3>1, <3>2 DEF Connect
  <2> QED
    BY <1>2, <2>1, <2>2 DEF Connect
<1>3. CASE AddRef(o)
  <2>1. pnode[o] \in Node
    <3>1. pc[o] = "found"
      BY <1>3 DEF AddRef
    <3>2. pnode[o] \in 0 .. nCreated /\ pnode[o] # 0
      BY <3>1
    <3> QED
      BY <1>0, <3>2 DEF Node
  <2>2. nRefCount' \in [Node -> Int] /\ overwritten' \subseteq Node
    BY <1>3, <2>1 DEF AddRef
  <2> QED
    BY <1>3, <2>2 DEF AddRef
<1>4. CASE DialFails(o)
  BY <1>4 DEF DialFails
<1>5. CASE Dial(o)
  <2>1. target[o] \in Address /\ NewNode(target[o])
    BY <1>5 DEF Dial
  <2>2. /\ nCreated' = nCreated + 1 /\ nCreated' \in Node /\ vNodes' = vNodes \cup {nCreated'}
        /\ addr' \in [Node -> Address] /\ nRefCount' \in [Node -> Int]
        /\ UNCHANGED <<vNodesDisconnected, deleted>>
    BY <2>1, TypeNewNode
  <2>3. nCreated' \in 0 .. MaxNode
    BY <1>0, <2>2 DEF Node
  <2>4. 1 .. nCreated' = 1 .. nCreated \cup {nCreated'} /\ nCreated' \notin 1 .. nCreated
    BY <1>0, <2>2
  <2> QED
    BY <1>0, <1>5, <2>2, <2>3, <2>4 DEF Dial, Locked
<1>6. CASE TestGrant(o)
  BY <1>6 DEF TestGrant
<1>7. CASE MoveTo(o)
  <2>1. pnode[o] \in 1 .. nCreated
    BY <1>0, <1>7 DEF MoveTo
  <2> QED
    BY <1>7, <2>1 DEF MoveTo
<1>8. CASE Flag(o)
  <2>1. pnode[o] \in Node /\ 0 \in 0 .. nCreated /\ 0 \in 0 .. MaxNode
    BY <1>0, <1>8 DEF Flag
  <2> QED
    BY <1>8, <2>1 DEF Flag
<1>9. CASE ReleaseGrant(o)
  <2>1. value' = value + 1 /\ value \in Nat
    BY <1>9 DEF ReleaseGrant
  <2>2. grantOutbound' \subseteq 1 .. nCreated
    BY <1>9 DEF ReleaseGrant
  <2> QED
    BY <1>9, <2>1, <2>2 DEF ReleaseGrant
<1> QED
  BY <1>1, <1>2, <1>3, <1>4, <1>5, <1>6, <1>7, <1>8, <1>9 DEF Step

LEMMA TypeOfThreads ==
    ASSUME TypeInv, NEW t \in Thread,
           Copy(t) \/ Release(t) \/ (\E n \in Node : Fail(t, n))
    PROVE  TypeInv'
<1> USE DEF TypeInv, TypeOK, Apart, OpenersPoint, NoNode, lists, flags, slots, opening, sock, ghosts
<1>0. 1 .. nCreated \subseteq Node
  BY ConnectionsAssumption DEF Node
<1>1. CASE Copy(t)
  BY <1>0, <1>1 DEF Copy
<1>2. CASE Release(t)
  BY <1>2 DEF Release
<1>3. CASE \E n \in Node : Fail(t, n)
  BY <1>3 DEF Fail
<1> QED
  BY <1>1, <1>2, <1>3

\* What fHaveGrant gives the socket thread when it releases the grant of the node it removed
\* (net.cpp:676, sync.h:177) is a truth value.
LEMMA RemoveSees ==
    ASSUME NEW n \in Node, Remove(n)
    PROVE  seesGrant' \in BOOLEAN
<1>1. seesGrant' = (n \in grantOutbound)
  BY Zenon DEF Remove
<1>2. (n \in grantOutbound) \in BOOLEAN
  OBVIOUS
<1> QED
  BY <1>1, <1>2, Zenon

LEMMA TypeOfSockets ==
    ASSUME TypeInv,
           \/ \E a \in Address : Accept(a)
           \/ \E n \in Node : Remove(n) \/ Expire(n) \/ Delete(n)
           \/ Retire
    PROVE  TypeInv'
<1> USE DEF TypeInv, TypeOK, Apart, OpenersPoint, NoNode, lists, flags, slots, opening, sock, ghosts
<1>0. nCreated \in 0 .. MaxNode /\ MaxNode \in Nat /\ 1 .. nCreated \subseteq Node
  BY ConnectionsAssumption DEF Node
<1>1. CASE \E a \in Address : Accept(a)
  <2>1. PICK a \in Address : Accept(a)
    BY <1>1
  <2>2. /\ nCreated' = nCreated + 1 /\ nCreated' \in Node /\ vNodes' = vNodes \cup {nCreated'}
        /\ addr' \in [Node -> Address] /\ nRefCount' \in [Node -> Int]
        /\ UNCHANGED <<vNodesDisconnected, deleted>>
    BY <2>1, TypeNewNode DEF Accept
  <2>3. nCreated' \in 0 .. MaxNode
    BY <1>0, <2>2 DEF Node
  <2>4. 1 .. nCreated' = 1 .. nCreated \cup {nCreated'} /\ nCreated' \notin 1 .. nCreated
    BY <1>0, <2>2
  <2> QED
    BY <1>0, <2>1, <2>2, <2>3, <2>4 DEF Accept, Locked
<1>2. ASSUME NEW n \in Node, Remove(n) PROVE TypeInv'
  <2>1. n \in 1 .. nCreated /\ n # 0
    BY <1>2 DEF Remove
  <2>2. seesGrant' \in BOOLEAN
    BY <1>2, RemoveSees
  <2>3. unfinished' \subseteq Node
    BY <1>2 DEF Remove
  <2> QED
    BY <1>2, <2>1, <2>2, <2>3 DEF Remove, Locked
<1>3. ASSUME NEW n \in Node, Expire(n) PROVE TypeInv'
  BY <1>3 DEF Expire
<1>4. ASSUME NEW n \in Node, Delete(n) PROVE TypeInv'
  <2>1. value' \in Nat /\ grantOutbound' \subseteq 1 .. nCreated
    BY <1>4 DEF Delete
  <2> QED
    BY <1>4, <2>1 DEF Delete, ListWithout, Locked
<1>5. CASE Retire
  <2>1. removing \in 1 .. nCreated /\ removing \in Node
    BY <1>0, <1>5 DEF Retire, Locked
  <2>2. value' \in Nat /\ grantOutbound' \subseteq 1 .. nCreated /\ nRefCount' \in [Node -> Int]
    BY <1>5, <2>1 DEF Retire
  <2>3. /\ removing' = 0 /\ vNodesDisconnected' = vNodesDisconnected \cup {removing}
        /\ fDisconnect' \subseteq Node /\ fHeld' \subseteq Node /\ seesGrant' \in BOOLEAN
        /\ UNCHANGED <<vNodes, nCreated, deleted, addr, fInbound, fNetworkNode, grant, opening,
                       vNodesCopy, ghosts>>
    BY <1>5, <2>1 DEF Retire
  <2>4. TypeOK' /\ Apart'
    BY <2>1, <2>2, <2>3
  <2> QED
    BY <2>3, <2>4
<1> QED
  BY <1>1, <1>2, <1>3, <1>4, <1>5

LEMMA TypeStutter == ASSUME TypeInv, UNCHANGED vars PROVE TypeInv'
  BY DEF TypeInv, TypeOK, Apart, OpenersPoint, vars, lists, flags, slots, opening, sock, ghosts

LEMMA TypeNext == ASSUME TypeInv, [Next]_vars PROVE TypeInv'
  BY TypeOfOpeners, TypeOfThreads, TypeOfSockets, TypeStutter DEF Next

\* Every variable keeps its type, and no node is in two of the states connected, being
\* disconnected, disconnected and deleted, through all interleavings of net.cpp's threads.
THEOREM ConnectionsTypeCorrect == Spec => []TypeOK
<1>1. Spec => []TypeInv
  BY TypeInit, TypeNext, PTL DEF Spec
<1> QED
  BY <1>1, PTL DEF TypeInv

-----------------------------------------------------------------------------
(* Nodes in use. *)

\* The references that are owed for n: the copies that hold it, and its place in vNodes.
One(b) == IF b THEN 1 ELSE 0
Uses(n) == One(n \in vNodesCopy["msghand"]) + One(n \in vNodesCopy["net"])
             + One(n \in vNodes \cup {removing})

CopiesExist == \A t \in Thread : vNodesCopy[t] \subseteq 1 .. nCreated
PnodeIsHeld == \A o \in Opener : pnode[o] # NoNode => pnode[o] \in vNodes \cup {removing} \cup fHeld
HeldIsKept  == fHeld \cap deleted = {}
Counted     == \A n \in Node \ overwritten : Uses(n) <= nRefCount[n]

UsesInv == TypeInv /\ CopiesExist /\ PnodeIsHeld /\ HeldIsKept /\ Counted /\ UsedIsAlive

LEMMA UsesInit == Init => UsesInv
<1> SUFFICES ASSUME Init PROVE UsesInv
  OBVIOUS
<1>1. TypeInv
  BY TypeInit
<1>2. CopiesExist /\ PnodeIsHeld /\ HeldIsKept /\ UsedIsAlive
  BY DEF Init, CopiesExist, PnodeIsHeld, HeldIsKept, UsedIsAlive
<1>3. Counted
  BY DEF Init, Counted, Uses, One, Node, NoNode, Thread
<1> QED
  BY <1>1, <1>2, <1>3 DEF UsesInv

\* A new node is in vNodes, with one reference.
LEMMA NewNodeIsCounted ==
    ASSUME UsesInv, NEW a \in Address, NewNode(a), UNCHANGED <<vNodesCopy, removing, overwritten>>
    PROVE  Counted'
<1>1. /\ nCreated' = nCreated + 1 /\ nCreated' \in Node /\ vNodes' = vNodes \cup {nCreated'}
      /\ nRefCount' = [nRefCount EXCEPT ![nCreated'] = 1]
  BY TypeNewNode DEF UsesInv
<1>2. nCreated \in Nat /\ nCreated' \notin 1 .. nCreated /\ removing # nCreated'
      /\ nCreated' \notin vNodesCopy["msghand"] /\ nCreated' \notin vNodesCopy["net"]
  BY <1>1, ConnectionsAssumption DEF UsesInv, TypeInv, TypeOK, CopiesExist, Thread
<1> SUFFICES ASSUME NEW n \in Node \ overwritten PROVE Uses(n)' <= nRefCount'[n]
  BY DEF Counted
<1>3. CASE n = nCreated'
  BY <1>1, <1>2, <1>3 DEF Uses, One, UsesInv, TypeInv, TypeOK
<1>4. CASE n # nCreated'
  <2>1. Uses(n)' = Uses(n) /\ nRefCount'[n] = nRefCount[n]
    BY <1>1, <1>4 DEF Uses, One, UsesInv, TypeInv, TypeOK
  <2> QED
    BY <2>1 DEF UsesInv, Counted
<1> QED
  BY <1>3, <1>4

LEMMA UsesOfOpeners ==
    ASSUME UsesInv, NEW o \in Opener, Step(o) \/ \E a \in Address : Open(o, a)
    PROVE  UsesInv'
<1>0. TypeInv /\ TypeInv'
  BY TypeOfOpeners DEF UsesInv
<1> USE DEF UsesInv, CopiesExist, PnodeIsHeld, HeldIsKept, UsedIsAlive,
            NoNode, lists, flags, slots, opening, sock, ghosts
<1>1. CASE \E a \in Address : Open(o, a)
  BY <1>0, <1>1 DEF Open, Counted, Uses, One
<1>2. CASE Connect(o)
  <2>1. PnodeIsHeld' /\ UsedIsAlive'
    BY <1>0, <1>2 DEF Connect, FindNode, TypeInv, TypeOK
  <2> QED
    BY <1>0, <1>2, <2>1 DEF Connect, Counted, Uses, One
<1>3. CASE AddRef(o)
  <2>1. \A n \in Node \ overwritten' : nRefCount[n] <= nRefCount'[n] /\ n \notin overwritten
    BY <1>0, <1>3 DEF AddRef, TypeInv, TypeOK
  <2>2. Counted'
    BY <1>0, <1>3, <2>1 DEF AddRef, Counted, Uses, One, TypeInv, TypeOK
  <2> QED
    BY <1>0, <1>3, <2>1, <2>2 DEF AddRef, TypeInv, TypeOK, Node
<1>4. CASE DialFails(o)
  BY <1>0, <1>4 DEF DialFails, Counted, Uses, One
<1>5. CASE Dial(o)
  <2>1. target[o] \in Address /\ NewNode(target[o])
    BY <1>0, <1>5 DEF Dial, TypeInv, TypeOK
  <2>2. Counted'
    BY <1>5, <2>1, NewNodeIsCounted DEF Dial
  <2>3. /\ nCreated' = nCreated + 1 /\ nCreated' \in Node /\ vNodes' = vNodes \cup {nCreated'}
        /\ UNCHANGED <<vNodesDisconnected, deleted>>
    BY <1>0, <2>1, TypeNewNode
  <2>4. CopiesExist' /\ PnodeIsHeld' /\ HeldIsKept'
    BY <1>0, <1>5, <2>3 DEF Dial, TypeInv, TypeOK
  <2>5. UsedIsAlive'
    BY <1>0, <1>5, <2>3 DEF Dial, TypeInv, TypeOK
  <2> QED
    BY <1>0, <2>2, <2>4, <2>5
<1>6. CASE TestGrant(o)
  BY <1>0, <1>6 DEF TestGrant, Counted, Uses, One
<1>7. CASE MoveTo(o)
  BY <1>0, <1>7 DEF MoveTo, Counted, Uses, One
<1>8. CASE Flag(o)
  <2>1. PnodeIsHeld' /\ UsedIsAlive'
    BY <1>0, <1>8 DEF Flag, TypeInv, TypeOK
  <2> QED
    BY <1>0, <1>8, <2>1 DEF Flag, Counted, Uses, One
<1>9. CASE ReleaseGrant(o)
  BY <1>0, <1>9 DEF ReleaseGrant, Counted, Uses, One
<1> QED
  BY <1>1, <1>2, <1>3, <1>4, <1>5, <1>6, <1>7, <1>8, <1>9 DEF Step

LEMMA UsesOfThreads ==
    ASSUME UsesInv, NEW t \in Thread,
           Copy(t) \/ Release(t) \/ (\E n \in Node : Fail(t, n))
    PROVE  UsesInv'
<1>0. TypeInv /\ TypeInv'
  BY TypeOfThreads DEF UsesInv
<1> USE DEF UsesInv, CopiesExist, PnodeIsHeld, HeldIsKept, UsedIsAlive,
            NoNode, lists, flags, slots, opening, sock, ghosts
<1>1. CASE Copy(t)
  <2>1. Counted'
    <3> SUFFICES ASSUME NEW n \in Node \ overwritten PROVE Uses(n)' <= nRefCount'[n]
      BY <1>1 DEF Copy, Counted
    <3>1. Uses(n) <= nRefCount[n] /\ nRefCount[n] \in Int
      BY <1>0 DEF Counted, TypeInv, TypeOK
    <3>2. nRefCount'[n] = IF n \in vNodes THEN nRefCount[n] + 1 ELSE nRefCount[n]
      BY <1>1 DEF Copy
    <3>3. /\ vNodesCopy[t] = {} /\ vNodesCopy' = [vNodesCopy EXCEPT ![t] = vNodes]
          /\ UNCHANGED <<vNodes, removing>>
      BY <1>1 DEF Copy
    <3>4. Uses(n)' = IF n \in vNodes THEN Uses(n) + 1 ELSE Uses(n)
      BY <1>0, <3>3 DEF Uses, One, TypeInv, TypeOK, Thread
    <3> QED
      BY <3>1, <3>2, <3>4 DEF Uses, One
  <2> QED
    BY <1>0, <1>1, <2>1 DEF Copy, TypeInv, TypeOK
<1>2. CASE Release(t)
  <2>1. Counted'
    <3> SUFFICES ASSUME NEW n \in Node \ overwritten PROVE Uses(n)' <= nRefCount'[n]
      BY <1>2 DEF Release, Counted
    <3>1. Uses(n) <= nRefCount[n] /\ nRefCount[n] \in Int
      BY <1>0 DEF Counted, TypeInv, TypeOK
    <3>2. nRefCount'[n] = IF n \in vNodesCopy[t] THEN nRefCount[n] - 1 ELSE nRefCount[n]
      BY <1>2 DEF Release
    <3>3. vNodesCopy' = [vNodesCopy EXCEPT ![t] = {}] /\ UNCHANGED <<vNodes, removing>>
      BY <1>2 DEF Release
    <3>4. Uses(n)' = IF n \in vNodesCopy[t] THEN Uses(n) - 1 ELSE Uses(n)
      BY <1>0, <3>3 DEF Uses, One, TypeInv, TypeOK, Thread
    <3> QED
      BY <3>1, <3>2, <3>4 DEF Uses, One
  <2> QED
    BY <1>0, <1>2, <2>1 DEF Release, TypeInv, TypeOK
<1>3. CASE \E n \in Node : Fail(t, n)
  BY <1>0, <1>3 DEF Fail, Counted, Uses, One
<1> QED
  BY <1>1, <1>2, <1>3

\* What is deleted has no reference left that was counted.
LEMMA DeletedIsUnused ==
    ASSUME UsesInv, NEW n \in Node, Delete(n)
    PROVE  /\ n \notin overwritten => \A t \in Thread : n \notin vNodesCopy[t]
           /\ \A o \in Opener : pnode[o] # n
<1>1. n \in vNodesDisconnected /\ n \notin fHeld /\ nRefCount[n] <= 0 /\ n # 0
  <2>1. nRefCount[n] \in Int /\ n # 0
    <3>1. nRefCount \in [Node -> Int]
      BY DEF UsesInv, TypeInv, TypeOK
    <3> QED
      BY <3>1 DEF Node
  <2>2. n \in vNodesDisconnected /\ GetRefCount(n) <= 0
    BY DEF Delete
  <2> QED
    BY <2>1, <2>2 DEF GetRefCount, Later
<1>2. n \notin vNodes \cup {removing}
  BY <1>1 DEF UsesInv, TypeInv, TypeOK, Apart
<1>3. n \notin overwritten => Uses(n) <= 0
  BY <1>1 DEF UsesInv, Counted, TypeInv, TypeOK, Uses, One
<1>4. n \notin overwritten => \A t \in Thread : n \notin vNodesCopy[t]
  BY <1>3 DEF Uses, One, Thread
<1>5. \A o \in Opener : pnode[o] # n
  BY <1>1, <1>2 DEF UsesInv, PnodeIsHeld, NoNode
<1> QED
  BY <1>4, <1>5

LEMMA UsesOfSockets ==
    ASSUME UsesInv,
           \/ \E a \in Address : Accept(a)
           \/ \E n \in Node : Remove(n) \/ Expire(n) \/ Delete(n)
           \/ Retire
    PROVE  UsesInv'
<1>0. TypeInv /\ TypeInv'
  BY TypeOfSockets DEF UsesInv
<1> USE DEF UsesInv, CopiesExist, PnodeIsHeld, HeldIsKept, UsedIsAlive,
            NoNode, lists, flags, slots, opening, sock, ghosts
<1>1. CASE \E a \in Address : Accept(a)
  <2>1. PICK a \in Address : Accept(a)
    BY <1>1
  <2>2. NewNode(a) /\ Counted'
    BY <2>1, NewNodeIsCounted DEF Accept
  <2>3. /\ nCreated' = nCreated + 1 /\ vNodes' = vNodes \cup {nCreated'}
        /\ UNCHANGED <<vNodesDisconnected, deleted>>
    BY <1>0, <2>2, TypeNewNode
  <2>4. CopiesExist' /\ PnodeIsHeld' /\ HeldIsKept' /\ UsedIsAlive'
    BY <1>0, <2>1, <2>3 DEF Accept, TypeInv, TypeOK
  <2> QED
    BY <1>0, <2>2, <2>4
<1>2. ASSUME NEW n \in Node, Remove(n) PROVE UsesInv'
  <2>1. removing = 0 /\ vNodes' = vNodes \ {n} /\ removing' = n /\ n \in vNodes /\ n # 0
    BY <1>0, <1>2 DEF Remove, Locked, TypeInv, TypeOK
  <2>2. Counted'
    <3>1. \A m \in Node : Uses(m)' = Uses(m)
      BY <1>2, <2>1 DEF Remove, Uses, One, Node
    <3> QED
      BY <1>2, <3>1 DEF Remove, Counted
  <2> QED
    BY <1>0, <1>2, <2>1, <2>2 DEF Remove, TypeInv, TypeOK
<1>3. ASSUME NEW n \in Node, Expire(n) PROVE UsesInv'
  BY <1>0, <1>3 DEF Expire, Counted, Uses, One
<1>4. ASSUME NEW n \in Node, Delete(n) PROVE UsesInv'
  <2>1. deleted' = deleted \cup {n} /\ n \notin fHeld
    BY <1>0, <1>4 DEF Delete, GetRefCount, Later, TypeInv, TypeOK
  <2>2. UsedIsAlive'
    BY <1>4, <2>1, DeletedIsUnused DEF Delete
  <2> QED
    BY <1>0, <1>4, <2>1, <2>2 DEF Delete, Counted, Uses, One
<1>5. CASE Retire
  <2>1. removing \in Node /\ removing \notin vNodes \cup deleted /\ removing' = 0
    BY <1>0, <1>5 DEF Retire, Locked, TypeInv, TypeOK, Apart, Node
  <2>2. Counted'
    <3> SUFFICES ASSUME NEW n \in Node \ overwritten PROVE Uses(n)' <= nRefCount'[n]
      BY <1>5 DEF Retire, Counted
    <3>1. Uses(n) <= nRefCount[n] /\ nRefCount[n] \in Int
      BY <1>0 DEF Counted, TypeInv, TypeOK
    <3>2. CASE n = removing
      <4>1. Uses(n)' = Uses(n) - 1
        BY <1>5, <2>1, <3>2 DEF Retire, Uses, One, Node
      <4>2. nRefCount'[n] >= nRefCount[n] - 1
        BY <1>0, <1>5, <3>1, <3>2 DEF Retire, TypeInv, TypeOK
      <4>3. Uses(n) \in Int /\ nRefCount'[n] \in Int
        BY <1>0 DEF Uses, One, TypeInv, TypeOK
      <4> QED
        BY <3>1, <4>1, <4>2, <4>3
    <3>3. CASE n # removing
      <4>1. Uses(n)' = Uses(n)
        BY <1>5, <2>1, <3>3 DEF Retire, Uses, One, Node
      <4>2. nRefCount'[n] = nRefCount[n]
        BY <1>0, <1>5, <2>1, <3>3 DEF Retire, TypeInv, TypeOK
      <4> QED
        BY <3>1, <4>1, <4>2
    <3> QED
      BY <3>2, <3>3
  <2>3. CopiesExist' /\ PnodeIsHeld' /\ HeldIsKept' /\ UsedIsAlive'
    BY <1>0, <1>5, <2>1 DEF Retire
  <2> QED
    BY <1>0, <2>2, <2>3
<1> QED
  BY <1>1, <1>2, <1>3, <1>4, <1>5

LEMMA UsesNext == ASSUME UsesInv, [Next]_vars PROVE UsesInv'
<1>1. CASE UNCHANGED vars
  BY <1>1, TypeStutter DEF UsesInv, CopiesExist, PnodeIsHeld, HeldIsKept, UsedIsAlive, Counted,
     Uses, One, vars, lists, flags, slots, opening, sock, ghosts
<1>2. CASE Next
  BY <1>2, UsesOfOpeners, UsesOfThreads, UsesOfSockets DEF Next
<1> QED
  BY <1>1, <1>2

\* "wait until threads are done using it": however many threads open connections, no node
\* is deleted that the message or the socket thread has in its copy of vNodes, or that an
\* opener still points to, but for the race of ConnectNode's AddRef.
THEOREM UsedStaysAlive == Spec => []UsedIsAlive
<1>1. Spec => []UsesInv
  BY UsesInit, UsesNext, PTL DEF Spec
<1> QED
  BY <1>1, PTL DEF UsesInv

-----------------------------------------------------------------------------
(* Grants. *)

\* An opener that has not moved its grant has it; a node with a grant is connected or was
\* cut off from its opener; what the socket thread saw of a grant is what there is,
\* unless an opener moved it there since, or is about to give another one for it.
GrantsHeld == \A o \in Opener : o \in grant <=> pc[o] \notin {"idle", "flag"}
GrantsCount == grantOutbound \subseteq vNodes \cup {removing} \cup unfinished
PnodeCounts == \A o \in Opener : pnode[o] # NoNode => pnode[o] \in vNodes \cup unfinished
SeenIsThere ==
    /\ Locked /\ removing \in grantOutbound /\ ~seesGrant => removing \in unfinished
    /\ seesGrant => Locked /\ removing \in grantOutbound \cup Receiving
UnfinishedAreGone == unfinished \subseteq 1 .. nCreated /\ unfinished \cap vNodes = {}

\* The grants of openers that are yet to look at their node or give its own back; the nodes
\* that have a grant or will; and what never falls.
Carrying == grant \ Assigning
Kept == grantOutbound \cup Receiving
Count == value + Cardinality(Carrying) + Cardinality(Kept) + raced

\* The nodes that may still be given back once too often: the socket thread has yet to
\* release the grant that it saw, or an opener has, and it is gone.
Due == {n \in unfinished : seesGrant /\ n = removing}
       \cup {n \in Node \ Kept : \E o \in Opener : pc[o] = "release" /\ pnode[o] = n}

SlotsLeast == MaxOutbound <= Count
SlotsMost == Count + Cardinality(Due) <= MaxOutbound + Cardinality(unfinished)
SlotsBound == SlotsLeast /\ SlotsMost

PlaceInv == GrantsHeld /\ GrantsCount /\ PnodeCounts /\ SeenIsThere /\ UnfinishedAreGone
SlotInv == UsesInv /\ PlaceInv /\ SlotsBound

LEMMA GrantsAreFinite ==
    ASSUME TypeInv
    PROVE  /\ IsFiniteSet(Node) /\ IsFiniteSet(Carrying) /\ IsFiniteSet(Kept)
           /\ IsFiniteSet(Due) /\ IsFiniteSet(unfinished)
<1>1. IsFiniteSet(Node)
  BY FS_Interval, ConnectionsAssumption DEF Node
<1>2. IsFiniteSet(Carrying)
  BY ConnectionsAssumption, FS_Subset DEF TypeInv, TypeOK, Carrying
<1>3. Receiving \subseteq Node
  BY DEF Receiving, Assigning, TypeInv, TypeOK, OpenersPoint, Node, NoNode
<1>4. grantOutbound \subseteq Node /\ unfinished \subseteq Node
  BY ConnectionsAssumption DEF TypeInv, TypeOK, Node
<1>5. Kept \subseteq Node /\ Due \subseteq Node
  BY <1>3, <1>4 DEF Kept, Due
<1> QED
  BY <1>1, <1>2, <1>4, <1>5, FS_Subset

LEMMA CountType ==
    ASSUME TypeInv
    PROVE  /\ value \in Nat /\ raced \in Nat /\ MaxOutbound \in Nat
           /\ Cardinality(Carrying) \in Nat /\ Cardinality(Kept) \in Nat
           /\ Cardinality(Due) \in Nat /\ Cardinality(unfinished) \in Nat /\ Count \in Nat
<1>1. value \in Nat /\ raced \in Nat /\ MaxOutbound \in Nat
  BY ConnectionsAssumption DEF TypeInv, TypeOK
<1>2. /\ Cardinality(Carrying) \in Nat /\ Cardinality(Kept) \in Nat
      /\ Cardinality(Due) \in Nat /\ Cardinality(unfinished) \in Nat
  BY GrantsAreFinite, FS_CardinalityType
<1> QED
  BY <1>1, <1>2 DEF Count

LEMMA SlotInit == Init => SlotInv
<1> SUFFICES ASSUME Init PROVE SlotInv
  OBVIOUS
<1>1. Carrying = {} /\ Kept = {} /\ Due = {} /\ unfinished = {}
  BY DEF Init, Carrying, Kept, Receiving, Assigning, Due
<1>2. SlotsBound
  BY <1>1, FS_EmptySet, ConnectionsAssumption DEF Init, SlotsBound, SlotsLeast, SlotsMost, Count
<1>3. PlaceInv
  BY DEF Init, PlaceInv, GrantsHeld, GrantsCount, PnodeCounts, SeenIsThere, UnfinishedAreGone, Locked
<1> QED
  BY <1>2, <1>3, UsesInit DEF SlotInv

\* A step that keeps the count, or that uses up a node that was due.
LEMMA CountStays ==
    ASSUME TypeInv, TypeInv', SlotsBound, UNCHANGED unfinished, Count' = Count, Due' \subseteq Due
    PROVE  SlotsBound'
<1>1. IsFiniteSet(Due)
  BY GrantsAreFinite
<1>2. IsFiniteSet(Due') /\ Cardinality(Due') <= Cardinality(Due)
  BY <1>1, FS_Subset
<1>3. Cardinality(Due') \in Nat
  BY <1>2, FS_CardinalityType
<1>4. Cardinality(unfinished') = Cardinality(unfinished)
  OBVIOUS
<1> QED
  BY <1>2, <1>3, <1>4, CountType DEF SlotsBound, SlotsLeast, SlotsMost

LEMMA CountGrows ==
    ASSUME TypeInv, TypeInv', SlotsBound, UNCHANGED unfinished, Count' = Count + 1,
           NEW n \in Due, Due' \subseteq Due \ {n}
    PROVE  SlotsBound'
<1>1. Cardinality(Due \ {n}) = Cardinality(Due) - 1 /\ IsFiniteSet(Due \ {n})
  BY GrantsAreFinite, FS_RemoveElement
<1>2. Cardinality(Due') <= Cardinality(Due) - 1 /\ Cardinality(Due') \in Nat
  <2>1. Cardinality(Due') <= Cardinality(Due \ {n}) /\ IsFiniteSet(Due')
    BY <1>1, FS_Subset
  <2> QED
    BY <1>1, <2>1, FS_CardinalityType
<1>3. Cardinality(unfinished') = Cardinality(unfinished)
  OBVIOUS
<1> QED
  BY <1>2, <1>3, CountType DEF SlotsBound, SlotsLeast, SlotsMost

\* An opener that does not move its grant now.
LEMMA OpenerAside ==
    ASSUME NEW o \in Opener, pc[o] \notin {"release", "assign"}, pc'[o] \notin {"release", "assign"},
           \A p \in Opener \ {o} : pc'[p] = pc[p] /\ pnode'[p] = pnode[p],
           UNCHANGED <<grantOutbound, removing, seesGrant, unfinished>>
    PROVE  Assigning' = Assigning /\ Receiving' = Receiving /\ Kept' = Kept /\ Due' = Due
<1>1. \A p \in Opener : pc'[p] \in {"release", "assign"} \/ pc[p] \in {"release", "assign"} =>
                          pc'[p] = pc[p] /\ pnode'[p] = pnode[p]
  OBVIOUS
<1>2. Assigning' = Assigning
  BY <1>1 DEF Assigning
<1>3. Receiving' = Receiving
  BY <1>1, <1>2 DEF Receiving, Assigning
<1>4. Kept' = Kept
  BY <1>3 DEF Kept
<1>5. \A n : (\E p \in Opener : pc'[p] = "release" /\ pnode'[p] = n)
             <=> (\E p \in Opener : pc[p] = "release" /\ pnode[p] = n)
  BY <1>1
<1>6. Due' = Due
  BY <1>4, <1>5 DEF Due
<1> QED
  BY <1>2, <1>3, <1>4, <1>6

LEMMA PlacesOfOpeners ==
    ASSUME SlotInv, NEW o \in Opener, Step(o) \/ \E a \in Address : Open(o, a)
    PROVE  PlaceInv'
<1>0. TypeInv /\ TypeInv'
  BY TypeOfOpeners DEF SlotInv, UsesInv
<1>a. pc \in [Opener -> {"idle", "connect", "dial", "found", "move", "release", "assign", "flag"}]
      /\ pnode \in [Opener -> 0 .. MaxNode] /\ removing \notin vNodes
  BY <1>0 DEF TypeInv, TypeOK
<1>b. \A p \in Opener : pnode[p] = NoNode <=> pc[p] \in {"idle", "connect", "dial"}
  BY <1>0 DEF TypeInv, OpenersPoint
<1> USE DEF SlotInv, PlaceInv, GrantsHeld, GrantsCount, PnodeCounts, UnfinishedAreGone,
            NoNode, Locked, lists, flags, slots, opening, sock, ghosts
<1>c. ASSUME pc[o] \notin {"release", "assign"}, pc'[o] \notin {"release", "assign"},
             \A p \in Opener \ {o} : pc'[p] = pc[p] /\ pnode'[p] = pnode[p],
             UNCHANGED <<grantOutbound, removing, seesGrant, unfinished>>
      PROVE  SeenIsThere'
  <2>1. Receiving' = Receiving
    BY <1>c, OpenerAside
  <2> QED
    BY <1>c, <2>1 DEF SeenIsThere
<1>1. ASSUME NEW a \in Address, Open(o, a) PROVE PlaceInv'
  BY <1>a, <1>c, <1>1 DEF Open
<1>2. CASE Connect(o)
  <2>1. PICK q \in {"dial", "found"} : pc' = [pc EXCEPT ![o] = q]
    BY <1>2 DEF Connect
  <2>2. SeenIsThere'
    BY <1>a, <1>c, <1>2, <2>1 DEF Connect
  <2> QED
    BY <1>a, <1>2, <2>1, <2>2 DEF Connect, FindNode
<1>3. CASE AddRef(o)
  BY <1>a, <1>c, <1>3 DEF AddRef
<1>4. CASE DialFails(o)
  BY <1>a, <1>c, <1>4 DEF DialFails
<1>5. CASE Dial(o)
  <2>1. target[o] \in Address /\ NewNode(target[o])
    BY <1>0, <1>5 DEF Dial, TypeInv, TypeOK
  <2>2. vNodes' = vNodes \cup {nCreated'} /\ nCreated' = nCreated + 1 /\ nCreated \in Nat
    BY <1>0, <2>1, TypeNewNode DEF TypeInv, TypeOK
  <2>3. SeenIsThere'
    BY <1>a, <1>c, <1>5 DEF Dial
  <2> QED
    BY <1>a, <1>5, <2>2, <2>3 DEF Dial
<1>6. CASE TestGrant(o)
  <2>1. PICK q \in {"release", "assign"} : pc' = [pc EXCEPT ![o] = q]
    BY <1>6 DEF TestGrant
  <2>2. pc[o] = "move" /\ UNCHANGED <<pnode, slots, vNodes, nCreated, unfinished, removing, seesGrant>>
    BY <1>6 DEF TestGrant
  <2>3. Receiving \subseteq Receiving'
    BY <1>a, <2>1, <2>2 DEF Receiving, Assigning
  <2> QED
    BY <1>a, <2>1, <2>2, <2>3 DEF SeenIsThere
<1>7. CASE MoveTo(o)
  <2>1. /\ pc[o] = "assign" /\ pc' = [pc EXCEPT ![o] = "flag"]
        /\ grant' = grant \ {o} /\ grantOutbound' = grantOutbound \cup {pnode[o]}
        /\ UNCHANGED <<vNodes, nCreated, removing, unfinished, pnode, seesGrant>>
    BY <1>7 DEF MoveTo
  <2>2. pnode[o] \in vNodes \cup unfinished
    BY <1>b, <2>1
  <2>3. Receiving \subseteq Receiving' \cup {pnode[o]}
    BY <1>a, <2>1 DEF Receiving, Assigning
  <2>4. SeenIsThere'
    BY <1>a, <2>1, <2>2, <2>3 DEF SeenIsThere
  <2> QED
    BY <1>a, <2>1, <2>2, <2>4
<1>8. CASE Flag(o)
  BY <1>a, <1>c, <1>8 DEF Flag
<1>9. CASE ReleaseGrant(o)
  <2>1. /\ pc[o] = "release" /\ pc' = [pc EXCEPT ![o] = "assign"]
        /\ grantOutbound' = grantOutbound \ {pnode[o]}
        /\ UNCHANGED <<vNodes, nCreated, removing, unfinished, pnode, seesGrant, grant>>
    BY <1>9 DEF ReleaseGrant
  <2>2. Receiving \cup {pnode[o]} \subseteq Receiving'
    BY <1>a, <2>1 DEF Receiving, Assigning
  <2>3. SeenIsThere'
    BY <2>1, <2>2 DEF SeenIsThere
  <2> QED
    BY <1>a, <2>1, <2>3
<1> QED
  BY <1>1, <1>2, <1>3, <1>4, <1>5, <1>6, <1>7, <1>8, <1>9 DEF Step

\* The opener that looks at its node's grant.
LEMMA TestGrantCounts ==
    ASSUME SlotInv, NEW o \in Opener, TestGrant(o)
    PROVE  SlotsBound'
<1>1. TypeInv /\ TypeInv' /\ SlotsBound
  BY TypeOfOpeners DEF SlotInv, UsesInv, Step
<1>2. /\ pc[o] = "move" /\ o \in grant /\ pc \in [Opener -> {"idle", "connect", "dial", "found", "move", "release", "assign", "flag"}]
      /\ UNCHANGED <<value, grant, grantOutbound, pnode, removing, seesGrant, unfinished>>
      /\ raced \in Nat
  BY <1>1 DEF TestGrant, SlotInv, PlaceInv, GrantsHeld, TypeInv, TypeOK, slots, sock
<1>3. CASE pnode[o] \in grantOutbound /\ pc' = [pc EXCEPT ![o] = "release"] /\ raced' = raced
  <2>1. Assigning' = Assigning
    BY <1>2, <1>3 DEF Assigning
  <2>2. Receiving' = Receiving
    BY <1>2, <2>1 DEF Receiving
  <2>3. Kept' = Kept /\ Carrying' = Carrying
    BY <1>2, <2>1, <2>2 DEF Kept, Carrying
  <2>4. Count' = Count
    BY <1>2, <1>3, <2>3 DEF Count
  <2>5. pnode[o] \in Kept
    BY <1>3 DEF Kept
  <2>6. Due' \subseteq Due
    BY <1>2, <1>3, <2>3, <2>5 DEF Due
  <2> QED
    BY <1>1, <1>2, <2>4, <2>6, CountStays
<1>4. CASE /\ pnode[o] \notin grantOutbound /\ pc' = [pc EXCEPT ![o] = "assign"]
           /\ raced' = IF pnode[o] \in Receiving THEN raced + 1 ELSE raced
  <2>1. Assigning' = Assigning \cup {o} /\ o \notin Assigning
    BY <1>2, <1>4 DEF Assigning
  <2>2. Receiving' = Receiving \cup {pnode[o]}
    BY <1>2, <2>1 DEF Receiving
  <2>3. Carrying' = Carrying \ {o} /\ o \in Carrying
    BY <1>2, <2>1 DEF Carrying
  <2>4. Kept' = Kept \cup {pnode[o]} /\ (pnode[o] \in Kept <=> pnode[o] \in Receiving)
    BY <1>2, <1>4, <2>2 DEF Kept
  <2>5. Cardinality(Carrying') = Cardinality(Carrying) - 1
    BY <1>1, <2>3, GrantsAreFinite, FS_RemoveElement
  <2>6. Cardinality(Kept') = IF pnode[o] \in Kept THEN Cardinality(Kept) ELSE Cardinality(Kept) + 1
    BY <1>1, <2>4, GrantsAreFinite, FS_AddElement
  <2>7. Count' = Count
    BY <1>1, <1>2, <1>4, <2>4, <2>5, <2>6, CountType DEF Count
  <2>8. Due' \subseteq Due
    BY <1>2, <1>4, <2>4 DEF Due
  <2> QED
    BY <1>1, <1>2, <2>7, <2>8, CountStays
<1> QED
  BY <1>3, <1>4 DEF TestGrant

\* Giving the node's grant back: it is one too many only when it is gone and no other
\* opener gives one, and then the node was due.
LEMMA ReleaseGrantCounts ==
    ASSUME SlotInv, NEW o \in Opener, ReleaseGrant(o)
    PROVE  SlotsBound'
<1>1. TypeInv /\ TypeInv' /\ SlotsBound
  BY TypeOfOpeners DEF SlotInv, UsesInv, Step
<1> DEFINE n == pnode[o]
<1>2. /\ pc[o] = "release" /\ o \in grant /\ pc' = [pc EXCEPT ![o] = "assign"] /\ value' = value + 1
      /\ grantOutbound' = grantOutbound \ {n}
      /\ UNCHANGED <<grant, pnode, removing, seesGrant, unfinished, raced>>
      /\ pc \in [Opener -> {"idle", "connect", "dial", "found", "move", "release", "assign", "flag"}]
  BY <1>1 DEF ReleaseGrant, SlotInv, PlaceInv, GrantsHeld, TypeInv, TypeOK, sock, ghosts
<1>3. n \in Node
  BY <1>1, <1>2 DEF TypeInv, TypeOK, OpenersPoint, Node, NoNode
<1>4. Assigning' = Assigning \cup {o} /\ o \notin Assigning
  BY <1>2 DEF Assigning
<1>5. Receiving' = Receiving \cup {n}
  BY <1>2, <1>4 DEF Receiving
<1>6. Carrying' = Carrying \ {o} /\ o \in Carrying
  BY <1>2, <1>4 DEF Carrying
<1>7. Kept' = Kept \cup {n}
  BY <1>2, <1>5 DEF Kept
<1>8. Cardinality(Carrying') = Cardinality(Carrying) - 1
  BY <1>1, <1>6, GrantsAreFinite, FS_RemoveElement
<1>9. Cardinality(Kept') = IF n \in Kept THEN Cardinality(Kept) ELSE Cardinality(Kept) + 1
  BY <1>1, <1>7, GrantsAreFinite, FS_AddElement
<1>10. Due' \subseteq Due
  BY <1>2, <1>7 DEF Due
<1>11. CASE n \in Kept
  <2>1. Count' = Count
    BY <1>1, <1>2, <1>8, <1>9, <1>11, CountType DEF Count
  <2> QED
    BY <1>1, <1>2, <1>10, <2>1, CountStays
<1>12. CASE n \notin Kept
  <2>1. Count' = Count + 1
    BY <1>1, <1>2, <1>8, <1>9, <1>12, CountType DEF Count
  <2>2. n \in Due
    BY <1>2, <1>3, <1>12 DEF Due
  <2>3. ~(seesGrant /\ n = removing)
    BY <1>12 DEF SlotInv, PlaceInv, SeenIsThere, Kept
  <2>4. n \notin Due'
    BY <1>2, <1>7, <2>3 DEF Due
  <2> HIDE DEF n
  <2> QED
    BY <1>1, <1>2, <1>10, <2>1, <2>2, <2>4, CountGrows
<1> QED
  BY <1>11, <1>12

LEMMA MoveToCounts ==
    ASSUME SlotInv, NEW o \in Opener, MoveTo(o)
    PROVE  SlotsBound'
<1>1. TypeInv /\ TypeInv' /\ SlotsBound
  BY TypeOfOpeners DEF SlotInv, UsesInv, Step
<1>2. /\ pc[o] = "assign" /\ pc' = [pc EXCEPT ![o] = "flag"]
      /\ grantOutbound' = grantOutbound \cup {pnode[o]} /\ grant' = grant \ {o}
      /\ UNCHANGED <<value, pnode, removing, seesGrant, unfinished, raced>>
      /\ pc \in [Opener -> {"idle", "connect", "dial", "found", "move", "release", "assign", "flag"}]
  BY <1>1 DEF MoveTo, TypeInv, TypeOK, sock, ghosts
<1>3. Assigning' = Assigning \ {o} /\ o \in Assigning
  BY <1>2 DEF Assigning
<1>4. Receiving' \cup {pnode[o]} = Receiving
  BY <1>2, <1>3 DEF Receiving
<1>5. Kept' = Kept
  BY <1>2, <1>4 DEF Kept
<1>6. Carrying' = Carrying
  BY <1>2, <1>3 DEF Carrying
<1>7. Count' = Count
  BY <1>2, <1>5, <1>6 DEF Count
<1>8. Due' \subseteq Due
  BY <1>2, <1>5 DEF Due
<1> QED
  BY <1>1, <1>2, <1>7, <1>8, CountStays

LEMMA SlotsOfOpeners ==
    ASSUME SlotInv, NEW o \in Opener, Step(o) \/ \E a \in Address : Open(o, a)
    PROVE  SlotInv'
<1>0. TypeInv /\ TypeInv' /\ UsesInv' /\ PlaceInv' /\ SlotsBound
  BY TypeOfOpeners, UsesOfOpeners, PlacesOfOpeners DEF SlotInv, UsesInv
<1>a. /\ pc \in [Opener -> {"idle", "connect", "dial", "found", "move", "release", "assign", "flag"}]
      /\ pnode \in [Opener -> 0 .. MaxNode]
      /\ \A p \in Opener : p \in grant <=> pc[p] \notin {"idle", "flag"}
  BY <1>0 DEF TypeInv, TypeOK, SlotInv, PlaceInv, GrantsHeld
<1>b. ASSUME pc[o] \notin {"release", "assign"}, pc'[o] \notin {"release", "assign"},
             \A p \in Opener \ {o} : pc'[p] = pc[p] /\ pnode'[p] = pnode[p],
             UNCHANGED <<grantOutbound, removing, seesGrant, unfinished, raced>>,
             value' + Cardinality(Carrying') = value + Cardinality(Carrying)
      PROVE  SlotsBound'
  <2>1. Kept' = Kept /\ Due' = Due
    BY <1>b, OpenerAside
  <2>2. Count' = Count
    BY <1>0, <1>b, <2>1, CountType DEF Count
  <2> QED
    BY <1>0, <1>b, <2>1, <2>2, CountStays
<1>c. ASSUME pc[o] \notin {"release", "assign"}, pc'[o] \notin {"release", "assign"},
             \A p \in Opener \ {o} : pc'[p] = pc[p]
      PROVE  o \notin Assigning /\ Assigning' = Assigning
  BY <1>a, <1>c DEF Assigning
<1> USE DEF lists, flags, slots, opening, sock, ghosts
<1>1. ASSUME NEW a \in Address, Open(o, a) PROVE SlotsBound'
  <2>1. /\ pc[o] = "idle" /\ pc' = [pc EXCEPT ![o] = "connect"]
        /\ value' = value - 1 /\ grant' = grant \cup {o}
        /\ UNCHANGED <<pnode, grantOutbound, removing, seesGrant, unfinished, raced>>
    BY <1>1 DEF Open
  <2>2. o \notin Assigning /\ Assigning' = Assigning
    BY <1>a, <1>c, <2>1
  <2>3. Carrying' = Carrying \cup {o} /\ o \notin Carrying
    BY <1>a, <2>1, <2>2 DEF Carrying
  <2>4. Cardinality(Carrying') = Cardinality(Carrying) + 1
    BY <1>0, <2>3, GrantsAreFinite, FS_AddElement
  <2>5. value' + Cardinality(Carrying') = value + Cardinality(Carrying)
    BY <1>0, <2>1, <2>4, CountType
  <2>6. /\ pc[o] \notin {"release", "assign"} /\ pc'[o] \notin {"release", "assign"}
        /\ \A p \in Opener \ {o} : pc'[p] = pc[p] /\ pnode'[p] = pnode[p]
    BY <1>a, <2>1
  <2> QED
    BY <1>b, <2>1, <2>5, <2>6
<1>2. CASE DialFails(o)
  <2>1. /\ pc[o] = "dial" /\ pc' = [pc EXCEPT ![o] = "idle"]
        /\ value' = value + 1 /\ grant' = grant \ {o}
        /\ UNCHANGED <<pnode, grantOutbound, removing, seesGrant, unfinished, raced>>
    BY <1>2 DEF DialFails
  <2>2. o \notin Assigning /\ Assigning' = Assigning
    BY <1>a, <1>c, <2>1
  <2>3. Carrying' = Carrying \ {o} /\ o \in Carrying
    BY <1>a, <2>1, <2>2 DEF Carrying
  <2>4. Cardinality(Carrying') = Cardinality(Carrying) - 1
    BY <1>0, <2>3, GrantsAreFinite, FS_RemoveElement
  <2>5. value' + Cardinality(Carrying') = value + Cardinality(Carrying)
    BY <1>0, <2>1, <2>4, CountType
  <2>6. /\ pc[o] \notin {"release", "assign"} /\ pc'[o] \notin {"release", "assign"}
        /\ \A p \in Opener \ {o} : pc'[p] = pc[p] /\ pnode'[p] = pnode[p]
    BY <1>a, <2>1
  <2> QED
    BY <1>0, <1>b, <2>1, <2>5, <2>6 DEF SlotInv
<1>3. ASSUME pc[o] \notin {"release", "assign"}, pc'[o] \notin {"release", "assign"},
             \A p \in Opener \ {o} : pc'[p] = pc[p] /\ pnode'[p] = pnode[p],
             UNCHANGED <<grantOutbound, removing, seesGrant, unfinished, raced, value, grant>>
      PROVE  SlotsBound'
  <2>1. Carrying' = Carrying
    BY <1>c, <1>3 DEF Carrying
  <2> QED
    BY <1>b, <1>3, <2>1
<1>4. CASE Connect(o) \/ AddRef(o) \/ Dial(o) \/ Flag(o)
  <2>1. UNCHANGED <<grantOutbound, removing, seesGrant, unfinished, raced, value, grant>>
    BY <1>4 DEF Connect, AddRef, Dial, Flag
  <2>2. pc[o] \in {"connect", "found", "dial", "flag"}
    BY <1>4 DEF Connect, AddRef, Dial, Flag
  <2>3. PICK q \in {"dial", "found", "move", "idle"} : pc' = [pc EXCEPT ![o] = q]
    BY <1>4 DEF Connect, AddRef, Dial, Flag
  <2>4. \A p \in Opener \ {o} : pnode'[p] = pnode[p]
    BY <1>a, <1>4 DEF Connect, AddRef, Dial, Flag
  <2>5. pc'[o] = q /\ \A p \in Opener \ {o} : pc'[p] = pc[p]
    BY <1>a, <2>3
  <2>6. q \notin {"release", "assign"} /\ pc[o] \notin {"release", "assign"}
    BY <2>2
  <2> QED
    BY <1>0, <1>3, <2>1, <2>4, <2>5, <2>6 DEF SlotInv
<1>5. SlotsBound'
  BY <1>1, <1>2, <1>4, TestGrantCounts, ReleaseGrantCounts, MoveToCounts DEF Step, SlotInv
<1> QED
  BY <1>0, <1>5 DEF SlotInv

\* A step that leaves the grants and their openers alone.
LEMMA SlotsAside ==
    ASSUME SlotInv, UsesInv', UNCHANGED <<slots, pc, pnode, removing, seesGrant, unfinished, raced>>,
           \/ UNCHANGED <<vNodes, nCreated>>
           \/ \E a \in Address : NewNode(a)
    PROVE  SlotInv'
<1>1. TypeInv /\ TypeInv' /\ SlotsBound
  BY DEF SlotInv, UsesInv
<1>2. Receiving' = Receiving /\ Assigning' = Assigning
  BY DEF Receiving, Assigning
<1>3. Kept' = Kept /\ Carrying' = Carrying
  BY <1>2 DEF Kept, Carrying, slots
<1>4. Count' = Count /\ Due' = Due
  BY <1>3 DEF Count, Due, slots
<1>5. SlotsBound'
  BY <1>1, <1>4, CountStays
<1>6. GrantsHeld' /\ SeenIsThere'
  BY <1>2 DEF SlotInv, PlaceInv, GrantsHeld, SeenIsThere, Locked, slots
<1>7. \/ UNCHANGED <<vNodes, nCreated>>
      \/ vNodes' = vNodes \cup {nCreated'} /\ nCreated' = nCreated + 1 /\ nCreated \in Nat
  BY <1>1, TypeNewNode DEF TypeInv, TypeOK
<1>8. GrantsCount' /\ PnodeCounts' /\ UnfinishedAreGone'
  BY <1>7 DEF SlotInv, PlaceInv, GrantsCount, PnodeCounts, UnfinishedAreGone, slots
<1> QED
  BY <1>5, <1>6, <1>8 DEF SlotInv, PlaceInv

LEMMA SlotsOfThreads ==
    ASSUME SlotInv, NEW t \in Thread,
           Copy(t) \/ Release(t) \/ (\E n \in Node : Fail(t, n))
    PROVE  SlotInv'
<1>1. UsesInv'
  BY UsesOfThreads DEF SlotInv
<1>2. UNCHANGED <<slots, pc, pnode, removing, seesGrant, unfinished, raced, vNodes, nCreated>>
  BY DEF Copy, Release, Fail, lists, opening, sock, ghosts
<1> QED
  BY <1>1, <1>2, SlotsAside

\* Out of vNodes: the node joins the unfinished with an opener, and only then may it be due.
LEMMA RemoveCounts ==
    ASSUME SlotInv, NEW n \in Node, Remove(n)
    PROVE  SlotInv'
<1>1. TypeInv /\ TypeInv' /\ UsesInv' /\ SlotsBound
  BY TypeOfSockets, UsesOfSockets DEF SlotInv, UsesInv
<1>2. /\ removing = 0 /\ removing' = n /\ n \in vNodes /\ vNodes' = vNodes \ {n} /\ n # 0 /\ 0 \notin grantOutbound
      /\ UNCHANGED <<pnode, pc, value, grant, grantOutbound, raced, nCreated>>
  BY <1>1 DEF Remove, Locked, NoNode, TypeInv, TypeOK, slots, opening
<1>3. /\ unfinished' = IF \E o \in Opener : pnode[o] = n THEN unfinished \cup {n} ELSE unfinished
      /\ seesGrant' <=> n \in grantOutbound
  <2>1. unfinished' = IF \E o \in Opener : pnode[o] = n THEN unfinished \cup {n} ELSE unfinished
    BY DEF Remove
  <2>2. seesGrant' <=> n \in grantOutbound
    BY Zenon DEF Remove
  <2> QED
    BY <2>1, <2>2
<1>4. n \notin unfinished /\ n \in 1 .. nCreated /\ ~seesGrant
  BY <1>1, <1>2 DEF SlotInv, PlaceInv, UnfinishedAreGone, SeenIsThere, Locked, NoNode, TypeInv, TypeOK
<1>5. Assigning' = Assigning /\ Receiving' = Receiving /\ Carrying' = Carrying /\ Kept' = Kept
  BY <1>2 DEF Assigning, Receiving, Carrying, Kept
<1>6. Count' = Count
  BY <1>2, <1>5 DEF Count
<1>7. PlaceInv'
  <2>1. GrantsHeld' /\ UnfinishedAreGone'
    BY <1>2, <1>3, <1>4 DEF SlotInv, PlaceInv, GrantsHeld, UnfinishedAreGone
  <2>2. GrantsCount' /\ PnodeCounts'
    BY <1>2, <1>3 DEF SlotInv, PlaceInv, GrantsCount, PnodeCounts, NoNode
  <2>3. SeenIsThere'
    BY <1>2, <1>3, <1>5 DEF SeenIsThere, Locked, NoNode
  <2> QED
    BY <2>1, <2>2, <2>3 DEF PlaceInv
<1>8. CASE \E o \in Opener : pnode[o] = n
  <2>1. unfinished' = unfinished \cup {n} /\ Due' \subseteq Due \cup {n}
    BY <1>2, <1>3, <1>4, <1>5, <1>8 DEF Due
  <2>2. Cardinality(unfinished') = Cardinality(unfinished) + 1
    BY <1>1, <1>4, <2>1, GrantsAreFinite, FS_AddElement
  <2>3. /\ Cardinality(Due') <= Cardinality(Due \cup {n}) /\ IsFiniteSet(Due')
        /\ Cardinality(Due \cup {n}) \in {Cardinality(Due), Cardinality(Due) + 1}
    BY <1>1, <2>1, GrantsAreFinite, FS_AddElement, FS_Subset
  <2>4. Cardinality(Due') <= Cardinality(Due) + 1 /\ Cardinality(Due') \in Nat
    BY <1>1, <2>3, CountType, FS_CardinalityType
  <2>5. SlotsBound'
    BY <1>1, <1>6, <2>2, <2>4, CountType DEF SlotsBound, SlotsLeast, SlotsMost
  <2> QED
    BY <1>1, <1>7, <2>5 DEF SlotInv
<1>9. CASE ~\E o \in Opener : pnode[o] = n
  <2>1. UNCHANGED unfinished /\ Due' \subseteq Due
    BY <1>2, <1>3, <1>4, <1>5, <1>9 DEF Due
  <2>2. SlotsBound'
    BY <1>1, <1>6, <2>1, CountStays
  <2> QED
    BY <1>1, <1>7, <2>2 DEF SlotInv
<1> QED
  BY <1>8, <1>9

\* The socket thread gives the grant back: one too many only when an opener is about to
\* give the node another one, and then the node was due.
LEMMA RetireCounts ==
    ASSUME SlotInv, Retire
    PROVE  SlotInv'
<1>1. TypeInv /\ TypeInv' /\ UsesInv' /\ SlotsBound
  BY TypeOfSockets, UsesOfSockets DEF SlotInv, UsesInv
<1> DEFINE n == removing
<1>2. /\ value' = IF seesGrant THEN value + 1 ELSE value
      /\ grantOutbound' = IF seesGrant THEN grantOutbound \ {n} ELSE grantOutbound
      /\ n # 0 /\ n \notin vNodes /\ removing' = 0 /\ seesGrant' = FALSE /\ n \in Node
      /\ UNCHANGED <<vNodes, nCreated, unfinished, pnode, pc, grant, raced>>
  BY <1>1, ConnectionsAssumption DEF Retire, Locked, NoNode, TypeInv, TypeOK, Node, opening, ghosts
<1>3. Assigning' = Assigning /\ Receiving' = Receiving /\ Carrying' = Carrying
  BY <1>2 DEF Assigning, Receiving, Carrying
<1>4. PlaceInv'
  <2>1. GrantsHeld' /\ PnodeCounts' /\ UnfinishedAreGone'
    BY <1>2 DEF SlotInv, PlaceInv, GrantsHeld, PnodeCounts, UnfinishedAreGone
  <2>2. SeenIsThere'
    BY <1>2 DEF SeenIsThere, Locked, NoNode
  <2>3. GrantsCount'
    BY <1>2 DEF SlotInv, PlaceInv, GrantsCount, SeenIsThere, Locked, NoNode
  <2> QED
    BY <2>1, <2>2, <2>3 DEF PlaceInv
<1>5. ASSUME NEW o \in Opener, pnode[o] = n PROVE n \in unfinished
  BY <1>2, <1>5 DEF SlotInv, PlaceInv, PnodeCounts, NoNode
<1>6. CASE ~seesGrant
  <2>1. Kept' = Kept
    BY <1>2, <1>3, <1>6 DEF Kept
  <2>2. Count' = Count
    BY <1>2, <1>3, <1>6, <2>1 DEF Count
  <2>3. Due' \subseteq Due
    BY <1>2, <2>1 DEF Due
  <2> QED
    BY <1>1, <1>2, <1>4, <2>2, <2>3, CountStays DEF SlotInv
<1>7. CASE seesGrant /\ n \in Receiving
  <2>1. n \in Due
    BY <1>5, <1>7 DEF Receiving, Assigning, Due
  <2>2. Kept' = Kept /\ n \in Kept
    BY <1>2, <1>3, <1>7 DEF Kept
  <2>3. Count' = Count + 1
    BY <1>1, <1>2, <1>3, <1>7, <2>2, CountType DEF Count
  <2>4. Due' \subseteq Due \ {n}
    BY <1>2, <2>2 DEF Due
  <2> HIDE DEF n
  <2> QED
    BY <1>1, <1>2, <1>4, <2>1, <2>3, <2>4, CountGrows DEF SlotInv
<1>8. CASE seesGrant /\ n \notin Receiving
  <2>1. n \in grantOutbound
    BY <1>8 DEF SlotInv, PlaceInv, SeenIsThere
  <2>2. Kept' = Kept \ {n} /\ n \in Kept
    BY <1>2, <1>3, <1>8, <2>1 DEF Kept
  <2>3. Cardinality(Kept') = Cardinality(Kept) - 1
    BY <1>1, <2>2, GrantsAreFinite, FS_RemoveElement
  <2>4. Count' = Count
    BY <1>1, <1>2, <1>3, <1>8, <2>3, CountType DEF Count
  <2>5. Due' \subseteq Due
    BY <1>2, <1>5, <1>8, <2>2 DEF Due
  <2> QED
    BY <1>1, <1>2, <1>4, <2>4, <2>5, CountStays DEF SlotInv
<1> QED
  BY <1>6, <1>7, <1>8

\* The grant goes with the object; no opener points to it any more.
LEMMA DeleteCounts ==
    ASSUME SlotInv, NEW n \in Node, Delete(n)
    PROVE  SlotInv'
<1>1. TypeInv /\ TypeInv' /\ UsesInv /\ UsesInv' /\ SlotsBound
  BY TypeOfSockets, UsesOfSockets DEF SlotInv, UsesInv
<1>2. /\ value' = IF n \in grantOutbound THEN value + 1 ELSE value
      /\ grantOutbound' = grantOutbound \ {n} /\ ~Locked
      /\ UNCHANGED <<vNodes, nCreated, removing, unfinished, pnode, pc, grant, seesGrant, raced>>
  BY DEF Delete, opening, sock, ghosts
<1>3. \A o \in Opener : pnode[o] # n
  BY <1>1, DeletedIsUnused
<1>4. Assigning' = Assigning /\ Receiving' = Receiving /\ Carrying' = Carrying /\ n \notin Receiving
  BY <1>2, <1>3 DEF Assigning, Receiving, Carrying
<1>5. Kept' = Kept \ {n} /\ (n \in Kept <=> n \in grantOutbound)
  BY <1>2, <1>4 DEF Kept
<1>6. Cardinality(Kept') = IF n \in Kept THEN Cardinality(Kept) - 1 ELSE Cardinality(Kept)
  BY <1>1, <1>5, GrantsAreFinite, FS_RemoveElement
<1>7. Count' = Count
  BY <1>1, <1>2, <1>4, <1>5, <1>6, CountType DEF Count
<1>8. Due' \subseteq Due
  BY <1>2, <1>3, <1>5 DEF Due
<1>9. SlotsBound'
  BY <1>1, <1>2, <1>7, <1>8, CountStays
<1>10. PlaceInv'
  BY <1>2, <1>4 DEF SlotInv, PlaceInv, GrantsHeld, GrantsCount, PnodeCounts, SeenIsThere, UnfinishedAreGone, Locked
<1> QED
  BY <1>1, <1>9, <1>10 DEF SlotInv

LEMMA SlotsOfSockets ==
    ASSUME SlotInv,
           \/ \E a \in Address : Accept(a)
           \/ \E n \in Node : Remove(n) \/ Expire(n) \/ Delete(n)
           \/ Retire
    PROVE  SlotInv'
<1>1. UsesInv'
  BY UsesOfSockets DEF SlotInv
<1>2. CASE \E a \in Address : Accept(a)
  <2>1. UNCHANGED <<slots, pc, pnode, removing, seesGrant, unfinished, raced>>
        /\ \E a \in Address : NewNode(a)
    BY <1>2 DEF Accept, opening, sock, ghosts
  <2> QED
    BY <1>1, <2>1, SlotsAside
<1>3. CASE \E n \in Node : Expire(n)
  <2>1. UNCHANGED <<slots, pc, pnode, removing, seesGrant, unfinished, raced, vNodes, nCreated>>
    BY <1>3 DEF Expire, lists, opening, sock, ghosts
  <2> QED
    BY <1>1, <2>1, SlotsAside
<1> QED
  BY <1>2, <1>3, RemoveCounts, RetireCounts, DeleteCounts

LEMMA SlotNext == ASSUME SlotInv, [Next]_vars PROVE SlotInv'
<1>1. CASE UNCHANGED vars
  <2>1. UsesInv'
    BY <1>1, UsesNext DEF SlotInv
  <2>2. UNCHANGED <<slots, pc, pnode, removing, seesGrant, unfinished, raced, vNodes, nCreated>>
    BY <1>1 DEF vars, lists, opening, sock, ghosts
  <2> QED
    BY <2>1, <2>2, SlotsAside
<1>2. CASE Next
  BY <1>2, SlotsOfOpeners, SlotsOfThreads, SlotsOfSockets DEF Next
<1> QED
  BY <1>1, <1>2

\* "release outbound grant (if any)": for any number of grants and openers, the grants of
\* semOutbound that are free, with an opener, or with a node that is connected or was
\* disconnected under its opener's hands are as many as there were, less one at most for
\* each time that two openers moved a grant to a node without one, and more by one at
\* most for each node that was disconnected under its openers' hands.
THEOREM SlotsAreConserved == Spec => []SlotsConserved
<1>1. SlotInv => SlotsConserved
  <2> SUFFICES ASSUME SlotInv PROVE SlotsConserved
    OBVIOUS
  <2>1. TypeInv /\ SlotsBound /\ grantOutbound \subseteq vNodes \cup {removing} \cup unfinished
    BY DEF SlotInv, UsesInv, PlaceInv, GrantsCount
  <2>2. (grantOutbound \cap (vNodes \cup {removing} \cup unfinished)) \cup Receiving = Kept
    BY <2>1 DEF Kept
  <2>3. Slots + raced = Count
    BY <2>1, <2>2, CountType DEF Slots, Carrying, Count
  <2> QED
    BY <2>1, <2>3, CountType DEF SlotsBound, SlotsLeast, SlotsMost, SlotsConserved
<1>2. Spec => []SlotInv
  BY SlotInit, SlotNext, PTL DEF Spec
<1> QED
  BY <1>1, <1>2, PTL
=============================================================================
