-------------------------- MODULE CompletionProofs --------------------------
(***************************************************************************)
(* A download from one peer completes: the theorem about DownloadCompletes *)
(* of Download, and the invariant it follows from.                         *)
(*                                                                         *)
(* At rest there is nothing on its way, so what the peer has told of is    *)
(* had.  Progress says that as long as it has not told of a block there is *)
(* something on its way that makes it (Goes); that holds because what it   *)
(* tells of comes in order and once (Order); and both rest on what holds   *)
(* of every peer (Background).                                             *)
(***************************************************************************)
EXTENDS DownloadProofs

-----------------------------------------------------------------------------
(* A download from one peer.  The client has shaken hands with s alone.    *)

Alone(s) == connected = Server /\ greeted = {s}

\* The blocks that only s can bring, up to the last but one of its chain at the start.
Low(s) == Fork + 1 .. Tip[s] - 1

\* The blocks that a message of this type carries, and that a queue does.
Of(m, type) == IF m.type # type THEN <<>> ELSE IF type = "block" THEN <<m.block>> ELSE m.vInv
Carried(q, type) == UNION {Range(Of(m, type)) : m \in Range(q)}

\* What s was asked for, has been and will be.
Blocks(q) == [i \in DOMAIN q |-> q[i][2]]
AskedFor(s) == Blocks(mapAskFor[s])
Sent(s) == Carried(toClient[s], "block")
Requests(s) == Carried(toServer[s], "getdata")
Coming(s) == Sent(s) \cup Requests(s) \cup Range(AskedFor(s))
Announced(s) == Carried(toClient[s], "inv")

\* What s has announced or is about to.
Told(s) == known[s] \cup Range(toSend[s])

\* What is announced is had, known to be there, or on its way; what the client announces
\* it has, and it asks for what follows on a block that it has, up to one that waits.
AsksFrom(m) ==
    m.locator \in index /\ m.hashStop \in {0} \cup {h \in Had : h > Fork + 1}
Arrives(s) ==
    /\ \A b \in known[s] : b \in Had \cup setInventoryKnown[s] \cup Announced(s)
    /\ \A m \in Range(toServer[s]) : /\ m.type = "inv" => Range(m.vInv) \subseteq Had
                                     /\ m.type = "getblocks" => AsksFrom(m)
AnnouncedArrives == \A s \in Server : Arrives(s)

\* Nothing passes before the version messages.
Silent(s) ==
    /\ toServer[s] = <<>> /\ toClient[s] = <<>> /\ mapAskFor[s] = <<>>
    /\ lastGetBlocks[s] = <<>> /\ known[s] = {} /\ hashContinue[s] = 0
    /\ setInventoryKnown[s] = {} /\ \A b \in Range(toSend[s]) : b > Tip[s]
UngreetedAreSilent == \A s \in Server \ greeted : Silent(s)

\* The client's own branch.
Own == IF SideLength = 0 THEN Fork ELSE -SideLength
Fresh ==
    /\ index = 0 .. Fork \cup Side /\ pindexBest = Own /\ mapOrphanBlocks = {} /\ nAskedForBlocks = 0
    /\ \A b \in Block : mapAlreadyAskedFor[b] = Never
OwnIsThere ==
    /\ 0 .. Fork \cup Side \subseteq index
    /\ pindexBest = Own \/ pindexBest > Fork + SideLength
    /\ connected = Server /\ greeted = {} => Fresh

\* The blocks that were found since are announced.
Found(s) == Tip[s] + 1 .. height[s] \subseteq Told(s)
FoundAreTold == \A s \in Server : Tip[s] <= height[s] /\ (s \in connected => Found(s))

Background == AnnouncedArrives /\ UngreetedAreSilent /\ OwnIsThere /\ FoundAreTold

-----------------------------------------------------------------------------
(* The low blocks come one after the other, each once. *)

\* A block of L follows on one of A or on one before it.
Follows(v, L, A) ==
    \A k \in 1 .. Len(v) : v[k] \in L => v[k] - 1 \in A \/ \E l \in 1 .. k - 1 : v[l] = v[k] - 1
Orderly(q, type, L, A) ==
    \A i \in 1 .. Len(q) :
        Follows(Of(q[i], type), L, A \cup UNION {Range(Of(q[h], type)) : h \in 1 .. i - 1})
\* A block of L is carried once.
Once(q, type, L) ==
    \A i, h \in 1 .. Len(q) : \A k \in 1 .. Len(Of(q[i], type)), l \in 1 .. Len(Of(q[h], type)) :
        Of(q[i], type)[k] \in L /\ Of(q[h], type)[l] = Of(q[i], type)[k] => i = h /\ k = l

InOrder(s) ==
    /\ Orderly(toClient[s], "block", Low(s), index)
    /\ Orderly(toServer[s], "getdata", Low(s), index \cup Sent(s))
    /\ Follows(AskedFor(s), Low(s), index \cup Sent(s) \cup Requests(s))
    /\ Orderly(toClient[s], "inv", Low(s), index \cup Coming(s))
    /\ Follows(toSend[s], Low(s), known[s] \cup {Fork})

AskedAtOnce(s) == \A e \in Range(mapAskFor[s]) : e[2] \in Low(s) => e[1] = 0

LowIsTold(s) ==
    \A b \in Low(s) :
        /\ b \in index \cup Coming(s) \cup Announced(s) => b \in known[s]
        /\ b \in Told(s) => b - 1 \in {Fork} \cup Told(s)
        /\ b \notin mapOrphanBlocks

ToldOnce(s) ==
    /\ \A b \in Low(s) :
        /\ b \in Announced(s) => mapAlreadyAskedFor[b] = Never /\ b \notin index \cup Coming(s)
        /\ b \notin known[s] => mapAlreadyAskedFor[b] = Never
    /\ Once(toClient[s], "inv", Low(s))

-----------------------------------------------------------------------------
(* As long as e is the last block that s has told of before a gap ... *)
Gap(s, e) ==
    /\ e \in Fork .. Tip[s] - 1 /\ (e = Fork \/ e \in Told(s))
    /\ e + 1 \notin Told(s) \cup Had

\* Where getblocks with this locator starts, on a server that is beyond the fork.
Begin(l) ==
    LET common == {h \in 0 .. (IF l < 0 THEN Fork ELSE l) : h = 0 \/ nHeight(l) - h \in vHave}
    IN  CHOOSE h \in common : \A c \in common : c <= h
Reach(l) == Begin(l) + nLimit
Loc(l) == l \in index /\ (l = Own \/ l > Fork + SideLength)

Beyond(m, e) == Reach(m.locator) > e /\ (m.hashStop = 0 \/ m.hashStop > e + 1)
\* It will be told of what follows: the client asks for more; the last block of a batch
\* is not requested yet; the best block is announced after it; or has been, and is coming.
LiveRequest(s, e) == \E m \in Range(toServer[s]) : m.type = "getblocks" /\ Beyond(m, e)
LiveBatch(s, e) == hashContinue[s] = e /\ e \notin Had /\ e \notin Sent(s)
LiveAnnounced(s, e) ==
    \E i \in 1 .. Len(toClient[s]) :
        /\ toClient[s][i].type = "inv" /\ \E x \in Range(toClient[s][i].vInv) : x >= Tip[s]
        /\ e \in index \/ \E h \in 1 .. i - 1 : toClient[s][h].type = "block" /\ toClient[s][h].block = e
LiveComing(s, e) == e \in index /\ \E x \in Tip[s] .. height[s] : x \notin Had /\ x \in Coming(s)
Live(s, e) == LiveRequest(s, e) \/ LiveBatch(s, e) \/ LiveAnnounced(s, e) \/ LiveComing(s, e)

Answering(s, e) ==
    /\ e <= Reach(pindexBest)
    /\ \A i \in 1 .. Len(toServer[s]) : toServer[s][i].type = "getblocks" =>
         /\ Loc(toServer[s][i].locator) /\ e <= Reach(toServer[s][i].locator)
         /\ \A h \in 1 .. i - 1 : toServer[s][h].type = "getblocks" =>
              Reach(toServer[s][h].locator) <= Reach(toServer[s][i].locator)

Done(s, l, stop) ==
    \A b \in Begin(l) + 1 .. Reach(l) :
        b <= Tip[s] /\ (stop = 0 \/ stop <= Begin(l) \/ b < stop) => b \in Told(s) \cup Had
LastIsDone(s) ==
    lastGetBlocks[s] # <<>> =>
        \/ Done(s, lastGetBlocks[s][1], lastGetBlocks[s][2])
        \/ \E m \in Range(toServer[s]) : m.type = "getblocks" /\ m.locator = lastGetBlocks[s][1]
                                         /\ m.hashStop = lastGetBlocks[s][2]

\* The common blocks are announced before the first that is new, if at all.
CommonFirst(s) ==
    /\ Fork + 1 \in known[s] => Begin(Own) + 1 .. Fork \subseteq known[s]
    /\ \A b \in Range(toSend[s]) : b <= Fork => b > Begin(Own) /\ Fork + 1 \in Told(s)
    /\ \A i \in 1 .. Len(toSend[s]) : toSend[s][i] = Fork + 1 =>
         \A b \in Begin(Own) + 1 .. Fork : b \in known[s] \/ \E h \in 1 .. i - 1 : toSend[s][h] = b
    /\ \A m \in Range(toClient[s]) : m.type = "inv" => m.vInv # <<>> /\ m.vInv[Len(m.vInv)] > Fork

Order(s) ==
    InOrder(s) /\ AskedAtOnce(s) /\ LowIsTold(s) /\ ToldOnce(s)
Goes(s, e) == Live(s, e) /\ Answering(s, e) /\ LastIsDone(s) /\ CommonFirst(s)
Progress == \A s \in Server : Alone(s) => Order(s) /\ \A e \in Main : Gap(s, e) => Goes(s, e)

-----------------------------------------------------------------------------
(* Order in a sequence. *)

LEMMA FollowsMore ==
    ASSUME NEW v, NEW L, NEW A, NEW B, Follows(v, L, A),
           \A b \in L : b - 1 \in A => b - 1 \in B
    PROVE  Follows(v, L, B)
BY DEF Follows

LEMMA FollowsConcat ==
    ASSUME NEW X, NEW v \in Seq(X), NEW w \in Seq(X), NEW L, NEW A,
           Follows(v, L, A), Follows(w, L, A \cup Range(v))
    PROVE  Follows(v \o w, L, A)
<1> DEFINE u == v \o w
           M == Len(v)
<1>1. /\ M \in Nat /\ Len(w) \in Nat /\ Len(u) = M + Len(w)
      /\ \A k \in 1..M : u[k] = v[k]
      /\ \A k \in 1 .. Len(w) : u[M + k] = w[k]
  OBVIOUS
<1>2. \A y : y \in Range(v) <=> \E k \in 1..M : v[k] = y
  BY SeqRange
<1> HIDE DEF u, M
<1>3. ASSUME NEW k \in 1 .. Len(u), u[k] \in L
      PROVE  u[k] - 1 \in A \/ \E l \in 1 .. k - 1 : u[l] = u[k] - 1
  <2>1. CASE k \in 1..M
    <3>1. v[k] - 1 \in A \/ \E l \in 1 .. k - 1 : v[l] = v[k] - 1
      BY <1>1, <1>3, <2>1 DEF Follows, M
    <3>2. \A l \in 1 .. k - 1 : l \in 1..M
      BY <1>1, <2>1
    <3> QED
      BY <1>1, <2>1, <3>1, <3>2
  <2>2. CASE k \notin 1..M
    <3> DEFINE j == k - M
    <3>1. j \in 1 .. Len(w) /\ k = M + j
      BY <1>1, <2>2
    <3> HIDE DEF j
    <3>2. u[k] = w[j]
      BY <1>1, <3>1
    <3>3. w[j] - 1 \in A \cup Range(v) \/ \E l \in 1 .. j - 1 : w[l] = w[j] - 1
      BY <1>3, <3>1, <3>2 DEF Follows
    <3>4. CASE w[j] - 1 \in A
      BY <3>2, <3>4
    <3>5. CASE w[j] - 1 \in Range(v)
      <4>1. PICK l \in 1..M : v[l] = w[j] - 1
        BY <1>2, <3>5
      <4>2. l \in 1 .. k - 1
        BY <1>1, <3>1, <4>1
      <4> QED
        BY <1>1, <3>2, <4>1, <4>2
    <3>6. ASSUME NEW l \in 1 .. j - 1, w[l] = w[j] - 1
          PROVE  \E i \in 1 .. k - 1 : u[i] = u[k] - 1
      <4>1. M + l \in 1 .. k - 1 /\ l \in 1 .. Len(w)
        BY <1>1, <3>1, <3>6
      <4> QED
        BY <1>1, <3>2, <3>6, <4>1
    <3> QED
      BY <3>3, <3>4, <3>5, <3>6
  <2> QED
    BY <2>1, <2>2
<1> QED
  BY <1>3 DEF Follows, u

LEMMA FollowsKept ==
    ASSUME NEW X, NEW v \in Seq(X), NEW S, NEW L, NEW A, Follows(v, L, A)
    PROVE  Follows(Kept(v, S), L, A \cup (Range(v) \ S))
<1> DEFINE w == Kept(v, S)
<1>1. /\ w \in Seq(X) /\ Len(w) \in Nat /\ Len(v) \in Nat
      /\ \A j \in 1 .. Len(w) : \E i \in 1 .. Len(v) :
           /\ w[j] = v[i]
           /\ \A h \in 1 .. i - 1 : v[h] \in S => \E k \in 1 .. j - 1 : w[k] = v[h]
  BY KeptFacts
<1>2. \A y : y \in Range(v) <=> \E k \in 1 .. Len(v) : v[k] = y
  BY SeqRange
<1> HIDE DEF w
<1>3. ASSUME NEW j \in 1 .. Len(w), w[j] \in L
      PROVE  w[j] - 1 \in A \cup (Range(v) \ S) \/ \E k \in 1 .. j - 1 : w[k] = w[j] - 1
  <2>1. PICK i \in 1 .. Len(v) :
           /\ w[j] = v[i]
           /\ \A h \in 1 .. i - 1 : v[h] \in S => \E k \in 1 .. j - 1 : w[k] = v[h]
    BY <1>1
  <2>2. v[i] - 1 \in A \/ \E h \in 1 .. i - 1 : v[h] = v[i] - 1
    BY <1>3, <2>1 DEF Follows
  <2>3. \A h \in 1 .. i - 1 : h \in 1 .. Len(v)
    BY <1>1
  <2> QED
    BY <1>2, <2>1, <2>2, <2>3
<1> QED
  BY <1>3 DEF Follows, w

LEMMA FollowsUnsent ==
    ASSUME NEW X, NEW v \in Seq(X), NEW S, NEW L, NEW A, Follows(v, L, A)
    PROVE  Follows(Unsent(v, S), L, A \cup S)
<1> DEFINE w == Unsent(v, S)
<1>1. /\ w \in Seq(X) /\ Len(w) \in Nat /\ Len(v) \in Nat
      /\ \A j \in 1 .. Len(w) : \E i \in 1 .. Len(v) :
           /\ w[j] = v[i]
           /\ \A h \in 1 .. i - 1 : v[h] \notin S => \E k \in 1 .. j - 1 : w[k] = v[h]
  BY UnsentFacts DEF SentFrom
<1> HIDE DEF w
<1>3. ASSUME NEW j \in 1 .. Len(w), w[j] \in L
      PROVE  w[j] - 1 \in A \cup S \/ \E k \in 1 .. j - 1 : w[k] = w[j] - 1
  <2>1. PICK i \in 1 .. Len(v) :
           /\ w[j] = v[i]
           /\ \A h \in 1 .. i - 1 : v[h] \notin S => \E k \in 1 .. j - 1 : w[k] = v[h]
    BY <1>1
  <2>2. v[i] - 1 \in A \/ \E h \in 1 .. i - 1 : v[h] = v[i] - 1
    BY <1>3, <2>1 DEF Follows
  <2> QED
    BY <2>1, <2>2
<1> QED
  BY <1>3 DEF Follows, w

-----------------------------------------------------------------------------
(* Order in a queue of messages. *)

LEMMA CarriedFacts ==
    ASSUME NEW X, NEW q \in Seq(X), NEW type
    PROVE  \A b : b \in Carried(q, type) <=> \E i \in 1 .. Len(q) : b \in Range(Of(q[i], type))
<1>1. \A y : y \in Range(q) <=> \E i \in 1 .. Len(q) : q[i] = y
  BY SeqRange
<1> QED
  BY <1>1 DEF Carried

LEMMA CarriedAppend ==
    ASSUME NEW X, NEW q \in Seq(X), NEW m \in X, NEW type
    PROVE  Carried(Append(q, m), type) = Carried(q, type) \cup Range(Of(m, type))
<1>1. Append(q, m) = q \o <<m>> /\ <<m>> \in Seq(X)
  OBVIOUS
<1>2. Range(<<m>>) = {m}
  BY DEF Range
<1>3. Range(Append(q, m)) = Range(q) \cup {m}
  <2>1. Range(q \o <<m>>) = Range(q) \cup Range(<<m>>)
    BY <1>1, RangeConcat, ZenonT(40)
  <2> QED
    BY <1>1, <1>2, <2>1
<1> QED
  BY <1>3 DEF Carried

LEMMA CarriedTail ==
    ASSUME NEW X, NEW q \in Seq(X), q # <<>>, NEW type
    PROVE  Carried(q, type) = Range(Of(Head(q), type)) \cup Carried(Tail(q), type)
<1>1. Range(q) = {Head(q)} \cup Range(Tail(q))
  BY RangeTail
<1> QED
  BY <1>1 DEF Carried

LEMMA OrderlyMore ==
    ASSUME NEW q, NEW type, NEW L, NEW A, NEW B, Orderly(q, type, L, A),
           \A b \in L : b - 1 \in A => b - 1 \in B
    PROVE  Orderly(q, type, L, B)
<1> SUFFICES ASSUME NEW i \in 1 .. Len(q)
             PROVE  Follows(Of(q[i], type), L, B \cup UNION {Range(Of(q[h], type)) : h \in 1 .. i - 1})
  BY DEF Orderly
<1> DEFINE U == UNION {Range(Of(q[h], type)) : h \in 1 .. i - 1}
<1>1. Follows(Of(q[i], type), L, A \cup U)
  BY DEF Orderly
<1> HIDE DEF U
<1>2. \A b \in L : b - 1 \in A \cup U => b - 1 \in B \cup U
  OBVIOUS
<1>3. Follows(Of(q[i], type), L, B \cup U)
  BY <1>1, <1>2, FollowsMore
<1> QED
  BY <1>3 DEF U

LEMMA OrderlyAppend ==
    ASSUME NEW X, NEW q \in Seq(X), NEW m \in X, NEW type, NEW L, NEW A,
           Orderly(q, type, L, A), Follows(Of(m, type), L, A \cup Carried(q, type))
    PROVE  Orderly(Append(q, m), type, L, A)
<1> DEFINE r == Append(q, m)
<1>1. Len(r) = Len(q) + 1 /\ Len(q) \in Nat /\ r[Len(q) + 1] = m /\ \A i \in 1 .. Len(q) : r[i] = q[i]
  OBVIOUS
<1> HIDE DEF r
<1> SUFFICES ASSUME NEW i \in 1 .. Len(r)
             PROVE  Follows(Of(r[i], type), L, A \cup UNION {Range(Of(r[h], type)) : h \in 1 .. i - 1})
  BY DEF Orderly, r
<1>2. \A h \in 1 .. i - 1 : h \in 1 .. Len(q) /\ r[h] = q[h]
  BY <1>1
<1>3. UNION {Range(Of(r[h], type)) : h \in 1 .. i - 1} = UNION {Range(Of(q[h], type)) : h \in 1 .. i - 1}
  BY <1>2
<1>4. CASE i \in 1 .. Len(q)
  BY <1>1, <1>3, <1>4 DEF Orderly
<1>5. CASE i = Len(q) + 1
  <2>1. UNION {Range(Of(q[h], type)) : h \in 1 .. i - 1} = Carried(q, type)
    <3>1. i - 1 = Len(q)
      BY <1>1, <1>5
    <3>2. \A b : b \in Carried(q, type) <=> \E h \in 1 .. Len(q) : b \in Range(Of(q[h], type))
      BY CarriedFacts
    <3> QED
      BY <3>1, <3>2
  <2> QED
    BY <1>1, <1>3, <1>5, <2>1
<1> QED
  BY <1>1, <1>4, <1>5

LEMMA OrderlyTail ==
    ASSUME NEW X, NEW q \in Seq(X), q # <<>>, NEW type, NEW L, NEW A, Orderly(q, type, L, A)
    PROVE  Orderly(Tail(q), type, L, A \cup Range(Of(Head(q), type)))
<1> DEFINE r == Tail(q)
           H == Range(Of(Head(q), type))
<1>1. /\ Len(q) = Len(r) + 1 /\ Len(r) \in Nat /\ Head(q) = q[1]
      /\ \A i \in 1 .. Len(r) : r[i] = q[i + 1]
  OBVIOUS
<1> HIDE DEF r, H
<1> SUFFICES ASSUME NEW i \in 1 .. Len(r)
             PROVE  Follows(Of(r[i], type), L, (A \cup H) \cup UNION {Range(Of(r[h], type)) : h \in 1 .. i - 1})
  BY DEF Orderly, r, H
<1> DEFINE U == UNION {Range(Of(q[h], type)) : h \in 1 .. (i + 1) - 1}
           W == UNION {Range(Of(r[h], type)) : h \in 1 .. i - 1}
<1>2. U \subseteq H \cup W
  <2>1. ASSUME NEW h \in 1 .. (i + 1) - 1 PROVE Range(Of(q[h], type)) \subseteq H \cup W
    <3>1. CASE h = 1
      BY <1>1, <3>1 DEF H
    <3>2. CASE h # 1
      <4>1. h - 1 \in 1 .. i - 1 /\ h - 1 \in 1 .. Len(r) /\ (h - 1) + 1 = h
        BY <1>1, <3>2
      <4>2. r[h - 1] = q[h]
        BY <1>1, <4>1
      <4> QED
        BY <4>1, <4>2
    <3> QED
      BY <3>1, <3>2
  <2> QED
    BY <2>1
<1>3. i + 1 \in 1 .. Len(q) /\ r[i] = q[i + 1]
  BY <1>1
<1>4. Follows(Of(q[i + 1], type), L, A \cup U)
  BY <1>3 DEF Orderly
<1> HIDE DEF U, W
<1>5. \A b \in L : b - 1 \in A \cup U => b - 1 \in (A \cup H) \cup W
  BY <1>2
<1>6. Follows(Of(q[i + 1], type), L, (A \cup H) \cup W)
  BY <1>4, <1>5, FollowsMore
<1> QED
  BY <1>3, <1>6 DEF W

LEMMA OnceTail ==
    ASSUME NEW X, NEW q \in Seq(X), q # <<>>, NEW type, NEW L, Once(q, type, L)
    PROVE  /\ Once(Tail(q), type, L)
           /\ \A b \in L : b \in Range(Of(Head(q), type)) => b \notin Carried(Tail(q), type)
<1> DEFINE r == Tail(q)
<1>1. /\ Len(q) = Len(r) + 1 /\ Len(r) \in Nat /\ Head(q) = q[1] /\ r \in Seq(X)
      /\ \A i \in 1 .. Len(r) : r[i] = q[i + 1] /\ i + 1 \in 1 .. Len(q) /\ i + 1 # 1
  OBVIOUS
<1>2. 1 \in 1 .. Len(q)
  BY <1>1
<1> HIDE DEF r
<1>3. Once(r, type, L)
  <2> SUFFICES ASSUME NEW i \in 1 .. Len(r), NEW h \in 1 .. Len(r),
                      NEW k \in 1 .. Len(Of(r[i], type)), NEW l \in 1 .. Len(Of(r[h], type)),
                      Of(r[i], type)[k] \in L, Of(r[h], type)[l] = Of(r[i], type)[k]
               PROVE  i = h /\ k = l
    BY DEF Once
  <2>1. /\ i + 1 \in 1 .. Len(q) /\ h + 1 \in 1 .. Len(q)
        /\ r[i] = q[i + 1] /\ r[h] = q[h + 1]
    BY <1>1
  <2>2. k \in 1 .. Len(Of(q[i + 1], type)) /\ l \in 1 .. Len(Of(q[h + 1], type))
    BY <2>1
  <2>3. Of(q[i + 1], type)[k] \in L /\ Of(q[h + 1], type)[l] = Of(q[i + 1], type)[k]
    BY <2>1
  <2>4. i + 1 = h + 1 /\ k = l
    BY <2>1, <2>2, <2>3 DEF Once
  <2> QED
    BY <1>1, <2>4
<1>4. ASSUME NEW b \in L, b \in Range(Of(Head(q), type)), b \in Carried(r, type)
      PROVE  FALSE
  <2>1. PICK h \in 1 .. Len(r) : b \in Range(Of(r[h], type))
    BY <1>1, <1>4, CarriedFacts
  <2>2. PICK k \in DOMAIN Of(q[1], type) : Of(q[1], type)[k] = b
    BY <1>1, <1>4 DEF Range
  <2>3. PICK l \in DOMAIN Of(r[h], type) : Of(r[h], type)[l] = b
    BY <2>1 DEF Range
  <2> QED
    BY <1>1, <1>2, <1>4, <2>2, <2>3, SMTT(40) DEF Once
<1> QED
  BY <1>3, <1>4 DEF r

LEMMA OnceAppend ==
    ASSUME NEW X, NEW q \in Seq(X), NEW m \in X, NEW type, NEW L, Once(q, type, L),
           NEW Y, Of(m, type) \in Seq(Y), \A p \in X : Of(p, type) \in Seq(Y),
           \A b \in L : b \in Range(Of(m, type)) => b \notin Carried(q, type),
           \A k, l \in 1 .. Len(Of(m, type)) :
               Of(m, type)[k] \in L /\ Of(m, type)[l] = Of(m, type)[k] => k = l
    PROVE  Once(Append(q, m), type, L)
<1> DEFINE r == Append(q, m)
           N == Len(q)
<1>1. N \in Nat /\ Len(r) = N + 1 /\ r[N + 1] = m /\ \A i \in 1..N : r[i] = q[i] /\ q[i] \in X
  OBVIOUS
<1>2. \A b : b \in Carried(q, type) <=> \E i \in 1..N : b \in Range(Of(q[i], type))
  BY CarriedFacts
<1>3. \A i \in 1 .. N + 1 : i \in 1..N \/ i = N + 1
  BY <1>1
<1> HIDE DEF r, N
<1>4. \A p \in X : \A b : b \in Range(Of(p, type)) <=> \E k \in 1 .. Len(Of(p, type)) : Of(p, type)[k] = b
  BY SeqRange
<1>5. \A b : b \in Range(Of(m, type)) <=> \E k \in 1 .. Len(Of(m, type)) : Of(m, type)[k] = b
  BY SeqRange
<1> SUFFICES ASSUME NEW i \in 1 .. Len(r), NEW h \in 1 .. Len(r),
                    NEW k \in 1 .. Len(Of(r[i], type)), NEW l \in 1 .. Len(Of(r[h], type)),
                    Of(r[i], type)[k] \in L, Of(r[h], type)[l] = Of(r[i], type)[k]
             PROVE  i = h /\ k = l
  BY DEF Once, r
<1>6. CASE i \in 1..N /\ h \in 1..N
  BY <1>1, <1>6, SMTT(40) DEF Once, N
<1>7. CASE i = N + 1 /\ h = N + 1
  BY <1>1, <1>7
<1>8. CASE i = N + 1 /\ h \in 1..N
  <2>1. Of(r[i], type)[k] \in Range(Of(m, type)) /\ Of(r[h], type)[l] \in Range(Of(q[h], type))
    BY <1>1, <1>4, <1>5, <1>8
  <2> QED
    BY <1>2, <1>8, <2>1
<1>9. CASE i \in 1..N /\ h = N + 1
  <2>1. Of(r[h], type)[l] \in Range(Of(m, type)) /\ Of(r[i], type)[k] \in Range(Of(q[i], type))
    BY <1>1, <1>4, <1>5, <1>9
  <2> QED
    BY <1>2, <1>9, <2>1
<1> QED
  BY <1>1, <1>3, <1>6, <1>7, <1>8, <1>9

\* What a message carries.
LEMMA OfFacts ==
    ASSUME NEW s \in Server, TypeOK
    PROVE  /\ \A m \in ToServer(s), type \in {"inv", "getdata"} : Of(m, type) \in Seq(Block)
           /\ \A m \in ToClient(s), type \in {"inv", "block"} : Of(m, type) \in Seq(Has(s))
           /\ \A m \in ToClient(s) : /\ m.type = "block" => Of(m, "block") = <<m.block>> /\ Of(m, "inv") = <<>>
                                     /\ m.type = "inv" => Of(m, "inv") = m.vInv /\ Of(m, "block") = <<>>
                                     /\ m.type = "block" <=> m.type # "inv"
           /\ \A m \in ToServer(s) : /\ m.type = "getdata" => Of(m, "getdata") = m.vInv
                                     /\ m.type # "getdata" => Of(m, "getdata") = <<>>
<1>1. \A m \in ToServer(s) :
        /\ m.type \in {"inv", "getdata", "getblocks"} /\ m.type # "getblocks" => m.vInv \in Seq(Block)
  <2>1. Seq(Has(s)) \subseteq Seq(Block)
    BY HasFacts
  <2> HIDE DEF Has
  <2> QED
    BY <2>1 DEF ToServer, GetBlocks
<1>2. \A m \in ToClient(s) :
        \/ m.type = "inv" /\ m.vInv \in Seq(Has(s))
        \/ m.type = "block" /\ m.block \in Has(s)
  <2> HIDE DEF Has
  <2> QED
    BY DEF ToClient
<1>3. \A b \in Has(s) : <<b>> \in Seq(Has(s))
  <2> HIDE DEF Has
  <2> QED
    OBVIOUS
<1>4. <<>> \in Seq(Block) /\ <<>> \in Seq(Has(s))
  BY EmptyIn
<1> HIDE DEF Has, ToServer, ToClient
<1>5. \A m \in ToServer(s), type \in {"inv", "getdata"} : Of(m, type) \in Seq(Block)
  BY <1>1, <1>4 DEF Of
<1>6. \A m \in ToClient(s), type \in {"inv", "block"} : Of(m, type) \in Seq(Has(s))
  BY <1>2, <1>3, <1>4 DEF Of
<1>7. \A m \in ToClient(s) : /\ m.type = "block" => Of(m, "block") = <<m.block>> /\ Of(m, "inv") = <<>>
                             /\ m.type = "inv" => Of(m, "inv") = m.vInv /\ Of(m, "block") = <<>>
                             /\ m.type = "block" <=> m.type # "inv"
  BY <1>2 DEF Of
<1>8. \A m \in ToServer(s) : /\ m.type = "getdata" => Of(m, "getdata") = m.vInv
                             /\ m.type # "getdata" => Of(m, "getdata") = <<>>
  BY <1>1 DEF Of
<1> QED
  BY <1>5, <1>6, <1>7, <1>8

-----------------------------------------------------------------------------
(* What the actions do to the variables of s, and of others.               *)

LEMMA RangeAppend ==
    ASSUME NEW X, NEW q \in Seq(X), NEW m \in X
    PROVE  Range(Append(q, m)) = Range(q) \cup {m}
<1>1. Append(q, m) = q \o <<m>> /\ <<m>> \in Seq(X)
  OBVIOUS
<1>2. Range(<<m>>) = {m}
  BY DEF Range
<1>3. Range(q \o <<m>>) = Range(q) \cup Range(<<m>>)
  BY <1>1, RangeConcat
<1> QED
  BY <1>1, <1>2, <1>3

\* The queues of s.
Queues(s) == /\ toServer[s] \in Seq(ToServer(s)) /\ toClient[s] \in Seq(ToClient(s))
             /\ mapAskFor[s] \in Seq(Nat \X Has(s)) /\ toSend[s] \in Seq(Has(s))

OthersKept(s) ==
    \A t \in Server : t # s =>
        /\ toServer'[t] = toServer[t] /\ toClient'[t] = toClient[t]
        /\ mapAskFor'[t] = mapAskFor[t] /\ lastGetBlocks'[t] = lastGetBlocks[t]
        /\ setInventoryKnown'[t] = setInventoryKnown[t]
        /\ height'[t] = height[t] /\ known'[t] = known[t] /\ toSend'[t] = toSend[t]
        /\ hashContinue'[t] = hashContinue[t]
ChainKept == UNCHANGED <<index, pindexBest, mapOrphanBlocks, nAskedForBlocks>>
ServerKept == UNCHANGED <<height, known, toSend, hashContinue>>
NetKept == UNCHANGED <<connected, greeted>>
Asks(s, a) ==
    /\ toServer'[s] = toServer[s] \o a.out /\ mapAskFor'[s] = a.askFor
    /\ mapAlreadyAskedFor' = a.already /\ lastGetBlocks'[s] = a.last
    /\ \A t \in Server : t # s => /\ toServer'[t] = toServer[t] /\ mapAskFor'[t] = mapAskFor[t]
                                  /\ lastGetBlocks'[t] = lastGetBlocks[t]
Receives(s) ==
    /\ toClient[s] # <<>> /\ toClient'[s] = Tail(toClient[s])
    /\ setInventoryKnown[s] \subseteq setInventoryKnown'[s]
    /\ s \in greeted /\ OthersKept(s) /\ ServerKept /\ NetKept /\ UNCHANGED nAskedForBlocks

LEMMA QueueFacts ==
    ASSUME DownloadInv, NEW s \in Server
    PROVE  Queues(s)
BY DEF DownloadInv, OnlyWhatItHas, Queues

LEMMA AsksFacts ==
    ASSUME DownloadInv, NEW s \in Server, NEW a, Ask(s, a)
    PROVE  Asks(s, a)
<1>1. AskingType2 /\ WireType
  BY TypeParts DEF DownloadInv
<1> QED
  BY <1>1 DEF Ask, Asks, AskingType2, WireType

LEMMA ReceiveInvDoes ==
    ASSUME DownloadInv, NEW s \in Server, ClientReceive(s), Head(toClient[s]).type = "inv",
           NEW v, v = Head(toClient[s]).vInv
    PROVE  /\ Receives(s) /\ v \in Seq(Has(s)) /\ ChainKept
           /\ setInventoryKnown'[s] = setInventoryKnown[s] \cup Range(v)
           /\ Asks(s, Asked(s, v)[Len(v)]) /\ Asked(s, v)[Len(v)] \in AskingType(Has(s))
<1>1. /\ s \in greeted /\ toClient[s] # <<>> /\ toClient' = [toClient EXCEPT ![s] = Tail(@)]
      /\ UNCHANGED <<server, net, fresh>> /\ ReceiveInv(s, v)
  BY DEF ClientReceive
<1>2. Head(toClient[s]) \in ToClient(s)
  <2>1. toClient[s] \in Seq(ToClient(s))
    BY QueueFacts DEF Queues
  <2> QED
    BY <1>1, <2>1, RangeTail
<1>3. v \in Seq(Has(s))
  BY <1>2 DEF ToClient
<1>4. /\ Ask(s, Asked(s, v)[Len(v)]) /\ UNCHANGED <<chain, nAskedForBlocks, vInventoryToSend>>
      /\ setInventoryKnown' = [setInventoryKnown EXCEPT ![s] = @ \cup Range(v)]
  BY <1>1 DEF ReceiveInv
<1>5. Asks(s, Asked(s, v)[Len(v)])
  BY <1>4, AsksFacts
<1>6. Asked(s, v)[Len(v)] \in AskingType(Has(s))
  <2>1. Has(s) \subseteq Block /\ Asking(s) \in AskingType(Has(s))
    BY HasFacts, AskingFacts DEF DownloadInv
  <2> QED
    BY <1>3, <2>1, AskedAll
<1>7. WireType /\ RelayType
  BY TypeParts DEF DownloadInv
<1>8. Receives(s)
  BY <1>1, <1>4, <1>5, <1>7
     DEF Receives, OthersKept, ServerKept, NetKept, Asks, WireType, RelayType, server, net
<1> QED
  BY <1>3, <1>4, <1>5, <1>6, <1>7, <1>8 DEF ChainKept, chain, RelayType

\* A block is had, accepted with the orphans up to last, or an orphan.
HasAlready(s, b) ==
    /\ b \in Had /\ ChainKept
    /\ UNCHANGED mapAlreadyAskedFor /\ toServer'[s] = toServer[s] /\ mapAskFor'[s] = mapAskFor[s]
    /\ lastGetBlocks'[s] = lastGetBlocks[s]
Accepts(s, b, last) ==
    /\ b \notin Had /\ b - 1 \in index /\ last \in Main /\ b <= last
    /\ b + 1 .. last \subseteq mapOrphanBlocks /\ index' = index \cup b .. last
    /\ mapOrphanBlocks' = mapOrphanBlocks \ (b .. last)
    /\ pindexBest' = pindexBest \/ pindexBest' > nHeight(pindexBest)
    /\ Asks(s, Erase(Asking(s), b))
BecomesOrphan(s, b, root) ==
    /\ b \notin Had /\ b - 1 \notin index
    /\ mapOrphanBlocks' = mapOrphanBlocks \cup {b} /\ UNCHANGED <<index, pindexBest>>
    /\ root \in mapOrphanBlocks' /\ root <= b /\ root .. b \subseteq mapOrphanBlocks'
    /\ Asks(s, Erase(PushGetBlocks(Asking(s), pindexBest, root), b))

LEMMA ReceiveBlockDoes ==
    ASSUME DownloadInv, NEW s \in Server, ClientReceive(s), Head(toClient[s]).type # "inv",
           NEW b, b = Head(toClient[s]).block
    PROVE  /\ Receives(s) /\ b \in Has(s) /\ Head(toClient[s]).type = "block"
           /\ setInventoryKnown'[s] = setInventoryKnown[s] \cup {b}
           /\ \/ HasAlready(s, b)
              \/ \E last \in Main : Accepts(s, b, last)
              \/ \E root \in Main : BecomesOrphan(s, b, root)
<1>1. /\ s \in greeted /\ toClient[s] # <<>> /\ toClient' = [toClient EXCEPT ![s] = Tail(@)]
      /\ UNCHANGED <<server, net, fresh>> /\ ReceiveBlock(s, b) /\ Head(toClient[s]).type = "block"
  BY DEF ClientReceive
<1>2. Head(toClient[s]) \in ToClient(s)
  <2>1. toClient[s] \in Seq(ToClient(s))
    BY QueueFacts DEF Queues
  <2> QED
    BY <1>1, <2>1, RangeTail
<1>3. b \in Has(s)
  BY <1>1, <1>2 DEF ToClient
<1>4. b \in Main \ {0} /\ b \in Block /\ Prev(b) = b - 1
  <2>1. b \in Main \ {0} /\ b \in Block
    BY <1>3, HasFacts DEF DownloadInv
  <2> QED
    BY <2>1, BlockFacts
<1>5. /\ setInventoryKnown' = [setInventoryKnown EXCEPT ![s] = @ \cup {b}]
      /\ UNCHANGED nAskedForBlocks
  BY <1>1 DEF ReceiveBlock
<1>6. WireType /\ RelayType /\ AskingType2
  BY TypeParts DEF DownloadInv
<1>7. \/ HasAlready(s, b)
      \/ \E last \in Main : Accepts(s, b, last)
      \/ \E root \in Main : BecomesOrphan(s, b, root)
  <2>1. CASE /\ AlreadyHave(b)
             /\ UNCHANGED <<chain, mapAlreadyAskedFor, mapAskFor, lastGetBlocks, vInventoryToSend, toServer>>
    BY <1>5, <2>1 DEF HasAlready, AlreadyHave, ChainKept, chain
  <2>2. CASE ~AlreadyHave(b) /\ Prev(b) \in index /\ Accept(s, b)
    <3> DEFINE last == CHOOSE c \in {b} \cup mapOrphanBlocks :
                         b <= c /\ b + 1 .. c \subseteq mapOrphanBlocks /\ c + 1 \notin mapOrphanBlocks
               before == Later(b - 1, nHeight(pindexBest))
    <3>1. /\ index' = index \cup b .. last /\ mapOrphanBlocks' = mapOrphanBlocks \ (b .. last)
          /\ pindexBest' = (IF before < last THEN last ELSE pindexBest)
          /\ Ask(s, Erase(Asking(s), b))
      BY <2>2 DEF Accept, OrphansLeft
    <3>2. mapOrphanBlocks \subseteq Main
      BY AskingFacts
    <3>3. \E c \in {b} \cup mapOrphanBlocks :
            b <= c /\ b + 1 .. c \subseteq mapOrphanBlocks /\ c + 1 \notin mapOrphanBlocks
      BY <1>4, <3>2, LastExists
    <3>4. last \in Main /\ b <= last /\ b + 1 .. last \subseteq mapOrphanBlocks
      BY <1>4, <3>2, <3>3
    <3> HIDE DEF last
    <3>5. b \in Nat /\ last \in Nat /\ nHeight(pindexBest) \in Nat
      BY <1>4, <3>4, BlockFacts, AskingFacts
    <3>6. pindexBest' = pindexBest \/ pindexBest' > nHeight(pindexBest)
      <4>1. before < last => nHeight(pindexBest) < last
        BY <3>5 DEF Later
      <4> QED
        BY <3>1, <4>1
    <3>7. Asks(s, Erase(Asking(s), b))
      BY <3>1, AsksFacts
    <3> QED
      BY <1>4, <2>2, <3>1, <3>4, <3>6, <3>7 DEF Accepts, AlreadyHave
  <2>3. CASE ~AlreadyHave(b) /\ Prev(b) \notin index /\ AddOrphanBlock(s, b)
    <3> DEFINE orphans == mapOrphanBlocks \cup {b}
               root == GetOrphanRoot(orphans, b)
    <3>1. /\ mapOrphanBlocks' = orphans /\ UNCHANGED <<index, pindexBest>>
          /\ Ask(s, Erase(PushGetBlocks(Asking(s), pindexBest, root), b))
      BY <2>3 DEF AddOrphanBlock
    <3>2. orphans \subseteq Main \ {0} /\ b \in orphans
      BY <1>4, AskingFacts
    <3>3. root \in orphans /\ root <= b /\ root .. b \subseteq orphans
      BY <3>2, RootExists
    <3> HIDE DEF orphans, root
    <3>4. Asks(s, Erase(PushGetBlocks(Asking(s), pindexBest, root), b))
      BY <3>1, AsksFacts
    <3>5. orphans = mapOrphanBlocks \cup {b} /\ root \in Main
      BY <3>2, <3>3 DEF orphans
    <3>6. BecomesOrphan(s, b, root)
      BY <1>4, <2>3, <3>1, <3>3, <3>4, <3>5 DEF BecomesOrphan, AlreadyHave
    <3> QED
      BY <3>5, <3>6
  <2> QED
    BY <1>1, <2>1, <2>2, <2>3 DEF ReceiveBlock
<1>8. Receives(s)
  <2>1. \A t \in Server : t # s => /\ toServer'[t] = toServer[t] /\ mapAskFor'[t] = mapAskFor[t]
                                   /\ lastGetBlocks'[t] = lastGetBlocks[t]
    <3>1. UNCHANGED <<mapAskFor, lastGetBlocks, toServer>> \/ \E a : Ask(s, a)
      <4>1. CASE AlreadyHave(b)
        BY <1>1, <4>1 DEF ReceiveBlock
      <4>2. CASE Accept(s, b)
        <5>1. Ask(s, Erase(Asking(s), b))
          BY <4>2 DEF Accept
        <5> QED
          BY <5>1
      <4>3. CASE AddOrphanBlock(s, b)
        <5> DEFINE root == GetOrphanRoot(mapOrphanBlocks \cup {b}, b)
        <5>1. Ask(s, Erase(PushGetBlocks(Asking(s), pindexBest, root), b))
          BY <4>3 DEF AddOrphanBlock
        <5> HIDE DEF root
        <5> QED
          BY <5>1
      <4> QED
        BY <1>1, <4>1, <4>2, <4>3 DEF ReceiveBlock
    <3>2. ASSUME NEW a, Ask(s, a) PROVE Asks(s, a)
      BY <3>2, AsksFacts
    <3> QED
      BY <3>1, <3>2 DEF Asks
  <2> QED
    BY <1>1, <1>5, <1>6, <2>1 DEF Receives, OthersKept, ServerKept, NetKept, WireType, RelayType, server, net
<1> QED
  BY <1>1, <1>3, <1>5, <1>6, <1>7, <1>8 DEF RelayType

LEMMA KeptOne ==
    ASSUME NEW b, NEW S
    PROVE  Kept(<<b>>, S) = IF b \in S THEN <<b>> ELSE <<>>
<1>1. <<b>> \in Seq({b}) /\ Len(<<b>>) = 1 /\ <<b>>[1] = b
  OBVIOUS
<1> DEFINE K == Kept(<<b>>, S)
<1>2. PICK p : PicksFrom(K, <<b>>, S, p, 1)
  BY <1>1, KeptPicks
<1>3. K \in Seq({b})
  BY <1>1, KeptPicks
<1> HIDE DEF K
<1>4. /\ Len(K) \in Nat /\ \A j \in 1 .. Len(K) : p[j] \in 1..1 /\ K[j] = b
      /\ \A j, k \in 1 .. Len(K) : j < k => p[j] < p[k]
      /\ b \in S <=> \E j \in 1 .. Len(K) : p[j] = 1
  BY <1>1, <1>2, <1>3 DEF PicksFrom
<1>5. Len(K) = IF b \in S THEN 1 ELSE 0
  <2> DEFINE N == Len(K)
  <2>1. ASSUME N > 1 PROVE FALSE
    <3>1. 1 \in 1 .. Len(K) /\ 2 \in 1 .. Len(K)
      BY <1>4, <2>1
    <3> QED
      BY <1>4, <3>1
  <2>2. N = 1 => b \in S
    BY <1>4
  <2>3. b \in S => N # 0
    BY <1>4
  <2>4. N \in Nat /\ ~(N > 1)
    BY <1>4, <2>1
  <2> HIDE DEF N
  <2>5. N = 0 \/ N = 1
    BY <2>4
  <2>6. N = IF b \in S THEN 1 ELSE 0
    BY <2>2, <2>3, <2>5
  <2> QED
    BY <2>6 DEF N
<1>6. K = IF b \in S THEN <<b>> ELSE <<>>
  BY <1>3, <1>4, <1>5
<1> QED
  BY <1>6 DEF K

ClientSends(s, vInv, wanted) ==
    /\ s \in greeted /\ OthersKept(s) /\ ChainKept /\ ServerKept /\ NetKept
    /\ toClient'[s] = toClient[s] /\ lastGetBlocks'[s] = lastGetBlocks[s]
    /\ setInventoryKnown[s] \subseteq setInventoryKnown'[s] /\ Range(vInv) \subseteq Had
    /\ wanted = Kept(Blocks(Kept(mapAskFor[s], {0} \X Block)), Block \ Had)
    /\ mapAskFor'[s] = Kept(mapAskFor[s], (Nat \ {0}) \X Block)
    /\ \A b \in Block : mapAlreadyAskedFor'[b] = IF b \in Range(wanted) THEN 0 ELSE mapAlreadyAskedFor[b]
    /\ toServer'[s] = toServer[s] \o inv(vInv) \o getdata(wanted)

LEMMA ClientSendDoes ==
    ASSUME DownloadInv, NEW s \in Server, ClientSend(s)
    PROVE  \E vInv \in Seq(Block), wanted \in Seq(Has(s)) : ClientSends(s, vInv, wanted)
<1> DEFINE vInv == Unsent(vInventoryToSend[s], setInventoryKnown[s])
           due == Kept(mapAskFor[s], {0} \X Block)
           wanted == Kept([i \in DOMAIN due |-> due[i][2]], Block \ Had)
           rest == Kept(mapAskFor[s], (Nat \ {0}) \X Block)
           q == toServer[s]
<1>1. /\ s \in greeted
      /\ setInventoryKnown' = [setInventoryKnown EXCEPT ![s] = @ \cup Range(vInv)]
      /\ mapAskFor' = [mapAskFor EXCEPT ![s] = rest]
      /\ mapAlreadyAskedFor' =
           [b \in Block |-> IF b \in Range(wanted) THEN 0 ELSE mapAlreadyAskedFor[b]]
      /\ toServer' = [toServer EXCEPT ![s] = q \o inv(vInv) \o getdata(wanted)]
      /\ UNCHANGED <<chain, nAskedForBlocks, lastGetBlocks, server, net, toClient, fresh>>
  BY DEF ClientSend
<1>2. AskingType2 /\ RelayType /\ WireType /\ AnnouncesWhatItHas
  BY TypeParts DEF DownloadInv
<1>3. wanted \in Seq(Has(s))
  BY DueFacts
<1>4. vInv \in Seq(Block) /\ Range(vInv) \subseteq Had
  <2> DEFINE queue == vInventoryToSend[s]
  <2>1. queue \in Seq(Block) /\ Range(queue) \subseteq Had
    BY <1>2 DEF RelayType, AnnouncesWhatItHas
  <2>2. \A y : y \in Range(queue) <=> \E i \in 1 .. Len(queue) : queue[i] = y
    BY <2>1, SeqRange
  <2> HIDE DEF queue
  <2>3. vInv \in Seq(Block) /\ SentFrom(vInv, queue, setInventoryKnown[s], Len(queue))
    BY <2>1, UnsentFacts DEF queue
  <2> QED
    BY <2>1, <2>2, <2>3 DEF SentFrom
<1>5. wanted = Kept(Blocks(Kept(mapAskFor[s], {0} \X Block)), Block \ Had)
  BY DEF Blocks
<1>6. /\ mapAskFor'[s] = Kept(mapAskFor[s], (Nat \ {0}) \X Block)
      /\ \A t \in Server : t # s => mapAskFor'[t] = mapAskFor[t]
  BY <1>1, <1>2 DEF AskingType2
<1> HIDE DEF vInv, due, wanted, rest
<1>7. OthersKept(s) /\ setInventoryKnown[s] \subseteq setInventoryKnown'[s]
  BY <1>1, <1>2, <1>6 DEF OthersKept, server, WireType, RelayType
<1>8. ChainKept /\ ServerKept /\ NetKept
  BY <1>1 DEF ChainKept, ServerKept, NetKept, chain, server, net
<1>9. toServer'[s] = toServer[s] \o inv(vInv) \o getdata(wanted)
  BY <1>1, <1>2 DEF WireType
<1>10. ClientSends(s, vInv, wanted)
  BY <1>1, <1>4, <1>5, <1>6, <1>7, <1>8, <1>9 DEF ClientSends
<1> QED
  BY <1>3, <1>4, <1>10

\* When a server works the client's own variables stay.
ClientKept ==
    /\ ChainKept /\ NetKept
    /\ UNCHANGED <<mapAlreadyAskedFor, mapAskFor, lastGetBlocks, setInventoryKnown>>
Serves(s) ==
    /\ s \in greeted /\ toServer[s] # <<>> /\ toServer'[s] = Tail(toServer[s])
    /\ OthersKept(s) /\ ClientKept /\ UNCHANGED height

\* getblocks: the blocks up to begin + n.
Tells(s, m, begin, n) ==
    /\ begin = GetBlockIndex(s, m.locator) /\ begin + n <= height[s] /\ n <= nLimit
    /\ toSend'[s] = toSend[s] \o Kept([i \in 1..n |-> begin + i], Block \ known[s])
    /\ known'[s] = known[s] /\ toClient'[s] = toClient[s]
    /\ \/ n = nLimit /\ hashContinue'[s] = begin + nLimit
       \/ /\ hashContinue'[s] = hashContinue[s] /\ begin + nLimit > begin + n
          /\ begin + n = height[s] \/ (m.hashStop > begin /\ begin + n = m.hashStop - 1)
\* getdata
Answers(s, v) ==
    /\ toClient'[s] = Answered(s, v)[Len(v)]
    /\ hashContinue'[s] = IF hashContinue[s] \in Range(v) THEN 0 ELSE hashContinue[s]
    /\ known'[s] = known[s] /\ toSend'[s] = toSend[s]
\* inv
Learns(s, v) ==
    /\ known'[s] = known[s] \cup Range(v)
    /\ toSend'[s] = toSend[s] /\ hashContinue'[s] = hashContinue[s] /\ toClient'[s] = toClient[s]

LEMMA TellsFacts ==
    ASSUME DownloadInv, NEW s \in Server, NEW m \in GetBlocks, ReceiveGetBlocks(s, m)
    PROVE  \E begin \in Nat, n \in Nat : Tells(s, m, begin, n)
<1> DEFINE begin == GetBlockIndex(s, m.locator)
           end == IF m.hashStop > begin THEN Earlier(m.hashStop - 1, height[s]) ELSE height[s]
           limited == begin + nLimit <= end
           n == IF limited THEN nLimit ELSE end - begin
           sent == [i \in 1..n |-> begin + i]
<1>1. /\ toSend' = [toSend EXCEPT ![s] = Pushed(@, known[s], sent)]
      /\ hashContinue' = [hashContinue EXCEPT ![s] = IF limited THEN begin + nLimit ELSE @]
      /\ UNCHANGED <<height, known, toClient>>
  BY DEF ReceiveGetBlocks
<1>2. m.locator \in Block /\ m.hashStop \in Int /\ nLimit \in Nat \ {0}
  BY BlockFacts DEF GetBlocks
<1>3. begin \in 0 .. height[s] /\ height[s] \in Nat
  BY <1>2, GetBlockIndexFacts, BlockFacts DEF DownloadInv, TypeOK
<1>4. ServerType
  BY TypeParts DEF DownloadInv
<1>5. /\ toSend'[s] = toSend[s] \o Kept(sent, Block \ known[s])
      /\ hashContinue'[s] = IF limited THEN begin + nLimit ELSE hashContinue[s]
  BY <1>1, <1>4 DEF ServerType, Pushed
<1> HIDE DEF begin
<1>6. /\ end \in Nat /\ begin <= end /\ end <= height[s]
      /\ (end = height[s] \/ (m.hashStop > begin /\ end = m.hashStop - 1))
  BY <1>2, <1>3 DEF Earlier
<1> HIDE DEF end
<1>7. n \in Nat /\ begin + n <= height[s] /\ n <= nLimit
  BY <1>2, <1>3, <1>6
<1>8. \/ n = nLimit /\ hashContinue'[s] = begin + nLimit
      \/ /\ hashContinue'[s] = hashContinue[s] /\ begin + nLimit > begin + n
         /\ begin + n = height[s] \/ (m.hashStop > begin /\ begin + n = m.hashStop - 1)
  <2>1. CASE limited
    BY <1>5, <2>1
  <2>2. CASE ~limited
    <3>1. hashContinue'[s] = hashContinue[s] /\ n = end - begin
      BY <1>5, <2>2
    <3>2. begin + n = end /\ begin + nLimit > begin + n
      BY <1>2, <1>3, <1>6, <2>2, <3>1
    <3> QED
      BY <1>6, <3>1, <3>2
  <2> QED
    BY <2>1, <2>2
<1> HIDE DEF n
<1>9. Tells(s, m, begin, n)
  BY <1>1, <1>5, <1>7, <1>8 DEF Tells, begin
<1> QED
  BY <1>3, <1>7, <1>9

LEMMA ServerReceiveDoes ==
    ASSUME DownloadInv, NEW s \in Server, ServerReceive(s), NEW m, m = Head(toServer[s])
    PROVE  /\ Serves(s) /\ m \in ToServer(s)
           /\ \/ /\ m.type = "getblocks" /\ m \in GetBlocks
                 /\ \E begin \in Nat, n \in Nat : Tells(s, m, begin, n)
              \/ m.type = "getdata" /\ m.vInv \in Seq(Has(s)) \ {<<>>} /\ Answers(s, m.vInv)
              \/ m.type = "inv" /\ m.vInv \in Seq(Block) /\ Learns(s, m.vInv)
<1>1. /\ s \in greeted /\ toServer[s] # <<>> /\ toServer' = [toServer EXCEPT ![s] = Tail(@)]
      /\ \/ m.type = "getblocks" /\ ReceiveGetBlocks(s, m)
         \/ m.type = "getdata" /\ ReceiveGetData(s, m.vInv)
         \/ /\ m.type = "inv" /\ known' = [known EXCEPT ![s] = @ \cup Range(m.vInv)]
            /\ UNCHANGED <<height, toSend, hashContinue, toClient>>
      /\ UNCHANGED <<chain, asking, relay, net, fresh>>
  BY DEF ServerReceive
<1>2. ServerType /\ WireType
  BY TypeParts DEF DownloadInv
<1>3. m \in ToServer(s)
  <2>1. toServer[s] \in Seq(ToServer(s))
    BY QueueFacts DEF Queues
  <2> QED
    BY <1>1, <2>1, RangeTail
<1>4. ClientKept
  BY <1>1 DEF ClientKept, ChainKept, NetKept, chain, asking, relay, net
<1>5. toServer'[s] = Tail(toServer[s]) /\ \A t \in Server : t # s => toServer'[t] = toServer[t]
  BY <1>1, <1>2 DEF WireType
<1> DEFINE Others == \A t \in Server : t # s =>
                       /\ toClient'[t] = toClient[t] /\ known'[t] = known[t]
                       /\ toSend'[t] = toSend[t] /\ hashContinue'[t] = hashContinue[t]
<1>6. ASSUME Others, UNCHANGED height PROVE Serves(s)
  BY <1>1, <1>4, <1>5, <1>6 DEF Serves, OthersKept, ClientKept
<1>7. CASE m.type = "getblocks" /\ ReceiveGetBlocks(s, m)
  <2>1. m \in GetBlocks
    BY <1>3, <1>7 DEF ToServer
  <2>2. Others /\ UNCHANGED height
    BY <1>2, <1>7 DEF ReceiveGetBlocks, ServerType
  <2>3. \E begin \in Nat, n \in Nat : Tells(s, m, begin, n)
    BY <1>7, <2>1, TellsFacts
  <2> QED
    BY <1>3, <1>6, <1>7, <2>1, <2>2, <2>3
<1>8. CASE m.type = "getdata" /\ ReceiveGetData(s, m.vInv)
  <2> DEFINE all == Answered(s, m.vInv)[Len(m.vInv)]
  <2>1. m.vInv \in Seq(Has(s)) \ {<<>>}
    BY <1>3, <1>8 DEF ToServer, GetBlocks
  <2>2. /\ toClient' = [toClient EXCEPT ![s] = all]
        /\ hashContinue' = [hashContinue EXCEPT ![s] = IF @ \in Range(m.vInv) THEN 0 ELSE @]
        /\ UNCHANGED <<height, known, toSend>>
    BY <1>8 DEF ReceiveGetData
  <2> HIDE DEF all
  <2>3. Others /\ UNCHANGED height
    BY <1>2, <2>2 DEF ServerType, WireType
  <2>4. /\ toClient'[s] = all /\ known'[s] = known[s] /\ toSend'[s] = toSend[s]
        /\ hashContinue'[s] = IF hashContinue[s] \in Range(m.vInv) THEN 0 ELSE hashContinue[s]
    BY <1>2, <2>2 DEF ServerType, WireType
  <2>5. Answers(s, m.vInv)
    BY <2>4 DEF Answers, all
  <2> QED
    BY <1>3, <1>6, <1>8, <2>1, <2>3, <2>5
<1>9. CASE /\ m.type = "inv" /\ known' = [known EXCEPT ![s] = @ \cup Range(m.vInv)]
           /\ UNCHANGED <<height, toSend, hashContinue, toClient>>
  <2>1. m.vInv \in Seq(Block)
    BY <1>3, <1>9 DEF ToServer, GetBlocks
  <2>2. Others /\ Learns(s, m.vInv)
    BY <1>2, <1>9 DEF ServerType, Learns
  <2> QED
    BY <1>3, <1>6, <1>9, <2>1, <2>2
<1> QED
  BY <1>1, <1>7, <1>8, <1>9

ServerSends(s, v) ==
    /\ s \in greeted /\ OthersKept(s) /\ ClientKept /\ UNCHANGED height
    /\ toServer'[s] = toServer[s] /\ hashContinue'[s] = hashContinue[s]
    /\ v = Unsent(toSend[s], known[s]) /\ toSend'[s] = <<>>
    /\ toClient'[s] = toClient[s] \o inv(v) /\ known'[s] = known[s] \cup Range(v)

LEMMA ServerSendDoes ==
    ASSUME DownloadInv, NEW s \in Server, ServerSend(s)
    PROVE  \E v \in Seq(Has(s)) :
             ServerSends(s, v) /\ SentFrom(v, toSend[s], known[s], Len(toSend[s]))
<1> DEFINE v == Unsent(toSend[s], known[s])
<1>1. /\ s \in greeted
      /\ toClient' = [toClient EXCEPT ![s] = @ \o inv(v)]
      /\ known' = [known EXCEPT ![s] = @ \cup Range(v)]
      /\ toSend' = [toSend EXCEPT ![s] = <<>>]
      /\ UNCHANGED <<chain, asking, relay, height, hashContinue, net, toServer, fresh>>
  BY DEF ServerSend
<1>2. ServerType /\ WireType
  BY TypeParts DEF DownloadInv
<1>3. toSend[s] \in Seq(Has(s))
  BY QueueFacts DEF Queues
<1>4. v \in Seq(Has(s)) /\ SentFrom(v, toSend[s], known[s], Len(toSend[s]))
  BY <1>3, UnsentFacts
<1>5. v = Unsent(toSend[s], known[s])
  OBVIOUS
<1> HIDE DEF v
<1>6. ClientKept
  BY <1>1 DEF ClientKept, ChainKept, NetKept, chain, asking, relay, net
<1>7. OthersKept(s)
  BY <1>1, <1>2, <1>6 DEF OthersKept, ClientKept, ServerType, WireType
<1>8. ServerSends(s, v)
  BY <1>1, <1>2, <1>5, <1>6, <1>7 DEF ServerSends, ServerType, WireType
<1> QED
  BY <1>4, <1>8

\* A block that is found is announced, if it is not known already.
Finds(t, v) ==
    /\ t \in connected /\ OthersKept(t) /\ ClientKept
    /\ height'[t] = height[t] + 1 /\ height[t] + 1 <= MaxHeight
    /\ v \in {<<>>, <<height[t] + 1>>} /\ (v = <<>> => height[t] + 1 \in known[t])
    /\ toSend'[t] = toSend[t] \o v /\ known'[t] = known[t] /\ hashContinue'[t] = hashContinue[t]
    /\ toServer'[t] = toServer[t] /\ toClient'[t] = toClient[t]

LEMMA NewBlockDoes ==
    ASSUME DownloadInv, NEW t \in Server, NewBlock(t)
    PROVE  \E v \in Seq(Main) : Finds(t, v)
<1> DEFINE b == height[t] + 1
           v == Kept(<<b>>, Block \ known[t])
<1>1. /\ t \in connected /\ b <= MaxHeight
      /\ height' = [height EXCEPT ![t] = b]
      /\ toSend' = [toSend EXCEPT ![t] = Pushed(@, known[t], <<b>>)]
      /\ UNCHANGED <<chain, asking, relay, known, hashContinue, net, toServer, toClient>>
  BY DEF NewBlock
<1>2. ServerType
  BY TypeParts DEF DownloadInv
<1>3. b \in Main /\ b \in Block
  BY <1>1, <1>2, BlockFacts DEF ServerType, Main
<1>4. v \in {<<>>, <<b>>} /\ (v = <<>> => b \in known[t]) /\ v \in Seq(Main)
  <2>1. v = IF b \in known[t] THEN <<>> ELSE <<b>>
    BY <1>3, KeptOne
  <2> HIDE DEF v
  <2>2. <<b>> # <<>> /\ <<b>> \in Seq(Main) /\ <<>> \in Seq(Main)
    BY <1>3
  <2> QED
    BY <2>1, <2>2
<1>5. toSend'[t] = toSend[t] \o v
  BY <1>1, <1>2 DEF ServerType, Pushed
<1> HIDE DEF v
<1>6. ClientKept
  BY <1>1 DEF ClientKept, ChainKept, NetKept, chain, asking, relay, net
<1>7. OthersKept(t)
  BY <1>1, <1>2, <1>6 DEF OthersKept, ClientKept, ServerType
<1>8. Finds(t, v)
  BY <1>1, <1>2, <1>4, <1>5, <1>6, <1>7 DEF Finds, ServerType
<1> QED
  BY <1>4, <1>8

\* The version messages: if the client asks, from its best block on.
Greets(s) ==
    /\ s \in connected \ greeted /\ greeted' = greeted \cup {s} /\ UNCHANGED connected
    /\ UNCHANGED <<index, pindexBest, mapOrphanBlocks>> /\ ServerKept
    /\ UNCHANGED <<mapAlreadyAskedFor, mapAskFor, setInventoryKnown, toClient>>
    /\ \A t \in Server : t # s => toServer'[t] = toServer[t] /\ lastGetBlocks'[t] = lastGetBlocks[t]
    /\ \/ nAskedForBlocks # 0 /\ toServer'[s] = toServer[s] /\ lastGetBlocks'[s] = lastGetBlocks[s]
       \/ /\ lastGetBlocks'[s] = <<pindexBest, 0>>
          /\ toServer'[s] = toServer[s] \o
               IF lastGetBlocks[s] = <<pindexBest, 0>> THEN <<>>
               ELSE <<[type |-> "getblocks", locator |-> pindexBest, hashStop |-> 0]>>

LEMMA VersionDoes ==
    ASSUME DownloadInv, NEW s \in Server, Version(s)
    PROVE  Greets(s)
<1>1. /\ s \in connected \ greeted /\ greeted' = greeted \cup {s}
      /\ UNCHANGED <<chain, relay, server, connected, toClient, fresh>>
      /\ IF nAskedForBlocks < 1 \/ Cardinality(connected) <= 1
         THEN Ask(s, PushGetBlocks(Asking(s), pindexBest, 0))
         ELSE UNCHANGED <<asking, toServer>>
  BY DEF Version
<1>2. ServerKept /\ UNCHANGED <<index, pindexBest, mapOrphanBlocks, setInventoryKnown>>
  BY <1>1 DEF ServerKept, chain, relay, server
<1>3. nAskedForBlocks \in Nat
  BY FS_CardinalityType, DownloadAssumption DEF DownloadInv, TypeOK
<1>4. CASE nAskedForBlocks < 1 \/ Cardinality(connected) <= 1
  <2> DEFINE p == PushGetBlocks(Asking(s), pindexBest, 0)
             x == IF lastGetBlocks[s] = <<pindexBest, 0>> THEN <<>>
                  ELSE <<[type |-> "getblocks", locator |-> pindexBest, hashStop |-> 0]>>
  <2>1. Asks(s, p)
    BY <1>1, <1>4, AsksFacts
  <2>2. p.already = mapAlreadyAskedFor /\ p.askFor = mapAskFor[s] /\ p.last = <<pindexBest, 0>> /\ p.out = x
    BY Z3 DEF PushGetBlocks, Asking
  <2> HIDE DEF p, x
  <2>3. AskingType2
    BY TypeParts DEF DownloadInv
  <2>4. mapAskFor' = mapAskFor
    BY <1>1, <1>4, <2>2, <2>3 DEF Ask, AskingType2, p
  <2>5. toServer'[s] = toServer[s] \o x
    BY <2>1, <2>2 DEF Asks
  <2> QED
    BY <1>1, <1>2, <2>1, <2>2, <2>4, <2>5 DEF Greets, Asks, x
<1>5. CASE ~(nAskedForBlocks < 1 \/ Cardinality(connected) <= 1)
  <2>1. nAskedForBlocks # 0
    BY <1>5
  <2>2. UNCHANGED <<mapAlreadyAskedFor, mapAskFor, lastGetBlocks, toServer>>
    BY <1>1, <1>5 DEF asking
  <2> QED
    BY <1>1, <1>2, <2>1, <2>2 DEF Greets
<1> QED
  BY <1>4, <1>5

Leaves(s) ==
    /\ s \in connected /\ connected' = connected \ {s} /\ greeted' = greeted \ {s}
    /\ OthersKept(s) /\ ChainKept /\ UNCHANGED <<mapAlreadyAskedFor, height>>
    /\ toServer'[s] = <<>> /\ toClient'[s] = <<>> /\ mapAskFor'[s] = <<>>
    /\ lastGetBlocks'[s] = <<>> /\ setInventoryKnown'[s] = {}
    /\ known'[s] = {} /\ toSend'[s] = <<>> /\ hashContinue'[s] = 0

LEMMA DisconnectDoes ==
    ASSUME DownloadInv, NEW s \in Server, Disconnect(s)
    PROVE  Leaves(s)
<1>1. AskingType2 /\ RelayType /\ ServerType /\ WireType
  BY TypeParts DEF DownloadInv
<1>2. /\ s \in connected /\ connected' = connected \ {s} /\ greeted' = greeted \ {s}
      /\ toServer' = [toServer EXCEPT ![s] = <<>>] /\ toClient' = [toClient EXCEPT ![s] = <<>>]
      /\ mapAskFor' = [mapAskFor EXCEPT ![s] = <<>>]
      /\ lastGetBlocks' = [lastGetBlocks EXCEPT ![s] = <<>>]
      /\ setInventoryKnown' = [setInventoryKnown EXCEPT ![s] = {}]
      /\ known' = [known EXCEPT ![s] = {}] /\ toSend' = [toSend EXCEPT ![s] = <<>>]
      /\ hashContinue' = [hashContinue EXCEPT ![s] = 0]
      /\ UNCHANGED <<chain, nAskedForBlocks, mapAlreadyAskedFor, height, fresh>>
  BY DEF Disconnect
<1>3. ChainKept
  BY <1>2 DEF ChainKept, chain
<1>4. OthersKept(s)
  BY <1>1, <1>2 DEF OthersKept, AskingType2, RelayType, ServerType, WireType
<1> QED
  BY <1>1, <1>2, <1>3, <1>4 DEF Leaves, AskingType2, RelayType, ServerType, WireType

Passes ==
    /\ ChainKept /\ ServerKept /\ NetKept
    /\ UNCHANGED <<lastGetBlocks, setInventoryKnown, toServer, toClient>>
    /\ \A b \in Block : mapAlreadyAskedFor[b] = Never => mapAlreadyAskedFor'[b] = Never
    /\ \A s \in Server :
         /\ Blocks(mapAskFor'[s]) = Blocks(mapAskFor[s])
         /\ mapAskFor[s] = <<>> => mapAskFor'[s] = <<>>
         /\ \A e \in Range(mapAskFor'[s]) : \E d \in Range(mapAskFor[s]) :
              d[2] = e[2] /\ (d[1] = 0 => e[1] = 0)

LEMMA TickDoes ==
    ASSUME DownloadInv, Tick
    PROVE  Passes
<1>1. /\ mapAlreadyAskedFor' = [b \in Block |-> Later(mapAlreadyAskedFor[b] - 1, Never)]
      /\ mapAskFor' = [s \in Server |->
           [i \in DOMAIN mapAskFor[s] |-> <<Later(mapAskFor[s][i][1] - 1, 0), mapAskFor[s][i][2]>>]]
      /\ UNCHANGED <<chain, nAskedForBlocks, lastGetBlocks, relay, server, net, toServer, toClient, fresh>>
  BY DEF Tick
<1>2. \A b \in Block : mapAlreadyAskedFor[b] = Never => mapAlreadyAskedFor'[b] = Never
  BY <1>1 DEF Never, Later
<1>3. ASSUME NEW s \in Server
      PROVE  /\ Blocks(mapAskFor'[s]) = Blocks(mapAskFor[s])
             /\ mapAskFor[s] = <<>> => mapAskFor'[s] = <<>>
             /\ \A e \in Range(mapAskFor'[s]) : \E d \in Range(mapAskFor[s]) :
                  d[2] = e[2] /\ (d[1] = 0 => e[1] = 0)
  <2> DEFINE q == mapAskFor[s]
             r == [i \in DOMAIN q |-> <<Later(q[i][1] - 1, 0), q[i][2]>>]
  <2>1. q \in Seq(Nat \X Has(s)) /\ mapAskFor'[s] = r
    BY <1>1, QueueFacts DEF Queues
  <2> HIDE DEF q
  <2>2. DOMAIN r = DOMAIN q /\ \A i \in DOMAIN q : r[i][2] = q[i][2] /\ (q[i][1] = 0 => r[i][1] = 0)
    BY DEF Later
  <2>3. q = <<>> => r = <<>>
    OBVIOUS
  <2> HIDE DEF r
  <2>4. Blocks(r) = Blocks(q)
    BY <2>2 DEF Blocks
  <2>5. ASSUME NEW e \in Range(r)
        PROVE  \E d \in Range(q) : d[2] = e[2] /\ (d[1] = 0 => e[1] = 0)
    <3>1. PICK i \in DOMAIN q : r[i] = e
      BY <2>2 DEF Range
    <3>2. q[i] \in Range(q)
      BY DEF Range
    <3> QED
      BY <2>2, <3>1, <3>2
  <2> QED
    BY <2>1, <2>3, <2>4, <2>5 DEF q
<1> QED
  BY <1>1, <1>2, <1>3 DEF Passes, ChainKept, ServerKept, NetKept, chain, relay, server, net

-----------------------------------------------------------------------------
(* What an inventory makes the client ask, in full. *)

\* The getblocks that PushGetBlocks sends.
Get(begin, end) == [type |-> "getblocks", locator |-> begin, hashStop |-> end]

\* Of the requests for the first n of v: what was asked of s before stays, getblocks are
\* for what is missing below an orphan, or follow on the last of v.
AsksSoFar(s, v, a, n) ==
    /\ \A b \in Block : (\A i \in 1..n : v[i] # b) => a.already[b] = mapAlreadyAskedFor[b]
    /\ Wanted(a) \subseteq Wanted(Asking(s)) \cup {v[i] : i \in 1..n}
    /\ \A m \in Range(a.out) :
         \/ \E b \in mapOrphanBlocks : m = Get(pindexBest, GetOrphanRoot(mapOrphanBlocks, b))
         \/ v[Len(v)] \in index /\ m = Get(v[Len(v)], 0)
    /\ a.last = lastGetBlocks[s] \/ \E m \in Range(a.out) : a.last = <<m.locator, m.hashStop>>
    /\ \A i \in 1..n : v[i] \in mapOrphanBlocks =>
         LET root == GetOrphanRoot(mapOrphanBlocks, v[i])
         IN  lastGetBlocks[s] = <<pindexBest, root>> \/ Get(pindexBest, root) \in Range(a.out)

\* One more getblocks: it is sent, unless it repeats the last.
Pushes(a, p, begin, end) ==
    /\ p.already = a.already /\ p.askFor = a.askFor /\ p.last = <<begin, end>>
    /\ Range(a.out) \subseteq Range(p.out) /\ Range(p.out) \subseteq Range(a.out) \cup {Get(begin, end)}
    /\ a.last = <<begin, end>> \/ Get(begin, end) \in Range(p.out)

LEMMA PushGetBlocksDoes ==
    ASSUME NEW B, B \subseteq Block, NEW a \in AskingType(B), NEW begin \in Block, NEW end \in Block
    PROVE  Pushes(a, PushGetBlocks(a, begin, end), begin, end)
<1> DEFINE p == PushGetBlocks(a, begin, end)
<1>1. GetsBlocks(B, a, begin, end) /\ a.out \in Seq(GetBlocks)
  BY PushGetBlocksType, AskingFields
<1>2. Get(begin, end) \in GetBlocks
  BY DEF Get, GetBlocks
<1>3. p.out = IF a.last = <<begin, end>> THEN a.out ELSE Append(a.out, Get(begin, end))
  BY <1>1 DEF GetsBlocks, Get
<1>4. Range(Append(a.out, Get(begin, end))) = Range(a.out) \cup {Get(begin, end)}
  BY <1>1, <1>2, RangeAppend
<1> QED
  BY <1>1, <1>3, <1>4 DEF GetsBlocks, Pushes

LEMMA AsksSoFarStep ==
    ASSUME DownloadInv, NEW s \in Server, NEW v \in Seq(Has(s)), NEW n \in 1 .. Len(v),
           NEW a \in AskingType(Has(s)), AsksSoFar(s, v, a, n - 1)
    PROVE  AsksSoFar(s, v, GotInventory(a, v[n], n = Len(v)), n)
<1> DEFINE b == v[n]
           g == GotInventory(a, b, n = Len(v))
           N == Len(v)
<1>1. Has(s) \subseteq Block /\ b \in Has(s) /\ b \in Block /\ N \in Nat /\ v[n] = b
  <2>1. Has(s) \subseteq Block
    BY HasFacts DEF DownloadInv
  <2>2. b \in Has(s) /\ N \in Nat
    OBVIOUS
  <2> QED
    BY <2>1, <2>2
<1>2. a.already \in [Block -> Int] /\ \A i \in 1..n : i = n \/ i \in 1 .. n - 1
  <2>1. a.already \in [Block -> Int]
    BY <1>1, AskingFields
  <2> QED
    BY <2>1
<1>3. \A i \in 1 .. n - 1 : i \in 1..n
  BY <1>1
<1>4. n \in 1..n
  BY <1>1
<1> HIDE DEF N
<1>5. CASE b \notin Had
  <2>1. g = AskFor(a, b)
    BY <1>5 DEF GotInventory, AlreadyHave
  <2>2. Requested(Has(s), a, b)
    BY <1>1, AskForType
  <2> HIDE DEF g, b
  <2>3. /\ g.already = [a.already EXCEPT ![b] = Later(a.already[b] + 1, 0)]
        /\ g.last = a.last /\ g.out = a.out /\ Wanted(g) = Wanted(a) \cup {b}
    BY <2>1, <2>2 DEF Requested
  <2>4. \A c \in Block : c # b => g.already[c] = a.already[c]
    BY <1>2, <2>3
  <2>5. b \notin mapOrphanBlocks
    BY <1>5 DEF Had
  <2>6. \A c \in Block : (\A i \in 1..n : v[i] # c) => g.already[c] = mapAlreadyAskedFor[c]
    BY <1>1, <1>3, <1>4, <2>4 DEF AsksSoFar
  <2>7. Wanted(g) \subseteq Wanted(Asking(s)) \cup {v[i] : i \in 1..n}
    BY <1>1, <1>3, <1>4, <2>3 DEF AsksSoFar
  <2>8. \A i \in 1..n : v[i] \in mapOrphanBlocks => i \in 1 .. n - 1
    BY <1>1, <1>2, <2>5
  <2>9. AsksSoFar(s, v, g, n)
    BY <2>3, <2>6, <2>7, <2>8 DEF AsksSoFar
  <2> QED
    BY <2>9 DEF g, b
<1>6. ASSUME NEW begin \in Block, NEW end \in Block, g = PushGetBlocks(a, begin, end),
             \/ b \in mapOrphanBlocks /\ begin = pindexBest /\ end = GetOrphanRoot(mapOrphanBlocks, b)
             \/ v[Len(v)] \in index /\ b \notin mapOrphanBlocks /\ begin = v[Len(v)] /\ end = 0
      PROVE  AsksSoFar(s, v, g, n)
  <2> HIDE DEF g, b
  <2>1. /\ g.already = a.already /\ g.askFor = a.askFor /\ g.last = <<begin, end>>
        /\ Range(a.out) \subseteq Range(g.out) /\ Range(g.out) \subseteq Range(a.out) \cup {Get(begin, end)}
        /\ a.last = <<begin, end>> \/ Get(begin, end) \in Range(g.out)
    <3>1. Pushes(a, PushGetBlocks(a, begin, end), begin, end)
      BY <1>1, PushGetBlocksDoes
    <3> QED
      BY <1>6, <3>1 DEF Pushes
  <2>2. Wanted(g) = Wanted(a)
    BY <2>1 DEF Wanted
  <2>3. Get(begin, end).locator = begin /\ Get(begin, end).hashStop = end
    BY DEF Get
  <2>4. \A c \in Block : (\A i \in 1..n : v[i] # c) => g.already[c] = mapAlreadyAskedFor[c]
    BY <1>3, <2>1 DEF AsksSoFar
  <2>5. Wanted(g) \subseteq Wanted(Asking(s)) \cup {v[i] : i \in 1..n}
    BY <1>3, <2>2 DEF AsksSoFar
  <2>6. \A m \in Range(g.out) :
          \/ \E c \in mapOrphanBlocks : m = Get(pindexBest, GetOrphanRoot(mapOrphanBlocks, c))
          \/ v[Len(v)] \in index /\ m = Get(v[Len(v)], 0)
    BY <1>6, <2>1 DEF AsksSoFar
  <2>7. g.last = lastGetBlocks[s] \/ \E m \in Range(g.out) : g.last = <<m.locator, m.hashStop>>
    BY <2>1, <2>3 DEF AsksSoFar
  <2>8. ASSUME NEW i \in 1..n, v[i] \in mapOrphanBlocks
        PROVE  LET root == GetOrphanRoot(mapOrphanBlocks, v[i])
               IN  lastGetBlocks[s] = <<pindexBest, root>> \/ Get(pindexBest, root) \in Range(g.out)
    <3>1. CASE i \in 1 .. n - 1
      BY <2>1, <2>8, <3>1 DEF AsksSoFar
    <3>2. CASE i = n
      <4>1. begin = pindexBest /\ end = GetOrphanRoot(mapOrphanBlocks, v[i])
        BY <1>1, <1>6, <2>8, <3>2
      <4>2. CASE a.last = <<begin, end>>
        <5>1. a.last = lastGetBlocks[s] \/ \E m \in Range(a.out) : a.last = <<m.locator, m.hashStop>>
          BY DEF AsksSoFar
        <5>2. ASSUME NEW m \in Range(a.out), a.last = <<m.locator, m.hashStop>>
              PROVE  m = Get(begin, end)
          <6>1. m \in GetBlocks
            BY <5>2, SeqRange, AskingFields, <1>1
          <6>2. m.locator = begin /\ m.hashStop = end
            BY <4>2, <5>2
          <6> QED
            BY <6>1, <6>2 DEF GetBlocks, Get
        <5> QED
          BY <2>1, <4>1, <4>2, <5>1, <5>2
      <4> QED
        BY <2>1, <4>1, <4>2
    <3> QED
      BY <1>2, <3>1, <3>2
  <2> QED
    BY <2>4, <2>5, <2>6, <2>7, <2>8 DEF AsksSoFar
<1>7. CASE b \in mapOrphanBlocks
  <2> DEFINE root == GetOrphanRoot(mapOrphanBlocks, b)
  <2>1. g = PushGetBlocks(a, pindexBest, root)
    BY <1>7 DEF GotInventory, AlreadyHave, Had
  <2>2. pindexBest \in Block /\ root \in Block
    BY <1>7, AskingFacts, BlockFacts
  <2> QED
    BY <1>6, <1>7, <2>1, <2>2
<1>8. CASE b \in index /\ b \notin mapOrphanBlocks
  <2>1. CASE n = Len(v)
    <3>1. g = PushGetBlocks(a, b, 0)
      BY <1>8, <2>1 DEF GotInventory, AlreadyHave, Had
    <3>2. 0 \in Block /\ b = v[Len(v)]
      BY <2>1, BlockFacts
    <3> QED
      BY <1>1, <1>6, <1>8, <3>1, <3>2
  <2>2. CASE n # Len(v)
    <3>1. g = a
      BY <1>8, <2>2 DEF GotInventory, AlreadyHave, Had
    <3> HIDE DEF g, b
    <3>2. \A i \in 1..n : v[i] \in mapOrphanBlocks => i \in 1 .. n - 1
      BY <1>1, <1>2, <1>8
    <3>3. {v[i] : i \in 1 .. n - 1} \subseteq {v[i] : i \in 1..n}
      BY <1>3
    <3>4. AsksSoFar(s, v, a, n)
      BY <1>3, <3>2, <3>3 DEF AsksSoFar
    <3> QED
      BY <3>1, <3>4 DEF g, b
  <2> QED
    BY <2>1, <2>2
<1> QED
  BY <1>5, <1>7, <1>8 DEF Had

LEMMA AsksAll ==
    ASSUME DownloadInv, NEW s \in Server, NEW v \in Seq(Has(s))
    PROVE  AsksSoFar(s, v, Asked(s, v)[Len(v)], Len(v))
<1> DEFINE N == Len(v)
           f == Asked(s, v)
           G == {n \in 0..N : AsksSoFar(s, v, f[n], n)}
<1>1. Has(s) \subseteq Block /\ Asking(s) \in AskingType(Has(s))
  BY HasFacts, AskingFacts DEF DownloadInv
<1>2. /\ N \in Nat /\ f \in [0..N -> AskingType(Has(s))] /\ f[0] = Asking(s)
      /\ \A n \in 1..N : f[n] = GotInventory(f[n - 1], v[n], n = Len(v))
  <2> DEFINE B == Has(s)
  <2>1. B \subseteq Block /\ Asking(s) \in AskingType(B) /\ v \in Seq(B)
    BY <1>1
  <2> HIDE DEF B
  <2>2. /\ Asked(s, v) \in [0 .. Len(v) -> AskingType(B)] /\ Asked(s, v)[0] = Asking(s)
        /\ \A n \in 1 .. Len(v) : Asked(s, v)[n] = GotInventory(Asked(s, v)[n - 1], v[n], n = Len(v))
    BY <2>1, AskedSteps
  <2> QED
    BY <2>2 DEF B
<1> HIDE DEF f, N
<1>3. 0 \in G
  <2>1. Asking(s).out = <<>> /\ Asking(s).last = lastGetBlocks[s] /\ Asking(s).already = mapAlreadyAskedFor
    BY DEF Asking
  <2>2. Range(<<>>) = {}
    BY DEF Range
  <2>3. AsksSoFar(s, v, Asking(s), 0)
    BY <2>1, <2>2 DEF AsksSoFar
  <2> QED
    BY <1>2, <2>3
<1>4. ASSUME NEW n \in 1..N, n - 1 \in G PROVE n \in G
  <2>1. f[n - 1] \in AskingType(Has(s)) /\ n \in 0..N /\ n \in 1 .. Len(v)
    BY <1>2, <1>4 DEF N
  <2>2. AsksSoFar(s, v, f[n - 1], n - 1)
    BY <1>4
  <2> QED
    BY <1>2, <2>1, <2>2, AsksSoFarStep
<1> HIDE DEF G
<1>5. 0..N \subseteq G
  BY <1>2, <1>3, <1>4, UpTo
<1>6. N \in G
  BY <1>2, <1>5
<1> QED
  BY <1>6 DEF G, f, N

-----------------------------------------------------------------------------
(* What holds of every connection. *)

\* Only the connection with s changes, and the client loses no block.
Local(s) ==
    /\ OthersKept(s) /\ greeted' \ {s} = greeted \ {s} /\ connected' \ {s} = connected \ {s}
    /\ Had \subseteq Had' /\ index \subseteq index'

\* With one peer, only its part is to be shown again.
LEMMA BackgroundOf ==
    ASSUME Background, NEW s \in Server, Local(s), OwnIsThere', Arrives(s)',
           s \in greeted' \/ Silent(s)', Tip[s] <= height'[s], s \in connected' => Found(s)'
    PROVE  Background'
<1>1. ASSUME NEW t \in Server, t # s
      PROVE  /\ toServer'[t] = toServer[t] /\ toClient'[t] = toClient[t]
             /\ mapAskFor'[t] = mapAskFor[t] /\ lastGetBlocks'[t] = lastGetBlocks[t]
             /\ setInventoryKnown'[t] = setInventoryKnown[t]
             /\ height'[t] = height[t] /\ known'[t] = known[t] /\ toSend'[t] = toSend[t]
             /\ hashContinue'[t] = hashContinue[t]
  BY <1>1 DEF Local, OthersKept
<1>2. ASSUME NEW t \in Server, t # s PROVE Arrives(t)'
  <2>1. Announced(t)' = Announced(t)
    BY <1>1, <1>2 DEF Announced
  <2>2. \A m : AsksFrom(m) => AsksFrom(m)'
    BY DEF AsksFrom, Local
  <2>3. Arrives(t)
    BY DEF Background, AnnouncedArrives
  <2> QED
    BY <1>1, <1>2, <2>1, <2>2, <2>3 DEF Arrives, Local
<1>3. ASSUME NEW t \in Server \ greeted', t # s PROVE Silent(t)'
  <2>1. Silent(t)
    BY <1>3 DEF Background, UngreetedAreSilent, Local
  <2> QED
    BY <1>1, <1>3, <2>1 DEF Silent
<1>4. ASSUME NEW t \in Server, t # s PROVE Tip[t] <= height'[t] /\ (t \in connected' => Found(t)')
  <2>1. Tip[t] <= height[t] /\ (t \in connected => Found(t))
    BY DEF Background, FoundAreTold
  <2>2. t \in connected' => t \in connected
    BY <1>4 DEF Local
  <2> QED
    BY <1>1, <1>4, <2>1, <2>2 DEF Found, Told
<1>5. AnnouncedArrives'
  BY <1>2 DEF AnnouncedArrives
<1>6. UngreetedAreSilent'
  BY <1>3 DEF UngreetedAreSilent
<1>7. FoundAreTold'
  BY <1>4 DEF FoundAreTold
<1> QED
  BY <1>5, <1>6, <1>7 DEF Background

\* What a message or an announcement on the connection with s may change.
LEMMA ArrivesAgain ==
    ASSUME NEW s \in Server, Arrives(s), Had \subseteq Had', index \subseteq index',
           setInventoryKnown[s] \subseteq setInventoryKnown'[s],
           Announced(s) \subseteq Announced(s)' \cup setInventoryKnown'[s],
           known'[s] \subseteq known[s] \cup Had' \cup Announced(s)',
           \A m \in Range(toServer'[s]) :
               \/ m \in Range(toServer[s])
               \/ m.type = "inv" /\ Range(m.vInv) \subseteq Had'
               \/ m.type = "getblocks" /\ AsksFrom(m)'
               \/ m.type = "getdata"
    PROVE  Arrives(s)'
<1>1. \A b \in known'[s] : b \in Had' \cup setInventoryKnown'[s] \cup Announced(s)'
  BY DEF Arrives
<1>2. \A m : AsksFrom(m) => AsksFrom(m)'
  BY DEF AsksFrom
<1>3. ASSUME NEW m \in Range(toServer'[s])
      PROVE  /\ m.type = "inv" => Range(m.vInv) \subseteq Had'
             /\ m.type = "getblocks" => AsksFrom(m)'
  BY <1>2, <1>3 DEF Arrives
<1> QED
  BY <1>1, <1>3 DEF Arrives

\* The announcements on the way, and the messages, when the first is gone or more come.
LEMMA QueueTail ==
    ASSUME NEW X, NEW q \in Seq(X), q # <<>>, NEW type
    PROVE  /\ Tail(q) \in Seq(X) /\ Head(q) \in X /\ Range(q) = {Head(q)} \cup Range(Tail(q))
           /\ Carried(q, type) = Range(Of(Head(q), type)) \cup Carried(Tail(q), type)
BY RangeTail, CarriedTail

\* The root of an orphan lies above what follows on the fork.
LEMMA RootIsAbove ==
    ASSUME NEW S, S \subseteq Main \ {0}, NEW I, 0 .. Fork \subseteq I, S \cap I = {},
           \A c \in S : c - 1 \notin I, NEW b \in S
    PROVE  GetOrphanRoot(S, b) \in S /\ GetOrphanRoot(S, b) > Fork + 1
<1> DEFINE r == GetOrphanRoot(S, b)
<1>1. r \in S
  BY RootExists
<1> HIDE DEF r
<1>2. r \in Nat \ {0} /\ r \notin I /\ r - 1 \notin I /\ Fork \in Nat
  BY <1>1, BlockFacts
<1>3. ASSUME r <= Fork + 1 PROVE FALSE
  <2>1. r - 1 \in 0 .. Fork
    BY <1>2, <1>3
  <2> QED
    BY <1>2, <2>1
<1>4. r > Fork + 1
  BY <1>2, <1>3
<1> QED
  BY <1>1, <1>4 DEF r

\* So it is a block from which the client may ask.
LEMMA RootIsHad ==
    ASSUME DownloadInv, 0 .. Fork \subseteq index, NEW b \in mapOrphanBlocks
    PROVE  GetOrphanRoot(mapOrphanBlocks, b) \in {h \in Had : h > Fork + 1}
<1>1. /\ mapOrphanBlocks \subseteq Main \ {0} /\ mapOrphanBlocks \cap index = {}
      /\ \A c \in mapOrphanBlocks : c - 1 \notin index
  BY AskingFacts DEF DownloadInv, TypeOK, ChainIsLinked
<1>2. GetOrphanRoot(mapOrphanBlocks, b) \in mapOrphanBlocks /\ GetOrphanRoot(mapOrphanBlocks, b) > Fork + 1
  BY <1>1, RootIsAbove
<1> QED
  BY <1>2 DEF Had

\* A message with what there is to announce, if anything.
LEMMA AnnouncedMore ==
    ASSUME DownloadInv, NEW s \in Server, NEW v \in Seq(Has(s))
    PROVE  /\ Carried(toClient[s] \o inv(v), "inv") = Carried(toClient[s], "inv") \cup Range(v)
           /\ Carried(toClient[s] \o inv(v), "block") = Carried(toClient[s], "block")
<1> DEFINE m == [type |-> "inv", vInv |-> v]
           q == toClient[s]
<1>1. q \in Seq(ToClient(s))
  BY QueueFacts DEF Queues
<1>2. CASE v = <<>>
  <2>1. q \o inv(v) = q /\ Range(v) = {}
    BY <1>1, <1>2, EmptyIn DEF inv
  <2> HIDE DEF q
  <2> QED
    BY <2>1 DEF q
<1>3. CASE v # <<>>
  <2>1. m \in ToClient(s)
    BY DEF ToClient
  <2>2. q \o inv(v) = Append(q, m)
    BY <1>1, <1>3 DEF inv
  <2>3. Of(m, "inv") = v /\ Of(m, "block") = <<>> /\ Range(<<>>) = {}
    BY EmptyIn DEF Of
  <2> HIDE DEF q, m
  <2>4. /\ Carried(Append(q, m), "inv") = Carried(q, "inv") \cup Range(Of(m, "inv"))
        /\ Carried(Append(q, m), "block") = Carried(q, "block") \cup Range(Of(m, "block"))
    BY <1>1, <2>1, CarriedAppend
  <2> QED
    BY <2>2, <2>3, <2>4 DEF q
<1> QED
  BY <1>2, <1>3

\* An orphan is above what follows on the fork.
LEMMA OrphanIsAbove ==
    ASSUME NEW S, S \subseteq Main \ {0}, NEW I, 0 .. Fork \subseteq I, S \cap I = {},
           \A c \in S : c - 1 \notin I, NEW b \in S
    PROVE  b > Fork + 1
<1>1. b \in Nat \ {0} /\ b \notin I /\ b - 1 \notin I /\ Fork \in Nat
  BY BlockFacts
<1>2. ASSUME b <= Fork + 1 PROVE FALSE
  <2>1. b - 1 \in 0 .. Fork
    BY <1>1, <1>2
  <2> QED
    BY <1>1, <2>1
<1> QED
  BY <1>1, <1>2

\* When the client's own variables stay, so does what is known of its branch.
LEMMA OwnStays ==
    ASSUME OwnIsThere, UNCHANGED <<index, pindexBest>>,
           (connected' = Server /\ greeted' = {}) =>
               /\ connected = Server /\ greeted = {}
               /\ UNCHANGED <<mapOrphanBlocks, nAskedForBlocks>>
               /\ \A b \in Block : mapAlreadyAskedFor[b] = Never => mapAlreadyAskedFor'[b] = Never
    PROVE  OwnIsThere'
<1>1. ASSUME connected' = Server, greeted' = {} PROVE Fresh'
  BY <1>1 DEF OwnIsThere, Fresh
<1> QED
  BY <1>1 DEF OwnIsThere

LEMMA ReceiveInvBackground ==
    ASSUME DownloadInv, Background, NEW s \in Server, ClientReceive(s), Head(toClient[s]).type = "inv"
    PROVE  Background'
<1> DEFINE v == Head(toClient[s]).vInv
           a == Asked(s, v)[Len(v)]
<1>1. /\ Receives(s) /\ v \in Seq(Has(s)) /\ ChainKept
      /\ setInventoryKnown'[s] = setInventoryKnown[s] \cup Range(v)
      /\ Asks(s, a) /\ a \in AskingType(Has(s))
  BY ReceiveInvDoes
<1>2. AsksSoFar(s, v, a, Len(v))
  BY <1>1, AsksAll
<1>3. Announced(s) = Range(v) \cup Announced(s)'
  <2>1. toClient[s] \in Seq(ToClient(s)) /\ toClient[s] # <<>>
    BY <1>1, QueueFacts DEF Queues, Receives
  <2>2. Of(Head(toClient[s]), "inv") = v
    BY DEF Of
  <2> QED
    BY <1>1, <2>1, <2>2, QueueTail DEF Receives, Announced
<1>4. a.out \in Seq(GetBlocks) /\ toServer[s] \in Seq(ToServer(s)) /\ Seq(GetBlocks) \subseteq Seq(ToServer(s))
  BY <1>1, AskingFields, HasFacts, QueueFacts DEF Queues, DownloadInv
<1> HIDE DEF v, a
<1>5. Range(toServer'[s]) = Range(toServer[s]) \cup Range(a.out)
  BY <1>1, <1>4, RangeConcat DEF Asks
<1>6. ASSUME NEW m \in Range(a.out) PROVE m.type = "getblocks" /\ AsksFrom(m)'
  <2>1. UNCHANGED <<index, mapOrphanBlocks>>
    BY <1>1 DEF ChainKept
  <2>2. CASE v[Len(v)] \in index /\ m = Get(v[Len(v)], 0)
    BY <2>1, <2>2 DEF AsksFrom, Get
  <2>3. ASSUME NEW b \in mapOrphanBlocks, m = Get(pindexBest, GetOrphanRoot(mapOrphanBlocks, b))
        PROVE  m.type = "getblocks" /\ AsksFrom(m)'
    <3>1. GetOrphanRoot(mapOrphanBlocks, b) \in {h \in Had : h > Fork + 1}
      BY RootIsHad DEF Background, OwnIsThere
    <3>2. pindexBest \in index
      BY DEF DownloadInv, TypeOK
    <3> QED
      BY <2>1, <2>3, <3>1, <3>2 DEF AsksFrom, Get, Had
  <2> QED
    BY <1>2, <2>2, <2>3 DEF AsksSoFar
<1>7. Local(s)
  BY <1>1 DEF Local, Receives, NetKept, ChainKept, Had
<1>8. Arrives(s)'
  <2>1. Arrives(s) /\ known'[s] = known[s] /\ Had' = Had /\ index' = index
    BY <1>1 DEF Background, AnnouncedArrives, Receives, ServerKept, ChainKept, Had
  <2> QED
    BY <1>1, <1>3, <1>5, <1>6, <2>1, ArrivesAgain
<1>9. OwnIsThere'
  BY <1>1, OwnStays DEF Background, Receives, NetKept, ChainKept
<1>10. s \in greeted' /\ Tip[s] <= height'[s] /\ (s \in connected' => Found(s)')
  BY <1>1 DEF Background, FoundAreTold, Receives, NetKept, ServerKept, Found, Told
<1> QED
  BY <1>7, <1>8, <1>9, <1>10, BackgroundOf

LEMMA ReceiveBlockBackground ==
    ASSUME DownloadInv, Background, DownloadInv', NEW s \in Server, ClientReceive(s),
           Head(toClient[s]).type # "inv"
    PROVE  Background'
<1> DEFINE b == Head(toClient[s]).block
<1>1. /\ Receives(s) /\ b \in Has(s) /\ Head(toClient[s]).type = "block"
      /\ setInventoryKnown'[s] = setInventoryKnown[s] \cup {b}
      /\ \/ HasAlready(s, b)
         \/ \E last \in Main : Accepts(s, b, last)
         \/ \E root \in Main : BecomesOrphan(s, b, root)
  BY ReceiveBlockDoes
<1>2. Announced(s) = Announced(s)'
  <2>1. toClient[s] \in Seq(ToClient(s)) /\ toClient[s] # <<>>
    BY <1>1, QueueFacts DEF Queues, Receives
  <2>2. Of(Head(toClient[s]), "inv") = <<>>
    BY <1>1 DEF Of
  <2>3. Range(<<>>) = {}
    BY DEF Range
  <2>4. Carried(toClient[s], "inv") = Range(<<>>) \cup Carried(Tail(toClient[s]), "inv")
    BY <2>1, <2>2, QueueTail
  <2>5. toClient'[s] = Tail(toClient[s])
    BY <1>1 DEF Receives
  <2> QED
    BY <2>3, <2>4, <2>5 DEF Announced
<1> HIDE DEF b
<1>3. s \in greeted' /\ Tip[s] <= height'[s] /\ (s \in connected' => Found(s)')
  BY <1>1 DEF Background, FoundAreTold, Receives, NetKept, ServerKept, Found, Told
<1>4. Arrives(s) /\ known'[s] = known[s] /\ setInventoryKnown[s] \subseteq setInventoryKnown'[s]
  BY <1>1 DEF Background, AnnouncedArrives, Receives, ServerKept
<1>5. toServer[s] \in Seq(ToServer(s)) /\ Fork \in Nat /\ SideLength \in Nat /\ Own \in Block
      /\ nHeight(Own) = Fork + SideLength
  <2>1. Own \in Block /\ nHeight(Own) = Fork + SideLength
    BY BlockFacts DEF Own, nHeight, Block, Side
  <2> QED
    BY <2>1, QueueFacts, BlockFacts DEF Queues
<1>6. OwnIsThere
  BY DEF Background
<1>7. CASE HasAlready(s, b)
  <2>1. Local(s) /\ Had' = Had /\ index' = index /\ toServer'[s] = toServer[s]
    BY <1>1, <1>7 DEF Local, Receives, NetKept, HasAlready, ChainKept, Had
  <2>2. Arrives(s)'
    BY <1>2, <1>4, <2>1, ArrivesAgain
  <2>3. OwnIsThere'
    BY <1>1, <1>6, <1>7, OwnStays DEF Receives, NetKept, HasAlready, ChainKept
  <2> QED
    BY <1>3, <2>1, <2>2, <2>3, BackgroundOf
<1>8. ASSUME NEW last \in Main, Accepts(s, b, last) PROVE Background'
  <2>1. Had \subseteq Had' /\ index \subseteq index'
    BY <1>8 DEF Accepts, Had
  <2>2. Local(s)
    BY <1>1, <2>1 DEF Local, Receives, NetKept
  <2>3. toServer'[s] = toServer[s]
    <3>1. Erase(Asking(s), b).out = <<>>
      BY DEF Erase, Asking
    <3> QED
      BY <1>5, <1>8, <3>1 DEF Accepts, Asks
  <2>4. Arrives(s)'
    BY <1>2, <1>4, <2>1, <2>3, ArrivesAgain
  <2>5. pindexBest' = Own \/ pindexBest' > Fork + SideLength
    <3>1. pindexBest \in Block /\ pindexBest' \in Block
      BY AskingFacts DEF DownloadInv, TypeOK
    <3>2. pindexBest > Fork + SideLength => nHeight(pindexBest) = pindexBest
      BY <1>5, <3>1, BlockFacts
    <3>3. nHeight(pindexBest) >= Fork + SideLength
      BY <1>5, <1>6, <3>1, <3>2, BlockFacts DEF OwnIsThere
    <3>4. nHeight(pindexBest) \in Nat /\ pindexBest' \in Int
      BY <3>1, BlockFacts
    <3> QED
      BY <1>5, <1>6, <1>8, <3>3, <3>4 DEF OwnIsThere, Accepts
  <2>6. s \in greeted'
    BY <1>3
  <2>7. OwnIsThere'
    BY <1>6, <2>1, <2>5, <2>6 DEF OwnIsThere
  <2> QED
    BY <1>3, <2>2, <2>4, <2>7, BackgroundOf
<1>9. ASSUME NEW root \in Main, BecomesOrphan(s, b, root) PROVE Background'
  <2> DEFINE p == PushGetBlocks(Asking(s), pindexBest, root)
  <2>1. Had \subseteq Had' /\ UNCHANGED <<index, pindexBest>>
    BY <1>9 DEF BecomesOrphan, Had
  <2>2. Local(s)
    BY <1>1, <2>1 DEF Local, Receives, NetKept
  <2>3. OwnIsThere'
    BY <1>3, <1>6, <2>1, OwnStays
  <2>4. Pushes(Asking(s), p, pindexBest, root) /\ p \in AskingType(Has(s)) /\ Range(Asking(s).out) = {}
    <3>1. Asking(s) \in AskingType(Has(s)) /\ pindexBest \in Block /\ Has(s) \subseteq Block
      BY AskingFacts, HasFacts DEF DownloadInv
    <3>2. root \in Block
      BY BlockFacts
    <3>3. Pushes(Asking(s), p, pindexBest, root) /\ GetsBlocks(Has(s), Asking(s), pindexBest, root)
      BY <3>1, <3>2, PushGetBlocksDoes, PushGetBlocksType
    <3> QED
      BY <3>3, AskingFacts, EmptyIn DEF GetsBlocks
  <2> HIDE DEF p
  <2>5. toServer'[s] = toServer[s] \o p.out
    BY <1>9 DEF BecomesOrphan, Asks, Erase, p
  <2>6. p.out \in Seq(ToServer(s))
    BY <2>4, AskingFields, HasFacts DEF DownloadInv
  <2>7. Range(toServer'[s]) = Range(toServer[s]) \cup Range(p.out)
    BY <1>5, <2>5, <2>6, RangeConcat
  <2>8. root > Fork + 1 /\ root \in Had' /\ pindexBest \in index'
    <3>1. /\ mapOrphanBlocks' \subseteq Main \ {0} /\ mapOrphanBlocks' \cap index' = {}
          /\ \A c \in mapOrphanBlocks' : c - 1 \notin index'
      BY DEF DownloadInv, TypeOK, ChainIsLinked
    <3>2. 0 .. Fork \subseteq index' /\ root \in mapOrphanBlocks'
      BY <1>9, <2>3 DEF OwnIsThere, BecomesOrphan
    <3>3. root > Fork + 1
      BY <3>1, <3>2, OrphanIsAbove
    <3> QED
      BY <2>1, <3>2, <3>3 DEF Had, DownloadInv, TypeOK
  <2>9. \A m \in Range(p.out) : m.type = "getblocks" /\ AsksFrom(m)'
    BY <2>4, <2>8 DEF Pushes, Get, AsksFrom
  <2>10. Arrives(s)'
    BY <1>2, <1>4, <2>1, <2>7, <2>9, ArrivesAgain
  <2> QED
    BY <1>3, <2>2, <2>3, <2>10, BackgroundOf
<1> QED
  BY <1>1, <1>7, <1>8, <1>9

LEMMA InvRange ==
    ASSUME NEW X, NEW v \in Seq(X)
    PROVE  /\ inv(v) \in Seq([type : {"inv"}, vInv : Seq(X)])
           /\ Range(inv(v)) = IF v = <<>> THEN {} ELSE {[type |-> "inv", vInv |-> v]}
           /\ getdata(v) \in Seq([type : {"getdata"}, vInv : Seq(X) \ {<<>>}])
           /\ Range(getdata(v)) = IF v = <<>> THEN {} ELSE {[type |-> "getdata", vInv |-> v]}
<1>1. \A m : Range(<<m>>) = {m}
  BY DEF Range
<1>2. CASE v = <<>>
  <2>1. inv(v) = <<>> /\ getdata(v) = <<>>
    BY <1>2 DEF inv, getdata
  <2> DEFINE I == [type : {"inv"}, vInv : Seq(X)]
             G == [type : {"getdata"}, vInv : Seq(X) \ {<<>>}]
  <2>2. Range(<<>>) = {} /\ <<>> \in Seq(I) /\ <<>> \in Seq(G)
    BY EmptyIn
  <2> HIDE DEF I, G
  <2>3. inv(v) \in Seq(I) /\ getdata(v) \in Seq(G) /\ Range(inv(v)) = {} /\ Range(getdata(v)) = {}
    BY <2>1, <2>2
  <2> QED
    BY <1>2, <2>3 DEF I, G
<1>3. CASE v # <<>>
  <2>1. /\ inv(v) = <<[type |-> "inv", vInv |-> v]>>
        /\ getdata(v) = <<[type |-> "getdata", vInv |-> v]>>
    BY <1>3 DEF inv, getdata
  <2>2. /\ [type |-> "inv", vInv |-> v] \in [type : {"inv"}, vInv : Seq(X)]
        /\ [type |-> "getdata", vInv |-> v] \in [type : {"getdata"}, vInv : Seq(X) \ {<<>>}]
    BY <1>3
  <2>3. inv(v) \in Seq([type : {"inv"}, vInv : Seq(X)])
    BY <2>1, <2>2
  <2>4. getdata(v) \in Seq([type : {"getdata"}, vInv : Seq(X) \ {<<>>}])
    BY <2>1, <2>2
  <2> QED
    BY <1>1, <1>3, <2>1, <2>3, <2>4
<1> QED
  BY <1>2, <1>3

\* The queue of messages to s, after SendMessages.
LEMMA SentMessages ==
    ASSUME DownloadInv, NEW s \in Server, NEW v \in Seq(Block), NEW w \in Seq(Has(s))
    PROVE  /\ inv(v) \in Seq(ToServer(s)) /\ getdata(w) \in Seq(ToServer(s))
           /\ toServer[s] \o inv(v) \in Seq(ToServer(s))
           /\ Range(toServer[s] \o inv(v) \o getdata(w)) =
                Range(toServer[s]) \cup Range(inv(v)) \cup Range(getdata(w))
<1>1. toServer[s] \in Seq(ToServer(s))
  BY QueueFacts DEF Queues
<1>2. inv(v) \in Seq(ToServer(s)) /\ getdata(w) \in Seq(ToServer(s))
  <2>1. /\ [type : {"inv"}, vInv : Seq(Block)] \subseteq ToServer(s)
        /\ [type : {"getdata"}, vInv : Seq(Has(s)) \ {<<>>}] \subseteq ToServer(s)
    BY DEF ToServer
  <2> DEFINE I == [type : {"inv"}, vInv : Seq(Block)]
             G == [type : {"getdata"}, vInv : Seq(Has(s)) \ {<<>>}]
  <2>2. inv(v) \in Seq(I) /\ getdata(w) \in Seq(G)
    BY InvRange
  <2> HIDE DEF I, G
  <2>3. I \subseteq ToServer(s) /\ G \subseteq ToServer(s)
    BY <2>1 DEF I, G
  <2>4. Seq(I) \subseteq Seq(ToServer(s)) /\ Seq(G) \subseteq Seq(ToServer(s))
    BY <2>3, SeqMonotone
  <2> QED
    BY <2>2, <2>4
<1>3. toServer[s] \o inv(v) \in Seq(ToServer(s))
  BY <1>1, <1>2
<1>4. Range(toServer[s] \o inv(v)) = Range(toServer[s]) \cup Range(inv(v))
  BY <1>1, <1>2, RangeConcat
<1>5. Range((toServer[s] \o inv(v)) \o getdata(w)) = Range(toServer[s] \o inv(v)) \cup Range(getdata(w))
  <2> DEFINE u == toServer[s] \o inv(v)
             z == getdata(w)
             X == ToServer(s)
  <2>1. u \in Seq(X) /\ z \in Seq(X)
    BY <1>2, <1>3
  <2> HIDE DEF u, z, X
  <2>2. Range(u \o z) = Range(u) \cup Range(z)
    BY <2>1, RangeConcat
  <2> QED
    BY <2>2 DEF u, z
<1> QED
  BY <1>2, <1>3, <1>4, <1>5

LEMMA ClientSendBackground ==
    ASSUME DownloadInv, Background, NEW s \in Server, ClientSend(s)
    PROVE  Background'
<1>1. PICK v \in Seq(Block), w \in Seq(Has(s)) : ClientSends(s, v, w)
  BY ClientSendDoes
<1>2. Local(s) /\ Had' = Had /\ index' = index
  BY <1>1 DEF ClientSends, Local, NetKept, ChainKept, Had
<1>3. OwnIsThere'
  BY <1>1, OwnStays DEF Background, ClientSends, ChainKept, NetKept
<1>4. s \in greeted' /\ Tip[s] <= height'[s] /\ (s \in connected' => Found(s)')
  BY <1>1 DEF Background, FoundAreTold, ClientSends, NetKept, ServerKept, Found, Told
<1>5. \A m \in Range(toServer'[s]) :
        \/ m \in Range(toServer[s])
        \/ m.type = "inv" /\ Range(m.vInv) \subseteq Had'
        \/ m.type = "getdata"
  <2>1. Range(toServer'[s]) = Range(toServer[s]) \cup Range(inv(v)) \cup Range(getdata(w))
    BY <1>1, SentMessages DEF ClientSends
  <2>2. /\ \A m \in Range(inv(v)) : m.type = "inv" /\ m.vInv = v
        /\ \A m \in Range(getdata(w)) : m.type = "getdata"
    <3>1. /\ Range(inv(v)) = IF v = <<>> THEN {} ELSE {[type |-> "inv", vInv |-> v]}
          /\ Range(getdata(w)) = IF w = <<>> THEN {} ELSE {[type |-> "getdata", vInv |-> w]}
      BY InvRange
    <3> QED
      BY <3>1
  <2>3. Range(v) \subseteq Had'
    BY <1>1, <1>2 DEF ClientSends
  <2> QED
    BY <2>1, <2>2, <2>3
<1>6. Arrives(s)'
  <2>1. /\ Arrives(s) /\ known'[s] = known[s] /\ setInventoryKnown[s] \subseteq setInventoryKnown'[s]
        /\ Announced(s)' = Announced(s)
    BY <1>1 DEF Background, AnnouncedArrives, ClientSends, ServerKept, Announced
  <2> QED
    BY <1>2, <1>5, <2>1, ArrivesAgain
<1> QED
  BY <1>2, <1>3, <1>4, <1>6, BackgroundOf

\* What a server tells more of.
After(begin, n) == [i \in 1..n |-> begin + i]
TellsMore(s, begin, n) ==
    LET sent == After(begin, n)
        more == Kept(sent, Block \ known[s])
    IN  /\ sent \in Seq(Has(s)) /\ Range(sent) = begin + 1 .. begin + n
        /\ more \in Seq(Has(s)) /\ Range(more) = (begin + 1 .. begin + n) \ known[s]
        /\ toSend'[s] = toSend[s] \o more /\ Told(s)' = Told(s) \cup (begin + 1 .. begin + n)

LEMMA TellsRange ==
    ASSUME DownloadInv, NEW s \in Server, NEW m \in GetBlocks, NEW begin \in Nat, NEW n \in Nat,
           Tells(s, m, begin, n)
    PROVE  TellsMore(s, begin, n)
<1> DEFINE sent == After(begin, n)
           more == Kept(sent, Block \ known[s])
<1> USE DEF After
<1>1. /\ begin + n <= height[s] /\ toSend'[s] = toSend[s] \o more /\ known'[s] = known[s]
      /\ toSend[s] \in Seq(Has(s)) /\ height[s] \in Nat /\ Has(s) \subseteq Block
  <2>1. height[s] \in Nat
    BY BlockFacts DEF DownloadInv, TypeOK
  <2> QED
    BY <2>1, QueueFacts, HasFacts DEF Tells, Queues, DownloadInv
<1>2. sent \in Seq(Has(s)) /\ Range(sent) = begin + 1 .. begin + n
  <2>1. \A i \in 1..n : begin + i \in Has(s) /\ begin + i \in begin + 1 .. begin + n
    BY <1>1 DEF Has
  <2>2. ASSUME NEW b \in begin + 1 .. begin + n PROVE \E i \in 1..n : begin + i = b
    <3>1. b - begin \in 1..n /\ begin + (b - begin) = b
      BY <2>2
    <3> QED
      BY <3>1
  <2>3. DOMAIN sent = 1..n /\ \A i \in 1..n : sent[i] = begin + i
    OBVIOUS
  <2>4. sent \in Seq(Has(s))
    BY <2>1
  <2> HIDE DEF sent
  <2>5. Range(sent) = {sent[i] : i \in 1..n}
    BY <2>3 DEF Range
  <2> QED
    BY <2>1, <2>2, <2>3, <2>4, <2>5
<1> HIDE DEF sent, After
<1>3. more \in Seq(Has(s)) /\ Range(more) = Range(sent) \cap (Block \ known[s])
  BY <1>2, KeptFacts
<1>4. Range(sent) \subseteq Block
  BY <1>1, <1>2, SeqRange
<1> HIDE DEF more
<1>5. Range(toSend'[s]) = Range(toSend[s]) \cup Range(more)
  BY <1>1, <1>3, RangeConcat
<1>6. Told(s)' = Told(s) \cup Range(sent)
  BY <1>1, <1>3, <1>4, <1>5 DEF Told
<1> QED
  BY <1>1, <1>2, <1>3, <1>4, <1>6 DEF more, sent, TellsMore

LEMMA ServerReceiveBackground ==
    ASSUME DownloadInv, Background, NEW s \in Server, ServerReceive(s)
    PROVE  Background'
<1> DEFINE m == Head(toServer[s])
<1>1. /\ Serves(s) /\ m \in ToServer(s)
      /\ \/ /\ m.type = "getblocks" /\ m \in GetBlocks
            /\ \E begin \in Nat, n \in Nat : Tells(s, m, begin, n)
         \/ m.type = "getdata" /\ m.vInv \in Seq(Has(s)) \ {<<>>} /\ Answers(s, m.vInv)
         \/ m.type = "inv" /\ m.vInv \in Seq(Block) /\ Learns(s, m.vInv)
  BY ServerReceiveDoes
<1>2. Range(toServer[s]) = {m} \cup Range(toServer'[s])
  <2>1. toServer[s] \in Seq(ToServer(s)) /\ toServer[s] # <<>> /\ toServer'[s] = Tail(toServer[s])
    BY <1>1, QueueFacts DEF Queues, Serves
  <2> QED
    BY <2>1, RangeTail
<1> HIDE DEF m
<1>3. Local(s) /\ Had' = Had /\ index' = index /\ setInventoryKnown' = setInventoryKnown
  BY <1>1 DEF Serves, ClientKept, Local, NetKept, ChainKept, Had
<1>4. OwnIsThere'
  BY <1>1, OwnStays DEF Background, Serves, ClientKept, ChainKept, NetKept
<1>5. /\ s \in greeted' /\ Tip[s] <= height'[s] /\ (s \in connected' => Found(s)) /\ Arrives(s)
      /\ height' = height
  BY <1>1 DEF Background, FoundAreTold, AnnouncedArrives, Serves, ClientKept, NetKept
<1>6. ASSUME Told(s) \subseteq Told(s)', known'[s] \subseteq known[s] \cup Had,
             Announced(s) \subseteq Announced(s)'
      PROVE  Background'
  <2>1. Arrives(s)'
    BY <1>2, <1>3, <1>5, <1>6, ArrivesAgain
  <2>2. s \in connected' => Found(s)'
    BY <1>5, <1>6 DEF Found
  <2> QED
    BY <1>3, <1>4, <1>5, <2>1, <2>2, BackgroundOf
<1>7. ASSUME m \in GetBlocks, NEW begin \in Nat, NEW n \in Nat, Tells(s, m, begin, n) PROVE Background'
  <2>1. Told(s) \subseteq Told(s)'
    BY <1>7, TellsRange DEF TellsMore
  <2>2. known'[s] = known[s] /\ Announced(s)' = Announced(s)
    BY <1>7 DEF Tells, Announced
  <2> QED
    BY <1>6, <2>1, <2>2
<1>8. CASE m.type = "getdata" /\ m.vInv \in Seq(Has(s)) \ {<<>>} /\ Answers(s, m.vInv)
  <2>1. known'[s] = known[s] /\ Told(s)' = Told(s)
    BY <1>8 DEF Answers, Told
  <2>2. Range(toClient[s]) \subseteq Range(toClient'[s])
    BY <1>8, AnsweredAll DEF Answers
  <2>3. Announced(s) \subseteq Announced(s)'
    BY <2>2 DEF Announced, Carried
  <2> QED
    BY <1>6, <2>1, <2>3
<1>9. CASE m.type = "inv" /\ m.vInv \in Seq(Block) /\ Learns(s, m.vInv)
  <2>1. m \in Range(toServer[s])
    BY <1>2
  <2>2. Range(m.vInv) \subseteq Had
    BY <1>5, <1>9, <2>1 DEF Arrives
  <2>3. known'[s] = known[s] \cup Range(m.vInv) /\ Told(s) \subseteq Told(s)' /\ Announced(s)' = Announced(s)
    BY <1>9 DEF Learns, Told, Announced
  <2> QED
    BY <1>6, <2>2, <2>3
<1> QED
  BY <1>1, <1>7, <1>8, <1>9

LEMMA ServerSendBackground ==
    ASSUME DownloadInv, Background, NEW s \in Server, ServerSend(s)
    PROVE  Background'
<1>1. PICK v \in Seq(Has(s)) : ServerSends(s, v) /\ SentFrom(v, toSend[s], known[s], Len(toSend[s]))
  BY ServerSendDoes
<1>2. Local(s) /\ Had' = Had /\ index' = index /\ setInventoryKnown' = setInventoryKnown
  BY <1>1 DEF ServerSends, ClientKept, Local, NetKept, ChainKept, Had
<1>3. OwnIsThere'
  BY <1>1, OwnStays DEF Background, ServerSends, ClientKept, ChainKept, NetKept
<1>4. /\ s \in greeted' /\ Tip[s] <= height'[s] /\ (s \in connected' => Found(s)) /\ Arrives(s)
      /\ height' = height /\ toServer'[s] = toServer[s]
  BY <1>1 DEF Background, FoundAreTold, AnnouncedArrives, ServerSends, ClientKept, NetKept
<1>5. Range(v) = Range(toSend[s]) \ known[s]
  <2>1. toSend[s] \in Seq(Has(s))
    BY QueueFacts DEF Queues
  <2>2. \A y : y \in Range(toSend[s]) <=> \E i \in 1 .. Len(toSend[s]) : toSend[s][i] = y
    BY <2>1, SeqRange
  <2> QED
    BY <1>1, <2>2 DEF SentFrom
<1>6. Told(s)' = Told(s)
  <2>1. toSend'[s] = <<>> /\ known'[s] = known[s] \cup Range(v) /\ Range(<<>>) = {}
    BY <1>1, EmptyIn DEF ServerSends
  <2> QED
    BY <1>5, <2>1 DEF Told
<1>7. Announced(s)' = Announced(s) \cup Range(v)
  BY <1>1, AnnouncedMore DEF ServerSends, Announced
<1>8. known'[s] \subseteq known[s] \cup Announced(s)'
  BY <1>1, <1>7 DEF ServerSends
<1>9. Arrives(s)'
  BY <1>2, <1>4, <1>7, <1>8, ArrivesAgain
<1>10. s \in connected' => Found(s)'
  BY <1>4, <1>6 DEF Found
<1> QED
  BY <1>2, <1>3, <1>4, <1>9, <1>10, BackgroundOf

LEMMA FindsTold ==
    ASSUME DownloadInv, NEW t \in Server, NEW v \in Seq(Main), Finds(t, v)
    PROVE  /\ toSend'[t] = toSend[t] \o v /\ toSend[t] \in Seq(Main)
           /\ Range(toSend'[t]) = Range(toSend[t]) \cup Range(v) /\ Range(v) \subseteq {height[t] + 1}
           /\ Told(t)' = Told(t) \cup {height[t] + 1} /\ height[t] \in Nat
<1>1. toSend[t] \in Seq(Main) /\ height[t] \in Nat
  <2>1. toSend[t] \in Seq(Has(t)) /\ Has(t) \subseteq Main
    BY QueueFacts, HasFacts DEF Queues, DownloadInv
  <2> QED
    BY <2>1, SeqMonotone, BlockFacts DEF DownloadInv, TypeOK
<1>2. Range(toSend[t] \o v) = Range(toSend[t]) \cup Range(v)
  BY <1>1, RangeConcat
<1>3. Range(<<>>) = {} /\ Range(<<height[t] + 1>>) = {height[t] + 1}
  BY DEF Range
<1>4. (v = <<>> /\ height[t] + 1 \in known[t]) \/ v = <<height[t] + 1>>
  BY DEF Finds
<1> QED
  BY <1>1, <1>2, <1>3, <1>4 DEF Finds, Told

LEMMA NewBlockBackground ==
    ASSUME DownloadInv, Background, NEW s \in Server, NewBlock(s)
    PROVE  Background'
<1>1. PICK v \in Seq(Main) : Finds(s, v)
  BY NewBlockDoes
<1>2. /\ Range(toSend'[s]) = Range(toSend[s]) \cup Range(v) /\ Range(v) \subseteq {height[s] + 1}
      /\ Told(s)' = Told(s) \cup {height[s] + 1} /\ height[s] \in Nat
  BY <1>1, FindsTold
<1>3. Local(s) /\ Had' = Had /\ index' = index /\ setInventoryKnown' = setInventoryKnown
  BY <1>1 DEF Finds, ClientKept, Local, NetKept, ChainKept, Had
<1>4. OwnIsThere'
  BY <1>1, OwnStays DEF Background, Finds, ClientKept, ChainKept, NetKept
<1>5. /\ Tip[s] <= height[s] /\ Found(s) /\ Arrives(s) /\ height'[s] = height[s] + 1
      /\ toServer'[s] = toServer[s] /\ known'[s] = known[s] /\ Announced(s)' = Announced(s)
  BY <1>1 DEF Background, FoundAreTold, AnnouncedArrives, Finds, Announced
<1>6. Tip[s] \in Nat
  BY DownloadAssumption, BlockFacts DEF Main
<1>7. Tip[s] <= height'[s] /\ Found(s)'
  <2>1. Tip[s] + 1 .. height'[s] \subseteq (Tip[s] + 1 .. height[s]) \cup {height[s] + 1}
    BY <1>2, <1>5, <1>6
  <2>2. Tip[s] <= height'[s]
    BY <1>2, <1>5, <1>6
  <2> QED
    BY <1>2, <1>5, <2>1, <2>2 DEF Found
<1>8. s \in greeted' \/ Silent(s)'
  <2>1. CASE s \in greeted
    BY <1>1, <2>1 DEF Finds, ClientKept, NetKept
  <2>2. CASE s \notin greeted
    <3>1. Silent(s)
      BY <2>2 DEF Background, UngreetedAreSilent
    <3>2. height[s] + 1 > Tip[s]
      BY <1>2, <1>5, <1>6
    <3> QED
      BY <1>1, <1>2, <3>1, <3>2 DEF Silent, Finds, ClientKept
  <2> QED
    BY <2>1, <2>2
<1>9. Arrives(s)'
  BY <1>3, <1>5, ArrivesAgain
<1> QED
  BY <1>3, <1>4, <1>7, <1>8, <1>9, BackgroundOf

LEMMA VersionBackground ==
    ASSUME DownloadInv, Background, NEW s \in Server, Version(s)
    PROVE  Background'
<1>1. Greets(s)
  BY VersionDoes
<1>2. Local(s) /\ Had' = Had /\ index' = index /\ setInventoryKnown' = setInventoryKnown
  BY <1>1 DEF Greets, Local, OthersKept, ServerKept, Had
<1>3. /\ Tip[s] <= height'[s] /\ (s \in connected' => Found(s)') /\ Arrives(s) /\ s \in greeted'
      /\ known'[s] = known[s] /\ Announced(s)' = Announced(s)
  BY <1>1 DEF Background, FoundAreTold, AnnouncedArrives, Greets, ServerKept, Found, Told, Announced
<1>4. OwnIsThere'
  BY <1>1, <1>3, OwnStays DEF Background, Greets
<1>5. \A m \in Range(toServer'[s]) : m \in Range(toServer[s]) \/ (m.type = "getblocks" /\ AsksFrom(m)')
  <2>1. CASE toServer'[s] = toServer[s]
    BY <2>1
  <2>2. ASSUME NEW g, g = Get(pindexBest, 0), toServer'[s] = toServer[s] \o <<g>>
        PROVE  \A m \in Range(toServer'[s]) : m \in Range(toServer[s]) \/ (m.type = "getblocks" /\ AsksFrom(m)')
    <3>1. toServer[s] \in Seq(ToServer(s)) /\ g \in ToServer(s)
      <4>1. pindexBest \in Block /\ 0 \in Block
        BY AskingFacts, BlockFacts
      <4> QED
        BY <2>2, <4>1, QueueFacts DEF Queues, ToServer, GetBlocks, Get
    <3>2. toServer[s] \o <<g>> = Append(toServer[s], g)
      BY <3>1
    <3>3. Range(toServer'[s]) = Range(toServer[s]) \cup {g}
      <4>1. Range(Append(toServer[s], g)) = Range(toServer[s]) \cup {g}
        BY <3>1, RangeAppend
      <4> QED
        BY <2>2, <3>2, <4>1
    <3>4. g.type = "getblocks" /\ AsksFrom(g)'
      <4>1. pindexBest \in index'
        BY <1>2 DEF DownloadInv, TypeOK
      <4>2. g.locator = pindexBest /\ g.hashStop = 0 /\ g.type = "getblocks"
        BY <2>2 DEF Get
      <4>3. g.locator \in index' /\ g.hashStop \in {0}
        BY <4>1, <4>2
      <4> QED
        BY <4>2, <4>3 DEF AsksFrom
    <3> QED
      BY <3>3, <3>4
  <2>3. toServer[s] \o <<>> = toServer[s]
    <3>1. toServer[s] \in Seq(ToServer(s))
      BY QueueFacts DEF Queues
    <3> QED
      BY <3>1
  <2>4. toServer'[s] = toServer[s] \/ toServer'[s] = toServer[s] \o <<Get(pindexBest, 0)>>
    BY <1>1, <2>3 DEF Greets, Get
  <2> QED
    BY <2>1, <2>2, <2>4
<1>6. Arrives(s)'
  BY <1>2, <1>3, <1>5, ArrivesAgain
<1> QED
  BY <1>2, <1>3, <1>4, <1>6, BackgroundOf

LEMMA DisconnectBackground ==
    ASSUME DownloadInv, Background, NEW s \in Server, Disconnect(s)
    PROVE  Background'
<1>1. Leaves(s)
  BY DisconnectDoes
<1>2. Local(s)
  BY <1>1 DEF Leaves, Local, ChainKept, Had
<1>3. OwnIsThere'
  BY <1>1, OwnStays DEF Background, Leaves, ChainKept
<1>4. Range(<<>>) = {}
  BY DEF Range
<1>5. Arrives(s)'
  BY <1>1, <1>4 DEF Leaves, Arrives
<1>6. Silent(s)'
  BY <1>1, <1>4 DEF Leaves, Silent
<1>7. Tip[s] <= height'[s] /\ s \notin connected'
  BY <1>1 DEF Background, FoundAreTold, Leaves
<1> QED
  BY <1>2, <1>3, <1>5, <1>6, <1>7, BackgroundOf

LEMMA TickBackground ==
    ASSUME DownloadInv, Background, Tick
    PROVE  Background'
<1>1. Passes
  BY TickDoes
<1>2. Had' = Had /\ index' = index
  BY <1>1 DEF Passes, ChainKept, Had
<1>3. OwnIsThere'
  BY <1>1, OwnStays DEF Background, Passes, ChainKept, NetKept
<1>4. AnnouncedArrives'
  <2>1. \A m : AsksFrom(m)' <=> AsksFrom(m)
    BY <1>2 DEF AsksFrom
  <2>2. \A s \in Server : Announced(s)' = Announced(s)
    BY <1>1 DEF Passes, Announced
  <2> QED
    BY <1>1, <1>2, <2>1, <2>2 DEF Background, AnnouncedArrives, Arrives, Passes, ServerKept
<1>5. UngreetedAreSilent'
  BY <1>1 DEF Background, UngreetedAreSilent, Silent, Passes, ServerKept, NetKept
<1>6. FoundAreTold'
  BY <1>1 DEF Background, FoundAreTold, Found, Told, Passes, ServerKept, NetKept
<1> QED
  BY <1>3, <1>4, <1>5, <1>6 DEF Background

LEMMA BackgroundNext ==
    ASSUME DownloadInv, DownloadInv', Background, [Next]_vars
    PROVE  Background'
<1>1. ASSUME NEW s \in Server, Work(s) PROVE Background'
  <2>1. CASE ClientReceive(s)
    BY <2>1, ReceiveInvBackground, ReceiveBlockBackground
  <2> QED
    BY <1>1, <2>1, VersionBackground, ClientSendBackground, ServerReceiveBackground, ServerSendBackground
       DEF Work
<1>2. CASE UNCHANGED vars
  BY <1>2 DEF Background, AnnouncedArrives, Arrives, AsksFrom, Had, Announced, UngreetedAreSilent, Silent,
       OwnIsThere, Fresh, FoundAreTold, Found, Told, vars, chain, asking, relay, server, net
<1> QED
  BY <1>1, <1>2, NewBlockBackground, DisconnectBackground, TickBackground DEF Next

LEMMA BackgroundInit ==
    ASSUME Init
    PROVE  Background
<1>1. Range(<<>>) = {} /\ \A type : Carried(<<>>, type) = {}
  BY DEF Range, Carried
<1>2. /\ index = 0 .. Fork \cup Side /\ pindexBest = Own /\ mapOrphanBlocks = {} /\ nAskedForBlocks = 0
      /\ mapAlreadyAskedFor = [b \in Block |-> Never]
  BY DEF Init, Own
<1>3. OwnIsThere
  BY <1>2 DEF OwnIsThere, Fresh
<1>4. AnnouncedArrives
  BY <1>1 DEF Init, AnnouncedArrives, Arrives
<1>5. UngreetedAreSilent
  BY <1>1 DEF Init, UngreetedAreSilent, Silent
<1>6. FoundAreTold
  BY DownloadAssumption, BlockFacts DEF Init, FoundAreTold, Found, Main
<1> QED
  BY <1>3, <1>4, <1>5, <1>6 DEF Background

-----------------------------------------------------------------------------
(* AskFor keeps the low blocks in their order. *)

LEMMA ConcatAt ==
    ASSUME NEW X, NEW p \in Seq(X), NEW q \in Seq(X)
    PROVE  /\ p \o q \in Seq(X) /\ Len(p \o q) = Len(p) + Len(q) /\ Len(p) \in Nat /\ Len(q) \in Nat
           /\ \A i \in 1 .. Len(p) + Len(q) : (p \o q)[i] = IF i <= Len(p) THEN p[i] ELSE q[i - Len(p)]
OBVIOUS

\* u is the blocks of the requests q.
TakesBlocks(u, q, B) ==
    /\ u \in Seq(B) /\ Len(u) = Len(q) /\ \A i \in 1 .. Len(q) : u[i] = q[i][2]
    /\ \A b : b \in Range(u) <=> \E e \in Range(q) : e[2] = b

LEMMA BlocksTaken ==
    ASSUME NEW B, NEW q \in Seq(Nat \X B)
    PROVE  TakesBlocks(Blocks(q), q, B)
<1>1. DOMAIN q = 1 .. Len(q) /\ \A i \in 1 .. Len(q) : q[i] \in Nat \X B
  OBVIOUS
<1>2. Blocks(q) \in Seq(B) /\ Range(Blocks(q)) = {e[2] : e \in Range(q)}
  BY BlocksOf DEF Blocks
<1>3. Len(Blocks(q)) = Len(q) /\ \A i \in 1 .. Len(q) : Blocks(q)[i] = q[i][2]
  <2>1. Blocks(q) = [i \in 1 .. Len(q) |-> q[i][2]]
    BY <1>1 DEF Blocks
  <2> QED
    BY <1>1, <2>1
<1> QED
  BY <1>2, <1>3 DEF TakesBlocks

LEMMA BlocksConcat ==
    ASSUME NEW B, NEW q \in Seq(Nat \X B), NEW r \in Seq(Nat \X B)
    PROVE  Blocks(q \o r) = Blocks(q) \o Blocks(r)
<1> DEFINE P == Nat \X B
<1>1. q \in Seq(P) /\ r \in Seq(P)
  OBVIOUS
<1> HIDE DEF P
<1>2. /\ q \o r \in Seq(P) /\ Len(q \o r) = Len(q) + Len(r) /\ Len(q) \in Nat /\ Len(r) \in Nat
      /\ \A i \in 1 .. Len(q) + Len(r) : (q \o r)[i] = IF i <= Len(q) THEN q[i] ELSE r[i - Len(q)]
  BY <1>1
<1>3. /\ Blocks(q) \in Seq(B) /\ Len(Blocks(q)) = Len(q) /\ \A i \in 1 .. Len(q) : Blocks(q)[i] = q[i][2]
      /\ Blocks(r) \in Seq(B) /\ Len(Blocks(r)) = Len(r) /\ \A i \in 1 .. Len(r) : Blocks(r)[i] = r[i][2]
      /\ Blocks(q \o r) \in Seq(B) /\ Len(Blocks(q \o r)) = Len(q \o r)
      /\ \A i \in 1 .. Len(q \o r) : Blocks(q \o r)[i] = (q \o r)[i][2]
  <2>1. q \in Seq(Nat \X B) /\ r \in Seq(Nat \X B)
    OBVIOUS
  <2>2. TakesBlocks(Blocks(q), q, B) /\ TakesBlocks(Blocks(r), r, B)
    BY <2>1, BlocksTaken
  <2> DEFINE p == q \o r
  <2>3. p \in Seq(Nat \X B)
    BY <1>2 DEF P
  <2> HIDE DEF p
  <2>4. TakesBlocks(Blocks(p), p, B)
    BY <2>3, BlocksTaken
  <2> QED
    BY <2>2, <2>4 DEF TakesBlocks, p
<1>4. /\ Blocks(q) \o Blocks(r) \in Seq(B) /\ Len(Blocks(q) \o Blocks(r)) = Len(q) + Len(r)
      /\ \A i \in 1 .. Len(q) + Len(r) :
           (Blocks(q) \o Blocks(r))[i] = IF i <= Len(q) THEN Blocks(q)[i] ELSE Blocks(r)[i - Len(q)]
  <2>1. /\ Blocks(q) \o Blocks(r) \in Seq(B)
        /\ Len(Blocks(q) \o Blocks(r)) = Len(Blocks(q)) + Len(Blocks(r))
        /\ \A i \in 1 .. Len(Blocks(q)) + Len(Blocks(r)) :
             (Blocks(q) \o Blocks(r))[i] = IF i <= Len(Blocks(q)) THEN Blocks(q)[i]
                                           ELSE Blocks(r)[i - Len(Blocks(q))]
    <3> DEFINE u == Blocks(q)
               w == Blocks(r)
    <3>1. u \in Seq(B) /\ w \in Seq(B)
      BY <1>3
    <3> HIDE DEF u, w
    <3>2. /\ u \o w \in Seq(B) /\ Len(u \o w) = Len(u) + Len(w)
          /\ \A i \in 1 .. Len(u) + Len(w) : (u \o w)[i] = IF i <= Len(u) THEN u[i] ELSE w[i - Len(u)]
      BY <3>1
    <3> QED
      BY <3>2 DEF u, w
  <2> QED
    BY <1>3, <2>1
<1>5. ASSUME NEW i \in 1 .. Len(q) + Len(r) PROVE Blocks(q \o r)[i] = (Blocks(q) \o Blocks(r))[i]
  <2>1. CASE i <= Len(q)
    <3>1. i \in 1 .. Len(q) /\ i \in 1 .. Len(q \o r)
      BY <1>2, <2>1
    <3> QED
      BY <1>2, <1>3, <1>4, <2>1, <3>1
  <2>2. CASE ~(i <= Len(q))
    <3>1. i - Len(q) \in 1 .. Len(r) /\ i \in 1 .. Len(q \o r)
      BY <1>2, <2>2
    <3> DEFINE k == i - Len(q)
    <3>2. Blocks(q \o r)[i] = (q \o r)[i][2] /\ (q \o r)[i] = r[k]
      BY <1>2, <1>3, <2>2, <3>1
    <3>3. (Blocks(q) \o Blocks(r))[i] = Blocks(r)[k]
      BY <1>4, <2>2
    <3>4. Blocks(r)[k] = r[k][2]
      BY <1>3, <3>1
    <3> QED
      BY <3>2, <3>3, <3>4
  <2> QED
    BY <2>1, <2>2
<1> HIDE DEF Blocks
<1> DEFINE u == Blocks(q \o r)
           w == Blocks(q) \o Blocks(r)
<1>6. u \in Seq(B) /\ w \in Seq(B) /\ Len(u) = Len(w) /\ \A i \in 1 .. Len(u) : u[i] = w[i]
  BY <1>2, <1>3, <1>4, <1>5
<1> HIDE DEF u, w
<1>7. u = w
  BY <1>6, SMTT(40)
<1> QED
  BY <1>7 DEF u, w

\* What is left when all the low blocks are.
LEMMA KeptFollows ==
    ASSUME NEW B, NEW q \in Seq(Nat \X B), NEW T, NEW L, NEW A, Follows(Blocks(q), L, A),
           \A x \in L : x - 1 \in L \cup A, \A e \in Range(q) : e[2] \in L => e \in T
    PROVE  Follows(Blocks(Kept(q, T)), L, A)
<1> DEFINE P == Nat \X B
           w == Kept(q, T)
<1>1. q \in Seq(P)
  OBVIOUS
<1> HIDE DEF P
<1>2. /\ w \in Seq(P) /\ Len(w) \in Nat /\ Len(q) \in Nat
      /\ \A j \in 1 .. Len(w) : \E i \in 1 .. Len(q) :
           /\ w[j] = q[i]
           /\ \A h \in 1 .. i - 1 : q[h] \in T => \E k \in 1 .. j - 1 : w[k] = q[h]
  BY <1>1, KeptFacts
<1> HIDE DEF w
<1>3. /\ Len(Blocks(q)) = Len(q) /\ \A i \in 1 .. Len(q) : Blocks(q)[i] = q[i][2]
      /\ Len(Blocks(w)) = Len(w) /\ \A i \in 1 .. Len(w) : Blocks(w)[i] = w[i][2]
  <2>1. q \in Seq(Nat \X B) /\ w \in Seq(Nat \X B)
    BY <1>1, <1>2 DEF P
  <2>2. TakesBlocks(Blocks(q), q, B) /\ TakesBlocks(Blocks(w), w, B)
    BY <2>1, BlocksTaken
  <2> QED
    BY <2>2 DEF TakesBlocks
<1>4. \A i \in 1 .. Len(q) : q[i] \in Range(q)
  BY <1>1, SeqRange
<1>5. ASSUME NEW j \in 1 .. Len(w), w[j][2] \in L
      PROVE  w[j][2] - 1 \in A \/ \E k \in 1 .. j - 1 : w[k][2] = w[j][2] - 1
  <2>1. PICK i \in 1 .. Len(q) :
           /\ w[j] = q[i]
           /\ \A h \in 1 .. i - 1 : q[h] \in T => \E k \in 1 .. j - 1 : w[k] = q[h]
    BY <1>2
  <2>2. \A h \in 1 .. i - 1 : h \in 1 .. Len(q)
    BY <1>2
  <2>3. q[i][2] - 1 \in A \/ \E h \in 1 .. i - 1 : q[h][2] = q[i][2] - 1
    <3>1. i \in 1 .. Len(Blocks(q)) /\ Blocks(q)[i] = q[i][2] /\ Blocks(q)[i] \in L
      BY <1>3, <1>5, <2>1
    <3>2. Blocks(q)[i] - 1 \in A \/ \E h \in 1 .. i - 1 : Blocks(q)[h] = Blocks(q)[i] - 1
      BY <3>1 DEF Follows
    <3>3. \A h \in 1 .. i - 1 : Blocks(q)[h] = q[h][2]
      BY <1>3, <2>2
    <3> QED
      BY <3>1, <3>2, <3>3
  <2>4. ASSUME NEW h \in 1 .. i - 1, q[h][2] = q[i][2] - 1, q[i][2] - 1 \notin A
        PROVE  \E k \in 1 .. j - 1 : w[k][2] = w[j][2] - 1
    <3>1. q[h][2] \in L
      BY <1>5, <2>1, <2>4
    <3>2. q[h] \in T
      BY <1>4, <2>2, <3>1
    <3> QED
      BY <2>1, <2>4, <3>2
  <2> QED
    BY <2>1, <2>3, <2>4
<1>6. ASSUME NEW j \in 1 .. Len(Blocks(w)), Blocks(w)[j] \in L
      PROVE  Blocks(w)[j] - 1 \in A \/ \E k \in 1 .. j - 1 : Blocks(w)[k] = Blocks(w)[j] - 1
  <2>1. j \in 1 .. Len(w) /\ \A k \in 1 .. j - 1 : k \in 1 .. Len(w)
    BY <1>2, <1>3
  <2> QED
    BY <1>3, <1>5, <1>6, <2>1
<1> QED
  BY <1>6 DEF Follows, w

\* The low blocks are asked for at once.
AtOnce(q, L) == \A e \in Range(q) : e[2] \in L => e[1] = 0

LEMMA AskForFollows ==
    ASSUME NEW B, B \subseteq Block, NEW a \in AskingType(B), NEW b \in B, NEW L, NEW A,
           Follows(Blocks(a.askFor), L, A), AtOnce(a.askFor, L), \A x \in L : x - 1 \in L \cup A,
           b \in L => a.already[b] = Never /\ (b - 1 \in A \/ b - 1 \in L \cap Wanted(a))
    PROVE  Follows(Blocks(AskFor(a, b).askFor), L, A) /\ AtOnce(AskFor(a, b).askFor, L)
<1> DEFINE t == Later(a.already[b] + 1, 0)
           q == a.askFor
           p == Kept(q, (0..t) \X Block)
           r == Kept(q, (Nat \ (0..t)) \X Block)
<1>1. /\ AskFor(a, b).askFor = p \o <<<<t, b>>>> \o r
      /\ t \in Nat /\ Range(AskFor(a, b).askFor) = Range(q) \cup {<<t, b>>}
  <2>1. Requested(B, a, b)
    BY AskForType
  <2> QED
    BY <2>1 DEF AskFor, Requested
<1>2. q \in Seq(Nat \X B)
  BY AskingFields
<1>3. b \in L => t = 0
  BY DEF Never, Later
<1> HIDE DEF t, q
<1>4. p \in Seq(Nat \X B) /\ r \in Seq(Nat \X B) /\ <<<<t, b>>>> \in Seq(Nat \X B)
      /\ Range(p) = Range(q) \cap ((0..t) \X Block) /\ Range(r) = Range(q) \cap ((Nat \ (0..t)) \X Block)
  <2> DEFINE P == Nat \X B
  <2>1. q \in Seq(P) /\ <<t, b>> \in P
    BY <1>1, <1>2
  <2> HIDE DEF P
  <2>2. p \in Seq(P) /\ r \in Seq(P)
        /\ Range(p) = Range(q) \cap ((0..t) \X Block) /\ Range(r) = Range(q) \cap ((Nat \ (0..t)) \X Block)
    BY <2>1, KeptFacts
  <2>3. <<<<t, b>>>> \in Seq(P)
    BY <2>1
  <2> QED
    BY <2>2, <2>3 DEF P
<1>5. \A e \in Range(q) : e \in Nat \X Block /\ e = <<e[1], e[2]>>
  <2>1. Range(q) \subseteq Nat \X B
    BY <1>2, SeqRange
  <2> QED
    BY <2>1
<1>6. AtOnce(AskFor(a, b).askFor, L)
  <2>1. <<t, b>>[1] = t /\ <<t, b>>[2] = b
    OBVIOUS
  <2> QED
    BY <1>1, <1>3, <2>1 DEF AtOnce, q
<1>7. Follows(Blocks(p), L, A)
  <2>1. \A e \in Range(q) : e[2] \in L => e \in (0..t) \X Block
    BY <1>1, <1>5 DEF AtOnce, q
  <2> QED
    BY <1>2, <2>1, KeptFollows DEF q
<1> HIDE DEF p, r
<1>8. /\ Blocks(p) \in Seq(B) /\ Blocks(r) \in Seq(B) /\ \A i \in 1 .. Len(r) : Blocks(r)[i] = r[i][2]
      /\ Len(Blocks(r)) = Len(r) /\ \A c : c \in Range(Blocks(p)) <=> \E e \in Range(p) : e[2] = c
  <2>1. TakesBlocks(Blocks(p), p, B) /\ TakesBlocks(Blocks(r), r, B)
    BY <1>4, BlocksTaken
  <2> QED
    BY <2>1 DEF TakesBlocks
<1>9. Blocks(<<<<t, b>>>>) = <<b>>
  <2>1. <<t, b>>[2] = b /\ DOMAIN <<<<t, b>>>> = {1} /\ <<<<t, b>>>>[1] = <<t, b>>
    OBVIOUS
  <2>2. Blocks(<<<<t, b>>>>) = [i \in {1} |-> b]
    BY <2>1 DEF Blocks
  <2>3. <<b>> = [i \in {1} |-> b]
    OBVIOUS
  <2> QED
    BY <2>2, <2>3
<1>10. Follows(<<b>>, L, A \cup Range(Blocks(p)))
  <2>1. ASSUME b \in L, b - 1 \in L \cap Wanted(a) PROVE b - 1 \in Range(Blocks(p))
    <3>1. PICK e \in Range(q) : e[2] = b - 1
      BY <2>1 DEF Wanted, q
    <3>2. e[1] = 0
      BY <2>1, <3>1 DEF AtOnce, q
    <3>3. e \in Range(p)
      BY <1>1, <1>4, <1>5, <3>2
    <3> QED
      BY <1>8, <3>1, <3>3
  <2>2. Len(<<b>>) = 1 /\ <<b>>[1] = b /\ \A k \in 1..1 : k = 1
    OBVIOUS
  <2> QED
    BY <2>1, <2>2 DEF Follows
<1>11. Follows(Blocks(p) \o <<b>>, L, A)
  BY <1>7, <1>8, <1>10, FollowsConcat, SMTT(40)
<1>12. Follows(Blocks(r), L, A \cup Range(Blocks(p) \o <<b>>))
  <2>1. ASSUME NEW i \in 1 .. Len(r) PROVE r[i][2] \notin L
    <3>1. r[i] \in Range(r)
      BY <1>4, SeqRange
    <3>2. r[i] \in Range(q) /\ r[i][1] \notin 0..t /\ r[i][1] \in Nat
      BY <1>4, <1>5, <3>1
    <3>3. r[i][1] # 0
      BY <1>1, <3>2
    <3> QED
      BY <3>2, <3>3 DEF AtOnce, q
  <2> QED
    BY <1>8, <2>1 DEF Follows
<1>13. Follows((Blocks(p) \o <<b>>) \o Blocks(r), L, A)
  <2>1. Blocks(p) \o <<b>> \in Seq(B)
    BY <1>8
  <2> QED
    BY <1>8, <1>11, <1>12, <2>1, FollowsConcat
<1>14. Blocks(p \o <<<<t, b>>>> \o r) = (Blocks(p) \o <<b>>) \o Blocks(r)
  <2>1. Blocks(p \o <<<<t, b>>>>) = Blocks(p) \o <<b>>
    <3>1. Blocks(p \o <<<<t, b>>>>) = Blocks(p) \o Blocks(<<<<t, b>>>>)
      BY <1>4, BlocksConcat, ZenonT(40)
    <3> QED
      BY <3>1, <1>9
  <2>2. p \o <<<<t, b>>>> \in Seq(Nat \X B)
    <3> DEFINE P == Nat \X B
    <3>1. p \in Seq(P) /\ <<<<t, b>>>> \in Seq(P)
      BY <1>4
    <3> HIDE DEF P
    <3>2. p \o <<<<t, b>>>> \in Seq(P)
      BY <3>1
    <3> QED
      BY <3>2 DEF P
  <2>3. Blocks((p \o <<<<t, b>>>>) \o r) = Blocks(p \o <<<<t, b>>>>) \o Blocks(r)
    BY <1>4, <2>2, BlocksConcat, ZenonT(40)
  <2> QED
    BY <2>1, <2>3
<1>15. AskFor(a, b).askFor = (p \o <<<<t, b>>>>) \o r
  BY <1>1 DEF p, r
<1> QED
  BY <1>6, <1>13, <1>14, <1>15

\* What the first n blocks of an inventory leave in a, the low ones in order.
AsksInOrder(s, v, L, A, a, n) ==
    /\ Follows(Blocks(a.askFor), L, A) /\ AtOnce(a.askFor, L)
    /\ Range(AskedFor(s)) \subseteq Wanted(a)
    /\ \A i \in 1..n : v[i] \notin Had => v[i] \in Wanted(a)

LEMMA AsksInOrderStep ==
    ASSUME DownloadInv, NEW s \in Server, NEW v \in Seq(Has(s)), NEW n \in 1 .. Len(v), NEW L, NEW A,
           Follows(v, L, A \cup Range(AskedFor(s))), \A x \in L : x - 1 \in L \cup A,
           \A i \in 1 .. Len(v) : v[i] \in L =>
               /\ mapAlreadyAskedFor[v[i]] = Never /\ v[i] \notin Had
               /\ \A j \in 1 .. Len(v) : v[j] = v[i] => j = i,
           NEW a \in AskingType(Has(s)), AsksSoFar(s, v, a, n - 1), AsksInOrder(s, v, L, A, a, n - 1)
    PROVE  AsksInOrder(s, v, L, A, GotInventory(a, v[n], n = Len(v)), n)
<1> DEFINE b == v[n]
           g == GotInventory(a, b, n = Len(v))
<1>1. b \in Has(s) /\ Has(s) \subseteq Block /\ Len(v) \in Nat
  <2>1. Has(s) \subseteq Block
    BY HasFacts DEF DownloadInv
  <2> QED
    BY <2>1
<1>2. /\ Wanted(a) \subseteq Wanted(g) /\ (b \in Had \/ b \in Wanted(g))
  BY <1>1, GotInventoryType DEF AlreadyHave
<1>3. \A i \in 1..n : i = n \/ i \in 1 .. n - 1
  OBVIOUS
<1>4. b \in L => a.already[b] = Never /\ (b - 1 \in A \/ b - 1 \in L \cap Wanted(a))
  <2>1. SUFFICES ASSUME b \in L PROVE a.already[b] = Never /\ (b - 1 \in A \/ b - 1 \in L \cap Wanted(a))
    OBVIOUS
  <2>2. \A i \in 1 .. n - 1 : v[i] # b
    BY <2>1
  <2>3. a.already[b] = Never
    BY <1>1, <2>1, <2>2 DEF AsksSoFar
  <2>4. b - 1 \in L \cup A
    BY <2>1
  <2>5. b - 1 \in A \/ b - 1 \in Range(AskedFor(s)) \/ \E l \in 1 .. n - 1 : v[l] = b - 1
    BY <2>1 DEF Follows
  <2>6. b - 1 \in Range(AskedFor(s)) => b - 1 \in Wanted(a)
    BY DEF AsksInOrder
  <2>7. ASSUME NEW l \in 1 .. n - 1, v[l] = b - 1, b - 1 \in L PROVE b - 1 \in Wanted(a)
    <3>1. l \in 1 .. Len(v) /\ v[l] \in L
      BY <2>7
    <3>2. v[l] \notin Had
      BY <3>1
    <3> QED
      BY <2>7, <3>2 DEF AsksInOrder
  <2> QED
    BY <2>3, <2>4, <2>5, <2>6, <2>7
<1>5. Follows(Blocks(g.askFor), L, A) /\ AtOnce(g.askFor, L)
  <2>1. CASE b \notin Had
    <3>1. g = AskFor(a, b)
      BY <2>1 DEF GotInventory, AlreadyHave
    <3>2. Follows(Blocks(AskFor(a, b).askFor), L, A) /\ AtOnce(AskFor(a, b).askFor, L)
      BY <1>1, <1>4, AskForFollows DEF AsksInOrder
    <3> QED
      BY <3>1, <3>2
  <2>2. CASE b \in Had
    <3>1. g.askFor = a.askFor
      BY <2>2 DEF GotInventory, AlreadyHave, PushGetBlocks
    <3> QED
      BY <3>1 DEF AsksInOrder
  <2> QED
    BY <2>1, <2>2
<1> QED
  BY <1>2, <1>3, <1>5 DEF AsksInOrder

LEMMA InventoryInOrder ==
    ASSUME DownloadInv, NEW s \in Server, NEW v \in Seq(Has(s)), NEW L, NEW A,
           Follows(AskedFor(s), L, A), AtOnce(mapAskFor[s], L),
           Follows(v, L, A \cup Range(AskedFor(s))), \A x \in L : x - 1 \in L \cup A,
           \A i \in 1 .. Len(v) : v[i] \in L =>
               /\ mapAlreadyAskedFor[v[i]] = Never /\ v[i] \notin Had
               /\ \A j \in 1 .. Len(v) : v[j] = v[i] => j = i
    PROVE  AsksInOrder(s, v, L, A, Asked(s, v)[Len(v)], Len(v))
<1> DEFINE N == Len(v)
           f == Asked(s, v)
           G == {n \in 0..N : AsksSoFar(s, v, f[n], n) /\ AsksInOrder(s, v, L, A, f[n], n)}
<1>1. /\ Has(s) \subseteq Block /\ Asking(s) \in AskingType(Has(s)) /\ Asking(s).askFor = mapAskFor[s]
      /\ mapAskFor[s] \in Seq(Nat \X Has(s))
  BY HasFacts, AskingFacts DEF DownloadInv, OnlyWhatItHas
<1>2. /\ N \in Nat /\ f \in [0..N -> AskingType(Has(s))] /\ f[0] = Asking(s)
      /\ \A n \in 1..N : f[n] = GotInventory(f[n - 1], v[n], n = Len(v))
  <2> DEFINE B == Has(s)
  <2>1. B \subseteq Block /\ Asking(s) \in AskingType(B) /\ v \in Seq(B)
    BY <1>1
  <2> HIDE DEF B
  <2>2. /\ Asked(s, v) \in [0 .. Len(v) -> AskingType(B)] /\ Asked(s, v)[0] = Asking(s)
        /\ \A n \in 1 .. Len(v) : Asked(s, v)[n] = GotInventory(Asked(s, v)[n - 1], v[n], n = Len(v))
    BY <2>1, AskedSteps
  <2> QED
    BY <2>2 DEF B
<1> HIDE DEF f, N
<1>3. 0 \in G
  <2>1. Asking(s).out = <<>> /\ Asking(s).last = lastGetBlocks[s] /\ Asking(s).already = mapAlreadyAskedFor
    BY DEF Asking
  <2>2. Range(<<>>) = {}
    BY DEF Range
  <2>3. AsksSoFar(s, v, Asking(s), 0)
    BY <2>1, <2>2 DEF AsksSoFar
  <2>4. Range(AskedFor(s)) = Wanted(Asking(s))
    <3>1. Range(Blocks(mapAskFor[s])) = {e[2] : e \in Range(mapAskFor[s])}
      BY <1>1, BlocksOf DEF Blocks
    <3> QED
      BY <1>1, <3>1 DEF Wanted, AskedFor
  <2>5. AsksInOrder(s, v, L, A, Asking(s), 0)
    BY <1>1, <2>4 DEF AsksInOrder, AskedFor
  <2> QED
    BY <1>2, <2>3, <2>5
<1>4. ASSUME NEW n \in 1..N, n - 1 \in G PROVE n \in G
  <2>1. f[n - 1] \in AskingType(Has(s)) /\ n \in 0..N /\ n \in 1 .. Len(v)
    BY <1>2, <1>4 DEF N
  <2>2. AsksSoFar(s, v, f[n - 1], n - 1) /\ AsksInOrder(s, v, L, A, f[n - 1], n - 1)
    BY <1>4
  <2>3. AsksSoFar(s, v, GotInventory(f[n - 1], v[n], n = Len(v)), n)
    BY <2>1, <2>2, AsksSoFarStep
  <2>4. AsksInOrder(s, v, L, A, GotInventory(f[n - 1], v[n], n = Len(v)), n)
    BY <2>1, <2>2, AsksInOrderStep
  <2> QED
    BY <1>2, <2>1, <2>3, <2>4
<1> HIDE DEF G
<1>5. 0..N \subseteq G
  BY <1>2, <1>3, <1>4, UpTo
<1>6. N \in G
  BY <1>2, <1>5
<1> QED
  BY <1>6 DEF G, f, N

(* A batch that is answered keeps the low blocks in order. *)

\* q after the first n of v are answered, on top of toClient[s].
AnswersSoFar(s, v, L, I, B, q, n) ==
    /\ Orderly(q, "block", L, I) /\ Carried(q, "block") = Sent(s) \cup {v[i] : i \in 1..n}
    /\ Orderly(q, "inv", L, B) /\ Once(q, "inv", L)
    /\ Announced(s) \subseteq Carried(q, "inv") /\ Carried(q, "inv") \subseteq Announced(s) \cup {height[s]}
    /\ \A m \in Range(q) : m.type = "inv" => m \in Range(toClient[s]) \/ m.vInv = <<height[s]>>
    /\ Len(toClient[s]) <= Len(q) /\ \A i \in 1 .. Len(toClient[s]) : q[i] = toClient[s][i]
\* The block at the end of a batch is followed by the best block.
Continued(q, e, best) ==
    \E i \in 1 .. Len(q) : /\ q[i].type = "inv" /\ q[i].vInv = <<best>>
                           /\ \E h \in 1 .. i - 1 : q[h].type = "block" /\ q[h].block = e

LEMMA AppendAt ==
    ASSUME NEW X, NEW q \in Seq(X), NEW m \in X
    PROVE  /\ Append(q, m) \in Seq(X) /\ Len(Append(q, m)) = Len(q) + 1 /\ Len(q) \in Nat
           /\ \A i \in 1 .. Len(q) : Append(q, m)[i] = q[i]
           /\ Append(q, m)[Len(q) + 1] = m
OBVIOUS

LEMMA ContinuedStays ==
    ASSUME NEW X, NEW q \in Seq(X), NEW m \in X, NEW e, NEW best, Continued(q, e, best)
    PROVE  Continued(Append(q, m), e, best)
<1>1. PICK i \in 1 .. Len(q) : /\ q[i].type = "inv" /\ q[i].vInv = <<best>>
                               /\ \E h \in 1 .. i - 1 : q[h].type = "block" /\ q[h].block = e
  BY DEF Continued
<1>2. PICK h \in 1 .. i - 1 : q[h].type = "block" /\ q[h].block = e
  BY <1>1
<1>3. /\ Len(q) \in Nat /\ Len(Append(q, m)) = Len(q) + 1
      /\ \A j \in 1 .. Len(q) : Append(q, m)[j] = q[j]
  BY AppendAt
<1>4. i \in 1 .. Len(Append(q, m)) /\ h \in 1 .. Len(q)
  BY <1>3
<1>5. Append(q, m)[i] = q[i] /\ Append(q, m)[h] = q[h]
  BY <1>3, <1>4
<1> QED
  BY <1>1, <1>2, <1>4, <1>5 DEF Continued

LEMMA AnswersBlock ==
    ASSUME DownloadInv, NEW s \in Server, NEW v \in Seq(Has(s)), NEW n \in 1 .. Len(v),
           NEW L, NEW I, NEW B, Follows(v, L, I \cup Sent(s)),
           NEW q \in Seq(ToClient(s)), AnswersSoFar(s, v, L, I, B, q, n - 1),
           NEW m \in ToClient(s), m.type = "block", m.block = v[n]
    PROVE  AnswersSoFar(s, v, L, I, B, Append(q, m), n)
<1>1. Of(m, "block") = <<v[n]>> /\ Of(m, "inv") = <<>> /\ v[n] \in Has(s) /\ Len(v) \in Nat
  BY OfFacts DEF DownloadInv
<1>2. Range(<<v[n]>>) = {v[n]} /\ Range(<<>>) = {}
  BY DEF Range
<1>3. {v[i] : i \in 1..n} = {v[i] : i \in 1 .. n - 1} \cup {v[n]}
  <2>1. n \in 1..n /\ \A i \in 1..n : i = n \/ i \in 1 .. n - 1
    OBVIOUS
  <2>2. \A i \in 1 .. n - 1 : i \in 1..n
    OBVIOUS
  <2> QED
    BY <2>1, <2>2
<1>4. Carried(Append(q, m), "block") = Sent(s) \cup {v[i] : i \in 1..n}
  <2>1. Carried(Append(q, m), "block") = Carried(q, "block") \cup Range(Of(m, "block"))
    BY CarriedAppend
  <2> QED
    BY <1>1, <1>2, <1>3, <2>1 DEF AnswersSoFar
<1>5. Carried(Append(q, m), "inv") = Carried(q, "inv")
  <2>1. Carried(Append(q, m), "inv") = Carried(q, "inv") \cup Range(Of(m, "inv"))
    BY CarriedAppend
  <2> QED
    BY <1>1, <1>2, <2>1
<1>6. Follows(<<v[n]>>, L, I \cup Carried(q, "block"))
  <2>1. Carried(q, "block") = Sent(s) \cup {v[i] : i \in 1 .. n - 1}
    BY DEF AnswersSoFar
  <2>2. v[n] \in L => v[n] - 1 \in I \cup Sent(s) \/ \E l \in 1 .. n - 1 : v[l] = v[n] - 1
    BY DEF Follows
  <2>3. Len(<<v[n]>>) = 1 /\ <<v[n]>>[1] = v[n] /\ \A k \in 1..1 : k = 1
    OBVIOUS
  <2> QED
    BY <2>1, <2>2, <2>3 DEF Follows
<1>7. Orderly(Append(q, m), "block", L, I)
  BY <1>1, <1>6, OrderlyAppend DEF AnswersSoFar
<1>8. Follows(<<>>, L, B \cup Carried(q, "inv"))
  BY DEF Follows
<1>9. Orderly(Append(q, m), "inv", L, B)
  BY <1>1, <1>8, OrderlyAppend DEF AnswersSoFar
<1>10. Once(Append(q, m), "inv", L)
  <2>1. \A p \in ToClient(s) : Of(p, "inv") \in Seq(Has(s))
    BY OfFacts DEF DownloadInv
  <2>2. Once(q, "inv", L)
    BY DEF AnswersSoFar
  <2>3. \A b \in L : b \in Range(Of(m, "inv")) => b \notin Carried(q, "inv")
    BY <1>1, <1>2
  <2>4. \A k, l \in 1 .. Len(Of(m, "inv")) :
          Of(m, "inv")[k] \in L /\ Of(m, "inv")[l] = Of(m, "inv")[k] => k = l
    BY <1>1
  <2> QED
    BY <2>1, <2>2, <2>3, <2>4, OnceAppend
<1>11. \A p \in Range(Append(q, m)) : p.type = "inv" => p \in Range(toClient[s]) \/ p.vInv = <<height[s]>>
  <2>1. Range(Append(q, m)) = Range(q) \cup {m}
    BY RangeAppend
  <2> QED
    BY <2>1 DEF AnswersSoFar
<1>12. /\ Len(toClient[s]) <= Len(Append(q, m))
       /\ \A i \in 1 .. Len(toClient[s]) : Append(q, m)[i] = toClient[s][i]
  <2>1. Len(toClient[s]) <= Len(q) /\ \A i \in 1 .. Len(toClient[s]) : q[i] = toClient[s][i]
    BY DEF AnswersSoFar
  <2>2. /\ Len(q) \in Nat /\ Len(Append(q, m)) = Len(q) + 1
        /\ \A j \in 1 .. Len(q) : Append(q, m)[j] = q[j]
    BY AppendAt
  <2>3. Len(toClient[s]) \in Nat
    BY QueueFacts DEF Queues
  <2>4. \A i \in 1 .. Len(toClient[s]) : i \in 1 .. Len(q)
    BY <2>1, <2>2, <2>3
  <2> QED
    BY <2>1, <2>2, <2>3, <2>4
<1> QED
  BY <1>4, <1>5, <1>7, <1>9, <1>10, <1>11, <1>12 DEF AnswersSoFar

LEMMA AnswersBest ==
    ASSUME DownloadInv, NEW s \in Server, NEW v, NEW n, NEW L, NEW I, NEW B, height[s] \notin L,
           NEW q \in Seq(ToClient(s)), AnswersSoFar(s, v, L, I, B, q, n),
           NEW m \in ToClient(s), m.type = "inv", m.vInv = <<height[s]>>
    PROVE  AnswersSoFar(s, v, L, I, B, Append(q, m), n)
<1>1. Of(m, "inv") = <<height[s]>> /\ Of(m, "block") = <<>>
  BY OfFacts DEF DownloadInv
<1>2. Range(<<height[s]>>) = {height[s]} /\ Range(<<>>) = {}
  BY DEF Range
<1>4. Carried(Append(q, m), "block") = Carried(q, "block")
  <2>1. Carried(Append(q, m), "block") = Carried(q, "block") \cup Range(Of(m, "block"))
    BY CarriedAppend
  <2> QED
    BY <1>1, <1>2, <2>1
<1>5. Carried(Append(q, m), "inv") = Carried(q, "inv") \cup {height[s]}
  <2>1. Carried(Append(q, m), "inv") = Carried(q, "inv") \cup Range(Of(m, "inv"))
    BY CarriedAppend
  <2> QED
    BY <1>1, <1>2, <2>1
<1>6. Follows(<<>>, L, I \cup Carried(q, "block"))
  BY DEF Follows
<1>7. Orderly(Append(q, m), "block", L, I)
  BY <1>1, <1>6, OrderlyAppend DEF AnswersSoFar
<1>8. Follows(<<height[s]>>, L, B \cup Carried(q, "inv"))
  <2>3. Len(<<height[s]>>) = 1 /\ <<height[s]>>[1] = height[s] /\ \A k \in 1..1 : k = 1
    OBVIOUS
  <2> QED
    BY <2>3 DEF Follows
<1>9. Orderly(Append(q, m), "inv", L, B)
  BY <1>1, <1>8, OrderlyAppend DEF AnswersSoFar
<1>10. Once(Append(q, m), "inv", L)
  <2>1. \A p \in ToClient(s) : Of(p, "inv") \in Seq(Has(s))
    BY OfFacts DEF DownloadInv
  <2>2. Once(q, "inv", L)
    BY DEF AnswersSoFar
  <2>3. \A b \in L : b \in Range(Of(m, "inv")) => b \notin Carried(q, "inv")
    BY <1>1, <1>2
  <2>4. \A k, l \in 1 .. Len(Of(m, "inv")) :
          Of(m, "inv")[k] \in L /\ Of(m, "inv")[l] = Of(m, "inv")[k] => k = l
    BY <1>1
  <2>5. Of(m, "inv") \in Seq(Has(s))
    BY <2>1
  <2> QED
    BY <2>1, <2>2, <2>3, <2>4, <2>5, OnceAppend
<1>11. \A p \in Range(Append(q, m)) : p.type = "inv" => p \in Range(toClient[s]) \/ p.vInv = <<height[s]>>
  <2>1. Range(Append(q, m)) = Range(q) \cup {m}
    BY RangeAppend
  <2> QED
    BY <2>1 DEF AnswersSoFar
<1>12. /\ Len(toClient[s]) <= Len(Append(q, m))
       /\ \A i \in 1 .. Len(toClient[s]) : Append(q, m)[i] = toClient[s][i]
  <2>1. Len(toClient[s]) <= Len(q) /\ \A i \in 1 .. Len(toClient[s]) : q[i] = toClient[s][i]
    BY DEF AnswersSoFar
  <2>2. /\ Len(q) \in Nat /\ Len(Append(q, m)) = Len(q) + 1
        /\ \A j \in 1 .. Len(q) : Append(q, m)[j] = q[j]
    BY AppendAt
  <2>3. Len(toClient[s]) \in Nat
    BY QueueFacts DEF Queues
  <2>4. \A i \in 1 .. Len(toClient[s]) : i \in 1 .. Len(q)
    BY <2>1, <2>2, <2>3
  <2> QED
    BY <2>1, <2>2, <2>3, <2>4
<1> QED
  BY <1>4, <1>5, <1>7, <1>9, <1>10, <1>11, <1>12 DEF AnswersSoFar

LEMMA AnsweredInOrder ==
    ASSUME DownloadInv, NEW s \in Server, NEW v \in Seq(Has(s)), v # <<>>, NEW L, NEW I, NEW B,
           Follows(v, L, I \cup Sent(s)), height[s] \notin L,
           Orderly(toClient[s], "block", L, I), Orderly(toClient[s], "inv", L, B),
           Once(toClient[s], "inv", L)
    PROVE  /\ AnswersSoFar(s, v, L, I, B, Answered(s, v)[Len(v)], Len(v))
           /\ Answered(s, v)[Len(v)] \in Seq(ToClient(s))
           /\ hashContinue[s] \in Range(v) => Continued(Answered(s, v)[Len(v)], hashContinue[s], height[s])
<1> DEFINE N == Len(v)
           f == Answered(s, v)
           block(n) == [type |-> "block", block |-> v[n]]
           best == [type |-> "inv", vInv |-> <<height[s]>>]
           Cont(n) == (\E i \in 1..n : v[i] = hashContinue[s]) => Continued(f[n], hashContinue[s], height[s])
           G == {n \in 0..N : AnswersSoFar(s, v, L, I, B, f[n], n) /\ Cont(n)}
<1>1. N \in Nat /\ N # 0 /\ \A n \in 1..N : v[n] \in Has(s)
  OBVIOUS
<1>2. /\ f \in [0..N -> Seq(ToClient(s))] /\ f[0] = toClient[s]
      /\ \A n \in 1..N :
           f[n] = IF v[n] = hashContinue[s] /\ \A j \in 1 .. n - 1 : v[j] # v[n]
                  THEN f[n - 1] \o <<block(n), best>>
                  ELSE Append(f[n - 1], block(n))
  BY AnsweredSteps
<1>3. height[s] \in Nat
  BY BlockFacts DEF DownloadInv, TypeOK
<1> HIDE DEF f, N
<1>4. 0 \in G
  <2>1. AnswersSoFar(s, v, L, I, B, toClient[s], 0)
    <3>1. Len(toClient[s]) \in Nat
      BY QueueFacts DEF Queues
    <3> QED
      BY <3>1 DEF AnswersSoFar, Sent, Announced
  <2>2. Cont(0)
    OBVIOUS
  <2> QED
    BY <1>1, <1>2, <2>1, <2>2
<1>5. ASSUME NEW n \in 1..N, n - 1 \in G PROVE n \in G
  <2>1. f[n - 1] \in Seq(ToClient(s)) /\ n \in 0..N /\ n \in 1 .. Len(v) /\ v[n] \in Has(s)
    BY <1>1, <1>2, <1>5 DEF N
  <2>2. AnswersSoFar(s, v, L, I, B, f[n - 1], n - 1) /\ Cont(n - 1)
    BY <1>5
  <2>3. block(n) \in ToClient(s) /\ block(n).type = "block" /\ block(n).block = v[n]
    BY <2>1 DEF ToClient
  <2>4. AnswersSoFar(s, v, L, I, B, Append(f[n - 1], block(n)), n)
    BY <2>1, <2>2, <2>3, AnswersBlock
  <2>5. CASE v[n] = hashContinue[s] /\ \A j \in 1 .. n - 1 : v[j] # v[n]
    <3> DEFINE q == Append(f[n - 1], block(n))
    <3>1. f[n] = f[n - 1] \o <<block(n), best>>
      BY <1>2, <2>5
    <3>2. q \in Seq(ToClient(s))
      BY <2>1, <2>3
    <3>3. best \in ToClient(s) /\ best.type = "inv" /\ best.vInv = <<height[s]>>
      <4>1. v[n] <= height[s] /\ v[n] >= 1 /\ v[n] \in Int
        BY <1>3, <2>1 DEF Has
      <4>2. height[s] \in Has(s)
        BY <1>3, <4>1 DEF Has
      <4>3. <<height[s]>> \in Seq(Has(s))
        BY <4>2
      <4> QED
        BY <4>3 DEF ToClient
    <3>4. f[n] = Append(q, best)
      <4> DEFINE c == block(n)
                 d == best
                 p == f[n - 1]
      <4>1. p \in Seq(ToClient(s)) /\ c \in ToClient(s) /\ d \in ToClient(s)
        BY <2>1, <2>3, <3>3
      <4>2. f[n] = p \o <<c, d>>
        BY <3>1
      <4> HIDE DEF c, d, p
      <4>3. p \o <<c, d>> = Append(Append(p, c), d)
        BY <4>1, SMTT(40)
      <4> QED
        BY <4>2, <4>3 DEF c, d, p
    <3>5. AnswersSoFar(s, v, L, I, B, Append(q, best), n)
      <4> HIDE DEF q
      <4>1. AnswersSoFar(s, v, L, I, B, q, n)
        BY <2>4 DEF q
      <4> QED
        BY <3>2, <3>3, <4>1, AnswersBest
    <3>6. Continued(Append(q, best), hashContinue[s], height[s])
      <4>1. /\ Len(f[n - 1]) \in Nat /\ Len(q) = Len(f[n - 1]) + 1 /\ q[Len(q)] = block(n)
        <5> DEFINE p == f[n - 1]
                   c == block(n)
        <5>1. p \in Seq(ToClient(s)) /\ c \in ToClient(s)
          BY <2>1, <2>3
        <5> HIDE DEF p, c
        <5>2. Len(p) \in Nat /\ Len(Append(p, c)) = Len(p) + 1 /\ Append(p, c)[Len(p) + 1] = c
          BY <5>1, AppendAt
        <5> QED
          BY <5>2 DEF p, c
      <4> HIDE DEF q
      <4>2. /\ Len(Append(q, best)) = Len(q) + 1 /\ Len(q) \in Nat
            /\ \A i \in 1 .. Len(q) : Append(q, best)[i] = q[i]
            /\ Append(q, best)[Len(q) + 1] = best
        BY <3>2, <3>3, AppendAt
      <4>3. Len(q) + 1 \in 1 .. Len(Append(q, best)) /\ Len(q) \in 1 .. Len(q) + 1 - 1 /\ Len(q) \in 1 .. Len(q)
        BY <4>1, <4>2
      <4>4. Append(q, best)[Len(q)] = block(n)
        BY <4>1, <4>2, <4>3
      <4> DEFINE r == Append(q, best)
                 k == Len(q)
      <4>5. r[k + 1].type = "inv" /\ r[k + 1].vInv = <<height[s]>> /\ k + 1 \in 1 .. Len(r)
        BY <3>3, <4>2, <4>3
      <4>6. r[k].type = "block" /\ r[k].block = hashContinue[s] /\ k \in 1 .. k + 1 - 1
        BY <2>3, <2>5, <4>3, <4>4
      <4> HIDE DEF r, k
      <4>7. Continued(r, hashContinue[s], height[s])
        BY <4>5, <4>6 DEF Continued
      <4> QED
        BY <4>7 DEF r
    <3> QED
      BY <2>1, <3>4, <3>5, <3>6
  <2>6. CASE ~(v[n] = hashContinue[s] /\ \A j \in 1 .. n - 1 : v[j] # v[n])
    <3>1. f[n] = Append(f[n - 1], block(n))
      BY <1>2, <2>6
    <3>2. ASSUME NEW i \in 1..n, v[i] = hashContinue[s]
          PROVE  Continued(Append(f[n - 1], block(n)), hashContinue[s], height[s])
      <4>1. \E j \in 1 .. n - 1 : v[j] = hashContinue[s]
        BY <2>6, <3>2
      <4>2. Continued(f[n - 1], hashContinue[s], height[s])
        BY <2>2, <4>1
      <4> QED
        BY <2>1, <2>3, <4>2, ContinuedStays
    <3> QED
      BY <2>1, <2>4, <3>1, <3>2
  <2> QED
    BY <2>5, <2>6
<1> HIDE DEF G
<1>6. 0..N \subseteq G
  BY <1>1, <1>4, <1>5, UpTo
<1>7. N \in G
  BY <1>1, <1>6
<1>8. AnswersSoFar(s, v, L, I, B, f[N], N) /\ Cont(N)
  BY <1>7 DEF G
<1>9. hashContinue[s] \in Range(v) => \E i \in 1..N : v[i] = hashContinue[s]
  BY SeqRange DEF N
<1>10. f[N] \in Seq(ToClient(s))
  BY <1>1, <1>2
<1> QED
  BY <1>8, <1>9, <1>10 DEF f, N

-----------------------------------------------------------------------------
(* The order of the low blocks is kept by every step. *)

LEMMA OrderlyOthers ==
    ASSUME NEW X, NEW q \in Seq(X), NEW r \in Seq(X), NEW type,
           \A m \in Range(r) : Of(m, type) = <<>>
    PROVE  /\ Carried(q \o r, type) = Carried(q, type)
           /\ \A L, A : Orderly(q, type, L, A) => Orderly(q \o r, type, L, A)
           /\ \A L : Once(q, type, L) => Once(q \o r, type, L)
<1>1. /\ q \o r \in Seq(X) /\ Len(q \o r) = Len(q) + Len(r) /\ Len(q) \in Nat /\ Len(r) \in Nat
      /\ \A i \in 1 .. Len(q) + Len(r) : (q \o r)[i] = IF i <= Len(q) THEN q[i] ELSE r[i - Len(q)]
  OBVIOUS
<1>2. \A i \in 1 .. Len(r) : Of(r[i], type) = <<>>
  <2>1. \A i \in 1 .. Len(r) : r[i] \in Range(r)
    BY SeqRange
  <2> QED
    BY <2>1
<1> DEFINE p == q \o r
<1>3. \A i \in 1 .. Len(p) : \/ i \in 1 .. Len(q) /\ p[i] = q[i]
                             \/ i \notin 1 .. Len(q) /\ Of(p[i], type) = <<>>
  <2>1. SUFFICES ASSUME NEW i \in 1 .. Len(p)
                 PROVE  \/ i \in 1 .. Len(q) /\ p[i] = q[i]
                        \/ i \notin 1 .. Len(q) /\ Of(p[i], type) = <<>>
    OBVIOUS
  <2>2. CASE i <= Len(q)
    BY <1>1, <2>2
  <2>3. CASE ~(i <= Len(q))
    <3>1. i - Len(q) \in 1 .. Len(r) /\ p[i] = r[i - Len(q)] /\ i \notin 1 .. Len(q)
      BY <1>1, <2>3
    <3> QED
      BY <1>2, <3>1
  <2> QED
    BY <2>2, <2>3
<1>4. p \in Seq(X) /\ \A i \in 1 .. Len(q) : i \in 1 .. Len(p) /\ p[i] = q[i]
  BY <1>1
<1> HIDE DEF p
<1>5. Range(<<>>) = {} /\ Len(<<>>) = 0
  BY DEF Range
<1>6. Carried(p, type) = Carried(q, type)
  <2>1. \A b : b \in Carried(q, type) <=> \E i \in 1 .. Len(q) : b \in Range(Of(q[i], type))
    BY CarriedFacts
  <2>2. \A b : b \in Carried(p, type) <=> \E i \in 1 .. Len(p) : b \in Range(Of(p[i], type))
    BY <1>4, CarriedFacts
  <2>3. \A b : b \in Carried(p, type) <=> b \in Carried(q, type)
    BY <1>3, <1>4, <1>5, <2>1, <2>2
  <2> QED
    BY <2>3
<1>7. ASSUME NEW L, NEW A, Orderly(q, type, L, A) PROVE Orderly(p, type, L, A)
  <2>1. SUFFICES ASSUME NEW i \in 1 .. Len(p)
                 PROVE  Follows(Of(p[i], type), L, A \cup UNION {Range(Of(p[h], type)) : h \in 1 .. i - 1})
    BY DEF Orderly
  <2>2. CASE i \in 1 .. Len(q) /\ p[i] = q[i]
    <3>1. Follows(Of(q[i], type), L, A \cup UNION {Range(Of(q[h], type)) : h \in 1 .. i - 1})
      BY <1>7, <2>2 DEF Orderly
    <3>2. \A h \in 1 .. i - 1 : p[h] = q[h]
      BY <1>1, <1>4, <2>2
    <3>3. UNION {Range(Of(q[h], type)) : h \in 1 .. i - 1} = UNION {Range(Of(p[h], type)) : h \in 1 .. i - 1}
      BY <3>2
    <3> QED
      BY <2>2, <3>1, <3>3
  <2>3. CASE Of(p[i], type) = <<>>
    BY <1>5, <2>3 DEF Follows
  <2> QED
    BY <1>3, <2>2, <2>3
<1>8. ASSUME NEW L, Once(q, type, L) PROVE Once(p, type, L)
  <2>1. SUFFICES ASSUME NEW i \in 1 .. Len(p), NEW h \in 1 .. Len(p),
                        NEW k \in 1 .. Len(Of(p[i], type)), NEW l \in 1 .. Len(Of(p[h], type)),
                        Of(p[i], type)[k] \in L, Of(p[h], type)[l] = Of(p[i], type)[k]
                 PROVE  i = h /\ k = l
    BY DEF Once
  <2>2. Of(p[i], type) # <<>> /\ Of(p[h], type) # <<>>
    BY <1>5
  <2>3. i \in 1 .. Len(q) /\ p[i] = q[i] /\ h \in 1 .. Len(q) /\ p[h] = q[h]
    BY <1>3, <2>2
  <2> QED
    BY <1>8, <2>1, <2>3 DEF Once
<1> QED
  BY <1>6, <1>7, <1>8 DEF p

LEMMA OrderlyFirst ==
    ASSUME NEW X, NEW q \in Seq(X), q # <<>>, NEW type, NEW L, NEW A, Orderly(q, type, L, A)
    PROVE  Follows(Of(Head(q), type), L, A)
<1>1. 1 \in 1 .. Len(q) /\ q[1] = Head(q) /\ 1 .. 1 - 1 = {}
  OBVIOUS
<1>2. Follows(Of(q[1], type), L, A \cup UNION {Range(Of(q[h], type)) : h \in 1 .. 1 - 1})
  BY <1>1 DEF Orderly
<1>3. A \cup UNION {Range(Of(q[h], type)) : h \in 1 .. 1 - 1} = A
  BY <1>1
<1> QED
  BY <1>1, <1>2, <1>3

LEMMA IndexIsClosed ==
    ASSUME DownloadInv, NEW b \in index, b \in Main
    PROVE  0..b \subseteq index
<1>1. \A c \in index : c \in Main /\ c # 0 => c - 1 \in index /\ c - 1 \in Main
  <2>1. \A c \in index : c \in Block
    BY DEF DownloadInv, TypeOK
  <2> QED
    BY <2>1, BlockFacts DEF DownloadInv, ChainIsLinked
<1>2. b \in Nat
  BY BlockFacts
<1> DEFINE G == {n \in 0..b : b - n \in index /\ b - n \in Main}
<1>3. 0 \in G
  BY <1>2
<1>4. ASSUME NEW n \in 1..b, n - 1 \in G PROVE n \in G
  <2>1. b - (n - 1) \in index /\ b - (n - 1) \in Main /\ b - (n - 1) # 0
    BY <1>2, <1>4
  <2>2. (b - (n - 1)) - 1 \in index /\ (b - (n - 1)) - 1 \in Main
    BY <1>1, <2>1
  <2>3. (b - (n - 1)) - 1 = b - n /\ n \in 0..b
    BY <1>2
  <2> QED
    BY <2>2, <2>3
<1> HIDE DEF G
<1>5. 0..b \subseteq G
  BY <1>2, <1>3, <1>4, UpTo
<1>6. ASSUME NEW c \in 0..b PROVE c \in index
  <2>1. b - c \in 0..b /\ b - (b - c) = c
    BY <1>2
  <2>2. b - c \in G
    BY <1>5, <2>1
  <2> QED
    BY <2>1, <2>2 DEF G
<1> QED
  BY <1>6

LEMMA AskedForRange ==
    ASSUME DownloadInv, NEW s \in Server
    PROVE  /\ AskedFor(s) \in Seq(Has(s))
           /\ \A b : b \in Range(AskedFor(s)) <=> \E e \in Range(mapAskFor[s]) : e[2] = b
<1>1. mapAskFor[s] \in Seq(Nat \X Has(s))
  BY QueueFacts DEF Queues
<1> DEFINE q == mapAskFor[s]
           B == Has(s)
<1>2. q \in Seq(Nat \X B)
  BY <1>1
<1> HIDE DEF q, B
<1>3. TakesBlocks(Blocks(q), q, B)
  BY <1>2, BlocksTaken
<1>4. Blocks(q) \in Seq(B) /\ \A b : b \in Range(Blocks(q)) <=> \E e \in Range(q) : e[2] = b
  BY <1>3 DEF TakesBlocks
<1> QED
  BY <1>3, <1>4 DEF AskedFor, q, B

\* What is asked for, requested or sent is under way.
LEMMA UnderwayIsComing ==
    ASSUME DownloadInv, NEW s \in Server, NEW b, Underway(s, b)
    PROVE  b \in Coming(s)
<1>1. Queues(s)
  BY QueueFacts
<1>2. CASE \E e \in Range(mapAskFor[s]) : e[2] = b
  BY <1>2, AskedForRange DEF Coming
<1>3. CASE \E m \in Range(toServer[s]) : m.type = "getdata" /\ b \in Range(m.vInv)
  BY <1>3 DEF Coming, Requests, Carried, Of
<1>4. CASE \E m \in Range(toClient[s]) : m.type = "block" /\ m.block = b
  <2>1. Range(<<b>>) = {b}
    BY DEF Range
  <2> QED
    BY <1>4, <2>1 DEF Coming, Sent, Carried, Of
<1> QED
  BY <1>2, <1>3, <1>4 DEF Underway

LEMMA LowFacts ==
    ASSUME DownloadInv, Background, NEW s \in Server
    PROVE  /\ Fork \in index /\ 0..Fork \subseteq index
           /\ \A b \in Low(s) : /\ b \in Nat /\ b \in Block /\ b \in Main /\ b > Fork /\ b < Tip[s]
                                /\ b - 1 \in Low(s) \cup {Fork}
                                /\ b # height[s] /\ b < height[s]
           /\ Tip[s] \in Nat /\ Tip[s] <= height[s] /\ height[s] \in Nat /\ Fork \in Nat
<1>1. /\ MaxHeight \in Nat /\ Fork \in 0..MaxHeight /\ Tip[s] \in 1..MaxHeight
  BY DownloadAssumption
<1>2. Main \subseteq Block /\ Main = 0..MaxHeight
  BY BlockFacts DEF Main
<1>3. height[s] \in 0..MaxHeight
  BY <1>2 DEF DownloadInv, TypeOK
<1>4. 0..Fork \subseteq index /\ Tip[s] <= height[s]
  BY DEF Background, OwnIsThere, FoundAreTold
<1>5. \A b \in Low(s) : b \in Nat /\ b \in 0..MaxHeight /\ b > Fork /\ b < Tip[s]
                        /\ b - 1 \in Low(s) \cup {Fork}
  BY <1>1 DEF Low
<1>6. Fork \in 0..Fork /\ Fork \in Nat /\ Tip[s] \in Nat /\ height[s] \in Nat
  BY <1>1, <1>3
<1>7. \A b \in Low(s) : b # height[s] /\ b < height[s] /\ b \in Main /\ b \in Block
  BY <1>2, <1>4, <1>5, <1>6
<1> QED
  BY <1>4, <1>5, <1>6, <1>7

\* Where a low block that is had, or that the server holds to be known, is.
LEMMA LowIsThere ==
    ASSUME DownloadInv, Background, NothingForgotten, NEW s \in Server, LowIsTold(s), NEW b \in Low(s)
    PROVE  /\ b \in Had => b \in index
           /\ b \in known[s] => b \in index \cup Coming(s) \cup Announced(s)
<1>1. b \in Had => b \in index
  BY DEF LowIsTold, Had
<1>2. ASSUME b \in known[s] PROVE b \in index \cup Coming(s) \cup Announced(s)
  <2>1. b \in Had \cup setInventoryKnown[s] \cup Announced(s)
    BY <1>2 DEF Background, AnnouncedArrives, Arrives
  <2>2. b \in setInventoryKnown[s] => b \in Had \/ Underway(s, b)
    BY DEF NothingForgotten, AlreadyHave
  <2> QED
    BY <1>1, <2>1, <2>2, UnderwayIsComing
<1> QED
  BY <1>1, <1>2

\* The first conjunct of InOrder at the head of the queue, and the low blocks of an
\* inventory: new, announced once and never asked for.
LEMMA HeadIsInOrder ==
    ASSUME DownloadInv, NEW s \in Server, Order(s), toClient[s] # <<>>
    PROVE  /\ Follows(Of(Head(toClient[s]), "block"), Low(s), index)
           /\ Follows(Of(Head(toClient[s]), "inv"), Low(s), index \cup Coming(s))
           /\ Orderly(Tail(toClient[s]), "block", Low(s), index \cup Range(Of(Head(toClient[s]), "block")))
           /\ Orderly(Tail(toClient[s]), "inv", Low(s), index \cup Coming(s) \cup Range(Of(Head(toClient[s]), "inv")))
           /\ Once(Tail(toClient[s]), "inv", Low(s))
           /\ \A b \in Low(s) : b \in Range(Of(Head(toClient[s]), "inv")) => b \notin Carried(Tail(toClient[s]), "inv")
           /\ Tail(toClient[s]) \in Seq(ToClient(s)) /\ Head(toClient[s]) \in ToClient(s)
           /\ \A type : Carried(toClient[s], type)
                = Range(Of(Head(toClient[s]), type)) \cup Carried(Tail(toClient[s]), type)
<1> DEFINE q == toClient[s]
           X == ToClient(s)
           L == Low(s)
<1>1. q \in Seq(X) /\ q # <<>>
  BY QueueFacts DEF Queues
<1>2. Orderly(q, "block", L, index) /\ Orderly(q, "inv", L, index \cup Coming(s)) /\ Once(q, "inv", L)
  BY DEF Order, InOrder, ToldOnce
<1> HIDE DEF q, X, L
<1>3. Follows(Of(Head(q), "block"), L, index)
  BY <1>1, <1>2, OrderlyFirst
<1>4. Follows(Of(Head(q), "inv"), L, index \cup Coming(s))
  BY <1>1, <1>2, OrderlyFirst
<1>5. Orderly(Tail(q), "block", L, index \cup Range(Of(Head(q), "block")))
  BY <1>1, <1>2, OrderlyTail
<1>6. Orderly(Tail(q), "inv", L, (index \cup Coming(s)) \cup Range(Of(Head(q), "inv")))
  BY <1>1, <1>2, OrderlyTail
<1>7. /\ Once(Tail(q), "inv", L)
      /\ \A b \in L : b \in Range(Of(Head(q), "inv")) => b \notin Carried(Tail(q), "inv")
  BY <1>1, <1>2, OnceTail
<1>8. Tail(q) \in Seq(X) /\ Head(q) \in X
  BY <1>1
<1>9. \A type : Carried(q, type) = Range(Of(Head(q), type)) \cup Carried(Tail(q), type)
  BY <1>1, CarriedTail
<1> QED
  BY <1>3, <1>4, <1>5, <1>6, <1>7, <1>8, <1>9 DEF q, X, L

LEMMA ReceiveInvOrder ==
    ASSUME DownloadInv, DownloadInv', Background, NEW s \in Server, ClientReceive(s), Order(s),
           Head(toClient[s]).type = "inv"
    PROVE  Order(s)'
<1> DEFINE v == Head(toClient[s]).vInv
           q == Tail(toClient[s])
           L == Low(s)
           a == Asked(s, v)[Len(v)]
           A == index \cup Sent(s) \cup Requests(s)
<1>1. /\ Receives(s) /\ v \in Seq(Has(s)) /\ ChainKept
      /\ Asks(s, a) /\ a \in AskingType(Has(s))
  BY ReceiveInvDoes, SMTT(40)
<1>2. /\ toClient[s] # <<>> /\ toClient'[s] = q
      /\ index' = index /\ mapOrphanBlocks' = mapOrphanBlocks /\ known' = known /\ toSend' = toSend
      /\ toServer'[s] = toServer[s] \o a.out /\ mapAskFor'[s] = a.askFor
      /\ mapAlreadyAskedFor' = a.already
  BY <1>1 DEF Receives, ChainKept, Asks, ServerKept
<1>3. Of(Head(toClient[s]), "inv") = v /\ Of(Head(toClient[s]), "block") = <<>>
  BY DEF Of
<1>4. Range(<<>>) = {}
  BY SMTT(40) DEF Range
<1>5. /\ Follows(v, L, index \cup Coming(s)) /\ Orderly(q, "block", L, index)
      /\ Orderly(q, "inv", L, index \cup Coming(s) \cup Range(v)) /\ Once(q, "inv", L)
      /\ \A b \in L : b \in Range(v) => b \notin Carried(q, "inv")
      /\ Announced(s) = Range(v) \cup Carried(q, "inv") /\ Sent(s) = Carried(q, "block")
  <2>1. index \cup {} = index /\ {} \cup Carried(q, "block") = Carried(q, "block")
    OBVIOUS
  <2> QED
    BY <1>2, <1>3, <1>4, <2>1, HeadIsInOrder DEF Announced, Sent
<1>6. /\ AsksSoFar(s, v, a, Len(v))
  BY <1>1, AsksAll
<1> HIDE DEF a
<1>7. /\ a.out \in Seq(ToServer(s)) /\ \A m \in Range(a.out) : Of(m, "getdata") = <<>>
  <2>1. a.out \in Seq(GetBlocks) /\ Seq(GetBlocks) \subseteq Seq(ToServer(s))
    BY <1>1, AskingFields, HasFacts DEF DownloadInv
  <2>2. Range(a.out) \subseteq GetBlocks
    BY <2>1, SeqRange
  <2>3. \A m \in GetBlocks : m.type = "getblocks"
    BY DEF GetBlocks
  <2> QED
    BY <2>1, <2>2, <2>3 DEF Of
<1>8. /\ Requests(s)' = Requests(s)
      /\ Orderly(toServer'[s], "getdata", L, index \cup Sent(s))
  <2>1. toServer[s] \in Seq(ToServer(s))
    BY QueueFacts DEF Queues
  <2>2. Orderly(toServer[s], "getdata", L, index \cup Sent(s))
    BY DEF Order, InOrder
  <2>3. Carried(toServer[s] \o a.out, "getdata") = Carried(toServer[s], "getdata")
    BY <1>7, <2>1, OrderlyOthers
  <2>4. Orderly(toServer[s] \o a.out, "getdata", L, index \cup Sent(s))
    BY <1>7, <2>1, <2>2, OrderlyOthers
  <2> QED
    BY <1>2, <2>3, <2>4 DEF Requests
<1>9. Sent(s)' = Sent(s) /\ Announced(s)' = Carried(q, "inv") /\ Low(s)' = L
  BY <1>2, <1>5 DEF Sent, Announced, Low
<1>10. \A i \in 1 .. Len(v) : v[i] \in Range(v) /\ v[i] \in Block
  <2>1. \A i \in 1 .. Len(v) : v[i] \in Range(v)
    BY <1>1, SeqRange
  <2>2. Has(s) \subseteq Block
    BY HasFacts DEF DownloadInv
  <2>3. \A i \in 1 .. Len(v) : v[i] \in Has(s)
    BY <1>1
  <2> QED
    BY <2>1, <2>2, <2>3
<1>11. \A b \in L : b \in Range(v) => mapAlreadyAskedFor[b] = Never /\ b \notin Had
  BY <1>5 DEF Order, ToldOnce, LowIsTold, Had
<1>12. ASSUME NEW i \in 1 .. Len(v), v[i] \in L, NEW j \in 1 .. Len(v), v[j] = v[i] PROVE j = i
  <2>1. 1 \in 1 .. Len(toClient[s]) /\ Of(toClient[s][1], "inv") = v
    <3>1. toClient[s] \in Seq(ToClient(s))
      BY QueueFacts DEF Queues
    <3>2. 1 \in 1 .. Len(toClient[s]) /\ toClient[s][1] = Head(toClient[s])
      BY <1>2, <3>1
    <3> QED
      BY <1>3, <3>2
  <2>2. Once(toClient[s], "inv", L)
    BY DEF Order, ToldOnce
  <2> HIDE DEF v, L, q
  <2> QED
    BY <1>12, <2>1, <2>2 DEF Once
<1>13. \A x \in L : x - 1 \in L \cup A
  BY LowFacts
<1>14. AsksInOrder(s, v, L, A, a, Len(v))
  <2>1. Follows(AskedFor(s), L, A) /\ AtOnce(mapAskFor[s], L)
    BY DEF Order, InOrder, AskedAtOnce, AtOnce
  <2>2. A \cup Range(AskedFor(s)) = index \cup Coming(s)
    BY DEF Coming
  <2>3. Follows(v, L, A \cup Range(AskedFor(s)))
    BY <1>5, <2>2
  <2>4. \A i \in 1 .. Len(v) : v[i] \in L =>
           /\ mapAlreadyAskedFor[v[i]] = Never /\ v[i] \notin Had
           /\ \A j \in 1 .. Len(v) : v[j] = v[i] => j = i
    BY <1>10, <1>11, <1>12
  <2> HIDE DEF v, L, A
  <2>5. AsksInOrder(s, v, L, A, Asked(s, v)[Len(v)], Len(v))
    BY <1>1, <1>13, <2>1, <2>3, <2>4, InventoryInOrder
  <2> QED
    BY <2>5 DEF a
<1>15. /\ Follows(AskedFor(s)', L, A) /\ AtOnce(mapAskFor'[s], L)
       /\ \A b : b \in Range(AskedFor(s)') <=> b \in Wanted(a)
  <2>1. Follows(Blocks(a.askFor), L, A) /\ AtOnce(a.askFor, L)
    BY <1>14 DEF AsksInOrder
  <2>2. AskedFor(s)' = Blocks(a.askFor)
    BY <1>2 DEF AskedFor
  <2>3. a.askFor \in Seq(Nat \X Has(s))
    BY <1>1, AskingFields, HasFacts DEF DownloadInv
  <2>4. \A b : b \in Range(Blocks(a.askFor)) <=> \E e \in Range(a.askFor) : e[2] = b
    <3> DEFINE r == a.askFor
               B == Has(s)
    <3>1. r \in Seq(Nat \X B)
      BY <2>3
    <3> HIDE DEF r, B
    <3>2. \A b : b \in Range(Blocks(r)) <=> \E e \in Range(r) : e[2] = b
      <4>1. TakesBlocks(Blocks(r), r, B)
        BY <3>1, BlocksTaken
      <4> QED
        BY <4>1 DEF TakesBlocks
    <3> QED
      BY <3>2 DEF r
  <2> QED
    BY <1>2, <2>1, <2>2, <2>4 DEF Wanted
<1>16. /\ Wanted(a) \subseteq Range(AskedFor(s)) \cup Range(v) /\ Range(AskedFor(s)) \subseteq Wanted(a)
       /\ \A b \in Range(v) : b \notin Had => b \in Wanted(a)
  <2>1. Wanted(a) \subseteq Wanted(Asking(s)) \cup {v[i] : i \in 1 .. Len(v)}
    BY <1>6 DEF AsksSoFar
  <2>2. \A b \in Wanted(Asking(s)) : b \in Range(AskedFor(s))
    BY AskedForRange, AskingFacts DEF Wanted
  <2>3. \A b \in Range(v) : \E i \in 1 .. Len(v) : v[i] = b
    BY <1>1, SeqRange
  <2>4. \A b \in Wanted(a) : b \in Wanted(Asking(s)) \/ \E i \in 1 .. Len(v) : b = v[i]
    BY <2>1
  <2>5. Range(AskedFor(s)) \subseteq Wanted(a) /\ \A i \in 1 .. Len(v) : v[i] \notin Had => v[i] \in Wanted(a)
    BY <1>14 DEF AsksInOrder
  <2>6. \A i \in 1 .. Len(v) : v[i] \in Range(v)
    BY <1>10
  <2>7. Wanted(a) \subseteq Range(AskedFor(s)) \cup Range(v)
    BY <2>2, <2>4, <2>6
  <2>8. \A b \in Range(v) : b \notin Had => b \in Wanted(a)
    BY <2>3, <2>5
  <2> QED
    BY <2>5, <2>7, <2>8
<1>17. \A b : b \in Coming(s)' <=> b \in Sent(s) \cup Requests(s) \cup Wanted(a)
  BY <1>8, <1>9, <1>15 DEF Coming
<1>18. Coming(s)' \subseteq Coming(s) \cup Range(v) /\ Coming(s) \subseteq Coming(s)'
  BY <1>16, <1>17 DEF Coming
<1>19. \A b \in Block : b \notin Range(v) => mapAlreadyAskedFor'[b] = mapAlreadyAskedFor[b]
  <2>1. \A b \in Block : (\A i \in 1 .. Len(v) : v[i] # b) => a.already[b] = mapAlreadyAskedFor[b]
    BY <1>6 DEF AsksSoFar
  <2> QED
    BY <1>2, <1>10, <2>1
<1>20. L \subseteq Block
  BY LowFacts
<1> HIDE DEF v, q, L, a, A
<1>21. InOrder(s)'
  <2>1. Orderly(toClient'[s], "block", Low(s)', index')
    BY <1>2, <1>5, <1>9
  <2>2. Orderly(toServer'[s], "getdata", Low(s)', index' \cup Sent(s)')
    BY <1>2, <1>8, <1>9
  <2>3. Follows(AskedFor(s)', Low(s)', index' \cup Sent(s)' \cup Requests(s)')
    BY <1>2, <1>8, <1>9, <1>15 DEF A
  <2>4. Orderly(toClient'[s], "inv", Low(s)', index' \cup Coming(s)')
    <3>1. \A b \in L : b - 1 \in index \cup Coming(s) \cup Range(v) => b - 1 \in index \cup Coming(s)'
      <4>1. SUFFICES ASSUME NEW b \in L, b - 1 \in Range(v), b - 1 \notin index PROVE b - 1 \in Coming(s)'
        BY <1>18
      <4>2. b - 1 \in L
        BY <4>1, LowFacts DEF L
      <4> QED
        BY <1>11, <1>16, <1>17, <4>1, <4>2
    <3> QED
      BY <1>2, <1>5, <1>9, <3>1, OrderlyMore
  <2>5. Follows(toSend'[s], Low(s)', known'[s] \cup {Fork})
    BY <1>2, <1>9 DEF Order, InOrder, L
  <2> QED
    BY <2>1, <2>2, <2>3, <2>4, <2>5 DEF InOrder
<1>22. AskedAtOnce(s)'
  BY <1>9, <1>15 DEF AskedAtOnce, AtOnce
<1>23. LowIsTold(s)'
  <2>1. Told(s)' = Told(s)
    BY <1>2 DEF Told
  <2>2. ASSUME NEW b \in L, b \in index' \cup Coming(s)' \cup Announced(s)' PROVE b \in known'[s]
    <3>1. b \in index \cup Coming(s) \cup Announced(s)
      BY <1>2, <1>5, <1>9, <1>18, <2>2
    <3> QED
      BY <1>2, <3>1 DEF Order, LowIsTold, L
  <2> QED
    BY <1>2, <1>9, <2>1, <2>2 DEF Order, LowIsTold, L
<1>24. ToldOnce(s)'
  <2>1. ASSUME NEW b \in L, b \in Announced(s)'
        PROVE  mapAlreadyAskedFor'[b] = Never /\ b \notin index' \cup Coming(s)'
    <3>1. b \in Announced(s) /\ b \notin Range(v)
      BY <1>5, <1>9, <2>1
    <3>2. mapAlreadyAskedFor[b] = Never /\ b \notin index \cup Coming(s)
      BY <3>1 DEF Order, ToldOnce, L
    <3> QED
      BY <1>2, <1>18, <1>19, <1>20, <3>1, <3>2
  <2>2. ASSUME NEW b \in L, b \notin known'[s] PROVE mapAlreadyAskedFor'[b] = Never
    <3>1. b \notin known[s] /\ b \notin Announced(s)
      BY <1>2, <2>2 DEF Order, LowIsTold, L
    <3>2. mapAlreadyAskedFor[b] = Never
      BY <3>1 DEF Order, ToldOnce, L
    <3> QED
      BY <1>5, <1>19, <1>20, <3>1, <3>2
  <2>3. Once(toClient'[s], "inv", Low(s)')
    BY <1>2, <1>5, <1>9
  <2> QED
    BY <1>9, <2>1, <2>2, <2>3 DEF ToldOnce
<1> QED
  BY <1>21, <1>22, <1>23, <1>24 DEF Order

\* What a block changes: it is there if it is low, and no other low block is.
Brings(s, b, out) ==
    /\ index \subseteq index' /\ mapAskFor'[s] = mapAskFor[s] /\ toServer'[s] = toServer[s] \o out
    /\ \A x \in Low(s) : /\ x \in index' => x \in index \/ x = b
                         /\ x \notin mapOrphanBlocks'
                         /\ mapAlreadyAskedFor'[x] \in {mapAlreadyAskedFor[x], Never}
    /\ b \in Low(s) => b \in index'

LEMMA ReceiveBlockBrings ==
    ASSUME DownloadInv, Background, NEW s \in Server, ClientReceive(s), Order(s),
           Head(toClient[s]).type # "inv", NEW b, b = Head(toClient[s]).block
    PROVE  /\ Receives(s) /\ Head(toClient[s]).type = "block"
           /\ \E out \in Seq(GetBlocks) : Brings(s, b, out)
<1>1. /\ Receives(s) /\ b \in Has(s) /\ Head(toClient[s]).type = "block"
      /\ \/ HasAlready(s, b)
         \/ \E last \in Main : Accepts(s, b, last)
         \/ \E root \in Main : BecomesOrphan(s, b, root)
  BY ReceiveBlockDoes
<1>2. \A x \in Low(s) : x \in Block /\ x \notin mapOrphanBlocks
  BY LowFacts DEF Order, LowIsTold
<1>3. b \in Low(s) => b - 1 \in index
  <2>1. Follows(Of(Head(toClient[s]), "block"), Low(s), index)
    BY <1>1, HeadIsInOrder DEF Receives
  <2>2. Of(Head(toClient[s]), "block") = <<b>>
    BY <1>1 DEF Of
  <2>3. Len(<<b>>) = 1 /\ <<b>>[1] = b /\ 1 \in 1 .. 1 /\ 1 .. 1 - 1 = {}
    OBVIOUS
  <2> QED
    BY <2>1, <2>2, <2>3 DEF Follows
<1>4. <<>> \in Seq(GetBlocks) /\ toServer[s] \o <<>> = toServer[s]
  <2>1. toServer[s] \in Seq(ToServer(s))
    BY QueueFacts DEF Queues
  <2> QED
    BY <2>1
<1>5. /\ Asking(s) \in AskingType(Has(s)) /\ Asking(s).out = <<>>
      /\ Asking(s).askFor = mapAskFor[s] /\ Asking(s).already = mapAlreadyAskedFor
      /\ Has(s) \subseteq Block /\ b \in Block
  BY <1>1, AskingFacts, HasFacts DEF DownloadInv
<1>6. CASE HasAlready(s, b)
  <2>1. b \in Low(s) => b \in index
    BY <1>2, <1>6 DEF HasAlready, Had
  <2>2. Brings(s, b, <<>>)
    BY <1>2, <1>4, <1>6, <2>1, SMTT(40) DEF HasAlready, ChainKept, Brings
  <2> QED
    BY <1>1, <1>4, <2>2
<1>7. ASSUME NEW last \in Main, Accepts(s, b, last) PROVE Brings(s, b, <<>>)
  <2>1. /\ Erase(Asking(s), b).already = [mapAlreadyAskedFor EXCEPT ![b] = Never]
        /\ Erase(Asking(s), b).askFor = mapAskFor[s] /\ Erase(Asking(s), b).out = <<>>
    BY <1>5 DEF Erase
  <2>2. \A x \in Low(s) : mapAlreadyAskedFor'[x] \in {mapAlreadyAskedFor[x], Never}
    <3>1. mapAlreadyAskedFor \in [Block -> Int]
      BY DEF DownloadInv, TypeOK
    <3> QED
      BY <1>2, <1>7, <2>1, <3>1 DEF Accepts, Asks
  <2>3. b \in b .. last /\ \A x \in b .. last : x = b \/ x \in b + 1 .. last
    <3>1. b \in Int /\ last \in Int
      BY <1>5, BlockFacts
    <3> QED
      BY <1>7, <3>1 DEF Accepts
  <2> QED
    BY <1>2, <1>4, <1>7, <2>1, <2>2, <2>3 DEF Accepts, Asks, Brings
<1>8. ASSUME NEW root \in Main, BecomesOrphan(s, b, root)
      PROVE  \E out \in Seq(GetBlocks) : Brings(s, b, out)
  <2> DEFINE a == PushGetBlocks(Asking(s), pindexBest, root)
  <2>1. /\ a \in AskingType(Has(s)) /\ a.already = mapAlreadyAskedFor /\ a.askFor = mapAskFor[s]
    <3>1. pindexBest \in Block /\ root \in Block
      BY AskingFacts, BlockFacts
    <3>2. GetsBlocks(Has(s), Asking(s), pindexBest, root)
      BY <1>5, <3>1, PushGetBlocksType
    <3> QED
      BY <1>5, <3>2 DEF GetsBlocks
  <2> HIDE DEF a
  <2>2. /\ Erase(a, b).already = [mapAlreadyAskedFor EXCEPT ![b] = Never]
        /\ Erase(a, b).askFor = mapAskFor[s] /\ Erase(a, b).out = a.out
    BY <1>5, <2>1 DEF Erase
  <2>3. Asks(s, Erase(a, b))
    BY <1>8 DEF BecomesOrphan, a
  <2>4. \A x \in Low(s) : mapAlreadyAskedFor'[x] \in {mapAlreadyAskedFor[x], Never}
    <3>1. mapAlreadyAskedFor \in [Block -> Int]
      BY DEF DownloadInv, TypeOK
    <3> QED
      BY <1>2, <2>2, <2>3, <3>1 DEF Asks
  <2>5. b \notin Low(s)
    BY <1>3, <1>8 DEF BecomesOrphan
  <2>6. a.out \in Seq(GetBlocks)
    BY <1>5, <2>1, AskingFields
  <2>7. toServer'[s] = toServer[s] \o a.out /\ mapAskFor'[s] = mapAskFor[s]
    BY <2>2, <2>3 DEF Asks
  <2>8. Brings(s, b, a.out)
    BY <1>2, <1>8, <2>4, <2>5, <2>7 DEF BecomesOrphan, Brings
  <2> QED
    BY <2>6, <2>8
<1> QED
  BY <1>1, <1>4, <1>6, <1>7, <1>8

LEMMA ReceiveBlockOrder ==
    ASSUME DownloadInv, Background, NEW s \in Server, ClientReceive(s), Order(s),
           Head(toClient[s]).type # "inv"
    PROVE  Order(s)'
<1> DEFINE b == Head(toClient[s]).block
           q == Tail(toClient[s])
           L == Low(s)
<1>1. Receives(s) /\ Head(toClient[s]).type = "block"
  BY ReceiveBlockBrings
<1>2. PICK out \in Seq(GetBlocks) : Brings(s, b, out)
  BY ReceiveBlockBrings
<1>3. /\ toClient[s] # <<>> /\ toClient'[s] = q /\ known' = known /\ toSend' = toSend
      /\ index \subseteq index' /\ mapAskFor'[s] = mapAskFor[s] /\ toServer'[s] = toServer[s] \o out
      /\ b \in L => b \in index'
      /\ \A x \in L : /\ x \in index' => x \in index \/ x = b
                      /\ x \notin mapOrphanBlocks'
                      /\ mapAlreadyAskedFor'[x] \in {mapAlreadyAskedFor[x], Never}
  BY <1>1, <1>2 DEF Receives, ServerKept, Brings
<1>4. Of(Head(toClient[s]), "inv") = <<>> /\ Of(Head(toClient[s]), "block") = <<b>>
  BY <1>1 DEF Of
<1>5. Range(<<>>) = {} /\ Range(<<b>>) = {b}
  BY DEF Range
<1>6. /\ Orderly(q, "block", L, index \cup {b}) /\ Orderly(q, "inv", L, index \cup Coming(s))
      /\ Once(q, "inv", L) /\ Announced(s) = Carried(q, "inv") /\ Sent(s) = {b} \cup Carried(q, "block")
  <2>1. index \cup Coming(s) \cup {} = index \cup Coming(s) /\ {} \cup Carried(q, "inv") = Carried(q, "inv")
    OBVIOUS
  <2> QED
    BY <1>3, <1>4, <1>5, <2>1, HeadIsInOrder DEF Announced, Sent
<1>7. /\ out \in Seq(ToServer(s)) /\ \A m \in Range(out) : Of(m, "getdata") = <<>>
  <2>1. Seq(GetBlocks) \subseteq Seq(ToServer(s))
    BY HasFacts DEF DownloadInv
  <2>2. Range(out) \subseteq GetBlocks
    BY SeqRange
  <2>3. \A m \in GetBlocks : m.type = "getblocks"
    BY DEF GetBlocks
  <2> QED
    BY <2>1, <2>2, <2>3 DEF Of
<1>8. /\ Requests(s)' = Requests(s)
      /\ Orderly(toServer'[s], "getdata", L, index \cup Sent(s))
  <2>1. toServer[s] \in Seq(ToServer(s))
    BY QueueFacts DEF Queues
  <2>2. Orderly(toServer[s], "getdata", L, index \cup Sent(s))
    BY DEF Order, InOrder
  <2>3. Carried(toServer[s] \o out, "getdata") = Carried(toServer[s], "getdata")
    BY <1>7, <2>1, OrderlyOthers
  <2>4. Orderly(toServer[s] \o out, "getdata", L, index \cup Sent(s))
    BY <1>7, <2>1, <2>2, OrderlyOthers
  <2> QED
    BY <1>3, <2>3, <2>4 DEF Requests
<1>9. /\ Sent(s)' = Carried(q, "block") /\ Announced(s)' = Announced(s) /\ Low(s)' = L
      /\ AskedFor(s)' = AskedFor(s) /\ Told(s)' = Told(s)
  BY <1>3, <1>6 DEF Sent, Announced, Low, AskedFor, Told
<1>10. /\ Coming(s)' \subseteq Coming(s) /\ b \in Coming(s) /\ Coming(s) \subseteq Coming(s)' \cup {b}
       /\ Sent(s) \subseteq Sent(s)' \cup {b}
  BY <1>6, <1>8, <1>9 DEF Coming
\* The block itself is the only one that leaves, for the index.
<1>11. ASSUME NEW A, NEW B, A \subseteq B \cup {b}, index' \subseteq B, index \subseteq A
       PROVE  \A x \in L : x - 1 \in A => x - 1 \in B
  <2>1. SUFFICES ASSUME NEW x \in L, x - 1 = b PROVE b \in B
    BY <1>11
  <2>2. b \in L \cup {Fork} /\ Fork \in index
    BY <2>1, LowFacts
  <2> QED
    BY <1>3, <1>11, <2>2
<1> HIDE DEF b, q, L
<1>21. InOrder(s)'
  <2>1. Orderly(toClient'[s], "block", Low(s)', index')
    <3>1. \A x \in L : x - 1 \in index \cup {b} => x - 1 \in index'
      BY <1>3, <1>11
    <3> QED
      BY <1>3, <1>6, <1>9, <3>1, OrderlyMore
  <2>2. Orderly(toServer'[s], "getdata", Low(s)', index' \cup Sent(s)')
    <3>1. \A x \in L : x - 1 \in index \cup Sent(s) => x - 1 \in index' \cup Sent(s)'
      <4>1. index \cup Sent(s) \subseteq (index' \cup Sent(s)') \cup {b} /\ index' \subseteq index' \cup Sent(s)'
        BY <1>3, <1>10
      <4> QED
        BY <1>11, <4>1
    <3> QED
      BY <1>8, <1>9, <3>1, OrderlyMore
  <2>3. Follows(AskedFor(s)', Low(s)', index' \cup Sent(s)' \cup Requests(s)')
    <3> DEFINE A == index \cup Sent(s) \cup Requests(s)
               B == index' \cup Sent(s)' \cup Requests(s)'
    <3>1. A \subseteq B \cup {b} /\ index' \subseteq B /\ index \subseteq A
      BY <1>3, <1>8, <1>10
    <3>2. Follows(AskedFor(s), L, A)
      BY DEF Order, InOrder, L
    <3> HIDE DEF A, B
    <3>3. \A x \in L : x - 1 \in A => x - 1 \in B
      BY <1>11, <3>1
    <3>4. Follows(AskedFor(s), L, B)
      BY <3>2, <3>3, FollowsMore
    <3> QED
      BY <1>9, <3>4 DEF B
  <2>4. Orderly(toClient'[s], "inv", Low(s)', index' \cup Coming(s)')
    <3>1. \A x \in L : x - 1 \in index \cup Coming(s) => x - 1 \in index' \cup Coming(s)'
      <4>1. index \cup Coming(s) \subseteq (index' \cup Coming(s)') \cup {b} /\ index' \subseteq index' \cup Coming(s)'
        BY <1>3, <1>10
      <4> QED
        BY <1>11, <4>1
    <3> QED
      BY <1>3, <1>6, <1>9, <3>1, OrderlyMore
  <2>5. Follows(toSend'[s], Low(s)', known'[s] \cup {Fork})
    BY <1>3, <1>9 DEF Order, InOrder, L
  <2> QED
    BY <2>1, <2>2, <2>3, <2>4, <2>5 DEF InOrder
<1>22. AskedAtOnce(s)'
  BY <1>3, <1>9 DEF Order, AskedAtOnce, L
<1>23. LowIsTold(s)'
  <2>2. ASSUME NEW x \in L, x \in index' \cup Coming(s)' \cup Announced(s)' PROVE x \in known'[s]
    <3>1. x \in index \cup Coming(s) \cup Announced(s)
      BY <1>3, <1>9, <1>10, <2>2
    <3> QED
      BY <1>3, <3>1 DEF Order, LowIsTold, L
  <2> QED
    BY <1>3, <1>9, <2>2 DEF Order, LowIsTold, L
<1>24. ToldOnce(s)'
  <2>1. ASSUME NEW x \in L, x \in Announced(s)'
        PROVE  mapAlreadyAskedFor'[x] = Never /\ x \notin index' \cup Coming(s)'
    <3>1. mapAlreadyAskedFor[x] = Never /\ x \notin index \cup Coming(s)
      BY <1>9, <2>1 DEF Order, ToldOnce, L
    <3> QED
      BY <1>3, <1>10, <3>1
  <2>2. ASSUME NEW x \in L, x \notin known'[s] PROVE mapAlreadyAskedFor'[x] = Never
    <3>1. mapAlreadyAskedFor[x] = Never
      BY <1>3, <2>2 DEF Order, ToldOnce, L
    <3> QED
      BY <1>3, <3>1
  <2>3. Once(toClient'[s], "inv", Low(s)')
    BY <1>3, <1>6, <1>9
  <2> QED
    BY <1>9, <2>1, <2>2, <2>3 DEF ToldOnce
<1> QED
  BY <1>21, <1>22, <1>23, <1>24 DEF Order

LEMMA ClientSendOrder ==
    ASSUME DownloadInv, Background, NEW s \in Server, ClientSend(s), Order(s)
    PROVE  Order(s)'
<1> DEFINE q == mapAskFor[s]
           B == Has(s)
           L == Low(s)
           D == {0} \X Block
           due == Blocks(Kept(q, D))
           A == index \cup Sent(s) \cup Requests(s)
<1>1. PICK vInv \in Seq(Block), wanted \in Seq(B) : ClientSends(s, vInv, wanted)
  BY ClientSendDoes
<1>2. /\ ChainKept /\ ServerKept /\ toClient'[s] = toClient[s]
      /\ wanted = Kept(due, Block \ Had) /\ mapAskFor'[s] = Kept(q, (Nat \ {0}) \X Block)
      /\ \A b \in Block : mapAlreadyAskedFor'[b] = IF b \in Range(wanted) THEN 0 ELSE mapAlreadyAskedFor[b]
      /\ toServer'[s] = toServer[s] \o inv(vInv) \o getdata(wanted)
  BY <1>1 DEF ClientSends
<1>3. /\ index' = index /\ mapOrphanBlocks' = mapOrphanBlocks /\ known' = known /\ toSend' = toSend
      /\ Sent(s)' = Sent(s) /\ Announced(s)' = Announced(s) /\ Told(s)' = Told(s) /\ Low(s)' = L
  BY <1>2 DEF ChainKept, ServerKept, Sent, Announced, Told, Low
<1>4. q \in Seq(Nat \X B) /\ B \subseteq Block /\ L \subseteq Block
  BY QueueFacts, HasFacts, LowFacts DEF Queues, DownloadInv
<1>5. \A e \in Range(q) : e[2] \in L => e[1] = 0
  BY DEF Order, AskedAtOnce
<1>6. \A e \in Range(q) : e = <<e[1], e[2]>> /\ e[2] \in Block
  <2>1. Range(q) \subseteq Nat \X B
    BY <1>4, SeqRange
  <2> QED
    BY <1>4, <2>1
<1>7. \A b : b \in Range(AskedFor(s)) <=> \E e \in Range(q) : e[2] = b
  BY AskedForRange
<1>8. /\ Range(wanted) = {b \in Block \ Had : <<0, b>> \in Range(q)}
  BY <1>2, DueFacts DEF Blocks
<1>9. /\ Kept(q, (Nat \ {0}) \X Block) \in Seq(Nat \X B)
      /\ Range(Kept(q, (Nat \ {0}) \X Block)) = {e \in Range(q) : e[1] # 0}
      /\ \A b : b \in Range(AskedFor(s)') <=> \E e \in Range(q) : e[1] # 0 /\ e[2] = b
  <2> DEFINE r == Kept(q, (Nat \ {0}) \X Block)
  <2>1. r \in Seq(Nat \X B) /\ Range(r) = {e \in Range(q) : e[1] # 0}
    BY DueFacts
  <2>2. AskedFor(s)' = Blocks(r)
    BY <1>2 DEF AskedFor
  <2> HIDE DEF r, B
  <2>3. \A b : b \in Range(Blocks(r)) <=> \E e \in Range(r) : e[2] = b
    <3>1. TakesBlocks(Blocks(r), r, B)
      BY <2>1, BlocksTaken
    <3> QED
      BY <3>1 DEF TakesBlocks
  <2> QED
    BY <2>1, <2>2, <2>3 DEF r
<1>10. \A b \in L : b \notin Range(AskedFor(s)')
  BY <1>5, <1>9
<1>11. \A b \in L : b \in Range(AskedFor(s)) => b \in Range(wanted) \cup index
  <2>1. \A b \in L : b \in Had => b \in index
    BY DEF Order, LowIsTold, Had
  <2> QED
    BY <1>4, <1>5, <1>6, <1>7, <1>8, <2>1
<1>12. Range(wanted) \subseteq Range(AskedFor(s))
  <2>1. \A b : <<0, b>>[2] = b
    OBVIOUS
  <2> QED
    BY <1>7, <1>8, <2>1
<1>13. \A x \in L : x - 1 \in L \cup A
  BY LowFacts
<1>14. Follows(wanted, L, A)
  <2>1. Follows(Blocks(q), L, A)
    BY DEF Order, InOrder, AskedFor
  <2>2. \A e \in Range(q) : e[2] \in L => e \in D
    BY <1>4, <1>5, <1>6
  <2> HIDE DEF q, B, D, L, A
  <2>3. Follows(due, L, A)
    BY <1>4, <1>13, <2>1, <2>2, KeptFollows
  <2> USE DEF q, B
  <2>4. due \in Seq(B)
    <3> DEFINE P == Nat \X B
               r == Kept(q, D)
    <3>1. q \in Seq(P)
      BY <1>4
    <3> HIDE DEF P, q, B
    <3>2. r \in Seq(P)
      BY <3>1, KeptFacts
    <3>3. r \in Seq(Nat \X B)
      BY <3>2 DEF P
    <3> HIDE DEF r
    <3>4. Blocks(r) \in Seq(B)
      BY <3>3, BlocksOf DEF Blocks
    <3> QED
      BY <3>4 DEF r
  <2> HIDE DEF due, q, B
  <2>5. Follows(Kept(due, Block \ Had), L, A \cup (Range(due) \ (Block \ Had)))
    BY <2>3, <2>4, FollowsKept
  <2>6. \A b \in L : b - 1 \in A \cup (Range(due) \ (Block \ Had)) => b - 1 \in A
    <3>1. SUFFICES ASSUME NEW b \in L, b - 1 \in Range(due), b - 1 \notin Block \ Had PROVE b - 1 \in A
      OBVIOUS
    <3>2. b - 1 \in Block
      BY <1>4, <2>4, <3>1, SeqRange
    <3>3. b - 1 \in L \cup {Fork} /\ Fork \in index
      BY LowFacts DEF L
    <3>4. b - 1 \in index
      BY <3>1, <3>2, <3>3 DEF L, Had, Order, LowIsTold
    <3> QED
      BY <3>4 DEF A
  <2>7. Follows(Kept(due, Block \ Had), L, A)
    BY <2>5, <2>6, FollowsMore
  <2> QED
    BY <1>2, <2>7
\* What is sent.
<1>15. /\ Carried(toServer'[s], "getdata") = Requests(s) \cup Range(wanted)
       /\ Orderly(toServer'[s], "getdata", L, index \cup Sent(s))
  <2> DEFINE X == ToServer(s)
             p == toServer[s] \o inv(vInv)
  <2>1. /\ inv(vInv) \in Seq(X) /\ getdata(wanted) \in Seq(X) /\ toServer[s] \o inv(vInv) \in Seq(X)
    BY SentMessages
  <2>2. toServer[s] \in Seq(X)
    BY QueueFacts DEF Queues
  <2>3. \A m \in Range(inv(vInv)) : Of(m, "getdata") = <<>>
    <3>1. Range(inv(vInv)) = IF vInv = <<>> THEN {} ELSE {[type |-> "inv", vInv |-> vInv]}
      BY InvRange
    <3>2. \A m \in Range(inv(vInv)) : m.type = "inv"
      BY <3>1
    <3> QED
      BY <3>2 DEF Of
  <2>4. Orderly(toServer[s], "getdata", L, index \cup Sent(s))
    BY DEF Order, InOrder
  <2> HIDE DEF X, L
  <2>5. /\ Carried(p, "getdata") = Requests(s) /\ Orderly(p, "getdata", L, index \cup Sent(s))
    BY <2>1, <2>2, <2>3, <2>4, OrderlyOthers DEF Requests
  <2>6. p \in Seq(X)
    BY <2>1
  <2> HIDE DEF p
  <2>7. CASE wanted = <<>>
    <3>1. p \o getdata(wanted) = p
      BY <2>6, <2>7 DEF getdata
    <3>2. Range(wanted) = {}
      BY <2>7 DEF Range
    <3> QED
      BY <1>2, <2>5, <3>1, <3>2 DEF p
  <2>8. CASE wanted # <<>>
    <3> DEFINE m == [type |-> "getdata", vInv |-> wanted]
    <3>1. getdata(wanted) = <<m>>
      BY <2>8 DEF getdata
    <3>2. m \in X
      BY <2>8 DEF X, ToServer
    <3>3. Of(m, "getdata") = wanted
      BY DEF Of
    <3> HIDE DEF m
    <3>4. p \o <<m>> = Append(p, m)
      BY <2>6, <3>2
    <3>5. toServer'[s] = Append(p, m)
      BY <1>2, <3>1, <3>4 DEF p
    <3>6. Follows(Of(m, "getdata"), L, (index \cup Sent(s)) \cup Carried(p, "getdata"))
      BY <1>14, <2>5, <3>3 DEF A
    <3>7. Orderly(Append(p, m), "getdata", L, index \cup Sent(s))
      BY <2>5, <2>6, <3>2, <3>6, OrderlyAppend
    <3>8. Carried(Append(p, m), "getdata") = Carried(p, "getdata") \cup Range(Of(m, "getdata"))
      BY <2>6, <3>2, CarriedAppend
    <3> QED
      BY <2>5, <3>3, <3>5, <3>7, <3>8
  <2> QED
    BY <2>7, <2>8
<1>16. Requests(s)' = Requests(s) \cup Range(wanted)
  BY <1>15 DEF Requests
<1>17. Coming(s)' \subseteq Coming(s) /\ \A x \in L : x \in Coming(s) => x \in Coming(s)' \cup index
  <2>1. Range(AskedFor(s)') \subseteq Range(AskedFor(s))
    BY <1>7, <1>9
  <2> QED
    BY <1>3, <1>11, <1>12, <1>16, <2>1 DEF Coming
<1> HIDE DEF q, B, L, D, due, A
<1>21. InOrder(s)'
  <2>1. Orderly(toClient'[s], "block", Low(s)', index')
    BY <1>2, <1>3 DEF Order, InOrder, L
  <2>2. Orderly(toServer'[s], "getdata", Low(s)', index' \cup Sent(s)')
    BY <1>3, <1>15
  <2>3. Follows(AskedFor(s)', Low(s)', index' \cup Sent(s)' \cup Requests(s)')
    <3> DEFINE r == Kept(q, (Nat \ {0}) \X Block)
    <3>1. AskedFor(s)' = Blocks(r)
      BY <1>2 DEF AskedFor
    <3>2. r \in Seq(Nat \X B)
      BY <1>9 DEF q, B
    <3> HIDE DEF r
    <3>3. Blocks(r) \in Seq(B)
      BY <3>2, BlocksOf DEF Blocks
    <3>4. \A k \in 1 .. Len(Blocks(r)) : Blocks(r)[k] \in Range(Blocks(r))
      BY <3>3, SeqRange
    <3> QED
      BY <1>3, <1>10, <3>1, <3>4 DEF Follows
  <2>4. Orderly(toClient'[s], "inv", Low(s)', index' \cup Coming(s)')
    <3>1. \A x \in L : x - 1 \in index \cup Coming(s) => x - 1 \in index \cup Coming(s)'
      <4>1. \A x \in L : x - 1 \in L \cup {Fork} /\ Fork \in index
        BY LowFacts DEF L
      <4> QED
        BY <1>17, <4>1
    <3>2. Orderly(toClient[s], "inv", L, index \cup Coming(s))
      BY DEF Order, InOrder, L
    <3> QED
      BY <1>2, <1>3, <3>1, <3>2, OrderlyMore
  <2>5. Follows(toSend'[s], Low(s)', known'[s] \cup {Fork})
    BY <1>3 DEF Order, InOrder, L
  <2> QED
    BY <2>1, <2>2, <2>3, <2>4, <2>5 DEF InOrder
<1>22. AskedAtOnce(s)'
  <2>1. Range(mapAskFor'[s]) \subseteq Range(q)
    BY <1>2, <1>9 DEF q
  <2> QED
    BY <1>3, <1>5, <2>1 DEF AskedAtOnce
<1>23. LowIsTold(s)'
  BY <1>3, <1>17 DEF Order, LowIsTold, L
<1>24. ToldOnce(s)'
  <2>1. ASSUME NEW x \in L, x \notin Coming(s), mapAlreadyAskedFor[x] = Never
        PROVE  mapAlreadyAskedFor'[x] = Never
    <3>1. x \notin Range(wanted)
      BY <1>12, <2>1 DEF Coming
    <3> QED
      BY <1>2, <1>4, <2>1, <3>1
  <2>2. ASSUME NEW x \in L, x \in Announced(s)
        PROVE  mapAlreadyAskedFor'[x] = Never /\ x \notin index \cup Coming(s)'
    BY <1>17, <2>1, <2>2 DEF Order, ToldOnce, L
  <2>3. ASSUME NEW x \in L, x \notin known[s] PROVE mapAlreadyAskedFor'[x] = Never
    BY <2>1, <2>3 DEF Order, ToldOnce, LowIsTold, L
  <2>4. Once(toClient'[s], "inv", Low(s)')
    BY <1>2, <1>3 DEF Order, ToldOnce, L
  <2> QED
    BY <1>3, <2>2, <2>3, <2>4 DEF ToldOnce
<1> QED
  BY <1>21, <1>22, <1>23, <1>24 DEF Order

\* The head of what the server receives.
LEMMA RequestIsInOrder ==
    ASSUME DownloadInv, NEW s \in Server, Order(s), toServer[s] # <<>>
    PROVE  /\ Follows(Of(Head(toServer[s]), "getdata"), Low(s), index \cup Sent(s))
           /\ Orderly(Tail(toServer[s]), "getdata", Low(s),
                      index \cup Sent(s) \cup Range(Of(Head(toServer[s]), "getdata")))
           /\ Requests(s) = Range(Of(Head(toServer[s]), "getdata")) \cup Carried(Tail(toServer[s]), "getdata")
<1> DEFINE q == toServer[s]
           X == ToServer(s)
           L == Low(s)
           A == index \cup Sent(s)
<1>1. q \in Seq(X) /\ q # <<>>
  BY QueueFacts DEF Queues
<1>2. Orderly(q, "getdata", L, A)
  BY DEF Order, InOrder
<1> HIDE DEF q, X, L, A
<1>3. Follows(Of(Head(q), "getdata"), L, A)
  BY <1>1, <1>2, OrderlyFirst
<1>4. Orderly(Tail(q), "getdata", L, A \cup Range(Of(Head(q), "getdata")))
  BY <1>1, <1>2, OrderlyTail
<1>5. Carried(q, "getdata") = Range(Of(Head(q), "getdata")) \cup Carried(Tail(q), "getdata")
  BY <1>1, CarriedTail
<1> QED
  BY <1>3, <1>4, <1>5 DEF q, X, L, A, Requests

\* getblocks begins after the fork, or after a block that it follows on.
LEMMA BeginIsTold ==
    ASSUME DownloadInv, Background, NEW s \in Server, LowIsTold(s),
           NEW m \in GetBlocks, m \in Range(toServer[s]), m.type = "getblocks",
           NEW b \in Low(s), b - 1 = GetBlockIndex(s, m.locator)
    PROVE  b - 1 \in {Fork} \cup known[s]
<1> DEFINE begin == GetBlockIndex(s, m.locator)
           l == m.locator
<1>1. l \in index /\ l \in Block
  BY DEF Background, AnnouncedArrives, Arrives, AsksFrom, GetBlocks
<1>2. begin \in 0 .. Earlier(height[s], IF l < 0 THEN Fork ELSE l)
  BY <1>1, GetBlockIndexFacts DEF DownloadInv
<1>3. b \in Nat /\ b > Fork /\ height[s] \in Nat /\ Fork \in Nat /\ b - 1 \in Low(s) \cup {Fork}
  BY LowFacts
<1>4. l \in Int
  BY <1>1, BlockFacts
<1>5. CASE begin = Fork
  BY <1>5
<1>6. CASE begin # Fork
  <2>1. begin > Fork /\ begin \in Int
    BY <1>3, <1>6
  <2>2. l >= 0 /\ begin \in 0..l
    BY <1>2, <1>3, <1>4, <2>1 DEF Earlier
  <2>3. l \in Main
    BY <1>1, <2>2, BlockFacts
  <2>4. begin \in index
    BY <1>1, <2>2, <2>3, IndexIsClosed
  <2>5. begin \in Low(s)
    BY <1>3, <1>6
  <2> QED
    BY <2>4, <2>5 DEF LowIsTold
<1> QED
  BY <1>5, <1>6

LEMMA GetBlocksOrder ==
    ASSUME DownloadInv, Background, NEW s \in Server, Order(s), Serves(s),
           NEW m \in GetBlocks, m \in Range(toServer[s]), m.type = "getblocks",
           Of(Head(toServer[s]), "getdata") = <<>>, NEW begin \in Nat, NEW n \in Nat, Tells(s, m, begin, n)
    PROVE  Order(s)'
<1> DEFINE L == Low(s)
           sent == After(begin, n)
           more == Kept(sent, Block \ known[s])
           T == begin + 1 .. begin + n
<1>1. /\ toServer[s] # <<>> /\ toServer'[s] = Tail(toServer[s]) /\ toClient'[s] = toClient[s]
      /\ index' = index /\ mapOrphanBlocks' = mapOrphanBlocks /\ mapAlreadyAskedFor' = mapAlreadyAskedFor
      /\ mapAskFor' = mapAskFor /\ known'[s] = known[s]
  BY DEF Serves, ClientKept, ChainKept, Tells
<1>2. /\ sent \in Seq(Has(s)) /\ Range(sent) = T /\ more \in Seq(Has(s)) /\ Range(more) = T \ known[s]
      /\ toSend'[s] = toSend[s] \o more /\ Told(s)' = Told(s) \cup T
  <2>1. TellsMore(s, begin, n)
    BY TellsRange
  <2> QED
    BY <2>1 DEF TellsMore
<1>3. Range(<<>>) = {}
  BY DEF Range
<1>4. /\ Orderly(Tail(toServer[s]), "getdata", L, index \cup Sent(s)) /\ Requests(s)' = Requests(s)
  <2>1. (index \cup Sent(s)) \cup {} = index \cup Sent(s) /\ {} \cup Carried(Tail(toServer[s]), "getdata")
          = Carried(Tail(toServer[s]), "getdata")
    OBVIOUS
  <2>2. /\ Orderly(Tail(toServer[s]), "getdata", L, index \cup Sent(s) \cup Range(Of(Head(toServer[s]), "getdata")))
        /\ Requests(s) = Range(Of(Head(toServer[s]), "getdata")) \cup Carried(Tail(toServer[s]), "getdata")
    BY <1>1, RequestIsInOrder
  <2> QED
    BY <1>1, <1>3, <2>1, <2>2 DEF Requests
<1>5. /\ Sent(s)' = Sent(s) /\ Announced(s)' = Announced(s) /\ Low(s)' = L /\ AskedFor(s)' = AskedFor(s)
      /\ Coming(s)' = Coming(s)
  BY <1>1, <1>4 DEF Sent, Announced, Low, AskedFor, Coming
<1>6. L \subseteq Nat /\ L \subseteq Block /\ \A b \in L : b - 1 \in L \cup {Fork}
  BY LowFacts
<1>7. \A b \in L : b \in T => b - 1 \in {Fork} \cup known[s] \cup T
  <2>1. SUFFICES ASSUME NEW b \in L, b \in T, b - 1 \notin T PROVE b - 1 \in {Fork} \cup known[s]
    OBVIOUS
  <2>2. b - 1 = begin
    BY <1>6, <2>1
  <2>3. b - 1 = GetBlockIndex(s, m.locator) /\ LowIsTold(s)
    BY <2>2 DEF Tells, Order
  <2> QED
    BY <2>3, BeginIsTold
<1>8. Follows(more, L, known[s] \cup {Fork})
  <2>1. Follows(sent, L, known[s] \cup {Fork})
    <3>1. SUFFICES ASSUME NEW k \in 1 .. Len(sent), sent[k] \in L
                   PROVE  sent[k] - 1 \in known[s] \cup {Fork} \/ \E l \in 1 .. k - 1 : sent[l] = sent[k] - 1
      BY DEF Follows
    <3>2. k \in 1..n /\ sent[k] = begin + k /\ \A i \in 1..n : sent[i] = begin + i
      BY DEF After
    <3>3. CASE k = 1
      <4>1. sent[k] \in T /\ sent[k] - 1 \notin T
        BY <3>2, <3>3
      <4> QED
        BY <1>7, <3>1, <4>1
    <3>4. CASE k # 1
      <4>1. k - 1 \in 1 .. k - 1 /\ k - 1 \in 1..n
        BY <3>2, <3>4
      <4>2. sent[k - 1] = sent[k] - 1
        <5>1. sent[k - 1] = begin + (k - 1) /\ sent[k] = begin + k
          BY <3>2, <4>1
        <5> QED
          BY <3>2, <5>1
      <4> QED
        BY <4>1, <4>2
    <3> QED
      BY <3>3, <3>4
  <2> HIDE DEF sent, L
  <2>2. Follows(more, L, (known[s] \cup {Fork}) \cup (Range(sent) \ (Block \ known[s])))
    BY <1>2, <2>1, FollowsKept
  <2>3. \A b \in L : b - 1 \in (known[s] \cup {Fork}) \cup (Range(sent) \ (Block \ known[s]))
                      => b - 1 \in known[s] \cup {Fork}
    BY <1>6
  <2> QED
    BY <2>2, <2>3, FollowsMore
<1> HIDE DEF L, sent, more, T
<1>21. InOrder(s)'
  <2>1. Orderly(toClient'[s], "block", Low(s)', index')
    BY <1>1, <1>5 DEF Order, InOrder, L
  <2>2. Orderly(toServer'[s], "getdata", Low(s)', index' \cup Sent(s)')
    BY <1>1, <1>4, <1>5
  <2>3. Follows(AskedFor(s)', Low(s)', index' \cup Sent(s)' \cup Requests(s)')
    BY <1>1, <1>4, <1>5 DEF Order, InOrder, L
  <2>4. Orderly(toClient'[s], "inv", Low(s)', index' \cup Coming(s)')
    BY <1>1, <1>5 DEF Order, InOrder, L
  <2>5. Follows(toSend'[s], Low(s)', known'[s] \cup {Fork})
    <3>1. Follows(toSend[s], L, known[s] \cup {Fork})
      BY DEF Order, InOrder, L
    <3>2. toSend[s] \in Seq(Has(s))
      BY QueueFacts DEF Queues
    <3>3. Follows(more, L, (known[s] \cup {Fork}) \cup Range(toSend[s]))
      <4>1. \A b \in L : b - 1 \in known[s] \cup {Fork} => b - 1 \in (known[s] \cup {Fork}) \cup Range(toSend[s])
        OBVIOUS
      <4> QED
        BY <1>8, <4>1, FollowsMore
    <3>4. Follows(toSend[s] \o more, L, known[s] \cup {Fork})
      BY <1>2, <3>1, <3>2, <3>3, FollowsConcat
    <3> QED
      BY <1>1, <1>2, <1>5, <3>4
  <2> QED
    BY <2>1, <2>2, <2>3, <2>4, <2>5 DEF InOrder
<1>22. AskedAtOnce(s)'
  BY <1>1, <1>5 DEF Order, AskedAtOnce, L
<1>23. LowIsTold(s)'
  <2>1. known[s] \subseteq Told(s)
    BY DEF Told
  <2>2. ASSUME NEW b \in L, b \in Told(s)' PROVE b - 1 \in {Fork} \cup Told(s)'
    <3>1. CASE b \in Told(s)
      BY <1>2, <3>1 DEF Order, LowIsTold, L
    <3>2. CASE b \in T
      BY <1>2, <1>7, <2>1, <3>2
    <3> QED
      BY <1>2, <2>2, <3>1, <3>2
  <2> QED
    BY <1>1, <1>5, <2>2 DEF Order, LowIsTold, L
<1>24. ToldOnce(s)'
  BY <1>1, <1>5 DEF Order, ToldOnce, L
<1> QED
  BY <1>21, <1>22, <1>23, <1>24 DEF Order

LEMMA GetDataOrder ==
    ASSUME DownloadInv, Background, NEW s \in Server, Order(s), Serves(s),
           NEW v \in Seq(Has(s)), v # <<>>, Of(Head(toServer[s]), "getdata") = v, Answers(s, v)
    PROVE  Order(s)'
<1> DEFINE L == Low(s)
           f == Answered(s, v)[Len(v)]
<1>1. /\ toServer[s] # <<>> /\ toServer'[s] = Tail(toServer[s]) /\ toClient'[s] = f
      /\ index' = index /\ mapOrphanBlocks' = mapOrphanBlocks /\ mapAlreadyAskedFor' = mapAlreadyAskedFor
      /\ mapAskFor' = mapAskFor /\ known'[s] = known[s] /\ toSend'[s] = toSend[s]
  BY DEF Serves, ClientKept, ChainKept, Answers
<1>2. /\ Follows(v, L, index \cup Sent(s))
      /\ Orderly(Tail(toServer[s]), "getdata", L, index \cup Sent(s) \cup Range(v))
      /\ Requests(s) = Range(v) \cup Requests(s)'
  BY <1>1, RequestIsInOrder DEF Requests
<1>3. height[s] \notin L
  BY LowFacts
<1>4. /\ AnswersSoFar(s, v, L, index, index \cup Coming(s), f, Len(v)) /\ f \in Seq(ToClient(s))
  <2>1. /\ Orderly(toClient[s], "block", L, index) /\ Orderly(toClient[s], "inv", L, index \cup Coming(s))
        /\ Once(toClient[s], "inv", L)
    BY DEF Order, InOrder, ToldOnce
  <2> HIDE DEF L
  <2> QED
    BY <1>2, <1>3, <2>1, AnsweredInOrder
<1>5. /\ Orderly(f, "block", L, index) /\ Sent(s)' = Sent(s) \cup Range(v)
      /\ Orderly(f, "inv", L, index \cup Coming(s)) /\ Once(f, "inv", L)
      /\ Announced(s)' \subseteq Announced(s) \cup {height[s]}
  <2>1. Range(v) = {v[i] : i \in 1 .. Len(v)}
    BY SeqRange
  <2> QED
    BY <1>1, <1>4, <2>1 DEF AnswersSoFar, Sent, Announced
<1>6. /\ Low(s)' = L /\ AskedFor(s)' = AskedFor(s) /\ Coming(s)' = Coming(s) /\ Told(s)' = Told(s)
  BY <1>1, <1>2, <1>5 DEF Low, AskedFor, Coming, Told
<1> HIDE DEF L, f
<1>21. InOrder(s)'
  <2>1. Orderly(toClient'[s], "block", Low(s)', index')
    BY <1>1, <1>5, <1>6
  <2>2. Orderly(toServer'[s], "getdata", Low(s)', index' \cup Sent(s)')
    <3>1. index' \cup Sent(s)' = index \cup Sent(s) \cup Range(v)
      BY <1>1, <1>5
    <3> QED
      BY <1>1, <1>2, <1>6, <3>1
  <2>3. Follows(AskedFor(s)', Low(s)', index' \cup Sent(s)' \cup Requests(s)')
    <3>1. index' \cup Sent(s)' \cup Requests(s)' = index \cup Sent(s) \cup Requests(s)
      BY <1>1, <1>2, <1>5
    <3> QED
      BY <1>6, <3>1 DEF Order, InOrder, L
  <2>4. Orderly(toClient'[s], "inv", Low(s)', index' \cup Coming(s)')
    BY <1>1, <1>5, <1>6
  <2>5. Follows(toSend'[s], Low(s)', known'[s] \cup {Fork})
    BY <1>1, <1>6 DEF Order, InOrder, L
  <2> QED
    BY <2>1, <2>2, <2>3, <2>4, <2>5 DEF InOrder
<1>22. AskedAtOnce(s)'
  BY <1>1, <1>6 DEF Order, AskedAtOnce, L
<1>23. LowIsTold(s)'
  <2>1. \A b \in L : b \in Announced(s)' => b \in Announced(s)
    BY <1>3, <1>5
  <2> QED
    BY <1>1, <1>6, <2>1 DEF Order, LowIsTold, L
<1>24. ToldOnce(s)'
  <2>1. \A b \in L : b \in Announced(s)' => b \in Announced(s)
    BY <1>3, <1>5
  <2>2. Once(toClient'[s], "inv", Low(s)')
    BY <1>1, <1>5, <1>6
  <2> QED
    BY <1>1, <1>6, <2>1, <2>2 DEF Order, ToldOnce, L
<1> QED
  BY <1>21, <1>22, <1>23, <1>24 DEF Order

LEMMA LearnOrder ==
    ASSUME DownloadInv, Background, NEW s \in Server, Order(s), Serves(s),
           NEW v, Range(v) \subseteq Had, Of(Head(toServer[s]), "getdata") = <<>>, Learns(s, v)
    PROVE  Order(s)'
<1> DEFINE L == Low(s)
<1>1. /\ toServer[s] # <<>> /\ toServer'[s] = Tail(toServer[s]) /\ toClient'[s] = toClient[s]
      /\ index' = index /\ mapOrphanBlocks' = mapOrphanBlocks /\ mapAlreadyAskedFor' = mapAlreadyAskedFor
      /\ mapAskFor' = mapAskFor /\ known'[s] = known[s] \cup Range(v) /\ toSend'[s] = toSend[s]
  BY DEF Serves, ClientKept, ChainKept, Learns
<1>2. Range(<<>>) = {}
  BY DEF Range
<1>3. /\ Orderly(Tail(toServer[s]), "getdata", L, index \cup Sent(s)) /\ Requests(s)' = Requests(s)
  <2>1. (index \cup Sent(s)) \cup {} = index \cup Sent(s) /\ {} \cup Carried(Tail(toServer[s]), "getdata")
          = Carried(Tail(toServer[s]), "getdata")
    OBVIOUS
  <2> QED
    BY <1>1, <1>2, <2>1, RequestIsInOrder DEF Requests
<1>4. /\ Sent(s)' = Sent(s) /\ Announced(s)' = Announced(s) /\ Low(s)' = L /\ AskedFor(s)' = AskedFor(s)
      /\ Coming(s)' = Coming(s) /\ Told(s)' = Told(s) \cup Range(v)
  BY <1>1, <1>3 DEF Sent, Announced, Low, AskedFor, Coming, Told
<1>5. \A b \in L : b \in Range(v) => b \in known[s]
  BY DEF Order, LowIsTold, Had
<1> HIDE DEF L
<1>21. InOrder(s)'
  <2>1. Orderly(toClient'[s], "block", Low(s)', index')
    BY <1>1, <1>4 DEF Order, InOrder, L
  <2>2. Orderly(toServer'[s], "getdata", Low(s)', index' \cup Sent(s)')
    BY <1>1, <1>3, <1>4
  <2>3. Follows(AskedFor(s)', Low(s)', index' \cup Sent(s)' \cup Requests(s)')
    BY <1>1, <1>3, <1>4 DEF Order, InOrder, L
  <2>4. Orderly(toClient'[s], "inv", Low(s)', index' \cup Coming(s)')
    BY <1>1, <1>4 DEF Order, InOrder, L
  <2>5. Follows(toSend'[s], Low(s)', known'[s] \cup {Fork})
    <3>1. Follows(toSend[s], L, known[s] \cup {Fork})
      BY DEF Order, InOrder, L
    <3>2. \A b \in L : b - 1 \in known[s] \cup {Fork} => b - 1 \in known'[s] \cup {Fork}
      BY <1>1
    <3>3. Follows(toSend[s], L, known'[s] \cup {Fork})
      BY <3>1, <3>2, FollowsMore
    <3> QED
      BY <1>1, <1>4, <3>3
  <2> QED
    BY <2>1, <2>2, <2>3, <2>4, <2>5 DEF InOrder
<1>22. AskedAtOnce(s)'
  BY <1>1, <1>4 DEF Order, AskedAtOnce, L
<1>23. LowIsTold(s)'
  <2>1. known[s] \subseteq Told(s)
    BY DEF Told
  <2>2. ASSUME NEW b \in L, b \in Told(s)' PROVE b - 1 \in {Fork} \cup Told(s)'
    BY <1>4, <1>5, <2>1, <2>2 DEF Order, LowIsTold, L
  <2> QED
    BY <1>1, <1>4, <2>2 DEF Order, LowIsTold, L
<1>24. ToldOnce(s)'
  BY <1>1, <1>4 DEF Order, ToldOnce, L
<1> QED
  BY <1>21, <1>22, <1>23, <1>24 DEF Order

LEMMA ServerReceiveOrder ==
    ASSUME DownloadInv, Background, NEW s \in Server, ServerReceive(s), Order(s)
    PROVE  Order(s)'
<1> DEFINE m == Head(toServer[s])
<1>1. /\ Serves(s) /\ m \in ToServer(s)
      /\ \/ /\ m.type = "getblocks" /\ m \in GetBlocks
            /\ \E begin \in Nat, n \in Nat : Tells(s, m, begin, n)
         \/ m.type = "getdata" /\ m.vInv \in Seq(Has(s)) \ {<<>>} /\ Answers(s, m.vInv)
         \/ m.type = "inv" /\ m.vInv \in Seq(Block) /\ Learns(s, m.vInv)
  BY ServerReceiveDoes
<1>2. m \in Range(toServer[s])
  <2>1. toServer[s] \in Seq(ToServer(s)) /\ toServer[s] # <<>>
    BY <1>1, QueueFacts DEF Queues, Serves
  <2> QED
    BY <2>1, RangeTail
<1>3. /\ m.type # "getdata" => Of(Head(toServer[s]), "getdata") = <<>>
      /\ m.type = "getdata" => Of(Head(toServer[s]), "getdata") = m.vInv
  BY DEF Of
<1>4. m.type = "inv" => Range(m.vInv) \subseteq Had
  BY <1>2 DEF Background, AnnouncedArrives, Arrives
<1> HIDE DEF m
<1>5. ASSUME m.type = "getblocks", m \in GetBlocks, NEW begin \in Nat, NEW n \in Nat, Tells(s, m, begin, n)
      PROVE  Order(s)'
  <2>1. Of(Head(toServer[s]), "getdata") = <<>> /\ Serves(s)
    BY <1>1, <1>3, <1>5
  <2> QED
    BY <1>2, <1>5, <2>1, GetBlocksOrder
<1>6. ASSUME m.type = "getdata", m.vInv \in Seq(Has(s)) \ {<<>>}, Answers(s, m.vInv) PROVE Order(s)'
  <2>1. Of(Head(toServer[s]), "getdata") = m.vInv /\ Serves(s) /\ m.vInv \in Seq(Has(s)) /\ m.vInv # <<>>
    BY <1>1, <1>3, <1>6
  <2> QED
    BY <1>6, <2>1, GetDataOrder
<1>7. ASSUME m.type = "inv", m.vInv \in Seq(Block), Learns(s, m.vInv) PROVE Order(s)'
  <2>1. Of(Head(toServer[s]), "getdata") = <<>> /\ Serves(s) /\ Range(m.vInv) \subseteq Had
    BY <1>1, <1>3, <1>4, <1>7
  <2> QED
    BY <1>7, <2>1, LearnOrder
<1> QED
  BY <1>1, <1>5, <1>6, <1>7

LEMMA ServerSendOrder ==
    ASSUME DownloadInv, Background, NothingForgotten, NEW s \in Server, ServerSend(s), Order(s)
    PROVE  Order(s)'
<1> DEFINE L == Low(s)
           q == toClient[s]
           X == ToClient(s)
<1>1. PICK v \in Seq(Has(s)) : ServerSends(s, v) /\ SentFrom(v, toSend[s], known[s], Len(toSend[s]))
  BY ServerSendDoes
<1>2. /\ index' = index /\ mapOrphanBlocks' = mapOrphanBlocks /\ mapAlreadyAskedFor' = mapAlreadyAskedFor
      /\ mapAskFor' = mapAskFor /\ toServer'[s] = toServer[s] /\ v = Unsent(toSend[s], known[s])
      /\ toSend'[s] = <<>> /\ toClient'[s] = q \o inv(v) /\ known'[s] = known[s] \cup Range(v)
  BY <1>1 DEF ServerSends, ClientKept, ChainKept
<1>3. /\ q \in Seq(X) /\ inv(v) \in Seq(X) /\ toSend[s] \in Seq(Has(s))
  <2>1. q \in Seq(X) /\ toSend[s] \in Seq(Has(s))
    BY QueueFacts DEF Queues
  <2>2. [type |-> "inv", vInv |-> v] \in X
    BY DEF ToClient
  <2>3. inv(v) \in Seq(X)
    BY <2>2 DEF inv
  <2> QED
    BY <2>1, <2>3
<1>4. Announced(s)' = Announced(s) \cup Range(v) /\ Sent(s)' = Sent(s)
  BY <1>2, AnnouncedMore DEF Announced, Sent
<1>5. /\ Range(v) = Range(toSend[s]) \ known[s]
      /\ \A j, k \in 1 .. Len(v) : v[j] = v[k] => j = k
  <2>1. /\ \A y : y \in Range(v) <=> y \notin known[s] /\ \E i \in 1 .. Len(toSend[s]) : toSend[s][i] = y
        /\ \A j, k \in 1 .. Len(v) : v[j] = v[k] => j = k
    BY <1>1 DEF SentFrom
  <2>2. \A y : y \in Range(toSend[s]) <=> \E i \in 1 .. Len(toSend[s]) : toSend[s][i] = y
    BY <1>3, SeqRange
  <2> QED
    BY <2>1, <2>2
<1>6. /\ Low(s)' = L /\ AskedFor(s)' = AskedFor(s) /\ Requests(s)' = Requests(s) /\ Coming(s)' = Coming(s)
      /\ Told(s)' = Told(s)
  <2>1. Range(<<>>) = {}
    BY DEF Range
  <2>2. Told(s)' = Told(s)
    BY <1>2, <1>5, <2>1 DEF Told
  <2> QED
    BY <1>2, <1>4, <2>2 DEF Low, AskedFor, Requests, Coming
<1>7. \A b \in L : b - 1 \in L \cup {Fork} /\ Fork \in index
  BY LowFacts
<1>8. \A b \in L : b \in Range(v) => /\ b \notin Announced(s) /\ b \notin index \cup Coming(s)
                                     /\ mapAlreadyAskedFor[b] = Never
  BY <1>5 DEF Order, ToldOnce, LowIsTold
<1>9. Follows(v, L, (index \cup Coming(s)) \cup Announced(s))
  <2>1. Follows(toSend[s], L, known[s] \cup {Fork})
    BY DEF Order, InOrder
  <2>2. Follows(v, L, (known[s] \cup {Fork}) \cup known[s])
    BY <1>2, <1>3, <2>1, FollowsUnsent
  <2>3. \A b \in L : b - 1 \in (known[s] \cup {Fork}) \cup known[s]
                      => b - 1 \in (index \cup Coming(s)) \cup Announced(s)
    <3>1. LowIsTold(s)
      BY DEF Order
    <3> QED
      BY <1>7, <3>1, LowIsThere
  <2> HIDE DEF L
  <2> QED
    BY <2>2, <2>3, FollowsMore
\* The inventory.
<1>10. /\ Orderly(toClient'[s], "block", L, index) /\ Orderly(toClient'[s], "inv", L, index \cup Coming(s))
       /\ Once(toClient'[s], "inv", L)
  <2>1. /\ Orderly(q, "block", L, index) /\ Orderly(q, "inv", L, index \cup Coming(s)) /\ Once(q, "inv", L)
    BY DEF Order, InOrder, ToldOnce
  <2>2. CASE v = <<>>
    <3>1. q \o inv(v) = q
      BY <1>3, <2>2 DEF inv
    <3> QED
      BY <1>2, <2>1, <3>1
  <2>3. CASE v # <<>>
    <3> DEFINE m == [type |-> "inv", vInv |-> v]
    <3>1. inv(v) = <<m>> /\ m \in X /\ Of(m, "inv") = v /\ Of(m, "block") = <<>>
      BY <2>3 DEF inv, ToClient, Of
    <3>2. \A p \in X : Of(p, "inv") \in Seq(Has(s))
      BY OfFacts DEF DownloadInv
    <3>3. Announced(s) = Carried(q, "inv")
      BY DEF Announced
    <3> HIDE DEF m, q, X, L
    <3>4. q \o <<m>> = Append(q, m)
      BY <1>3, <3>1
    <3>5. toClient'[s] = Append(q, m)
      BY <1>2, <3>1, <3>4
    <3>6. Orderly(Append(q, m), "inv", L, index \cup Coming(s))
      <4>1. Follows(Of(m, "inv"), L, (index \cup Coming(s)) \cup Carried(q, "inv"))
        BY <1>9, <3>1, <3>3
      <4> QED
        BY <1>3, <2>1, <3>1, <4>1, OrderlyAppend
    <3>7. Orderly(Append(q, m), "block", L, index)
      <4>1. Follows(Of(m, "block"), L, index \cup Carried(q, "block"))
        BY <3>1 DEF Follows
      <4> QED
        BY <1>3, <2>1, <3>1, <4>1, OrderlyAppend
    <3>8. Once(Append(q, m), "inv", L)
      <4>1. Of(m, "inv") \in Seq(Has(s))
        BY <3>1, <3>2
      <4>2. \A b \in L : b \in Range(Of(m, "inv")) => b \notin Carried(q, "inv")
        BY <1>8, <3>1, <3>3
      <4>3. \A k, l \in 1 .. Len(Of(m, "inv")) :
              Of(m, "inv")[k] \in L /\ Of(m, "inv")[l] = Of(m, "inv")[k] => k = l
        BY <1>5, <3>1
      <4> QED
        BY <1>3, <2>1, <3>1, <3>2, <4>1, <4>2, <4>3, OnceAppend
    <3> QED
      BY <3>5, <3>6, <3>7, <3>8
  <2> QED
    BY <2>2, <2>3
<1> HIDE DEF L, q, X
<1>21. InOrder(s)'
  <2>1. Orderly(toClient'[s], "block", Low(s)', index')
    BY <1>2, <1>6, <1>10
  <2>2. Orderly(toServer'[s], "getdata", Low(s)', index' \cup Sent(s)')
    BY <1>2, <1>4, <1>6 DEF Order, InOrder, L
  <2>3. Follows(AskedFor(s)', Low(s)', index' \cup Sent(s)' \cup Requests(s)')
    BY <1>2, <1>4, <1>6 DEF Order, InOrder, L
  <2>4. Orderly(toClient'[s], "inv", Low(s)', index' \cup Coming(s)')
    BY <1>2, <1>6, <1>10
  <2>5. Follows(toSend'[s], Low(s)', known'[s] \cup {Fork})
    BY <1>2 DEF Follows
  <2> QED
    BY <2>1, <2>2, <2>3, <2>4, <2>5 DEF InOrder
<1>22. AskedAtOnce(s)'
  BY <1>2, <1>6 DEF Order, AskedAtOnce, L
<1>23. LowIsTold(s)'
  <2>1. ASSUME NEW b \in L, b \in index' \cup Coming(s)' \cup Announced(s)' PROVE b \in known'[s]
    <3>1. b \in index \cup Coming(s) \cup Announced(s) \/ b \in Range(v)
      BY <1>2, <1>4, <1>6, <2>1
    <3> QED
      BY <1>2, <3>1 DEF Order, LowIsTold, L
  <2> QED
    BY <1>2, <1>6, <2>1 DEF Order, LowIsTold, L
<1>24. ToldOnce(s)'
  <2>1. ASSUME NEW b \in L, b \in Announced(s)'
        PROVE  mapAlreadyAskedFor'[b] = Never /\ b \notin index' \cup Coming(s)'
    <3>1. CASE b \in Announced(s)
      BY <1>2, <1>6, <3>1 DEF Order, ToldOnce, L
    <3>2. CASE b \in Range(v)
      BY <1>2, <1>6, <1>8, <3>2
    <3> QED
      BY <1>4, <2>1, <3>1, <3>2
  <2>2. ASSUME NEW b \in L, b \notin known'[s] PROVE mapAlreadyAskedFor'[b] = Never
    BY <1>2, <2>2 DEF Order, ToldOnce, L
  <2>3. Once(toClient'[s], "inv", Low(s)')
    BY <1>6, <1>10
  <2> QED
    BY <1>6, <2>1, <2>2, <2>3 DEF ToldOnce
<1> QED
  BY <1>21, <1>22, <1>23, <1>24 DEF Order

\* Nothing is sent, received or asked for.
LEMMA OrderStays ==
    ASSUME NEW s, Order(s), index' = index, mapOrphanBlocks' = mapOrphanBlocks,
           \A b \in Low(s) : mapAlreadyAskedFor[b] = Never => mapAlreadyAskedFor'[b] = Never,
           AskedFor(s)' = AskedFor(s), AskedAtOnce(s)',
           toServer'[s] = toServer[s], toClient'[s] = toClient[s], known'[s] = known[s],
           Follows(toSend'[s], Low(s), known[s] \cup {Fork}),
           \A b \in Low(s) : b \in Range(toSend'[s]) <=> b \in Range(toSend[s]),
           Range(toSend[s]) \subseteq Range(toSend'[s])
    PROVE  Order(s)'
<1> DEFINE L == Low(s)
<1>1. /\ Sent(s)' = Sent(s) /\ Announced(s)' = Announced(s) /\ Requests(s)' = Requests(s) /\ Low(s)' = L
      /\ Coming(s)' = Coming(s) /\ Told(s) \subseteq Told(s)' /\ \A b \in L : b \in Told(s)' => b \in Told(s)
  BY DEF Sent, Announced, Requests, Low, Coming, Told
<1>2. /\ Orderly(toClient[s], "block", L, index) /\ Orderly(toClient[s], "inv", L, index \cup Coming(s))
      /\ Orderly(toServer[s], "getdata", L, index \cup Sent(s))
      /\ Follows(AskedFor(s), L, index \cup Sent(s) \cup Requests(s)) /\ Once(toClient[s], "inv", L)
  BY DEF Order, InOrder, ToldOnce
<1> HIDE DEF L
<1>3. InOrder(s)'
  BY <1>1, <1>2 DEF InOrder, L
<1>4. LowIsTold(s)'
  <2>1. ASSUME NEW b \in L, b \in Told(s)' PROVE b - 1 \in {Fork} \cup Told(s)'
    BY <1>1, <2>1 DEF Order, LowIsTold, L
  <2>2. ASSUME NEW b \in L, b \in index' \cup Coming(s)' \cup Announced(s)' PROVE b \in known'[s]
    BY <1>1, <2>2 DEF Order, LowIsTold, L
  <2>3. ASSUME NEW b \in L PROVE b \notin mapOrphanBlocks'
    BY DEF Order, LowIsTold, L
  <2> QED
    BY <1>1, <2>1, <2>2, <2>3 DEF LowIsTold
<1>5. ToldOnce(s)'
  <2>1. ASSUME NEW b \in L, b \in Announced(s)'
        PROVE  mapAlreadyAskedFor'[b] = Never /\ b \notin index' \cup Coming(s)'
    BY <1>1, <2>1 DEF Order, ToldOnce, L
  <2>2. ASSUME NEW b \in L, b \notin known'[s] PROVE mapAlreadyAskedFor'[b] = Never
    BY <2>2 DEF Order, ToldOnce, L
  <2> QED
    BY <1>1, <1>2, <2>1, <2>2 DEF ToldOnce
<1> QED
  BY <1>3, <1>4, <1>5 DEF Order

\* Another server does something.
LEMMA OrderOfOthers ==
    ASSUME NEW s, Order(s), UNCHANGED <<index, mapOrphanBlocks, mapAlreadyAskedFor>>,
           mapAskFor'[s] = mapAskFor[s], toServer'[s] = toServer[s], toClient'[s] = toClient[s],
           known'[s] = known[s], toSend'[s] = toSend[s]
    PROVE  Order(s)'
<1>1. AskedFor(s)' = AskedFor(s) /\ AskedAtOnce(s)'
  BY DEF AskedFor, AskedAtOnce, Order, Low
<1>2. Follows(toSend'[s], Low(s), known[s] \cup {Fork})
  BY DEF Order, InOrder
<1> QED
  BY <1>1, <1>2, OrderStays

LEMMA NewBlockOrder ==
    ASSUME DownloadInv, Background, NEW s \in Server, NewBlock(s), Order(s)
    PROVE  Order(s)'
<1>1. PICK v \in Seq(Main) : Finds(s, v)
  BY NewBlockDoes
<1>2. /\ index' = index /\ mapOrphanBlocks' = mapOrphanBlocks /\ mapAlreadyAskedFor' = mapAlreadyAskedFor
      /\ mapAskFor' = mapAskFor /\ toServer'[s] = toServer[s] /\ toClient'[s] = toClient[s]
      /\ known'[s] = known[s] /\ v \in {<<>>, <<height[s] + 1>>}
  BY <1>1 DEF Finds, ClientKept, ChainKept
<1>3. /\ toSend'[s] = toSend[s] \o v /\ toSend[s] \in Seq(Main)
      /\ Range(toSend'[s]) = Range(toSend[s]) \cup Range(v) /\ Range(v) \subseteq {height[s] + 1}
  BY <1>1, FindsTold
<1>4. AskedFor(s)' = AskedFor(s) /\ AskedAtOnce(s)'
  BY <1>2 DEF AskedFor, AskedAtOnce, Order, Low
<1>5. height[s] + 1 \notin Low(s)
  <2>1. height[s] \in Nat /\ \A b \in Low(s) : b < height[s]
    BY LowFacts
  <2> QED
    BY <2>1
<1>6. Follows(toSend'[s], Low(s), known[s] \cup {Fork})
  <2>1. Follows(toSend[s], Low(s), known[s] \cup {Fork})
    BY DEF Order, InOrder
  <2>2. Follows(v, Low(s), (known[s] \cup {Fork}) \cup Range(toSend[s]))
    <3>1. \A k \in 1 .. Len(v) : v[k] = height[s] + 1
      BY <1>2
    <3> QED
      BY <1>5, <3>1 DEF Follows
  <2> QED
    BY <1>3, <2>1, <2>2, FollowsConcat
<1>7. \A b \in Low(s) : b \in Range(toSend'[s]) <=> b \in Range(toSend[s])
  BY <1>3, <1>5
<1> QED
  BY <1>2, <1>3, <1>4, <1>6, <1>7, OrderStays

LEMMA TickOrder ==
    ASSUME DownloadInv, Background, NEW s \in Server, Tick, Order(s)
    PROVE  Order(s)'
<1>1. Passes
  BY TickDoes
<1>2. /\ index' = index /\ mapOrphanBlocks' = mapOrphanBlocks /\ toServer' = toServer /\ toClient' = toClient
      /\ known' = known /\ toSend' = toSend /\ AskedFor(s)' = AskedFor(s)
  BY <1>1 DEF Passes, ChainKept, ServerKept, AskedFor
<1>3. AskedAtOnce(s)'
  <2>1. \A e \in Range(mapAskFor'[s]) : \E d \in Range(mapAskFor[s]) : d[2] = e[2] /\ (d[1] = 0 => e[1] = 0)
    BY <1>1 DEF Passes
  <2>2. Low(s)' = Low(s)
    BY DEF Low
  <2> QED
    BY <2>1, <2>2 DEF AskedAtOnce, Order
<1>4. \A b \in Low(s) : mapAlreadyAskedFor[b] = Never => mapAlreadyAskedFor'[b] = Never
  BY <1>1, LowFacts DEF Passes
<1>5. Follows(toSend'[s], Low(s), known[s] \cup {Fork})
  BY <1>2 DEF Order, InOrder
<1> QED
  BY <1>2, <1>3, <1>4, <1>5, OrderStays

\* The version messages are the first.
LEMMA VersionOrder ==
    ASSUME DownloadInv, Background, NEW s \in Server, Version(s), Fresh, Silent(s)
    PROVE  Order(s)'
<1> DEFINE L == Low(s)
<1>1. Greets(s)
  BY VersionDoes
<1>2. /\ index' = index /\ mapOrphanBlocks' = {} /\ mapAlreadyAskedFor' = mapAlreadyAskedFor
      /\ mapAskFor'[s] = <<>> /\ toClient'[s] = <<>> /\ known'[s] = {} /\ toSend'[s] = toSend[s]
      /\ \A b \in Range(toSend[s]) : b > Tip[s]
  BY <1>1 DEF Greets, ServerKept, Fresh, Silent
<1>3. \A m \in Range(toServer'[s]) : m.type = "getblocks"
  <2> DEFINE m == [type |-> "getblocks", locator |-> pindexBest, hashStop |-> 0]
  <2>1. Range(<<>> \o <<>>) = {} /\ Range(<<>>) = {}
    BY DEF Range
  <2>2. <<>> \o <<m>> = <<m>> /\ Range(<<m>>) = {m} /\ m.type = "getblocks"
    BY DEF Range
  <2> HIDE DEF m
  <2>3. toServer'[s] \in {<<>>, <<>> \o <<>>, <<>> \o <<m>>}
    BY <1>1 DEF Greets, Silent, m
  <2> QED
    BY <2>1, <2>2, <2>3
<1>4. Range(<<>>) = {} /\ Len(<<>>) = 0 /\ Blocks(<<>>) = <<>>
  <2>1. DOMAIN <<>> = {}
    OBVIOUS
  <2>2. [i \in {} |-> <<>>[i][2]] = <<>>
    OBVIOUS
  <2> QED
    BY <2>1, <2>2 DEF Range, Blocks
<1>5. /\ Sent(s)' = {} /\ Announced(s)' = {} /\ Requests(s)' = {} /\ AskedFor(s)' = <<>> /\ Low(s)' = L
      /\ Coming(s)' = {}
  <2>1. Carried(<<>>, "block") = {} /\ Carried(<<>>, "inv") = {}
    BY <1>4 DEF Carried
  <2>2. \A m \in Range(toServer'[s]) : Range(Of(m, "getdata")) = {}
    BY <1>3, <1>4 DEF Of
  <2>3. Carried(toServer'[s], "getdata") = {}
    BY <2>2 DEF Carried
  <2> QED
    BY <1>2, <1>4, <2>1, <2>3 DEF Sent, Announced, Requests, AskedFor, Low, Coming
<1>6. \A b \in L : b \notin index /\ mapAlreadyAskedFor[b] = Never /\ b \notin Range(toSend[s]) /\ b \in Nat /\ b > Fork
  <2>1. \A b \in L : b \in Nat /\ b \in Block /\ b > Fork /\ b < Tip[s] /\ Tip[s] \in Nat /\ Fork \in Nat
    BY LowFacts
  <2>2. index = 0..Fork \cup Side /\ \A b \in Side : b < 0
    BY BlockFacts DEF Fresh, Side
  <2>3. \A b \in L : b \notin index
    BY <2>1, <2>2
  <2>4. \A b \in L : b \notin Range(toSend[s])
    BY <1>2, <2>1
  <2> QED
    BY <2>1, <2>3, <2>4 DEF Fresh
<1> HIDE DEF L
<1>21. InOrder(s)'
  <2>1. Orderly(toClient'[s], "block", Low(s)', index')
    BY <1>2, <1>4 DEF Orderly
  <2>2. Orderly(toServer'[s], "getdata", Low(s)', index' \cup Sent(s)')
    <3>1. toServer'[s] \in Seq(Message)
      <4>1. DownloadInv'
        BY VersionKeeps
      <4> QED
        BY <4>1 DEF DownloadInv, TypeOK
    <3>2. \A i \in 1 .. Len(toServer'[s]) : toServer'[s][i] \in Range(toServer'[s])
      BY <3>1, SeqRange
    <3>3. \A i \in 1 .. Len(toServer'[s]) : Of(toServer'[s][i], "getdata") = <<>>
      BY <1>3, <3>2 DEF Of
    <3> QED
      BY <1>4, <3>3 DEF Orderly, Follows
  <2>3. Follows(AskedFor(s)', Low(s)', index' \cup Sent(s)' \cup Requests(s)')
    BY <1>4, <1>5 DEF Follows
  <2>4. Orderly(toClient'[s], "inv", Low(s)', index' \cup Coming(s)')
    BY <1>2, <1>4 DEF Orderly
  <2>5. Follows(toSend'[s], Low(s)', known'[s] \cup {Fork})
    <3>1. toSend[s] \in Seq(Has(s))
      BY QueueFacts DEF Queues
    <3>2. \A i \in 1 .. Len(toSend[s]) : toSend[s][i] \in Range(toSend[s])
      BY <3>1, SeqRange
    <3> QED
      BY <1>2, <1>5, <1>6, <3>2 DEF Follows
  <2> QED
    BY <2>1, <2>2, <2>3, <2>4, <2>5 DEF InOrder
<1>22. AskedAtOnce(s)'
  BY <1>2, <1>4 DEF AskedAtOnce
<1>23. LowIsTold(s)'
  <2>1. \A b \in L : b \notin Told(s)'
    BY <1>2, <1>6 DEF Told
  <2> QED
    BY <1>2, <1>5, <1>6, <2>1 DEF LowIsTold
<1>24. ToldOnce(s)'
  <2>1. Once(toClient'[s], "inv", Low(s)')
    BY <1>2, <1>4 DEF Once
  <2> QED
    BY <1>2, <1>5, <1>6, <2>1 DEF ToldOnce
<1> QED
  BY <1>21, <1>22, <1>23, <1>24 DEF Order

\* What happens while s is the only one, or so that it becomes the only one.
StepsAlone(s) ==
    \/ /\ Alone(s)
       /\ \/ UNCHANGED vars
          \/ Tick
          \/ \E t \in Server : t # s /\ NewBlock(t)
          \/ ClientReceive(s) \/ ClientSend(s) \/ ServerReceive(s) \/ ServerSend(s) \/ NewBlock(s)
    \/ Version(s) /\ Fresh /\ Silent(s)

LEMMA AloneSteps ==
    ASSUME DownloadInv, Background, NEW s \in Server, Alone(s)', [Next]_vars
    PROVE  StepsAlone(s)
<1>1. connected' = Server /\ greeted' = {s}
  BY DEF Alone
<1>2. CASE UNCHANGED vars
  BY <1>1, <1>2 DEF StepsAlone, Alone, vars, net
<1>3. CASE Tick
  <2>1. Passes
    BY <1>3, TickDoes
  <2> QED
    BY <1>1, <1>3, <2>1 DEF StepsAlone, Alone, Passes, NetKept
<1>4. ASSUME NEW t \in Server, Version(t) PROVE StepsAlone(s)
  <2>1. /\ t \in connected \ greeted /\ greeted' = greeted \cup {t} /\ connected' = connected
    BY <1>4 DEF Version
  <2>2. t = s /\ greeted = {} /\ connected = Server
    BY <1>1, <2>1
  <2>3. Fresh /\ Silent(s)
    BY <2>2 DEF Background, OwnIsThere, UngreetedAreSilent
  <2> QED
    BY <1>4, <2>2, <2>3 DEF StepsAlone
<1>5. ASSUME NEW t \in Server, ClientReceive(t) \/ ClientSend(t) \/ ServerReceive(t) \/ ServerSend(t)
      PROVE  StepsAlone(s)
  <2>1. t \in greeted /\ greeted' = greeted /\ connected' = connected
    BY <1>5 DEF ClientReceive, ClientSend, ServerReceive, ServerSend, net
  <2>2. t = s /\ Alone(s)
    BY <1>1, <2>1 DEF Alone
  <2> QED
    BY <1>5, <2>2 DEF StepsAlone
<1>6. ASSUME NEW t \in Server, NewBlock(t) PROVE StepsAlone(s)
  <2>1. greeted' = greeted /\ connected' = connected
    BY <1>6 DEF NewBlock, net
  <2>2. Alone(s)
    BY <1>1, <2>1 DEF Alone
  <2> QED
    BY <1>6, <2>2 DEF StepsAlone
<1>7. ASSUME NEW t \in Server, Disconnect(t) PROVE FALSE
  <2>1. connected' = connected \ {t}
    BY <1>7 DEF Disconnect
  <2> QED
    BY <1>1, <2>1
<1> QED
  BY <1>2, <1>3, <1>4, <1>5, <1>6, <1>7 DEF Next, Work

LEMMA OrderNext ==
    ASSUME DownloadInv, DownloadInv', Background, NothingForgotten, NEW s \in Server,
           StepsAlone(s), Alone(s) => Order(s)
    PROVE  Order(s)'
<1>1. CASE Version(s) /\ Fresh /\ Silent(s)
  BY <1>1, VersionOrder
<1>2. ASSUME Alone(s) PROVE Order(s)
  BY <1>2
<1>3. CASE Alone(s) /\ UNCHANGED vars
  <2>1. Order(s)
    BY <1>3
  <2> QED
    BY <1>3, <2>1, OrderOfOthers DEF vars, chain, asking, server
<1>4. CASE Alone(s) /\ Tick
  BY <1>4, TickOrder
<1>5. ASSUME Alone(s), NEW t \in Server, t # s, NewBlock(t) PROVE Order(s)'
  <2>1. Order(s)
    BY <1>5
  <2>2. PICK v \in Seq(Main) : Finds(t, v)
    BY <1>5, NewBlockDoes
  <2> QED
    BY <1>5, <2>1, <2>2, OrderOfOthers DEF Finds, OthersKept, ClientKept, ChainKept
<1>6. CASE Alone(s) /\ ClientReceive(s)
  <2>1. Order(s)
    BY <1>6
  <2> QED
    BY <1>6, <2>1, ReceiveInvOrder, ReceiveBlockOrder
<1>7. CASE Alone(s) /\ ClientSend(s)
  BY <1>7, ClientSendOrder
<1>8. CASE Alone(s) /\ ServerReceive(s)
  BY <1>8, ServerReceiveOrder
<1>9. CASE Alone(s) /\ ServerSend(s)
  BY <1>9, ServerSendOrder
<1>10. CASE Alone(s) /\ NewBlock(s)
  BY <1>10, NewBlockOrder
<1> QED
  BY <1>1, <1>3, <1>4, <1>5, <1>6, <1>7, <1>8, <1>9, <1>10 DEF StepsAlone

-----------------------------------------------------------------------------
(* Before the last block that was told of is reached, something is under way. *)

\* The last but a few of the blocks of a locator are as many back as the client's
\* branch is long, and less than a batch.
SomeLocatorHelps == \E d \in vHave : SideLength <= d /\ d < nLimit

LEMMA BeginFacts ==
    ASSUME NEW l \in Block
    PROVE  /\ Begin(l) \in Nat /\ Begin(l) <= IF l < 0 THEN Fork ELSE l
           /\ \A h \in 0 .. (IF l < 0 THEN Fork ELSE l) : nHeight(l) - h \in vHave => h <= Begin(l)
           /\ l \in Main => Begin(l) = l
<1> DEFINE top == IF l < 0 THEN Fork ELSE l
           common == {h \in 0..top : h = 0 \/ nHeight(l) - h \in vHave}
<1>1. l \in Int /\ Fork \in Nat /\ nHeight(l) \in Nat /\ (l \in Main => l >= 0 /\ nHeight(l) = l)
  BY BlockFacts
<1>2. top \in Nat
  BY <1>1
<1>3. common \subseteq 0..top /\ 0 \in common
  BY <1>2
<1>4. Begin(l) = CHOOSE h \in common : \A c \in common : c <= h
  BY DEF Begin
<1> HIDE DEF common, top
<1>5. \E x \in common : \A y \in common : y <= x
  BY <1>2, <1>3, GreatestNat
<1>6. Begin(l) \in common /\ \A c \in common : c <= Begin(l)
  BY <1>4, <1>5
<1>7. Begin(l) \in 0..top
  BY <1>3, <1>6
<1>8. ASSUME l \in Main PROVE Begin(l) = l
  <2>1. top = l /\ l - l = 0 /\ 0 \in vHave
    BY <1>1, <1>8, DownloadAssumption DEF top
  <2>2. l \in common
    BY <1>1, <1>2, <1>8, <2>1 DEF common
  <2>3. l <= Begin(l) /\ Begin(l) <= l
    BY <1>6, <1>7, <1>2, <2>1, <2>2
  <2> QED
    BY <1>1, <1>2, <1>7, <2>3
<1> QED
  BY <1>2, <1>6, <1>7, <1>8 DEF common, top

LEMMA OwnReaches ==
    ASSUME SomeLocatorHelps
    PROVE  /\ Own \in Block /\ nHeight(Own) = Fork + SideLength /\ Begin(Own) \in Nat /\ Begin(Own) <= Fork
           /\ Reach(Own) > Fork + SideLength /\ Reach(Own) <= Fork + nLimit
           /\ Own \in Main => SideLength = 0
<1>1. /\ Fork \in Nat /\ SideLength \in Nat /\ nLimit \in Nat \ {0} /\ vHave \subseteq Nat /\ Fork \in Main
  BY DownloadAssumption, BlockFacts
<1>2. Own \in Block /\ (SideLength # 0 => Own < 0 /\ nHeight(Own) = Fork + SideLength)
      /\ (SideLength = 0 => Own = Fork /\ nHeight(Own) = Fork)
  <2>1. CASE SideLength = 0
    <3>1. Own = Fork /\ nHeight(Fork) = Fork /\ Fork \in Block
      BY <1>1, <2>1, BlockFacts DEF Own
    <3> QED
      BY <2>1, <3>1
  <2>2. CASE SideLength # 0
    <3>1. Own = -SideLength /\ SideLength \in 1 .. SideLength
      BY <1>1, <2>2 DEF Own
    <3>2. Own \in Block
      BY <3>1 DEF Block, Side
    <3>3. Own < 0 /\ ~(Own >= 0) /\ Fork - Own = Fork + SideLength
      BY <1>1, <2>2, <3>1
    <3>4. nHeight(Own) = Fork + SideLength
      BY <3>3 DEF nHeight
    <3> QED
      BY <1>1, <2>2, <3>2, <3>3, <3>4
  <2> QED
    BY <2>1, <2>2
<1>3. /\ Begin(Own) \in Nat /\ Begin(Own) <= IF Own < 0 THEN Fork ELSE Own
      /\ \A h \in 0 .. (IF Own < 0 THEN Fork ELSE Own) : nHeight(Own) - h \in vHave => h <= Begin(Own)
      /\ Own \in Main => Begin(Own) = Own
  BY <1>2, BeginFacts
<1> HIDE DEF Own
<1>4. Begin(Own) <= Fork /\ nHeight(Own) = Fork + SideLength
  BY <1>1, <1>2, <1>3
<1>5. Begin(Own) + nLimit > Fork + SideLength
  <2>1. CASE SideLength = 0
    <3>1. Begin(Own) = Fork
      BY <1>1, <1>2, <1>3, <2>1
    <3> QED
      BY <1>1, <2>1, <3>1
  <2>2. CASE SideLength # 0
    <3>1. PICK d \in vHave : SideLength <= d /\ d < nLimit
      BY DEF SomeLocatorHelps
    <3>2. d \in Nat /\ Own < 0
      BY <1>1, <1>2, <2>2
    <3>3. CASE d <= Fork + SideLength
      <4> DEFINE h == Fork + SideLength - d
      <4>1. h \in 0..Fork /\ (Fork + SideLength) - h = d
        BY <1>1, <3>1, <3>2, <3>3
      <4>2. h <= Begin(Own)
        BY <1>3, <1>4, <3>1, <3>2, <4>1
      <4> QED
        BY <1>1, <1>3, <3>1, <3>2, <4>1, <4>2
    <3>4. CASE ~(d <= Fork + SideLength)
      BY <1>1, <1>3, <3>1, <3>2, <3>4
    <3> QED
      BY <3>3, <3>4
  <2> QED
    BY <2>1, <2>2
<1>6. Own \in Main => SideLength = 0
  BY <1>1, <1>2, BlockFacts
<1> QED
  BY <1>1, <1>2, <1>3, <1>4, <1>5, <1>6 DEF Reach

\* A locator of the client's reaches no further than that of its best block, which
\* reaches beyond every block that the client has.
LEMMA HighestReaches ==
    ASSUME SomeLocatorHelps, NEW I \in SUBSET Block, NEW p \in I, \A b \in I : nHeight(b) <= nHeight(p),
           p = Own \/ p > Fork + SideLength
    PROVE  /\ Reach(p) \in Nat
           /\ \A l \in I : l = Own \/ l > Fork + SideLength => Reach(l) \in Nat /\ Reach(l) <= Reach(p)
           /\ \A b \in I : b \in Main => b < Reach(p)
<1> DEFINE IsLoc(l) == l \in I /\ (l = Own \/ l > Fork + SideLength)
<1>1. /\ Fork \in Nat /\ SideLength \in Nat /\ nLimit \in Nat \ {0}
  BY DownloadAssumption
<1>2. /\ p \in I /\ I \subseteq Block /\ \A b \in I : nHeight(b) <= nHeight(p)
  OBVIOUS
<1>3. IsLoc(p)
  OBVIOUS
<1>4. \A l : IsLoc(l) => l \in I /\ l \in Block /\ (l = Own \/ (l > Fork + SideLength /\ l \in Main /\ nHeight(l) = l /\ Begin(l) = l /\ l \in Nat))
  <2>1. SUFFICES ASSUME NEW l, IsLoc(l), l # Own
                 PROVE  l \in I /\ l \in Block /\ l > Fork + SideLength /\ l \in Main /\ nHeight(l) = l /\ Begin(l) = l /\ l \in Nat
    BY <1>2
  <2>2. l \in I /\ l \in Block /\ l > Fork + SideLength
    BY <1>2, <2>1
  <2>3. l \in Main /\ nHeight(l) = l /\ l \in Nat
    BY <1>1, <2>2, BlockFacts
  <2> QED
    BY <2>2, <2>3, BeginFacts
<1>5. ASSUME NEW l, IsLoc(l) PROVE Reach(l) \in Nat /\ Reach(l) <= Reach(p)
  <2>1. Begin(l) \in Nat /\ Begin(p) \in Nat
    BY <1>3, <1>4, <1>5, BeginFacts
  <2>2. CASE p = Own
    <3>1. l = Own
      <4>1. SUFFICES ASSUME l # Own PROVE FALSE
        OBVIOUS
      <4>2. l > Fork + SideLength /\ nHeight(l) = l /\ l \in Nat /\ nHeight(l) <= nHeight(Own)
        BY <1>2, <1>4, <1>5, <2>2, <4>1
      <4> QED
        BY <1>1, <4>2, OwnReaches
    <3> QED
      BY <1>1, <2>1, <2>2, <3>1 DEF Reach
  <2>3. CASE p # Own
    <3>1. p > Fork + SideLength /\ nHeight(p) = p /\ Begin(p) = p
          /\ p \in Nat
      BY <1>3, <1>4, <2>3
    <3>2. CASE l = Own
      <4>1. Reach(l) <= Fork + nLimit
        BY <3>2, OwnReaches
      <4> QED
        BY <1>1, <2>1, <3>1, <4>1 DEF Reach
    <3>3. CASE l # Own
      <4>1. Begin(l) = l /\ nHeight(l) = l /\ l \in Nat /\ l \in I
        BY <1>4, <1>5, <3>3
      <4>2. l <= p
        BY <1>2, <3>1, <4>1
      <4> QED
        BY <1>1, <3>1, <4>1, <4>2 DEF Reach
    <3> QED
      BY <3>2, <3>3
  <2> QED
    BY <2>2, <2>3
<1>6. ASSUME NEW b \in I, b \in Main PROVE b < Reach(p)
  <2>1. nHeight(b) = b /\ b \in Nat /\ b <= nHeight(p)
    BY <1>2, <1>6, BlockFacts
  <2>2. CASE p = Own
    <3>1. nHeight(Own) = Fork + SideLength /\ Reach(Own) > Fork + SideLength /\ Begin(Own) \in Nat
      BY OwnReaches
    <3> QED
      BY <1>1, <2>1, <2>2, <3>1 DEF Reach
  <2>3. CASE p # Own
    <3>1. nHeight(p) = p /\ Begin(p) = p /\ p \in Nat
      BY <1>3, <1>4, <2>3
    <3> QED
      BY <1>1, <2>1, <3>1 DEF Reach
  <2> QED
    BY <2>2, <2>3
<1> QED
  BY <1>3, <1>5, <1>6

LEMMA BestReaches ==
    ASSUME SomeLocatorHelps, DownloadInv, OwnIsThere
    PROVE  /\ Loc(pindexBest) /\ Reach(pindexBest) \in Nat
           /\ \A l : Loc(l) => Reach(l) \in Nat /\ Reach(l) <= Reach(pindexBest)
           /\ \A b \in index : b \in Main => b < Reach(pindexBest)
<1>1. /\ pindexBest \in index /\ index \in SUBSET Block /\ \A b \in index : nHeight(b) <= nHeight(pindexBest)
      /\ pindexBest = Own \/ pindexBest > Fork + SideLength
  BY DEF DownloadInv, TypeOK, ChainIsLinked, OwnIsThere
<1> QED
  BY <1>1, HighestReaches DEF Loc

LEMMA BestReachesNext ==
    ASSUME SomeLocatorHelps, DownloadInv', OwnIsThere'
    PROVE  /\ Loc(pindexBest)' /\ Reach(pindexBest') \in Nat
           /\ \A l : Loc(l)' => Reach(l) \in Nat /\ Reach(l) <= Reach(pindexBest')
           /\ \A b \in index' : b \in Main => b < Reach(pindexBest')
<1>1. /\ pindexBest' \in index' /\ index' \in SUBSET Block /\ \A b \in index' : nHeight(b) <= nHeight(pindexBest')
      /\ pindexBest' = Own \/ pindexBest' > Fork + SideLength
  BY DEF DownloadInv, TypeOK, ChainIsLinked, OwnIsThere
<1> QED
  BY <1>1, HighestReaches DEF Loc

\* Up to the gap all was told of, and the client has no more of the main chain.
LEMMA GapFacts ==
    ASSUME DownloadInv, Background, NEW s \in Server, LowIsTold(s), NEW e, Gap(s, e)
    PROVE  /\ e \in Nat /\ Fork \in Nat /\ Fork <= e /\ Tip[s] \in Nat /\ e + 1 <= Tip[s]
           /\ Tip[s] <= height[s] /\ height[s] \in Nat
           /\ \A b \in Fork + 1 .. e : b \in Told(s)
           /\ \A b \in index : b \in Main => b <= e /\ b \in Nat
           /\ \A l \in index : /\ Begin(l) = GetBlockIndex(s, l) /\ Begin(l) \in Nat /\ Begin(l) <= e
           /\ e = Fork \/ e \in Low(s)
<1>1. Fork \in Nat /\ Tip[s] \in Nat /\ Tip[s] <= height[s] /\ height[s] \in Nat
  BY LowFacts
<1>2. e \in Fork .. Tip[s] - 1 /\ (e = Fork \/ e \in Told(s)) /\ e + 1 \notin Told(s) /\ e + 1 \notin Had
  BY DEF Gap
<1>3. e \in Nat /\ Fork <= e /\ e + 1 <= Tip[s]
  BY <1>1, <1>2
<1>4. ASSUME NEW b \in index, b \in Main PROVE b <= e /\ b \in Nat
  <2>1. b \in Nat
    BY <1>4, BlockFacts
  <2>2. ~(b <= e) => e + 1 \in 0..b
    BY <1>3, <2>1
  <2>3. 0..b \subseteq index
    BY <1>4, IndexIsClosed
  <2> QED
    BY <1>2, <2>1, <2>2, <2>3 DEF Had
<1>5. ASSUME NEW l \in index
      PROVE  Begin(l) = GetBlockIndex(s, l) /\ Begin(l) \in Nat /\ Begin(l) <= e
  <2>1. l \in Block /\ l \in Int
    BY <1>5, BlockFacts DEF DownloadInv, TypeOK
  <2>2. Earlier(height[s], IF l < 0 THEN Fork ELSE l) = IF l < 0 THEN Fork ELSE l
    <3>1. CASE l < 0
      BY <1>1, <1>3, <3>1 DEF Earlier
    <3>2. CASE ~(l < 0)
      <4>1. l \in Main
        BY <2>1, <3>2, BlockFacts
      <4>2. l <= e
        BY <1>4, <4>1
      <4> QED
        BY <1>1, <1>3, <2>1, <3>2, <4>2 DEF Earlier
    <3> QED
      BY <3>1, <3>2
  <2>3. Begin(l) = GetBlockIndex(s, l)
    BY <2>2 DEF Begin, GetBlockIndex
  <2>4. Begin(l) \in Nat /\ Begin(l) <= IF l < 0 THEN Fork ELSE l
    BY <2>1, BeginFacts
  <2>5. CASE l < 0
    BY <1>1, <1>3, <2>3, <2>4, <2>5
  <2>6. CASE ~(l < 0)
    <3>1. l <= e
      BY <1>4, <2>1, <2>6, BlockFacts
    <3> QED
      BY <1>3, <2>1, <2>3, <2>4, <2>6, <3>1
  <2> QED
    BY <2>5, <2>6
<1>6. \A b \in Fork + 1 .. e : b \in Told(s)
  <2> DEFINE G == {n \in 0 .. e - Fork : e - n = Fork \/ e - n \in Told(s)}
  <2>1. e - Fork \in Nat /\ 0 \in G
    BY <1>1, <1>2, <1>3
  <2>2. ASSUME NEW n \in 1 .. e - Fork, n - 1 \in G PROVE n \in G
    <3>1. e - (n - 1) \in Low(s) /\ e - (n - 1) # Fork /\ (e - (n - 1)) - 1 = e - n
      BY <1>1, <1>3, <2>2 DEF Low
    <3>2. e - (n - 1) \in Told(s)
      BY <2>2, <3>1
    <3>3. e - n \in {Fork} \cup Told(s)
      BY <3>1, <3>2 DEF LowIsTold
    <3> QED
      BY <2>1, <2>2, <3>3
  <2> HIDE DEF G
  <2>3. 0 .. e - Fork \subseteq G
    BY <2>1, <2>2, UpTo
  <2>4. ASSUME NEW b \in Fork + 1 .. e PROVE b \in Told(s)
    <3>1. e - b \in 0 .. e - Fork /\ e - (e - b) = b /\ b # Fork
      BY <1>1, <1>3
    <3>2. e - b \in G
      BY <2>3, <3>1
    <3> QED
      BY <3>1, <3>2 DEF G
  <2> QED
    BY <2>4
<1>7. e = Fork \/ e \in Low(s)
  BY <1>1, <1>3 DEF Low
<1> QED
  BY <1>1, <1>3, <1>4, <1>5, <1>6, <1>7

\* There is one gap, and only an answer to getblocks moves it.
LEMMA GapIsOne ==
    ASSUME DownloadInv, Background, NEW s \in Server, LowIsTold(s), NEW d, NEW e, Gap(s, d), Gap(s, e)
    PROVE  d = e
<1>1. ASSUME NEW f, NEW g, Gap(s, f), Gap(s, g) PROVE ~(f < g)
  <2>1. /\ f \in Nat /\ g \in Nat /\ Fork \in Nat /\ Fork <= f /\ \A b \in Fork + 1 .. g : b \in Told(s)
    BY <1>1, GapFacts
  <2>2. f + 1 \notin Told(s)
    BY <1>1 DEF Gap
  <2> QED
    BY <2>1, <2>2
<1>2. d \in Nat /\ e \in Nat
  BY GapFacts
<1> QED
  BY <1>1, <1>2

LEMMA GapStays ==
    ASSUME DownloadInv, Background, NEW s \in Server, NEW e, Gap(s, e)', Told(s) \subseteq Told(s)', Had \subseteq Had',
           \A b \in Low(s) : b \in Told(s)' => b \in Told(s)
    PROVE  Gap(s, e)
<1>1. /\ e \in Fork .. Tip[s] - 1 /\ (e = Fork \/ e \in Told(s)') /\ e + 1 \notin Told(s)' /\ e + 1 \notin Had'
  BY DEF Gap
<1>2. Fork \in Nat /\ Tip[s] \in Nat
  BY LowFacts
<1>3. e = Fork \/ e \in Low(s)
  BY <1>1, <1>2 DEF Low
<1> QED
  BY <1>1, <1>3 DEF Gap

-----------------------------------------------------------------------------
\* What was asked for goes on.
LEMMA LastIsDoneStays ==
    ASSUME NEW s, LastIsDone(s), Told(s) \subseteq Told(s)', Had \subseteq Had',
           \A m \in Range(toServer[s]) : m.type = "getblocks" => m \in Range(toServer'[s]),
           \/ lastGetBlocks'[s] = lastGetBlocks[s]
           \/ \E m \in Range(toServer'[s]) : m.type = "getblocks" /\ lastGetBlocks'[s] = <<m.locator, m.hashStop>>
    PROVE  LastIsDone(s)'
<1>1. CASE lastGetBlocks'[s] = lastGetBlocks[s]
  <2>1. SUFFICES ASSUME lastGetBlocks[s] # <<>>
                 PROVE  \/ Done(s, lastGetBlocks[s][1], lastGetBlocks[s][2])'
                        \/ \E m \in Range(toServer'[s]) : m.type = "getblocks" /\ m.locator = lastGetBlocks[s][1]
                                                          /\ m.hashStop = lastGetBlocks[s][2]
    BY <1>1 DEF LastIsDone, Done
  <2>2. CASE Done(s, lastGetBlocks[s][1], lastGetBlocks[s][2])
    BY <1>1, <2>2 DEF Done
  <2>3. ASSUME NEW m \in Range(toServer[s]), m.type = "getblocks", m.locator = lastGetBlocks[s][1],
               m.hashStop = lastGetBlocks[s][2]
        PROVE  m \in Range(toServer'[s])
    BY <2>3
  <2> QED
    BY <2>1, <2>2, <2>3 DEF LastIsDone
<1>2. ASSUME NEW m \in Range(toServer'[s]), m.type = "getblocks", lastGetBlocks'[s] = <<m.locator, m.hashStop>>
      PROVE  LastIsDone(s)'
  BY <1>2 DEF LastIsDone
<1> QED
  BY <1>1, <1>2

\* New requests have the best block as their locator.
LEMMA AnsweringMore ==
    ASSUME SomeLocatorHelps, DownloadInv, DownloadInv', Background, Background', NEW s \in Server,
           NEW e \in Nat, Answering(s, e),
           NEW r \in Seq(ToServer(s)), toServer'[s] = toServer[s] \o r, index \subseteq index',
           \A m \in Range(r) : m.type = "getblocks" => m.locator = pindexBest
    PROVE  Answering(s, e)'
<1> DEFINE q == toServer[s]
           X == ToServer(s)
           p == q \o r
           LocNext(l) == l \in index' /\ (l = Own \/ l > Fork + SideLength)
<1>1. q \in Seq(X) /\ r \in Seq(X)
  BY QueueFacts DEF Queues
<1> HIDE DEF q, X
<1>2. /\ p \in Seq(X) /\ Len(q) \in Nat /\ Len(r) \in Nat /\ Len(p) = Len(q) + Len(r)
      /\ \A i \in 1 .. Len(q) + Len(r) : p[i] = IF i <= Len(q) THEN q[i] ELSE r[i - Len(q)]
  BY <1>1, ConcatAt
<1>3. \A i \in 1 .. Len(r) : r[i].type = "getblocks" => r[i].locator = pindexBest
  BY <1>1, SeqRange
<1>4. /\ e <= Reach(pindexBest)
      /\ \A i \in 1 .. Len(q) : q[i].type = "getblocks" =>
           /\ Loc(q[i].locator) /\ e <= Reach(q[i].locator)
           /\ \A h \in 1 .. i - 1 : q[h].type = "getblocks" => Reach(q[h].locator) <= Reach(q[i].locator)
  BY DEF Answering, q
<1>5. OwnIsThere /\ OwnIsThere'
  BY DEF Background
<1>6. /\ Loc(pindexBest) /\ Reach(pindexBest) \in Nat /\ LocNext(pindexBest) /\ Reach(pindexBest') \in Nat
      /\ \A l : Loc(l) => LocNext(l) /\ Reach(l) \in Nat /\ Reach(l) <= Reach(pindexBest)
      /\ \A l : LocNext(l) => Reach(l) \in Nat /\ Reach(l) <= Reach(pindexBest')
  <2>1. \A l : Loc(l) => LocNext(l)
    BY DEF Loc
  <2>2. \A l : LocNext(l) => Loc(l)'
    BY DEF Loc
  <2> HIDE DEF LocNext
  <2> QED
    BY <1>5, <2>1, <2>2, BestReaches, BestReachesNext
<1> HIDE DEF p, LocNext
<1>7. e <= Reach(pindexBest')
  <2>1. Reach(pindexBest) <= Reach(pindexBest') /\ Reach(pindexBest') \in Nat
    BY <1>6
  <2> QED
    BY <1>4, <1>6, <2>1
<1>8. \A i \in 1 .. Len(p) : i \in 1 .. Len(q) \/ (i - Len(q) \in 1 .. Len(r) /\ p[i] = r[i - Len(q)])
  BY <1>2
<1>9. ASSUME NEW i \in 1 .. Len(p), p[i].type = "getblocks"
      PROVE  LocNext(p[i].locator) /\ e <= Reach(p[i].locator)
             /\ \A h \in 1 .. i - 1 : p[h].type = "getblocks" => Reach(p[h].locator) <= Reach(p[i].locator)
  <2>1. ASSUME NEW h \in 1 .. Len(p), p[h].type = "getblocks"
        PROVE  Reach(p[h].locator) <= Reach(pindexBest)
    <3>1. CASE h \in 1 .. Len(q)
      <4>1. p[h] = q[h]
        BY <1>2, <3>1
      <4> QED
        BY <1>4, <1>6, <2>1, <3>1, <4>1
    <3>2. CASE h - Len(q) \in 1 .. Len(r) /\ p[h] = r[h - Len(q)]
      <4>1. p[h].locator = pindexBest
        BY <1>3, <2>1, <3>2
      <4> QED
        BY <1>6, <4>1
    <3> QED
      BY <1>8, <3>1, <3>2
  <2>2. CASE i \in 1 .. Len(q)
    <3>1. \A h \in 1 .. i : h \in 1 .. Len(q) + Len(r) /\ h <= Len(q)
      BY <1>2, <2>2
    <3>2. \A h \in 1 .. i : p[h] = q[h]
      BY <1>2, <3>1
    <3>3. i \in 1 .. i /\ \A h \in 1 .. i - 1 : h \in 1 .. i
      BY <1>2, <2>2
    <3>4. q[i].type = "getblocks" /\ p[i] = q[i]
      BY <1>9, <3>2, <3>3
    <3> QED
      BY <1>4, <1>6, <2>2, <3>2, <3>3, <3>4
  <2>3. CASE i - Len(q) \in 1 .. Len(r) /\ p[i] = r[i - Len(q)]
    <3>1. p[i].locator = pindexBest
      BY <1>3, <1>9, <2>3
    <3>2. \A h \in 1 .. i - 1 : h \in 1 .. Len(p)
      <4>1. i \in Nat /\ i <= Len(p) /\ Len(p) \in Nat
        BY <1>2
      <4> QED
        BY <4>1
    <3>3. LocNext(pindexBest) /\ e <= Reach(pindexBest)
      BY <1>4, <1>6
    <3> QED
      BY <2>1, <3>1, <3>2, <3>3
  <2> QED
    BY <1>8, <2>2, <2>3
<1> QED
  BY <1>7, <1>9 DEF Answering, Loc, LocNext, p, q

LEMMA AnsweringStays ==
    ASSUME NEW s, NEW e, Answering(s, e), toServer'[s] = toServer[s], index' = index, pindexBest' = pindexBest
    PROVE  Answering(s, e)'
BY DEF Answering, Loc

LEMMA AnsweringTail ==
    ASSUME DownloadInv, NEW s \in Server, NEW e, Answering(s, e), toServer[s] # <<>>, toServer'[s] = Tail(toServer[s]),
           index' = index, pindexBest' = pindexBest
    PROVE  Answering(s, e)'
<1> DEFINE q == toServer[s]
           X == ToServer(s)
<1>1. q \in Seq(X)
  BY QueueFacts DEF Queues
<1>2. /\ e <= Reach(pindexBest)
      /\ \A i \in 1 .. Len(q) : q[i].type = "getblocks" =>
           /\ Loc(q[i].locator) /\ e <= Reach(q[i].locator)
           /\ \A h \in 1 .. i - 1 : q[h].type = "getblocks" => Reach(q[h].locator) <= Reach(q[i].locator)
  BY DEF Answering
<1>3. \A i \in 1 .. Len(Tail(q)) : i + 1 \in 1 .. Len(q) /\ Tail(q)[i] = q[i + 1]
  <2> HIDE DEF q, X
  <2>1. q # <<>>
    BY DEF q
  <2> QED
    BY <1>1, <2>1
<1>4. Len(Tail(q)) \in Nat
  <2> HIDE DEF q, X
  <2>1. q # <<>>
    BY DEF q
  <2> QED
    BY <1>1, <2>1
<1>5. ASSUME NEW i \in 1 .. Len(Tail(q)), Tail(q)[i].type = "getblocks"
      PROVE  Loc(Tail(q)[i].locator) /\ e <= Reach(Tail(q)[i].locator)
             /\ \A h \in 1 .. i - 1 : Tail(q)[h].type = "getblocks" => Reach(Tail(q)[h].locator) <= Reach(Tail(q)[i].locator)
  <2> HIDE DEF q, X
  <2>1. i + 1 \in 1 .. Len(q) /\ Tail(q)[i] = q[i + 1]
    BY <1>3
  <2>2. \A h \in 1 .. i - 1 : h + 1 \in 1 .. (i + 1) - 1 /\ Tail(q)[h] = q[h + 1]
    BY <1>3, <1>4
  <2> QED
    BY <1>2, <1>5, <2>1, <2>2
<1> HIDE DEF q
<1>6. toServer'[s] = Tail(q)
  BY DEF q
<1> QED
  BY <1>2, <1>5, <1>6 DEF Answering, Loc

LEMMA CommonFirstStays ==
    ASSUME NEW s, CommonFirst(s), known'[s] = known[s], toSend'[s] = toSend[s],
           \A m \in Range(toClient'[s]) : m.type = "inv" =>
               m \in Range(toClient[s]) \/ (m.vInv # <<>> /\ m.vInv[Len(m.vInv)] > Fork)
    PROVE  CommonFirst(s)'
<1>1. \A m \in Range(toClient'[s]) : m.type = "inv" => m.vInv # <<>> /\ m.vInv[Len(m.vInv)] > Fork
  BY DEF CommonFirst
<1>2. Told(s)' = Told(s)
  BY DEF Told
<1> QED
  BY <1>1, <1>2 DEF CommonFirst

\* Nothing happens that concerns the download.
LEMMA GoesStays ==
    ASSUME NEW s, NEW e, Goes(s, e), UNCHANGED <<index, pindexBest, mapOrphanBlocks>>,
           toServer'[s] = toServer[s], toClient'[s] = toClient[s], hashContinue'[s] = hashContinue[s],
           AskedFor(s)' = AskedFor(s), lastGetBlocks'[s] = lastGetBlocks[s], Told(s) \subseteq Told(s)',
           Tip[s] .. height[s] \subseteq Tip[s] .. height'[s], CommonFirst(s)'
    PROVE  Goes(s, e)'
<1>1. Had' = Had /\ Sent(s)' = Sent(s) /\ Coming(s)' = Coming(s)
  BY DEF Had, Sent, Coming, Requests
<1>2. Answering(s, e)'
  BY AnsweringStays DEF Goes
<1>3. LastIsDone(s)'
  BY <1>1, LastIsDoneStays DEF Goes
<1>4. Live(s, e)'
  <2>1. CASE LiveRequest(s, e)
    BY <2>1 DEF Live, LiveRequest
  <2>2. CASE LiveBatch(s, e)
    BY <1>1, <2>2 DEF Live, LiveBatch
  <2>3. CASE LiveAnnounced(s, e)
    <3>1. LiveAnnounced(s, e)'
      BY <2>3 DEF LiveAnnounced
    <3> QED
      BY <3>1 DEF Live
  <2>4. CASE LiveComing(s, e)
    <3>1. LiveComing(s, e)'
      BY <1>1, <2>4 DEF LiveComing
    <3> QED
      BY <3>1 DEF Live
  <2> QED
    BY <2>1, <2>2, <2>3, <2>4 DEF Goes, Live
<1> QED
  BY <1>2, <1>3, <1>4 DEF Goes

LEMMA NewBlockGoes ==
    ASSUME DownloadInv, Background, NEW s \in Server, NewBlock(s), Order(s),
           NEW e, Gap(s, e)', Gap(s, e) => Goes(s, e)
    PROVE  Goes(s, e)'
<1>1. PICK v \in Seq(Main) : Finds(s, v)
  BY NewBlockDoes
<1>2. /\ UNCHANGED <<index, pindexBest, mapOrphanBlocks>> /\ lastGetBlocks' = lastGetBlocks
      /\ mapAskFor' = mapAskFor /\ toServer'[s] = toServer[s] /\ toClient'[s] = toClient[s]
      /\ known'[s] = known[s] /\ hashContinue'[s] = hashContinue[s] /\ v \in {<<>>, <<height[s] + 1>>}
      /\ height'[s] = height[s] + 1
  BY <1>1 DEF Finds, ClientKept, ChainKept
<1>3. /\ toSend'[s] = toSend[s] \o v /\ toSend[s] \in Seq(Main)
      /\ Range(toSend'[s]) = Range(toSend[s]) \cup Range(v) /\ Range(v) \subseteq {height[s] + 1}
      /\ Told(s)' = Told(s) \cup {height[s] + 1} /\ height[s] \in Nat
  BY <1>1, FindsTold
<1>4. AskedFor(s)' = AskedFor(s) /\ Had' = Had
  BY <1>2 DEF AskedFor, Had
<1>5. height[s] + 1 \notin Low(s) /\ Tip[s] \in Nat /\ Tip[s] <= height[s] /\ Fork \in Nat
  <2>1. \A b \in Low(s) : b < height[s]
    BY LowFacts
  <2>2. Tip[s] \in Nat /\ Tip[s] <= height[s] /\ Fork \in Nat
    BY LowFacts
  <2> QED
    BY <1>3, <2>1, <2>2
<1>6. Gap(s, e)
  <2>1. LowIsTold(s)
    BY DEF Order
  <2> QED
    BY <1>3, <1>4, <1>5, <2>1, GapStays
<1>7. Goes(s, e) /\ height[s] + 1 > Fork + 1
  <2>1. e \in Fork .. Tip[s] - 1
    BY <1>6 DEF Gap
  <2> QED
    BY <1>3, <1>5, <1>6, <2>1
<1>8. CommonFirst(s)'
  <2> DEFINE q == toSend[s]
             common == Begin(Own) + 1 .. Fork
  <2>1. /\ Fork + 1 \in known[s] => common \subseteq known[s]
        /\ \A b \in Range(q) : b <= Fork => b > Begin(Own) /\ Fork + 1 \in Told(s)
        /\ \A i \in 1 .. Len(q) : q[i] = Fork + 1 =>
             \A b \in common : b \in known[s] \/ \E h \in 1 .. i - 1 : q[h] = b
        /\ \A m \in Range(toClient[s]) : m.type = "inv" => m.vInv # <<>> /\ m.vInv[Len(m.vInv)] > Fork
    BY <1>7 DEF Goes, CommonFirst
  <2>2. \A b \in Range(toSend'[s]) : b <= Fork => b > Begin(Own) /\ Fork + 1 \in Told(s)'
    <3>1. \A b \in Range(v) : ~(b <= Fork)
      BY <1>3, <1>5, <1>7
    <3>2. Fork + 1 \in Told(s) => Fork + 1 \in Told(s)'
      BY <1>3
    <3> HIDE DEF q, common
    <3>3. Range(toSend'[s]) = Range(q) \cup Range(v)
      BY <1>3 DEF q
    <3> QED
      BY <2>1, <3>1, <3>2, <3>3
  <2>3. ASSUME NEW i \in 1 .. Len(toSend'[s]), toSend'[s][i] = Fork + 1
        PROVE  \A b \in common : b \in known[s] \/ \E h \in 1 .. i - 1 : toSend'[s][h] = b
    <3>1. q \in Seq(Main) /\ toSend'[s] = q \o v
      BY <1>3
    <3> HIDE DEF q, common
    <3>2. /\ Len(q \o v) = Len(q) + Len(v) /\ Len(q) \in Nat /\ Len(v) \in Nat
          /\ \A n \in 1 .. Len(q) + Len(v) : (q \o v)[n] = IF n <= Len(q) THEN q[n] ELSE v[n - Len(q)]
      BY <3>1, ConcatAt
    <3>3. \A k \in 1 .. Len(v) : v[k] = height[s] + 1
      BY <1>2
    <3>4. i <= Len(q) /\ i \in 1 .. Len(q) /\ q[i] = Fork + 1
      <4>1. i \in 1 .. Len(q) + Len(v) /\ (q \o v)[i] = Fork + 1
        BY <2>3, <3>1, <3>2
      <4>2. ~(i <= Len(q)) => i - Len(q) \in 1 .. Len(v) /\ v[i - Len(q)] = Fork + 1
        BY <3>2, <4>1
      <4>3. i <= Len(q)
        <5>1. height[s] + 1 # Fork + 1
          BY <1>3, <1>5, <1>7
        <5> QED
          BY <3>3, <4>2, <5>1
      <4> QED
        BY <3>2, <4>1, <4>3
    <3>5. \A h \in 1 .. i - 1 : toSend'[s][h] = q[h]
      BY <3>1, <3>2, <3>4
    <3> QED
      BY <2>1, <3>4, <3>5
  <2> QED
    BY <1>2, <2>1, <2>2, <2>3 DEF CommonFirst
<1>9. Tip[s] .. height[s] \subseteq Tip[s] .. height'[s]
  BY <1>2, <1>3, <1>5
<1> QED
  BY <1>2, <1>3, <1>4, <1>7, <1>8, <1>9, GoesStays

LEMMA TickGoes ==
    ASSUME DownloadInv, Background, NEW s \in Server, Tick, Order(s),
           NEW e, Gap(s, e)', Gap(s, e) => Goes(s, e)
    PROVE  Goes(s, e)'
<1>1. Passes
  BY TickDoes
<1>2. /\ UNCHANGED <<index, pindexBest, mapOrphanBlocks>> /\ toServer' = toServer /\ toClient' = toClient
      /\ known' = known /\ toSend' = toSend /\ AskedFor(s)' = AskedFor(s) /\ lastGetBlocks' = lastGetBlocks
      /\ hashContinue' = hashContinue /\ height' = height
  BY <1>1 DEF Passes, ChainKept, ServerKept, AskedFor
<1>3. Gap(s, e)
  BY <1>2 DEF Gap, Told, Had
<1>4. Goes(s, e) /\ CommonFirst(s)' /\ Told(s)' = Told(s)
  BY <1>2, <1>3, CommonFirstStays DEF Goes, Told
<1> QED
  BY <1>2, <1>4, GoesStays

LEMMA GoesOfOthers ==
    ASSUME NEW s, NEW e, Gap(s, e)', Gap(s, e) => Goes(s, e),
           UNCHANGED <<index, pindexBest, mapOrphanBlocks>>, mapAskFor'[s] = mapAskFor[s],
           toServer'[s] = toServer[s], toClient'[s] = toClient[s], hashContinue'[s] = hashContinue[s],
           lastGetBlocks'[s] = lastGetBlocks[s], height'[s] = height[s],
           known'[s] = known[s], toSend'[s] = toSend[s]
    PROVE  Goes(s, e)'
<1>1. Told(s)' = Told(s) /\ Had' = Had /\ AskedFor(s)' = AskedFor(s)
  BY DEF Told, Had, AskedFor
<1>2. Gap(s, e)
  BY <1>1 DEF Gap
<1>3. Goes(s, e) /\ CommonFirst(s)'
  BY <1>2, CommonFirstStays DEF Goes
<1> QED
  BY <1>1, <1>3, GoesStays

-----------------------------------------------------------------------------
\* The client receives something: what it asks for then.
AsksOn(s, out) ==
    /\ toServer'[s] = toServer[s] \o out
    /\ \A m \in Range(out) : m.type = "getblocks" /\ m.locator = pindexBest
    /\ \/ lastGetBlocks'[s] = lastGetBlocks[s]
       \/ \E m \in Range(out) : lastGetBlocks'[s] = <<m.locator, m.hashStop>>

LEMMA AnnouncedTail ==
    ASSUME DownloadInv, NEW s \in Server, NEW e, LiveAnnounced(s, e), toClient[s] # <<>>,
           toClient'[s] = Tail(toClient[s]), index \subseteq index',
           Head(toClient[s]).type = "block" /\ Head(toClient[s]).block = e => e \in index'
    PROVE  \/ LiveAnnounced(s, e)'
           \/ /\ Head(toClient[s]).type = "inv" /\ e \in index
              /\ \E x \in Range(Head(toClient[s]).vInv) : x >= Tip[s]
<1> DEFINE q == toClient[s]
           X == ToClient(s)
<1>1. q \in Seq(X) /\ q # <<>>
  BY QueueFacts DEF Queues
<1>2. PICK i \in 1 .. Len(q) :
        /\ q[i].type = "inv" /\ \E x \in Range(q[i].vInv) : x >= Tip[s]
        /\ e \in index \/ \E h \in 1 .. i - 1 : q[h].type = "block" /\ q[h].block = e
  BY DEF LiveAnnounced
<1>3. /\ Head(q) = q[1] /\ Len(Tail(q)) = Len(q) - 1 /\ Len(q) \in Nat
      /\ \A j \in 1 .. Len(q) - 1 : Tail(q)[j] = q[j + 1]
  <2> HIDE DEF q, X
  <2> QED
    BY <1>1
<1> HIDE DEF q, X
<1>4. CASE i = 1
  <2>1. e \in index
    BY <1>2, <1>4
  <2> QED
    BY <1>2, <1>3, <1>4, <2>1 DEF q
<1>5. CASE i # 1
  <2>1. i - 1 \in 1 .. Len(Tail(q)) /\ Tail(q)[i - 1] = q[i]
    <3>1. i - 1 \in 1 .. Len(q) - 1 /\ (i - 1) + 1 = i
      BY <1>3, <1>5
    <3> QED
      BY <1>3, <3>1
  <2>2. e \in index' \/ \E h \in 1 .. (i - 1) - 1 : Tail(q)[h].type = "block" /\ Tail(q)[h].block = e
    <3>1. SUFFICES ASSUME NEW h \in 1 .. i - 1, q[h].type = "block", q[h].block = e, e \notin index'
                   PROVE  h - 1 \in 1 .. (i - 1) - 1 /\ Tail(q)[h - 1] = q[h]
      BY <1>2
    <3>2. h # 1
      BY <1>3, <3>1 DEF q
    <3>3. h - 1 \in 1 .. (i - 1) - 1 /\ h - 1 \in 1 .. Len(q) - 1 /\ (h - 1) + 1 = h
      BY <1>3, <1>5, <3>2
    <3> QED
      BY <1>3, <3>3
  <2>3. toClient'[s] = Tail(q)
    BY DEF q
  <2> QED
    BY <1>2, <2>1, <2>2, <2>3 DEF LiveAnnounced
<1> QED
  BY <1>4, <1>5

\* What waits for more than the gap's block is asked for, or was when the gap was not there.
LEMMA RootHelps ==
    ASSUME SomeLocatorHelps, DownloadInv, Background, NEW s \in Server, Order(s),
           NEW e, Gap(s, e), LastIsDone(s), e \in index, NEW root \in Nat, root > e + 1
    PROVE  /\ Beyond(Get(pindexBest, root), e)
           /\ lastGetBlocks[s] = <<pindexBest, root>> => LiveRequest(s, e)
<1>1. /\ e \in Nat /\ e + 1 <= Tip[s] /\ Tip[s] \in Nat /\ Begin(pindexBest) \in Nat /\ Begin(pindexBest) <= e
  <2>1. LowIsTold(s) /\ pindexBest \in index
    BY DEF Order, DownloadInv, TypeOK
  <2> QED
    BY <2>1, GapFacts
<1>2. e + 1 \notin Told(s) \cup Had /\ e \in Main
  <2>1. Fork \in Nat /\ Tip[s] \in 1 .. MaxHeight /\ MaxHeight \in Nat
    BY DownloadAssumption
  <2> QED
    BY <2>1 DEF Gap, Main
<1>3. Reach(pindexBest) > e /\ Reach(pindexBest) \in Nat
  <2>1. OwnIsThere
    BY DEF Background
  <2>2. Reach(pindexBest) \in Nat /\ e < Reach(pindexBest)
    BY <1>2, <2>1, BestReaches
  <2> QED
    BY <1>1, <2>2
<1>4. Beyond(Get(pindexBest, root), e)
  BY <1>3 DEF Beyond, Get
<1>5. ASSUME lastGetBlocks[s] = <<pindexBest, root>> PROVE LiveRequest(s, e)
  <2>1. ~Done(s, pindexBest, root)
    <3>1. e + 1 \in Begin(pindexBest) + 1 .. Reach(pindexBest) /\ e + 1 < root
      BY <1>1, <1>3
    <3> QED
      BY <1>1, <1>2, <3>1 DEF Done
  <2>2. PICK m \in Range(toServer[s]) : m.type = "getblocks" /\ m.locator = pindexBest /\ m.hashStop = root
    <3>1. lastGetBlocks[s] # <<>> /\ lastGetBlocks[s][1] = pindexBest /\ lastGetBlocks[s][2] = root
      BY <1>5
    <3> QED
      BY <2>1, <3>1 DEF LastIsDone
  <2>3. Beyond(m, e)
    BY <1>4, <2>2 DEF Beyond, Get
  <2> QED
    BY <2>2, <2>3 DEF LiveRequest
<1> QED
  BY <1>4, <1>5

LEMMA ReceiveGoes ==
    ASSUME SomeLocatorHelps, DownloadInv, DownloadInv', Background, Background', NEW s \in Server, Order(s),
           NEW e, Gap(s, e), Goes(s, e), Receives(s), NEW out \in Seq(GetBlocks), AsksOn(s, out),
           index \subseteq index', Had \subseteq Had', Sent(s)' \subseteq Sent(s),
           e \notin Had /\ e \notin Sent(s) => e \notin Had',
           Head(toClient[s]).type = "block" /\ Head(toClient[s]).block = e => e \in index',
           /\ Head(toClient[s]).type = "inv" /\ e \in index
           /\ \E x \in Range(Head(toClient[s]).vInv) : x >= Tip[s]
           => LiveRequest(s, e)' \/ LiveComing(s, e)',
           LiveComing(s, e) => LiveRequest(s, e)' \/ LiveComing(s, e)'
    PROVE  Goes(s, e)'
<1>1. /\ out \in Seq(ToServer(s)) /\ e \in Nat
  <2>1. Seq(GetBlocks) \subseteq Seq(ToServer(s))
    BY HasFacts DEF DownloadInv
  <2>2. LowIsTold(s)
    BY DEF Order
  <2> QED
    BY <2>1, <2>2, GapFacts
<1>2. toServer[s] \in Seq(ToServer(s)) /\ toClient[s] \in Seq(ToClient(s))
  BY QueueFacts DEF Queues
<1>3. Range(toServer'[s]) = Range(toServer[s]) \cup Range(out)
  <2>1. toServer'[s] = toServer[s] \o out
    BY DEF AsksOn
  <2> QED
    BY <1>1, <1>2, <2>1, RangeConcat
<1>4. /\ toClient[s] # <<>> /\ toClient'[s] = Tail(toClient[s]) /\ known' = known /\ toSend' = toSend
      /\ hashContinue' = hashContinue /\ height' = height
  BY DEF Receives, ServerKept
<1>5. Answering(s, e)'
  BY <1>1, AnsweringMore DEF Goes, AsksOn
<1>6. LastIsDone(s)'
  BY <1>3, <1>4, LastIsDoneStays DEF Goes, AsksOn, Told
<1>7. CommonFirst(s)'
  <2>1. Range(toClient'[s]) \subseteq Range(toClient[s])
    BY <1>2, <1>4, RangeTail
  <2> QED
    BY <1>4, <2>1, CommonFirstStays DEF Goes
<1>8. Live(s, e)'
  <2>1. CASE LiveRequest(s, e)
    <3>1. LiveRequest(s, e)'
      BY <1>3, <2>1 DEF LiveRequest
    <3> QED
      BY <3>1 DEF Live
  <2>2. CASE LiveBatch(s, e)
    <3>1. LiveBatch(s, e)'
      BY <1>4, <2>2 DEF LiveBatch
    <3> QED
      BY <3>1 DEF Live
  <2>3. CASE LiveAnnounced(s, e)
    BY <1>4, <2>3, AnnouncedTail DEF Live
  <2>4. CASE LiveComing(s, e)
    BY <2>4 DEF Live
  <2> QED
    BY <2>1, <2>2, <2>3, <2>4 DEF Goes, Live
<1> QED
  BY <1>5, <1>6, <1>7, <1>8 DEF Goes

LEMMA ReceiveInvGoes ==
    ASSUME SomeLocatorHelps, DownloadInv, DownloadInv', Background, Background', NEW s \in Server, Order(s),
           ClientReceive(s), Head(toClient[s]).type = "inv", NEW e, Gap(s, e)', Gap(s, e) => Goes(s, e)
    PROVE  Goes(s, e)'
<1> DEFINE v == Head(toClient[s]).vInv
           a == Asked(s, v)[Len(v)]
<1>1. /\ Receives(s) /\ v \in Seq(Has(s)) /\ ChainKept
      /\ Asks(s, a) /\ a \in AskingType(Has(s))
  BY ReceiveInvDoes
<1>2. /\ toClient[s] # <<>> /\ index' = index /\ pindexBest' = pindexBest /\ Had' = Had
      /\ known' = known /\ toSend' = toSend /\ Told(s)' = Told(s) /\ height' = height
      /\ toServer'[s] = toServer[s] \o a.out /\ mapAskFor'[s] = a.askFor /\ lastGetBlocks'[s] = a.last
      /\ toClient'[s] = Tail(toClient[s])
  BY <1>1 DEF Receives, ChainKept, Asks, ServerKept, Told, Had
<1>3. AsksSoFar(s, v, a, Len(v))
  BY <1>1, AsksAll
<1> HIDE DEF a
<1>4. LowIsTold(s) /\ ToldOnce(s)
  BY DEF Order
<1>5. Gap(s, e)
  BY <1>2, <1>4, GapStays
<1>6. /\ Goes(s, e) /\ e \in Nat /\ e + 1 <= Tip[s] /\ Tip[s] \in Nat /\ Fork \in Nat /\ height[s] \in Nat
      /\ \A b \in index : b \in Main => b <= e /\ b \in Nat
  BY <1>4, <1>5, GapFacts
<1>7. /\ \A i \in 1 .. Len(v) : v[i] \in Range(v) /\ v[i] \in Main /\ v[i] \in Has(s)
      /\ \A b \in Range(v) : b \in Main /\ b \in Has(s) /\ \E i \in 1 .. Len(v) : v[i] = b
  <2>1. Has(s) \subseteq Main
    BY HasFacts DEF DownloadInv
  <2>2. /\ Range(v) \subseteq Has(s) /\ \A y : y \in Range(v) <=> \E i \in 1 .. Len(v) : v[i] = y
    BY <1>1, SeqRange
  <2> QED
    BY <2>1, <2>2
\* The inventory does not end with a block that the client has.
<1>8. v[Len(v)] \notin index
  <2> DEFINE x == v[Len(v)]
  <2>1. SUFFICES ASSUME x \in index PROVE FALSE
    OBVIOUS
  <2>2. v # <<>> /\ x > Fork
    <3>1. Head(toClient[s]) \in Range(toClient[s])
      <4>1. toClient[s] \in Seq(ToClient(s))
        BY QueueFacts DEF Queues
      <4> QED
        BY <1>2, <4>1, RangeTail
    <3> QED
      BY <1>6, <3>1 DEF Goes, CommonFirst
  <2>3. x \in Range(v) /\ x \in Main /\ x \in Nat
    <3>1. Len(v) \in 1 .. Len(v)
      BY <1>1, <2>2
    <3> QED
      BY <1>7, <3>1, BlockFacts
  <2>4. x <= e
    BY <1>6, <2>1, <2>3
  <2>5. x \in Low(s)
    BY <1>6, <2>2, <2>3, <2>4 DEF Low
  <2>6. x \in Announced(s)
    <3>1. Of(Head(toClient[s]), "inv") = v
      BY DEF Of
    <3>2. Announced(s) = Range(v) \cup Carried(Tail(toClient[s]), "inv")
      BY <1>2, <3>1, HeadIsInOrder DEF Announced
    <3> QED
      BY <2>3, <3>2
  <2> QED
    BY <1>4, <2>1, <2>5, <2>6 DEF ToldOnce
<1>9. AsksOn(s, a.out)
  <2>1. \A m \in Range(a.out) : m.type = "getblocks" /\ m.locator = pindexBest
    <3>1. \A m \in Range(a.out) : \E b \in mapOrphanBlocks : m = Get(pindexBest, GetOrphanRoot(mapOrphanBlocks, b))
      BY <1>3, <1>8 DEF AsksSoFar
    <3> QED
      BY <3>1 DEF Get
  <2>2. a.last = lastGetBlocks[s] \/ \E m \in Range(a.out) : a.last = <<m.locator, m.hashStop>>
    BY <1>3 DEF AsksSoFar
  <2> QED
    BY <1>2, <2>1, <2>2 DEF AsksOn
<1>10. a.out \in Seq(GetBlocks) /\ a.askFor \in Seq(Nat \X Has(s))
  BY <1>1, AskingFields, HasFacts DEF DownloadInv
<1>11. /\ Range(toServer[s]) \cup Range(a.out) = Range(toServer'[s]) /\ Requests(s)' = Requests(s) /\ Sent(s)' = Sent(s)
  <2>1. toServer[s] \in Seq(ToServer(s)) /\ a.out \in Seq(ToServer(s))
    <3>1. Seq(GetBlocks) \subseteq Seq(ToServer(s))
      BY HasFacts DEF DownloadInv
    <3> QED
      BY <1>10, <3>1, QueueFacts DEF Queues
  <2>2. \A m \in Range(a.out) : Of(m, "getdata") = <<>>
    BY <1>9 DEF AsksOn, Of
  <2>3. Range(toServer[s] \o a.out) = Range(toServer[s]) \cup Range(a.out)
    BY <2>1, RangeConcat
  <2>4. Carried(toServer[s] \o a.out, "getdata") = Carried(toServer[s], "getdata")
    BY <2>1, <2>2, OrderlyOthers
  <2>5. Sent(s)' = Sent(s)
    <3>1. Of(Head(toClient[s]), "block") = <<>> /\ Range(<<>>) = {}
      BY DEF Of, Range
    <3>2. Sent(s) = {} \cup Carried(Tail(toClient[s]), "block")
      BY <1>2, <3>1, HeadIsInOrder DEF Sent
    <3> QED
      BY <1>2, <3>2 DEF Sent
  <2> QED
    BY <1>2, <2>3, <2>4, <2>5 DEF Requests
<1>12. /\ Wanted(Asking(s)) \subseteq Wanted(a) /\ \A b \in Range(v) : AlreadyHave(b) \/ b \in Wanted(a)
       /\ \A b : b \in Range(AskedFor(s)) => b \in Wanted(Asking(s))
       /\ \A b \in Wanted(a) : b \in Range(AskedFor(s)')
  <2>1. Asking(s) \in AskingType(Has(s)) /\ Asking(s).askFor = mapAskFor[s] /\ Has(s) \subseteq Block
    BY AskingFacts, HasFacts DEF DownloadInv
  <2>2. /\ Wanted(Asking(s)) \subseteq Wanted(a) /\ \A b \in Range(v) : AlreadyHave(b) \/ b \in Wanted(a)
    BY <1>1, <2>1, AskedAll DEF a
  <2>3. \A b : b \in Range(AskedFor(s)) => b \in Wanted(Asking(s))
    BY <2>1, AskedForRange DEF Wanted
  <2>4. \A b \in Wanted(a) : b \in Range(Blocks(a.askFor))
    <3> DEFINE r == a.askFor
               B == Has(s)
    <3>1. r \in Seq(Nat \X B)
      BY <1>10
    <3> HIDE DEF r, B
    <3>2. \A b : b \in Range(Blocks(r)) <=> \E d \in Range(r) : d[2] = b
      <4>1. TakesBlocks(Blocks(r), r, B)
        BY <3>1, BlocksTaken
      <4> QED
        BY <4>1 DEF TakesBlocks
    <3> QED
      BY <3>2 DEF r, Wanted
  <2> QED
    BY <1>2, <2>2, <2>3, <2>4 DEF AskedFor
<1>13. Coming(s) \subseteq Coming(s)' /\ \A b \in Range(v) : b \notin Had => b \in Coming(s)'
  BY <1>11, <1>12 DEF Coming, AlreadyHave
<1>14. LiveComing(s, e) => LiveComing(s, e)'
  BY <1>2, <1>13 DEF LiveComing
<1>15. ASSUME e \in index, NEW x \in Range(v), x >= Tip[s]
       PROVE  LiveRequest(s, e)' \/ LiveComing(s, e)'
  <2>1. x \in Main /\ x \in Nat /\ x <= height[s]
    BY <1>6, <1>7, <1>15 DEF Has
  <2>2. x \notin index
    BY <1>6, <1>15, <2>1
  <2>3. CASE x \in mapOrphanBlocks
    <3> DEFINE root == GetOrphanRoot(mapOrphanBlocks, x)
    <3>1. root \in mapOrphanBlocks /\ root \in Nat /\ root \notin index
      <4>1. mapOrphanBlocks \subseteq Main \ {0}
        BY AskingFacts
      <4>2. root \in mapOrphanBlocks
        BY <2>3, <4>1, RootExists
      <4> QED
        BY <4>1, <4>2, BlockFacts DEF DownloadInv, TypeOK
    <3>2. root > e + 1
      <4>1. 0..e \subseteq index
        <5>1. e \in Main
          BY <1>15, <1>6, BlockFacts DEF DownloadInv, TypeOK
        <5> QED
          BY <1>15, <5>1, IndexIsClosed
      <4>2. root # e + 1
        BY <1>5, <3>1 DEF Gap, Had
      <4> QED
        BY <1>6, <3>1, <4>1, <4>2
    <3>3. PICK i \in 1 .. Len(v) : v[i] = x
      BY <1>7, <1>15
    <3>4. lastGetBlocks[s] = <<pindexBest, root>> \/ Get(pindexBest, root) \in Range(a.out)
      BY <1>3, <2>3, <3>3 DEF AsksSoFar
    <3> HIDE DEF root, v
    <3>5. /\ Beyond(Get(pindexBest, root), e)
          /\ lastGetBlocks[s] = <<pindexBest, root>> => LiveRequest(s, e)
      <4>1. LastIsDone(s)
        BY <1>6 DEF Goes
      <4> QED
        BY <1>5, <1>15, <3>1, <3>2, <4>1, RootHelps
    <3>6. CASE lastGetBlocks[s] = <<pindexBest, root>>
      BY <1>11, <3>5, <3>6 DEF LiveRequest
    <3>7. CASE Get(pindexBest, root) \in Range(a.out)
      <4>1. Get(pindexBest, root).type = "getblocks"
        BY DEF Get
      <4> QED
        BY <1>11, <3>5, <3>7, <4>1 DEF LiveRequest
    <3> QED
      BY <3>4, <3>6, <3>7
  <2>4. CASE x \notin mapOrphanBlocks
    <3>1. x \notin Had /\ x \in Coming(s)'
      BY <1>13, <1>15, <2>2, <2>4 DEF Had
    <3>2. x \in Tip[s] .. height[s]
      BY <1>6, <1>15, <2>1
    <3> QED
      BY <1>2, <1>15, <3>1, <3>2 DEF LiveComing
  <2> QED
    BY <2>3, <2>4
<1>16. \A x \in Range(Head(toClient[s]).vInv) : x >= Tip[s] /\ e \in index => LiveRequest(s, e)' \/ LiveComing(s, e)'
  BY <1>15
<1> HIDE DEF v
<1> QED
  BY <1>1, <1>2, <1>5, <1>6, <1>9, <1>10, <1>11, <1>14, <1>16, ReceiveGoes

\* What a block makes the client ask for, and have.
Helps(s, b, out) ==
    /\ AsksOn(s, out) /\ index \subseteq index' /\ Had' = Had \cup {b}
    /\ \/ b \in Had
       \/ b - 1 \in index
       \/ \E root \in mapOrphanBlocks' : /\ index' = index
                                         /\ \/ lastGetBlocks[s] = <<pindexBest, root>>
                                            \/ Get(pindexBest, root) \in Range(out)

LEMMA ReceiveBlockHelps ==
    ASSUME DownloadInv, NEW s \in Server, ClientReceive(s), Head(toClient[s]).type # "inv",
           NEW b, b = Head(toClient[s]).block
    PROVE  \E out \in Seq(GetBlocks) : Helps(s, b, out)
<1>1. /\ Receives(s) /\ b \in Has(s) /\ Head(toClient[s]).type = "block"
      /\ \/ HasAlready(s, b)
         \/ \E last \in Main : Accepts(s, b, last)
         \/ \E root \in Main : BecomesOrphan(s, b, root)
  BY ReceiveBlockDoes
<1>2. /\ <<>> \in Seq(GetBlocks) /\ toServer[s] \o <<>> = toServer[s] /\ Range(<<>>) = {}
  <2>1. toServer[s] \in Seq(ToServer(s))
    BY QueueFacts DEF Queues
  <2>2. Range(<<>>) = {}
    BY DEF Range
  <2> QED
    BY <2>1, <2>2
<1>3. /\ Asking(s) \in AskingType(Has(s)) /\ Asking(s).out = <<>> /\ Asking(s).last = lastGetBlocks[s]
      /\ Has(s) \subseteq Block /\ b \in Block /\ b \in Int
  BY <1>1, AskingFacts, HasFacts, BlockFacts DEF DownloadInv, Asking
<1>4. CASE HasAlready(s, b)
  <2>1. Helps(s, b, <<>>)
    BY <1>2, <1>4 DEF HasAlready, ChainKept, Helps, AsksOn, Had
  <2> QED
    BY <1>2, <2>1
<1>5. ASSUME NEW last \in Main, Accepts(s, b, last) PROVE Helps(s, b, <<>>)
  <2>1. Erase(Asking(s), b).out = <<>> /\ Erase(Asking(s), b).last = lastGetBlocks[s]
    BY <1>3 DEF Erase
  <2>2. /\ b \notin Had /\ b - 1 \in index /\ b <= last /\ b + 1 .. last \subseteq mapOrphanBlocks
        /\ index' = index \cup b .. last /\ mapOrphanBlocks' = mapOrphanBlocks \ (b .. last)
        /\ Asks(s, Erase(Asking(s), b))
    BY <1>5 DEF Accepts
  <2>3. b \in b .. last /\ \A x \in b .. last : x = b \/ x \in b + 1 .. last
    <3>1. last \in Int
      BY BlockFacts
    <3> QED
      BY <1>3, <2>2, <3>1
  <2>4. Had' = Had \cup {b} /\ index \subseteq index'
    BY <2>2, <2>3 DEF Had
  <2>5. AsksOn(s, <<>>)
    BY <1>2, <2>1, <2>2 DEF Asks, AsksOn
  <2> QED
    BY <2>2, <2>4, <2>5 DEF Helps
<1>6. ASSUME NEW root \in Main, BecomesOrphan(s, b, root)
      PROVE  \E out \in Seq(GetBlocks) : Helps(s, b, out)
  <2> DEFINE a == PushGetBlocks(Asking(s), pindexBest, root)
  <2>1. pindexBest \in Block /\ root \in Block
    BY AskingFacts, BlockFacts
  <2>2. a \in AskingType(Has(s))
    <3>1. GetsBlocks(Has(s), Asking(s), pindexBest, root)
      BY <1>3, <2>1, PushGetBlocksType
    <3> QED
      BY <3>1 DEF GetsBlocks
  <2>3. Pushes(Asking(s), a, pindexBest, root)
    BY <1>3, <2>1, PushGetBlocksDoes
  <2> HIDE DEF a
  <2>4. Erase(a, b).out = a.out /\ Erase(a, b).last = a.last
    BY DEF Erase
  <2>5. /\ b \notin Had /\ mapOrphanBlocks' = mapOrphanBlocks \cup {b} /\ index' = index
        /\ root \in mapOrphanBlocks' /\ Asks(s, Erase(a, b))
    BY <1>6 DEF BecomesOrphan, a
  <2>6. a.out \in Seq(GetBlocks)
    BY <1>3, <2>2, AskingFields
  <2>7. /\ a.last = <<pindexBest, root>> /\ Range(a.out) \subseteq {Get(pindexBest, root)}
        /\ lastGetBlocks[s] = <<pindexBest, root>> \/ Get(pindexBest, root) \in Range(a.out)
    BY <1>2, <1>3, <2>3 DEF Pushes
  <2>8. AsksOn(s, a.out)
    <3>1. toServer'[s] = toServer[s] \o a.out /\ lastGetBlocks'[s] = <<pindexBest, root>>
      BY <2>4, <2>5, <2>7 DEF Asks
    <3>2. LET m == Get(pindexBest, root)
          IN  m.type = "getblocks" /\ m.locator = pindexBest /\ m.hashStop = root
      BY DEF Get
    <3> QED
      BY <2>7, <3>1, <3>2 DEF AsksOn
  <2>9. Had' = Had \cup {b}
    BY <2>5 DEF Had
  <2>10. Helps(s, b, a.out)
    BY <2>5, <2>7, <2>8, <2>9 DEF Helps
  <2> QED
    BY <2>6, <2>10
<1> QED
  BY <1>1, <1>2, <1>4, <1>5, <1>6

LEMMA ReceiveBlockGoes ==
    ASSUME SomeLocatorHelps, DownloadInv, DownloadInv', Background, Background', NEW s \in Server, Order(s),
           ClientReceive(s), Head(toClient[s]).type # "inv", NEW e, Gap(s, e)', Gap(s, e) => Goes(s, e)
    PROVE  Goes(s, e)'
<1> DEFINE b == Head(toClient[s]).block
<1>1. /\ Receives(s) /\ b \in Has(s) /\ Head(toClient[s]).type = "block"
  BY ReceiveBlockDoes
<1>2. PICK out \in Seq(GetBlocks) : Helps(s, b, out)
  BY ReceiveBlockHelps
<1>3. /\ AsksOn(s, out) /\ index \subseteq index' /\ Had' = Had \cup {b} /\ toServer'[s] = toServer[s] \o out
  BY <1>2 DEF Helps, AsksOn
<1>4. PICK o \in Seq(GetBlocks) : Brings(s, b, o)
  BY ReceiveBlockBrings
<1>5. b \in Low(s) => b \in index'
  BY <1>4 DEF Brings
<1>6. /\ toClient[s] # <<>> /\ Told(s)' = Told(s) /\ height' = height
      /\ toClient'[s] = Tail(toClient[s]) /\ mapAskFor'[s] = mapAskFor[s]
  BY <1>1, <1>4 DEF Receives, ServerKept, Told, Brings
<1>7. LowIsTold(s)
  BY DEF Order
<1>8. Gap(s, e)
  BY <1>3, <1>6, <1>7, GapStays
<1>9. /\ Goes(s, e) /\ e \in Nat /\ e + 1 <= Tip[s] /\ Tip[s] \in Nat /\ Fork \in Nat /\ height[s] \in Nat
      /\ \A c \in index : c \in Main => c <= e /\ c \in Nat
      /\ e = Fork \/ e \in Low(s)
  BY <1>7, <1>8, GapFacts
<1>10. b = e => e \in index'
  BY <1>3, <1>5, <1>9, LowFacts
<1>11. /\ Sent(s) = {b} \cup Sent(s)' /\ Requests(s)' = Requests(s) /\ AskedFor(s)' = AskedFor(s)
       /\ Range(toServer'[s]) = Range(toServer[s]) \cup Range(out)
  <2>1. Sent(s) = {b} \cup Sent(s)'
    <3>1. Of(Head(toClient[s]), "block") = <<b>> /\ Range(<<b>>) = {b}
      BY <1>1 DEF Of, Range
    <3> QED
      BY <1>6, <3>1, HeadIsInOrder DEF Sent
  <2>2. toServer[s] \in Seq(ToServer(s)) /\ out \in Seq(ToServer(s))
    <3>1. Seq(GetBlocks) \subseteq Seq(ToServer(s))
      BY HasFacts DEF DownloadInv
    <3> QED
      BY <3>1, QueueFacts DEF Queues
  <2>3. \A m \in Range(out) : Of(m, "getdata") = <<>>
    BY <1>3 DEF AsksOn, Of
  <2>4. Range(toServer[s] \o out) = Range(toServer[s]) \cup Range(out)
    BY <2>2, RangeConcat
  <2>5. Carried(toServer[s] \o out, "getdata") = Carried(toServer[s], "getdata")
    BY <2>2, <2>3, OrderlyOthers
  <2> QED
    BY <1>3, <1>6, <2>1, <2>4, <2>5 DEF Requests, AskedFor
<1>12. Coming(s) \subseteq Coming(s)' \cup {b}
  BY <1>11 DEF Coming
<1>13. b \in Nat /\ b \in Main /\ b \in Block /\ b - 1 \in Main
  BY <1>1, HasFacts, BlockFacts DEF DownloadInv, Has
<1> HIDE DEF b
<1>14. ASSUME LiveComing(s, e) PROVE LiveRequest(s, e)' \/ LiveComing(s, e)'
  <2>1. PICK x \in Tip[s] .. height[s] : x \notin Had /\ x \in Coming(s)
    BY <1>14 DEF LiveComing
  <2>2. e \in index
    BY <1>14 DEF LiveComing
  <2>3. CASE x # b
    BY <1>3, <1>6, <1>12, <2>1, <2>2, <2>3 DEF LiveComing
  <2>4. CASE x = b
    <3>1. b \notin Had /\ b >= Tip[s]
      BY <1>9, <2>1, <2>4
    <3>2. b # e + 1
      BY <1>3 DEF Gap
    <3>3. b - 1 \notin index
      BY <1>9, <1>13, <3>1, <3>2
    <3>4. PICK root \in mapOrphanBlocks' :
            /\ index' = index
            /\ lastGetBlocks[s] = <<pindexBest, root>> \/ Get(pindexBest, root) \in Range(out)
      BY <1>2, <3>1, <3>3 DEF Helps
    <3>5. root \in Nat /\ root \notin index
      <4>1. mapOrphanBlocks' \subseteq Main /\ mapOrphanBlocks' \cap index' = {}
        BY DEF DownloadInv, TypeOK, ChainIsLinked
      <4> QED
        BY <3>4, <4>1, BlockFacts
    <3>6. root > e + 1
      <4>1. 0..e \subseteq index
        <5>1. e \in Main
          BY <1>9, <2>2, BlockFacts DEF DownloadInv, TypeOK
        <5> QED
          BY <2>2, <5>1, IndexIsClosed
      <4>2. root # e + 1
        BY DEF Gap, Had
      <4> QED
        BY <1>9, <3>5, <4>1, <4>2
    <3>7. /\ Beyond(Get(pindexBest, root), e)
          /\ lastGetBlocks[s] = <<pindexBest, root>> => LiveRequest(s, e)
      <4>1. LastIsDone(s)
        BY <1>9 DEF Goes
      <4> QED
        BY <1>8, <2>2, <3>5, <3>6, <4>1, RootHelps
    <3>8. CASE lastGetBlocks[s] = <<pindexBest, root>>
      BY <1>11, <3>7, <3>8 DEF LiveRequest
    <3>9. CASE Get(pindexBest, root) \in Range(out)
      <4>1. Get(pindexBest, root).type = "getblocks"
        BY DEF Get
      <4> QED
        BY <1>11, <3>7, <3>9, <4>1 DEF LiveRequest
    <3> QED
      BY <3>4, <3>8, <3>9
  <2> QED
    BY <2>3, <2>4
<1>15. /\ Had \subseteq Had' /\ Sent(s)' \subseteq Sent(s)
       /\ e \notin Had /\ e \notin Sent(s) => e \notin Had'
  BY <1>3, <1>11
<1>16. Head(toClient[s]).type = "block" /\ Head(toClient[s]).block = e => e \in index'
  BY <1>10 DEF b
<1> QED
  BY <1>1, <1>3, <1>8, <1>9, <1>14, <1>15, <1>16, ReceiveGoes

LEMMA ClientSendGoes ==
    ASSUME SomeLocatorHelps, DownloadInv, DownloadInv', Background, Background', NEW s \in Server, Order(s),
           ClientSend(s), NEW e, Gap(s, e)', Gap(s, e) => Goes(s, e)
    PROVE  Goes(s, e)'
<1> DEFINE q == mapAskFor[s]
           B == Has(s)
<1>1. PICK vInv \in Seq(Block), wanted \in Seq(B) : ClientSends(s, vInv, wanted)
  BY ClientSendDoes
<1>2. /\ ChainKept /\ ServerKept /\ toClient'[s] = toClient[s]
      /\ wanted = Kept(Blocks(Kept(q, {0} \X Block)), Block \ Had) /\ mapAskFor'[s] = Kept(q, (Nat \ {0}) \X Block)
      /\ toServer'[s] = toServer[s] \o inv(vInv) \o getdata(wanted) /\ lastGetBlocks'[s] = lastGetBlocks[s]
  BY <1>1 DEF ClientSends
<1>3. /\ index' = index /\ pindexBest' = pindexBest /\ known' = known /\ toSend' = toSend /\ Had' = Had
      /\ Sent(s)' = Sent(s) /\ Told(s)' = Told(s) /\ hashContinue' = hashContinue /\ height' = height
  BY <1>2 DEF ChainKept, ServerKept, Sent, Told, Had
<1>4. Gap(s, e)
  BY <1>3 DEF Gap
<1>5. Goes(s, e) /\ e \in Nat
  <2>1. LowIsTold(s)
    BY DEF Order
  <2> QED
    BY <1>4, <2>1, GapFacts
<1>6. q \in Seq(Nat \X B) /\ B \subseteq Block
  BY QueueFacts, HasFacts DEF Queues, DownloadInv
<1>7. \A b : b \in Range(AskedFor(s)) => \E d \in Range(q) : d[2] = b /\ d = <<d[1], b>> /\ b \in Block
  <2>1. Range(q) \subseteq Nat \X B
    BY <1>6, SeqRange
  <2>2. \A d \in Nat \X B : d = <<d[1], d[2]>> /\ d[2] \in Block
    BY <1>6
  <2>3. \A b : b \in Range(AskedFor(s)) => \E d \in Range(q) : d[2] = b
    BY AskedForRange
  <2> QED
    BY <2>1, <2>2, <2>3
<1>8. Range(wanted) = {b \in Block \ Had : <<0, b>> \in Range(q)}
  BY <1>2, DueFacts DEF Blocks
<1>9. \A d \in Range(q) : d[1] # 0 => d[2] \in Range(AskedFor(s)')
  <2> DEFINE r == Kept(q, (Nat \ {0}) \X Block)
  <2>1. r \in Seq(Nat \X B) /\ Range(r) = {d \in Range(q) : d[1] # 0}
    BY DueFacts
  <2>2. AskedFor(s)' = Blocks(r)
    BY <1>2 DEF AskedFor
  <2> HIDE DEF r, B
  <2>3. \A b : b \in Range(Blocks(r)) <=> \E d \in Range(r) : d[2] = b
    <3>1. TakesBlocks(Blocks(r), r, B)
      BY <2>1, BlocksTaken
    <3> QED
      BY <3>1 DEF TakesBlocks
  <2> QED
    BY <2>1, <2>2, <2>3
<1>10. /\ Range(toServer'[s]) = Range(toServer[s]) \cup Range(inv(vInv)) \cup Range(getdata(wanted))
       /\ inv(vInv) \in Seq(ToServer(s)) /\ getdata(wanted) \in Seq(ToServer(s))
       /\ toServer[s] \in Seq(ToServer(s))
  BY <1>2, SentMessages, QueueFacts DEF Queues
<1>11. /\ \A m \in Range(inv(vInv)) \cup Range(getdata(wanted)) : m.type # "getblocks"
       /\ wanted # <<>> => [type |-> "getdata", vInv |-> wanted] \in Range(getdata(wanted))
  <2>1. /\ Range(inv(vInv)) \subseteq {[type |-> "inv", vInv |-> vInv]}
        /\ Range(getdata(wanted)) = IF wanted = <<>> THEN {} ELSE {[type |-> "getdata", vInv |-> wanted]}
    <3>1. Range(inv(vInv)) = IF vInv = <<>> THEN {} ELSE {[type |-> "inv", vInv |-> vInv]}
      BY InvRange
    <3>2. Range(getdata(wanted)) = IF wanted = <<>> THEN {} ELSE {[type |-> "getdata", vInv |-> wanted]}
      BY InvRange
    <3> QED
      BY <3>1, <3>2
  <2>2. [type |-> "inv", vInv |-> vInv].type = "inv" /\ [type |-> "getdata", vInv |-> wanted].type = "getdata"
    OBVIOUS
  <2> QED
    BY <2>1, <2>2
<1>12. Requests(s) \cup Range(wanted) \subseteq Requests(s)'
  <2>1. ASSUME NEW x \in Requests(s) PROVE x \in Requests(s)'
    <3>1. PICK m \in Range(toServer[s]) : x \in Range(Of(m, "getdata"))
      BY <2>1 DEF Requests, Carried
    <3>2. m \in Range(toServer'[s])
      BY <1>10
    <3> QED
      BY <3>1, <3>2 DEF Requests, Carried
  <2>2. ASSUME NEW x \in Range(wanted) PROVE x \in Requests(s)'
    <3> DEFINE m == [type |-> "getdata", vInv |-> wanted]
    <3>1. wanted # <<>>
      BY <2>2 DEF Range
    <3>2. m \in Range(toServer'[s])
      BY <1>10, <1>11, <3>1
    <3>3. Of(m, "getdata") = wanted
      BY DEF Of
    <3> HIDE DEF m
    <3> QED
      BY <2>2, <3>2, <3>3 DEF Requests, Carried
  <2> QED
    BY <2>1, <2>2
<1> HIDE DEF q, B
<1>13. \A x \in Coming(s) : x \notin Had => x \in Coming(s)'
  <2>1. SUFFICES ASSUME NEW x \in Range(AskedFor(s)), x \notin Had PROVE x \in Range(wanted) \cup Range(AskedFor(s)')
    BY <1>3, <1>12 DEF Coming
  <2>2. PICK d \in Range(q) : d[2] = x /\ d = <<d[1], x>> /\ x \in Block
    BY <1>7
  <2> QED
    BY <1>8, <1>9, <2>1, <2>2
<1>14. Answering(s, e)'
  <2> DEFINE r == inv(vInv) \o getdata(wanted)
  <2>1. r \in Seq(ToServer(s)) /\ toServer'[s] = toServer[s] \o r
    <3> DEFINE X == ToServer(s)
               u == toServer[s]
               w == inv(vInv)
               z == getdata(wanted)
    <3>1. u \in Seq(X) /\ w \in Seq(X) /\ z \in Seq(X)
      BY <1>10
    <3> HIDE DEF X, u, w, z
    <3>2. (u \o w) \o z = u \o (w \o z) /\ w \o z \in Seq(X)
      BY <3>1, ConcatAssociative, ConcatAt, SMTT(40)
    <3> QED
      BY <1>2, <3>2 DEF X, u, w, z
  <2>2. \A m \in Range(r) : m.type # "getblocks"
    <3>1. Range(r) = Range(inv(vInv)) \cup Range(getdata(wanted))
      BY <1>10, RangeConcat
    <3> QED
      BY <1>11, <3>1
  <2> HIDE DEF r
  <2> QED
    BY <1>3, <1>5, <2>1, <2>2, AnsweringMore DEF Goes
<1>15. LastIsDone(s)'
  BY <1>2, <1>3, <1>5, <1>10, LastIsDoneStays DEF Goes
<1>16. CommonFirst(s)'
  BY <1>2, <1>3, <1>5, CommonFirstStays DEF Goes
<1>17. Live(s, e)'
  <2>1. CASE LiveRequest(s, e)
    BY <1>10, <2>1 DEF Live, LiveRequest
  <2>2. CASE LiveBatch(s, e)
    BY <1>3, <2>2 DEF Live, LiveBatch
  <2>3. CASE LiveAnnounced(s, e)
    <3>1. LiveAnnounced(s, e)'
      BY <1>2, <1>3, <2>3 DEF LiveAnnounced
    <3> QED
      BY <3>1 DEF Live
  <2>4. CASE LiveComing(s, e)
    <3>1. LiveComing(s, e)'
      BY <1>3, <1>13, <2>4 DEF LiveComing
    <3> QED
      BY <3>1 DEF Live
  <2> QED
    BY <1>5, <2>1, <2>2, <2>3, <2>4 DEF Goes, Live
<1> QED
  BY <1>14, <1>15, <1>16, <1>17 DEF Goes

-----------------------------------------------------------------------------
\* The server sends and receives.
LEMMA AnnouncedPrefix ==
    ASSUME NEW s, NEW e, LiveAnnounced(s, e), index' = index,
           Len(toClient[s]) \in Nat, Len(toClient'[s]) \in Nat, Len(toClient[s]) <= Len(toClient'[s]),
           \A i \in 1 .. Len(toClient[s]) : toClient'[s][i] = toClient[s][i]
    PROVE  LiveAnnounced(s, e)'
<1>1. PICK i \in 1 .. Len(toClient[s]) :
        /\ toClient[s][i].type = "inv" /\ \E x \in Range(toClient[s][i].vInv) : x >= Tip[s]
        /\ e \in index \/ \E h \in 1 .. i - 1 : toClient[s][h].type = "block" /\ toClient[s][h].block = e
  BY DEF LiveAnnounced
<1>2. i \in 1 .. Len(toClient'[s]) /\ \A h \in 1 .. i - 1 : h \in 1 .. Len(toClient[s])
  OBVIOUS
<1>3. toClient'[s][i] = toClient[s][i] /\ \A h \in 1 .. i - 1 : toClient'[s][h] = toClient[s][h]
  BY <1>2
<1> QED
  BY <1>1, <1>2, <1>3 DEF LiveAnnounced

LEMMA LearnGoes ==
    ASSUME DownloadInv, Background, NEW s \in Server, Order(s), Serves(s),
           NEW v, Range(v) \subseteq Had, Head(toServer[s]).type = "inv", Learns(s, v),
           NEW e, Gap(s, e)', Gap(s, e) => Goes(s, e)
    PROVE  Goes(s, e)'
<1>1. /\ index' = index /\ pindexBest' = pindexBest /\ Had' = Had /\ known'[s] = known[s] \cup Range(v)
      /\ toSend'[s] = toSend[s] /\ hashContinue'[s] = hashContinue[s] /\ toClient'[s] = toClient[s]
      /\ toServer[s] # <<>> /\ toServer'[s] = Tail(toServer[s]) /\ height' = height
      /\ lastGetBlocks' = lastGetBlocks /\ AskedFor(s)' = AskedFor(s) /\ Sent(s)' = Sent(s)
  BY DEF Serves, Learns, ClientKept, ChainKept, Had, AskedFor, Sent
<1>2. LowIsTold(s) /\ Told(s)' = Told(s) \cup Range(v)
  BY <1>1 DEF Order, Told
<1>3. \A b \in Low(s) : b \in Range(v) => b \in known[s]
  BY <1>2 DEF LowIsTold, Had
<1>4. Gap(s, e)
  BY <1>1, <1>2, <1>3, GapStays DEF Told
<1>5. /\ Goes(s, e) /\ e \in Nat /\ Fork \in Nat /\ Fork <= e /\ Tip[s] \in Nat /\ e + 1 <= Tip[s]
      /\ e + 1 \notin Had
  BY <1>2, <1>4, GapFacts DEF Gap
<1>6. /\ toServer[s] \in Seq(ToServer(s)) /\ Range(toServer[s]) = {Head(toServer[s])} \cup Range(Tail(toServer[s]))
  <2>1. toServer[s] \in Seq(ToServer(s))
    BY QueueFacts DEF Queues
  <2> QED
    BY <1>1, <2>1, RangeTail
<1>7. \A m \in Range(toServer[s]) : m.type = "getblocks" => m \in Range(toServer'[s])
  BY <1>1, <1>6
<1>8. Requests(s)' = Requests(s)
  <2>1. Of(Head(toServer[s]), "getdata") = <<>> /\ Range(<<>>) = {}
    BY DEF Of, Range
  <2> QED
    BY <1>1, <2>1, RequestIsInOrder DEF Requests
<1>9. Coming(s)' = Coming(s)
  BY <1>1, <1>8 DEF Coming
<1>10. Answering(s, e)'
  BY <1>1, <1>5, AnsweringTail DEF Goes
<1>11. LastIsDone(s)'
  BY <1>1, <1>2, <1>5, <1>7, LastIsDoneStays DEF Goes
<1>12. CommonFirst(s)'
  <2>1. Fork + 1 \in Range(v) => Fork + 1 \in known[s]
    <3>1. CASE Fork + 1 \in Low(s)
      BY <1>3, <3>1
    <3>2. CASE Fork + 1 \notin Low(s)
      <4>1. e = Fork
        BY <1>5, <3>2 DEF Low
      <4> QED
        BY <1>5, <4>1
    <3> QED
      BY <3>1, <3>2
  <2>2. CommonFirst(s)
    BY <1>5 DEF Goes
  <2> QED
    <3>1. toSend'[s] = toSend[s] /\ toClient'[s] = toClient[s] /\ Told(s) \subseteq Told(s)'
      BY <1>1, <1>2
    <3>2. known[s] \subseteq known'[s] /\ (Fork + 1 \in known'[s] => Fork + 1 \in known[s])
      BY <1>1, <2>1
    <3> QED
      BY <2>2, <3>1, <3>2 DEF CommonFirst
<1>13. Live(s, e)'
  <2>1. CASE LiveRequest(s, e)
    BY <1>7, <2>1 DEF Live, LiveRequest
  <2>2. CASE LiveBatch(s, e)
    BY <1>1, <2>2 DEF Live, LiveBatch
  <2>3. CASE LiveAnnounced(s, e)
    <3>1. LiveAnnounced(s, e)'
      BY <1>1, <2>3 DEF LiveAnnounced
    <3> QED
      BY <3>1 DEF Live
  <2>4. CASE LiveComing(s, e)
    <3>1. LiveComing(s, e)'
      BY <1>1, <1>9, <2>4 DEF LiveComing
    <3> QED
      BY <3>1 DEF Live
  <2> QED
    BY <1>5, <2>1, <2>2, <2>3, <2>4 DEF Goes, Live
<1> QED
  BY <1>10, <1>11, <1>12, <1>13 DEF Goes

LEMMA ServerSendGoes ==
    ASSUME DownloadInv, Background, NEW s \in Server, Order(s), ServerSend(s),
           NEW e, Gap(s, e)', Gap(s, e) => Goes(s, e)
    PROVE  Goes(s, e)'
<1> DEFINE q == toSend[s]
           common == Begin(Own) + 1 .. Fork
<1>1. PICK v \in Seq(Has(s)) : ServerSends(s, v) /\ SentFrom(v, q, known[s], Len(q))
  BY ServerSendDoes
<1>2. /\ index' = index /\ pindexBest' = pindexBest /\ Had' = Had /\ known'[s] = known[s] \cup Range(v)
      /\ toSend'[s] = <<>> /\ hashContinue'[s] = hashContinue[s] /\ toClient'[s] = toClient[s] \o inv(v)
      /\ toServer'[s] = toServer[s] /\ height' = height
      /\ lastGetBlocks' = lastGetBlocks /\ AskedFor(s)' = AskedFor(s) /\ Requests(s)' = Requests(s)
  BY <1>1 DEF ServerSends, ClientKept, ChainKept, Had, AskedFor, Requests
<1>3. /\ q \in Seq(Has(s)) /\ toClient[s] \in Seq(ToClient(s))
      /\ \A y : y \in Range(q) <=> \E i \in 1 .. Len(q) : q[i] = y
      /\ \A y : y \in Range(v) <=> \E i \in 1 .. Len(v) : v[i] = y
  <2>1. q \in Seq(Has(s)) /\ toClient[s] \in Seq(ToClient(s))
    BY QueueFacts DEF Queues
  <2>2. \A y : y \in Range(v) <=> \E i \in 1 .. Len(v) : v[i] = y
    BY SeqRange
  <2> HIDE DEF q
  <2>3. \A y : y \in Range(q) <=> \E i \in 1 .. Len(q) : q[i] = y
    BY <2>1, SeqRange
  <2> QED
    BY <2>1, <2>2, <2>3
<1>4. /\ \A y : y \in Range(v) <=> y \in Range(q) /\ y \notin known[s]
      /\ \A j, k \in 1 .. Len(v) : v[j] = v[k] => j = k
      /\ \A j \in 1 .. Len(v) : \E i \in 1 .. Len(q) :
           /\ v[j] = q[i]
           /\ \A h \in 1 .. i - 1 : q[h] \notin known[s] => \E k \in 1 .. j - 1 : v[k] = q[h]
  BY <1>1, <1>3 DEF SentFrom
<1>5. Told(s)' = Told(s)
  <2>1. Range(<<>>) = {}
    BY DEF Range
  <2> QED
    BY <1>2, <1>4, <2>1 DEF Told
<1>6. Sent(s)' = Sent(s)
  BY <1>2, AnnouncedMore DEF Sent
<1>7. Coming(s)' = Coming(s)
  BY <1>2, <1>6 DEF Coming
<1>8. Gap(s, e)
  BY <1>2, <1>5 DEF Gap
<1>9. Goes(s, e) /\ Fork \in Nat
  BY <1>8, DownloadAssumption
<1>10. Answering(s, e)'
  BY <1>2, <1>9, AnsweringStays DEF Goes
<1>11. LastIsDone(s)'
  BY <1>2, <1>5, <1>9, LastIsDoneStays DEF Goes
<1>12. /\ Fork + 1 \in known[s] => common \subseteq known[s]
       /\ \A b \in Range(q) : b <= Fork => b > Begin(Own) /\ Fork + 1 \in Told(s)
       /\ \A i \in 1 .. Len(q) : q[i] = Fork + 1 =>
            \A b \in common : b \in known[s] \/ \E h \in 1 .. i - 1 : q[h] = b
       /\ \A m \in Range(toClient[s]) : m.type = "inv" => m.vInv # <<>> /\ m.vInv[Len(m.vInv)] > Fork
  BY <1>9 DEF Goes, CommonFirst
<1>13. /\ Range(toClient'[s]) \subseteq Range(toClient[s]) \cup {[type |-> "inv", vInv |-> v]}
       /\ v = <<>> => Range(toClient'[s]) \subseteq Range(toClient[s])
       /\ Len(toClient[s]) \in Nat /\ Len(toClient'[s]) \in Nat /\ Len(toClient[s]) <= Len(toClient'[s])
       /\ \A i \in 1 .. Len(toClient[s]) : toClient'[s][i] = toClient[s][i]
  <2> DEFINE X == ToClient(s)
             p == toClient[s]
             r == inv(v)
  <2>1. p \in Seq(X) /\ r \in Seq(X) /\ Range(r) = IF v = <<>> THEN {} ELSE {[type |-> "inv", vInv |-> v]}
    <3>1. r \in Seq([type : {"inv"}, vInv : Seq(Has(s))])
      BY InvRange
    <3>2. [type : {"inv"}, vInv : Seq(Has(s))] \subseteq X
      BY DEF ToClient
    <3>3. r \in Seq(X)
      BY <3>1, <3>2, SeqMonotone
    <3>4. Range(r) = IF v = <<>> THEN {} ELSE {[type |-> "inv", vInv |-> v]}
      BY InvRange
    <3> QED
      BY <1>3, <3>3, <3>4
  <2> HIDE DEF X, p, r
  <2>2. toClient'[s] = p \o r
    BY <1>2 DEF p, r
  <2>3. Range(p \o r) = Range(p) \cup Range(r)
    BY <2>1, RangeConcat
  <2>4. /\ Len(p \o r) = Len(p) + Len(r) /\ Len(p) \in Nat /\ Len(r) \in Nat
        /\ \A i \in 1 .. Len(p) + Len(r) : (p \o r)[i] = IF i <= Len(p) THEN p[i] ELSE r[i - Len(p)]
    BY <2>1, ConcatAt
  <2>5. \A i \in 1 .. Len(p) : (p \o r)[i] = p[i]
    BY <2>4
  <2> QED
    BY <2>1, <2>2, <2>3, <2>4, <2>5 DEF p
<1> HIDE DEF q
<1>14. CommonFirst(s)'
  <2>1. Fork + 1 \in known'[s] => common \subseteq known'[s]
    <3>1. CASE Fork + 1 \in known[s]
      BY <1>2, <1>12, <3>1
    <3>2. CASE Fork + 1 \in Range(v)
      <4>1. PICK i \in 1 .. Len(q) : q[i] = Fork + 1
        BY <1>3, <1>4, <3>2
      <4>2. ASSUME NEW b \in common, b \notin known[s] PROVE b \in Range(v)
        <5>1. PICK h \in 1 .. i - 1 : q[h] = b
          BY <1>12, <4>1, <4>2
        <5>2. h \in 1 .. Len(q)
          <6>1. Len(q) \in Nat
            BY <1>3 DEF q
          <6> QED
            BY <6>1
        <5> QED
          BY <1>3, <1>4, <4>2, <5>1, <5>2
      <4> QED
        BY <1>2, <4>2
    <3> QED
      BY <1>2, <3>1, <3>2
  <2>2. Range(<<>>) = {} /\ Len(<<>>) = 0
    BY DEF Range
  <2>3. ASSUME v # <<>> PROVE v[Len(v)] > Fork
    <3> DEFINE n == Len(v)
               x == v[n]
    <3>1. n \in 1 .. n /\ n \in Nat
      BY <2>3
    <3>2. x \in Range(v) /\ x \in Nat
      <4>1. v[n] \in Has(s)
        BY <3>1
      <4>2. Has(s) \subseteq Main /\ Main \subseteq Nat
        BY HasFacts, BlockFacts DEF DownloadInv
      <4> QED
        BY <1>3, <3>1, <4>1, <4>2
    <3> HIDE DEF n
    <3>3. SUFFICES ASSUME x <= Fork PROVE FALSE
      BY <1>9, <3>2 DEF n
    <3>4. x > Begin(Own) /\ Fork + 1 \in Told(s) /\ x \notin known[s]
      BY <1>4, <1>12, <3>2, <3>3
    <3>5. x \in common
      <4>1. Begin(Own) \in Nat
        <5>1. Own \in Block
          BY DownloadAssumption, SMTT(40) DEF Own, Block, Side, Main
        <5> QED
          BY <5>1, BeginFacts
      <4> QED
        BY <1>9, <3>2, <3>3, <3>4, <4>1
    <3>6. Fork + 1 \in Range(v)
      BY <1>4, <1>12, <3>4, <3>5 DEF Told, q
    <3>7. PICK j \in 1 .. n : v[j] = Fork + 1
      BY <1>3, <3>6 DEF n
    <3>8. PICK i \in 1 .. Len(q) :
            /\ v[j] = q[i]
            /\ \A h \in 1 .. i - 1 : q[h] \notin known[s] => \E k \in 1 .. j - 1 : v[k] = q[h]
      BY <1>4, <3>7 DEF n
    <3>9. PICK h \in 1 .. i - 1 : q[h] = x
      BY <1>12, <3>4, <3>5, <3>7, <3>8
    <3>10. PICK k \in 1 .. j - 1 : v[k] = x
      BY <3>4, <3>8, <3>9
    <3>11. k \in 1 .. n /\ k < n
      BY <3>1
    <3> QED
      BY <1>4, <3>1, <3>10, <3>11 DEF n
  <2>4. \A m \in Range(toClient'[s]) : m.type = "inv" => m.vInv # <<>> /\ m.vInv[Len(m.vInv)] > Fork
    <3>1. [type |-> "inv", vInv |-> v].vInv = v
      OBVIOUS
    <3>2. CASE v = <<>>
      BY <1>12, <1>13, <3>2
    <3>3. CASE v # <<>>
      BY <1>12, <1>13, <2>3, <3>1, <3>3
    <3> QED
      BY <3>2, <3>3
  <2> QED
    BY <1>2, <2>1, <2>2, <2>4 DEF CommonFirst
<1>15. Live(s, e)'
  <2>1. CASE LiveRequest(s, e)
    BY <1>2, <2>1 DEF Live, LiveRequest
  <2>2. CASE LiveBatch(s, e)
    BY <1>2, <1>6, <2>2 DEF Live, LiveBatch
  <2>3. CASE LiveAnnounced(s, e)
    BY <1>2, <1>13, <2>3, AnnouncedPrefix DEF Live
  <2>4. CASE LiveComing(s, e)
    <3>1. LiveComing(s, e)'
      BY <1>2, <1>7, <2>4 DEF LiveComing
    <3> QED
      BY <3>1 DEF Live
  <2> QED
    BY <1>9, <2>1, <2>2, <2>3, <2>4 DEF Goes, Live
<1> QED
  BY <1>10, <1>11, <1>14, <1>15 DEF Goes

LEMMA GetDataGoes ==
    ASSUME DownloadInv, Background, NEW s \in Server, Order(s), Serves(s),
           NEW v \in Seq(Has(s)), v # <<>>, Head(toServer[s]).type = "getdata",
           Of(Head(toServer[s]), "getdata") = v, Answers(s, v),
           NEW e, Gap(s, e)', Gap(s, e) => Goes(s, e)
    PROVE  Goes(s, e)'
<1> DEFINE L == Low(s)
           f == Answered(s, v)[Len(v)]
<1>1. /\ toServer[s] # <<>> /\ toServer'[s] = Tail(toServer[s]) /\ toClient'[s] = f
      /\ index' = index /\ pindexBest' = pindexBest /\ Had' = Had /\ known'[s] = known[s] /\ toSend'[s] = toSend[s]
      /\ hashContinue'[s] = IF hashContinue[s] \in Range(v) THEN 0 ELSE hashContinue[s]
      /\ height' = height /\ lastGetBlocks' = lastGetBlocks /\ AskedFor(s)' = AskedFor(s) /\ Told(s)' = Told(s)
  BY DEF Serves, ClientKept, ChainKept, Answers, Had, AskedFor, Told
<1>2. /\ Follows(v, L, index \cup Sent(s))
      /\ Requests(s) = Range(v) \cup Requests(s)'
  BY <1>1, RequestIsInOrder DEF Requests
<1>3. height[s] \notin L
  BY LowFacts
<1>4. /\ AnswersSoFar(s, v, L, index, index \cup Coming(s), f, Len(v)) /\ f \in Seq(ToClient(s))
      /\ hashContinue[s] \in Range(v) => Continued(f, hashContinue[s], height[s])
  <2>1. /\ Orderly(toClient[s], "block", L, index) /\ Orderly(toClient[s], "inv", L, index \cup Coming(s))
        /\ Once(toClient[s], "inv", L)
    BY DEF Order, InOrder, ToldOnce
  <2> HIDE DEF L
  <2> QED
    BY <1>2, <1>3, <2>1, AnsweredInOrder
<1>5. /\ Sent(s)' = Sent(s) \cup Range(v)
      /\ \A m \in Range(f) : m.type = "inv" => m \in Range(toClient[s]) \/ m.vInv = <<height[s]>>
      /\ Len(toClient[s]) <= Len(f) /\ \A i \in 1 .. Len(toClient[s]) : f[i] = toClient[s][i]
  <2>1. Range(v) = {v[i] : i \in 1 .. Len(v)}
    BY SeqRange
  <2> QED
    BY <1>1, <1>4, <2>1 DEF AnswersSoFar, Sent
<1>6. Len(f) \in Nat /\ Len(toClient[s]) \in Nat
  <2>1. toClient[s] \in Seq(ToClient(s))
    BY QueueFacts DEF Queues
  <2> HIDE DEF f
  <2> QED
    BY <1>4, <2>1
<1>7. Coming(s)' = Coming(s)
  BY <1>1, <1>2, <1>5 DEF Coming
<1> HIDE DEF L, f
<1>8. Gap(s, e)
  BY <1>1 DEF Gap
<1>9. /\ Goes(s, e) /\ e \in Nat /\ Fork \in Nat /\ Fork <= e /\ Tip[s] \in Nat /\ e + 1 <= Tip[s]
      /\ Tip[s] <= height[s] /\ height[s] \in Nat
  <2>1. LowIsTold(s)
    BY DEF Order
  <2> QED
    BY <1>8, <2>1, GapFacts
<1>10. \A m \in Range(toServer[s]) : m.type = "getblocks" => m \in Range(toServer'[s])
  <2>1. toServer[s] \in Seq(ToServer(s))
    BY QueueFacts DEF Queues
  <2>2. Range(toServer[s]) = {Head(toServer[s])} \cup Range(Tail(toServer[s]))
    BY <1>1, <2>1, RangeTail
  <2> QED
    BY <1>1, <2>2
<1>11. Answering(s, e)'
  BY <1>1, <1>9, AnsweringTail DEF Goes
<1>12. LastIsDone(s)'
  BY <1>1, <1>9, <1>10, LastIsDoneStays DEF Goes
<1>13. CommonFirst(s)'
  <2>1. CommonFirst(s)
    BY <1>9 DEF Goes
  <2>2. height[s] > Fork /\ <<height[s]>> # <<>> /\ <<height[s]>>[Len(<<height[s]>>)] = height[s]
    BY <1>9
  <2>3. \A m \in Range(f) : m.type = "inv" =>
            m \in Range(toClient[s]) \/ (m.vInv # <<>> /\ m.vInv[Len(m.vInv)] > Fork)
    BY <1>5, <2>2
  <2> QED
    BY <1>1, <2>1, <2>3, CommonFirstStays
<1>14. Live(s, e)'
  <2>1. CASE LiveRequest(s, e)
    BY <1>10, <2>1 DEF Live, LiveRequest
  <2>2. CASE LiveBatch(s, e) /\ e \notin Range(v)
    BY <1>1, <1>5, <2>2 DEF Live, LiveBatch
  <2>3. CASE LiveBatch(s, e) /\ e \in Range(v)
    <3>1. PICK i \in 1 .. Len(f) : /\ f[i].type = "inv" /\ f[i].vInv = <<height[s]>>
                                   /\ \E h \in 1 .. i - 1 : f[h].type = "block" /\ f[h].block = e
      BY <1>4, <2>3 DEF LiveBatch, Continued
    <3>2. height[s] \in Range(f[i].vInv) /\ height[s] >= Tip[s]
      BY <1>9, <3>1 DEF Range
    <3>3. LiveAnnounced(s, e)'
      BY <1>1, <3>1, <3>2 DEF LiveAnnounced
    <3> QED
      BY <3>3 DEF Live
  <2>4. CASE LiveAnnounced(s, e)
    BY <1>1, <1>5, <1>6, <2>4, AnnouncedPrefix DEF Live
  <2>5. CASE LiveComing(s, e)
    <3>1. LiveComing(s, e)'
      BY <1>1, <1>7, <2>5 DEF LiveComing
    <3> QED
      BY <3>1 DEF Live
  <2> QED
    BY <1>9, <2>1, <2>2, <2>3, <2>4, <2>5 DEF Goes, Live
<1> QED
  BY <1>11, <1>12, <1>13, <1>14 DEF Goes

-----------------------------------------------------------------------------
(* A getblocks is answered from where it starts: what it tells of ends before *)
(* the gap, or is a whole batch, whose last block brings the next one.         *)

\* Where there is a gap after a step there was one before it, at that block or before.
LEMMA OlderGap ==
    ASSUME DownloadInv, Background, NEW s \in Server, LowIsTold(s),
           NEW e \in Fork .. Tip[s] - 1, e + 1 \notin Told(s) \cup Had
    PROVE  \E d \in Main : /\ Gap(s, d) /\ d <= e
                           /\ d = e \/ (e \in Low(s) /\ e \notin Told(s))
<1>1. /\ Fork \in Nat /\ Tip[s] \in 1 .. MaxHeight /\ MaxHeight \in Nat
  BY DownloadAssumption
<1>2. Fork .. Tip[s] - 1 \subseteq Main /\ e \in Nat
  BY <1>1 DEF Main
<1>3. CASE e = Fork \/ e \in Told(s)
  <2>1. Gap(s, e)
    BY <1>3 DEF Gap
  <2> QED
    BY <1>2, <2>1
<1>4. CASE e # Fork /\ e \notin Told(s)
  <2> DEFINE S == {j \in Fork + 1 .. e : j \notin Told(s)}
  <2>1. S \in SUBSET Nat /\ e \in S
    BY <1>1, <1>2, <1>4
  <2>2. PICK j \in S : \A y \in S : j <= y
    BY <2>1, LeastNat
  <2>3. j \in Fork + 1 .. e /\ j \notin Told(s) /\ j \in Nat
    BY <2>1, <2>2
  <2>4. j - 1 \in Fork .. Tip[s] - 1 /\ (j - 1) + 1 = j /\ j - 1 <= e /\ j \in Low(s) /\ e \in Low(s)
    BY <1>1, <1>2, <1>4, <2>3 DEF Low
  <2>5. j - 1 = Fork \/ j - 1 \in Told(s)
    <3>1. SUFFICES ASSUME j - 1 # Fork, j - 1 \notin Told(s) PROVE FALSE
      OBVIOUS
    <3>2. j - 1 \in S /\ ~(j <= j - 1)
      BY <1>1, <1>2, <2>3, <3>1
    <3> QED
      BY <2>2, <3>2
  <2>6. j \notin Had
    <3>1. j \in index => j \in known[s]
      BY <2>4 DEF LowIsTold
    <3>2. j \notin mapOrphanBlocks
      BY <2>4 DEF LowIsTold
    <3> QED
      BY <2>3, <3>1, <3>2 DEF Told, Had
  <2>7. Gap(s, j - 1)
    BY <2>3, <2>4, <2>5, <2>6 DEF Gap
  <2> QED
    BY <1>2, <1>4, <2>4, <2>7
<1> QED
  BY <1>3, <1>4

\* What answers a getblocks.
Served(s, m, begin, n) ==
    /\ Loc(m.locator) /\ begin = Begin(m.locator) /\ n <= nLimit
    /\ \/ n = nLimit /\ hashContinue'[s] = begin + nLimit
       \/ /\ hashContinue'[s] = hashContinue[s]
          /\ \/ begin + n = height[s]
             \/ m.hashStop > begin /\ begin + n = m.hashStop - 1 /\ m.hashStop \in Had /\ m.hashStop > Fork + 1
    /\ begin <= Fork => begin = Begin(Own) /\ Fork + 1 <= begin + n

LEMMA ServedFacts ==
    ASSUME SomeLocatorHelps, DownloadInv, Background, NEW s \in Server, LowIsTold(s),
           NEW m \in GetBlocks, m \in Range(toServer[s]), m.type = "getblocks", Loc(m.locator),
           NEW begin \in Nat, NEW n \in Nat, Tells(s, m, begin, n), NEW d, Gap(s, d)
    PROVE  Served(s, m, begin, n) /\ begin <= d
<1>1. m.locator \in index /\ m.hashStop \in {0} \cup {h \in Had : h > Fork + 1}
  BY DEF Background, AnnouncedArrives, Arrives, AsksFrom
<1>2. /\ begin = GetBlockIndex(s, m.locator) /\ n <= nLimit
      /\ \/ n = nLimit /\ hashContinue'[s] = begin + nLimit
         \/ /\ hashContinue'[s] = hashContinue[s]
            /\ begin + n = height[s] \/ (m.hashStop > begin /\ begin + n = m.hashStop - 1)
  BY DEF Tells
<1>3. /\ begin = Begin(m.locator) /\ begin <= d /\ d \in Nat /\ Fork <= d /\ Fork \in Nat
      /\ d + 1 <= Tip[s] /\ Tip[s] <= height[s] /\ Tip[s] \in Nat /\ height[s] \in Nat
  BY <1>1, <1>2, GapFacts
<1>4. m.hashStop > begin => m.hashStop \in Had /\ m.hashStop > Fork + 1 /\ m.hashStop \in Int
  <2>1. ~(0 > begin)
    OBVIOUS
  <2>2. m.hashStop \in Int
    BY BlockFacts DEF GetBlocks
  <2> QED
    BY <1>1, <2>1, <2>2
<1>5. ASSUME begin <= Fork PROVE begin = Begin(Own) /\ Fork + 1 <= begin + n
  <2>1. m.locator = Own
    <3>1. SUFFICES ASSUME m.locator # Own PROVE FALSE
      OBVIOUS
    <3>2. m.locator > Fork + SideLength /\ SideLength \in Nat /\ m.locator \in Block /\ m.locator \in Int
      BY <3>1, DownloadAssumption, BlockFacts DEF Loc, GetBlocks
    <3>3. m.locator \in Main /\ m.locator > Fork
      BY <1>3, <3>2, BlockFacts
    <3>4. Begin(m.locator) = m.locator
      BY <3>2, <3>3, BeginFacts
    <3> QED
      BY <1>3, <1>5, <3>2, <3>3, <3>4
  <2>2. begin = Begin(Own)
    BY <1>3, <2>1
  <2>3. begin + nLimit > Fork
    <3>1. Reach(Own) > Fork + SideLength /\ SideLength \in Nat /\ nLimit \in Nat
      BY OwnReaches, DownloadAssumption
    <3> QED
      BY <1>3, <2>2, <3>1 DEF Reach
  <2>4. Fork + 1 <= begin + n
    <3>1. nLimit \in Nat
      BY DownloadAssumption
    <3>2. CASE n = nLimit
      BY <1>3, <2>3, <3>1, <3>2
    <3>3. CASE begin + n = height[s]
      BY <1>3, <3>3
    <3>4. CASE m.hashStop > begin /\ begin + n = m.hashStop - 1
      BY <1>3, <1>4, <3>4
    <3> QED
      BY <1>2, <3>2, <3>3, <3>4
  <2> QED
    BY <2>2, <2>4
<1> QED
  BY <1>2, <1>3, <1>4, <1>5 DEF Served

\* A part of a queue that keeps its order.
PicksInOrder(part, q, S) ==
    \A j \in 1 .. Len(part) : \E i \in 1 .. Len(q) :
        /\ part[j] = q[i]
        /\ \A h \in 1 .. i - 1 : q[h] \in S => \E k \in 1 .. j - 1 : part[k] = q[h]

LEMMA KeptInOrder ==
    ASSUME NEW X, NEW q \in Seq(X), NEW S
    PROVE  PicksInOrder(Kept(q, S), q, S)
<1> DEFINE w == Kept(q, S)
<1>1. \A j \in 1 .. Len(w) : \E i \in 1 .. Len(q) :
           /\ w[j] = q[i]
           /\ \A h \in 1 .. i - 1 : q[h] \in S => \E k \in 1 .. j - 1 : w[k] = q[h]
  BY KeptFacts
<1> QED
  BY <1>1 DEF PicksInOrder

LEMMA ServedCommon ==
    ASSUME SomeLocatorHelps, DownloadInv, Background, NEW s \in Server, CommonFirst(s),
           NEW m \in GetBlocks, NEW begin \in Nat, NEW n \in Nat, Tells(s, m, begin, n),
           Served(s, m, begin, n)
    PROVE  CommonFirst(s)'
<1> DEFINE q == toSend[s]
           sent == After(begin, n)
           S == Block \ known[s]
           more == Kept(sent, S)
           T == begin + 1 .. begin + n
           common == Begin(Own) + 1 .. Fork
<1>1. /\ sent \in Seq(Has(s)) /\ Range(sent) = T /\ more \in Seq(Has(s)) /\ Range(more) = T \ known[s]
      /\ toSend'[s] = q \o more /\ Told(s)' = Told(s) \cup T
  <2>1. TellsMore(s, begin, n)
    BY TellsRange
  <2> QED
    BY <2>1 DEF TellsMore
<1>2. known'[s] = known[s] /\ toClient'[s] = toClient[s]
  BY DEF Tells
<1>3. /\ Fork + 1 \in known[s] => common \subseteq known[s]
      /\ \A b \in Range(q) : b <= Fork => b > Begin(Own) /\ Fork + 1 \in Told(s)
      /\ \A i \in 1 .. Len(q) : q[i] = Fork + 1 =>
           \A b \in common : b \in known[s] \/ \E h \in 1 .. i - 1 : q[h] = b
      /\ \A m1 \in Range(toClient[s]) : m1.type = "inv" => m1.vInv # <<>> /\ m1.vInv[Len(m1.vInv)] > Fork
  <2>1. CommonFirst(s)
    OBVIOUS
  <2> QED
    BY <2>1 DEF CommonFirst
<1>4. begin <= Fork => begin = Begin(Own) /\ Fork + 1 <= begin + n
  BY DEF Served
<1>5. /\ q \in Seq(Has(s)) /\ Fork \in Nat /\ Has(s) \subseteq Block
  <2>1. TypeOK
    BY DEF DownloadInv
  <2>2. Has(s) \subseteq Block
    BY <2>1, HasFacts
  <2>3. q \in Seq(Has(s))
    <3>1. /\ mapAskFor[s] \in Seq(Nat \X Has(s)) /\ toSend[s] \in Seq(Has(s))
      BY QueueFacts DEF Queues
    <3> QED
      BY <3>1
  <2> QED
    BY <2>2, <2>3, DownloadAssumption
<1>6. Begin(Own) \in Nat
  BY OwnReaches
<1>7. Len(sent) = n /\ \A i \in 1..n : sent[i] = begin + i
  BY DEF After
<1>8. \A j \in 1 .. Len(more) : \E i \in 1..n :
        /\ more[j] = sent[i]
        /\ \A h \in 1 .. i - 1 : sent[h] \in S => \E k \in 1 .. j - 1 : more[k] = sent[h]
  <2> HIDE DEF sent, S, T
  <2>1. sent \in Seq(Has(s)) /\ Len(sent) = n
    BY <1>1, <1>7
  <2>2. PicksInOrder(Kept(sent, S), sent, S)
    BY <2>1, KeptInOrder
  <2> QED
    BY <2>1, <2>2 DEF PicksInOrder
<1> HIDE DEF q, sent, S, more, common
<1>9. /\ Range(q \o more) = Range(q) \cup Range(more)
      /\ Len(q \o more) = Len(q) + Len(more) /\ Len(q) \in Nat /\ Len(more) \in Nat
      /\ \A i \in 1 .. Len(q) + Len(more) : (q \o more)[i] = IF i <= Len(q) THEN q[i] ELSE more[i - Len(q)]
  BY <1>1, <1>5, ConcatAt, RangeConcat
<1>10. ASSUME NEW b \in Range(toSend'[s]), b <= Fork PROVE b > Begin(Own) /\ Fork + 1 \in Told(s)'
  <2>1. CASE b \in Range(q)
    BY <1>1, <1>3, <1>10, <2>1
  <2>2. CASE b \in Range(more)
    <3>1. b \in T
      BY <1>1, <2>2
    <3>2. begin <= Fork /\ b > begin
      BY <1>5, <1>10, <3>1
    <3>3. Fork + 1 \in T
      BY <1>4, <1>5, <3>2
    <3> QED
      BY <1>1, <1>4, <3>2, <3>3
  <2> QED
    BY <1>1, <1>9, <1>10, <2>1, <2>2
<1>11. ASSUME NEW i \in 1 .. Len(toSend'[s]), toSend'[s][i] = Fork + 1, NEW b \in common, b \notin known[s]
       PROVE  \E h \in 1 .. i - 1 : toSend'[s][h] = b
  <2>1. i \in 1 .. Len(q) + Len(more) /\ (q \o more)[i] = Fork + 1
    BY <1>1, <1>9, <1>11
  <2>2. CASE i <= Len(q)
    <3>1. i \in 1 .. Len(q) /\ q[i] = Fork + 1
      BY <1>9, <2>1, <2>2
    <3>2. PICK h \in 1 .. i - 1 : q[h] = b
      BY <1>3, <1>11, <3>1
    <3>3. h \in 1 .. Len(q) + Len(more) /\ h <= Len(q)
      BY <1>9, <2>2, <3>1
    <3>4. (q \o more)[h] = q[h]
      BY <1>9, <3>3
    <3> QED
      BY <1>1, <3>2, <3>4
  <2>3. CASE ~(i <= Len(q))
    <3> DEFINE j == i - Len(q)
    <3>1. j \in 1 .. Len(more) /\ more[j] = Fork + 1
      BY <1>9, <2>1, <2>3
    <3>2. PICK k \in 1..n :
            /\ more[j] = sent[k]
            /\ \A h \in 1 .. k - 1 : sent[h] \in S => \E l \in 1 .. j - 1 : more[l] = sent[h]
      BY <1>8, <3>1
    <3>3. begin + k = Fork + 1
      BY <1>7, <3>1, <3>2
    <3>4. begin = Begin(Own)
      <4>1. begin <= Fork
        BY <1>5, <3>3
      <4> QED
        BY <1>4, <4>1
    <3>5. b \in begin + 1 .. Fork
      BY <3>4 DEF common
    <3>6. b - begin \in 1 .. k - 1 /\ b - begin \in 1..n /\ begin + (b - begin) = b
      BY <1>5, <3>3, <3>5
    <3>7. sent[b - begin] = b
      BY <1>7, <3>6
    <3>8. b \in S
      <4>1. b \in Range(sent)
        <5>1. b \in T
          BY <1>4, <1>5, <3>3, <3>5
        <5> QED
          BY <1>1, <5>1
      <4>2. Range(sent) \subseteq Has(s)
        BY <1>1, SeqRange
      <4> QED
        BY <1>5, <1>11, <4>1, <4>2 DEF S
    <3>9. PICK l \in 1 .. j - 1 : more[l] = b
      BY <3>2, <3>6, <3>7, <3>8
    <3>10. /\ Len(q) + l \in 1 .. i - 1 /\ Len(q) + l \in 1 .. Len(q) + Len(more)
           /\ ~(Len(q) + l <= Len(q)) /\ (Len(q) + l) - Len(q) = l
      BY <1>9, <2>1, <2>3, <3>1
    <3>11. (q \o more)[Len(q) + l] = b
      BY <1>9, <3>9, <3>10
    <3> QED
      BY <1>1, <3>10, <3>11
  <2> QED
    BY <2>2, <2>3
<1>12. Fork + 1 \in known'[s] => common \subseteq known'[s]
  BY <1>2, <1>3
<1>13. \A i \in 1 .. Len(toSend'[s]) : toSend'[s][i] = Fork + 1 =>
         \A b \in common : b \in known'[s] \/ \E h \in 1 .. i - 1 : toSend'[s][h] = b
  BY <1>2, <1>11
<1>14. \A m1 \in Range(toClient'[s]) : m1.type = "inv" => m1.vInv # <<>> /\ m1.vInv[Len(m1.vInv)] > Fork
  BY <1>2, <1>3
<1> QED
  BY <1>10, <1>12, <1>13, <1>14 DEF CommonFirst, common

LEMMA ServedReaches ==
    ASSUME DownloadInv, Background, NEW s \in Server, LowIsTold(s), NEW d, Gap(s, d),
           NEW m \in GetBlocks, NEW begin \in Nat, NEW n \in Nat, Served(s, m, begin, n), begin <= d
    PROVE  \A b \in begin + 1 .. begin + nLimit :
             /\ b <= Tip[s] /\ (m.hashStop = 0 \/ m.hashStop <= begin \/ b < m.hashStop) => b <= begin + n
<1>1. /\ Tip[s] \in Nat /\ Tip[s] <= height[s] /\ height[s] \in Nat /\ nLimit \in Nat
  BY GapFacts, DownloadAssumption
<1>2. m.hashStop \in Int
  BY BlockFacts DEF GetBlocks
<1>3. \/ n = nLimit
      \/ begin + n = height[s]
      \/ m.hashStop > begin /\ begin + n = m.hashStop - 1
  BY DEF Served
<1> QED
  BY <1>1, <1>2, <1>3

LEMMA ServedGap ==
    ASSUME SomeLocatorHelps, DownloadInv, Background, NEW s \in Server, Order(s), Serves(s),
           NEW m \in GetBlocks, m.type = "getblocks", m = Head(toServer[s]),
           NEW begin \in Nat, NEW n \in Nat, Served(s, m, begin, n), TellsMore(s, begin, n),
           NEW d, Gap(s, d), Goes(s, d), begin <= d, NEW e, Gap(s, e)',
           d # e => d <= e /\ e \in Low(s) /\ e \notin Told(s)
    PROVE  /\ e \in Nat /\ Answering(s, e)
           /\ d = e => ~Beyond(m, e) /\ (hashContinue'[s] = e \/ hashContinue'[s] = hashContinue[s])
           /\ d # e => hashContinue'[s] = e /\ e \notin Had /\ e \notin Sent(s)
<1>1. LowIsTold(s)
  BY DEF Order
<1>2. /\ d \in Nat /\ Tip[s] \in Nat /\ Tip[s] <= height[s] /\ height[s] \in Nat /\ Fork \in Nat
      /\ nLimit \in Nat
  BY <1>1, GapFacts, DownloadAssumption
<1>3. e \in Nat /\ e + 1 <= Tip[s] /\ e + 1 \notin Told(s)' /\ e + 1 \notin Had
  BY <1>2 DEF Gap, Serves, ClientKept, ChainKept, Had
<1>4. Told(s)' = Told(s) \cup (begin + 1 .. begin + n)
  BY DEF TellsMore
<1>5. begin <= e /\ begin + n <= e
  BY <1>2, <1>3, <1>4
<1>6. /\ Reach(m.locator) = begin + nLimit /\ Loc(m.locator)
      /\ m.hashStop \in Int
  BY BlockFacts DEF Served, Reach, GetBlocks
<1>7. \/ n = nLimit /\ hashContinue'[s] = begin + nLimit
      \/ /\ hashContinue'[s] = hashContinue[s]
         /\ \/ begin + n = height[s]
            \/ m.hashStop > begin /\ begin + n = m.hashStop - 1 /\ m.hashStop \in Had
  BY DEF Served
<1>8. begin + n # height[s]
  BY <1>2, <1>3, <1>5
<1>9. Answering(s, d)
  BY DEF Goes
<1>10. /\ toServer[s] \in Seq(ToServer(s)) /\ toServer[s] # <<>>
  <2>1. /\ mapAskFor[s] \in Seq(Nat \X Has(s)) /\ toServer[s] \in Seq(ToServer(s))
    BY QueueFacts DEF Queues
  <2> QED
    BY <2>1 DEF Serves
<1>11. 1 \in 1 .. Len(toServer[s]) /\ toServer[s][1] = m
  BY <1>10
<1>12. d <= Reach(m.locator)
  BY <1>9, <1>11 DEF Answering
<1>13. CASE d = e
  <2>1. ~Beyond(m, e)
    BY <1>2, <1>3, <1>5, <1>6, <1>7, <1>8 DEF Beyond
  <2>2. hashContinue'[s] = e \/ hashContinue'[s] = hashContinue[s]
    BY <1>2, <1>3, <1>5, <1>6, <1>7, <1>12, <1>13
  <2> QED
    BY <1>3, <1>9, <1>13, <2>1, <2>2
<1>14. CASE d # e
  <2>1. d <= e /\ e \in Low(s) /\ e \notin Told(s)
    BY <1>14
  <2>2. e \in Told(s)'
    <3>1. e # Fork
      BY <1>2, <2>1 DEF Low
    <3> QED
      BY <3>1 DEF Gap
  <2>3. e = begin + n
    BY <1>3, <1>4, <1>5, <2>1, <2>2
  <2>4. n = nLimit /\ hashContinue'[s] = e /\ e = Reach(m.locator)
    BY <1>3, <1>6, <1>7, <1>8, <2>3
  <2>5. e \notin Had /\ e \notin Sent(s)
    BY <1>1, <2>1 DEF LowIsTold, Told, Had, Coming
  <2>6. e <= Reach(pindexBest)
    <3>1. Reach(m.locator) <= Reach(pindexBest)
      BY <1>6, BestReaches DEF Background
    <3> QED
      BY <2>4, <3>1
  <2>7. \A i \in 1 .. Len(toServer[s]) : toServer[s][i].type = "getblocks" =>
          Loc(toServer[s][i].locator) /\ e <= Reach(toServer[s][i].locator)
    <3>1. SUFFICES ASSUME NEW i \in 1 .. Len(toServer[s]), toServer[s][i].type = "getblocks"
                   PROVE  Loc(toServer[s][i].locator) /\ e <= Reach(toServer[s][i].locator)
      OBVIOUS
    <3>2. Loc(toServer[s][i].locator)
      BY <1>9, <3>1 DEF Answering
    <3>3. CASE i = 1
      BY <1>11, <2>4, <3>2, <3>3, <1>3
    <3>4. CASE i # 1
      <4>1. 1 \in 1 .. i - 1
        BY <1>10, <3>4
      <4> QED
        BY <1>9, <1>11, <2>4, <3>1, <3>2, <4>1 DEF Answering
    <3> QED
      BY <3>3, <3>4
  <2>8. Answering(s, e)
    BY <1>9, <2>6, <2>7 DEF Answering
  <2> QED
    BY <1>3, <1>14, <2>4, <2>5, <2>8
<1> QED
  BY <1>13, <1>14

LEMMA GetBlocksGoes ==
    ASSUME SomeLocatorHelps, DownloadInv, Background, NEW s \in Server, Order(s), Serves(s),
           NEW m \in GetBlocks, m.type = "getblocks", m = Head(toServer[s]),
           NEW begin \in Nat, NEW n \in Nat, Tells(s, m, begin, n),
           NEW e, Gap(s, e)', \A d \in Main : Gap(s, d) => Goes(s, d)
    PROVE  Goes(s, e)'
<1>1. LowIsTold(s)
  BY DEF Order
<1>2. TellsMore(s, begin, n)
  BY TellsRange
<1>3. /\ Told(s) \subseteq Told(s)' /\ toServer'[s] = Tail(toServer[s]) /\ toServer[s] # <<>>
      /\ toClient'[s] = toClient[s] /\ known'[s] = known[s] /\ index' = index /\ pindexBest' = pindexBest
      /\ Had' = Had /\ lastGetBlocks' = lastGetBlocks /\ AskedFor(s)' = AskedFor(s) /\ height' = height
  BY <1>2 DEF TellsMore, Serves, ClientKept, ChainKept, Had, AskedFor, Tells
<1>4. e \in Fork .. Tip[s] - 1 /\ e + 1 \notin Told(s) \cup Had
  BY <1>3 DEF Gap
<1>5. PICK d \in Main : Gap(s, d) /\ d <= e /\ (d = e \/ (e \in Low(s) /\ e \notin Told(s)))
  BY <1>1, <1>4, OlderGap
<1>6. Goes(s, d)
  BY <1>5
<1>7. /\ toServer[s] \in Seq(ToServer(s))
  <2>1. /\ mapAskFor[s] \in Seq(Nat \X Has(s)) /\ toServer[s] \in Seq(ToServer(s))
    BY QueueFacts DEF Queues
  <2> QED
    BY <2>1
<1>8. Range(toServer[s]) = {m} \cup Range(toServer'[s])
  BY <1>3, <1>7, RangeTail
<1>9. Loc(m.locator)
  <2>1. 1 \in 1 .. Len(toServer[s]) /\ toServer[s][1] = m
    BY <1>3, <1>7
  <2> QED
    BY <1>6, <2>1 DEF Goes, Answering
<1>10. Served(s, m, begin, n) /\ begin <= d
  BY <1>1, <1>5, <1>8, <1>9, ServedFacts
<1>11. d # e => d <= e /\ e \in Low(s) /\ e \notin Told(s)
  BY <1>5
<1>12. /\ e \in Nat /\ Answering(s, e)
       /\ d = e => ~Beyond(m, e) /\ (hashContinue'[s] = e \/ hashContinue'[s] = hashContinue[s])
       /\ d # e => hashContinue'[s] = e /\ e \notin Had /\ e \notin Sent(s)
  BY <1>2, <1>5, <1>6, <1>10, <1>11, ServedGap
<1>13. Answering(s, e)'
  BY <1>3, <1>12, AnsweringTail
<1>14. LastIsDone(s)'
  <2> DEFINE l == lastGetBlocks[s]
             Filled(x, stop) ==
                 \A b \in Begin(x) + 1 .. Reach(x) :
                     b <= Tip[s] /\ (stop = 0 \/ stop <= Begin(x) \/ b < stop) => b \in Told(s)' \cup Had'
  <2>1. SUFFICES ASSUME l # <<>>
                 PROVE  \/ Filled(l[1], l[2])
                        \/ \E m1 \in Range(toServer'[s]) : m1.type = "getblocks" /\ m1.locator = l[1] /\ m1.hashStop = l[2]
    BY <1>3 DEF LastIsDone, Done, Begin, Reach
  <2>2. CASE Done(s, l[1], l[2])
    BY <1>3, <2>2 DEF Done
  <2>3. ASSUME NEW m1 \in Range(toServer[s]), m1.type = "getblocks", m1.locator = l[1], m1.hashStop = l[2], m1 = m
        PROVE  Filled(l[1], l[2])
    <3>1. /\ begin = Begin(l[1]) /\ Reach(l[1]) = begin + nLimit /\ l[2] = m.hashStop
      BY <1>10, <2>3 DEF Served, Reach
    <3>2. \A b \in begin + 1 .. begin + nLimit :
            b <= Tip[s] /\ (m.hashStop = 0 \/ m.hashStop <= begin \/ b < m.hashStop) => b <= begin + n
      BY <1>1, <1>5, <1>10, ServedReaches
    <3>3. begin + 1 .. begin + n \subseteq Told(s)'
      BY <1>2 DEF TellsMore
    <3>4. nLimit \in Nat
      BY DownloadAssumption
    <3>5. \A b \in begin + 1 .. begin + nLimit :
            b <= Tip[s] /\ (l[2] = 0 \/ l[2] <= begin \/ b < l[2]) => b \in Told(s)'
      BY <3>1, <3>2, <3>3, <3>4
    <3> HIDE DEF l
    <3> QED
      BY <3>1, <3>5
  <2>4. LastIsDone(s)
    BY <1>6 DEF Goes
  <2> HIDE DEF Filled
  <2> QED
    BY <1>8, <2>1, <2>2, <2>3, <2>4 DEF LastIsDone
<1>15. CommonFirst(s)'
  <2>1. CommonFirst(s)
    BY <1>6 DEF Goes
  <2> QED
    BY <1>10, <2>1, ServedCommon
<1>16. Sent(s)' = Sent(s) /\ (d = e => Live(s, e))
  BY <1>3, <1>6 DEF Sent, Goes
<1>17. Coming(s)' = Coming(s)
  <2>1. Of(m, "getdata") = <<>>
    BY DEF Of
  <2>2. Requests(s)' = Requests(s)
    <3>1. Range(Of(m, "getdata")) = {}
      BY <2>1 DEF Range
    <3>2. Carried(toServer[s], "getdata") = Carried(toServer'[s], "getdata")
      BY <1>8, <3>1 DEF Carried
    <3> QED
      BY <3>2 DEF Requests
  <2> QED
    BY <1>3, <1>16, <2>2 DEF Coming
<1>18. Live(s, e)'
  <2>1. CASE d # e
    BY <1>3, <1>12, <1>16, <2>1 DEF Live, LiveBatch
  <2>2. CASE d = e /\ LiveRequest(s, e)
    <3>1. ~Beyond(m, e)
      BY <1>12, <2>2
    <3>2. LiveRequest(s, e)'
      BY <1>8, <2>2, <3>1 DEF LiveRequest
    <3> QED
      BY <3>2 DEF Live
  <2>3. CASE d = e /\ LiveBatch(s, e)
    BY <1>3, <1>12, <1>16, <2>3 DEF Live, LiveBatch
  <2>4. CASE d = e /\ LiveAnnounced(s, e)
    BY <1>3, <2>4 DEF Live, LiveAnnounced
  <2>5. CASE d = e /\ LiveComing(s, e)
    <3>1. LiveComing(s, e)'
      BY <1>3, <1>17, <2>5 DEF LiveComing
    <3> QED
      BY <3>1 DEF Live
  <2> QED
    BY <1>16, <2>1, <2>2, <2>3, <2>4, <2>5 DEF Live
<1> QED
  BY <1>13, <1>14, <1>15, <1>18 DEF Goes

LEMMA ServerReceiveGoes ==
    ASSUME SomeLocatorHelps, DownloadInv, Background, NEW s \in Server, Order(s), ServerReceive(s),
           NEW e, Gap(s, e)', \A d \in Main : Gap(s, d) => Goes(s, d)
    PROVE  Goes(s, e)'
<1> DEFINE m == Head(toServer[s])
<1>1. /\ Serves(s) /\ m \in ToServer(s)
      /\ \/ /\ m.type = "getblocks" /\ m \in GetBlocks
            /\ \E begin \in Nat, n \in Nat : Tells(s, m, begin, n)
         \/ m.type = "getdata" /\ m.vInv \in Seq(Has(s)) \ {<<>>} /\ Answers(s, m.vInv)
         \/ m.type = "inv" /\ m.vInv \in Seq(Block) /\ Learns(s, m.vInv)
  BY ServerReceiveDoes
<1>2. m \in Range(toServer[s])
  <2>1. /\ mapAskFor[s] \in Seq(Nat \X Has(s)) /\ toServer[s] \in Seq(ToServer(s))
    BY QueueFacts DEF Queues
  <2>2. toServer[s] # <<>>
    BY <1>1 DEF Serves
  <2> QED
    BY <2>1, <2>2, RangeTail
<1>3. m.type = "getdata" => Of(Head(toServer[s]), "getdata") = m.vInv
  BY DEF Of
<1>4. m.type = "inv" => Range(m.vInv) \subseteq Had
  BY <1>2 DEF Background, AnnouncedArrives, Arrives
<1>5. m = Head(toServer[s])
  OBVIOUS
<1>6. \A d : Gap(s, d) => d \in Main
  <2>1. LowIsTold(s)
    BY DEF Order
  <2>2. \A d : Gap(s, d) => d \in Fork .. Tip[s] - 1
    BY DEF Gap
  <2> QED
    BY <2>2, DownloadAssumption DEF Main
<1>7. Gap(s, e) => Goes(s, e)
  BY <1>6
<1> HIDE DEF m
<1>8. ASSUME m.type = "getblocks", m \in GetBlocks, NEW begin \in Nat, NEW n \in Nat, Tells(s, m, begin, n)
      PROVE  Goes(s, e)'
  BY <1>1, <1>5, <1>8, GetBlocksGoes
<1>9. ASSUME m.type = "getdata", m.vInv \in Seq(Has(s)) \ {<<>>}, Answers(s, m.vInv) PROVE Goes(s, e)'
  <2>1. /\ Of(Head(toServer[s]), "getdata") = m.vInv /\ Serves(s) /\ m.vInv \in Seq(Has(s)) /\ m.vInv # <<>>
        /\ Head(toServer[s]).type = "getdata"
    BY <1>1, <1>3, <1>5, <1>9
  <2> QED
    BY <1>7, <1>9, <2>1, GetDataGoes
<1>10. ASSUME m.type = "inv", m.vInv \in Seq(Block), Learns(s, m.vInv) PROVE Goes(s, e)'
  <2>1. Serves(s) /\ Range(m.vInv) \subseteq Had /\ Head(toServer[s]).type = "inv"
    BY <1>1, <1>4, <1>5, <1>10
  <2> QED
    BY <1>7, <1>10, <2>1, LearnGoes
<1> QED
  BY <1>1, <1>8, <1>9, <1>10

-----------------------------------------------------------------------------
(* The first getblocks, and any step. *)

LEMMA VersionGoes ==
    ASSUME SomeLocatorHelps, DownloadInv, NEW s \in Server, Version(s), Fresh, Silent(s),
           NEW e, Gap(s, e)'
    PROVE  Goes(s, e)'
<1> DEFINE m == [type |-> "getblocks", locator |-> Own, hashStop |-> 0]
<1>1. Greets(s)
  BY VersionDoes
<1>2. /\ index' = index /\ pindexBest' = Own /\ known'[s] = {} /\ toSend'[s] = toSend[s] /\ toClient'[s] = <<>>
      /\ \A b \in Range(toSend[s]) : b > Tip[s]
  BY <1>1 DEF Greets, ServerKept, Fresh, Silent
<1>3. toServer'[s] = <<m>> /\ lastGetBlocks'[s] = <<Own, 0>>
  <2>1. /\ pindexBest = Own /\ nAskedForBlocks = 0 /\ toServer[s] = <<>> /\ lastGetBlocks[s] = <<>>
    BY DEF Fresh, Silent
  <2>2. <<>> # <<Own, 0>>
    OBVIOUS
  <2>3. lastGetBlocks'[s] = <<Own, 0>> /\ toServer'[s] = <<>> \o <<m>>
    BY <1>1, <2>1, <2>2 DEF Greets
  <2> HIDE DEF m
  <2>4. <<>> \o <<m>> = <<m>>
    OBVIOUS
  <2> QED
    BY <2>3, <2>4
<1>4. /\ Own \in index /\ Own \in Block /\ Reach(Own) > Fork + SideLength /\ SideLength \in Nat /\ Fork \in Nat
      /\ Tip[s] \in Nat /\ Reach(Own) \in Int
  <2>1. Own \in index
    BY DEF Fresh, DownloadInv, TypeOK
  <2>2. Begin(Own) \in Nat /\ Own \in Block /\ Reach(Own) > Fork + SideLength
    BY OwnReaches
  <2>3. Reach(Own) \in Int
    BY <2>2, DownloadAssumption DEF Reach
  <2> QED
    BY <2>1, <2>2, <2>3, DownloadAssumption
<1>5. e = Fork /\ Fork + 1 <= Tip[s]
  <2>1. e \in Fork .. Tip[s] - 1 /\ (e = Fork \/ e \in Told(s)')
    BY DEF Gap
  <2>2. \A b \in Told(s)' : b > Tip[s]
    BY <1>2 DEF Told
  <2> QED
    BY <1>4, <2>1, <2>2
<1>6. Range(toServer'[s]) = {m} /\ Len(toServer'[s]) = 1 /\ toServer'[s][1] = m
  BY <1>3 DEF Range
<1>7. Live(s, e)'
  <2>1. Beyond(m, Fork)
    BY <1>4 DEF Beyond
  <2>2. LiveRequest(s, e)'
    BY <1>5, <1>6, <2>1 DEF LiveRequest
  <2> QED
    BY <2>2 DEF Live
<1>8. Answering(s, e)'
  <2>1. Fork <= Reach(Own)
    BY <1>4
  <2>2. Loc(Own)'
    BY <1>2, <1>4 DEF Loc
  <2> QED
    BY <1>2, <1>5, <1>6, <2>1, <2>2 DEF Answering, Loc
<1>9. LastIsDone(s)'
  BY <1>3, <1>6 DEF LastIsDone
<1>10. CommonFirst(s)'
  <2>1. toSend[s] \in Seq(Has(s))
    <3>1. /\ mapAskFor[s] \in Seq(Nat \X Has(s)) /\ toSend[s] \in Seq(Has(s))
      BY QueueFacts DEF Queues
    <3> QED
      BY <3>1
  <2>2. \A i \in 1 .. Len(toSend[s]) : toSend[s][i] \in Range(toSend[s])
    BY <2>1, SeqRange
  <2>3. Range(toClient'[s]) = {}
    BY <1>2 DEF Range
  <2>4. \A b \in Range(toSend'[s]) : ~(b <= Fork) /\ b # Fork + 1
    <3>2. Range(toSend[s]) \subseteq Has(s)
      BY <2>1, SeqRange
    <3>3. Has(s) \subseteq Block
      <4>1. TypeOK
        BY DEF DownloadInv
      <4> QED
        BY <4>1, HasFacts
    <3>4. Range(toSend[s]) \subseteq Int
      BY <3>2, <3>3, BlockFacts
    <3>5. \A b \in Range(toSend[s]) : b \in Int /\ b > Tip[s]
      BY <1>2, <3>4
    <3>6. \A b \in Range(toSend[s]) : ~(b <= Fork) /\ b # Fork + 1
      BY <1>4, <1>5, <3>5
    <3> QED
      BY <1>2, <3>6
  <2> QED
    BY <1>2, <2>2, <2>3, <2>4 DEF CommonFirst
<1> QED
  BY <1>7, <1>8, <1>9, <1>10 DEF Goes

LEMMA GoesNext ==
    ASSUME SomeLocatorHelps, DownloadInv, DownloadInv', Background, Background', NEW s \in Server,
           StepsAlone(s), Alone(s) => Order(s) /\ \A d \in Main : Gap(s, d) => Goes(s, d),
           NEW e \in Main, Gap(s, e)'
    PROVE  Goes(s, e)'
<1>1. CASE Version(s) /\ Fresh /\ Silent(s)
  BY <1>1, VersionGoes
<1>2. ASSUME Alone(s) PROVE Order(s) /\ (\A d \in Main : Gap(s, d) => Goes(s, d)) /\ (Gap(s, e) => Goes(s, e))
  BY <1>2
<1>3. CASE Alone(s) /\ UNCHANGED vars
  BY <1>2, <1>3, GoesOfOthers DEF vars, chain, asking, server
<1>4. CASE Alone(s) /\ Tick
  BY <1>2, <1>4, TickGoes
<1>5. ASSUME Alone(s), NEW t \in Server, t # s, NewBlock(t) PROVE Goes(s, e)'
  <2>1. PICK v \in Seq(Main) : Finds(t, v)
    BY <1>5, NewBlockDoes
  <2>2. /\ UNCHANGED <<index, pindexBest, mapOrphanBlocks>> /\ mapAskFor'[s] = mapAskFor[s]
        /\ toServer'[s] = toServer[s] /\ toClient'[s] = toClient[s] /\ hashContinue'[s] = hashContinue[s]
        /\ lastGetBlocks'[s] = lastGetBlocks[s] /\ height'[s] = height[s]
        /\ known'[s] = known[s] /\ toSend'[s] = toSend[s]
    BY <1>5, <2>1 DEF Finds, OthersKept, ClientKept, ChainKept
  <2>3. Gap(s, e) => Goes(s, e)
    BY <1>2, <1>5
  <2> QED
    BY <2>2, <2>3, GoesOfOthers
<1>6. CASE Alone(s) /\ ClientReceive(s)
  <2>1. Order(s) /\ (Gap(s, e) => Goes(s, e))
    BY <1>2, <1>6
  <2> QED
    BY <1>6, <2>1, ReceiveInvGoes, ReceiveBlockGoes
<1>7. CASE Alone(s) /\ ClientSend(s)
  BY <1>2, <1>7, ClientSendGoes
<1>8. CASE Alone(s) /\ ServerReceive(s)
  BY <1>2, <1>8, ServerReceiveGoes
<1>9. CASE Alone(s) /\ ServerSend(s)
  BY <1>2, <1>9, ServerSendGoes
<1>10. CASE Alone(s) /\ NewBlock(s)
  BY <1>2, <1>10, NewBlockGoes
<1> QED
  BY <1>1, <1>3, <1>4, <1>5, <1>6, <1>7, <1>8, <1>9, <1>10 DEF StepsAlone

LEMMA ProgressNext ==
    ASSUME SomeLocatorHelps, DownloadInv, DownloadInv', Background, Background', NothingForgotten, Progress,
           [Next]_vars
    PROVE  Progress'
<1>1. SUFFICES ASSUME NEW s \in Server, Alone(s)'
               PROVE  Order(s)' /\ \A e \in Main : Gap(s, e)' => Goes(s, e)'
  BY DEF Progress
<1>2. StepsAlone(s)
  BY <1>1, AloneSteps
<1>3. Alone(s) => Order(s) /\ \A e \in Main : Gap(s, e) => Goes(s, e)
  BY DEF Progress
<1>4. Order(s)'
  BY <1>2, <1>3, OrderNext
<1>5. ASSUME NEW e \in Main, Gap(s, e)' PROVE Goes(s, e)'
  BY <1>2, <1>3, <1>5, GoesNext
<1> QED
  BY <1>4, <1>5

LEMMA ProgressInit ==
    ASSUME Init
    PROVE  Progress
<1>1. \A s \in Server : ~Alone(s)
  BY DEF Init, Alone
<1> QED
  BY <1>1 DEF Progress

\* What the locators have to do with it is only how far a getblocks reaches.
DownloadIsInOrder == \A s \in Server : Alone(s) => Order(s)

\* The loops over inv, mapAskFor and getdata, and the filters of PushInventory and
\* setInventoryKnown, keep the order: while one peer alone has shaken hands, the new blocks
\* below its height at the start are announced once, one after the other, so that
\* AddOrphanBlock never sees one of them.
THEOREM BlocksComeInOrder == Spec => []DownloadIsInOrder
<1> DEFINE Inv == DownloadInv /\ NothingForgotten /\ Background /\ DownloadIsInOrder
<1>1. Init => Inv
  <2>1. Init => DownloadIsInOrder
    BY ProgressInit DEF Progress, DownloadIsInOrder
  <2> QED
    BY <2>1, DownloadInit, BackgroundInit
<1>2. Inv /\ [Next]_vars => Inv'
  <2>1. SUFFICES ASSUME Inv, [Next]_vars PROVE Inv'
    OBVIOUS
  <2>2. (DownloadInv /\ NothingForgotten)'
    BY <2>1, DownloadNext
  <2>3. Background'
    BY <2>1, <2>2, BackgroundNext
  <2>4. ASSUME NEW s \in Server, Alone(s)' PROVE Order(s)'
    <3>1. StepsAlone(s)
      BY <2>1, <2>4, AloneSteps
    <3>2. Alone(s) => Order(s)
      BY <2>1 DEF DownloadIsInOrder
    <3> QED
      BY <2>1, <2>2, <3>1, <3>2, OrderNext
  <2>5. DownloadIsInOrder'
    BY <2>4 DEF DownloadIsInOrder
  <2> QED
    BY <2>2, <2>3, <2>5
<1> QED
  BY <1>1, <1>2, PTL DEF Spec

-----------------------------------------------------------------------------
(* At rest. *)

LEMMA AtRestHasAll ==
    ASSUME SomeLocatorHelps, DownloadInv, Background, NothingForgotten, NEW s \in Server, Order(s),
           \A d \in Main : Gap(s, d) => Goes(s, d), s \in connected, AtRest(s)
    PROVE  Fork + 1 .. height[s] \subseteq Had
<1>1. toServer[s] = <<>> /\ toClient[s] = <<>> /\ toSend[s] = <<>> /\ mapAskFor[s] = <<>>
  BY DEF AtRest
<1>2. Range(<<>>) = {}
  BY DEF Range
<1>3. Coming(s) = {} /\ Announced(s) = {} /\ Told(s) = known[s]
  <2>1. \A type : Carried(<<>>, type) = {}
    BY <1>2 DEF Carried
  <2>2. Blocks(<<>>) = <<>>
    BY DEF Blocks
  <2> QED
    BY <1>1, <1>2, <2>1, <2>2 DEF Coming, Sent, Requests, AskedFor, Announced, Told
<1>4. Told(s) \subseteq Had
  <2>1. \A b \in known[s] : b \in Had \cup setInventoryKnown[s] \cup Announced(s)
    BY DEF Background, AnnouncedArrives, Arrives
  <2>2. \A b \in setInventoryKnown[s] : b \in Had \/ Underway(s, b)
    BY DEF NothingForgotten, AlreadyHave
  <2>3. \A b : Underway(s, b) => b \in Coming(s)
    BY UnderwayIsComing
  <2> QED
    BY <1>3, <2>1, <2>2, <2>3
<1>5. /\ Fork \in index /\ Tip[s] \in Nat /\ Tip[s] <= height[s] /\ height[s] \in Nat /\ Fork \in Nat
  BY LowFacts
<1>6. ASSUME NEW d \in Main, Gap(s, d) PROVE FALSE
  <2>1. Live(s, d)
    BY <1>6 DEF Goes
  <2>2. d \in Had
    BY <1>4, <1>5, <1>6 DEF Gap, Had
  <2>3. ~LiveRequest(s, d) /\ ~LiveComing(s, d) /\ ~LiveBatch(s, d)
    BY <1>1, <1>2, <1>3, <2>2 DEF LiveRequest, LiveComing, LiveBatch
  <2>4. ~LiveAnnounced(s, d)
    BY <1>1 DEF LiveAnnounced
  <2> QED
    BY <2>1, <2>3, <2>4 DEF Live
<1>7. ASSUME NEW e \in Fork .. Tip[s] - 1 PROVE e + 1 \in Had
  <2>1. SUFFICES ASSUME e + 1 \notin Had PROVE FALSE
    OBVIOUS
  <2>2. e + 1 \notin Told(s) \cup Had
    BY <1>4, <2>1
  <2>3. LowIsTold(s)
    BY DEF Order
  <2> QED
    BY <1>6, <2>2, <2>3, OlderGap
<1>8. Tip[s] + 1 .. height[s] \subseteq Had
  BY <1>4 DEF Background, FoundAreTold, Found
<1>9. SUFFICES ASSUME NEW b \in Fork + 1 .. height[s] PROVE b \in Had
  OBVIOUS
<1>10. CASE b <= Tip[s]
  <2>1. b - 1 \in Fork .. Tip[s] - 1 /\ (b - 1) + 1 = b
    BY <1>5, <1>10
  <2> QED
    BY <1>7, <2>1
<1>11. CASE ~(b <= Tip[s])
  BY <1>5, <1>8, <1>11
<1> QED
  BY <1>10, <1>11

LEMMA AtRestIsHigh ==
    ASSUME DownloadInv, Background, NEW s \in Server, Fork + 1 .. height[s] \subseteq Had
    PROVE  nHeight(pindexBest) >= height[s]
<1>1. /\ Fork \in index /\ height[s] \in Nat /\ Fork \in Nat
  BY LowFacts
<1>2. /\ index \subseteq Block /\ pindexBest \in index /\ height[s] \in Main
  BY BlockFacts DEF DownloadInv, TypeOK
<1>3. \A b \in index : nHeight(b) <= nHeight(pindexBest)
  BY DEF DownloadInv, ChainIsLinked
<1>4. Fork + 1 .. height[s] \subseteq index
  <2> DEFINE S == {j \in Fork + 1 .. height[s] : j \notin index}
  <2>1. SUFFICES ASSUME NEW b \in S PROVE FALSE
    OBVIOUS
  <2>2. S \in SUBSET Nat
    BY <1>1
  <2>3. PICK j \in S : \A y \in S : j <= y
    BY <2>1, <2>2, LeastNat
  <2>4. j \in Fork + 1 .. height[s] /\ j \notin index /\ j \in Nat
    BY <1>1, <2>3
  <2>5. j \in mapOrphanBlocks
    BY <2>4 DEF Had
  <2>6. j \in Main /\ j # 0
    BY <1>1, <1>2, <2>4, DownloadAssumption DEF Main
  <2>7. Prev(j) = j - 1
    BY <2>6, BlockFacts
  <2>8. j - 1 \notin index
    BY <2>5, <2>7 DEF DownloadInv, ChainIsLinked
  <2>9. j - 1 # Fork
    BY <1>1, <2>8
  <2>10. j - 1 \in S /\ ~(j <= j - 1)
    BY <1>1, <2>4, <2>8, <2>9
  <2> QED
    BY <2>3, <2>10
<1>5. CASE height[s] <= Fork
  BY <1>1, <1>2, <1>3, <1>5, BlockFacts
<1>6. CASE ~(height[s] <= Fork)
  <2>1. height[s] \in index
    BY <1>1, <1>4, <1>6
  <2> QED
    BY <1>1, <1>2, <1>3, <2>1, BlockFacts
<1> QED
  BY <1>5, <1>6

\* The first download completes: while one peer alone has shaken hands, a rest of
\* mapAskFor, getdata, getblocks, inv and block comes only at that peer's height.  The
\* hashContinue of PushGetBlocks' answer brings every further batch, AddOrphanBlock and
\* GetOrphanRoot what a block found meanwhile leaves out, and the filter of duplicate
\* requests holds back none that is still needed.
THEOREM FirstDownloadCompletes ==
    ASSUME SomeLocatorHelps
    PROVE  Spec => []DownloadCompletes
<1> DEFINE Inv == DownloadInv /\ NothingForgotten /\ Background /\ Progress
<1>1. Init => Inv
  BY DownloadInit, BackgroundInit, ProgressInit
<1>2. Inv /\ [Next]_vars => Inv'
  <2>1. SUFFICES ASSUME Inv, [Next]_vars PROVE Inv'
    OBVIOUS
  <2>2. (DownloadInv /\ NothingForgotten)'
    BY <2>1, DownloadNext
  <2>3. Background'
    BY <2>1, <2>2, BackgroundNext
  <2> QED
    BY <2>1, <2>2, <2>3, ProgressNext
<1>3. Inv => DownloadCompletes
  <2>1. SUFFICES ASSUME Inv, NEW s \in Server, connected = Server, greeted = {s}, AtRest(s)
                 PROVE  nHeight(pindexBest) >= height[s]
    BY DEF DownloadCompletes
  <2>2. Order(s) /\ \A e \in Main : Gap(s, e) => Goes(s, e)
    BY <2>1 DEF Progress, Alone
  <2>3. Fork + 1 .. height[s] \subseteq Had
    BY <2>1, <2>2, AtRestHasAll
  <2> QED
    BY <2>1, <2>3, AtRestIsHigh
<1> QED
  BY <1>1, <1>2, <1>3, PTL DEF Spec
=============================================================================
