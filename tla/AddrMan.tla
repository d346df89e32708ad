------------------------------ MODULE AddrMan -------------------------------
(***************************************************************************)
(* The address manager: CAddrMan of addrman.cpp and addrman.h, and its     *)
(* file peers.dat (CAddrDB of db.cpp).                                     *)
(*                                                                         *)
(* Every method holds CAddrMan::cs, so a method is one action.  Addresses  *)
(* are kept in buckets chosen by a keyed hash: an address nobody has       *)
(* connected to is in one or more "new" buckets and counts them, one that  *)
(* was connected to is in one "tried" bucket, and a random permutation of  *)
(* all of them serves getaddr.  Four indexes (mapInfo, mapAddr, vRandom and *)
(* the buckets) must stay in step.                                         *)
(*                                                                         *)
(* The clock is left out: which entry of a full new bucket goes, and       *)
(* whether a known address gets another reference, depend on times and     *)
(* random numbers, so every outcome is allowed.                            *)
(***************************************************************************)
EXTENDS Integers, Sequences, FiniteSets

CONSTANTS
    Service,        \* CService: an address with its port
    NetAddr,        \* CNetAddr: addresses without a port, also the sources
    host,           \* [Service -> NetAddr]
    GetTriedBucket, \* [Service -> 0 .. ADDRMAN_TRIED_BUCKET_COUNT - 1]
    GetNewBucket,   \* [Service -> [NetAddr -> 0 .. ADDRMAN_NEW_BUCKET_COUNT - 1]]
    Time,           \* the times at which a connection may succeed
    MaxId,          \* bound on nIdCount
    MaxDump,        \* bound on nIdCount while peers.dat is written
    ADDRMAN_TRIED_BUCKET_COUNT, ADDRMAN_TRIED_BUCKET_SIZE,
    ADDRMAN_NEW_BUCKET_COUNT, ADDRMAN_NEW_BUCKET_SIZE,
    ADDRMAN_NEW_BUCKETS_PER_ADDRESS,
    ADDRMAN_TRIED_ENTRIES_INSPECT_ON_EVICT,
    ADDRMAN_GETADDR_MAX_PCT

TriedBucket == 0 .. ADDRMAN_TRIED_BUCKET_COUNT - 1
NewBucket   == 0 .. ADDRMAN_NEW_BUCKET_COUNT - 1

ASSUME AddrManAssumption ==
    /\ host \in [Service -> NetAddr]
    /\ GetTriedBucket \in [Service -> TriedBucket]
    /\ GetNewBucket \in [Service -> [NetAddr -> NewBucket]]
    /\ Time \subseteq Nat \ {0} /\ MaxId \in Nat /\ MaxDump \in Nat
    /\ ADDRMAN_TRIED_BUCKET_COUNT \in Nat \ {0} /\ ADDRMAN_NEW_BUCKET_COUNT \in Nat \ {0}
    /\ ADDRMAN_TRIED_BUCKET_SIZE \in Nat \ {0} /\ ADDRMAN_NEW_BUCKET_SIZE \in Nat \ {0}
    /\ ADDRMAN_NEW_BUCKETS_PER_ADDRESS \in Nat \ {0}
    /\ ADDRMAN_TRIED_ENTRIES_INSPECT_ON_EVICT \in Nat \ {0}
    /\ ADDRMAN_GETADDR_MAX_PCT \in 0..100

VARIABLES
    nIdCount, mapInfo, mapAddr, vRandom, nTried, vvTried, nNew, vvNew,
    peers       \* the contents of peers.dat, NoFile if there is none

tables == <<nIdCount, mapInfo, mapAddr, vRandom, nTried, vvTried, nNew, vvNew>>
vars == <<tables, peers>>

Id == 0 .. MaxId - 1

CAddrInfo == [addr : Service, source : NetAddr, nLastSuccess : Time \cup {0},
              nRefCount : 0 .. ADDRMAN_NEW_BUCKET_COUNT, fInTried : BOOLEAN,
              nRandomPos : 1 .. MaxId]

\* The type invariant.
TypeOK ==
    /\ nIdCount \in 0 .. MaxId
    /\ DOMAIN mapInfo \subseteq Id /\ \A n \in DOMAIN mapInfo : mapInfo[n] \in CAddrInfo
    /\ DOMAIN mapAddr \subseteq NetAddr /\ \A h \in DOMAIN mapAddr : mapAddr[h] \in Id
    /\ vRandom \in Seq(Id) /\ nTried \in Nat /\ nNew \in Nat
    /\ vvTried \in [TriedBucket -> Seq(Id)]
    /\ vvNew \in [NewBucket -> SUBSET Id]

NoFile == [vNew |-> <<>>, vTried |-> <<>>, vvNew |-> [b \in NewBucket |-> {}]]

Init ==
    /\ nIdCount = 0 /\ mapInfo = <<>> /\ mapAddr = <<>> /\ vRandom = <<>>
    /\ nTried = 0 /\ vvTried = [k \in TriedBucket |-> <<>>]
    /\ nNew = 0 /\ vvNew = [b \in NewBucket |-> {}]
    /\ peers = NoFile

-----------------------------------------------------------------------------
Without(f, x) == [y \in DOMAIN f \ {x} |-> f[y]]

\* The indexes that creating, swapping and deleting entries change together.
Index == [info |-> mapInfo, addr |-> mapAddr, random |-> vRandom, new |-> nNew]
Become(I) == mapInfo' = I.info /\ mapAddr' = I.addr /\ vRandom' = I.random /\ nNew' = I.new

\* Mutant: the entry that moves keeps its old position.
SwapRandomOnly(I, i, j) ==
    [I EXCEPT !.random = [@ EXCEPT ![i] = I.random[j], ![j] = I.random[i]]]

SwapRandom(I, i, j) ==
    IF i = j THEN I
    ELSE [I EXCEPT !.random = [@ EXCEPT ![i] = I.random[j], ![j] = I.random[i]],
                   !.info[I.random[i]].nRandomPos = j,
                   !.info[I.random[j]].nRandomPos = i]

Create(a, s, n) ==
    [info   |-> [m \in DOMAIN mapInfo \cup {n} |->
                    IF m # n THEN mapInfo[m]
                    ELSE [addr |-> a, source |-> s, nLastSuccess |-> 0, nRefCount |-> 0,
                          fInTried |-> FALSE, nRandomPos |-> Len(vRandom) + 1]],
     addr   |-> [h \in DOMAIN mapAddr \cup {host[a]} |->
                    IF h = host[a] THEN n ELSE mapAddr[h]],
     random |-> Append(vRandom, n),
     new    |-> nNew + 1]

\* Mutant: the entry stays in mapAddr.
DeleteFromInfo(I, n) ==
    LET J == SwapRandom(I, I.info[n].nRandomPos, Len(I.random))
    IN  [info   |-> Without(J.info, n), addr |-> J.addr,
         random |-> SubSeq(J.random, 1, Len(J.random) - 1), new |-> J.new - 1]

\* ShrinkNew deletes an entry that has lost its last reference.
Delete(I, n) ==
    LET J == SwapRandom(I, I.info[n].nRandomPos, Len(I.random))
    IN  [info   |-> Without(J.info, n),
         addr   |-> Without(J.addr, host[I.info[n].addr]),
         random |-> SubSeq(J.random, 1, Len(J.random) - 1),
         new    |-> J.new - 1]

\* ShrinkNew takes n out of a bucket.
ShrinkNew(I, n) ==
    LET J == [I EXCEPT !.info[n].nRefCount = @ - 1]
    IN  IF J.info[n].nRefCount = 0 THEN Delete(J, n) ELSE J

\* Mutant: a full bucket is not shrunk.
EnterNewGrowing(I, n, b) ==
    IF n \in vvNew[b] THEN Become(I) /\ UNCHANGED vvNew
    ELSE /\ Become([I EXCEPT !.info[n].nRefCount = @ + 1])
         /\ vvNew' = [vvNew EXCEPT ![b] = @ \cup {n}]

\* The end of Add_: n enters bucket b, from which another entry goes if it is full.
EnterNew(I, n, b) ==
    IF n \in vvNew[b] THEN Become(I) /\ UNCHANGED vvNew
    ELSE LET J == [I EXCEPT !.info[n].nRefCount = @ + 1]
         IN  IF Cardinality(vvNew[b]) = ADDRMAN_NEW_BUCKET_SIZE
             THEN \E m \in vvNew[b] :
                    /\ Become(ShrinkNew(J, m))
                    /\ vvNew' = [vvNew EXCEPT ![b] = (@ \ {m}) \cup {n}]
             ELSE Become(J) /\ vvNew' = [vvNew EXCEPT ![b] = @ \cup {n}]

\* Add_ for an address whose host is not known yet.
AddUnknown(a, s) ==
    /\ host[a] \notin DOMAIN mapAddr /\ nIdCount < MaxId
    /\ EnterNew(Create(a, s, nIdCount), nIdCount, GetNewBucket[a][s])
    /\ nIdCount' = nIdCount + 1
    /\ UNCHANGED <<nTried, vvTried, peers>>

\* Add_ for a known one, when the stochastic test lets it gain a reference.
AddKnown(a, s) ==
    /\ host[a] \in DOMAIN mapAddr
    /\ LET n == mapAddr[host[a]]
       IN  /\ ~mapInfo[n].fInTried
           /\ mapInfo[n].nRefCount # ADDRMAN_NEW_BUCKETS_PER_ADDRESS
           /\ EnterNew(Index, n, GetNewBucket[mapInfo[n].addr][s])
    /\ UNCHANGED <<nIdCount, nTried, vvTried, peers>>

-----------------------------------------------------------------------------
(***************************************************************************)
(* Good_: a connection to a succeeded at time t.                           *)
(***************************************************************************)
\* SelectTried on bucket v: r[i] is the i-th random position.  The first few
\* entries are swapped with random ones; the position returned is the one at
\* which the least recent of the random ones was found before its swap.
SelectTried(v, r) ==
    LET shuffled[i \in 0 .. Len(r)] ==
            IF i = 0 THEN v
            ELSE [shuffled[i - 1] EXCEPT ![r[i]] = shuffled[i - 1][i],
                                         ![i] = shuffled[i - 1][r[i]]]
        seen(i) == mapInfo[shuffled[i - 1][r[i]]].nLastSuccess
        oldest  == CHOOSE i \in DOMAIN r :
                     /\ \A j \in DOMAIN r : seen(i) <= seen(j)
                     /\ \A j \in 1 .. i - 1 : seen(j) # seen(i)
    IN  [vTried |-> shuffled[Len(r)], nPos |-> r[oldest]]

\* The sequences of random positions SelectTried may draw for a bucket of size n.
Draws(n) ==
    LET k == IF n < ADDRMAN_TRIED_ENTRIES_INSPECT_ON_EVICT
             THEN n ELSE ADDRMAN_TRIED_ENTRIES_INSPECT_ON_EVICT
    IN  {r \in [1..k -> 1..n] : \A i \in 1..k : r[i] >= i}

\* Mutant: the references of n are not counted down.
LeaveNewCounted(n, t) == [mapInfo EXCEPT ![n].nLastSuccess = t]

\* n leaves the new buckets; a connection was made at time t.
LeaveNew(n, t) ==
    [mapInfo EXCEPT ![n].nLastSuccess = t,
                    ![n].nRefCount = @ - Cardinality({b \in NewBucket : n \in vvNew[b]})]

\* MakeTried when the tried bucket k has room ...
AppendTried(n, k, t) ==
    /\ Len(vvTried[k]) < ADDRMAN_TRIED_BUCKET_SIZE
    /\ vvTried' = [vvTried EXCEPT ![k] = Append(@, n)]
    /\ mapInfo' = [LeaveNew(n, t) EXCEPT ![n].fInTried = TRUE]
    /\ vvNew' = [b \in NewBucket |-> vvNew[b] \ {n}]
    /\ nTried' = nTried + 1 /\ nNew' = nNew - 1

\* Mutant: the evicted entry goes back to its own new bucket, full or not.
EvictTriedAnyway(n, k, origin, t) ==
    /\ Len(vvTried[k]) >= ADDRMAN_TRIED_BUCKET_SIZE
    /\ \E r \in Draws(Len(vvTried[k])) :
       LET S   == SelectTried(vvTried[k], r)
           old == S.vTried[S.nPos]
           u   == GetNewBucket[mapInfo[old].addr][mapInfo[old].source]
       IN  /\ vvTried' = [vvTried EXCEPT ![k] = [S.vTried EXCEPT ![S.nPos] = n]]
           /\ mapInfo' = [LeaveNew(n, t) EXCEPT ![old].fInTried = FALSE, ![old].nRefCount = 1,
                                                ![n].fInTried = TRUE]
           /\ vvNew' = [b \in NewBucket |-> IF b = u THEN (vvNew[b] \ {n}) \cup {old}
                                                     ELSE vvNew[b] \ {n}]
    /\ UNCHANGED <<nTried, nNew>>

\* Mutant: the evicted entry keeps fInTried.
EvictTriedKeepingFlag(n, k, origin, t) ==
    /\ Len(vvTried[k]) >= ADDRMAN_TRIED_BUCKET_SIZE
    /\ \E r \in Draws(Len(vvTried[k])) :
       LET S   == SelectTried(vvTried[k], r)
           old == S.vTried[S.nPos]
       IN  /\ vvTried' = [vvTried EXCEPT ![k] = [S.vTried EXCEPT ![S.nPos] = n]]
           /\ mapInfo' = [LeaveNew(n, t) EXCEPT ![old].nRefCount = 1, ![n].fInTried = TRUE]
           /\ vvNew' = [b \in NewBucket |-> IF b = origin THEN (vvNew[b] \ {n}) \cup {old}
                                                          ELSE vvNew[b] \ {n}]
    /\ UNCHANGED <<nTried, nNew>>

\* Mutant: the evicted entry is not counted as new.
EvictTriedUncounted(n, k, origin, t) ==
    /\ Len(vvTried[k]) >= ADDRMAN_TRIED_BUCKET_SIZE
    /\ \E r \in Draws(Len(vvTried[k])) :
       LET S   == SelectTried(vvTried[k], r)
           old == S.vTried[S.nPos]
       IN  /\ vvTried' = [vvTried EXCEPT ![k] = [S.vTried EXCEPT ![S.nPos] = n]]
           /\ mapInfo' = [LeaveNew(n, t) EXCEPT ![old].fInTried = FALSE, ![old].nRefCount = 1,
                                                ![n].fInTried = TRUE]
           /\ vvNew' = [b \in NewBucket |-> IF b = origin THEN (vvNew[b] \ {n}) \cup {old}
                                                          ELSE vvNew[b] \ {n}]
    /\ nNew' = nNew - 1 /\ UNCHANGED nTried

\* Mutant: the evicted entry is forgotten.
EvictTriedForGood(n, k, origin, t) ==
    /\ Len(vvTried[k]) >= ADDRMAN_TRIED_BUCKET_SIZE
    /\ \E r \in Draws(Len(vvTried[k])) :
       LET S == SelectTried(vvTried[k], r)
       IN  /\ vvTried' = [vvTried EXCEPT ![k] = [S.vTried EXCEPT ![S.nPos] = n]]
           /\ mapInfo' = [LeaveNew(n, t) EXCEPT ![n].fInTried = TRUE]
    /\ vvNew' = [b \in NewBucket |-> vvNew[b] \ {n}]
    /\ nNew' = nNew - 1
    /\ UNCHANGED nTried

\* ... and when it is full: an entry of it returns to the new bucket of its own
\* source, or to the bucket n comes from if that one is full.
EvictTried(n, k, origin, t) ==
    /\ Len(vvTried[k]) >= ADDRMAN_TRIED_BUCKET_SIZE
    /\ \E r \in Draws(Len(vvTried[k])) :
       LET S   == SelectTried(vvTried[k], r)
           old == S.vTried[S.nPos]
           u   == GetNewBucket[mapInfo[old].addr][mapInfo[old].source]
           to  == IF Cardinality(vvNew[u] \ {n}) < ADDRMAN_NEW_BUCKET_SIZE THEN u ELSE origin
       IN  /\ vvTried' = [vvTried EXCEPT ![k] = [S.vTried EXCEPT ![S.nPos] = n]]
           /\ mapInfo' = [LeaveNew(n, t) EXCEPT ![old].fInTried = FALSE, ![old].nRefCount = 1,
                                                ![n].fInTried = TRUE]
           /\ vvNew' = [b \in NewBucket |-> IF b = to THEN (vvNew[b] \ {n}) \cup {old}
                                                      ELSE vvNew[b] \ {n}]
    /\ UNCHANGED <<nTried, nNew>>

Good(a, t) ==
    /\ host[a] \in DOMAIN mapAddr
    /\ LET n == mapAddr[host[a]]
       IN  /\ mapInfo[n].addr = a
           /\ IF mapInfo[n].fInTried
              THEN /\ mapInfo' = [mapInfo EXCEPT ![n].nLastSuccess = t]
                   /\ UNCHANGED <<nTried, vvTried, nNew, vvNew>>
              ELSE \E origin \in NewBucket :
                      /\ n \in vvNew[origin]
                      /\ \/ AppendTried(n, GetTriedBucket[a], t)
                         \/ EvictTried(n, GetTriedBucket[a], origin, t)
    /\ UNCHANGED <<nIdCount, mapAddr, vRandom, peers>>

-----------------------------------------------------------------------------
\* GetAddr_ shuffles the first entries of vRandom and returns them; r[i] is the
\* i-th random position.
GetAddr ==
    LET nNodes == (ADDRMAN_GETADDR_MAX_PCT * Len(vRandom)) \div 100
    IN  /\ nNodes > 0
        /\ \E r \in [1..nNodes -> 1..Len(vRandom)] :
              LET I[i \in 0..nNodes] == IF i = 0 THEN Index ELSE SwapRandom(I[i - 1], i, r[i])
              IN  (\A i \in 1..nNodes : r[i] >= i) /\ Become(I[nNodes])
        /\ UNCHANGED <<nIdCount, nTried, vvTried, vvNew, peers>>

-----------------------------------------------------------------------------
(***************************************************************************)
(* peers.dat: ThreadDumpAddress writes it from time to time, by renaming a *)
(* complete file into place, and a start reads it.                         *)
(***************************************************************************)
\* The rank of n in a set of ids, and the set in increasing order.
Rank(S, n) == Cardinality({m \in S : m <= n})
InOrder(S) == [i \in 1 .. Cardinality(S) |-> CHOOSE n \in S : Rank(S, n) = i]
Kept(n)    == [addr |-> mapInfo[n].addr, source |-> mapInfo[n].source,
               nLastSuccess |-> mapInfo[n].nLastSuccess]

\* Mutant: the index counts every entry.
SerializeByRank ==
    LET new   == {n \in DOMAIN mapInfo : mapInfo[n].nRefCount > 0}
        tried == {n \in DOMAIN mapInfo : mapInfo[n].fInTried}
    IN  [vNew   |-> [i \in 1 .. Cardinality(new) |-> Kept(InOrder(new)[i])],
         vTried |-> [i \in 1 .. Cardinality(tried) |-> Kept(InOrder(tried)[i])],
         vvNew  |-> [b \in NewBucket |-> {Rank(DOMAIN mapInfo, n) : n \in vvNew[b]}]]

\* What is written: the new entries, then the tried ones, then for each new
\* bucket the indexes of its entries.
Serialize ==
    LET new   == {n \in DOMAIN mapInfo : mapInfo[n].nRefCount > 0}
        tried == {n \in DOMAIN mapInfo : mapInfo[n].fInTried}
    IN  [vNew   |-> [i \in 1 .. Cardinality(new) |-> Kept(InOrder(new)[i])],
         vTried |-> [i \in 1 .. Cardinality(tried) |-> Kept(InOrder(tried)[i])],
         vvNew  |-> [b \in NewBucket |-> {Rank(new, n) : n \in vvNew[b]}]]

\* What is rebuilt from it.  A tried entry whose bucket is full is lost.
Unserialize(f) ==
    LET count   == Len(f.vNew)
        bucket(i)  == GetTriedBucket[f.vTried[i].addr]
        fits(i) == Cardinality({j \in 1 .. i - 1 : bucket(j) = bucket(i)})
                     < ADDRMAN_TRIED_BUCKET_SIZE
        kept    == InOrder({i \in DOMAIN f.vTried : fits(i)})
        total   == count + Len(kept)
        entry(n) == IF n < count THEN f.vNew[n + 1] ELSE f.vTried[kept[n - count + 1]]
        bucketsOf(n) == {b \in NewBucket : n + 1 \in f.vvNew[b]}
        taken(n) == {b \in bucketsOf(n) :
                        Cardinality({c \in bucketsOf(n) : c < b})
                          < ADDRMAN_NEW_BUCKETS_PER_ADDRESS}
        inBucket(k) == InOrder({n \in count .. total - 1 : GetTriedBucket[entry(n).addr] = k})
    IN  [nIdCount |-> total,
         mapInfo  |-> [n \in 0 .. total - 1 |->
                        [addr |-> entry(n).addr, source |-> entry(n).source,
                         nLastSuccess |-> entry(n).nLastSuccess,
                         nRefCount |-> IF n < count THEN Cardinality(taken(n)) ELSE 0,
                         fInTried |-> n >= count, nRandomPos |-> n + 1]],
         mapAddr  |-> [h \in {host[entry(n).addr] : n \in 0 .. total - 1} |->
                        CHOOSE n \in 0 .. total - 1 : host[entry(n).addr] = h],
         vRandom  |-> [i \in 1 .. total |-> i - 1],
         nTried   |-> Len(kept), nNew |-> count,
         vvTried  |-> [k \in TriedBucket |-> inBucket(k)],
         vvNew    |-> [b \in NewBucket |-> {n \in 0 .. count - 1 : b \in taken(n)}]]

DumpAddresses == nIdCount <= MaxDump /\ nIdCount > 0 /\ peers' = Serialize /\ UNCHANGED tables

\* A crash or a shutdown, and the start that reads peers.dat; with no file the
\* tables start empty.
Restart ==
    /\ LET L == Unserialize(peers)
       IN  /\ nIdCount' = L.nIdCount /\ mapInfo' = L.mapInfo /\ mapAddr' = L.mapAddr
           /\ vRandom' = L.vRandom /\ nTried' = L.nTried /\ nNew' = L.nNew
           /\ vvTried' = L.vvTried /\ vvNew' = L.vvNew
    /\ UNCHANGED peers

Next ==
    \/ \E a \in Service, s \in NetAddr : AddUnknown(a, s) \/ AddKnown(a, s)
    \/ \E a \in Service, t \in Time : Good(a, t)
    \/ GetAddr
    \/ DumpAddresses
    \/ Restart

Spec == Init /\ [][Next]_vars

-----------------------------------------------------------------------------
(***************************************************************************)
(* What must hold: Check_ and the assertions and comments of the code.     *)
(***************************************************************************)
Occurs(n, v) == {i \in DOMAIN v : v[i] = n}
New == {n \in DOMAIN mapInfo : ~mapInfo[n].fInTried}

\* Check_ -2, -3, -4, -12 and -15: an entry that is not tried is in exactly
\* nRefCount new buckets, at least one and at most the limit, and a tried one in
\* none.  It makes the assertion of MakeTried true and its "something bad
\* happened" branch dead.
RefCountIsExact ==
    /\ \A n \in DOMAIN mapInfo :
          mapInfo[n].nRefCount = Cardinality({b \in NewBucket : n \in vvNew[b]})
    /\ \A n \in New : mapInfo[n].nRefCount \in 1 .. ADDRMAN_NEW_BUCKETS_PER_ADDRESS
    /\ \A n \in DOMAIN mapInfo \ New : mapInfo[n].nRefCount = 0
    /\ \A b \in NewBucket : vvNew[b] \subseteq DOMAIN mapInfo

\* Check_ -11 and -13, -1: a tried entry is once in the bucket its hash names,
\* and was connected to.
TriedIsPlaced ==
    \A n \in Id, k \in TriedBucket :
        /\ Cardinality(Occurs(n, vvTried[k])) =
             (IF n \in DOMAIN mapInfo \ New /\ k = GetTriedBucket[mapInfo[n].addr] THEN 1 ELSE 0)
        /\ n \in DOMAIN mapInfo \ New => mapInfo[n].nLastSuccess # 0

\* Check_ -5: mapAddr finds every entry by its host and nothing else.
AddrIsIndexed ==
    /\ \A h \in DOMAIN mapAddr : /\ mapAddr[h] \in DOMAIN mapInfo
                                 /\ host[mapInfo[mapAddr[h]].addr] = h
    /\ \A n \in DOMAIN mapInfo : LET h == host[mapInfo[n].addr]
                                 IN  h \in DOMAIN mapAddr /\ mapAddr[h] = n

\* Check_ -14, -7, -9 and -10: vRandom is a permutation of the entries, each knows
\* its place in it, and the two counters count them.
RandomIsPermutation ==
    /\ \A n \in DOMAIN mapInfo : /\ mapInfo[n].nRandomPos \in DOMAIN vRandom
                                 /\ vRandom[mapInfo[n].nRandomPos] = n
    /\ Len(vRandom) = Cardinality(DOMAIN mapInfo)
    /\ nNew = Cardinality(New) /\ nTried = Cardinality(DOMAIN mapInfo \ New)

\* No bucket outgrows its limit, although MakeTried puts an evicted entry into
\* the bucket the other came from without looking ("there is certainly place").
BucketsAreBounded ==
    /\ \A b \in NewBucket : Cardinality(vvNew[b]) <= ADDRMAN_NEW_BUCKET_SIZE
    /\ \A k \in TriedBucket : Len(vvTried[k]) <= ADDRMAN_TRIED_BUCKET_SIZE

\* Writing peers.dat and reading it back gives the same tables, up to the ids
\* and the random order.
Content(info, tried, new) ==
    [tried |-> {info[n].addr : n \in {m \in DOMAIN info : info[m].fInTried}},
     new   |-> [b \in NewBucket |-> {info[n].addr : n \in new[b]}],
     order |-> [k \in TriedBucket |-> {info[tried[k][i]].addr : i \in DOMAIN tried[k]}],
     seen  |-> {<<info[n].addr, info[n].nLastSuccess, info[n].nRefCount>> : n \in DOMAIN info}]
DumpRestores ==
    LET L == Unserialize(Serialize)
    IN  Content(L.mapInfo, L.vvTried, L.vvNew) = Content(mapInfo, vvTried, vvNew)

\* "They are never deleted while in the tried table, only possibly evicted back
\* to the new table" (the comment on ShrinkNew): they always stay in some bucket.
TriedIsNotDeleted ==
    [][\A n \in DOMAIN mapInfo \ New :
         \/ Restart
         \/ n \in DOMAIN mapInfo' /\ \/ \E k \in TriedBucket : Occurs(n, vvTried'[k]) # {}
                                     \/ \E b \in NewBucket : n \in vvNew'[b]]_vars

\* An eviction takes the least recently tried of several inspected entries, so
\* never the one that was tried last of all (the comments on SelectTried).
NewestIsNotEvicted ==
    [][\A k \in TriedBucket : \A n \in DOMAIN mapInfo :
         ~Restart /\ Occurs(n, vvTried[k]) # {} /\ Occurs(n, vvTried'[k]) = {}
           => \E i \in DOMAIN vvTried[k] :
                vvTried[k][i] # n /\ mapInfo[vvTried[k][i]].nLastSuccess >= mapInfo[n].nLastSuccess]_vars
=============================================================================
