--------------------------- MODULE AddrManProofs ---------------------------
(***************************************************************************)
(* The five structures of the address manager agree, through every call,   *)
(* every file written and every restart: theorems about AddrMan for tables *)
(* of any size.                                                            *)
(***************************************************************************)
EXTENDS AddrMan, FiniteSetTheorems, SequenceTheorems, WellFoundedInduction,
        NaturalsInduction, TLAPS

Tried(info)   == {n \in DOMAIN info : info[n].fInTried}
Untried(info) == DOMAIN info \ Tried(info)
Refs(new, n)  == {b \in NewBucket : n \in new[b]}
BucketOf(info, n) == GetTriedBucket[info[n].addr]

Entry == [addr : Service, source : NetAddr, nLastSuccess : Time \cup {0},
          nRefCount : Int, fInTried : BOOLEAN, nRandomPos : Int]

\* addr finds each entry by its host, and nothing else.
Named(I) ==
    /\ \A h \in DOMAIN I.addr : I.addr[h] \in DOMAIN I.info /\ host[I.info[I.addr[h]].addr] = h
    /\ \A n \in DOMAIN I.info : LET h == host[I.info[n].addr]
                                IN  h \in DOMAIN I.addr /\ I.addr[h] = n

IsIndex(I) == I = [info |-> I.info, addr |-> I.addr, random |-> I.random, new |-> I.new]

\* mapInfo, mapAddr, vRandom and nNew agree: addr finds each entry by its host,
\* and the random order and the places in it are inverse to each other.
InStep(I) ==
    /\ IsIndex(I)
    /\ DOMAIN I.info \subseteq Id /\ \A n \in DOMAIN I.info : I.info[n] \in Entry
    /\ Named(I)
    /\ I.random \in Seq(DOMAIN I.info)
    /\ Len(I.random) = Cardinality(DOMAIN I.info)
    /\ \A n \in DOMAIN I.info : /\ I.info[n].nRandomPos \in DOMAIN I.random
                                /\ I.random[I.info[n].nRandomPos] = n
    /\ \A i \in DOMAIN I.random : I.info[I.random[i]].nRandomPos = i
    /\ I.new = Cardinality(Untried(I.info))

\* The new buckets hold what is not tried, each entry as often as it counts.
NewInStep(info, new) ==
    /\ new \in [NewBucket -> SUBSET Untried(info)]
    /\ \A b \in NewBucket : Cardinality(new[b]) <= ADDRMAN_NEW_BUCKET_SIZE
    /\ \A n \in DOMAIN info : info[n].nRefCount = Cardinality(Refs(new, n))
    /\ \A n \in Untried(info) : info[n].nRefCount \in 1 .. ADDRMAN_NEW_BUCKETS_PER_ADDRESS

\* v lists the elements of S, each once.
Lists(v, S) ==
    /\ v \in Seq(S)
    /\ \A n \in S : \E i \in DOMAIN v : v[i] = n
    /\ \A i, j \in DOMAIN v : v[i] = v[j] => i = j

\* A tried bucket lists the tried entries whose hash names it.
TriedInStep(info, tried) ==
    /\ DOMAIN tried = TriedBucket /\ tried = [k \in TriedBucket |-> tried[k]]
    /\ \A k \in TriedBucket : /\ Lists(tried[k], {n \in Tried(info) : BucketOf(info, n) = k})
                              /\ Len(tried[k]) <= ADDRMAN_TRIED_BUCKET_SIZE
    /\ \A n \in Tried(info) : info[n].nLastSuccess # 0

\* A record of peers.dat, and a file from which the tables can be rebuilt.
Record == [addr : Service, source : NetAddr, nLastSuccess : Time \cup {0}]
HostAt(f, i) == host[f[i].addr]
FileInStep(f) ==
    /\ f.vNew \in Seq(Record) /\ f.vTried \in Seq(Record)
    /\ Len(f.vNew) + Len(f.vTried) <= MaxId
    /\ \A i, j \in DOMAIN f.vNew : HostAt(f.vNew, i) = HostAt(f.vNew, j) => i = j
    /\ \A i, j \in DOMAIN f.vTried : HostAt(f.vTried, i) = HostAt(f.vTried, j) => i = j
    /\ \A i \in DOMAIN f.vNew, j \in DOMAIN f.vTried : HostAt(f.vNew, i) # HostAt(f.vTried, j)
    /\ \A i \in DOMAIN f.vTried : f.vTried[i].nLastSuccess # 0
    /\ f.vvNew \in [NewBucket -> SUBSET DOMAIN f.vNew]
    /\ \A b \in NewBucket : Cardinality(f.vvNew[b]) <= ADDRMAN_NEW_BUCKET_SIZE
    /\ \A i \in DOMAIN f.vNew :
          Cardinality(Refs(f.vvNew, i)) \in 1 .. ADDRMAN_NEW_BUCKETS_PER_ADDRESS

\* The inductive invariant.
Inv ==
    /\ nIdCount \in 0 .. MaxId /\ DOMAIN mapInfo \subseteq 0 .. nIdCount - 1
    /\ InStep(Index)
    /\ NewInStep(mapInfo, vvNew)
    /\ TriedInStep(mapInfo, vvTried) /\ nTried = Cardinality(Tried(mapInfo))
    /\ FileInStep(peers)
-----------------------------------------------------------------------------
(***************************************************************************)
(* Sets of entries and of buckets are finite.                              *)
(***************************************************************************)
LEMMA BucketsFinite ==
    /\ IsFiniteSet(NewBucket) /\ Cardinality(NewBucket) = ADDRMAN_NEW_BUCKET_COUNT
    /\ \A S \in SUBSET NewBucket : /\ IsFiniteSet(S) /\ Cardinality(S) \in Nat
                                   /\ Cardinality(S) <= ADDRMAN_NEW_BUCKET_COUNT
<1>1. IsFiniteSet(NewBucket) /\ Cardinality(NewBucket) = ADDRMAN_NEW_BUCKET_COUNT
  <2> DEFINE c == ADDRMAN_NEW_BUCKET_COUNT
  <2>1. c \in Nat /\ c > 0
    BY AddrManAssumption
  <2>2. IsFiniteSet(0 .. c - 1)
        /\ Cardinality(0 .. c - 1) = IF 0 > c - 1 THEN 0 ELSE (c - 1) - 0 + 1
    BY <2>1, FS_Interval
  <2> QED
    BY <2>1, <2>2 DEF NewBucket
<1> QED
  BY <1>1, FS_Subset, FS_CardinalityType

LEMMA IdsFinite ==
    ASSUME NEW S \in SUBSET Id
    PROVE  IsFiniteSet(S) /\ Cardinality(S) \in Nat /\ Cardinality(S) <= MaxId
<1>1. MaxId \in Nat
  BY AddrManAssumption
<1>2. IsFiniteSet(Id) /\ Cardinality(Id) = MaxId
  <2>1. IsFiniteSet(0 .. MaxId - 1)
        /\ Cardinality(0 .. MaxId - 1) = IF 0 > MaxId - 1 THEN 0 ELSE (MaxId - 1) - 0 + 1
    BY <1>1, FS_Interval
  <2> QED
    BY <1>1, <2>1 DEF Id
<1> QED
  BY <1>2, FS_Subset, FS_CardinalityType

\* One element more or less, and none.
LEMMA OneMore ==
    ASSUME NEW S, NEW x, IsFiniteSet(S)
    PROVE  /\ IsFiniteSet(S \cup {x}) /\ IsFiniteSet(S \ {x})
           /\ Cardinality(S) \in Nat
           /\ x \notin S => Cardinality(S \cup {x}) = Cardinality(S) + 1
           /\ x \in S => Cardinality(S \ {x}) = Cardinality(S) - 1
           /\ x \notin S => S \ {x} = S
           /\ Cardinality(S) = 0 <=> S = {}
BY FS_AddElement, FS_RemoveElement, FS_CardinalityType, FS_EmptySet

-----------------------------------------------------------------------------
(***************************************************************************)
(* The operations on the index.                                            *)
(***************************************************************************)
\* What an entry is to the buckets.
SameEntry(e, f) == /\ f.addr = e.addr /\ f.source = e.source /\ f.fInTried = e.fInTried
                   /\ f.nLastSuccess = e.nLastSuccess /\ f.nRefCount = e.nRefCount

\* Entry e at place i.
At(e, i) == [e EXCEPT !.nRandomPos = i]

\* The EXCEPTs on an index change one field each.
LEMMA SetField ==
    ASSUME NEW I, IsIndex(I), NEW r
    PROVE  /\ [I EXCEPT !.info = r] =
                [info |-> r, addr |-> I.addr, random |-> I.random, new |-> I.new]
           /\ [I EXCEPT !.random = r] =
                [info |-> I.info, addr |-> I.addr, random |-> r, new |-> I.new]
<1>1. PICK f, g, h, k : I = [info |-> f, addr |-> g, random |-> h, new |-> k]
  BY Zenon DEF IsIndex
<1>2. [I EXCEPT !.info = r] = [info |-> r, addr |-> g, random |-> h, new |-> k]
  BY <1>1
<1>3. [I EXCEPT !.random = r] = [info |-> f, addr |-> g, random |-> r, new |-> k]
  BY <1>1
<1> QED
  BY <1>1, <1>2, <1>3

LEMMA SetInfo ==
    ASSUME NEW I, IsIndex(I), NEW J, NEW f, J = [I EXCEPT !.info = f]
    PROVE  IsIndex(J) /\ J.info = f /\ J.addr = I.addr /\ J.random = I.random /\ J.new = I.new
BY SetField DEF IsIndex

LEMMA SwapGives ==
    ASSUME NEW I, InStep(I), NEW i \in DOMAIN I.random, NEW j \in DOMAIN I.random, i # j,
           NEW J, J = SwapRandom(I, i, j)
    PROVE  LET a == I.random[i]
               b == I.random[j]
           IN  /\ a \in DOMAIN I.info /\ b \in DOMAIN I.info /\ a # b
               /\ IsIndex(J) /\ J.addr = I.addr /\ J.new = I.new
               /\ DOMAIN J.info = DOMAIN I.info
               /\ J.info[a] = At(I.info[a], j) /\ J.info[b] = At(I.info[b], i)
               /\ \A n \in DOMAIN I.info \ {a, b} : J.info[n] = I.info[n]
               /\ J.random = [I.random EXCEPT ![i] = b, ![j] = a]
<1> DEFINE a == I.random[i]
           b == I.random[j]
<1>1. DOMAIN I.random = 1 .. Len(I.random)
  BY LenProperties DEF InStep
<1>2. a \in DOMAIN I.info /\ b \in DOMAIN I.info
  BY <1>1, ElementOfSeq DEF InStep
<1>3. a # b
  BY DEF InStep
<1> DEFINE info   == [[I.info EXCEPT ![a].nRandomPos = j] EXCEPT ![b].nRandomPos = i]
           random == [I.random EXCEPT ![i] = b, ![j] = a]
           K      == [I EXCEPT !.random = random]
<1>4. K = [info |-> I.info, addr |-> I.addr, random |-> random, new |-> I.new]
  <2> HIDE DEF random
  <2> QED
    BY SetField DEF InStep
<1>5. J = [[K EXCEPT !.info = [K.info EXCEPT ![a].nRandomPos = j]]
              EXCEPT !.info = [[K.info EXCEPT ![a].nRandomPos = j] EXCEPT ![b].nRandomPos = i]]
  BY DEF SwapRandom
<1>6. /\ DOMAIN info = DOMAIN I.info
      /\ info[a] = At(I.info[a], j) /\ info[b] = At(I.info[b], i)
      /\ \A n \in DOMAIN I.info \ {a, b} : info[n] = I.info[n]
  BY <1>2, <1>3 DEF At
<1>7. IsIndex(J) /\ J.info = info /\ J.random = random /\ J.addr = I.addr /\ J.new = I.new
  <2> DEFINE half == [I.info EXCEPT ![a].nRandomPos = j]
             L    == [K EXCEPT !.info = half]
  <2> HIDE DEF K
  <2>1. IsIndex(K) /\ K.info = I.info /\ K.random = random /\ K.addr = I.addr /\ K.new = I.new
    BY <1>4 DEF IsIndex
  <2>2. J = [L EXCEPT !.info = info]
    BY <1>5, <2>1
  <2> HIDE DEF info, random, L, half
  <2>3. IsIndex(L) /\ L.random = random /\ L.addr = I.addr /\ L.new = I.new
    BY <2>1, SetInfo DEF L
  <2> QED
    BY <2>2, <2>3, SetInfo
<1> HIDE DEF info
<1> QED
  BY <1>2, <1>3, <1>6, <1>7

\* An entry at another place is the same entry.
LEMMA AtIsEntry ==
    ASSUME NEW e \in Entry, NEW i \in Int
    PROVE  At(e, i) \in Entry /\ SameEntry(e, At(e, i)) /\ At(e, i).nRandomPos = i
BY DEF At, Entry, SameEntry

LEMMA SwapInStep ==
    ASSUME NEW I, InStep(I), NEW i \in DOMAIN I.random, NEW j \in DOMAIN I.random,
           NEW J, J = SwapRandom(I, i, j)
    PROVE  /\ InStep(J) /\ J.new = I.new /\ DOMAIN J.info = DOMAIN I.info
           /\ J.addr = I.addr /\ DOMAIN J.random = DOMAIN I.random
           /\ \A n \in DOMAIN I.info : SameEntry(I.info[n], J.info[n])
           /\ J.random[j] = I.random[i]
<1>1. CASE i = j
  BY <1>1 DEF SwapRandom, SameEntry
<1>2. CASE i # j
  <2> DEFINE a == I.random[i]
             b == I.random[j]
  <2>1. /\ a \in DOMAIN I.info /\ b \in DOMAIN I.info /\ a # b
        /\ IsIndex(J) /\ J.addr = I.addr /\ J.new = I.new
        /\ DOMAIN J.info = DOMAIN I.info
        /\ J.info[a] = At(I.info[a], j) /\ J.info[b] = At(I.info[b], i)
        /\ \A n \in DOMAIN I.info \ {a, b} : J.info[n] = I.info[n]
        /\ J.random = [I.random EXCEPT ![i] = b, ![j] = a]
    BY <1>2, SwapGives
  <2>2. DOMAIN I.random = 1 .. Len(I.random) /\ I.random \in Seq(DOMAIN I.info)
    BY LenProperties DEF InStep
  <2>3. i \in Int /\ j \in Int
    BY <2>2, LenProperties
  <2>4. \A n \in DOMAIN I.info : I.info[n] \in Entry
    BY DEF InStep
  <2>5. \A n \in DOMAIN I.info :
          /\ J.info[n] \in Entry /\ SameEntry(I.info[n], J.info[n])
          /\ J.info[n].nRandomPos = IF n = a THEN j ELSE IF n = b THEN i ELSE I.info[n].nRandomPos
    <3> TAKE n \in DOMAIN I.info
    <3> HIDE DEF a, b
    <3>1. CASE n = a
      BY <2>1, <2>3, <2>4, <3>1, AtIsEntry
    <3>2. CASE n = b
      BY <2>1, <2>3, <2>4, <3>2, AtIsEntry
    <3>3. CASE n \notin {a, b}
      BY <2>1, <2>4, <3>3 DEF SameEntry
    <3> QED
      BY <3>1, <3>2, <3>3
  <2>6. /\ J.random \in Seq(DOMAIN I.info) /\ Len(J.random) = Len(I.random)
        /\ DOMAIN J.random = DOMAIN I.random
        /\ \A x \in DOMAIN I.random :
              J.random[x] = IF x = j THEN a ELSE IF x = i THEN b ELSE I.random[x]
    <3> DEFINE half == [I.random EXCEPT ![i] = b]
    <3>1. half \in Seq(DOMAIN I.info) /\ Len(half) = Len(I.random)
      BY <2>1, <2>2, ExceptSeq
    <3>2. /\ [half EXCEPT ![j] = a] \in Seq(DOMAIN I.info)
          /\ Len([half EXCEPT ![j] = a]) = Len(half)
      <4> HIDE DEF half
      <4> QED
        BY <2>1, <2>2, <3>1, ExceptSeq
    <3>3. J.random = [half EXCEPT ![j] = a]
      BY <2>1
    <3> QED
      BY <2>1, <2>2, <3>1, <3>2, <3>3
  <2>7. Tried(J.info) = Tried(I.info) /\ Untried(J.info) = Untried(I.info)
    BY <2>1, <2>5 DEF Tried, Untried, SameEntry
  <2>8. Named(J)
    <3>1. Named(I)
      BY DEF InStep
    <3> QED
      BY <2>1, <2>5, <3>1 DEF Named, SameEntry
  <2>9. \A n \in DOMAIN I.info : /\ I.info[n].nRandomPos \in DOMAIN I.random
                                 /\ I.random[I.info[n].nRandomPos] = n
    BY DEF InStep
  <2>10. \A n \in DOMAIN J.info : /\ J.info[n].nRandomPos \in DOMAIN J.random
                                  /\ J.random[J.info[n].nRandomPos] = n
    <3> HIDE DEF a, b
    <3> SUFFICES ASSUME NEW n \in DOMAIN I.info
                 PROVE  /\ J.info[n].nRandomPos \in DOMAIN J.random
                        /\ J.random[J.info[n].nRandomPos] = n
      BY <2>1
    <3>1. CASE n = a
      BY <2>1, <2>5, <2>6, <3>1
    <3>2. CASE n = b
      BY <1>2, <2>1, <2>5, <2>6, <3>2
    <3>3. CASE n \notin {a, b}
      <4> DEFINE p == I.info[n].nRandomPos
      <4>1. p \in DOMAIN I.random /\ I.random[p] = n
        BY <2>9
      <4>2. p # i /\ p # j
        BY <3>3, <4>1 DEF a, b
      <4> QED
        BY <2>5, <2>6, <3>3, <4>1, <4>2
    <3> QED
      BY <3>1, <3>2, <3>3
  <2>11. \A x \in DOMAIN J.random : J.info[J.random[x]].nRandomPos = x
    <3>1. \A x \in DOMAIN I.random : /\ I.random[x] \in DOMAIN I.info
                                     /\ I.info[I.random[x]].nRandomPos = x
      BY <2>2, ElementOfSeq DEF InStep
    <3>2. a = I.random[i] /\ b = I.random[j]
      OBVIOUS
    <3> HIDE DEF a, b
    <3> QED
      BY <2>1, <2>5, <2>6, <3>1, <3>2
  <2>12. J.random[j] = I.random[i]
    BY <2>6
  <2> HIDE DEF a, b
  <2>13. InStep(J)
    BY <2>1, <2>5, <2>6, <2>7, <2>8, <2>10, <2>11 DEF InStep
  <2> QED
    BY <2>1, <2>5, <2>6, <2>12, <2>13
<1> QED
  BY <1>1, <1>2

-----------------------------------------------------------------------------
\* Counting a reference up or down disturbs nothing else.
Recount(I, n, c) == [I EXCEPT !.info[n].nRefCount = c]

LEMMA RecountInStep ==
    ASSUME NEW I, InStep(I), NEW n \in DOMAIN I.info, NEW c \in Int,
           NEW J, J = Recount(I, n, c)
    PROVE  /\ InStep(J) /\ DOMAIN J.info = DOMAIN I.info /\ J.random = I.random
           /\ J.addr = I.addr /\ J.new = I.new
           /\ J.info[n] = [I.info[n] EXCEPT !.nRefCount = c]
           /\ \A m \in DOMAIN I.info \ {n} : J.info[m] = I.info[m]
           /\ Tried(J.info) = Tried(I.info)
<1> DEFINE info == [I.info EXCEPT ![n].nRefCount = c]
<1>1. IsIndex(J) /\ J.info = info /\ J.addr = I.addr /\ J.random = I.random /\ J.new = I.new
  <2>1. J = [I EXCEPT !.info = info]
    BY DEF Recount
  <2>2. IsIndex(I)
    BY DEF InStep
  <2> HIDE DEF info
  <2> QED
    BY <2>1, <2>2, SetInfo
<1>2. /\ DOMAIN info = DOMAIN I.info /\ info[n] = [I.info[n] EXCEPT !.nRefCount = c]
      /\ \A m \in DOMAIN I.info \ {n} : info[m] = I.info[m]
  OBVIOUS
<1> HIDE DEF info
<1>3. \A m \in DOMAIN I.info :
        /\ info[m] \in Entry /\ info[m].addr = I.info[m].addr
        /\ info[m].fInTried = I.info[m].fInTried /\ info[m].nRandomPos = I.info[m].nRandomPos
  <2> TAKE m \in DOMAIN I.info
  <2>1. I.info[m] \in Entry
    BY DEF InStep
  <2>2. [I.info[m] EXCEPT !.nRefCount = c] \in Entry
        /\ [I.info[m] EXCEPT !.nRefCount = c].addr = I.info[m].addr
        /\ [I.info[m] EXCEPT !.nRefCount = c].fInTried = I.info[m].fInTried
        /\ [I.info[m] EXCEPT !.nRefCount = c].nRandomPos = I.info[m].nRandomPos
    BY <2>1 DEF Entry
  <2> QED
    BY <1>2, <2>1, <2>2
<1>4. Tried(J.info) = Tried(I.info) /\ Untried(J.info) = Untried(I.info)
  BY <1>1, <1>2, <1>3 DEF Tried, Untried
<1>5. Named(J)
  <2>1. Named(I)
    BY DEF InStep
  <2> QED
    BY <1>1, <1>2, <1>3, <2>1 DEF Named
<1>6. InStep(J)
  <2>1. \A i \in DOMAIN I.random : I.random[i] \in DOMAIN I.info
    BY LenProperties, ElementOfSeq DEF InStep
  <2>2. \A i \in DOMAIN I.random : I.info[I.random[i]].nRandomPos = i
    BY DEF InStep
  <2>3. \A i \in DOMAIN J.random : J.info[J.random[i]].nRandomPos = i
    BY <1>1, <1>2, <1>3, <2>1, <2>2
  <2>4. /\ DOMAIN I.info \subseteq Id /\ I.random \in Seq(DOMAIN I.info)
        /\ Len(I.random) = Cardinality(DOMAIN I.info)
        /\ \A m \in DOMAIN I.info : /\ I.info[m].nRandomPos \in DOMAIN I.random
                                     /\ I.random[I.info[m].nRandomPos] = m
        /\ I.new = Cardinality(Untried(I.info))
    BY DEF InStep
  <2>5. \A m \in DOMAIN J.info : /\ J.info[m] \in Entry
                                  /\ J.info[m].nRandomPos \in DOMAIN J.random
                                  /\ J.random[J.info[m].nRandomPos] = m
    BY <1>1, <1>2, <1>3, <2>4
  <2> QED
    BY <1>1, <1>2, <1>4, <1>5, <2>3, <2>4, <2>5 DEF InStep
<1> QED
  BY <1>1, <1>2, <1>4, <1>6

-----------------------------------------------------------------------------
\* Create: the new entry takes the last place.
LEMMA CreateInStep ==
    ASSUME InStep(Index), NEW n \in Id \ DOMAIN mapInfo, NEW a \in Service, NEW s \in NetAddr,
           host[a] \notin DOMAIN mapAddr, NEW J, J = Create(a, s, n)
    PROVE  /\ InStep(J) /\ DOMAIN J.info = DOMAIN mapInfo \cup {n}
           /\ \A m \in DOMAIN mapInfo : J.info[m] = mapInfo[m]
           /\ J.info[n].nRefCount = 0 /\ ~J.info[n].fInTried /\ J.info[n] \in Entry
           /\ Tried(J.info) = Tried(mapInfo)
<1> DEFINE e == [addr |-> a, source |-> s, nLastSuccess |-> 0, nRefCount |-> 0,
                 fInTried |-> FALSE, nRandomPos |-> Len(vRandom) + 1]
           info == [m \in DOMAIN mapInfo \cup {n} |-> IF m # n THEN mapInfo[m] ELSE e]
           addr == [h \in DOMAIN mapAddr \cup {host[a]} |-> IF h = host[a] THEN n ELSE mapAddr[h]]
<1>1. /\ J.info = info /\ J.addr = addr /\ J.random = Append(vRandom, n) /\ J.new = nNew + 1
      /\ IsIndex(J)
  BY DEF Create, IsIndex
<1>2. /\ DOMAIN mapInfo \subseteq Id /\ \A m \in DOMAIN mapInfo : mapInfo[m] \in Entry
      /\ vRandom \in Seq(DOMAIN mapInfo) /\ Len(vRandom) = Cardinality(DOMAIN mapInfo)
      /\ \A m \in DOMAIN mapInfo : /\ mapInfo[m].nRandomPos \in DOMAIN vRandom
                                   /\ vRandom[mapInfo[m].nRandomPos] = m
      /\ \A i \in DOMAIN vRandom : mapInfo[vRandom[i]].nRandomPos = i
      /\ nNew = Cardinality(Untried(mapInfo))
  BY DEF InStep, Index
<1>3. Named(Index) /\ Index.info = mapInfo /\ Index.addr = mapAddr
  BY DEF InStep, Index
<1>4. /\ Len(vRandom) \in Nat /\ DOMAIN vRandom = 1 .. Len(vRandom)
      /\ \A i \in DOMAIN vRandom : vRandom[i] \in DOMAIN mapInfo
  BY <1>2, LenProperties, ElementOfSeq
<1>5. e \in Entry /\ e.addr = a /\ e.nRefCount = 0 /\ ~e.fInTried /\ e.nRandomPos = Len(vRandom) + 1
  BY <1>4 DEF Entry
<1> HIDE DEF e
<1>6. /\ DOMAIN info = DOMAIN mapInfo \cup {n} /\ info[n] = e
      /\ \A m \in DOMAIN mapInfo : info[m] = mapInfo[m]
  OBVIOUS
<1> HIDE DEF info
<1>7. Named(J)
  <2>1. /\ DOMAIN addr = DOMAIN mapAddr \cup {host[a]} /\ addr[host[a]] = n
        /\ \A h \in DOMAIN mapAddr : addr[h] = mapAddr[h]
    OBVIOUS
  <2> HIDE DEF addr
  <2> QED
    BY <1>1, <1>3, <1>5, <1>6, <2>1 DEF Named
<1>8. Tried(info) = Tried(mapInfo) /\ Untried(info) = Untried(mapInfo) \cup {n}
  BY <1>5, <1>6 DEF Tried, Untried
<1>9. /\ Cardinality(DOMAIN info) = Cardinality(DOMAIN mapInfo) + 1
      /\ Cardinality(Untried(info)) = nNew + 1
  <2>1. Untried(mapInfo) \in SUBSET Id /\ n \notin Untried(mapInfo)
        /\ DOMAIN mapInfo \in SUBSET Id
    BY <1>2 DEF Untried
  <2>2. IsFiniteSet(Untried(mapInfo)) /\ IsFiniteSet(DOMAIN mapInfo)
    BY <2>1, IdsFinite
  <2>3. /\ Cardinality(DOMAIN mapInfo \cup {n}) = Cardinality(DOMAIN mapInfo) + 1
        /\ Cardinality(Untried(mapInfo) \cup {n}) = Cardinality(Untried(mapInfo)) + 1
    BY <2>1, <2>2, OneMore
  <2> QED
    BY <1>2, <1>6, <1>8, <2>3
<1>10. /\ J.random \in Seq(DOMAIN info) /\ Len(J.random) = Len(vRandom) + 1
       /\ DOMAIN J.random = 1 .. Len(vRandom) + 1
       /\ \A i \in DOMAIN vRandom : J.random[i] = vRandom[i]
       /\ J.random[Len(vRandom) + 1] = n
  <2>1. vRandom \in Seq(DOMAIN info)
    BY <1>2, <1>6, SeqMonotonic
  <2> QED
    BY <1>1, <1>4, <1>6, <2>1, AppendProperties, LenProperties
<1>11. \A m \in DOMAIN info : /\ info[m] \in Entry
                              /\ info[m].nRandomPos \in DOMAIN J.random
                              /\ J.random[info[m].nRandomPos] = m
  BY <1>2, <1>4, <1>5, <1>6, <1>10
<1>12. \A i \in DOMAIN J.random : info[J.random[i]].nRandomPos = i
  BY <1>2, <1>4, <1>5, <1>6, <1>10
<1>13. InStep(J)
  BY <1>1, <1>2, <1>6, <1>7, <1>9, <1>10, <1>11, <1>12 DEF InStep
<1> QED
  BY <1>1, <1>5, <1>6, <1>8, <1>13

\* Delete: the entry is swapped to the last place, which is then cut off.
LEMMA DeleteInStep ==
    ASSUME NEW I, InStep(I), NEW n \in Untried(I.info), NEW R, R = Delete(I, n)
    PROVE  /\ InStep(R) /\ DOMAIN R.info = DOMAIN I.info \ {n}
           /\ \A m \in DOMAIN R.info : SameEntry(I.info[m], R.info[m])
           /\ Tried(R.info) = Tried(I.info)
<1> DEFINE J == SwapRandom(I, I.info[n].nRandomPos, Len(I.random))
           last == Len(I.random)
<1>1. /\ n \in DOMAIN I.info /\ I.info[n].nRandomPos \in DOMAIN I.random
      /\ I.random[I.info[n].nRandomPos] = n
      /\ I.random \in Seq(DOMAIN I.info)
  BY DEF InStep, Untried
<1>2. last \in Nat \ {0} /\ DOMAIN I.random = 1 .. last
  BY <1>1, LenProperties
<1>3. /\ InStep(J) /\ J.new = I.new /\ DOMAIN J.info = DOMAIN I.info
      /\ J.addr = I.addr /\ DOMAIN J.random = DOMAIN I.random
      /\ \A m \in DOMAIN I.info : SameEntry(I.info[m], J.info[m])
      /\ J.random[last] = n
  BY <1>1, <1>2, SwapInStep
<1>4. /\ R.info = Without(J.info, n) /\ R.addr = Without(J.addr, host[I.info[n].addr])
      /\ R.random = SubSeq(J.random, 1, Len(J.random) - 1) /\ R.new = J.new - 1
      /\ IsIndex(R)
  BY DEF Delete, IsIndex
<1> HIDE DEF J, last
<1>5. /\ DOMAIN J.info \subseteq Id /\ Named(J)
      /\ J.random \in Seq(DOMAIN J.info) /\ Len(J.random) = Cardinality(DOMAIN J.info)
      /\ J.new = Cardinality(Untried(J.info))
      /\ \A m \in DOMAIN J.info : /\ J.info[m] \in Entry
                                  /\ J.info[m].nRandomPos \in DOMAIN J.random
                                  /\ J.random[J.info[m].nRandomPos] = m
      /\ \A i \in DOMAIN J.random : J.info[J.random[i]].nRandomPos = i
  BY <1>3 DEF InStep
<1>6. /\ last = Cardinality(DOMAIN I.info) /\ Len(J.random) = last
      /\ \A i \in 1 .. last : J.random[i] \in DOMAIN J.info
  <2>1. last = Cardinality(DOMAIN I.info)
    BY DEF last, InStep
  <2> QED
    BY <1>2, <1>3, <1>5, <2>1, LenProperties, ElementOfSeq
<1>7. DOMAIN R.info = DOMAIN I.info \ {n} /\ \A m \in DOMAIN R.info : R.info[m] = J.info[m]
  BY <1>3, <1>4 DEF Without
<1>8. \A i \in 1 .. last - 1 : J.random[i] # n
  <2>1. \A i, j \in DOMAIN J.random : J.random[i] = J.random[j] => i = j
    BY <1>5
  <2> QED
    BY <1>2, <1>3, <2>1
<1>9. /\ R.random \in Seq(DOMAIN R.info) /\ Len(R.random) = last - 1
      /\ DOMAIN R.random = 1 .. last - 1
      /\ \A i \in 1 .. last - 1 : R.random[i] = J.random[i]
  <2>1. \A i \in 1 .. last - 1 : J.random[i] \in DOMAIN R.info
    BY <1>2, <1>3, <1>6, <1>7, <1>8
  <2> DEFINE k == last - 1
  <2>2. k \in Nat /\ R.random = SubSeq(J.random, 1, k)
    BY <1>2, <1>4, <1>6
  <2> HIDE DEF k
  <2>3. \A i \in 1 .. k : J.random[i] \in DOMAIN R.info
    BY <2>1 DEF k
  <2>4. /\ R.random \in Seq(DOMAIN R.info) /\ Len(R.random) = k
        /\ \A i \in 1 .. k : R.random[i] = J.random[i]
    <3> DEFINE v == J.random
               S == DOMAIN R.info
    <3>1. k \in Nat /\ \A i \in 1 .. k : v[i] \in S
      BY <2>2, <2>3
    <3> HIDE DEF v, S
    <3>2. /\ SubSeq(v, 1, k) \in Seq(S) /\ Len(SubSeq(v, 1, k)) = k
          /\ \A i \in 1 .. k : SubSeq(v, 1, k)[i] = v[i]
      BY <3>1
    <3> QED
      BY <2>2, <3>2 DEF v, S
  <2> QED
    BY <2>4, LenProperties DEF k
<1>10. /\ Tried(J.info) = Tried(I.info) /\ Untried(J.info) = Untried(I.info)
       /\ Tried(R.info) = Tried(I.info) /\ Untried(R.info) = Untried(I.info) \ {n}
  BY <1>3, <1>7 DEF Tried, Untried, SameEntry
<1>11. /\ Cardinality(DOMAIN R.info) = last - 1
       /\ Cardinality(Untried(R.info)) = R.new
  <2>1. DOMAIN I.info \in SUBSET Id /\ Untried(I.info) \in SUBSET Id
    BY <1>3, <1>5 DEF Untried
  <2>2. IsFiniteSet(DOMAIN I.info) /\ IsFiniteSet(Untried(I.info))
    BY <2>1, IdsFinite
  <2>3. R.new = Cardinality(Untried(I.info)) - 1
    BY <1>4, <1>5, <1>10
  <2>4. /\ Cardinality(DOMAIN I.info \ {n}) = Cardinality(DOMAIN I.info) - 1
        /\ Cardinality(Untried(I.info) \ {n}) = Cardinality(Untried(I.info)) - 1
    BY <1>1, <2>2, OneMore
  <2> QED
    BY <1>6, <1>7, <1>10, <2>3, <2>4
<1>12. Named(R)
  <2> DEFINE g == host[I.info[n].addr]
  <2>1. g = host[J.info[n].addr] /\ n \in DOMAIN J.info
    BY <1>1, <1>3 DEF SameEntry
  <2>2. DOMAIN R.addr = DOMAIN J.addr \ {g} /\ \A h \in DOMAIN R.addr : R.addr[h] = J.addr[h]
    BY <1>4 DEF Without
  <2>3. DOMAIN R.info = DOMAIN J.info \ {n}
    BY <1>3, <1>7
  <2> HIDE DEF g
  <2>4. ASSUME NEW h \in DOMAIN R.addr
        PROVE  R.addr[h] \in DOMAIN R.info /\ host[R.info[R.addr[h]].addr] = h
    <3>1. R.addr[h] \in DOMAIN J.info /\ host[J.info[R.addr[h]].addr] = h
      BY <1>5, <2>2 DEF Named
    <3> QED
      BY <1>7, <2>1, <2>2, <2>3, <3>1
  <2>5. ASSUME NEW m \in DOMAIN R.info
        PROVE  host[R.info[m].addr] \in DOMAIN R.addr /\ R.addr[host[R.info[m].addr]] = m
    <3> DEFINE h == host[J.info[m].addr]
    <3>1. h \in DOMAIN J.addr /\ J.addr[h] = m
      BY <1>5, <2>3 DEF Named
    <3>2. h # g
      BY <1>5, <2>1, <2>3, <3>1 DEF Named
    <3> QED
      BY <1>7, <2>2, <3>1, <3>2
  <2> QED
    BY <2>4, <2>5 DEF Named
<1>13. \A m \in DOMAIN R.info : /\ R.info[m] \in Entry
                                /\ R.info[m].nRandomPos \in DOMAIN R.random
                                /\ R.random[R.info[m].nRandomPos] = m
  <2> TAKE m \in DOMAIN R.info
  <2>1. m \in DOMAIN J.info /\ m # n /\ R.info[m] = J.info[m]
    BY <1>3, <1>7
  <2>2. J.info[m].nRandomPos \in 1 .. last /\ J.random[J.info[m].nRandomPos] = m
    BY <1>2, <1>3, <1>5, <2>1
  <2>3. J.info[m].nRandomPos # last
    BY <1>3, <2>1, <2>2
  <2>4. J.info[m].nRandomPos \in 1 .. last - 1
    BY <1>2, <2>2, <2>3
  <2>5. J.info[m] \in Entry
    BY <1>5, <2>1
  <2> QED
    BY <1>9, <2>1, <2>2, <2>4, <2>5
<1>14. \A i \in DOMAIN R.random : R.info[R.random[i]].nRandomPos = i
  <2> TAKE i \in DOMAIN R.random
  <2>1. i \in 1 .. last - 1 /\ R.random[i] = J.random[i]
    BY <1>9
  <2>2. i \in DOMAIN J.random
    BY <1>2, <1>3, <2>1
  <2>3. J.random[i] \in DOMAIN R.info
    BY <1>2, <1>3, <1>6, <1>7, <1>8, <2>1
  <2> QED
    BY <1>5, <1>7, <2>1, <2>2, <2>3
<1>15. InStep(R)
  BY <1>3, <1>4, <1>5, <1>7, <1>9, <1>11, <1>12, <1>13, <1>14 DEF InStep
<1> QED
  BY <1>3, <1>7, <1>10, <1>15

-----------------------------------------------------------------------------
(***************************************************************************)
(* The new buckets.                                                        *)
(***************************************************************************)
\* Counting only Refs, the entries of two indexes agree.
LEMMA BecomesIndex ==
    ASSUME NEW I, IsIndex(I), Become(I)
    PROVE  Index' = I /\ mapInfo' = I.info
BY DEF Become, Index, IsIndex

\* n enters bucket b, and T leaves it.
Enters(new, new2, b, n, T) ==
    /\ b \in NewBucket /\ n \notin new[b] /\ T \subseteq new[b]
    /\ new2[b] = (new[b] \ T) \cup {n}
    /\ \A a \in NewBucket \ {b} : new2[a] = new[a]

LEMMA RefsChange ==
    ASSUME NEW new, NEW new2, NEW b, NEW n, NEW T, Enters(new, new2, b, n, T)
    PROVE  /\ Cardinality(Refs(new2, n)) = Cardinality(Refs(new, n)) + 1
           /\ \A m \in T : Cardinality(Refs(new2, m)) = Cardinality(Refs(new, m)) - 1
           /\ \A m : m \notin T \cup {n} => Refs(new2, m) = Refs(new, m)
<1>1. \A m : IsFiniteSet(Refs(new, m))
  BY BucketsFinite DEF Refs
<1>2. Refs(new2, n) = Refs(new, n) \cup {b} /\ b \notin Refs(new, n)
  BY DEF Refs, Enters
<1>3. \A m \in T : Refs(new2, m) = Refs(new, m) \ {b} /\ b \in Refs(new, m)
  BY DEF Refs, Enters
<1>4. \A m : m \notin T \cup {n} => Refs(new2, m) = Refs(new, m)
  BY DEF Refs, Enters
<1>5. Cardinality(Refs(new2, n)) = Cardinality(Refs(new, n)) + 1
  <2>1. Cardinality(Refs(new, n) \cup {b}) = Cardinality(Refs(new, n)) + 1
    BY <1>1, <1>2, OneMore
  <2> QED
    BY <1>2, <2>1
<1>6. \A m \in T : Cardinality(Refs(new2, m)) = Cardinality(Refs(new, m)) - 1
  <2> TAKE m \in T
  <2>1. Cardinality(Refs(new, m) \ {b}) = Cardinality(Refs(new, m)) - 1
    BY <1>1, <1>3, OneMore
  <2> QED
    BY <1>3, <2>1
<1> QED
  BY <1>4, <1>5, <1>6

\* ShrinkNew keeps the index in step; an entry without references goes.
LEMMA ShrinkNewInStep ==
    ASSUME NEW I, InStep(I), NEW m \in Untried(I.info), NEW R, R = ShrinkNew(I, m)
    PROVE  /\ InStep(R) /\ Tried(R.info) = Tried(I.info)
           /\ I.info[m].nRefCount - 1 = 0 => DOMAIN R.info = DOMAIN I.info \ {m}
           /\ I.info[m].nRefCount - 1 # 0 =>
                 /\ DOMAIN R.info = DOMAIN I.info
                 /\ R.info[m].nRefCount = I.info[m].nRefCount - 1
           /\ \A x \in DOMAIN R.info \ {m} : SameEntry(I.info[x], R.info[x])
           /\ m \in DOMAIN R.info => R.info[m].addr = I.info[m].addr
<1> DEFINE c == I.info[m].nRefCount - 1
           J == Recount(I, m, c)
<1>1. m \in DOMAIN I.info /\ I.info[m] \in Entry /\ c \in Int
  BY DEF InStep, Untried, Entry
<1>2. /\ InStep(J) /\ DOMAIN J.info = DOMAIN I.info
      /\ J.info[m] = [I.info[m] EXCEPT !.nRefCount = c]
      /\ \A x \in DOMAIN I.info \ {m} : J.info[x] = I.info[x]
      /\ Tried(J.info) = Tried(I.info)
  <2> HIDE DEF c
  <2> QED
    BY <1>1, RecountInStep
<1>3. R = IF J.info[m].nRefCount = 0 THEN Delete(J, m) ELSE J
  BY DEF ShrinkNew, Recount
<1>4. J.info[m].nRefCount = c /\ J.info[m].addr = I.info[m].addr
  BY <1>1, <1>2 DEF Entry
<1> HIDE DEF J, c
<1>5. m \in Untried(J.info)
  BY <1>2 DEF Untried
<1>6. CASE c = 0
  <2>1. R = Delete(J, m)
    BY <1>3, <1>4, <1>6
  <2>2. /\ InStep(R) /\ DOMAIN R.info = DOMAIN J.info \ {m}
        /\ \A x \in DOMAIN R.info : SameEntry(J.info[x], R.info[x])
        /\ Tried(R.info) = Tried(J.info)
    BY <1>2, <1>5, <2>1, DeleteInStep
  <2> QED
    BY <1>2, <1>6, <2>2 DEF c
<1>7. CASE c # 0
  <2>1. R = J
    BY <1>3, <1>4, <1>7
  <2> QED
    BY <1>2, <1>4, <1>7, <2>1 DEF c, SameEntry
<1> QED
  BY <1>6, <1>7

\* The end of Add_, for a new or a known entry n: a reference is gained in
\* bucket b, and a full b gives up one that another entry had there.
LEMMA EnterNewInStep ==
    ASSUME NEW I, InStep(I), NEW n \in Untried(I.info), NEW b \in NewBucket,
           vvNew \in [NewBucket -> SUBSET Untried(I.info)],
           \A c \in NewBucket : Cardinality(vvNew[c]) <= ADDRMAN_NEW_BUCKET_SIZE,
           \A m \in DOMAIN I.info : I.info[m].nRefCount = Cardinality(Refs(vvNew, m)),
           \A m \in Untried(I.info) \ {n} :
              I.info[m].nRefCount \in 1 .. ADDRMAN_NEW_BUCKETS_PER_ADDRESS,
           I.info[n].nRefCount < ADDRMAN_NEW_BUCKETS_PER_ADDRESS,
           EnterNew(I, n, b)
    PROVE  /\ InStep(Index)' /\ NewInStep(mapInfo, vvNew)'
           /\ DOMAIN mapInfo' \subseteq DOMAIN I.info
           /\ Tried(mapInfo') = Tried(I.info)
           /\ \A m \in Tried(I.info) : SameEntry(I.info[m], mapInfo'[m])
<1>1. n \in DOMAIN I.info /\ Untried(I.info) \subseteq Id /\ DOMAIN I.info \subseteq Id
      /\ IsIndex(I)
  BY DEF InStep, Untried
<1>2. \A m : IsFiniteSet(Refs(vvNew, m)) /\ Cardinality(Refs(vvNew, m)) \in Nat
  BY BucketsFinite DEF Refs
<1>3. ADDRMAN_NEW_BUCKETS_PER_ADDRESS \in Nat \ {0} /\ ADDRMAN_NEW_BUCKET_SIZE \in Nat \ {0}
  BY AddrManAssumption
<1>4. CASE n \in vvNew[b]
  <2>1. Become(I) /\ vvNew' = vvNew
    BY <1>4 DEF EnterNew
  <2>2. Index' = I /\ mapInfo' = I.info
    BY <1>1, <2>1, BecomesIndex
  <2>3. I.info[n].nRefCount \in 1 .. ADDRMAN_NEW_BUCKETS_PER_ADDRESS
    <3>1. b \in Refs(vvNew, n)
      BY <1>4 DEF Refs
    <3>2. Cardinality(Refs(vvNew, n)) # 0
      BY <1>2, <3>1, OneMore
    <3> QED
      BY <1>1, <1>2, <1>3, <3>2
  <2>4. NewInStep(I.info, vvNew)
    BY <2>3 DEF NewInStep
  <2> QED
    BY <2>1, <2>2, <2>4 DEF SameEntry
<1>5. CASE n \notin vvNew[b]
  <2> DEFINE c == I.info[n].nRefCount + 1
             J == Recount(I, n, c)
  <2>1. c = Cardinality(Refs(vvNew, n)) + 1 /\ c \in 1 .. ADDRMAN_NEW_BUCKETS_PER_ADDRESS
    BY <1>1, <1>2, <1>3
  <2>2. /\ InStep(J) /\ DOMAIN J.info = DOMAIN I.info
        /\ J.info[n] = [I.info[n] EXCEPT !.nRefCount = c]
        /\ \A m \in DOMAIN I.info \ {n} : J.info[m] = I.info[m]
        /\ Tried(J.info) = Tried(I.info)
    <3> HIDE DEF c
    <3> QED
      BY <1>1, <2>1, RecountInStep
  <2>3. Untried(J.info) = Untried(I.info) /\ J.info[n].nRefCount = c
    <3>1. I.info[n] \in Entry
      BY <1>1 DEF InStep
    <3> QED
      BY <2>2, <3>1 DEF Untried, Entry
  <2>4. \/ /\ Cardinality(vvNew[b]) = ADDRMAN_NEW_BUCKET_SIZE
           /\ \E m \in vvNew[b] : /\ Become(ShrinkNew(J, m))
                                  /\ vvNew' = [vvNew EXCEPT ![b] = (@ \ {m}) \cup {n}]
        \/ /\ Cardinality(vvNew[b]) # ADDRMAN_NEW_BUCKET_SIZE
           /\ Become(J) /\ vvNew' = [vvNew EXCEPT ![b] = @ \cup {n}]
    BY <1>5 DEF EnterNew, Recount
  <2> HIDE DEF J, c
  <2>5. \A m \in Tried(I.info) : m # n /\ SameEntry(I.info[m], J.info[m])
    BY <2>2 DEF Untried, Tried, SameEntry
  <2>6. ASSUME NEW T, T \subseteq vvNew[b], vvNew' = [vvNew EXCEPT ![b] = (@ \ T) \cup {n}]
        PROVE  /\ Cardinality(Refs(vvNew', n)) = Cardinality(Refs(vvNew, n)) + 1
               /\ \A m \in T : Cardinality(Refs(vvNew', m)) = Cardinality(Refs(vvNew, m)) - 1
               /\ \A m : m \notin T \cup {n} => Refs(vvNew', m) = Refs(vvNew, m)
    <3>1. Enters(vvNew, vvNew', b, n, T)
      BY <1>5, <2>6 DEF Enters
    <3> QED
      BY <3>1, RefsChange
  <2>7. IsFiniteSet(vvNew[b])
    <3>1. vvNew[b] \in SUBSET Id
      BY <1>1
    <3> QED
      BY <3>1, IdsFinite
  <2>8. CASE /\ Cardinality(vvNew[b]) # ADDRMAN_NEW_BUCKET_SIZE
             /\ Become(J) /\ vvNew' = [vvNew EXCEPT ![b] = @ \cup {n}]
    <3>1. Index' = J /\ mapInfo' = J.info
      BY <2>2, <2>8, BecomesIndex DEF InStep
    <3>2. /\ Cardinality(Refs(vvNew', n)) = c
          /\ \A m \in Id \ {n} : Refs(vvNew', m) = Refs(vvNew, m)
      <4>1. vvNew' = [vvNew EXCEPT ![b] = (@ \ {}) \cup {n}]
        BY <2>8
      <4>2. /\ Cardinality(Refs(vvNew', n)) = Cardinality(Refs(vvNew, n)) + 1
            /\ \A m : m \notin {} \cup {n} => Refs(vvNew', m) = Refs(vvNew, m)
        BY <2>6, <4>1
      <4> QED
        BY <2>1, <4>2
    <3>3. \A a \in NewBucket : Cardinality(vvNew'[a]) <= ADDRMAN_NEW_BUCKET_SIZE
      <4>1. Cardinality(vvNew[b] \cup {n}) = Cardinality(vvNew[b]) + 1
        BY <1>5, <2>7, OneMore
      <4>2. Cardinality(vvNew[b]) \in Nat
        BY <2>7, OneMore
      <4>3. Cardinality(vvNew'[b]) <= ADDRMAN_NEW_BUCKET_SIZE
        BY <1>3, <2>8, <4>1, <4>2
      <4> QED
        BY <2>8, <4>3
    <3>4. vvNew' \in [NewBucket -> SUBSET Untried(J.info)]
      BY <2>3, <2>8
    <3>5. \A m \in DOMAIN J.info : J.info[m].nRefCount = Cardinality(Refs(vvNew', m))
      BY <1>1, <2>2, <2>3, <3>2
    <3>6. \A m \in Untried(J.info) : J.info[m].nRefCount \in 1 .. ADDRMAN_NEW_BUCKETS_PER_ADDRESS
      BY <2>1, <2>2, <2>3 DEF Untried
    <3>7. NewInStep(J.info, vvNew')
      BY <3>3, <3>4, <3>5, <3>6 DEF NewInStep
    <3> QED
      BY <2>2, <2>5, <3>1, <3>7
  <2>9. ASSUME Cardinality(vvNew[b]) = ADDRMAN_NEW_BUCKET_SIZE,
               NEW m \in vvNew[b], Become(ShrinkNew(J, m)),
               vvNew' = [vvNew EXCEPT ![b] = (@ \ {m}) \cup {n}]
        PROVE  /\ InStep(Index)' /\ NewInStep(mapInfo, vvNew)'
               /\ DOMAIN mapInfo' \subseteq DOMAIN I.info
               /\ Tried(mapInfo') = Tried(I.info)
               /\ \A x \in Tried(I.info) : SameEntry(I.info[x], mapInfo'[x])
    <3> DEFINE R == ShrinkNew(J, m)
    <3>1. m # n /\ m \in Untried(I.info) /\ m \in DOMAIN I.info
      BY <1>5, <2>9 DEF Untried
    <3>2. m \in Untried(J.info) /\ J.info[m] = I.info[m]
      BY <2>2, <2>3, <3>1
    <3>3. /\ InStep(R) /\ Tried(R.info) = Tried(J.info)
          /\ J.info[m].nRefCount - 1 = 0 => DOMAIN R.info = DOMAIN J.info \ {m}
          /\ J.info[m].nRefCount - 1 # 0 =>
                /\ DOMAIN R.info = DOMAIN J.info
                /\ R.info[m].nRefCount = J.info[m].nRefCount - 1
          /\ \A x \in DOMAIN R.info \ {m} : SameEntry(J.info[x], R.info[x])
      BY <2>2, <3>2, ShrinkNewInStep
    <3> HIDE DEF R
    <3>4. Index' = R /\ mapInfo' = R.info
      BY <2>9, <3>3, BecomesIndex DEF R, InStep
    <3>5. /\ Cardinality(Refs(vvNew', n)) = c
          /\ Cardinality(Refs(vvNew', m)) = Cardinality(Refs(vvNew, m)) - 1
          /\ \A x \in Id \ {m, n} : Refs(vvNew', x) = Refs(vvNew, x)
      <4>1. /\ Cardinality(Refs(vvNew', n)) = Cardinality(Refs(vvNew, n)) + 1
            /\ \A x \in {m} : Cardinality(Refs(vvNew', x)) = Cardinality(Refs(vvNew, x)) - 1
            /\ \A x : x \notin {m} \cup {n} => Refs(vvNew', x) = Refs(vvNew, x)
        <5>1. {m} \subseteq vvNew[b]
          BY <2>9
        <5> QED
          BY <2>6, <2>9, <5>1
      <4> QED
        BY <2>1, <4>1
    <3>6. \A a \in NewBucket : Cardinality(vvNew'[a]) <= ADDRMAN_NEW_BUCKET_SIZE
      <4>1. IsFiniteSet(vvNew[b] \ {m}) /\ n \notin vvNew[b] \ {m}
        BY <1>5, <2>7, OneMore
      <4>2. Cardinality(vvNew[b] \ {m}) = Cardinality(vvNew[b]) - 1
        BY <2>7, <2>9, OneMore
      <4>3. Cardinality((vvNew[b] \ {m}) \cup {n}) = Cardinality(vvNew[b] \ {m}) + 1
        <5> DEFINE S == vvNew[b] \ {m}
        <5>1. IsFiniteSet(S) /\ n \notin S
          BY <4>1
        <5> HIDE DEF S
        <5>2. Cardinality(S \cup {n}) = Cardinality(S) + 1
          BY <5>1, OneMore
        <5> QED
          BY <5>2 DEF S
      <4>4. Cardinality(vvNew'[b]) <= ADDRMAN_NEW_BUCKET_SIZE
        BY <1>3, <2>9, <4>2, <4>3
      <4> QED
        BY <2>9, <4>4
    <3>7. I.info[m].nRefCount \in 1 .. ADDRMAN_NEW_BUCKETS_PER_ADDRESS
          /\ I.info[m].nRefCount = Cardinality(Refs(vvNew, m))
      BY <3>1
    <3>8. DOMAIN R.info \subseteq DOMAIN J.info
          /\ (m \notin DOMAIN R.info => Cardinality(Refs(vvNew', m)) = 0)
          /\ \A x \in DOMAIN J.info \ {m} : x \in DOMAIN R.info
      <4>1. J.info[m].nRefCount = Cardinality(Refs(vvNew, m)) /\ m \in DOMAIN J.info
        BY <2>2, <3>1, <3>2, <3>7
      <4>2. CASE J.info[m].nRefCount - 1 = 0
        BY <3>3, <3>5, <4>1, <4>2
      <4>3. CASE J.info[m].nRefCount - 1 # 0
        BY <3>3, <4>1, <4>3
      <4> QED
        BY <4>2, <4>3
    <3>9. vvNew' \in [NewBucket -> SUBSET Untried(R.info)]
      <4>1. \A a \in NewBucket : \A x \in vvNew'[a] : x \in Untried(J.info)
        BY <2>3, <2>9
      <4>2. \A a \in NewBucket : \A x \in vvNew'[a] : x # m => x \in Untried(R.info)
        BY <3>3, <3>8, <4>1 DEF Untried
      <4>3. ASSUME NEW a \in NewBucket, m \in vvNew'[a] PROVE m \in Untried(R.info)
        <5>1. a \in Refs(vvNew', m) /\ IsFiniteSet(Refs(vvNew', m))
          BY <4>3, BucketsFinite DEF Refs
        <5>2. Cardinality(Refs(vvNew', m)) # 0
          BY <5>1, OneMore
        <5> QED
          BY <3>2, <3>3, <3>8, <5>2 DEF Untried
      <4>4. vvNew' = [a \in NewBucket |-> vvNew'[a]]
        BY <2>9
      <4> QED
        BY <4>2, <4>3, <4>4
    <3>10. \A x \in DOMAIN R.info : R.info[x].nRefCount = Cardinality(Refs(vvNew', x))
      <4>1. ASSUME NEW x \in DOMAIN R.info, x # m
            PROVE  R.info[x].nRefCount = Cardinality(Refs(vvNew', x))
        <5>1. R.info[x].nRefCount = J.info[x].nRefCount /\ x \in DOMAIN I.info
          BY <2>2, <3>3, <3>8, <4>1 DEF SameEntry
        <5>2. CASE x = n
          BY <2>3, <3>5, <5>1, <5>2
        <5>3. CASE x # n
          BY <1>1, <2>2, <3>5, <4>1, <5>1, <5>3
        <5> QED
          BY <5>2, <5>3
      <4>2. m \in DOMAIN R.info => R.info[m].nRefCount = Cardinality(Refs(vvNew', m))
        BY <3>2, <3>3, <3>5, <3>7
      <4> QED
        BY <4>1, <4>2
    <3>11. \A x \in Untried(R.info) : R.info[x].nRefCount \in 1 .. ADDRMAN_NEW_BUCKETS_PER_ADDRESS
      <4> TAKE x \in Untried(R.info)
      <4>1. x \in DOMAIN R.info /\ x \in Untried(J.info)
        BY <3>3, <3>8 DEF Untried
      <4>2. CASE x = m
        BY <1>3, <3>2, <3>3, <3>7, <4>1, <4>2
      <4>3. CASE x # m
        <5>1. R.info[x].nRefCount = J.info[x].nRefCount
          BY <3>3, <4>1, <4>3 DEF SameEntry
        <5>2. CASE x = n
          BY <2>1, <2>3, <5>1, <5>2
        <5>3. CASE x # n
          BY <2>2, <2>3, <4>1, <5>1, <5>3 DEF Untried
        <5> QED
          BY <5>2, <5>3
      <4> QED
        BY <4>2, <4>3
    <3>12. NewInStep(R.info, vvNew')
      BY <3>6, <3>9, <3>10, <3>11 DEF NewInStep
    <3>13. \A x \in Tried(I.info) : SameEntry(I.info[x], R.info[x])
      <4> TAKE x \in Tried(I.info)
      <4>1. x # m /\ x \in DOMAIN R.info
        BY <2>2, <3>1, <3>8 DEF Untried, Tried
      <4> QED
        BY <2>5, <3>3, <4>1 DEF SameEntry
    <3> QED
      BY <2>2, <3>3, <3>4, <3>8, <3>12, <3>13
  <2> QED
    BY <2>4, <2>8, <2>9
<1> QED
  BY <1>4, <1>5

-----------------------------------------------------------------------------
(***************************************************************************)
(* Add_.                                                                   *)
(***************************************************************************)
\* The tried table depends on the tried entries only.
LEMMA SameTried ==
    ASSUME NEW info, NEW info2, NEW tried, TriedInStep(info, tried),
           Tried(info2) = Tried(info),
           \A m \in Tried(info) : SameEntry(info[m], info2[m])
    PROVE  TriedInStep(info2, tried)
<1>1. \A k \in TriedBucket : {n \in Tried(info2) : BucketOf(info2, n) = k}
                               = {n \in Tried(info) : BucketOf(info, n) = k}
  BY DEF BucketOf, SameEntry
<1>2. \A n \in Tried(info2) : info2[n].nLastSuccess # 0
  BY DEF TriedInStep, SameEntry
<1> QED
  BY <1>1, <1>2 DEF TriedInStep

LEMMA IndexFields ==
    /\ Index.info = mapInfo /\ Index.addr = mapAddr /\ Index.random = vRandom /\ Index.new = nNew
    /\ IsIndex(Index)
BY DEF Index, IsIndex

LEMMA AddUnknownInv ==
    ASSUME Inv, NEW a \in Service, NEW s \in NetAddr, AddUnknown(a, s)
    PROVE  Inv'
<1> DEFINE n == nIdCount
           I == Create(a, s, n)
           b == GetNewBucket[a][s]
<1>1. /\ host[a] \notin DOMAIN mapAddr /\ n < MaxId /\ EnterNew(I, n, b)
      /\ nIdCount' = n + 1 /\ UNCHANGED <<nTried, vvTried, peers>>
  BY DEF AddUnknown
<1>2. /\ n \in 0 .. MaxId /\ DOMAIN mapInfo \subseteq 0 .. n - 1
      /\ InStep(Index) /\ NewInStep(mapInfo, vvNew) /\ TriedInStep(mapInfo, vvTried)
      /\ nTried = Cardinality(Tried(mapInfo)) /\ FileInStep(peers)
  BY DEF Inv
<1>3. n \in Id \ DOMAIN mapInfo /\ MaxId \in Nat /\ b \in NewBucket
  BY <1>1, <1>2, AddrManAssumption DEF Id
<1>4. /\ InStep(I) /\ DOMAIN I.info = DOMAIN mapInfo \cup {n}
      /\ \A m \in DOMAIN mapInfo : I.info[m] = mapInfo[m]
      /\ I.info[n].nRefCount = 0 /\ ~I.info[n].fInTried
      /\ Tried(I.info) = Tried(mapInfo)
  <2> HIDE DEF I
  <2>1. I = Create(a, s, n)
    BY DEF I
  <2> HIDE DEF n
  <2> QED
    BY <1>1, <1>2, <1>3, <2>1, CreateInStep
<1> HIDE DEF I, n, b
<1>5. n \in Untried(I.info) /\ Untried(I.info) = Untried(mapInfo) \cup {n}
  BY <1>3, <1>4 DEF Untried, Tried
<1>6. /\ vvNew \in [NewBucket -> SUBSET Untried(I.info)]
      /\ \A c \in NewBucket : Cardinality(vvNew[c]) <= ADDRMAN_NEW_BUCKET_SIZE
      /\ \A m \in DOMAIN I.info : I.info[m].nRefCount = Cardinality(Refs(vvNew, m))
      /\ \A m \in Untried(I.info) \ {n} :
           I.info[m].nRefCount \in 1 .. ADDRMAN_NEW_BUCKETS_PER_ADDRESS
      /\ I.info[n].nRefCount < ADDRMAN_NEW_BUCKETS_PER_ADDRESS
  <2>1. Refs(vvNew, n) = {}
    BY <1>2, <1>3 DEF Refs, NewInStep, Untried
  <2>2. Cardinality(Refs(vvNew, n)) = 0
    BY <2>1, FS_EmptySet
  <2>3. \A m \in DOMAIN I.info : I.info[m].nRefCount = Cardinality(Refs(vvNew, m))
    BY <1>2, <1>4, <2>2 DEF NewInStep
  <2>4. \A m \in Untried(I.info) \ {n} :
           I.info[m].nRefCount \in 1 .. ADDRMAN_NEW_BUCKETS_PER_ADDRESS
    BY <1>2, <1>4, <1>5 DEF NewInStep, Untried
  <2>5. vvNew \in [NewBucket -> SUBSET Untried(I.info)]
    BY <1>2, <1>5 DEF NewInStep
  <2> QED
    BY <1>2, <1>4, <2>3, <2>4, <2>5, AddrManAssumption DEF NewInStep
<1>7. /\ InStep(Index)' /\ NewInStep(mapInfo, vvNew)'
      /\ DOMAIN mapInfo' \subseteq DOMAIN I.info
      /\ Tried(mapInfo') = Tried(I.info)
      /\ \A m \in Tried(I.info) : SameEntry(I.info[m], mapInfo'[m])
  BY <1>1, <1>3, <1>4, <1>5, <1>6, EnterNewInStep
<1>8. TriedInStep(mapInfo, vvTried)' /\ nTried' = Cardinality(Tried(mapInfo'))
  <2>1. \A m \in Tried(mapInfo) : SameEntry(mapInfo[m], mapInfo'[m])
    BY <1>4, <1>7 DEF Tried
  <2>2. TriedInStep(mapInfo', vvTried)
    BY <1>2, <1>4, <1>7, <2>1, SameTried
  <2> QED
    BY <1>1, <1>2, <1>4, <1>7, <2>2
<1>9. nIdCount' \in 0 .. MaxId /\ DOMAIN mapInfo' \subseteq 0 .. nIdCount' - 1
  BY <1>1, <1>2, <1>3, <1>4, <1>7
<1>10. FileInStep(peers)'
  BY <1>1, <1>2
<1> QED
  BY <1>7, <1>8, <1>9, <1>10 DEF Inv

LEMMA AddKnownInv ==
    ASSUME Inv, NEW a \in Service, NEW s \in NetAddr, AddKnown(a, s)
    PROVE  Inv'
<1> DEFINE n == mapAddr[host[a]]
           b == GetNewBucket[mapInfo[n].addr][s]
<1>1. /\ host[a] \in DOMAIN mapAddr /\ ~mapInfo[n].fInTried
      /\ mapInfo[n].nRefCount # ADDRMAN_NEW_BUCKETS_PER_ADDRESS
      /\ EnterNew(Index, n, b) /\ UNCHANGED <<nIdCount, nTried, vvTried, peers>>
  BY DEF AddKnown
<1>2. /\ nIdCount \in 0 .. MaxId /\ DOMAIN mapInfo \subseteq 0 .. nIdCount - 1
      /\ InStep(Index) /\ NewInStep(mapInfo, vvNew) /\ TriedInStep(mapInfo, vvTried)
      /\ nTried = Cardinality(Tried(mapInfo)) /\ FileInStep(peers)
  BY DEF Inv
<1>3. Named(Index) /\ \A m \in DOMAIN mapInfo : mapInfo[m] \in Entry
  BY <1>2, IndexFields DEF InStep
<1>4. n \in DOMAIN mapInfo
  BY <1>1, <1>3, IndexFields DEF Named
<1> HIDE DEF n
<1>5. n \in Untried(mapInfo) /\ b \in NewBucket
  BY <1>1, <1>3, <1>4, AddrManAssumption DEF Untried, Tried, Entry
<1> HIDE DEF b
<1>6. /\ vvNew \in [NewBucket -> SUBSET Untried(mapInfo)]
      /\ \A c \in NewBucket : Cardinality(vvNew[c]) <= ADDRMAN_NEW_BUCKET_SIZE
      /\ \A m \in DOMAIN mapInfo : mapInfo[m].nRefCount = Cardinality(Refs(vvNew, m))
      /\ \A m \in Untried(mapInfo) :
           mapInfo[m].nRefCount \in 1 .. ADDRMAN_NEW_BUCKETS_PER_ADDRESS
      /\ mapInfo[n].nRefCount < ADDRMAN_NEW_BUCKETS_PER_ADDRESS
  <2>1. NewInStep(mapInfo, vvNew)
    BY <1>2
  <2>2. mapInfo[n].nRefCount \in 1 .. ADDRMAN_NEW_BUCKETS_PER_ADDRESS
    BY <1>5, <2>1 DEF NewInStep
  <2>3. mapInfo[n].nRefCount < ADDRMAN_NEW_BUCKETS_PER_ADDRESS
    <3>1. mapInfo[n].nRefCount # ADDRMAN_NEW_BUCKETS_PER_ADDRESS
      BY <1>1
    <3>2. ADDRMAN_NEW_BUCKETS_PER_ADDRESS \in Nat
      BY AddrManAssumption
    <3> QED
      BY <2>2, <3>1, <3>2
  <2> QED
    BY <2>1, <2>3 DEF NewInStep
<1>7. /\ InStep(Index)' /\ NewInStep(mapInfo, vvNew)'
      /\ DOMAIN mapInfo' \subseteq DOMAIN mapInfo
      /\ Tried(mapInfo') = Tried(mapInfo)
      /\ \A m \in Tried(mapInfo) : SameEntry(mapInfo[m], mapInfo'[m])
  <2> DEFINE I == Index
  <2>1. I.info = mapInfo /\ InStep(I) /\ EnterNew(I, n, b)
    BY <1>1, <1>2, IndexFields
  <2> HIDE DEF I
  <2>2. /\ InStep(Index)' /\ NewInStep(mapInfo, vvNew)'
        /\ DOMAIN mapInfo' \subseteq DOMAIN I.info
        /\ Tried(mapInfo') = Tried(I.info)
        /\ \A m \in Tried(I.info) : SameEntry(I.info[m], mapInfo'[m])
    BY <1>5, <1>6, <2>1, EnterNewInStep
  <2> QED
    BY <2>1, <2>2
<1>8. TriedInStep(mapInfo, vvTried)' /\ nTried' = Cardinality(Tried(mapInfo'))
  <2>1. TriedInStep(mapInfo', vvTried)
    BY <1>2, <1>7, SameTried
  <2> QED
    BY <1>1, <1>2, <1>7, <2>1
<1> QED
  BY <1>1, <1>2, <1>7, <1>8 DEF Inv

-----------------------------------------------------------------------------
(***************************************************************************)
(* Functions defined by recursion up to a bound, as in GetAddr_ and        *)
(* SelectTried, and least elements.                                        *)
(***************************************************************************)
LEMMA LeastNat ==
    ASSUME NEW S \in SUBSET Nat, S # {}
    PROVE  \E x \in S : \A y \in S : x <= y
<1>1. PICK x \in S : \A y \in S : ~(<<y, x>> \in OpToRel(<, Nat))
  BY NatLessThanWellFounded, WFMin
<1>2. ASSUME NEW y \in S, y < x PROVE FALSE
  <2>1. <<y, x>> \in OpToRel(<, Nat)
    BY <1>2 DEF OpToRel
  <2> QED
    BY <1>1, <2>1
<1>3. \A y \in S : x <= y
  BY <1>2
<1> QED
  BY <1>3

\* f holds the index after each of the first m swaps of GetAddr_.
Swaps(f, I, r, m) ==
    f = [i \in 0..m |-> IF i = 0 THEN I ELSE SwapRandom(f[i - 1], i, r[i])]

LEMMA SwapsExist ==
    ASSUME NEW I, NEW r, NEW m \in Nat
    PROVE  \E f : Swaps(f, I, r, m)
<1> DEFINE T == {k \in Nat : ~\E f : Swaps(f, I, r, k)}
<1>1. T = {}
  <2>1. SUFFICES ASSUME T # {} PROVE FALSE
    OBVIOUS
  <2>2. PICK k \in T : \A j \in T : k <= j
    BY <2>1, LeastNat
  <2>3. CASE k = 0
    <3>1. Swaps([i \in 0..0 |-> I], I, r, 0)
      BY DEF Swaps
    <3> QED
      BY <2>2, <2>3, <3>1
  <2>4. CASE k # 0
    <3>1. k - 1 \in Nat /\ k - 1 \notin T
      BY <2>2, <2>4
    <3>2. PICK f : Swaps(f, I, r, k - 1)
      BY <3>1
    <3> DEFINE g == [i \in 0..k |-> IF i = k THEN SwapRandom(f[k - 1], k, r[k]) ELSE f[i]]
    <3>3. \A i \in 0 .. k - 1 : f[i] = IF i = 0 THEN I ELSE SwapRandom(f[i - 1], i, r[i])
      BY <3>2 DEF Swaps
    <3>4. \A i \in 0..k : g[i] = IF i = 0 THEN I ELSE SwapRandom(g[i - 1], i, r[i])
      <4> TAKE i \in 0..k
      <4>1. CASE i = k
        <5>1. k - 1 \in 0..k /\ k - 1 # k
          BY <3>1
        <5> QED
          BY <2>4, <4>1, <5>1
      <4>2. CASE i # k /\ i # 0
        <5>1. i - 1 \in 0..k /\ i - 1 # k /\ i \in 0 .. k - 1
          BY <3>1, <4>2
        <5> QED
          BY <3>3, <4>2, <5>1
      <4>3. CASE i # k /\ i = 0
        <5>1. i \in 0 .. k - 1
          BY <3>1, <4>3
        <5> QED
          BY <3>3, <4>3, <5>1
      <4> QED
        BY <4>1, <4>2, <4>3
    <3>5. g = [i \in 0..k |-> g[i]]
      OBVIOUS
    <3> HIDE DEF g
    <3>6. Swaps(g, I, r, k)
      BY <3>4, <3>5 DEF Swaps
    <3> QED
      BY <2>2, <3>6
  <2> QED
    BY <2>3, <2>4
<1> QED
  BY <1>1

\* The shuffling of GetAddr_ keeps the index in step.
LEMMA SwapsInStep ==
    ASSUME NEW I, InStep(I), NEW m \in 0 .. Len(I.random),
           NEW r \in [1..m -> 1..Len(I.random)], NEW f, Swaps(f, I, r, m)
    PROVE  /\ InStep(f[m]) /\ f[m].new = I.new /\ DOMAIN f[m].info = DOMAIN I.info
           /\ \A n \in DOMAIN I.info : SameEntry(I.info[n], f[m].info[n])
<1> DEFINE Kin(J) == /\ InStep(J) /\ J.new = I.new /\ DOMAIN J.info = DOMAIN I.info
                     /\ DOMAIN J.random = DOMAIN I.random
                     /\ \A n \in DOMAIN I.info : SameEntry(I.info[n], J.info[n])
           T == {k \in Nat : k <= m /\ ~Kin(f[k])}
<1>1. m \in Nat /\ Len(I.random) \in Nat /\ DOMAIN I.random = 1..Len(I.random) /\ m <= Len(I.random)
  BY LenProperties DEF InStep
<1>2. \A i \in 0..m : f[i] = IF i = 0 THEN I ELSE SwapRandom(f[i - 1], i, r[i])
  BY DEF Swaps
<1>3. T = {}
  <2>1. SUFFICES ASSUME T # {} PROVE FALSE
    OBVIOUS
  <2>2. PICK k \in T : \A j \in T : k <= j
    BY <2>1, LeastNat
  <2>3. CASE k = 0
    <3>1. f[0] = I
      BY <1>1, <1>2
    <3>2. Kin(I)
      BY DEF SameEntry
    <3> QED
      BY <2>2, <2>3, <3>1, <3>2
  <2>4. CASE k # 0
    <3>1. k - 1 \in Nat /\ k - 1 <= m /\ k \in 1..m /\ k \in 0..m
      BY <1>1, <2>2, <2>4
    <3>2. k - 1 \notin T
      BY <2>2, <3>1
    <3> DEFINE J == f[k - 1]
               K == f[k]
    <3>3. Kin(J)
      BY <3>1, <3>2
    <3>4. K = SwapRandom(J, k, r[k]) /\ ~Kin(K)
      BY <1>2, <2>2, <2>4, <3>1
    <3>5. k \in DOMAIN J.random /\ r[k] \in DOMAIN J.random
      BY <1>1, <3>1, <3>3
    <3> HIDE DEF J, K
    <3>6. /\ InStep(K) /\ K.new = J.new /\ DOMAIN K.info = DOMAIN J.info
          /\ DOMAIN K.random = DOMAIN J.random
          /\ \A n \in DOMAIN J.info : SameEntry(J.info[n], K.info[n])
      BY <3>3, <3>4, <3>5, SwapInStep
    <3>7. Kin(K)
      BY <3>3, <3>6 DEF SameEntry
    <3> QED
      BY <3>4, <3>7
  <2> QED
    BY <2>3, <2>4
<1>4. Kin(f[m])
  BY <1>1, <1>3
<1> QED
  BY <1>4

LEMMA GetAddrCount ==
    ASSUME NEW len \in Nat
    PROVE  /\ (ADDRMAN_GETADDR_MAX_PCT * len) \div 100 \in 0..len
<1> DEFINE p == ADDRMAN_GETADDR_MAX_PCT
<1>1. p \in Nat /\ p <= 100
  BY AddrManAssumption
<1> HIDE DEF p
<1>2. p * len \in Nat /\ p * len <= 100 * len
  BY <1>1
<1> DEFINE x == p * len
<1>3. x \in Nat /\ x <= 100 * len
  BY <1>2
<1> HIDE DEF x
<1>4. x \div 100 \in 0..len
  BY <1>3
<1> QED
  BY <1>4 DEF x, p

LEMMA GetAddrInv ==
    ASSUME Inv, GetAddr
    PROVE  Inv'
<1> DEFINE nNodes == (ADDRMAN_GETADDR_MAX_PCT * Len(vRandom)) \div 100
<1>1. PICK r \in [1..nNodes -> 1..Len(vRandom)] :
        LET I[i \in 0..nNodes] == IF i = 0 THEN Index ELSE SwapRandom(I[i - 1], i, r[i])
        IN  Become(I[nNodes])
  BY DEF GetAddr
<1> DEFINE I[i \in 0..nNodes] == IF i = 0 THEN Index ELSE SwapRandom(I[i - 1], i, r[i])
<1>2. Become(I[nNodes]) /\ UNCHANGED <<nIdCount, nTried, vvTried, vvNew, peers>>
  BY <1>1 DEF GetAddr
<1>3. /\ nIdCount \in 0 .. MaxId /\ DOMAIN mapInfo \subseteq 0 .. nIdCount - 1
      /\ InStep(Index) /\ NewInStep(mapInfo, vvNew) /\ TriedInStep(mapInfo, vvTried)
      /\ nTried = Cardinality(Tried(mapInfo)) /\ FileInStep(peers)
  BY DEF Inv
<1>4. nNodes \in 0..Len(vRandom) /\ Len(vRandom) \in Nat
  BY <1>3, IndexFields, LenProperties, GetAddrCount DEF InStep
<1>5. Swaps(I, Index, r, nNodes)
  <2> HIDE DEF nNodes
  <2>1. PICK f : Swaps(f, Index, r, nNodes)
    BY <1>4, SwapsExist
  <2> QED
    BY <2>1 DEF Swaps
<1> DEFINE J == I[nNodes]
<1>6. /\ InStep(J) /\ J.new = nNew /\ DOMAIN J.info = DOMAIN mapInfo
      /\ \A n \in DOMAIN mapInfo : SameEntry(mapInfo[n], J.info[n])
  <2> HIDE DEF nNodes, I
  <2> DEFINE F == Index
  <2>1. F.info = mapInfo /\ F.new = nNew /\ F.random = vRandom /\ InStep(F)
    BY <1>3, IndexFields
  <2>2. Swaps(I, F, r, nNodes) /\ nNodes \in 0..Len(F.random)
        /\ r \in [1..nNodes -> 1..Len(F.random)]
    BY <1>1, <1>4, <1>5, <2>1
  <2> HIDE DEF F
  <2>3. /\ InStep(J) /\ J.new = F.new /\ DOMAIN J.info = DOMAIN F.info
        /\ \A n \in DOMAIN F.info : SameEntry(F.info[n], J.info[n])
    BY <2>1, <2>2, SwapsInStep
  <2> QED
    BY <2>1, <2>3
<1>7. Become(J)
  BY <1>2
<1> HIDE DEF J, I, nNodes
<1>8. Index' = J /\ mapInfo' = J.info
  BY <1>6, <1>7, BecomesIndex DEF InStep
<1>9. Tried(mapInfo') = Tried(mapInfo) /\ Untried(mapInfo') = Untried(mapInfo)
  BY <1>6, <1>8 DEF Tried, Untried, SameEntry
<1>10. TriedInStep(mapInfo', vvTried)
  <2>1. \A n \in Tried(mapInfo) : SameEntry(mapInfo[n], mapInfo'[n])
    BY <1>6, <1>8 DEF Tried
  <2> QED
    BY <1>3, <1>9, <2>1, SameTried
<1>11. NewInStep(mapInfo', vvNew)
  <2>1. \A n \in DOMAIN mapInfo : mapInfo'[n].nRefCount = mapInfo[n].nRefCount
    BY <1>6, <1>8 DEF SameEntry
  <2>2. Untried(mapInfo) \subseteq DOMAIN mapInfo /\ DOMAIN mapInfo' = DOMAIN mapInfo
    BY <1>6, <1>8 DEF Untried
  <2> QED
    BY <1>3, <1>9, <2>1, <2>2 DEF NewInStep
<1> QED
  BY <1>2, <1>3, <1>6, <1>8, <1>9, <1>10, <1>11 DEF Inv

-----------------------------------------------------------------------------
(***************************************************************************)
(* SelectTried and MakeTried.                                              *)
(***************************************************************************)
\* v with what is at i and j exchanged.
Exchanged(v, i, j) == [v EXCEPT ![j] = v[i], ![i] = v[j]]

LEMMA ExchangeLists ==
    ASSUME NEW S, NEW v, Lists(v, S), NEW i \in DOMAIN v, NEW j \in DOMAIN v
    PROVE  /\ Lists(Exchanged(v, i, j), S) /\ DOMAIN Exchanged(v, i, j) = DOMAIN v
           /\ Len(Exchanged(v, i, j)) = Len(v)
<1> DEFINE w == Exchanged(v, i, j)
           half == [v EXCEPT ![j] = v[i]]
<1>1. v \in Seq(S) /\ DOMAIN v = 1..Len(v) /\ \A x \in DOMAIN v : v[x] \in S
  BY LenProperties, ElementOfSeq DEF Lists
<1>2. half \in Seq(S) /\ Len(half) = Len(v)
  BY <1>1, ExceptSeq
<1>3. w = [half EXCEPT ![i] = v[j]]
  BY DEF Exchanged
<1>4. /\ DOMAIN w = DOMAIN v
      /\ \A x \in DOMAIN v : w[x] = IF x = i THEN v[j] ELSE IF x = j THEN v[i] ELSE v[x]
  BY DEF Exchanged
<1>5. w \in Seq(S) /\ Len(w) = Len(v)
  <2> HIDE DEF half, w
  <2> QED
    BY <1>1, <1>2, <1>3, ExceptSeq
<1> HIDE DEF w
<1>6. ASSUME NEW n \in S PROVE \E x \in DOMAIN w : w[x] = n
  <2>1. PICK y \in DOMAIN v : v[y] = n
    BY DEF Lists
  <2>2. CASE y = i
    BY <1>4, <2>1, <2>2
  <2>3. CASE y = j
    BY <1>4, <2>1, <2>3
  <2>4. CASE y # i /\ y # j
    BY <1>4, <2>1, <2>4
  <2> QED
    BY <2>2, <2>3, <2>4
<1>7. \A x, y \in DOMAIN w : w[x] = w[y] => x = y
  <2>1. \A x, y \in DOMAIN v : v[x] = v[y] => x = y
    BY DEF Lists
  <2> QED
    BY <1>4, <2>1
<1> QED
  BY <1>4, <1>5, <1>6, <1>7 DEF Lists, w

\* f holds the bucket after each of the first m exchanges of SelectTried.
Shuffles(f, v, r, m) ==
    f = [i \in 0..m |-> IF i = 0 THEN v
                        ELSE [f[i - 1] EXCEPT ![r[i]] = f[i - 1][i], ![i] = f[i - 1][r[i]]]]

LEMMA ShufflesExist ==
    ASSUME NEW v, NEW r, NEW m \in Nat
    PROVE  \E f : Shuffles(f, v, r, m)
<1> DEFINE T == {k \in Nat : ~\E f : Shuffles(f, v, r, k)}
           Exch(f, i) == [f[i - 1] EXCEPT ![r[i]] = f[i - 1][i], ![i] = f[i - 1][r[i]]]
<1>1. T = {}
  <2>1. SUFFICES ASSUME T # {} PROVE FALSE
    OBVIOUS
  <2>2. PICK k \in T : \A j \in T : k <= j
    BY <2>1, LeastNat
  <2>3. CASE k = 0
    <3>1. Shuffles([i \in 0..0 |-> v], v, r, 0)
      BY DEF Shuffles
    <3> QED
      BY <2>2, <2>3, <3>1
  <2>4. CASE k # 0
    <3>1. k - 1 \in Nat /\ k - 1 \notin T
      BY <2>2, <2>4
    <3>2. PICK f : Shuffles(f, v, r, k - 1)
      BY <3>1
    <3> DEFINE g == [i \in 0..k |-> IF i = k THEN Exch(f, k) ELSE f[i]]
    <3>3. \A i \in 0 .. k - 1 : f[i] = IF i = 0 THEN v ELSE Exch(f, i)
      BY <3>2 DEF Shuffles
    <3>4. \A i \in 0..k : g[i] = IF i = 0 THEN v ELSE Exch(g, i)
      <4> TAKE i \in 0..k
      <4>1. CASE i = k
        <5>1. k - 1 \in 0..k /\ k - 1 # k
          BY <3>1
        <5>2. g[i - 1] = f[i - 1] /\ g[i] = Exch(f, i)
          BY <4>1, <5>1
        <5> QED
          BY <2>4, <4>1, <5>2
      <4>2. CASE i # k /\ i # 0
        <5>1. i - 1 \in 0..k /\ i - 1 # k /\ i \in 0 .. k - 1
          BY <3>1, <4>2
        <5>2. g[i - 1] = f[i - 1] /\ g[i] = f[i] /\ f[i] = Exch(f, i)
          BY <3>3, <4>2, <5>1
        <5> QED
          BY <4>2, <5>2
      <4>3. CASE i # k /\ i = 0
        <5>1. i \in 0 .. k - 1
          BY <3>1, <4>3
        <5> QED
          BY <3>3, <4>3, <5>1
      <4> QED
        BY <4>1, <4>2, <4>3
    <3>5. g = [i \in 0..k |-> g[i]]
      OBVIOUS
    <3> HIDE DEF g
    <3>6. Shuffles(g, v, r, k)
      BY <3>4, <3>5 DEF Shuffles
    <3> QED
      BY <2>2, <3>6
  <2> QED
    BY <2>3, <2>4
<1> QED
  BY <1>1

LEMMA ShufflesLists ==
    ASSUME NEW S, NEW v, Lists(v, S), NEW m \in 0..Len(v), NEW r \in [1..m -> 1..Len(v)],
           NEW f, Shuffles(f, v, r, m), NEW k \in 0..m
    PROVE  Lists(f[k], S) /\ DOMAIN f[k] = DOMAIN v /\ Len(f[k]) = Len(v)
<1> DEFINE Same(w) == Lists(w, S) /\ DOMAIN w = DOMAIN v /\ Len(w) = Len(v)
           T == {j \in Nat : j <= m /\ ~Same(f[j])}
<1>1. m \in Nat /\ Len(v) \in Nat /\ DOMAIN v = 1..Len(v) /\ m <= Len(v)
  BY LenProperties DEF Lists
<1>2. \A i \in 0..m : f[i] = IF i = 0 THEN v ELSE Exchanged(f[i - 1], i, r[i])
  BY DEF Shuffles, Exchanged
<1>3. T = {}
  <2>1. SUFFICES ASSUME T # {} PROVE FALSE
    OBVIOUS
  <2>2. PICK j \in T : \A i \in T : j <= i
    BY <2>1, LeastNat
  <2>3. CASE j = 0
    <3>1. f[0] = v
      BY <1>1, <1>2
    <3> QED
      BY <2>2, <2>3, <3>1
  <2>4. CASE j # 0
    <3>1. j - 1 \in Nat /\ j - 1 <= m /\ j \in 1..m /\ j \in 0..m
      BY <1>1, <2>2, <2>4
    <3>2. j - 1 \notin T
      BY <2>2, <3>1
    <3> DEFINE w == f[j - 1]
    <3>3. Same(w)
      BY <3>1, <3>2
    <3>4. f[j] = Exchanged(w, j, r[j]) /\ ~Same(f[j])
      BY <1>2, <2>2, <2>4, <3>1
    <3>5. j \in DOMAIN w /\ r[j] \in DOMAIN w
      BY <1>1, <3>1, <3>3
    <3> DEFINE x == r[j]
    <3>6. x \in DOMAIN w /\ Lists(w, S)
      BY <3>3, <3>5
    <3> HIDE DEF w, x
    <3>7. /\ Lists(Exchanged(w, j, x), S) /\ DOMAIN Exchanged(w, j, x) = DOMAIN w
          /\ Len(Exchanged(w, j, x)) = Len(w)
      BY <3>5, <3>6, ExchangeLists
    <3> QED
      BY <3>3, <3>4, <3>7 DEF x
  <2> QED
    BY <2>3, <2>4
<1> QED
  BY <1>1, <1>3

\* SelectTried rearranges the bucket and names a place of it.
LEMMA SelectTriedGives ==
    ASSUME NEW S \in SUBSET DOMAIN mapInfo, NEW v, Lists(v, S), Len(v) # 0,
           \A n \in S : mapInfo[n].nLastSuccess \in Nat,
           NEW r \in Draws(Len(v)), NEW R, R = SelectTried(v, r)
    PROVE  Lists(R.vTried, S) /\ Len(R.vTried) = Len(v) /\ R.nPos \in 1..Len(v)
<1> DEFINE m == IF Len(v) < ADDRMAN_TRIED_ENTRIES_INSPECT_ON_EVICT
                THEN Len(v) ELSE ADDRMAN_TRIED_ENTRIES_INSPECT_ON_EVICT
           shuffled[i \in 0 .. Len(r)] ==
             IF i = 0 THEN v
             ELSE [shuffled[i - 1] EXCEPT ![r[i]] = shuffled[i - 1][i],
                                          ![i] = shuffled[i - 1][r[i]]]
           seen(i) == mapInfo[shuffled[i - 1][r[i]]].nLastSuccess
           Oldest(i) == /\ \A j \in DOMAIN r : seen(i) <= seen(j)
                        /\ \A j \in 1 .. i - 1 : seen(j) # seen(i)
           oldest == CHOOSE i \in DOMAIN r : Oldest(i)
<1>1. Len(v) \in Nat \ {0} /\ DOMAIN v = 1..Len(v) /\ \A i \in DOMAIN v : v[i] \in S
  BY LenProperties, ElementOfSeq DEF Lists
<1>2. m \in 1..Len(v) /\ r \in [1..m -> 1..Len(v)]
  BY <1>1, AddrManAssumption DEF Draws
<1> HIDE DEF m
<1>3. r \in Seq(1..Len(v)) /\ Len(r) = m /\ DOMAIN r = 1..m
  BY <1>1, <1>2
<1>4. Shuffles(shuffled, v, r, m)
  <2>1. m \in Nat
    BY <1>1, <1>2
  <2>2. \E f : Shuffles(f, v, r, m)
    BY <2>1, ShufflesExist
  <2> QED
    BY <1>3, <2>2 DEF Shuffles
<1>5. R = [vTried |-> shuffled[Len(r)], nPos |-> r[oldest]]
  BY DEF SelectTried
<1> HIDE DEF shuffled
<1>6. \A k \in 0..m : Lists(shuffled[k], S) /\ DOMAIN shuffled[k] = DOMAIN v
                      /\ Len(shuffled[k]) = Len(v)
  BY <1>1, <1>2, <1>4, ShufflesLists
<1>7. \A i \in DOMAIN r : seen(i) \in Nat
  <2> TAKE i \in DOMAIN r
  <2> DEFINE w == shuffled[i - 1]
  <2>1. i - 1 \in 0..m /\ r[i] \in 1..Len(v)
    BY <1>1, <1>2, <1>3
  <2>2. Lists(w, S) /\ DOMAIN w = 1..Len(v)
    BY <1>1, <1>6, <2>1
  <2> HIDE DEF w
  <2>3. w[r[i]] \in S
    BY <2>1, <2>2, ElementOfSeq, LenProperties DEF Lists
  <2> QED
    BY <2>3 DEF w
<1> DEFINE Values == {seen(i) : i \in DOMAIN r}
<1> HIDE DEF seen
<1>8. PICK a \in Values : \A y \in Values : a <= y
  <2>1. Values \in SUBSET Nat
    BY <1>7
  <2>2. Values # {}
    <3>1. 1 \in DOMAIN r
      BY <1>1, <1>2, <1>3
    <3>2. seen(1) \in Values
      BY <3>1
    <3> QED
      BY <3>2
  <2> HIDE DEF Values
  <2> QED
    BY <2>1, <2>2, LeastNat
<1> DEFINE Places == {i \in DOMAIN r : seen(i) = a}
<1>9. PICK p \in Places : \A y \in Places : p <= y
  <2>1. Places \in SUBSET Nat /\ Places # {}
    BY <1>1, <1>2, <1>3, <1>8
  <2> HIDE DEF Places
  <2> QED
    BY <2>1, LeastNat
<1>10. p \in DOMAIN r /\ Oldest(p)
  <2>1. p \in 1..m /\ seen(p) = a
    BY <1>3, <1>9
  <2>2. \A j \in DOMAIN r : seen(p) <= seen(j)
    BY <1>8, <2>1
  <2>3. \A j \in 1 .. p - 1 : seen(j) # seen(p)
    <3> TAKE j \in 1 .. p - 1
    <3>1. j \in DOMAIN r /\ ~(p <= j)
      BY <1>2, <1>3, <2>1
    <3> QED
      BY <1>9, <2>1, <3>1
  <2> QED
    BY <1>3, <2>1, <2>2, <2>3
<1> HIDE DEF Oldest
<1>11. oldest \in DOMAIN r
  BY <1>10, Zenon
<1> HIDE DEF oldest
<1>12. r[oldest] \in 1..Len(v)
  BY <1>2, <1>3, <1>11
<1>13. m \in 0..m
  BY <1>1, <1>2
<1> QED
  BY <1>3, <1>5, <1>6, <1>12, <1>13

\* A list with one element more, and with one in the place of another.
LEMMA AppendLists ==
    ASSUME NEW S, NEW v, Lists(v, S), NEW n, n \notin S
    PROVE  Lists(Append(v, n), S \cup {n}) /\ Len(Append(v, n)) = Len(v) + 1
<1>1. v \in Seq(S) /\ Len(v) \in Nat /\ DOMAIN v = 1..Len(v) /\ \A x \in DOMAIN v : v[x] \in S
  BY LenProperties, ElementOfSeq DEF Lists
<1>2. v \in Seq(S \cup {n})
  BY <1>1
<1> DEFINE w == Append(v, n)
<1>3. /\ w \in Seq(S \cup {n}) /\ Len(w) = Len(v) + 1 /\ DOMAIN w = 1 .. Len(v) + 1
      /\ w[Len(v) + 1] = n /\ \A x \in DOMAIN v : w[x] = v[x]
  BY <1>1, <1>2
<1> HIDE DEF w
<1>4. \A m \in S \cup {n} : \E x \in DOMAIN w : w[x] = m
  <2>1. \A m \in S : \E x \in DOMAIN v : v[x] = m
    BY DEF Lists
  <2> QED
    BY <1>1, <1>3, <2>1
<1>5. \A x, y \in DOMAIN w : w[x] = w[y] => x = y
  <2>1. \A x, y \in DOMAIN v : v[x] = v[y] => x = y
    BY DEF Lists
  <2>2. \A x \in DOMAIN w : x = Len(v) + 1 \/ x \in DOMAIN v
    BY <1>1, <1>3
  <2> QED
    BY <1>1, <1>3, <2>1, <2>2
<1> QED
  BY <1>3, <1>4, <1>5 DEF Lists, w

LEMMA ReplaceLists ==
    ASSUME NEW S, NEW v, Lists(v, S), NEW p \in DOMAIN v, NEW n, n \notin S
    PROVE  /\ Lists([v EXCEPT ![p] = n], (S \ {v[p]}) \cup {n})
           /\ Len([v EXCEPT ![p] = n]) = Len(v)
<1> DEFINE w == [v EXCEPT ![p] = n]
           T == (S \ {v[p]}) \cup {n}
<1>1. v \in Seq(S) /\ Len(v) \in Nat /\ DOMAIN v = 1..Len(v) /\ \A x \in DOMAIN v : v[x] \in S
  BY LenProperties, ElementOfSeq DEF Lists
<1>2. \A x, y \in DOMAIN v : v[x] = v[y] => x = y
  BY DEF Lists
<1>3. /\ DOMAIN w = DOMAIN v /\ w[p] = n /\ \A x \in DOMAIN v \ {p} : w[x] = v[x]
      /\ w = [x \in 1..Len(v) |-> w[x]]
  BY <1>1
<1> HIDE DEF w
<1>4. \A x \in DOMAIN w : w[x] \in T
  BY <1>1, <1>2, <1>3
<1>5. w \in Seq(T) /\ Len(w) = Len(v)
  <2> HIDE DEF T
  <2>1. w \in [1..Len(v) -> T]
    BY <1>1, <1>3, <1>4
  <2> QED
    BY <1>1, <2>1
<1>6. \A m \in T : \E x \in DOMAIN w : w[x] = m
  <2>1. \A m \in S : \E x \in DOMAIN v : v[x] = m
    BY DEF Lists
  <2> QED
    BY <1>3, <2>1
<1>7. \A x, y \in DOMAIN w : w[x] = w[y] => x = y
  BY <1>1, <1>2, <1>3
<1> QED
  BY <1>5, <1>6, <1>7 DEF Lists, w

\* An entry that moves to the tried table at time t, and one that is evicted.
Promoted(e, t) == [e EXCEPT !.nLastSuccess = t, !.nRefCount = 0, !.fInTried = TRUE]
Demoted(e)     == [e EXCEPT !.fInTried = FALSE, !.nRefCount = 1]

LEMMA MovedEntries ==
    ASSUME NEW e \in Entry, NEW t \in Time
    PROVE  /\ Promoted(e, t) \in Entry /\ Promoted(e, t).addr = e.addr
           /\ Promoted(e, t).nRandomPos = e.nRandomPos /\ Promoted(e, t).nLastSuccess # 0
           /\ Promoted(e, t).nRefCount = 0 /\ Promoted(e, t).fInTried
           /\ Demoted(e) \in Entry /\ Demoted(e).addr = e.addr
           /\ Demoted(e).nRandomPos = e.nRandomPos
           /\ Demoted(e).nRefCount = 1 /\ ~Demoted(e).fInTried
<1>1. t # 0 /\ t \in Time \cup {0}
  BY AddrManAssumption
<1> DEFINE e1 == [e EXCEPT !.nLastSuccess = t]
           e2 == [e1 EXCEPT !.nRefCount = 0]
           e3 == [e2 EXCEPT !.fInTried = TRUE]
           d1 == [e EXCEPT !.fInTried = FALSE]
           d2 == [d1 EXCEPT !.nRefCount = 1]
<1>2. e1 \in Entry /\ e1.addr = e.addr /\ e1.nRandomPos = e.nRandomPos /\ e1.nLastSuccess = t
  BY <1>1 DEF Entry
<1>3. d1 \in Entry /\ d1.addr = e.addr /\ d1.nRandomPos = e.nRandomPos /\ d1.fInTried = FALSE
  BY DEF Entry
<1> HIDE DEF e1, d1
<1>4. /\ e2 \in Entry /\ e2.addr = e.addr /\ e2.nRandomPos = e.nRandomPos
      /\ e2.nLastSuccess = t /\ e2.nRefCount = 0
  BY <1>2 DEF Entry
<1>5. /\ d2 \in Entry /\ d2.addr = e.addr /\ d2.nRandomPos = e.nRandomPos
      /\ d2.fInTried = FALSE /\ d2.nRefCount = 1
  BY <1>3 DEF Entry
<1> HIDE DEF e2
<1>6. /\ e3 \in Entry /\ e3.addr = e.addr /\ e3.nRandomPos = e.nRandomPos
      /\ e3.nLastSuccess = t /\ e3.nRefCount = 0 /\ e3.fInTried = TRUE
  BY <1>4 DEF Entry
<1>7. Promoted(e, t) = e3 /\ Demoted(e) = d2
  BY DEF Promoted, Demoted, e1, e2, d1
<1> HIDE DEF e3, d2
<1> QED
  BY <1>1, <1>5, <1>6, <1>7

\* The index stays in step when entries change but keep their address and place.
LEMMA SameIndex ==
    ASSUME InStep(Index), DOMAIN mapInfo' = DOMAIN mapInfo,
           \A n \in DOMAIN mapInfo : /\ mapInfo'[n] \in Entry
                                     /\ mapInfo'[n].addr = mapInfo[n].addr
                                     /\ mapInfo'[n].nRandomPos = mapInfo[n].nRandomPos,
           UNCHANGED <<mapAddr, vRandom>>, nNew' = Cardinality(Untried(mapInfo'))
    PROVE  InStep(Index)'
<1> DEFINE J == [info |-> mapInfo', addr |-> mapAddr, random |-> vRandom, new |-> nNew']
<1>1. /\ J.info = mapInfo' /\ J.addr = mapAddr /\ J.random = vRandom /\ J.new = nNew'
      /\ IsIndex(J)
  BY DEF IsIndex
<1>2. /\ DOMAIN mapInfo \subseteq Id
      /\ vRandom \in Seq(DOMAIN mapInfo) /\ Len(vRandom) = Cardinality(DOMAIN mapInfo)
      /\ \A m \in DOMAIN mapInfo : /\ mapInfo[m].nRandomPos \in DOMAIN vRandom
                                   /\ vRandom[mapInfo[m].nRandomPos] = m
      /\ \A i \in DOMAIN vRandom : mapInfo[vRandom[i]].nRandomPos = i
  BY DEF InStep, Index
<1>3. \A i \in DOMAIN vRandom : vRandom[i] \in DOMAIN mapInfo
  BY <1>2, LenProperties, ElementOfSeq
<1>4. Named(Index) /\ Index.info = mapInfo /\ Index.addr = mapAddr
  BY DEF InStep, Index
<1>5. Index' = J
  BY DEF Index
<1> HIDE DEF J
<1>6. Named(J)
  BY <1>1, <1>4 DEF Named
<1>7. InStep(J)
  BY <1>1, <1>2, <1>3, <1>6 DEF InStep
<1> QED
  BY <1>5, <1>7

\* An entry that leaves the new buckets has no reference left.
Unreferenced(e, t) == [e EXCEPT !.nLastSuccess = t, !.nRefCount = 0]

LEMMA LeaveNewGives ==
    ASSUME NEW n \in DOMAIN mapInfo, NEW t, mapInfo[n] \in Entry,
           mapInfo[n].nRefCount = Cardinality(Refs(vvNew, n)), NEW L, L = LeaveNew(n, t)
    PROVE  /\ DOMAIN L = DOMAIN mapInfo /\ \A m \in DOMAIN mapInfo \ {n} : L[m] = mapInfo[m]
           /\ L[n] = Unreferenced(mapInfo[n], t)
           /\ L = [m \in DOMAIN L |-> L[m]]
<1> DEFINE c == Cardinality(Refs(vvNew, n))
<1>1. LeaveNew(n, t) = [mapInfo EXCEPT ![n].nLastSuccess = t, ![n].nRefCount = @ - c]
  BY DEF LeaveNew, Refs
<1>2. c \in Nat /\ mapInfo[n].nRefCount = c
  BY BucketsFinite DEF Refs
<1> HIDE DEF c
<1>3. [mapInfo[n] EXCEPT !.nLastSuccess = t].nRefCount = c
  BY <1>2 DEF Entry
<1>4. L[n] = [mapInfo[n] EXCEPT !.nLastSuccess = t, !.nRefCount = c - c]
  BY <1>1, <1>2, <1>3
<1>5. c - c = 0
  BY <1>2
<1> QED
  BY <1>1, <1>4, <1>5 DEF Unreferenced

\* The tried entries of bucket k, and what the invariant says of it.
TriedIn(info, k) == {n \in Tried(info) : BucketOf(info, n) = k}
BucketInStep(info, v, k) == Lists(v, TriedIn(info, k)) /\ Len(v) <= ADDRMAN_TRIED_BUCKET_SIZE

LEMMA TriedInStepIs ==
    ASSUME NEW info, NEW tried
    PROVE  TriedInStep(info, tried) <=>
             /\ DOMAIN tried = TriedBucket /\ tried = [k \in TriedBucket |-> tried[k]]
             /\ \A k \in TriedBucket : BucketInStep(info, tried[k], k)
             /\ \A n \in Tried(info) : info[n].nLastSuccess # 0
BY DEF TriedInStep, BucketInStep, TriedIn

\* What Inv says before a call of Good_ about an entry n that is not tried.
LEMMA BeforeGood ==
    ASSUME Inv, NEW n \in Untried(mapInfo)
    PROVE  /\ n \in DOMAIN mapInfo /\ ~mapInfo[n].fInTried
           /\ DOMAIN mapInfo \subseteq Id
           /\ \A m \in DOMAIN mapInfo : mapInfo[m] \in Entry
           /\ \A m \in DOMAIN mapInfo : mapInfo[m].nRefCount = Cardinality(Refs(vvNew, m))
           /\ vvNew \in [NewBucket -> SUBSET Untried(mapInfo)]
           /\ \A b \in NewBucket : /\ IsFiniteSet(vvNew[b]) /\ Cardinality(vvNew[b]) \in Nat
                                   /\ Cardinality(vvNew[b]) <= ADDRMAN_NEW_BUCKET_SIZE
           /\ IsFiniteSet(Tried(mapInfo)) /\ IsFiniteSet(Untried(mapInfo))
           /\ nTried = Cardinality(Tried(mapInfo)) /\ nNew = Cardinality(Untried(mapInfo))
           /\ \A m \in Untried(mapInfo) :
                 mapInfo[m].nRefCount \in 1 .. ADDRMAN_NEW_BUCKETS_PER_ADDRESS
<1>1. InStep(Index) /\ NewInStep(mapInfo, vvNew)
  BY DEF Inv
<1>2. /\ DOMAIN mapInfo \subseteq Id /\ \A m \in DOMAIN mapInfo : mapInfo[m] \in Entry
      /\ nNew = Cardinality(Untried(mapInfo))
  BY <1>1, IndexFields DEF InStep
<1>3. n \in DOMAIN mapInfo /\ ~mapInfo[n].fInTried
  BY DEF Untried, Tried
<1>4. Tried(mapInfo) \in SUBSET Id /\ Untried(mapInfo) \in SUBSET Id
  BY <1>2 DEF Tried, Untried
<1>5. /\ vvNew \in [NewBucket -> SUBSET Untried(mapInfo)]
      /\ \A m \in DOMAIN mapInfo : mapInfo[m].nRefCount = Cardinality(Refs(vvNew, m))
      /\ \A b \in NewBucket : Cardinality(vvNew[b]) <= ADDRMAN_NEW_BUCKET_SIZE
      /\ \A m \in Untried(mapInfo) :
            mapInfo[m].nRefCount \in 1 .. ADDRMAN_NEW_BUCKETS_PER_ADDRESS
  BY <1>1 DEF NewInStep
<1>6. \A b \in NewBucket : IsFiniteSet(vvNew[b]) /\ Cardinality(vvNew[b]) \in Nat
  <2> TAKE b \in NewBucket
  <2>1. vvNew[b] \in SUBSET Id
    BY <1>4, <1>5
  <2> QED
    BY <2>1, IdsFinite
<1>7. nTried = Cardinality(Tried(mapInfo))
  BY DEF Inv
<1> QED
  BY <1>2, <1>3, <1>4, <1>5, <1>6, <1>7, IdsFinite

\* MakeTried into a bucket with room.
LEMMA AppendTriedInv ==
    ASSUME Inv, NEW n \in Untried(mapInfo), NEW t \in Time, NEW k, k = BucketOf(mapInfo, n),
           AppendTried(n, k, t), UNCHANGED <<nIdCount, mapAddr, vRandom, peers>>
    PROVE  Inv'
<1> DEFINE L == LeaveNew(n, t)
<1>1. /\ n \in DOMAIN mapInfo /\ ~mapInfo[n].fInTried
      /\ \A m \in DOMAIN mapInfo : mapInfo[m] \in Entry
      /\ \A m \in DOMAIN mapInfo : mapInfo[m].nRefCount = Cardinality(Refs(vvNew, m))
      /\ vvNew \in [NewBucket -> SUBSET Untried(mapInfo)]
      /\ \A b \in NewBucket : /\ IsFiniteSet(vvNew[b]) /\ Cardinality(vvNew[b]) \in Nat
                              /\ Cardinality(vvNew[b]) <= ADDRMAN_NEW_BUCKET_SIZE
      /\ IsFiniteSet(Tried(mapInfo)) /\ IsFiniteSet(Untried(mapInfo))
      /\ nTried = Cardinality(Tried(mapInfo)) /\ nNew = Cardinality(Untried(mapInfo))
      /\ \A m \in Untried(mapInfo) :
            mapInfo[m].nRefCount \in 1 .. ADDRMAN_NEW_BUCKETS_PER_ADDRESS
  BY BeforeGood
<1>2. /\ Len(vvTried[k]) < ADDRMAN_TRIED_BUCKET_SIZE
      /\ vvTried' = [vvTried EXCEPT ![k] = Append(@, n)]
      /\ mapInfo' = [L EXCEPT ![n].fInTried = TRUE]
      /\ vvNew' = [b \in NewBucket |-> vvNew[b] \ {n}]
      /\ nTried' = nTried + 1 /\ nNew' = nNew - 1
  BY DEF AppendTried
<1>3. /\ DOMAIN L = DOMAIN mapInfo /\ \A m \in DOMAIN mapInfo \ {n} : L[m] = mapInfo[m]
      /\ L[n] = Unreferenced(mapInfo[n], t)
  <2>1. /\ n \in DOMAIN mapInfo /\ mapInfo[n] \in Entry
        /\ mapInfo[n].nRefCount = Cardinality(Refs(vvNew, n))
    BY <1>1
  <2>2. L = LeaveNew(n, t)
    OBVIOUS
  <2> HIDE DEF L
  <2> QED
    BY <2>1, <2>2, LeaveNewGives
<1> HIDE DEF L
<1>4. /\ DOMAIN mapInfo' = DOMAIN mapInfo
      /\ mapInfo'[n] = Promoted(mapInfo[n], t)
      /\ \A m \in DOMAIN mapInfo \ {n} : mapInfo'[m] = mapInfo[m]
  BY <1>1, <1>2, <1>3 DEF Promoted, Unreferenced
<1>5. /\ mapInfo'[n] \in Entry /\ mapInfo'[n].addr = mapInfo[n].addr
      /\ mapInfo'[n].nRandomPos = mapInfo[n].nRandomPos /\ mapInfo'[n].nLastSuccess # 0
      /\ mapInfo'[n].nRefCount = 0 /\ mapInfo'[n].fInTried
  <2>1. mapInfo[n] \in Entry
    BY <1>1
  <2> QED
    BY <1>4, <2>1, MovedEntries
<1>6. Tried(mapInfo') = Tried(mapInfo) \cup {n} /\ Untried(mapInfo') = Untried(mapInfo) \ {n}
  BY <1>1, <1>4, <1>5 DEF Tried, Untried
<1>7. n \notin Tried(mapInfo)
  BY <1>1 DEF Tried
<1>8. nTried' = Cardinality(Tried(mapInfo')) /\ nNew' = Cardinality(Untried(mapInfo'))
  <2> DEFINE A == Tried(mapInfo)
             B == Untried(mapInfo)
  <2>1. IsFiniteSet(A) /\ IsFiniteSet(B) /\ n \notin A /\ n \in B
    BY <1>1, <1>7
  <2>2. /\ nTried' = Cardinality(A) + 1 /\ nNew' = Cardinality(B) - 1
        /\ Tried(mapInfo') = A \cup {n} /\ Untried(mapInfo') = B \ {n}
    BY <1>1, <1>2, <1>6
  <2> HIDE DEF A, B
  <2>3. Cardinality(A \cup {n}) = Cardinality(A) + 1 /\ Cardinality(B \ {n}) = Cardinality(B) - 1
    BY <2>1, OneMore
  <2> QED
    BY <2>2, <2>3
<1>9. InStep(Index)'
  <2>1. InStep(Index)
    BY DEF Inv
  <2> QED
    BY <1>1, <1>4, <1>5, <1>8, <2>1, SameIndex
<1>10. NewInStep(mapInfo, vvNew)'
  <2>1. vvNew' \in [NewBucket -> SUBSET Untried(mapInfo')]
    BY <1>1, <1>2, <1>6
  <2>2. \A b \in NewBucket : Cardinality(vvNew'[b]) <= ADDRMAN_NEW_BUCKET_SIZE
    <3> TAKE b \in NewBucket
    <3>1. Cardinality(vvNew[b] \ {n}) <= Cardinality(vvNew[b])
          /\ Cardinality(vvNew[b] \ {n}) \in Nat
      <4> DEFINE B == vvNew[b]
      <4>1. IsFiniteSet(B) /\ Cardinality(B) \in Nat
        BY <1>1
      <4> HIDE DEF B
      <4>2. /\ Cardinality(B \ {n}) <= Cardinality(B) /\ IsFiniteSet(B \ {n})
        <5>1. IsFiniteSet(B \ {n})
          BY <4>1, OneMore
        <5>2. n \in B => Cardinality(B \ {n}) = Cardinality(B) - 1
          BY <4>1, OneMore
        <5>3. n \notin B => B \ {n} = B
          OBVIOUS
        <5> QED
          BY <4>1, <5>1, <5>2, <5>3
      <4> QED
        BY <4>2, FS_CardinalityType DEF B
    <3>2. ADDRMAN_NEW_BUCKET_SIZE \in Nat
      BY AddrManAssumption
    <3> QED
      BY <1>1, <1>2, <3>1, <3>2
  <2>3. Refs(vvNew', n) = {} /\ \A m \in DOMAIN mapInfo \ {n} : Refs(vvNew', m) = Refs(vvNew, m)
    BY <1>2 DEF Refs
  <2>4. \A m \in DOMAIN mapInfo' : mapInfo'[m].nRefCount = Cardinality(Refs(vvNew', m))
    BY <1>1, <1>4, <1>5, <2>3, FS_EmptySet
  <2>5. \A m \in Untried(mapInfo') : /\ m \in Untried(mapInfo) /\ mapInfo'[m] = mapInfo[m]
    BY <1>4, <1>6 DEF Untried
  <2> QED
    BY <1>1, <2>1, <2>2, <2>4, <2>5 DEF NewInStep
<1>11. TriedInStep(mapInfo, vvTried)'
  <2>1. /\ DOMAIN vvTried = TriedBucket
        /\ \A j \in TriedBucket : BucketInStep(mapInfo, vvTried[j], j)
        /\ \A m \in Tried(mapInfo) : mapInfo[m].nLastSuccess # 0
    BY TriedInStepIs DEF Inv
  <2>2. BucketOf(mapInfo', n) = k /\ k \in TriedBucket
    BY <1>1, <1>5, AddrManAssumption DEF BucketOf, Entry
  <2>3. \A m \in Tried(mapInfo) : mapInfo'[m] = mapInfo[m]
    BY <1>4, <1>7 DEF Tried
  <2>4. /\ TriedIn(mapInfo', k) = TriedIn(mapInfo, k) \cup {n} /\ n \notin TriedIn(mapInfo, k)
        /\ \A j \in TriedBucket \ {k} : TriedIn(mapInfo', j) = TriedIn(mapInfo, j)
    BY <1>6, <1>7, <2>2, <2>3 DEF TriedIn, BucketOf
  <2>5. BucketInStep(mapInfo', vvTried'[k], k)
    <3> DEFINE v == vvTried[k]
               S == TriedIn(mapInfo, k)
    <3>1. Lists(v, S) /\ n \notin S
      BY <2>1, <2>2, <2>4 DEF BucketInStep
    <3>2. vvTried'[k] = Append(v, n) /\ Len(v) < ADDRMAN_TRIED_BUCKET_SIZE
      BY <1>2, <2>1, <2>2
    <3>3. TriedIn(mapInfo', k) = S \cup {n}
      BY <2>4
    <3> HIDE DEF v, S
    <3>4. Lists(Append(v, n), S \cup {n}) /\ Len(Append(v, n)) = Len(v) + 1 /\ Len(v) \in Nat
      <4>1. Lists(Append(v, n), S \cup {n}) /\ Len(Append(v, n)) = Len(v) + 1
        BY <3>1, AppendLists
      <4> QED
        BY <3>1, <4>1, LenProperties DEF Lists
    <3>5. ADDRMAN_TRIED_BUCKET_SIZE \in Nat
      BY AddrManAssumption
    <3> QED
      BY <3>2, <3>3, <3>4, <3>5 DEF BucketInStep
  <2>6. \A j \in TriedBucket : BucketInStep(mapInfo', vvTried'[j], j)
    BY <1>2, <2>1, <2>4, <2>5 DEF BucketInStep
  <2>7. DOMAIN vvTried' = TriedBucket /\ vvTried' = [j \in TriedBucket |-> vvTried'[j]]
    BY <1>2, <2>1
  <2>8. \A m \in Tried(mapInfo') : mapInfo'[m].nLastSuccess # 0
    BY <1>5, <1>6, <2>1, <2>3
  <2>9. TriedInStep(mapInfo', vvTried')
    BY <2>6, <2>7, <2>8, TriedInStepIs
  <2> QED
    BY <2>9
<1> QED
  BY <1>4, <1>8, <1>9, <1>10, <1>11 DEF Inv

\* MakeTried into a full bucket: old returns to a new bucket that has room.
LEMMA EvictTriedInv ==
    ASSUME Inv, NEW n \in Untried(mapInfo), NEW t \in Time, NEW k, k = BucketOf(mapInfo, n),
           NEW origin \in NewBucket, n \in vvNew[origin],
           EvictTried(n, k, origin, t), UNCHANGED <<nIdCount, mapAddr, vRandom, peers>>
    PROVE  Inv'
<1> DEFINE L == LeaveNew(n, t)
<1>1. /\ n \in DOMAIN mapInfo /\ ~mapInfo[n].fInTried
      /\ \A m \in DOMAIN mapInfo : mapInfo[m] \in Entry
      /\ \A m \in DOMAIN mapInfo : mapInfo[m].nRefCount = Cardinality(Refs(vvNew, m))
      /\ vvNew \in [NewBucket -> SUBSET Untried(mapInfo)]
      /\ \A b \in NewBucket : /\ IsFiniteSet(vvNew[b]) /\ Cardinality(vvNew[b]) \in Nat
                              /\ Cardinality(vvNew[b]) <= ADDRMAN_NEW_BUCKET_SIZE
      /\ IsFiniteSet(Tried(mapInfo)) /\ IsFiniteSet(Untried(mapInfo))
      /\ nTried = Cardinality(Tried(mapInfo)) /\ nNew = Cardinality(Untried(mapInfo))
      /\ \A m \in Untried(mapInfo) :
            mapInfo[m].nRefCount \in 1 .. ADDRMAN_NEW_BUCKETS_PER_ADDRESS
  BY BeforeGood
<1>2. PICK r \in Draws(Len(vvTried[k])) :
       LET S   == SelectTried(vvTried[k], r)
           old == S.vTried[S.nPos]
           u   == GetNewBucket[mapInfo[old].addr][mapInfo[old].source]
           to  == IF Cardinality(vvNew[u] \ {n}) < ADDRMAN_NEW_BUCKET_SIZE THEN u ELSE origin
       IN  /\ vvTried' = [vvTried EXCEPT ![k] = [S.vTried EXCEPT ![S.nPos] = n]]
           /\ mapInfo' = [L EXCEPT ![old].fInTried = FALSE, ![old].nRefCount = 1,
                                   ![n].fInTried = TRUE]
           /\ vvNew' = [b \in NewBucket |-> IF b = to THEN (vvNew[b] \ {n}) \cup {old}
                                                      ELSE vvNew[b] \ {n}]
  BY DEF EvictTried
<1>3. /\ Len(vvTried[k]) >= ADDRMAN_TRIED_BUCKET_SIZE /\ nTried' = nTried /\ nNew' = nNew
  BY DEF EvictTried
<1> DEFINE R == SelectTried(vvTried[k], r)
           p == R.nPos
           w == R.vTried
           old == w[p]
           u   == GetNewBucket[mapInfo[old].addr][mapInfo[old].source]
           to  == IF Cardinality(vvNew[u] \ {n}) < ADDRMAN_NEW_BUCKET_SIZE THEN u ELSE origin
<1>4. /\ vvTried' = [vvTried EXCEPT ![k] = [w EXCEPT ![p] = n]]
      /\ mapInfo' = [L EXCEPT ![old].fInTried = FALSE, ![old].nRefCount = 1, ![n].fInTried = TRUE]
      /\ vvNew' = [b \in NewBucket |-> IF b = to THEN (vvNew[b] \ {n}) \cup {old}
                                                 ELSE vvNew[b] \ {n}]
  BY <1>2
<1>5. /\ DOMAIN L = DOMAIN mapInfo /\ \A m \in DOMAIN mapInfo \ {n} : L[m] = mapInfo[m]
      /\ L[n] = Unreferenced(mapInfo[n], t)
  <2>1. /\ n \in DOMAIN mapInfo /\ mapInfo[n] \in Entry
        /\ mapInfo[n].nRefCount = Cardinality(Refs(vvNew, n))
    BY <1>1
  <2>2. L = LeaveNew(n, t)
    OBVIOUS
  <2> HIDE DEF L
  <2> QED
    BY <2>1, <2>2, LeaveNewGives
<1>6. /\ DOMAIN vvTried = TriedBucket
      /\ \A j \in TriedBucket : BucketInStep(mapInfo, vvTried[j], j)
      /\ \A m \in Tried(mapInfo) : mapInfo[m].nLastSuccess # 0
  BY TriedInStepIs DEF Inv
<1>7. k \in TriedBucket
  BY <1>1, AddrManAssumption DEF BucketOf, Entry
<1> HIDE DEF L, R, to, u
<1>8. Lists(w, TriedIn(mapInfo, k)) /\ Len(w) = Len(vvTried[k]) /\ p \in DOMAIN w
  <2> DEFINE v == vvTried[k]
             S == TriedIn(mapInfo, k)
  <2>1. Lists(v, S) /\ r \in Draws(Len(v)) /\ R = SelectTried(v, r)
    BY <1>2, <1>6, <1>7 DEF BucketInStep, R
  <2>2. S \in SUBSET DOMAIN mapInfo
    BY DEF TriedIn, Tried
  <2>3. \A m \in S : mapInfo[m].nLastSuccess \in Nat
    <3>1. \A m \in S : mapInfo[m] \in Entry
      BY <1>1 DEF TriedIn, Tried
    <3> HIDE DEF S
    <3>2. \A m \in S : mapInfo[m].nLastSuccess \in Time \cup {0}
      BY <3>1 DEF Entry
    <3>3. Time \cup {0} \subseteq Nat
      BY AddrManAssumption
    <3> QED
      BY <3>2, <3>3
  <2>4. Len(v) # 0
    BY <1>3, AddrManAssumption
  <2> HIDE DEF v, S
  <2>5. Lists(R.vTried, S) /\ Len(R.vTried) = Len(v) /\ R.nPos \in 1..Len(v)
    BY <2>1, <2>2, <2>3, <2>4, SelectTriedGives
  <2> QED
    BY <2>5, LenProperties DEF Lists, v, S
<1> HIDE DEF p, w
<1>9. old \in TriedIn(mapInfo, k)
  BY <1>8, ElementOfSeq, LenProperties DEF Lists
<1> HIDE DEF old
<1>10. /\ old \in Tried(mapInfo) /\ old # n /\ old \in DOMAIN mapInfo /\ mapInfo[old] \in Entry
       /\ n \notin Tried(mapInfo) /\ n \notin TriedIn(mapInfo, k)
       /\ \A b \in NewBucket : old \notin vvNew[b]
  BY <1>1, <1>9 DEF TriedIn, Tried, Untried
<1>11. /\ DOMAIN mapInfo' = DOMAIN mapInfo
       /\ mapInfo'[n] = Promoted(mapInfo[n], t)
       /\ mapInfo'[old] = Demoted(mapInfo[old])
       /\ \A m \in DOMAIN mapInfo \ {n, old} : mapInfo'[m] = mapInfo[m]
  BY <1>1, <1>4, <1>5, <1>10 DEF Promoted, Demoted, Unreferenced
<1>12. /\ mapInfo'[n] \in Entry /\ mapInfo'[n].addr = mapInfo[n].addr
       /\ mapInfo'[n].nRandomPos = mapInfo[n].nRandomPos /\ mapInfo'[n].nLastSuccess # 0
       /\ mapInfo'[n].nRefCount = 0 /\ mapInfo'[n].fInTried
  <2>1. mapInfo[n] \in Entry
    BY <1>1
  <2> DEFINE e == mapInfo[n]
             f == mapInfo'[n]
  <2>2. e \in Entry /\ f = Promoted(e, t)
    BY <1>11, <2>1
  <2> HIDE DEF e, f
  <2>3. /\ f \in Entry /\ f.addr = e.addr /\ f.nRandomPos = e.nRandomPos /\ f.nLastSuccess # 0
        /\ f.nRefCount = 0 /\ f.fInTried
    BY <2>2, MovedEntries
  <2> QED
    BY <2>3 DEF e, f
<1>13. /\ mapInfo'[old] \in Entry /\ mapInfo'[old].addr = mapInfo[old].addr
       /\ mapInfo'[old].nRandomPos = mapInfo[old].nRandomPos
       /\ mapInfo'[old].nRefCount = 1 /\ ~mapInfo'[old].fInTried
  BY <1>10, <1>11, MovedEntries
<1>14. /\ Tried(mapInfo') = (Tried(mapInfo) \ {old}) \cup {n}
       /\ Untried(mapInfo') = (Untried(mapInfo) \ {n}) \cup {old}
  BY <1>1, <1>10, <1>11, <1>12, <1>13 DEF Tried, Untried
<1>15. nTried' = Cardinality(Tried(mapInfo')) /\ nNew' = Cardinality(Untried(mapInfo'))
  <2> DEFINE A == Tried(mapInfo)
             B == Untried(mapInfo)
             A1 == A \ {old}
             B1 == B \ {n}
  <2>1. /\ IsFiniteSet(A) /\ IsFiniteSet(B) /\ n \notin A /\ n \in B /\ old \in A /\ old \notin B
        /\ n \notin A1 /\ old \notin B1
    BY <1>1, <1>10 DEF Untried
  <2>2. /\ nTried' = Cardinality(A) /\ nNew' = Cardinality(B)
        /\ Tried(mapInfo') = A1 \cup {n} /\ Untried(mapInfo') = B1 \cup {old}
    BY <1>1, <1>3, <1>14
  <2> HIDE DEF A, B
  <2>3. /\ IsFiniteSet(A1) /\ Cardinality(A1) = Cardinality(A) - 1 /\ Cardinality(A) \in Nat
        /\ IsFiniteSet(B1) /\ Cardinality(B1) = Cardinality(B) - 1 /\ Cardinality(B) \in Nat
    BY <2>1, OneMore
  <2> HIDE DEF A1, B1
  <2>4. /\ Cardinality(A1 \cup {n}) = Cardinality(A1) + 1
        /\ Cardinality(B1 \cup {old}) = Cardinality(B1) + 1
    BY <2>1, <2>3, OneMore
  <2> QED
    BY <2>2, <2>3, <2>4
<1>16. InStep(Index)'
  <2>1. InStep(Index)
    BY DEF Inv
  <2>2. \A m \in DOMAIN mapInfo : /\ mapInfo'[m] \in Entry
                                  /\ mapInfo'[m].addr = mapInfo[m].addr
                                  /\ mapInfo'[m].nRandomPos = mapInfo[m].nRandomPos
    BY <1>1, <1>11, <1>12, <1>13
  <2> QED
    BY <1>11, <1>15, <2>1, <2>2, SameIndex
<1>17. to \in NewBucket /\ Cardinality(vvNew[to] \ {n}) < ADDRMAN_NEW_BUCKET_SIZE
  <2>1. u \in NewBucket
    BY <1>10, AddrManAssumption DEF u, Entry
  <2>2. Cardinality(vvNew[origin] \ {n}) < ADDRMAN_NEW_BUCKET_SIZE
    <3> DEFINE B == vvNew[origin]
    <3>1. IsFiniteSet(B) /\ n \in B /\ Cardinality(B) \in Nat
          /\ Cardinality(B) <= ADDRMAN_NEW_BUCKET_SIZE /\ ADDRMAN_NEW_BUCKET_SIZE \in Nat
      BY <1>1, AddrManAssumption
    <3> HIDE DEF B
    <3>2. Cardinality(B \ {n}) = Cardinality(B) - 1
      BY <3>1, OneMore
    <3>3. Cardinality(B \ {n}) < ADDRMAN_NEW_BUCKET_SIZE
      BY <3>1, <3>2
    <3> QED
      BY <3>3 DEF B
  <2> QED
    BY <2>1, <2>2 DEF to
<1> HIDE DEF to
<1>18. NewInStep(mapInfo, vvNew)'
  <2>1. vvNew' \in [NewBucket -> SUBSET Untried(mapInfo')]
    BY <1>1, <1>4, <1>14
  <2>2. \A b \in NewBucket : Cardinality(vvNew'[b]) <= ADDRMAN_NEW_BUCKET_SIZE
    <3> TAKE b \in NewBucket
    <3> DEFINE B == vvNew[b]
               B1 == B \ {n}
    <3>1. /\ IsFiniteSet(B) /\ Cardinality(B) \in Nat /\ Cardinality(B) <= ADDRMAN_NEW_BUCKET_SIZE
          /\ old \notin B1 /\ ADDRMAN_NEW_BUCKET_SIZE \in Nat
      BY <1>1, <1>10, AddrManAssumption
    <3>2. vvNew'[b] = IF b = to THEN B1 \cup {old} ELSE B1
      BY <1>4
    <3>3. b = to => Cardinality(B1) < ADDRMAN_NEW_BUCKET_SIZE
      BY <1>17
    <3> HIDE DEF B
    <3>4. /\ IsFiniteSet(B1)
          /\ n \in B => Cardinality(B1) = Cardinality(B) - 1
          /\ n \notin B => B1 = B
      BY <3>1, OneMore
    <3> HIDE DEF B1
    <3>5. Cardinality(B1) \in Nat /\ Cardinality(B1 \cup {old}) = Cardinality(B1) + 1
      BY <3>1, <3>4, OneMore
    <3>6. CASE b = to
      BY <3>1, <3>2, <3>3, <3>5, <3>6
    <3>7. CASE b # to
      BY <3>1, <3>2, <3>4, <3>5, <3>7
    <3> QED
      BY <3>6, <3>7
  <2>3. /\ Refs(vvNew', n) = {} /\ Refs(vvNew', old) = {to}
        /\ \A m \in DOMAIN mapInfo \ {n, old} : Refs(vvNew', m) = Refs(vvNew, m)
    BY <1>4, <1>10, <1>17 DEF Refs
  <2>4. \A m \in DOMAIN mapInfo' : mapInfo'[m].nRefCount = Cardinality(Refs(vvNew', m))
    <3>1. Cardinality({to}) = 1 /\ Cardinality({}) = 0
      BY FS_Singleton, FS_EmptySet
    <3> QED
      BY <1>1, <1>11, <1>12, <1>13, <2>3, <3>1
  <2>5. \A m \in Untried(mapInfo') : m # old => m \in Untried(mapInfo) /\ mapInfo'[m] = mapInfo[m]
    BY <1>11, <1>14 DEF Untried
  <2>6. mapInfo'[old].nRefCount \in 1 .. ADDRMAN_NEW_BUCKETS_PER_ADDRESS
    BY <1>13, AddrManAssumption
  <2> QED
    BY <1>1, <2>1, <2>2, <2>4, <2>5, <2>6 DEF NewInStep
<1>19. TriedInStep(mapInfo, vvTried)'
  <2>2. BucketOf(mapInfo', n) = k /\ k \in TriedBucket /\ BucketOf(mapInfo, old) = k
    BY <1>7, <1>9, <1>12 DEF BucketOf, TriedIn
  <2>3. \A m \in Tried(mapInfo) : m # old => mapInfo'[m] = mapInfo[m]
    BY <1>10, <1>11 DEF Tried
  <2>4. /\ TriedIn(mapInfo', k) = (TriedIn(mapInfo, k) \ {old}) \cup {n}
        /\ \A j \in TriedBucket \ {k} : TriedIn(mapInfo', j) = TriedIn(mapInfo, j)
    BY <1>10, <1>14, <2>2, <2>3 DEF TriedIn, BucketOf
  <2>5. BucketInStep(mapInfo', vvTried'[k], k)
    <3> DEFINE S == TriedIn(mapInfo, k)
               x == [w EXCEPT ![p] = n]
    <3>1. Lists(w, S) /\ n \notin S /\ p \in DOMAIN w /\ Len(w) = Len(vvTried[k])
      BY <1>8, <1>10
    <3>2. vvTried'[k] = x /\ Len(vvTried[k]) <= ADDRMAN_TRIED_BUCKET_SIZE
      BY <1>4, <1>6, <1>7 DEF BucketInStep
    <3>3. TriedIn(mapInfo', k) = (S \ {w[p]}) \cup {n}
      BY <2>4 DEF old
    <3> HIDE DEF S
    <3>4. Lists(x, (S \ {w[p]}) \cup {n}) /\ Len(x) = Len(w)
      BY <3>1, ReplaceLists
    <3> HIDE DEF x
    <3> QED
      BY <3>1, <3>2, <3>3, <3>4 DEF BucketInStep
  <2>6. \A j \in TriedBucket : BucketInStep(mapInfo', vvTried'[j], j)
    BY <1>4, <1>6, <2>4, <2>5 DEF BucketInStep
  <2>7. DOMAIN vvTried' = TriedBucket /\ vvTried' = [j \in TriedBucket |-> vvTried'[j]]
    BY <1>4, <1>6
  <2>8. \A m \in Tried(mapInfo') : mapInfo'[m].nLastSuccess # 0
    BY <1>6, <1>12, <1>14, <2>3
  <2>9. TriedInStep(mapInfo', vvTried')
    BY <2>6, <2>7, <2>8, TriedInStepIs
  <2> QED
    BY <2>9
<1> QED
  BY <1>11, <1>15, <1>16, <1>18, <1>19 DEF Inv

\* Another connection to an address in the tried table.
LEMMA SeenAgainInv ==
    ASSUME Inv, NEW n \in Tried(mapInfo), NEW t \in Time,
           mapInfo' = [mapInfo EXCEPT ![n].nLastSuccess = t],
           UNCHANGED <<nTried, vvTried, nNew, vvNew, nIdCount, mapAddr, vRandom, peers>>
    PROVE  Inv'
<1>1. /\ InStep(Index) /\ NewInStep(mapInfo, vvNew) /\ TriedInStep(mapInfo, vvTried)
      /\ nTried = Cardinality(Tried(mapInfo))
  BY DEF Inv
<1>2. n \in DOMAIN mapInfo /\ (\A m \in DOMAIN mapInfo : mapInfo[m] \in Entry)
      /\ nNew = Cardinality(Untried(mapInfo)) /\ t # 0
  BY <1>1, IndexFields, AddrManAssumption DEF InStep, Tried
<1>3. /\ DOMAIN mapInfo' = DOMAIN mapInfo
      /\ mapInfo'[n] = [mapInfo[n] EXCEPT !.nLastSuccess = t]
      /\ \A m \in DOMAIN mapInfo \ {n} : mapInfo'[m] = mapInfo[m]
  BY <1>2
<1>4. /\ mapInfo'[n] \in Entry /\ mapInfo'[n].nLastSuccess # 0
      /\ mapInfo'[n].addr = mapInfo[n].addr /\ mapInfo'[n].nRandomPos = mapInfo[n].nRandomPos
      /\ mapInfo'[n].fInTried = mapInfo[n].fInTried
      /\ mapInfo'[n].nRefCount = mapInfo[n].nRefCount
  <2> DEFINE e == mapInfo[n]
  <2>1. e \in Entry /\ mapInfo'[n] = [e EXCEPT !.nLastSuccess = t]
    BY <1>2, <1>3
  <2> HIDE DEF e
  <2>2. /\ mapInfo'[n] \in Entry /\ mapInfo'[n].nLastSuccess # 0
        /\ mapInfo'[n].addr = e.addr /\ mapInfo'[n].nRandomPos = e.nRandomPos
        /\ mapInfo'[n].fInTried = e.fInTried /\ mapInfo'[n].nRefCount = e.nRefCount
    BY <1>2, <2>1 DEF Entry
  <2> QED
    BY <2>2 DEF e
<1>5. Tried(mapInfo') = Tried(mapInfo) /\ Untried(mapInfo') = Untried(mapInfo)
  BY <1>2, <1>3, <1>4 DEF Tried, Untried
<1>6. InStep(Index)'
  BY <1>1, <1>2, <1>3, <1>4, <1>5, SameIndex
<1>7. NewInStep(mapInfo', vvNew)
  BY <1>1, <1>3, <1>4, <1>5 DEF NewInStep, Untried
<1>8. TriedInStep(mapInfo', vvTried)
  <2>1. \A k : TriedIn(mapInfo', k) = TriedIn(mapInfo, k)
    BY <1>3, <1>4, <1>5 DEF TriedIn, BucketOf, Tried
  <2>2. \A m \in Tried(mapInfo') : mapInfo'[m].nLastSuccess # 0
    <3>1. \A m \in Tried(mapInfo) : mapInfo[m].nLastSuccess # 0
      BY <1>1, TriedInStepIs
    <3> QED
      BY <1>3, <1>4, <1>5, <3>1 DEF Tried
  <2> QED
    BY <1>1, <2>1, <2>2, TriedInStepIs DEF BucketInStep
<1> QED
  BY <1>1, <1>3, <1>5, <1>6, <1>7, <1>8 DEF Inv

LEMMA GoodInv ==
    ASSUME Inv, NEW a \in Service, NEW t \in Time, Good(a, t)
    PROVE  Inv'
<1> DEFINE n == mapAddr[host[a]]
<1>1. /\ host[a] \in DOMAIN mapAddr /\ mapInfo[n].addr = a
      /\ IF mapInfo[n].fInTried
         THEN /\ mapInfo' = [mapInfo EXCEPT ![n].nLastSuccess = t]
              /\ UNCHANGED <<nTried, vvTried, nNew, vvNew>>
         ELSE \E origin \in NewBucket :
                 /\ n \in vvNew[origin]
                 /\ \/ AppendTried(n, GetTriedBucket[a], t)
                    \/ EvictTried(n, GetTriedBucket[a], origin, t)
      /\ UNCHANGED <<nIdCount, mapAddr, vRandom, peers>>
  BY DEF Good
<1>2. Named(Index)
  BY DEF Inv, InStep
<1>3. n \in DOMAIN mapInfo
  BY <1>1, <1>2, IndexFields DEF Named
<1> HIDE DEF n
<1>4. GetTriedBucket[a] = BucketOf(mapInfo, n)
  BY <1>1 DEF BucketOf
<1>5. CASE mapInfo[n].fInTried
  <2>1. n \in Tried(mapInfo)
    BY <1>3, <1>5 DEF Tried
  <2> QED
    BY <1>1, <1>5, <2>1, SeenAgainInv
<1>6. CASE ~mapInfo[n].fInTried
  <2>1. n \in Untried(mapInfo)
    BY <1>3, <1>6 DEF Tried, Untried
  <2> DEFINE k == GetTriedBucket[a]
  <2>2. k = BucketOf(mapInfo, n)
    BY <1>4
  <2>3. PICK origin \in NewBucket :
          n \in vvNew[origin] /\ (AppendTried(n, k, t) \/ EvictTried(n, k, origin, t))
    BY <1>1, <1>6
  <2> HIDE DEF k
  <2>4. UNCHANGED <<nIdCount, mapAddr, vRandom, peers>>
    BY <1>1
  <2>5. CASE AppendTried(n, k, t)
    BY <2>1, <2>2, <2>4, <2>5, AppendTriedInv
  <2>6. CASE EvictTried(n, k, origin, t)
    BY <2>1, <2>2, <2>3, <2>4, <2>6, EvictTriedInv
  <2> QED
    BY <2>3, <2>5, <2>6
<1> QED
  BY <1>5, <1>6

-----------------------------------------------------------------------------
(***************************************************************************)
(* peers.dat.                                                              *)
(***************************************************************************)
\* The ranks of a finite set of numbers count it.
LEMMA Ranks ==
    ASSUME NEW S \in SUBSET Nat, IsFiniteSet(S)
    PROVE  /\ Cardinality(S) \in Nat
           /\ \A n \in S : Rank(S, n) \in 1 .. Cardinality(S)
           /\ \A m, n \in S : Rank(S, m) = Rank(S, n) => m = n
           /\ \A i \in 1 .. Cardinality(S) : \E n \in S : Rank(S, n) = i
<1> DEFINE Upto(n) == {m \in S : m <= n}
<1>1. \A n \in S : /\ IsFiniteSet(Upto(n)) /\ Cardinality(Upto(n)) \in 1 .. Cardinality(S)
                   /\ Rank(S, n) = Cardinality(Upto(n))
  <2> TAKE n \in S
  <2> DEFINE U == Upto(n)
  <2>1. U \in SUBSET S /\ n \in U
    OBVIOUS
  <2>2. Rank(S, n) = Cardinality(U)
    BY DEF Rank
  <2> HIDE DEF U
  <2>3. IsFiniteSet(U) /\ Cardinality(U) <= Cardinality(S)
    BY <2>1, FS_Subset
  <2>4. Cardinality(U) \in Nat /\ Cardinality(U) # 0 /\ Cardinality(S) \in Nat
    BY <2>1, <2>3, OneMore
  <2> QED
    BY <2>2, <2>3, <2>4 DEF U
<1>2. ASSUME NEW m \in S, NEW n \in S, m < n PROVE Rank(S, m) # Rank(S, n)
  <2> DEFINE U == Upto(m)
             V == Upto(n)
  <2>1. U \in SUBSET V /\ n \in V /\ n \notin U
    <3>1. \A x \in S : x \in Int
      OBVIOUS
    <3>2. \A x \in S : x <= m => x <= n
      BY <1>2, <3>1
    <3>3. ~(n <= m)
      BY <1>2, <3>1
    <3>4. n <= n
      BY <3>1
    <3> QED
      BY <3>2, <3>3, <3>4
  <2>2. IsFiniteSet(V) /\ Rank(S, m) = Cardinality(U) /\ Rank(S, n) = Cardinality(V)
    BY <1>1
  <2> HIDE DEF U, V
  <2> QED
    BY <2>1, <2>2, FS_Subset
<1>3. \A m, n \in S : Rank(S, m) = Rank(S, n) => m = n
  BY <1>2
<1> DEFINE c == Cardinality(S)
           f == [n \in S |-> Rank(S, n)]
<1>4. c \in Nat
  BY FS_CardinalityType
<1>5. IsFiniteSet(1..c) /\ Cardinality(1..c) = c
  <2> HIDE DEF c
  <2> QED
    BY <1>4, FS_Interval
<1>6. f \in Injection(S, 1..c)
  <2>1. f \in [S -> 1..c]
    BY <1>1
  <2>2. \A m, n \in S : f[m] = f[n] => m = n
    BY <1>3
  <2> HIDE DEF f, c
  <2> QED
    BY <2>1, <2>2 DEF Injection, IsInjective
<1>7. f \in Surjection(S, 1..c)
  <2> DEFINE T == 1..c
  <2>1. IsFiniteSet(T) /\ Cardinality(T) = Cardinality(S) /\ f \in Injection(S, T)
    BY <1>5, <1>6
  <2> HIDE DEF T, f
  <2>2. f \in Surjection(S, T)
    BY <2>1, FS_Injection
  <2> QED
    BY <2>2 DEF T
<1>8. \A i \in 1..c : \E n \in S : f[n] = i
  <2> HIDE DEF f, c
  <2> QED
    BY <1>7 DEF Surjection
<1> QED
  BY <1>1, <1>3, <1>4, <1>8

\* A set in increasing order lists it, each element at its rank.
LEMMA InOrderLists ==
    ASSUME NEW S \in SUBSET Nat, IsFiniteSet(S), NEW q, q = InOrder(S)
    PROVE  /\ Lists(q, S) /\ DOMAIN q = 1 .. Cardinality(S) /\ Len(q) = Cardinality(S)
           /\ Cardinality(S) \in Nat
           /\ \A i \in 1 .. Cardinality(S) : q[i] \in S /\ Rank(S, q[i]) = i
           /\ \A n \in S : Rank(S, n) \in 1 .. Cardinality(S) /\ q[Rank(S, n)] = n
<1> DEFINE c == Cardinality(S)
<1>1. /\ c \in Nat
      /\ \A n \in S : Rank(S, n) \in 1..c
      /\ \A m, n \in S : Rank(S, m) = Rank(S, n) => m = n
      /\ \A i \in 1..c : \E n \in S : Rank(S, n) = i
  BY Ranks
<1>2. q = [i \in 1..c |-> CHOOSE n \in S : Rank(S, n) = i]
  BY DEF InOrder
<1> HIDE DEF c
<1>3. \A i \in 1..c : q[i] \in S /\ Rank(S, q[i]) = i
  BY <1>1, <1>2
<1>4. DOMAIN q = 1..c /\ q \in Seq(S) /\ Len(q) = c
  <2>1. q \in [1..c -> S]
    BY <1>2, <1>3
  <2> QED
    BY <1>1, <2>1
<1>5. \A n \in S : q[Rank(S, n)] = n
  BY <1>1, <1>3
<1>6. Lists(q, S)
  <2>1. \A n \in S : \E i \in DOMAIN q : q[i] = n
    BY <1>1, <1>4, <1>5
  <2>2. \A i, j \in DOMAIN q : q[i] = q[j] => i = j
    BY <1>3, <1>4
  <2> QED
    BY <1>4, <2>1, <2>2 DEF Lists
<1> QED
  BY <1>1, <1>3, <1>4, <1>5, <1>6 DEF c

\* What the invariant says of the entries and of their order in the file.
LEMMA BeforeDump ==
    ASSUME Inv
    PROVE  /\ DOMAIN mapInfo \subseteq Id /\ \A n \in DOMAIN mapInfo : mapInfo[n] \in Entry
           /\ Untried(mapInfo) \in SUBSET Nat /\ IsFiniteSet(Untried(mapInfo))
           /\ Tried(mapInfo) \in SUBSET Nat /\ IsFiniteSet(Tried(mapInfo))
           /\ Cardinality(Untried(mapInfo)) + Cardinality(Tried(mapInfo)) <= MaxId
           /\ \A m, n \in DOMAIN mapInfo : host[mapInfo[m].addr] = host[mapInfo[n].addr] => m = n
           /\ {n \in DOMAIN mapInfo : mapInfo[n].nRefCount > 0} = Untried(mapInfo)
           /\ \A n \in Tried(mapInfo) : mapInfo[n].nRefCount = 0 /\ mapInfo[n].nLastSuccess # 0
<1>1. InStep(Index) /\ NewInStep(mapInfo, vvNew) /\ TriedInStep(mapInfo, vvTried)
  BY DEF Inv
<1>2. /\ DOMAIN mapInfo \subseteq Id /\ \A n \in DOMAIN mapInfo : mapInfo[n] \in Entry
  BY <1>1, IndexFields DEF InStep
<1>3. \A m, n \in DOMAIN mapInfo : host[mapInfo[m].addr] = host[mapInfo[n].addr] => m = n
  <2>1. Named(Index)
    BY <1>1 DEF InStep
  <2> QED
    BY <2>1, IndexFields DEF Named
<1> DEFINE U == Untried(mapInfo)
           V == Tried(mapInfo)
           D == DOMAIN mapInfo
<1>4. U = D \ V /\ V \in SUBSET D /\ D \in SUBSET Id /\ V \in SUBSET Id /\ U \in SUBSET Id
  BY <1>2 DEF Untried, Tried
<1>5. Id \subseteq Nat
  BY DEF Id
<1>6. \A n \in V : mapInfo[n].nRefCount = 0 /\ mapInfo[n].nLastSuccess # 0
  <2>1. \A n \in V : Refs(vvNew, n) = {}
    BY <1>1, <1>4 DEF NewInStep, Refs
  <2>2. \A n \in D : mapInfo[n].nRefCount = Cardinality(Refs(vvNew, n))
    BY <1>1 DEF NewInStep
  <2>3. \A n \in V : mapInfo[n].nLastSuccess # 0
    BY <1>1 DEF TriedInStep
  <2> QED
    BY <1>4, <2>1, <2>2, <2>3, FS_EmptySet
<1>7. {n \in D : mapInfo[n].nRefCount > 0} = U
  <2>1. \A n \in U : mapInfo[n].nRefCount > 0
    <3>1. \A n \in U : mapInfo[n].nRefCount \in 1 .. ADDRMAN_NEW_BUCKETS_PER_ADDRESS
      BY <1>1 DEF NewInStep
    <3> QED
      BY <3>1, AddrManAssumption
  <2>2. \A n \in V : ~(mapInfo[n].nRefCount > 0)
    BY <1>6
  <2> HIDE DEF U, V
  <2> QED
    BY <1>4, <2>1, <2>2
<1>8. Cardinality(U) + Cardinality(V) <= MaxId
  <2> HIDE DEF U, V, D
  <2>1. IsFiniteSet(D) /\ Cardinality(D) <= MaxId /\ Cardinality(D) \in Nat
    BY <1>4, IdsFinite
  <2>2. Cardinality(D \ V) = Cardinality(D) - Cardinality(D \cap V)
    BY <2>1, FS_Difference
  <2>3. D \cap V = V
    BY <1>4
  <2>4. Cardinality(V) \in Nat
    BY <1>4, IdsFinite
  <2>5. Cardinality(U) = Cardinality(D) - Cardinality(V)
    BY <1>4, <2>2, <2>3
  <2>6. MaxId \in Nat
    BY AddrManAssumption
  <2> QED
    BY <2>1, <2>4, <2>5, <2>6
<1>9. U \in SUBSET Nat /\ V \in SUBSET Nat
  BY <1>4, <1>5
<1>10. IsFiniteSet(U) /\ IsFiniteSet(V)
  <2> HIDE DEF U, V
  <2> QED
    BY <1>4, IdsFinite
<1> QED
  BY <1>2, <1>3, <1>6, <1>7, <1>8, <1>9, <1>10

LEMMA SerializeGives ==
    ASSUME Inv, NEW f, f = Serialize
    PROVE  LET U == Untried(mapInfo)
               V == Tried(mapInfo)
           IN  /\ f.vNew \in Seq(Record) /\ Len(f.vNew) = Cardinality(U)
               /\ DOMAIN f.vNew = 1 .. Cardinality(U)
               /\ \A i \in 1 .. Cardinality(U) : f.vNew[i] = Kept(InOrder(U)[i])
               /\ f.vTried \in Seq(Record) /\ Len(f.vTried) = Cardinality(V)
               /\ DOMAIN f.vTried = 1 .. Cardinality(V)
               /\ \A i \in 1 .. Cardinality(V) : f.vTried[i] = Kept(InOrder(V)[i])
               /\ f.vvNew = [b \in NewBucket |-> {Rank(U, n) : n \in vvNew[b]}]
<1> DEFINE U == Untried(mapInfo)
           V == Tried(mapInfo)
           p == InOrder(U)
           q == InOrder(V)
<1>1. /\ \A n \in DOMAIN mapInfo : mapInfo[n] \in Entry
      /\ U \in SUBSET Nat /\ IsFiniteSet(U) /\ V \in SUBSET Nat /\ IsFiniteSet(V)
      /\ {n \in DOMAIN mapInfo : mapInfo[n].nRefCount > 0} = U
  BY BeforeDump
<1>2. V = {n \in DOMAIN mapInfo : mapInfo[n].fInTried} /\ U \subseteq DOMAIN mapInfo
      /\ V \subseteq DOMAIN mapInfo
  BY DEF Tried, Untried
<1> HIDE DEF U, V
<1>3. f = [vNew   |-> [i \in 1 .. Cardinality(U) |-> Kept(p[i])],
           vTried |-> [i \in 1 .. Cardinality(V) |-> Kept(q[i])],
           vvNew  |-> [b \in NewBucket |-> {Rank(U, n) : n \in vvNew[b]}]]
  BY <1>1, <1>2, Zenon DEF Serialize
<1>4. \A n \in DOMAIN mapInfo : Kept(n) \in Record
  BY <1>1 DEF Kept, Entry, Record
<1>5. /\ Cardinality(U) \in Nat /\ \A i \in 1 .. Cardinality(U) : p[i] \in U
      /\ Cardinality(V) \in Nat /\ \A i \in 1 .. Cardinality(V) : q[i] \in V
  BY <1>1, InOrderLists
<1> HIDE DEF p, q
<1> DEFINE c == Cardinality(U)
           d == Cardinality(V)
           x == [i \in 1..c |-> Kept(p[i])]
           y == [i \in 1..d |-> Kept(q[i])]
<1>6. x \in [1..c -> Record] /\ y \in [1..d -> Record]
  BY <1>2, <1>4, <1>5
<1>7. c \in Nat /\ d \in Nat /\ f.vNew = x /\ f.vTried = y
  BY <1>3, <1>5
<1>8. /\ DOMAIN x = 1..c /\ \A i \in 1..c : x[i] = Kept(p[i])
      /\ DOMAIN y = 1..d /\ \A i \in 1..d : y[i] = Kept(q[i])
  OBVIOUS
<1> HIDE DEF c, d, x, y
<1>9. x \in Seq(Record) /\ Len(x) = c /\ y \in Seq(Record) /\ Len(y) = d
  BY <1>6, <1>7
<1>10. f.vvNew = [b \in NewBucket |-> {Rank(U, n) : n \in vvNew[b]}]
  BY <1>3
<1> QED
  BY <1>7, <1>8, <1>9, <1>10 DEF U, V, p, q, c, d

\* The file holds what a start needs.
LEMMA SerializeInStep ==
    ASSUME Inv
    PROVE  FileInStep(Serialize)
<1> DEFINE f == Serialize
           U == Untried(mapInfo)
           V == Tried(mapInfo)
           p == InOrder(U)
           q == InOrder(V)
           c == Cardinality(U)
           d == Cardinality(V)
<1>1. /\ f.vNew \in Seq(Record) /\ Len(f.vNew) = c
      /\ DOMAIN f.vNew = 1..c
      /\ \A i \in 1..c : f.vNew[i] = Kept(p[i])
      /\ f.vTried \in Seq(Record) /\ Len(f.vTried) = d
      /\ DOMAIN f.vTried = 1..d
      /\ \A i \in 1..d : f.vTried[i] = Kept(q[i])
      /\ f.vvNew = [b \in NewBucket |-> {Rank(U, n) : n \in vvNew[b]}]
  BY SerializeGives, Zenon
<1>2. /\ DOMAIN mapInfo \subseteq Id
      /\ U \in SUBSET Nat /\ IsFiniteSet(U) /\ V \in SUBSET Nat /\ IsFiniteSet(V)
      /\ c + d <= MaxId
      /\ \A m, n \in DOMAIN mapInfo : host[mapInfo[m].addr] = host[mapInfo[n].addr] => m = n
      /\ \A n \in V : mapInfo[n].nLastSuccess # 0
  BY BeforeDump
<1>3. /\ \A m \in U : m \in DOMAIN mapInfo /\ m \notin V
      /\ \A m \in V : m \in DOMAIN mapInfo
  BY DEF Tried, Untried
<1> HIDE DEF f, U, V
<1>4. /\ c \in Nat /\ Lists(p, U) /\ DOMAIN p = 1..c
      /\ \A i \in 1..c : p[i] \in U /\ Rank(U, p[i]) = i
      /\ \A n \in U : Rank(U, n) \in 1..c /\ p[Rank(U, n)] = n
  BY <1>2, InOrderLists
<1>5. /\ d \in Nat /\ Lists(q, V) /\ DOMAIN q = 1..d
      /\ \A i \in 1..d : q[i] \in V
  BY <1>2, InOrderLists
<1>6. /\ \A i, j \in 1..c : p[i] = p[j] => i = j
      /\ \A i, j \in 1..d : q[i] = q[j] => i = j
  BY <1>4, <1>5 DEF Lists
<1> HIDE DEF p, q, c, d
<1>7. /\ \A i \in 1..c : HostAt(f.vNew, i) = host[mapInfo[p[i]].addr]
      /\ \A i \in 1..d : HostAt(f.vTried, i) = host[mapInfo[q[i]].addr]
                         /\ f.vTried[i].nLastSuccess = mapInfo[q[i]].nLastSuccess
  <2>1. \A n : Kept(n).addr = mapInfo[n].addr /\ Kept(n).nLastSuccess = mapInfo[n].nLastSuccess
    BY DEF Kept
  <2>2. /\ \A i \in 1..c : f.vNew[i] = Kept(p[i])
        /\ \A i \in 1..d : f.vTried[i] = Kept(q[i])
    BY <1>1
  <2>3. \A i \in 1..d : f.vTried[i].nLastSuccess = mapInfo[q[i]].nLastSuccess
    BY <2>1, <2>2
  <2>4. /\ \A i \in 1..c : f.vNew[i].addr = mapInfo[p[i]].addr
        /\ \A i \in 1..d : f.vTried[i].addr = mapInfo[q[i]].addr
    BY <2>1, <2>2
  <2> QED
    BY <2>3, <2>4 DEF HostAt
<1>8. /\ \A i, j \in DOMAIN f.vNew : HostAt(f.vNew, i) = HostAt(f.vNew, j) => i = j
      /\ \A i, j \in DOMAIN f.vTried : HostAt(f.vTried, i) = HostAt(f.vTried, j) => i = j
      /\ \A i \in DOMAIN f.vNew, j \in DOMAIN f.vTried : HostAt(f.vNew, i) # HostAt(f.vTried, j)
      /\ \A i \in DOMAIN f.vTried : f.vTried[i].nLastSuccess # 0
  <2>1. \A i \in 1..c : p[i] \in DOMAIN mapInfo /\ p[i] \notin V
    BY <1>3, <1>4
  <2>2. \A i \in 1..d : q[i] \in DOMAIN mapInfo /\ q[i] \in V
    BY <1>3, <1>5
  <2>3. \A i, j \in 1..c : HostAt(f.vNew, i) = HostAt(f.vNew, j) => i = j
    BY <1>2, <1>6, <1>7, <2>1
  <2>4. \A i, j \in 1..d : HostAt(f.vTried, i) = HostAt(f.vTried, j) => i = j
    BY <1>2, <1>6, <1>7, <2>2
  <2>5. \A i \in 1..c, j \in 1..d : HostAt(f.vNew, i) # HostAt(f.vTried, j)
    BY <1>2, <1>7, <2>1, <2>2
  <2>6. \A i \in 1..d : f.vTried[i].nLastSuccess # 0
    <3>1. \A n \in V : mapInfo[n].nLastSuccess # 0
      BY <1>2
    <3>2. \A i \in 1..d : f.vTried[i].nLastSuccess = mapInfo[q[i]].nLastSuccess
      BY <1>7
    <3> QED
      BY <2>2, <3>1, <3>2
  <2> QED
    BY <1>1, <2>3, <2>4, <2>5, <2>6
<1>9. /\ vvNew \in [NewBucket -> SUBSET U]
      /\ \A b \in NewBucket : Cardinality(vvNew[b]) <= ADDRMAN_NEW_BUCKET_SIZE
      /\ \A n \in U : Cardinality(Refs(vvNew, n)) \in 1 .. ADDRMAN_NEW_BUCKETS_PER_ADDRESS
  BY <1>3 DEF Inv, NewInStep, U
<1>10. f.vvNew \in [NewBucket -> SUBSET DOMAIN f.vNew]
  BY <1>1, <1>4, <1>9
<1>11. \A b \in NewBucket : Cardinality(f.vvNew[b]) <= ADDRMAN_NEW_BUCKET_SIZE
  <2> TAKE b \in NewBucket
  <2> DEFINE S == vvNew[b]
             T == f.vvNew[b]
             g == [n \in S |-> Rank(U, n)]
  <2>1. S \in SUBSET U /\ T = {Rank(U, n) : n \in S} /\ Cardinality(S) <= ADDRMAN_NEW_BUCKET_SIZE
    BY <1>1, <1>9
  <2> HIDE DEF S, T
  <2>2. g \in [S -> T] /\ \A t \in T : \E n \in S : g[n] = t
    BY <2>1
  <2> HIDE DEF g
  <2>3. g \in Surjection(S, T)
    BY <2>2 DEF Surjection
  <2>4. IsFiniteSet(S)
    BY <1>2, <2>1, FS_Subset
  <2>5. IsFiniteSet(T) /\ Cardinality(T) <= Cardinality(S)
    BY <2>3, <2>4, FS_Surjection
  <2>6. Cardinality(T) \in Nat /\ Cardinality(S) \in Nat /\ ADDRMAN_NEW_BUCKET_SIZE \in Nat
    BY <2>4, <2>5, FS_CardinalityType, AddrManAssumption
  <2> QED
    BY <2>1, <2>5, <2>6 DEF T
<1>12. \A i \in DOMAIN f.vNew :
          Cardinality(Refs(f.vvNew, i)) \in 1 .. ADDRMAN_NEW_BUCKETS_PER_ADDRESS
  <2>1. \A i \in 1..c : Refs(f.vvNew, i) = Refs(vvNew, p[i])
    BY <1>1, <1>4, <1>9 DEF Refs
  <2> QED
    BY <1>1, <1>4, <1>9, <2>1
<1> QED
  BY <1>1, <1>2, <1>8, <1>10, <1>11, <1>12 DEF FileInStep, f

-----------------------------------------------------------------------------
(***************************************************************************)
(* The tables a start rebuilds from the file f.                            *)
(***************************************************************************)
BucketAt(f, i) == GetTriedBucket[f.vTried[i].addr]
Fits(f, i)     == Cardinality({j \in 1 .. i - 1 : BucketAt(f, j) = BucketAt(f, i)})
                    < ADDRMAN_TRIED_BUCKET_SIZE
KeptSet(f)     == {i \in DOMAIN f.vTried : Fits(f, i)}
KeptOrder(f)   == InOrder(KeptSet(f))
Total(f)       == Len(f.vNew) + Len(KeptOrder(f))
EntryOf(f, n)  == IF n < Len(f.vNew) THEN f.vNew[n + 1]
                  ELSE f.vTried[KeptOrder(f)[n - Len(f.vNew) + 1]]
Taken(f, n)    == {b \in Refs(f.vvNew, n + 1) :
                      Cardinality({c \in Refs(f.vvNew, n + 1) : c < b})
                        < ADDRMAN_NEW_BUCKETS_PER_ADDRESS}
InfoOf(f)      == [n \in 0 .. Total(f) - 1 |->
                     [addr |-> EntryOf(f, n).addr, source |-> EntryOf(f, n).source,
                      nLastSuccess |-> EntryOf(f, n).nLastSuccess,
                      nRefCount |-> IF n < Len(f.vNew) THEN Cardinality(Taken(f, n)) ELSE 0,
                      fInTried |-> n >= Len(f.vNew), nRandomPos |-> n + 1]]
AddrOf(f)      == [h \in {host[EntryOf(f, n).addr] : n \in 0 .. Total(f) - 1} |->
                     CHOOSE n \in 0 .. Total(f) - 1 : host[EntryOf(f, n).addr] = h]
RandomOf(f)    == [i \in 1 .. Total(f) |-> i - 1]
TriedOf(f)     == [k \in TriedBucket |->
                     InOrder({n \in Len(f.vNew) .. Total(f) - 1 :
                                GetTriedBucket[EntryOf(f, n).addr] = k})]
NewOf(f)       == [b \in NewBucket |-> {n \in 0 .. Len(f.vNew) - 1 : b \in Taken(f, n)}]

LEMMA UnserializeIs ==
    ASSUME NEW f
    PROVE  Unserialize(f) =
             [nIdCount |-> Total(f), mapInfo |-> InfoOf(f), mapAddr |-> AddrOf(f),
              vRandom |-> RandomOf(f), nTried |-> Len(KeptOrder(f)), nNew |-> Len(f.vNew),
              vvTried |-> TriedOf(f), vvNew |-> NewOf(f)]
BY Zenon DEF Unserialize, BucketAt, Fits, KeptSet, KeptOrder, Total, EntryOf, Taken, InfoOf,
             AddrOf, RandomOf, TriedOf, NewOf, Refs

\* The largest of a finite set of numbers.
LEMMA LargestNat ==
    ASSUME NEW c \in Nat, NEW S \in SUBSET (1..c), S # {}
    PROVE  \E x \in S : \A y \in S : y <= x
<1> DEFINE T == {c - x : x \in S}
<1>1. T \in SUBSET Nat /\ T # {}
  <2>1. \A x \in S : c - x \in Nat
    OBVIOUS
  <2> QED
    BY <2>1
<1>2. PICK z \in T : \A y \in T : z <= y
  <2> HIDE DEF T
  <2> QED
    BY <1>1, LeastNat
<1>3. PICK x \in S : z = c - x
  OBVIOUS
<1>4. ASSUME NEW y \in S PROVE y <= x
  <2>1. z <= c - y
    BY <1>2
  <2> QED
    BY <1>3, <2>1
<1> QED
  BY <1>4

\* No bucket gets more tried entries than it can hold.
LEMMA KeptGives ==
    ASSUME NEW f, FileInStep(f)
    PROVE  /\ KeptSet(f) \in SUBSET DOMAIN f.vTried
           /\ KeptSet(f) \in SUBSET Nat /\ IsFiniteSet(KeptSet(f))
           /\ Lists(KeptOrder(f), KeptSet(f))
           /\ Len(KeptOrder(f)) \in Nat /\ DOMAIN KeptOrder(f) = 1 .. Len(KeptOrder(f))
           /\ Len(f.vNew) \in Nat /\ DOMAIN f.vNew = 1 .. Len(f.vNew)
           /\ Total(f) \in 0 .. MaxId
           /\ \A k \in TriedBucket :
                Cardinality({i \in KeptSet(f) : BucketAt(f, i) = k}) <= ADDRMAN_TRIED_BUCKET_SIZE
<1> DEFINE c == Len(f.vTried)
           K == KeptSet(f)
           q == KeptOrder(f)
<1>1. /\ c \in Nat /\ DOMAIN f.vTried = 1..c /\ Len(f.vNew) \in Nat
      /\ DOMAIN f.vNew = 1 .. Len(f.vNew) /\ Len(f.vNew) + c <= MaxId
  BY LenProperties DEF FileInStep
<1>2. IsFiniteSet(1..c) /\ Cardinality(1..c) = c
  <2> HIDE DEF c
  <2> QED
    BY <1>1, FS_Interval
<1>3. K \in SUBSET (1..c)
  BY <1>1 DEF KeptSet
<1>4. K \in SUBSET Nat
  BY <1>3
<1> HIDE DEF K, c
<1>5. IsFiniteSet(K) /\ Cardinality(K) <= c /\ Cardinality(K) \in Nat
  <2> DEFINE C == 1..c
  <2>1. IsFiniteSet(C) /\ K \in SUBSET C /\ Cardinality(C) = c
    BY <1>2, <1>3
  <2> HIDE DEF C
  <2> QED
    BY <2>1, FS_Subset, FS_CardinalityType
<1>6. q = InOrder(K)
  BY DEF KeptOrder, K
<1> HIDE DEF q
<1>7. Lists(q, K) /\ DOMAIN q = 1 .. Cardinality(K) /\ Len(q) = Cardinality(K)
  BY <1>4, <1>5, <1>6, InOrderLists
<1>8. Total(f) \in 0 .. MaxId
  <2>1. Total(f) = Len(f.vNew) + Len(q)
    BY DEF Total, q
  <2> QED
    BY <1>1, <1>5, <1>7, <2>1, AddrManAssumption
<1>9. ASSUME NEW k \in TriedBucket
      PROVE  Cardinality({i \in K : BucketAt(f, i) = k}) <= ADDRMAN_TRIED_BUCKET_SIZE
  <2> DEFINE M == {i \in K : BucketAt(f, i) = k}
  <2>1. ADDRMAN_TRIED_BUCKET_SIZE \in Nat
    BY AddrManAssumption
  <2>2. M \in SUBSET (1..c) /\ M \in SUBSET K
    BY <1>3
  <2>3. CASE M = {}
    BY <2>1, <2>3, FS_EmptySet
  <2>4. CASE M # {}
    <3>1. PICK x \in M : \A y \in M : y <= x
      <4> HIDE DEF M
      <4> QED
        BY <1>1, <2>2, <2>4, LargestNat
    <3> DEFINE B == {j \in 1 .. x - 1 : BucketAt(f, j) = BucketAt(f, x)}
    <3>2. Fits(f, x) /\ BucketAt(f, x) = k /\ x \in 1..c
      BY <2>2 DEF K, KeptSet
    <3>3. Cardinality(B) < ADDRMAN_TRIED_BUCKET_SIZE
      BY <3>2 DEF Fits
    <3>4. M \ {x} \in SUBSET B
      <4>1. \A y \in M \ {x} : y \in 1 .. x - 1
        BY <1>1, <2>2, <3>1, <3>2
      <4> QED
        BY <3>2, <4>1
    <3>5. IsFiniteSet(B)
      <4>1. IsFiniteSet(1 .. x - 1)
        BY <3>2, FS_Interval
      <4>2. B \in SUBSET (1 .. x - 1)
        OBVIOUS
      <4> HIDE DEF B
      <4> QED
        BY <4>1, <4>2, FS_Subset
    <3>6. IsFiniteSet(M)
      <4> HIDE DEF M
      <4> QED
        BY <1>5, <2>2, FS_Subset
    <3> HIDE DEF M, B
    <3>7. Cardinality(M \ {x}) = Cardinality(M) - 1 /\ Cardinality(M) \in Nat
      BY <3>1, <3>6, OneMore
    <3>8. Cardinality(M \ {x}) <= Cardinality(B) /\ Cardinality(B) \in Nat
      BY <3>4, <3>5, FS_Subset, FS_CardinalityType
    <3>9. Cardinality(M) <= ADDRMAN_TRIED_BUCKET_SIZE
      BY <2>1, <3>3, <3>7, <3>8
    <3> QED
      BY <3>9 DEF M
  <2> QED
    BY <2>3, <2>4
<1> QED
  BY <1>1, <1>3, <1>4, <1>5, <1>7, <1>8, <1>9 DEF K, q, c

\* The entries that are rebuilt have different hosts, and times where they need them.
LEMMA EntriesGive ==
    ASSUME NEW f, FileInStep(f)
    PROVE  /\ \A n \in 0 .. Total(f) - 1 : EntryOf(f, n) \in Record
           /\ \A m, n \in 0 .. Total(f) - 1 :
                host[EntryOf(f, m).addr] = host[EntryOf(f, n).addr] => m = n
           /\ \A n \in Len(f.vNew) .. Total(f) - 1 :
                /\ EntryOf(f, n).nLastSuccess # 0
                /\ n - Len(f.vNew) + 1 \in 1 .. Len(KeptOrder(f))
                /\ EntryOf(f, n) = f.vTried[KeptOrder(f)[n - Len(f.vNew) + 1]]
<1> DEFINE c == Len(f.vNew)
           q == KeptOrder(f)
           t == Total(f)
<1>1. /\ Lists(q, KeptSet(f)) /\ Len(q) \in Nat /\ DOMAIN q = 1 .. Len(q)
      /\ c \in Nat /\ DOMAIN f.vNew = 1..c /\ KeptSet(f) \in SUBSET DOMAIN f.vTried
  BY KeptGives
<1>2. /\ \A i \in 1 .. Len(q) : q[i] \in DOMAIN f.vTried
      /\ \A i, j \in 1 .. Len(q) : q[i] = q[j] => i = j
  BY <1>1, ElementOfSeq DEF Lists
<1>3. t = c + Len(q)
  BY DEF Total
<1>4. \A n : EntryOf(f, n) = IF n < c THEN f.vNew[n + 1] ELSE f.vTried[q[n - c + 1]]
  BY DEF EntryOf
<1>5. /\ \A i \in DOMAIN f.vNew : f.vNew[i] \in Record
      /\ \A i \in DOMAIN f.vTried : f.vTried[i] \in Record
  BY LenProperties, ElementOfSeq DEF FileInStep
<1> HIDE DEF c, q, t
<1>6. \A n \in 0 .. t - 1 : n < c => n + 1 \in 1..c /\ EntryOf(f, n) = f.vNew[n + 1]
  BY <1>1, <1>3, <1>4
<1>7. \A n \in 0 .. t - 1 : ~(n < c) => /\ n - c + 1 \in 1 .. Len(q)
                                        /\ EntryOf(f, n) = f.vTried[q[n - c + 1]]
  BY <1>1, <1>3, <1>4
<1>8. \A n \in 0 .. t - 1 : EntryOf(f, n) \in Record
  BY <1>1, <1>2, <1>5, <1>6, <1>7
<1>9. \A m, n \in 0 .. t - 1 : host[EntryOf(f, m).addr] = host[EntryOf(f, n).addr] => m = n
  <2>1. /\ \A i, j \in DOMAIN f.vNew : HostAt(f.vNew, i) = HostAt(f.vNew, j) => i = j
        /\ \A i, j \in DOMAIN f.vTried : HostAt(f.vTried, i) = HostAt(f.vTried, j) => i = j
        /\ \A i \in DOMAIN f.vNew, j \in DOMAIN f.vTried : HostAt(f.vNew, i) # HostAt(f.vTried, j)
    BY DEF FileInStep
  <2>2. \A n \in 0 .. t - 1 : n < c => host[EntryOf(f, n).addr] = HostAt(f.vNew, n + 1)
    BY <1>6 DEF HostAt
  <2>3. \A n \in 0 .. t - 1 : ~(n < c) => host[EntryOf(f, n).addr] = HostAt(f.vTried, q[n - c + 1])
    BY <1>7 DEF HostAt
  <2> SUFFICES ASSUME NEW m \in 0 .. t - 1, NEW n \in 0 .. t - 1,
                      host[EntryOf(f, m).addr] = host[EntryOf(f, n).addr]
               PROVE  m = n
    OBVIOUS
  <2>4. CASE m < c /\ n < c
    <3>1. m + 1 \in DOMAIN f.vNew /\ n + 1 \in DOMAIN f.vNew
      BY <1>1, <1>6, <2>4
    <3>2. m + 1 = n + 1
      BY <2>1, <2>2, <2>4, <3>1
    <3> QED
      BY <3>2
  <2>5. CASE ~(m < c) /\ ~(n < c)
    <3>1. m - c + 1 \in 1 .. Len(q) /\ n - c + 1 \in 1 .. Len(q)
      BY <1>7, <2>5
    <3>2. q[m - c + 1] = q[n - c + 1]
      BY <1>2, <2>1, <2>3, <2>5, <3>1
    <3>3. m - c + 1 = n - c + 1
      BY <1>2, <3>1, <3>2
    <3> QED
      BY <1>1, <3>3
  <2>6. CASE m < c /\ ~(n < c)
    <3>1. m + 1 \in DOMAIN f.vNew /\ q[n - c + 1] \in DOMAIN f.vTried
      BY <1>1, <1>2, <1>6, <1>7, <2>6
    <3> QED
      BY <2>1, <2>2, <2>3, <2>6, <3>1
  <2>7. CASE ~(m < c) /\ n < c
    <3>1. n + 1 \in DOMAIN f.vNew /\ q[m - c + 1] \in DOMAIN f.vTried
      BY <1>1, <1>2, <1>6, <1>7, <2>7
    <3> QED
      BY <2>1, <2>2, <2>3, <2>7, <3>1
  <2> QED
    BY <2>4, <2>5, <2>6, <2>7
<1>10. \A n \in c .. t - 1 : n \in 0 .. t - 1 /\ ~(n < c)
  BY <1>1, <1>3
<1>11. \A n \in c .. t - 1 : EntryOf(f, n).nLastSuccess # 0
  <2>1. \A i \in DOMAIN f.vTried : f.vTried[i].nLastSuccess # 0
    BY DEF FileInStep
  <2> QED
    BY <1>2, <1>7, <1>10, <2>1
<1>12. \A n \in c .. t - 1 : /\ n - c + 1 \in 1 .. Len(q)
                             /\ EntryOf(f, n) = f.vTried[q[n - c + 1]]
  BY <1>7, <1>10
<1> QED
  BY <1>8, <1>9, <1>11, <1>12 DEF c, q, t

\* Each entry gets back all the references the file names.
LEMMA TakenIs ==
    ASSUME NEW f, FileInStep(f), NEW n \in 0 .. Len(f.vNew) - 1
    PROVE  /\ Taken(f, n) = Refs(f.vvNew, n + 1)
           /\ Cardinality(Taken(f, n)) \in 1 .. ADDRMAN_NEW_BUCKETS_PER_ADDRESS
<1> DEFINE S == Refs(f.vvNew, n + 1)
<1>1. Len(f.vNew) \in Nat /\ DOMAIN f.vNew = 1 .. Len(f.vNew)
  BY KeptGives
<1>2. Cardinality(S) \in 1 .. ADDRMAN_NEW_BUCKETS_PER_ADDRESS
  <2>1. n + 1 \in DOMAIN f.vNew
    BY <1>1
  <2> QED
    BY <2>1 DEF FileInStep
<1>3. S \in SUBSET NewBucket /\ IsFiniteSet(S) /\ \A b \in S : b \in Int
  <2>1. S \in SUBSET NewBucket
    BY DEF Refs
  <2>2. NewBucket \subseteq Int
    BY AddrManAssumption DEF NewBucket
  <2> HIDE DEF S
  <2> QED
    BY <2>1, <2>2, BucketsFinite
<1>4. Taken(f, n) = {b \in S : Cardinality({c \in S : c < b}) < ADDRMAN_NEW_BUCKETS_PER_ADDRESS}
  BY DEF Taken
<1> HIDE DEF S
<1>5. ASSUME NEW b \in S
      PROVE  Cardinality({c \in S : c < b}) < ADDRMAN_NEW_BUCKETS_PER_ADDRESS
  <2> DEFINE B == {c \in S : c < b}
  <2>1. B \in SUBSET S /\ B # S
    BY <1>3
  <2>2. ADDRMAN_NEW_BUCKETS_PER_ADDRESS \in Nat
    BY AddrManAssumption
  <2> HIDE DEF B
  <2>3. Cardinality(B) <= Cardinality(S) /\ Cardinality(B) # Cardinality(S)
    BY <1>3, <2>1, FS_Subset
  <2>4. Cardinality(B) \in Nat /\ Cardinality(S) \in Nat
    BY <1>3, <2>1, FS_Subset, FS_CardinalityType
  <2>5. Cardinality(B) < ADDRMAN_NEW_BUCKETS_PER_ADDRESS
    BY <1>2, <2>2, <2>3, <2>4
  <2> QED
    BY <2>5 DEF B
<1>6. Taken(f, n) = S
  BY <1>4, <1>5
<1> QED
  BY <1>2, <1>6 DEF S

LEMMA RebuiltEntries ==
    ASSUME NEW f, FileInStep(f)
    PROVE  /\ DOMAIN InfoOf(f) = 0 .. Total(f) - 1
           /\ \A n \in 0 .. Total(f) - 1 :
                /\ InfoOf(f)[n] \in Entry
                /\ InfoOf(f)[n].addr = EntryOf(f, n).addr
                /\ InfoOf(f)[n].nLastSuccess = EntryOf(f, n).nLastSuccess
                /\ InfoOf(f)[n].nRandomPos = n + 1
                /\ InfoOf(f)[n].nRefCount = IF n < Len(f.vNew) THEN Cardinality(Taken(f, n)) ELSE 0
           /\ Tried(InfoOf(f)) = Len(f.vNew) .. Total(f) - 1
           /\ Untried(InfoOf(f)) = 0 .. Len(f.vNew) - 1
           /\ Cardinality(DOMAIN InfoOf(f)) = Total(f)
           /\ Cardinality(Tried(InfoOf(f))) = Len(KeptOrder(f))
           /\ Cardinality(Untried(InfoOf(f))) = Len(f.vNew)
<1> DEFINE c == Len(f.vNew)
           d == Len(KeptOrder(f))
           t == Total(f)
           g == InfoOf(f)
           e(n) == [addr |-> EntryOf(f, n).addr, source |-> EntryOf(f, n).source,
                    nLastSuccess |-> EntryOf(f, n).nLastSuccess,
                    nRefCount |-> IF n < c THEN Cardinality(Taken(f, n)) ELSE 0,
                    fInTried |-> n >= c, nRandomPos |-> n + 1]
<1>1. c \in Nat /\ d \in Nat /\ t = c + d /\ t \in Nat
  BY KeptGives DEF Total
<1>2. g = [n \in 0 .. t - 1 |-> e(n)]
  BY DEF InfoOf
<1>3. \A n \in 0 .. t - 1 : EntryOf(f, n) \in Record
  BY EntriesGive
<1>4. \A n \in 0 .. t - 1 : (IF n < c THEN Cardinality(Taken(f, n)) ELSE 0) \in Int
  <2>1. \A n \in 0 .. c - 1 : Cardinality(Taken(f, n)) \in 1 .. ADDRMAN_NEW_BUCKETS_PER_ADDRESS
    BY TakenIs
  <2>2. \A n \in 0 .. t - 1 : n < c => n \in 0 .. c - 1
    BY <1>1
  <2> QED
    BY <2>1, <2>2
<1> HIDE DEF c, d, t, g
<1>5. \A n \in 0 .. t - 1 : e(n) \in Entry
  <2> TAKE n \in 0 .. t - 1
  <2> DEFINE r == EntryOf(f, n)
             x == IF n < c THEN Cardinality(Taken(f, n)) ELSE 0
             b == n >= c
             p == n + 1
  <2>1. r \in Record /\ x \in Int /\ b \in BOOLEAN /\ p \in Int
    BY <1>1, <1>3, <1>4
  <2> HIDE DEF r, x, b, p
  <2>2. [addr |-> r.addr, source |-> r.source, nLastSuccess |-> r.nLastSuccess,
         nRefCount |-> x, fInTried |-> b, nRandomPos |-> p] \in Entry
    BY <2>1 DEF Record, Entry
  <2> QED
    BY <2>2 DEF r, x, b, p
<1>6. DOMAIN g = 0 .. t - 1 /\ \A n \in 0 .. t - 1 : g[n] = e(n)
  BY <1>2
<1>7. \A n \in 0 .. t - 1 : /\ e(n).addr = EntryOf(f, n).addr
                            /\ e(n).nLastSuccess = EntryOf(f, n).nLastSuccess
                            /\ e(n).nRandomPos = n + 1
                            /\ e(n).nRefCount = IF n < c THEN Cardinality(Taken(f, n)) ELSE 0
                            /\ e(n).fInTried = (n >= c)
  OBVIOUS
<1> HIDE DEF e
<1>8. Tried(g) = c .. t - 1 /\ Untried(g) = 0 .. c - 1
  <2>1. Tried(g) = {n \in 0 .. t - 1 : n >= c}
    BY <1>6, <1>7 DEF Tried
  <2>2. {n \in 0 .. t - 1 : n >= c} = c .. t - 1
    BY <1>1
  <2>3. (0 .. t - 1) \ (c .. t - 1) = 0 .. c - 1
    BY <1>1
  <2> QED
    BY <1>6, <2>1, <2>2, <2>3 DEF Untried
<1>9. /\ Cardinality(0 .. t - 1) = t /\ Cardinality(c .. t - 1) = d
      /\ Cardinality(0 .. c - 1) = c
  <2>1. Cardinality(0 .. t - 1) = IF 0 > t - 1 THEN 0 ELSE (t - 1) - 0 + 1
    BY <1>1, FS_Interval
  <2>2. Cardinality(c .. t - 1) = IF c > t - 1 THEN 0 ELSE (t - 1) - c + 1
    BY <1>1, FS_Interval
  <2>3. Cardinality(0 .. c - 1) = IF 0 > c - 1 THEN 0 ELSE (c - 1) - 0 + 1
    BY <1>1, FS_Interval
  <2> QED
    BY <1>1, <2>1, <2>2, <2>3
<1>10. \A n \in 0 .. t - 1 :
         /\ g[n] \in Entry /\ g[n].addr = EntryOf(f, n).addr
         /\ g[n].nLastSuccess = EntryOf(f, n).nLastSuccess
         /\ g[n].nRandomPos = n + 1
         /\ g[n].nRefCount = IF n < c THEN Cardinality(Taken(f, n)) ELSE 0
  BY <1>5, <1>6, <1>7
<1> QED
  BY <1>6, <1>8, <1>9, <1>10 DEF c, d, t, g

LEMMA RebuiltIndex ==
    ASSUME NEW f, FileInStep(f)
    PROVE  InStep([info |-> InfoOf(f), addr |-> AddrOf(f), random |-> RandomOf(f),
                   new |-> Len(f.vNew)])
<1> DEFINE t == Total(f)
           g == InfoOf(f)
           h(n) == host[EntryOf(f, n).addr]
           a == AddrOf(f)
           v == RandomOf(f)
           J == [info |-> g, addr |-> a, random |-> v, new |-> Len(f.vNew)]
<1>1. /\ t \in Nat /\ t <= MaxId /\ MaxId \in Nat
  BY KeptGives, AddrManAssumption
<1>2. /\ DOMAIN g = 0 .. t - 1
      /\ \A n \in 0 .. t - 1 : g[n] \in Entry /\ g[n].addr = EntryOf(f, n).addr
                               /\ g[n].nRandomPos = n + 1
      /\ Cardinality(DOMAIN g) = t
      /\ Len(f.vNew) = Cardinality(Untried(g))
  BY RebuiltEntries
<1>3. \A m, n \in 0 .. t - 1 : h(m) = h(n) => m = n
  BY EntriesGive
<1>4. a = [x \in {h(n) : n \in 0 .. t - 1} |-> CHOOSE n \in 0 .. t - 1 : h(n) = x]
  BY DEF AddrOf
<1>5. v = [i \in 1..t |-> i - 1]
  BY DEF RandomOf
<1>6. \A n \in 0 .. t - 1 : host[g[n].addr] = h(n)
  BY <1>2
<1>7. /\ J.info = g /\ J.addr = a /\ J.random = v /\ J.new = Len(f.vNew)
      /\ IsIndex(J)
  BY DEF IsIndex
<1> HIDE DEF t, g, h, a, v, J
<1>8. Named(J)
  <2>1. \A n \in 0 .. t - 1 : h(n) \in DOMAIN a /\ a[h(n)] = n
    <3> TAKE n \in 0 .. t - 1
    <3>1. h(n) \in DOMAIN a /\ a[h(n)] = CHOOSE m \in 0 .. t - 1 : h(m) = h(n)
      BY <1>4
    <3>2. (CHOOSE m \in 0 .. t - 1 : h(m) = h(n)) = n
      BY <1>3
    <3> QED
      BY <3>1, <3>2
  <2>2. \A x \in DOMAIN a : \E n \in 0 .. t - 1 : x = h(n)
    BY <1>4
  <2>3. \A x \in DOMAIN a : a[x] \in 0 .. t - 1 /\ h(a[x]) = x
    BY <2>1, <2>2
  <2> QED
    BY <1>2, <1>6, <1>7, <2>1, <2>3 DEF Named
<1>9. /\ v \in Seq(DOMAIN g) /\ Len(v) = t /\ DOMAIN v = 1..t
      /\ \A i \in 1..t : v[i] = i - 1
  <2>1. v \in [1..t -> 0 .. t - 1]
    BY <1>1, <1>5
  <2> QED
    BY <1>1, <1>2, <1>5, <2>1
<1>10. \A n \in DOMAIN g : g[n].nRandomPos \in DOMAIN v /\ v[g[n].nRandomPos] = n
  <2> TAKE n \in DOMAIN g
  <2>1. n \in 0 .. t - 1 /\ g[n].nRandomPos = n + 1 /\ n + 1 \in 1..t /\ (n + 1) - 1 = n
    BY <1>1, <1>2
  <2> QED
    BY <1>9, <2>1
<1>11. \A i \in DOMAIN v : g[v[i]].nRandomPos = i
  <2> TAKE i \in DOMAIN v
  <2>1. i \in 1..t /\ v[i] = i - 1 /\ i - 1 \in 0 .. t - 1 /\ (i - 1) + 1 = i
    BY <1>1, <1>9
  <2> QED
    BY <1>2, <2>1
<1>12. DOMAIN g \subseteq Id
  BY <1>1, <1>2 DEF Id
<1>13. InStep(J)
  BY <1>2, <1>7, <1>8, <1>9, <1>10, <1>11, <1>12 DEF InStep
<1> QED
  BY <1>13 DEF J, g, a, v

LEMMA RebuiltNew ==
    ASSUME NEW f, FileInStep(f)
    PROVE  /\ NewInStep(InfoOf(f), NewOf(f))
           /\ \A b \in NewBucket : NewOf(f)[b] = {n \in 0 .. Len(f.vNew) - 1 : n + 1 \in f.vvNew[b]}
<1> DEFINE c == Len(f.vNew)
           g == InfoOf(f)
           w == NewOf(f)
<1>1. /\ c \in Nat /\ Total(f) \in Nat /\ c <= Total(f) /\ DOMAIN f.vNew = 1..c
  BY KeptGives DEF Total
<1>2. /\ \A n \in 0 .. c - 1 : /\ Taken(f, n) = Refs(f.vvNew, n + 1)
                               /\ Cardinality(Taken(f, n)) \in 1 .. ADDRMAN_NEW_BUCKETS_PER_ADDRESS
  BY TakenIs
<1>3. /\ DOMAIN g = 0 .. Total(f) - 1 /\ Untried(g) = 0 .. c - 1
      /\ \A n \in DOMAIN g : g[n].nRefCount = IF n < c THEN Cardinality(Taken(f, n)) ELSE 0
  BY RebuiltEntries
<1>4. w = [b \in NewBucket |-> {n \in 0 .. c - 1 : b \in Taken(f, n)}]
  BY DEF NewOf
<1> HIDE DEF c, g, w
<1>5. \A b \in NewBucket : w[b] = {n \in 0 .. c - 1 : n + 1 \in f.vvNew[b]}
  BY <1>2, <1>4 DEF Refs
<1>6. /\ \A n \in 0 .. c - 1 : Refs(w, n) = Taken(f, n)
      /\ \A n : n \notin 0 .. c - 1 => Refs(w, n) = {}
  <2>1. \A n \in 0 .. c - 1 : Taken(f, n) \subseteq NewBucket
    BY <1>2 DEF Refs
  <2> QED
    BY <1>4, <2>1 DEF Refs
<1>7. w \in [NewBucket -> SUBSET Untried(g)]
  BY <1>3, <1>4
<1>8. \A b \in NewBucket : Cardinality(w[b]) <= ADDRMAN_NEW_BUCKET_SIZE
  <2> TAKE b \in NewBucket
  <2> DEFINE S == w[b]
             T == f.vvNew[b]
             m == [n \in S |-> n + 1]
  <2>1. /\ T \in SUBSET (1..c) /\ Cardinality(T) <= ADDRMAN_NEW_BUCKET_SIZE
        /\ S = {n \in 0 .. c - 1 : n + 1 \in T}
    BY <1>1, <1>5 DEF FileInStep
  <2> HIDE DEF S, T
  <2>2. IsFiniteSet(T)
    <3> DEFINE C == 1..c
    <3>1. IsFiniteSet(C) /\ T \in SUBSET C
      BY <1>1, <2>1, FS_Interval
    <3> HIDE DEF C
    <3> QED
      BY <3>1, FS_Subset
  <2>3. m \in [S -> T] /\ \A x, y \in S : m[x] = m[y] => x = y
    BY <2>1
  <2> HIDE DEF m
  <2>4. m \in Injection(S, T)
    BY <2>3 DEF Injection, IsInjective
  <2>5. IsFiniteSet(S) /\ Cardinality(S) <= Cardinality(T)
    BY <2>2, <2>4, FS_Injection
  <2>6. Cardinality(S) \in Nat /\ Cardinality(T) \in Nat /\ ADDRMAN_NEW_BUCKET_SIZE \in Nat
    BY <2>2, <2>5, FS_CardinalityType, AddrManAssumption
  <2> QED
    BY <2>1, <2>5, <2>6 DEF S
<1>9. \A n \in DOMAIN g : g[n].nRefCount = Cardinality(Refs(w, n))
  <2>1. \A n \in DOMAIN g : n < c => n \in 0 .. c - 1
    BY <1>1, <1>3
  <2>2. \A n \in DOMAIN g : ~(n < c) => n \notin 0 .. c - 1
    BY <1>1, <1>3
  <2> QED
    BY <1>3, <1>6, <2>1, <2>2, FS_EmptySet
<1>10. \A n \in Untried(g) : g[n].nRefCount \in 1 .. ADDRMAN_NEW_BUCKETS_PER_ADDRESS
  <2>1. \A n \in 0 .. c - 1 : n \in DOMAIN g /\ n < c
    BY <1>1, <1>3
  <2> QED
    BY <1>2, <1>3, <2>1
<1> QED
  BY <1>5, <1>7, <1>8, <1>9, <1>10 DEF NewInStep, c, g, w

LEMMA RebuiltTried ==
    ASSUME NEW f, FileInStep(f)
    PROVE  TriedInStep(InfoOf(f), TriedOf(f))
<1> DEFINE c == Len(f.vNew)
           d == Len(KeptOrder(f))
           q == KeptOrder(f)
           K == KeptSet(f)
           g == InfoOf(f)
           w == TriedOf(f)
           t == Total(f)
<1>1. /\ c \in Nat /\ d \in Nat /\ t = c + d /\ Lists(q, K) /\ DOMAIN q = 1..d
      /\ IsFiniteSet(K)
      /\ \A k \in TriedBucket :
           Cardinality({i \in K : BucketAt(f, i) = k}) <= ADDRMAN_TRIED_BUCKET_SIZE
  BY KeptGives DEF Total
<1>2. \A i \in 1..d : q[i] \in K
  BY <1>1, ElementOfSeq, LenProperties DEF Lists
<1>3. \A i, j \in 1..d : q[i] = q[j] => i = j
  BY <1>1 DEF Lists
<1>4. /\ DOMAIN g = 0 .. t - 1 /\ Tried(g) = c .. t - 1
      /\ \A n \in 0 .. t - 1 : /\ g[n].addr = EntryOf(f, n).addr
                               /\ g[n].nLastSuccess = EntryOf(f, n).nLastSuccess
  BY RebuiltEntries
<1>5. \A n \in c .. t - 1 : /\ EntryOf(f, n).nLastSuccess # 0 /\ n - c + 1 \in 1..d
                            /\ EntryOf(f, n) = f.vTried[q[n - c + 1]]
  BY EntriesGive
<1>6. w = [k \in TriedBucket |->
             InOrder({n \in c .. t - 1 : GetTriedBucket[EntryOf(f, n).addr] = k})]
  BY DEF TriedOf
<1> HIDE DEF c, d, q, K, g, w, t
<1>7. \A n \in c .. t - 1 : n \in 0 .. t - 1 /\ n \in Nat
  BY <1>1
<1>8. ASSUME NEW k \in TriedBucket PROVE BucketInStep(g, w[k], k)
  <2> DEFINE S == {n \in c .. t - 1 : GetTriedBucket[EntryOf(f, n).addr] = k}
             T == {i \in K : BucketAt(f, i) = k}
             m == [n \in S |-> q[n - c + 1]]
  <2>1. S = TriedIn(g, k)
    BY <1>4, <1>7 DEF TriedIn, BucketOf
  <2>2. IsFiniteSet(T) /\ Cardinality(T) <= ADDRMAN_TRIED_BUCKET_SIZE
    <3>1. T \in SUBSET K
      OBVIOUS
    <3>2. Cardinality(T) <= ADDRMAN_TRIED_BUCKET_SIZE
      BY <1>1
    <3> HIDE DEF T
    <3> QED
      BY <1>1, <3>1, <3>2, FS_Subset
  <2>3. m \in [S -> T]
    <3>1. \A n \in S : BucketAt(f, q[n - c + 1]) = k /\ q[n - c + 1] \in K
      BY <1>2, <1>5 DEF BucketAt
    <3> QED
      BY <3>1
  <2>4. \A x, y \in S : m[x] = m[y] => x = y
    <3> SUFFICES ASSUME NEW x \in S, NEW y \in S, q[x - c + 1] = q[y - c + 1] PROVE x = y
      OBVIOUS
    <3>1. x - c + 1 \in 1..d /\ y - c + 1 \in 1..d
      BY <1>5
    <3>2. x - c + 1 = y - c + 1
      BY <1>3, <3>1
    <3> QED
      BY <1>1, <1>7, <3>2
  <2>5. S \in SUBSET Nat
    BY <1>7
  <2>6. w[k] = InOrder(S)
    BY <1>6
  <2> HIDE DEF S, T, m
  <2>7. m \in Injection(S, T)
    BY <2>3, <2>4 DEF Injection, IsInjective
  <2>8. IsFiniteSet(S) /\ Cardinality(S) <= Cardinality(T)
    BY <2>2, <2>7, FS_Injection
  <2>9. Cardinality(S) \in Nat /\ Cardinality(T) \in Nat /\ ADDRMAN_TRIED_BUCKET_SIZE \in Nat
    BY <2>2, <2>8, FS_CardinalityType, AddrManAssumption
  <2>10. Lists(w[k], S) /\ Len(w[k]) = Cardinality(S)
    <3> DEFINE v == w[k]
    <3>1. v = InOrder(S)
      BY <2>6
    <3> HIDE DEF v
    <3>2. Lists(v, S) /\ Len(v) = Cardinality(S)
      BY <2>5, <2>8, <3>1, InOrderLists
    <3> QED
      BY <3>2 DEF v
  <2> QED
    BY <2>1, <2>2, <2>8, <2>9, <2>10 DEF BucketInStep
<1>9. DOMAIN w = TriedBucket /\ w = [k \in TriedBucket |-> w[k]]
  BY <1>6
<1>10. \A n \in Tried(g) : g[n].nLastSuccess # 0
  BY <1>4, <1>5, <1>7
<1> QED
  BY <1>8, <1>9, <1>10, TriedInStepIs DEF g, w

\* A start finds tables that agree, whatever file was written last.
LEMMA RestartInv ==
    ASSUME Inv, Restart
    PROVE  Inv'
<1> DEFINE f == peers
<1>1. FileInStep(f)
  BY DEF Inv
<1>2. Unserialize(f) =
        [nIdCount |-> Total(f), mapInfo |-> InfoOf(f), mapAddr |-> AddrOf(f),
         vRandom |-> RandomOf(f), nTried |-> Len(KeptOrder(f)), nNew |-> Len(f.vNew),
         vvTried |-> TriedOf(f), vvNew |-> NewOf(f)]
  BY UnserializeIs
<1>3. /\ nIdCount' = Total(f) /\ mapInfo' = InfoOf(f) /\ mapAddr' = AddrOf(f)
      /\ vRandom' = RandomOf(f) /\ nTried' = Len(KeptOrder(f)) /\ nNew' = Len(f.vNew)
      /\ vvTried' = TriedOf(f) /\ vvNew' = NewOf(f) /\ peers' = f
  BY <1>2 DEF Restart
<1> HIDE DEF f
<1>4. Total(f) \in 0 .. MaxId
  BY <1>1, KeptGives
<1>5. DOMAIN mapInfo' = 0 .. nIdCount' - 1 /\ nTried' = Cardinality(Tried(mapInfo'))
  BY <1>1, <1>3, RebuiltEntries
<1>6. InStep(Index)'
  <2>1. Index' = [info |-> InfoOf(f), addr |-> AddrOf(f), random |-> RandomOf(f),
                  new |-> Len(f.vNew)]
    BY <1>3 DEF Index
  <2> QED
    BY <1>1, <2>1, RebuiltIndex
<1>7. NewInStep(mapInfo, vvNew)'
  BY <1>1, <1>3, RebuiltNew
<1>8. TriedInStep(mapInfo, vvTried)'
  BY <1>1, <1>3, RebuiltTried
<1> QED
  BY <1>1, <1>3, <1>4, <1>5, <1>6, <1>7, <1>8 DEF Inv, f

LEMMA DumpAddressesInv ==
    ASSUME Inv, DumpAddresses
    PROVE  Inv'
<1>1. FileInStep(Serialize) /\ peers' = Serialize
  BY SerializeInStep DEF DumpAddresses
<1>2. UNCHANGED tables
  BY DEF DumpAddresses
<1>3. FileInStep(peers)'
  BY <1>1
<1> QED
  BY <1>2, <1>3 DEF Inv, tables, Index

-----------------------------------------------------------------------------
(***************************************************************************)
(* The theorems.                                                           *)
(***************************************************************************)
LEMMA InitInv == Init => Inv
<1> SUFFICES ASSUME Init PROVE Inv
  OBVIOUS
<1> DEFINE Z == Index
<1>1. /\ nIdCount = 0 /\ mapInfo = <<>> /\ mapAddr = <<>> /\ vRandom = <<>>
      /\ nTried = 0 /\ vvTried = [k \in TriedBucket |-> <<>>]
      /\ nNew = 0 /\ vvNew = [b \in NewBucket |-> {}]
      /\ peers = NoFile
  BY DEF Init
<1>2. DOMAIN mapInfo = {} /\ DOMAIN mapAddr = {} /\ DOMAIN vRandom = {}
      /\ Len(vRandom) = 0 /\ vRandom \in Seq({})
  BY <1>1
<1>3. Tried(mapInfo) = {} /\ Untried(mapInfo) = {}
  BY <1>2 DEF Tried, Untried
<1>4. Cardinality({}) = 0
  BY FS_EmptySet
<1>5. InStep(Index)
  <2>1. Named(Index)
    BY <1>2, IndexFields DEF Named
  <2>2. vRandom \in Seq(DOMAIN mapInfo) /\ Len(vRandom) = Cardinality(DOMAIN mapInfo)
    BY <1>2, <1>4
  <2>3. nNew = Cardinality(Untried(mapInfo))
    BY <1>1, <1>3, <1>4
  <2> QED
    BY <1>2, <2>1, <2>2, <2>3, IndexFields DEF InStep
<1>6. \A n : Refs(vvNew, n) = {}
  BY <1>1 DEF Refs
<1>7. NewInStep(mapInfo, vvNew)
  <2>1. vvNew \in [NewBucket -> SUBSET Untried(mapInfo)]
    BY <1>1
  <2>2. \A b \in NewBucket : Cardinality(vvNew[b]) <= ADDRMAN_NEW_BUCKET_SIZE
    BY <1>1, <1>4, AddrManAssumption
  <2> QED
    BY <1>2, <1>3, <2>1, <2>2 DEF NewInStep
<1>8. TriedInStep(mapInfo, vvTried)
  <2>1. DOMAIN vvTried = TriedBucket /\ vvTried = [k \in TriedBucket |-> vvTried[k]]
    BY <1>1
  <2>2. \A k \in TriedBucket : BucketInStep(mapInfo, vvTried[k], k)
    <3> TAKE k \in TriedBucket
    <3>1. vvTried[k] = <<>> /\ TriedIn(mapInfo, k) = {}
      BY <1>1, <1>3 DEF TriedIn
    <3>2. Lists(<<>>, {}) /\ Len(<<>>) = 0
      BY DEF Lists
    <3> QED
      BY <3>1, <3>2, AddrManAssumption DEF BucketInStep
  <2> QED
    BY <1>3, <2>1, <2>2, TriedInStepIs
<1>9. FileInStep(peers)
  <2>1. /\ peers.vNew = <<>> /\ peers.vTried = <<>>
        /\ peers.vvNew = [b \in NewBucket |-> {}]
    BY <1>1 DEF NoFile
  <2>2. peers.vNew \in Seq(Record) /\ DOMAIN peers.vNew = {} /\ Len(peers.vNew) = 0
        /\ peers.vTried \in Seq(Record) /\ DOMAIN peers.vTried = {} /\ Len(peers.vTried) = 0
    BY <2>1
  <2>3. \A b \in NewBucket : Cardinality(peers.vvNew[b]) <= ADDRMAN_NEW_BUCKET_SIZE
    BY <1>4, <2>1, AddrManAssumption
  <2>4. peers.vvNew \in [NewBucket -> SUBSET DOMAIN peers.vNew]
    BY <2>1
  <2> QED
    BY <2>2, <2>3, <2>4, AddrManAssumption DEF FileInStep
<1> QED
  <2>1. nTried = Cardinality(Tried(mapInfo))
    BY <1>1, <1>3, <1>4
  <2>2. nIdCount \in 0 .. MaxId
    BY <1>1, AddrManAssumption
  <2>3. DOMAIN mapInfo \subseteq 0 .. nIdCount - 1
    BY <1>2
  <2> QED
    BY <1>5, <1>7, <1>8, <1>9, <2>1, <2>2, <2>3 DEF Inv

LEMMA NextInv ==
    ASSUME Inv, [Next]_vars
    PROVE  Inv'
<1>1. CASE UNCHANGED vars
  BY <1>1 DEF vars, tables, Inv, Index
<1>2. ASSUME NEW a \in Service, NEW s \in NetAddr, AddUnknown(a, s) PROVE Inv'
  BY <1>2, AddUnknownInv
<1>3. ASSUME NEW a \in Service, NEW s \in NetAddr, AddKnown(a, s) PROVE Inv'
  BY <1>3, AddKnownInv
<1>4. ASSUME NEW a \in Service, NEW t \in Time, Good(a, t) PROVE Inv'
  BY <1>4, GoodInv
<1>5. CASE GetAddr
  BY <1>5, GetAddrInv
<1>6. CASE DumpAddresses
  BY <1>6, DumpAddressesInv
<1>7. CASE Restart
  BY <1>7, RestartInv
<1> QED
  BY <1>1, <1>2, <1>3, <1>4, <1>5, <1>6, <1>7 DEF Next

\* In every reachable state the five structures agree, and peers.dat holds tables
\* that agree.
THEOREM TablesAgree == Spec => []Inv
BY InitInv, NextInv, PTL DEF Spec

\* Check_ -2, -3, -4, -12 and -15: an entry's count is the number of new buckets
\* it is in, between one and the limit, and a tried entry is in none.
THEOREM RefCountAlwaysExact == Spec => []RefCountIsExact
<1>1. Inv => RefCountIsExact
  <2> SUFFICES ASSUME Inv PROVE RefCountIsExact
    OBVIOUS
  <2>1. NewInStep(mapInfo, vvNew)
    BY DEF Inv
  <2>2. New = Untried(mapInfo) /\ DOMAIN mapInfo \ New = Tried(mapInfo)
    BY DEF New, Untried, Tried
  <2>3. \A n : Refs(vvNew, n) = {b \in NewBucket : n \in vvNew[b]}
    BY DEF Refs
  <2>4. \A n \in Tried(mapInfo) : mapInfo[n].nRefCount = 0
    BY BeforeDump
  <2>5. \A n \in DOMAIN mapInfo :
          mapInfo[n].nRefCount = Cardinality({b \in NewBucket : n \in vvNew[b]})
    BY <2>1, <2>3 DEF NewInStep
  <2>6. \A b \in NewBucket : vvNew[b] \subseteq DOMAIN mapInfo
    BY <2>1 DEF NewInStep, Untried
  <2>7. \A n \in New : mapInfo[n].nRefCount \in 1 .. ADDRMAN_NEW_BUCKETS_PER_ADDRESS
    BY <2>1, <2>2 DEF NewInStep
  <2> QED
    BY <2>2, <2>4, <2>5, <2>6, <2>7 DEF RefCountIsExact
<1> QED
  BY <1>1, TablesAgree, PTL

\* Check_ -11, -13 and -1: a tried entry is once in the bucket its hash names and
\* in no other.
THEOREM TriedAlwaysPlaced == Spec => []TriedIsPlaced
<1>1. Inv => TriedIsPlaced
  <2> SUFFICES ASSUME Inv, NEW n \in Id, NEW k \in TriedBucket
               PROVE  /\ Cardinality(Occurs(n, vvTried[k])) =
                            (IF n \in DOMAIN mapInfo \ New
                                /\ k = GetTriedBucket[mapInfo[n].addr] THEN 1 ELSE 0)
                      /\ n \in DOMAIN mapInfo \ New => mapInfo[n].nLastSuccess # 0
    BY DEF TriedIsPlaced
  <2>1. DOMAIN mapInfo \ New = Tried(mapInfo)
    BY DEF New, Tried
  <2> DEFINE v == vvTried[k]
  <2>2. Lists(v, TriedIn(mapInfo, k)) /\ \A m \in Tried(mapInfo) : mapInfo[m].nLastSuccess # 0
    BY TriedInStepIs DEF Inv, BucketInStep
  <2>3. n \in TriedIn(mapInfo, k) <=> /\ n \in DOMAIN mapInfo \ New
                                      /\ k = GetTriedBucket[mapInfo[n].addr]
    BY <2>1 DEF TriedIn, BucketOf
  <2> HIDE DEF v
  <2>4. CASE n \in TriedIn(mapInfo, k)
    <3>1. PICK i \in DOMAIN v : v[i] = n
      BY <2>2, <2>4 DEF Lists
    <3>2. Occurs(n, v) = {i}
      BY <2>2, <3>1 DEF Lists, Occurs
    <3>3. Cardinality(Occurs(n, v)) = 1
      BY <3>2, FS_Singleton
    <3> QED
      BY <2>1, <2>2, <2>3, <2>4, <3>3 DEF v
  <2>5. CASE n \notin TriedIn(mapInfo, k)
    <3>1. \A i \in DOMAIN v : v[i] \in TriedIn(mapInfo, k)
      BY <2>2, ElementOfSeq, LenProperties DEF Lists
    <3>2. Occurs(n, v) = {}
      BY <2>5, <3>1 DEF Occurs
    <3>3. Cardinality(Occurs(n, v)) = 0
      BY <3>2, FS_EmptySet
    <3> QED
      BY <2>1, <2>2, <2>3, <2>5, <3>3 DEF v
  <2> QED
    BY <2>4, <2>5
<1> QED
  BY <1>1, TablesAgree, PTL

\* Check_ -5: mapAddr finds every entry by its host and nothing else.
THEOREM AddrAlwaysIndexed == Spec => []AddrIsIndexed
<1>1. Inv => AddrIsIndexed
  <2> SUFFICES ASSUME Inv PROVE AddrIsIndexed
    OBVIOUS
  <2>1. Named(Index)
    BY DEF Inv, InStep
  <2> QED
    BY <2>1, IndexFields DEF Named, AddrIsIndexed
<1> QED
  BY <1>1, TablesAgree, PTL

\* Check_ -14, -7, -9 and -10: vRandom is a permutation of the entries that knows
\* their places, and the counters count them.
THEOREM RandomAlwaysPermutation == Spec => []RandomIsPermutation
<1>1. Inv => RandomIsPermutation
  <2> SUFFICES ASSUME Inv PROVE RandomIsPermutation
    OBVIOUS
  <2>1. InStep(Index) /\ nTried = Cardinality(Tried(mapInfo))
    BY DEF Inv
  <2>2. New = Untried(mapInfo) /\ DOMAIN mapInfo \ New = Tried(mapInfo)
    BY DEF New, Untried, Tried
  <2>3. /\ \A n \in DOMAIN mapInfo : /\ mapInfo[n].nRandomPos \in DOMAIN vRandom
                                     /\ vRandom[mapInfo[n].nRandomPos] = n
        /\ Len(vRandom) = Cardinality(DOMAIN mapInfo)
        /\ nNew = Cardinality(Untried(mapInfo))
    BY <2>1, IndexFields DEF InStep
  <2> QED
    BY <2>1, <2>2, <2>3 DEF RandomIsPermutation
<1> QED
  BY <1>1, TablesAgree, PTL

\* No bucket outgrows its limit, although MakeTried puts an evicted entry into a
\* new bucket without shrinking it.
THEOREM BucketsAlwaysBounded == Spec => []BucketsAreBounded
<1>1. Inv => BucketsAreBounded
  BY DEF Inv, NewInStep, TriedInStep, BucketsAreBounded
<1> QED
  BY <1>1, TablesAgree, PTL

\* Every variable keeps its type; the counts and places keep their bounds.
THEOREM TypeAlwaysOK == Spec => []TypeOK
<1>1. Inv => TypeOK
  <2> SUFFICES ASSUME Inv PROVE TypeOK
    OBVIOUS
  <2>1. InStep(Index) /\ NewInStep(mapInfo, vvNew) /\ TriedInStep(mapInfo, vvTried)
        /\ nIdCount \in 0 .. MaxId /\ nTried = Cardinality(Tried(mapInfo))
    BY DEF Inv
  <2>2. /\ DOMAIN mapInfo \subseteq Id /\ \A n \in DOMAIN mapInfo : mapInfo[n] \in Entry
        /\ Named(Index) /\ vRandom \in Seq(DOMAIN mapInfo)
        /\ Len(vRandom) = Cardinality(DOMAIN mapInfo)
        /\ \A n \in DOMAIN mapInfo : mapInfo[n].nRandomPos \in DOMAIN vRandom
        /\ nNew = Cardinality(Untried(mapInfo))
    BY <2>1, IndexFields DEF InStep
  <2>3. /\ \A n \in DOMAIN mapInfo : mapInfo[n].nRefCount = Cardinality(Refs(vvNew, n))
        /\ vvNew \in [NewBucket -> SUBSET Untried(mapInfo)]
    BY <2>1 DEF NewInStep
  <2>4. Tried(mapInfo) \in SUBSET Id /\ Untried(mapInfo) \in SUBSET Id
    BY <2>2 DEF Tried, Untried
  <2>5. nTried \in Nat /\ nNew \in Nat
    BY <2>1, <2>2, <2>4, IdsFinite
  <2>6. \A n \in DOMAIN mapInfo : mapInfo[n] \in CAddrInfo
    <3>1. DOMAIN vRandom = 1 .. Len(vRandom) /\ Len(vRandom) <= MaxId /\ Len(vRandom) \in Nat
      BY <2>2, LenProperties, IdsFinite
    <3>2. \A n \in DOMAIN mapInfo : mapInfo[n].nRandomPos \in 1 .. MaxId
      BY <2>2, <3>1, AddrManAssumption
    <3>3. \A n \in DOMAIN mapInfo : mapInfo[n].nRefCount \in 0 .. ADDRMAN_NEW_BUCKET_COUNT
      <4> TAKE n \in DOMAIN mapInfo
      <4>1. Refs(vvNew, n) \in SUBSET NewBucket
        BY DEF Refs
      <4>2. /\ Cardinality(Refs(vvNew, n)) \in Nat
            /\ Cardinality(Refs(vvNew, n)) <= ADDRMAN_NEW_BUCKET_COUNT
        BY <4>1, BucketsFinite
      <4> QED
        BY <2>3, <4>2, AddrManAssumption
    <3> QED
      BY <2>2, <3>2, <3>3 DEF Entry, CAddrInfo
  <2>7. DOMAIN mapAddr \subseteq NetAddr /\ \A h \in DOMAIN mapAddr : mapAddr[h] \in Id
    <3>1. \A h \in DOMAIN mapAddr : /\ mapAddr[h] \in DOMAIN mapInfo
                                    /\ host[mapInfo[mapAddr[h]].addr] = h
      BY <2>2, IndexFields DEF Named
    <3>2. \A n \in DOMAIN mapInfo : host[mapInfo[n].addr] \in NetAddr
      BY <2>2, AddrManAssumption DEF Entry
    <3> QED
      BY <2>2, <3>1, <3>2
  <2>8. vRandom \in Seq(Id)
    <3>1. \A i \in 1 .. Len(vRandom) : vRandom[i] \in Id
      BY <2>2, ElementOfSeq
    <3> QED
      BY <2>2, <3>1, SeqDef
  <2>9. vvTried \in [TriedBucket -> Seq(Id)]
    <3>1. /\ vvTried = [k \in TriedBucket |-> vvTried[k]]
          /\ \A k \in TriedBucket : BucketInStep(mapInfo, vvTried[k], k)
      BY <2>1, TriedInStepIs
    <3>2. \A k \in TriedBucket : vvTried[k] \in Seq(Id)
      <4> TAKE k \in TriedBucket
      <4> DEFINE v == vvTried[k]
      <4>1. v \in Seq(TriedIn(mapInfo, k)) /\ TriedIn(mapInfo, k) \subseteq Id
        BY <2>4, <3>1 DEF BucketInStep, Lists, TriedIn
      <4> HIDE DEF v
      <4>2. \A i \in 1 .. Len(v) : v[i] \in Id
        BY <4>1, ElementOfSeq
      <4>3. v \in Seq(Id)
        BY <4>1, <4>2, SeqDef
      <4> QED
        BY <4>3 DEF v
    <3> QED
      BY <3>1, <3>2
  <2>10. vvNew \in [NewBucket -> SUBSET Id]
    BY <2>3, <2>4
  <2> QED
    BY <2>1, <2>2, <2>5, <2>6, <2>7, <2>8, <2>9, <2>10 DEF TypeOK
<1> QED
  BY <1>1, TablesAgree, PTL

\* "They are never deleted while in the tried table, only possibly evicted back
\* to the new table": after any call they are still in some bucket.
THEOREM TriedNeverDeleted == Spec => TriedIsNotDeleted
<1> DEFINE Stays(n) == /\ n \in DOMAIN mapInfo'
                       /\ \/ \E k \in TriedBucket : Occurs(n, vvTried'[k]) # {}
                          \/ \E b \in NewBucket : n \in vvNew'[b]
           Kind == \A n \in DOMAIN mapInfo \ New : Restart \/ Stays(n)
<1>1. ASSUME Inv, Inv', [Next]_vars PROVE Kind
  <2> SUFFICES ASSUME NEW n \in Tried(mapInfo), ~Restart PROVE Stays(n)
    BY DEF New, Tried
  <2>1. n \in DOMAIN mapInfo
    BY DEF Tried
  <2>2. ASSUME n \in DOMAIN mapInfo' PROVE Stays(n)
    <3>1. CASE n \in Tried(mapInfo')
      <4> DEFINE k == BucketOf(mapInfo', n)
      <4>1. k \in TriedBucket
        <5>1. InStep(Index)'
          BY <1>1 DEF Inv
        <5>2. mapInfo'[n] \in Entry
          BY <2>2, <5>1 DEF InStep, Index
        <5> QED
          BY <5>2, AddrManAssumption DEF BucketOf, Entry
      <4>2. TriedInStep(mapInfo', vvTried')
        BY <1>1 DEF Inv
      <4>3. n \in TriedIn(mapInfo', k)
        BY <3>1 DEF TriedIn
      <4> HIDE DEF k
      <4>4. Lists(vvTried'[k], TriedIn(mapInfo', k))
        BY <4>1, <4>2, TriedInStepIs DEF BucketInStep
      <4>5. Occurs(n, vvTried'[k]) # {}
        BY <4>3, <4>4 DEF Lists, Occurs
      <4> QED
        BY <2>2, <4>1, <4>5
    <3>2. CASE n \notin Tried(mapInfo')
      <4>1. NewInStep(mapInfo', vvNew')
        BY <1>1 DEF Inv
      <4>2. /\ mapInfo'[n].nRefCount \in 1 .. ADDRMAN_NEW_BUCKETS_PER_ADDRESS
            /\ mapInfo'[n].nRefCount = Cardinality(Refs(vvNew', n))
        BY <2>2, <3>2, <4>1 DEF NewInStep, Untried
      <4>3. Refs(vvNew', n) # {}
        BY <4>2, FS_EmptySet
      <4> QED
        BY <2>2, <4>3 DEF Refs
    <3> QED
      BY <3>1, <3>2
  <2>3. ASSUME vvTried' = vvTried PROVE n \in DOMAIN mapInfo'
    <3> DEFINE k == BucketOf(mapInfo, n)
    <3>1. k \in TriedBucket
      <4>1. mapInfo[n] \in Entry
        BY <1>1, <2>1, BeforeDump
      <4> QED
        BY <4>1, AddrManAssumption DEF BucketOf, Entry
    <3>2. n \in TriedIn(mapInfo, k)
      BY DEF TriedIn
    <3>3. TriedInStep(mapInfo, vvTried) /\ TriedInStep(mapInfo', vvTried')
      BY <1>1 DEF Inv
    <3> HIDE DEF k
    <3>4. Lists(vvTried[k], TriedIn(mapInfo, k)) /\ Lists(vvTried'[k], TriedIn(mapInfo', k))
      BY <3>1, <3>3, TriedInStepIs DEF BucketInStep
    <3> DEFINE v == vvTried[k]
    <3>5. Lists(v, TriedIn(mapInfo, k)) /\ Lists(v, TriedIn(mapInfo', k))
      BY <2>3, <3>4
    <3> HIDE DEF v
    <3>6. PICK i \in DOMAIN v : v[i] = n
      BY <3>2, <3>5 DEF Lists
    <3>7. v[i] \in TriedIn(mapInfo', k)
      BY <3>5, <3>6, ElementOfSeq, LenProperties DEF Lists
    <3> QED
      BY <3>6, <3>7 DEF TriedIn, Tried
  <2>4. ASSUME NEW a \in Service, NEW t \in Time, Good(a, t) PROVE DOMAIN mapInfo' = DOMAIN mapInfo
    BY <2>4 DEF Good, AppendTried, EvictTried, LeaveNew
  <2>5. CASE UNCHANGED vars
    BY <2>2, <2>3, <2>5 DEF vars, tables
  <2>6. ASSUME NEW a \in Service, NEW s \in NetAddr, AddUnknown(a, s) \/ AddKnown(a, s)
        PROVE  Stays(n)
    BY <2>2, <2>3, <2>6 DEF AddUnknown, AddKnown
  <2>7. CASE GetAddr \/ DumpAddresses
    BY <2>2, <2>3, <2>7 DEF GetAddr, DumpAddresses, tables
  <2>8. ASSUME NEW a \in Service, NEW t \in Time, Good(a, t) PROVE Stays(n)
    BY <2>1, <2>2, <2>4, <2>8
  <2> HIDE DEF Stays
  <2> QED
    BY <1>1, <2>5, <2>6, <2>7, <2>8 DEF Next
<1>2. Kind => (\A n \in DOMAIN mapInfo \ New :
                  \/ Restart
                  \/ n \in DOMAIN mapInfo' /\ \/ \E k \in TriedBucket : Occurs(n, vvTried'[k]) # {}
                                              \/ \E b \in NewBucket : n \in vvNew'[b])
  OBVIOUS
<1> HIDE DEF Kind
<1> QED
  BY <1>1, <1>2, TablesAgree, PTL DEF Spec, TriedIsNotDeleted

-----------------------------------------------------------------------------
\* Every tried entry that was written fits in again, so the file loses nothing.
LEMMA AllFit ==
    ASSUME Inv, NEW f, f = Serialize
    PROVE  KeptSet(f) = DOMAIN f.vTried
<1> DEFINE V == Tried(mapInfo)
           p == InOrder(V)
           d == Cardinality(V)
<1>1. /\ DOMAIN f.vTried = 1..d
      /\ \A i \in 1..d : f.vTried[i] = Kept(p[i])
  BY SerializeGives, Zenon
<1>2. V \in SUBSET Nat /\ IsFiniteSet(V) /\ \A n \in DOMAIN mapInfo : mapInfo[n] \in Entry
  BY BeforeDump
<1>3. /\ \A k \in TriedBucket : BucketInStep(mapInfo, vvTried[k], k)
      /\ V \subseteq DOMAIN mapInfo
  BY TriedInStepIs DEF Inv, Tried
<1> HIDE DEF V
<1>4. /\ d \in Nat /\ Lists(p, V) /\ DOMAIN p = 1..d /\ \A i \in 1..d : p[i] \in V
  BY <1>2, InOrderLists
<1>5. \A i, j \in 1..d : p[i] = p[j] => i = j
  BY <1>4 DEF Lists
<1> HIDE DEF p, d
<1>6. \A i \in 1..d : BucketAt(f, i) = BucketOf(mapInfo, p[i])
  <2>1. \A n : Kept(n).addr = mapInfo[n].addr
    BY DEF Kept
  <2> QED
    BY <1>1, <2>1 DEF BucketAt, BucketOf
<1>7. ASSUME NEW i \in 1..d PROVE Fits(f, i)
  <2> DEFINE k == BucketAt(f, i)
             A == 1 .. i - 1
             B == {j \in A : BucketAt(f, j) = k}
             C == B \cup {i}
             T == TriedIn(mapInfo, k)
             v == vvTried[k]
             g == [j \in C |-> p[j]]
  <2>1. k \in TriedBucket
    <3>1. p[i] \in V /\ p[i] \in DOMAIN mapInfo
      BY <1>3, <1>4
    <3>2. mapInfo[p[i]] \in Entry
      BY <1>2, <3>1
    <3> QED
      BY <1>6, <3>2, AddrManAssumption DEF BucketOf, Entry
  <2>2. IsFiniteSet(A) /\ i \notin A /\ \A j \in A : j \in 1..d
    BY <1>4, FS_Interval
  <2>3. \A j \in C : j \in 1..d /\ BucketAt(f, j) = k
    BY <2>2
  <2>4. \A j \in C : p[j] \in T
    BY <1>4, <1>6, <2>3 DEF TriedIn, V
  <2>5. g \in [C -> T] /\ \A x, y \in C : g[x] = g[y] => x = y
    BY <1>5, <2>3, <2>4
  <2>6. Lists(v, T) /\ Len(v) <= ADDRMAN_TRIED_BUCKET_SIZE
    BY <1>3, <2>1 DEF BucketInStep
  <2>7. B \in SUBSET A /\ i \notin B
    BY <2>2
  <2>8. Fits(f, i) <=> Cardinality(B) < ADDRMAN_TRIED_BUCKET_SIZE
    BY DEF Fits
  <2>9. T \in SUBSET V
    BY DEF TriedIn, V
  <2> HIDE DEF A, B, T, v, g
  <2>10. IsFiniteSet(B) /\ Cardinality(C) = Cardinality(B) + 1 /\ Cardinality(B) \in Nat
    BY <2>2, <2>7, FS_Subset, OneMore
  <2> HIDE DEF C
  <2>11. IsFiniteSet(T)
    BY <1>2, <2>9, FS_Subset
  <2>12. g \in Injection(C, T)
    BY <2>5 DEF Injection, IsInjective
  <2>13. Cardinality(C) <= Cardinality(T)
    BY <2>11, <2>12, FS_Injection
  <2>14. Cardinality(T) <= Len(v) /\ Len(v) \in Nat
    <3>1. Len(v) \in Nat /\ DOMAIN v = 1 .. Len(v) /\ v \in Seq(T)
      BY <2>6, LenProperties DEF Lists
    <3>2. v \in [1 .. Len(v) -> T]
      BY <3>1
    <3>3. v \in Surjection(1 .. Len(v), T)
      BY <2>6, <3>1, <3>2 DEF Surjection, Lists
    <3>4. IsFiniteSet(1 .. Len(v)) /\ Cardinality(1 .. Len(v)) = Len(v)
      <4> DEFINE l == Len(v)
      <4>1. l \in Nat
        BY <3>1
      <4> HIDE DEF l
      <4>2. IsFiniteSet(1..l) /\ Cardinality(1..l) = l
        BY <4>1, FS_Interval
      <4> QED
        BY <4>2 DEF l
    <3> DEFINE D == 1 .. Len(v)
    <3>5. v \in Surjection(D, T) /\ IsFiniteSet(D) /\ Cardinality(D) = Len(v)
      BY <3>3, <3>4
    <3> HIDE DEF D
    <3>6. Cardinality(T) <= Cardinality(D)
      BY <3>5, FS_Surjection
    <3> QED
      BY <3>1, <3>5, <3>6
  <2>15. Cardinality(T) \in Nat /\ ADDRMAN_TRIED_BUCKET_SIZE \in Nat
    BY <2>11, FS_CardinalityType, AddrManAssumption
  <2> QED
    BY <2>6, <2>8, <2>10, <2>13, <2>14, <2>15
<1> QED
  BY <1>1, <1>7 DEF KeptSet

\* phi tells which entry each entry that is read back was.
IsSource(phi, f) ==
    LET g == InfoOf(f)
    IN  /\ \A n \in Untried(g) : phi[n] \in Untried(mapInfo)
        /\ \A n \in Tried(g) : phi[n] \in Tried(mapInfo)
        /\ \A m \in Untried(mapInfo) : \E n \in Untried(g) : phi[n] = m
        /\ \A m \in Tried(mapInfo) : \E n \in Tried(g) : phi[n] = m
        /\ \A n \in DOMAIN g : /\ g[n].addr = mapInfo[phi[n]].addr
                               /\ g[n].nLastSuccess = mapInfo[phi[n]].nLastSuccess
                               /\ g[n].nRefCount = mapInfo[phi[n]].nRefCount
        /\ \A b \in NewBucket : \A n \in Untried(g) : n \in NewOf(f)[b] <=> phi[n] \in vvNew[b]

LEMMA SourceExists ==
    ASSUME Inv, NEW f, f = Serialize
    PROVE  \E phi : IsSource(phi, f)
<1> DEFINE U == Untried(mapInfo)
           V == Tried(mapInfo)
           p == InOrder(U)
           r == InOrder(V)
           c == Len(f.vNew)
           d == Cardinality(V)
           q == KeptOrder(f)
           t == Total(f)
           g == InfoOf(f)
           phi == [n \in 0 .. t - 1 |-> IF n < c THEN p[n + 1] ELSE r[q[n - c + 1]]]
<1>1. FileInStep(f)
  BY SerializeInStep
<1>2. /\ c = Cardinality(U)
      /\ \A i \in 1..c : f.vNew[i] = Kept(p[i])
      /\ DOMAIN f.vTried = 1..d
      /\ \A i \in 1..d : f.vTried[i] = Kept(r[i])
      /\ f.vvNew = [b \in NewBucket |-> {Rank(U, n) : n \in vvNew[b]}]
  BY SerializeGives, Zenon
<1>3. /\ U \in SUBSET Nat /\ IsFiniteSet(U) /\ V \in SUBSET Nat /\ IsFiniteSet(V)
      /\ \A n \in V : mapInfo[n].nRefCount = 0
  BY BeforeDump
<1>4. /\ KeptSet(f) = 1..d /\ Lists(q, 1..d) /\ Len(q) \in Nat /\ DOMAIN q = 1 .. Len(q)
      /\ c \in Nat /\ t = c + Len(q)
  BY <1>1, <1>2, AllFit, KeptGives DEF Total
<1>5. /\ DOMAIN g = 0 .. t - 1 /\ Untried(g) = 0 .. c - 1 /\ Tried(g) = c .. t - 1
      /\ \A n \in 0 .. t - 1 :
           /\ g[n].addr = EntryOf(f, n).addr /\ g[n].nLastSuccess = EntryOf(f, n).nLastSuccess
           /\ g[n].nRefCount = IF n < c THEN Cardinality(Taken(f, n)) ELSE 0
  BY <1>1, RebuiltEntries
<1>6. \A n \in 0 .. c - 1 : Taken(f, n) = Refs(f.vvNew, n + 1)
  BY <1>1, TakenIs
<1>7. \A n \in c .. t - 1 : /\ n - c + 1 \in 1 .. Len(q)
                            /\ EntryOf(f, n) = f.vTried[q[n - c + 1]]
  BY <1>1, EntriesGive
<1>8. \A b \in NewBucket : NewOf(f)[b] = {n \in 0 .. c - 1 : n + 1 \in f.vvNew[b]}
  BY <1>1, RebuiltNew
<1>9. /\ vvNew \in [NewBucket -> SUBSET U]
      /\ \A n \in U : mapInfo[n].nRefCount = Cardinality(Refs(vvNew, n))
  BY DEF Inv, NewInStep, Untried
<1>10. \A n : n < c => EntryOf(f, n) = f.vNew[n + 1]
  BY DEF EntryOf
<1> HIDE DEF U, V
<1>11. /\ Lists(p, U) /\ DOMAIN p = 1..c
       /\ \A i \in 1..c : p[i] \in U /\ Rank(U, p[i]) = i
       /\ \A n \in U : Rank(U, n) \in 1..c /\ p[Rank(U, n)] = n
  BY <1>2, <1>3, InOrderLists
<1>12. /\ Lists(r, V) /\ DOMAIN r = 1..d /\ \A i \in 1..d : r[i] \in V
  BY <1>3, InOrderLists
<1>13. \A i \in 1 .. Len(q) : q[i] \in 1..d
  BY <1>4, ElementOfSeq, LenProperties DEF Lists
<1>14. \A n : /\ Kept(n).addr = mapInfo[n].addr
              /\ Kept(n).nLastSuccess = mapInfo[n].nLastSuccess
  BY DEF Kept
<1> HIDE DEF p, r, c, d, q, t, g
<1>15. /\ \A n \in 0 .. c - 1 : n \in 0 .. t - 1 /\ n < c /\ n + 1 \in 1..c
       /\ \A n \in c .. t - 1 : n \in 0 .. t - 1 /\ ~(n < c)
       /\ \A n \in 0 .. t - 1 : n \in 0 .. c - 1 \/ n \in c .. t - 1
  BY <1>4
<1>16. /\ \A n \in 0 .. c - 1 : phi[n] = p[n + 1]
       /\ \A n \in c .. t - 1 : phi[n] = r[q[n - c + 1]]
  BY <1>15
<1> HIDE DEF phi
<1>17. \A n \in 0 .. c - 1 : phi[n] \in U
  BY <1>11, <1>15, <1>16
<1>18. \A n \in c .. t - 1 : phi[n] \in V
  BY <1>7, <1>12, <1>13, <1>16
<1>19. ASSUME NEW m \in U PROVE \E n \in 0 .. c - 1 : phi[n] = m
  <2> DEFINE i == Rank(U, m)
  <2>1. i \in 1..c /\ p[i] = m
    BY <1>11
  <2> HIDE DEF i
  <2>2. i - 1 \in 0 .. c - 1 /\ (i - 1) + 1 = i
    BY <1>4, <2>1
  <2> QED
    BY <1>16, <2>1, <2>2
<1>20. ASSUME NEW m \in V PROVE \E n \in c .. t - 1 : phi[n] = m
  <2>1. PICK i \in 1..d : r[i] = m
    BY <1>12 DEF Lists
  <2>2. PICK j \in 1 .. Len(q) : q[j] = i
    BY <1>4, <2>1 DEF Lists
  <2>3. c + j - 1 \in c .. t - 1 /\ (c + j - 1) - c + 1 = j
    BY <1>4, <2>2
  <2> QED
    BY <1>16, <2>1, <2>2, <2>3
<1>21. \A b \in NewBucket : \A n \in 0 .. c - 1 : n + 1 \in f.vvNew[b] <=> phi[n] \in vvNew[b]
  <2> TAKE b \in NewBucket
  <2> TAKE n \in 0 .. c - 1
  <2>1. f.vvNew[b] = {Rank(U, m) : m \in vvNew[b]} /\ vvNew[b] \subseteq U
    BY <1>2, <1>9
  <2>2. phi[n] = p[n + 1] /\ n + 1 \in 1..c /\ p[n + 1] \in U /\ Rank(U, p[n + 1]) = n + 1
    BY <1>11, <1>15, <1>16
  <2>3. \A m \in U : Rank(U, m) = n + 1 => m = p[n + 1]
    BY <1>11
  <2> QED
    BY <2>1, <2>2, <2>3
<1>22. \A n \in 0 .. c - 1 : Refs(f.vvNew, n + 1) = Refs(vvNew, phi[n])
  BY <1>21 DEF Refs
<1>23. \A n \in 0 .. t - 1 : /\ g[n].addr = mapInfo[phi[n]].addr
                             /\ g[n].nLastSuccess = mapInfo[phi[n]].nLastSuccess
                             /\ g[n].nRefCount = mapInfo[phi[n]].nRefCount
  <2> TAKE n \in 0 .. t - 1
  <2>1. CASE n \in 0 .. c - 1
    <3>1. EntryOf(f, n) = Kept(phi[n])
      BY <1>2, <1>10, <1>15, <1>16, <2>1
    <3>2. g[n].nRefCount = mapInfo[phi[n]].nRefCount
      BY <1>5, <1>6, <1>9, <1>15, <1>17, <1>22, <2>1
    <3> QED
      BY <1>5, <1>14, <3>1, <3>2
  <2>2. CASE n \in c .. t - 1
    <3>1. EntryOf(f, n) = Kept(phi[n])
      BY <1>2, <1>7, <1>13, <1>16, <2>2
    <3>2. g[n].nRefCount = mapInfo[phi[n]].nRefCount
      BY <1>3, <1>5, <1>15, <1>18, <2>2
    <3> QED
      BY <1>5, <1>14, <3>1, <3>2
  <2> QED
    BY <1>15, <2>1, <2>2
<1>24. \A b \in NewBucket : \A n \in 0 .. c - 1 : n \in NewOf(f)[b] <=> phi[n] \in vvNew[b]
  BY <1>8, <1>21
<1>25. IsSource(phi, f)
  BY <1>5, <1>17, <1>18, <1>19, <1>20, <1>23, <1>24 DEF IsSource, U, V, g
<1> QED
  BY <1>25

\* The addresses in tried bucket k, and those whose hash names it.
Listed(info, tried, k) == {info[tried[k][i]].addr : i \in DOMAIN tried[k]}
Hashed(info, k)        == {info[n].addr : n \in TriedIn(info, k)}

LEMMA ListedIsHashed ==
    ASSUME NEW info, NEW tried, TriedInStep(info, tried), NEW k \in TriedBucket
    PROVE  Listed(info, tried, k) = Hashed(info, k)
<1> DEFINE v == tried[k]
           S == TriedIn(info, k)
<1>1. Lists(v, S)
  BY TriedInStepIs DEF BucketInStep
<1> HIDE DEF v, S
<1>2. \A i \in DOMAIN v : v[i] \in S
  BY <1>1, ElementOfSeq, LenProperties DEF Lists
<1>3. \A n \in S : \E i \in DOMAIN v : v[i] = n
  BY <1>1 DEF Lists
<1>4. {info[v[i]].addr : i \in DOMAIN v} = {info[n].addr : n \in S}
  BY <1>2, <1>3
<1> QED
  BY <1>4 DEF v, S, Listed, Hashed

\* Writing peers.dat and reading it back gives the same tables, up to the ids
\* and the random order: no entry, no reference and no tried address is lost.
THEOREM DumpAlwaysRestores == Spec => []DumpRestores
<1>1. Inv => DumpRestores
  <2> SUFFICES ASSUME Inv PROVE DumpRestores
    OBVIOUS
  <2> DEFINE f == Serialize
             g == InfoOf(f)
             w == TriedOf(f)
             x == NewOf(f)
  <2>1. PICK phi : IsSource(phi, f)
    BY SourceExists
  <2>2. TriedInStep(g, w) /\ TriedInStep(mapInfo, vvTried)
    BY SerializeInStep, RebuiltTried DEF Inv
  <2>3. /\ x \in [NewBucket -> SUBSET Untried(g)]
        /\ vvNew \in [NewBucket -> SUBSET Untried(mapInfo)]
    BY SerializeInStep, RebuiltNew DEF Inv, NewInStep
  <2>4. Content(Unserialize(f).mapInfo, Unserialize(f).vvTried, Unserialize(f).vvNew)
          = Content(g, w, x)
    <3>1. Unserialize(f) =
            [nIdCount |-> Total(f), mapInfo |-> g, mapAddr |-> AddrOf(f),
             vRandom |-> RandomOf(f), nTried |-> Len(KeptOrder(f)), nNew |-> Len(f.vNew),
             vvTried |-> w, vvNew |-> x]
      BY UnserializeIs
    <3> HIDE DEF f, g, w, x
    <3>2. /\ Unserialize(f).mapInfo = g /\ Unserialize(f).vvTried = w
          /\ Unserialize(f).vvNew = x
      BY <3>1
    <3> QED
      BY <3>2
  <2>5. DumpRestores <=>
          Content(Unserialize(f).mapInfo, Unserialize(f).vvTried, Unserialize(f).vvNew)
            = Content(mapInfo, vvTried, vvNew)
    BY DEF DumpRestores
  <2>6. /\ \A n \in Untried(g) : phi[n] \in Untried(mapInfo)
        /\ \A n \in Tried(g) : phi[n] \in Tried(mapInfo)
        /\ \A m \in Untried(mapInfo) : \E n \in Untried(g) : phi[n] = m
        /\ \A m \in Tried(mapInfo) : \E n \in Tried(g) : phi[n] = m
        /\ \A n \in DOMAIN g : /\ g[n].addr = mapInfo[phi[n]].addr
                               /\ g[n].nLastSuccess = mapInfo[phi[n]].nLastSuccess
                               /\ g[n].nRefCount = mapInfo[phi[n]].nRefCount
        /\ \A b \in NewBucket : \A n \in Untried(g) : n \in x[b] <=> phi[n] \in vvNew[b]
    BY <2>1 DEF IsSource
  <2> HIDE DEF f, g, w, x
  <2>7. /\ \A n \in Tried(g) : n \in DOMAIN g
        /\ \A n \in Untried(g) : n \in DOMAIN g
        /\ \A n \in DOMAIN g : n \in Tried(g) \/ n \in Untried(g)
        /\ \A n \in Tried(mapInfo) : n \in DOMAIN mapInfo
        /\ \A n \in Untried(mapInfo) : n \in DOMAIN mapInfo
        /\ \A n \in DOMAIN mapInfo : n \in Tried(mapInfo) \/ n \in Untried(mapInfo)
    BY DEF Tried, Untried
  <2>8. {g[n].addr : n \in Tried(g)} = {mapInfo[n].addr : n \in Tried(mapInfo)}
    BY <2>6, <2>7
  <2>9. \A b \in NewBucket : {g[n].addr : n \in x[b]} = {mapInfo[n].addr : n \in vvNew[b]}
    <3> TAKE b \in NewBucket
    <3>1. x[b] \subseteq Untried(g) /\ vvNew[b] \subseteq Untried(mapInfo)
      BY <2>3
    <3>2. \A n \in x[b] : phi[n] \in vvNew[b] /\ g[n].addr = mapInfo[phi[n]].addr
      BY <2>6, <2>7, <3>1
    <3>3. \A m \in vvNew[b] : \E n \in x[b] : phi[n] = m
      BY <2>6, <3>1
    <3> QED
      BY <3>2, <3>3
  <2>10. \A k \in TriedBucket : {g[w[k][i]].addr : i \in DOMAIN w[k]}
                                  = {mapInfo[vvTried[k][i]].addr : i \in DOMAIN vvTried[k]}
    <3> TAKE k \in TriedBucket
    <3>1. /\ \A n \in TriedIn(g, k) : phi[n] \in TriedIn(mapInfo, k)
                                      /\ g[n].addr = mapInfo[phi[n]].addr
          /\ \A m \in TriedIn(mapInfo, k) : \E n \in TriedIn(g, k) : phi[n] = m
      BY <2>6, <2>7 DEF TriedIn, BucketOf
    <3>2. Hashed(g, k) = Hashed(mapInfo, k)
      BY <3>1 DEF Hashed
    <3>3. Listed(g, w, k) = Hashed(g, k) /\ Listed(mapInfo, vvTried, k) = Hashed(mapInfo, k)
      BY <2>2, ListedIsHashed
    <3>4. Listed(g, w, k) = Listed(mapInfo, vvTried, k)
      BY <3>2, <3>3
    <3> QED
      BY <3>4 DEF Listed
  <2>11. {<<g[n].addr, g[n].nLastSuccess, g[n].nRefCount>> : n \in DOMAIN g}
           = {<<mapInfo[n].addr, mapInfo[n].nLastSuccess, mapInfo[n].nRefCount>> :
                n \in DOMAIN mapInfo}
    <3>1. \A n \in DOMAIN g : /\ phi[n] \in DOMAIN mapInfo
                              /\ <<g[n].addr, g[n].nLastSuccess, g[n].nRefCount>>
                                   = <<mapInfo[phi[n]].addr, mapInfo[phi[n]].nLastSuccess,
                                       mapInfo[phi[n]].nRefCount>>
      BY <2>6, <2>7
    <3>2. \A m \in DOMAIN mapInfo : \E n \in DOMAIN g : phi[n] = m
      BY <2>6, <2>7
    <3> QED
      BY <3>1, <3>2
  <2>12. /\ {n \in DOMAIN g : g[n].fInTried} = Tried(g)
         /\ {n \in DOMAIN mapInfo : mapInfo[n].fInTried} = Tried(mapInfo)
    BY DEF Tried
  <2>13. Content(g, w, x) = Content(mapInfo, vvTried, vvNew)
    BY <2>8, <2>9, <2>10, <2>11, <2>12, Zenon DEF Content
  <2> QED
    BY <2>4, <2>5, <2>13
<1> QED
  BY <1>1, TablesAgree, PTL
=============================================================================
