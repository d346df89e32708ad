--------------------------- MODULE KeyPoolProofs ----------------------------
(***************************************************************************)
(* Proofs about the key pool: its types for every parameter; that a used   *)
(* key leaves the wallet file; and, while the wallet is not encrypted and   *)
(* keeps a spare key, that a key is used once and no record is missing.    *)
(***************************************************************************)
EXTENDS KeyPool, TLAPS, FiniteSetTheorems, WellFoundedInduction

-----------------------------------------------------------------------------
(* Least and greatest elements. *)

LEMMA LeastIs ==
    ASSUME NEW S \in SUBSET Nat, S # {}
    PROVE  Least(S) \in S /\ \A j \in S : Least(S) <= j
<1>1. PICK x \in S : \A y \in S : ~ (<<y, x>> \in OpToRel(<, Nat))
  BY NatLessThanWellFounded, WFMin
<1>2. \A y \in S : x <= y
  <2> TAKE y \in S
  <2>1. <<y, x>> \in Nat \X Nat /\ <<y, x>>[1] = y /\ <<y, x>>[2] = x
    OBVIOUS
  <2>2. ~ (y < x)
    BY <1>1, <2>1, Zenon DEF OpToRel
  <2> QED
    BY <2>2
<1> QED
  BY <1>2 DEF Least

LEMMA GreatestIs ==
    ASSUME NEW S \in SUBSET Nat, S # {}, NEW n \in Nat, \A j \in S : j <= n
    PROVE  Greatest(S) \in S /\ \A j \in S : j <= Greatest(S)
<1> DEFINE T == {m \in Nat : \A j \in S : j <= m}
<1>1. T \in SUBSET Nat /\ T # {}
  OBVIOUS
<1>2. PICK t \in T : \A u \in T : t <= u
  BY <1>1, LeastIs
<1>3. t \in S
  <2> SUFFICES ASSUME t \notin S PROVE FALSE
    OBVIOUS
  <2>1. PICK s \in S : TRUE
    OBVIOUS
  <2>2. \A j \in S : j <= t - 1
    OBVIOUS
  <2>3. t - 1 \in T
    BY <2>1, <2>2
  <2> QED
    BY <1>2, <2>3
<1> QED
  BY <1>3 DEF Greatest

-----------------------------------------------------------------------------
(* Types.  The indexes in use are bounded, or there would be no last one. *)

IndexesBounded ==
    \E n \in Nat : /\ \A i \in setKeyPool \cup DOMAIN pool : i <= n
                   /\ \A o \in Owner : reserved[o].nIndex <= n

TypeInv == TypeOK /\ IndexesBounded

\* What topping up adds: keys that are new, at indexes after the last free one.
LEMMA ToppedUpType ==
    ASSUME TypeInv
    PROVE  /\ nMissing \in Nat /\ nEnd \in Index
           /\ \A i \in setKeyPool : i < nEnd
           /\ SetAfterTopUp \subseteq Index
           /\ DOMAIN PoolAfterTopUp \subseteq Index
           /\ \A i \in DOMAIN PoolAfterTopUp : PoolAfterTopUp[i] \in Key
<1> USE KeyPoolAssumption DEF TypeInv, TypeOK, Index, Key
<1>1. PICK n \in Nat : \A i \in setKeyPool : i <= n
  BY DEF IndexesBounded
<1>2. IsFiniteSet(setKeyPool)
  BY <1>1, FS_BoundedSetOfNaturals, setKeyPool \in SUBSET Nat
<1>3. Cardinality(setKeyPool) \in Nat
  BY <1>2, FS_CardinalityType
<1>4. nMissing \in Nat
  BY <1>3 DEF nMissing
<1>5. nEnd \in Index /\ \A i \in setKeyPool : i < nEnd
  <2>1. CASE setKeyPool = {}
    BY <2>1 DEF nEnd
  <2>2. CASE setKeyPool # {}
    <3>1. Greatest(setKeyPool) \in setKeyPool /\ \A j \in setKeyPool : j <= Greatest(setKeyPool)
      BY <1>1, <2>2, GreatestIs, setKeyPool \in SUBSET Nat
    <3>2. nEnd = Greatest(setKeyPool) + 1
      BY <2>2 DEF nEnd
    <3> DEFINE g == Greatest(setKeyPool)
    <3>3. g \in Index /\ nEnd = g + 1 /\ \A j \in setKeyPool : j <= g
      BY <3>1, <3>2
    <3> HIDE DEF g
    <3> QED
      BY <3>3
  <2> QED
    BY <2>1, <2>2
<1>6. ToppedUp \subseteq Index
  BY <1>4, <1>5 DEF ToppedUp
<1>7. \A i \in ToppedUp : nKeys + 1 + (i - nEnd) \in Key
  BY <1>4, <1>5 DEF ToppedUp
<1> QED
  BY <1>4, <1>5, <1>6, <1>7 DEF SetAfterTopUp, PoolAfterTopUp

\* The bound moves up by what was added.
LEMMA ToppedUpBounded ==
    ASSUME TypeInv
    PROVE  \E n \in Nat : /\ \A i \in SetAfterTopUp \cup DOMAIN PoolAfterTopUp : i <= n
                          /\ \A o \in Owner : reserved[o].nIndex <= n
<1> USE DEF Index
<1>1. PICK n \in Nat : /\ \A i \in setKeyPool \cup DOMAIN pool : i <= n
                       /\ \A o \in Owner : reserved[o].nIndex <= n
  BY DEF TypeInv, IndexesBounded
<1>2. nMissing \in Nat /\ nEnd \in Index
  BY ToppedUpType
<1>3. n + nEnd + nMissing \in Nat
  BY <1>2
<1>4. \A i \in ToppedUp : i <= n + nEnd + nMissing
  BY <1>2 DEF ToppedUp
<1>5. \A i \in setKeyPool \cup DOMAIN pool : i <= n + nEnd + nMissing
  BY <1>1, <1>2 DEF TypeInv, TypeOK
<1>6. \A o \in Owner : reserved[o].nIndex <= n + nEnd + nMissing
  BY <1>1, <1>2 DEF TypeInv, TypeOK
<1>7. SetAfterTopUp \cup DOMAIN PoolAfterTopUp \subseteq ToppedUp \cup setKeyPool \cup DOMAIN pool
  BY DEF SetAfterTopUp, PoolAfterTopUp
<1> QED
  BY <1>3, <1>4, <1>5, <1>6, <1>7

LEMMA TypeInit == Init => TypeInv
<1> SUFFICES ASSUME Init PROVE TypeInv
  OBVIOUS
<1>1. TypeOK
  <2>1. DOMAIN pool = {} /\ reserved \in [Owner -> [nIndex : Index \cup {-1}, vchPubKey : Key \cup {NoKey}]]
    BY DEF Init, Unused
  <2>2. crypted \in BOOLEAN /\ locked \in BOOLEAN
    BY Zenon DEF Init
  <2>3. crashes \in 0 .. MaxCrash /\ nKeys \in Nat
    BY KeyPoolAssumption DEF Init
  <2>4. setKeyPool = {} /\ used = {} /\ todo = {} /\ encrypting = "no"
    BY DEF Init
  <2> QED
    BY <2>1, <2>2, <2>3, <2>4, Zenon DEF TypeOK
<1>2. IndexesBounded
  <2>1. setKeyPool \cup DOMAIN pool = {} /\ \A o \in Owner : reserved[o].nIndex <= 0
    BY DEF Init, Unused
  <2> QED
    BY <2>1 DEF IndexesBounded
<1> QED
  BY <1>1, <1>2 DEF TypeInv

LEMMA TypeStep == TypeInv /\ [Next]_vars => TypeInv'
<1> SUFFICES ASSUME TypeInv, [Next]_vars PROVE TypeInv'
  OBVIOUS
<1> USE KeyPoolAssumption
<1>0. PICK n \in Nat : /\ \A i \in setKeyPool \cup DOMAIN pool : i <= n
                       /\ \A o \in Owner : reserved[o].nIndex <= n
  BY DEF TypeInv, IndexesBounded
<1>a. PICK m \in Nat : /\ \A i \in SetAfterTopUp \cup DOMAIN PoolAfterTopUp : i <= m
                       /\ \A o \in Owner : reserved[o].nIndex <= m
  BY ToppedUpBounded
<1>b. TypeOK
  BY DEF TypeInv
<1>c. MakeKeys => nKeys' \in Nat
  BY ToppedUpType, <1>b DEF MakeKeys, TypeOK
<1>1. CASE TopUpKeyPool
  <2>1. TypeOK'
    BY <1>1, <1>b, <1>c, ToppedUpType DEF TopUpKeyPool, TypeOK
  <2>2. IndexesBounded'
    BY <1>1, <1>a DEF TopUpKeyPool, IndexesBounded
  <2> QED
    BY <2>1, <2>2 DEF TypeInv
<1>2. ASSUME NEW o \in Owner, GetReservedKey(o) PROVE TypeInv'
  <2> DEFINE i == Least(SetAfterTopUp)
             k == IF i \in DOMAIN PoolAfterTopUp THEN PoolAfterTopUp[i] ELSE NoKey
  <2>1. i \in SetAfterTopUp /\ i \in Index
    BY <1>2, LeastIs, ToppedUpType DEF GetReservedKey, Index
  <2>2. k \in Key \cup {NoKey}
    BY ToppedUpType
  <2>3. /\ setKeyPool' = SetAfterTopUp \ {i} /\ pool' = PoolAfterTopUp
        /\ reserved' = [reserved EXCEPT ![o] = [nIndex |-> i, vchPubKey |-> k]]
        /\ UNCHANGED <<used, crypted, locked, encrypting, todo, crashes>> /\ MakeKeys
    BY <1>2 DEF GetReservedKey, Taken
  <2> HIDE DEF i, k
  <2>4. TypeOK'
    BY <1>b, <1>c, <2>1, <2>2, <2>3, ToppedUpType DEF TypeOK
  <2>5. IndexesBounded'
    BY <1>a, <1>b, <2>1, <2>3 DEF IndexesBounded, TypeOK
  <2> QED
    BY <2>4, <2>5 DEF TypeInv
<1>3. ASSUME NEW o \in Owner, KeepKey(o) PROVE TypeInv'
  <2>1. TypeOK'
    BY <1>3, <1>b DEF KeepKey, TypeOK, ErasePool, Unused
  <2>2. IndexesBounded'
    BY <1>3, <1>0, <1>b DEF KeepKey, ErasePool, IndexesBounded, Unused, TypeOK
  <2> QED
    BY <2>1, <2>2 DEF TypeInv
<1>4. ASSUME NEW o \in Owner, ReturnKey(o) PROVE TypeInv'
  <2>1. TypeOK'
    BY <1>4, <1>b DEF ReturnKey, TypeOK, Unused
  <2>2. IndexesBounded'
    BY <1>4, <1>0, <1>b DEF ReturnKey, IndexesBounded, Unused, TypeOK
  <2> QED
    BY <2>1, <2>2 DEF TypeInv
<1>5. CASE GetKeyFromPool
  <2> DEFINE i == Least(SetAfterTopUp)
  <2>1. /\ setKeyPool' = SetAfterTopUp \ {i}
        /\ pool' = [j \in DOMAIN PoolAfterTopUp \ {i} |-> PoolAfterTopUp[j]]
        /\ used' = (IF i \in DOMAIN PoolAfterTopUp
                    THEN used \cup {PoolAfterTopUp[i]} ELSE used)
        /\ UNCHANGED <<reserved, crypted, locked, encrypting, todo, crashes>> /\ MakeKeys
    BY <1>5 DEF GetKeyFromPool, Taken
  <2> HIDE DEF i
  <2>2. TypeOK'
    BY <1>b, <1>c, <2>1, ToppedUpType DEF TypeOK
  <2>3. IndexesBounded'
    BY <1>a, <2>1 DEF IndexesBounded
  <2> QED
    BY <2>2, <2>3 DEF TypeInv
<1>6. CASE Lock \/ Unlock \/ EncryptWallet \/ UNCHANGED vars
  <2>1. TypeOK'
    BY <1>6, <1>b DEF Lock, Unlock, EncryptWallet, TypeOK, vars
  <2>2. IndexesBounded'
    BY <1>6, <1>0 DEF Lock, Unlock, EncryptWallet, IndexesBounded, vars
  <2> QED
    BY <2>1, <2>2 DEF TypeInv
<1>7. CASE EraseStep
  <2>1. TypeOK'
    BY <1>7, <1>b DEF EraseStep, ErasePool, TypeOK, Index
  <2>2. IndexesBounded'
    BY <1>7, <1>0 DEF EraseStep, ErasePool, IndexesBounded
  <2> QED
    BY <2>1, <2>2 DEF TypeInv
<1>8. CASE WriteStep
  <2>1. CASE todo = {}
    <3>1. TypeOK'
      BY <1>8, <2>1, <1>b DEF WriteStep, TypeOK
    <3>2. IndexesBounded'
      BY <1>8, <2>1, <1>0 DEF WriteStep, IndexesBounded
    <3> QED
      BY <3>1, <3>2 DEF TypeInv
  <2>2. CASE todo # {}
    <3> DEFINE i == Least(todo)
    <3>1. i \in todo /\ i \in Index
      BY <2>2, <1>b, LeastIs DEF TypeOK, Index
    <3>2. /\ pool' = [j \in DOMAIN pool \cup {i} |-> IF j = i THEN nKeys + 1 ELSE pool[j]]
          /\ setKeyPool' = setKeyPool \cup {i} /\ todo' = todo \ {i} /\ nKeys' = nKeys + 1
          /\ UNCHANGED <<locked, encrypting, reserved, used, crypted, crashes>>
      BY <1>8, <2>2 DEF WriteStep
    <3> HIDE DEF i
    <3>3. TypeOK'
      BY <1>b, <3>1, <3>2 DEF TypeOK, Key
    <3>4. IndexesBounded'
      <4>1. n + i \in Nat /\ \A j \in setKeyPool' \cup DOMAIN pool' : j <= n + i
        BY <1>0, <1>b, <3>1, <3>2 DEF TypeOK, Index
      <4>2. \A o \in Owner : reserved'[o].nIndex <= n + i
        BY <1>0, <1>b, <3>1, <3>2 DEF TypeOK, Index
      <4> QED
        BY <4>1, <4>2 DEF IndexesBounded
    <3> QED
      BY <3>3, <3>4 DEF TypeInv
  <2> QED
    BY <2>1, <2>2
<1>9. CASE CrashAndRestart
  <2>1. TypeOK'
    BY <1>9, <1>b DEF CrashAndRestart, TypeOK, Unused
  <2>2. IndexesBounded'
    BY <1>9, <1>0 DEF CrashAndRestart, IndexesBounded, Unused
  <2> QED
    BY <2>1, <2>2 DEF TypeInv
<1> QED
  BY <1>1, <1>2, <1>3, <1>4, <1>5, <1>6, <1>7, <1>8, <1>9 DEF Next

\* Every variable of the key pool keeps its type, also while the wallet is being
\* encrypted and after a crash in the middle of it (LoadWallet, NewKeyPool).
THEOREM KeyPoolTypeCorrect == Spec => []TypeOK
<1>1. Init => TypeInv
  BY TypeInit
<1>2. TypeInv /\ [Next]_vars => TypeInv'
  BY TypeStep
<1>3. TypeInv => TypeOK
  BY DEF TypeInv
<1> QED
  BY <1>1, <1>2, <1>3, PTL DEF Spec

-----------------------------------------------------------------------------
(***************************************************************************)
(* A wallet that is not encrypted and keeps a spare key.  Topping up       *)
(* before a reservation leaves at least two free indexes, the least is     *)
(* taken, so every reserved index is below a free one and the next index   *)
(* made is above all of them: no index is ever written twice.              *)
(***************************************************************************)
SpareKey == nTargetSize # 0

RecordsAreNew ==    \* no two records with one key, none with a used one
    /\ \A i \in DOMAIN pool : pool[i] \in (1 .. nKeys) \ used
    /\ \A i, j \in DOMAIN pool : pool[i] = pool[j] => i = j
    /\ used \subseteq 1 .. nKeys

HeldBelowFree ==    \* a reserved index has its record, and a free one above it
    \A o \in Owner :
        IF reserved[o].nIndex = -1 THEN reserved[o].vchPubKey = NoKey
        ELSE /\ reserved[o].nIndex \in DOMAIN pool \ setKeyPool
             /\ reserved[o].vchPubKey = pool[reserved[o].nIndex]
             /\ \E j \in setKeyPool : reserved[o].nIndex < j

HeldApart ==
    \A o, p \in Owner : o # p /\ reserved[o].nIndex = reserved[p].nIndex
                         => reserved[o].nIndex = -1

PoolInv ==
    /\ TypeInv
    /\ ~crypted /\ ~locked /\ encrypting = "no"
    /\ setKeyPool \subseteq DOMAIN pool
    /\ \A i \in DOMAIN pool \ setKeyPool : \E o \in Owner : reserved[o].nIndex = i
    /\ RecordsAreNew /\ HeldBelowFree /\ HeldApart

\* The pool after topping up.
LEMMA ToppedUpPool ==
    ASSUME SpareKey, PoolInv
    PROVE  /\ setKeyPool \subseteq SetAfterTopUp /\ SetAfterTopUp \subseteq DOMAIN PoolAfterTopUp
           /\ DOMAIN pool \subseteq DOMAIN PoolAfterTopUp
           /\ DOMAIN PoolAfterTopUp \ SetAfterTopUp = DOMAIN pool \ setKeyPool
           /\ \A i \in DOMAIN pool : PoolAfterTopUp[i] = pool[i]
           /\ \A i \in DOMAIN PoolAfterTopUp :
                 PoolAfterTopUp[i] \in (1 .. nKeys + nMissing) \ used
           /\ \A i, j \in DOMAIN PoolAfterTopUp :
                 PoolAfterTopUp[i] = PoolAfterTopUp[j] => i = j
<1> USE DEF PoolInv, Index
<1>1. nMissing \in Nat /\ nEnd \in Index /\ \A i \in setKeyPool : i < nEnd
  BY ToppedUpType
<1>2. TypeOK /\ nKeys \in Nat
  BY DEF TypeInv, TypeOK
<1>3. \A i \in DOMAIN pool : i < nEnd
  <2> SUFFICES ASSUME NEW i \in DOMAIN pool \ setKeyPool PROVE i < nEnd
    BY <1>1
  <2>1. PICK o \in Owner : reserved[o].nIndex = i
    OBVIOUS
  <2>2. i \in Index
    BY <1>2 DEF TypeOK
  <2>3. PICK j \in setKeyPool : i < j
    BY <2>1, <2>2 DEF HeldBelowFree
  <2>4. j \in Index
    BY <1>2 DEF TypeOK
  <2> QED
    BY <1>1, <2>2, <2>3, <2>4
<1>4. \A i \in ToppedUp : i \in Int /\ i >= nEnd /\ i < nEnd + nMissing /\ i \notin DOMAIN pool
  BY <1>1, <1>3 DEF ToppedUp
<1>5. DOMAIN PoolAfterTopUp = DOMAIN pool \cup ToppedUp
  BY DEF PoolAfterTopUp
<1>6. \A i \in DOMAIN pool : PoolAfterTopUp[i] = pool[i]
  BY <1>4 DEF PoolAfterTopUp
<1>7. \A i \in ToppedUp : PoolAfterTopUp[i] = nKeys + 1 + (i - nEnd)
  BY DEF PoolAfterTopUp
<1>8. \A i \in ToppedUp : PoolAfterTopUp[i] \in nKeys + 1 .. nKeys + nMissing
  BY <1>1, <1>2, <1>4, <1>7
<1>9. \A i \in DOMAIN pool : pool[i] \in (1 .. nKeys) \ used
  BY DEF RecordsAreNew
<1>10. used \subseteq 1 .. nKeys
  BY DEF RecordsAreNew
<1>11. \A i \in DOMAIN PoolAfterTopUp : PoolAfterTopUp[i] \in (1 .. nKeys + nMissing) \ used
  BY <1>1, <1>2, <1>5, <1>6, <1>8, <1>9, <1>10
<1>12. ASSUME NEW i \in DOMAIN PoolAfterTopUp, NEW j \in DOMAIN PoolAfterTopUp,
              PoolAfterTopUp[i] = PoolAfterTopUp[j]
       PROVE  i = j
  <2>1. CASE i \in DOMAIN pool /\ j \in DOMAIN pool
    BY <1>6, <1>12, <2>1 DEF RecordsAreNew
  <2>2. CASE i \in ToppedUp /\ j \in ToppedUp
    BY <1>1, <1>2, <1>4, <1>7, <1>12, <2>2
  <2>3. CASE i \in DOMAIN pool /\ j \in ToppedUp
    BY <1>2, <1>6, <1>8, <1>9, <1>12, <2>3
  <2>4. CASE i \in ToppedUp /\ j \in DOMAIN pool
    BY <1>2, <1>6, <1>8, <1>9, <1>12, <2>4
  <2> QED
    BY <1>5, <2>1, <2>2, <2>3, <2>4
<1>13. SetAfterTopUp = setKeyPool \cup ToppedUp
  BY DEF SetAfterTopUp
<1>14. DOMAIN PoolAfterTopUp \ SetAfterTopUp = DOMAIN pool \ setKeyPool
  BY <1>5, <1>13, <1>4
<1> QED
  BY <1>5, <1>6, <1>11, <1>12, <1>13, <1>14

\* There are two free indexes after topping up, so one is left above the least.
LEMMA TwoAreFree ==
    ASSUME SpareKey, PoolInv
    PROVE  \E j \in SetAfterTopUp : Least(SetAfterTopUp) < j
<1> USE KeyPoolAssumption DEF PoolInv, Index
<1>1. TypeOK /\ nMissing \in Nat /\ nEnd \in Index /\ SetAfterTopUp \in SUBSET Nat
      /\ \A i \in setKeyPool : i < nEnd
  BY ToppedUpType DEF TypeInv
<1>2. PICK n \in Nat : \A i \in setKeyPool : i <= n
  BY DEF TypeInv, IndexesBounded
<1>3. IsFiniteSet(setKeyPool) /\ Cardinality(setKeyPool) \in Nat
  BY <1>1, <1>2, FS_BoundedSetOfNaturals, FS_CardinalityType, setKeyPool \in SUBSET Nat DEF TypeOK
<1>4. \E a, b \in SetAfterTopUp : a < b
  <2>1. CASE setKeyPool = {}
    <3>1. Cardinality(setKeyPool) = 0
      BY <2>1, FS_EmptySet
    <3>2. nMissing = nTargetSize + 1 /\ nEnd = 1
      BY <2>1, <3>1 DEF nMissing, nEnd
    <3>3. 1 \in ToppedUp /\ 2 \in ToppedUp
      BY <3>2 DEF ToppedUp, SpareKey
    <3> QED
      BY <3>3 DEF SetAfterTopUp
  <2>2. CASE setKeyPool # {} /\ nMissing # 0
    <3>1. PICK a \in setKeyPool : a < nEnd
      BY <1>1, <2>2
    <3>2. nEnd \in ToppedUp
      BY <1>1, <2>2 DEF ToppedUp
    <3> QED
      BY <3>1, <3>2 DEF SetAfterTopUp
  <2>3. CASE setKeyPool # {} /\ nMissing = 0
    <3>1. Cardinality(setKeyPool) > nTargetSize
      BY <1>3, <2>3 DEF nMissing
    <3>2. Cardinality(setKeyPool) # 1
      BY <1>3, <3>1 DEF SpareKey
    <3>3. \A x : setKeyPool # {x}
      BY <1>3, <3>2, FS_Singleton
    <3>4. PICK a \in setKeyPool : TRUE
      BY <2>3
    <3>6. setKeyPool # {a}
      BY <3>3
    <3>a. PICK b \in setKeyPool : a # b
      BY <3>4, <3>6, Zenon
    <3>5. a < b \/ b < a
      BY <1>1, <3>4, <3>a DEF TypeOK
    <3> QED
      BY <3>4, <3>a, <3>5 DEF SetAfterTopUp
  <2> QED
    BY <2>1, <2>2, <2>3
<1>5. PICK a \in SetAfterTopUp, b \in SetAfterTopUp : a < b
  BY <1>4
<1> DEFINE m == Least(SetAfterTopUp)
<1>6. m \in SetAfterTopUp /\ m <= a
  BY <1>1, <1>5, LeastIs
<1>7. SetAfterTopUp \subseteq Int
  BY <1>1
<1> HIDE DEF m
<1>8. m < b
  BY <1>5, <1>6, <1>7
<1> QED
  BY <1>5, <1>8 DEF m

\* What taking the least of them does to the pool.
LEMMA TakeLeast ==
    ASSUME SpareKey, PoolInv, NEW i, i = Least(SetAfterTopUp)
    PROVE  /\ i \in SetAfterTopUp /\ i \in DOMAIN PoolAfterTopUp
           /\ i \notin DOMAIN pool \ setKeyPool
           /\ \E j \in SetAfterTopUp \ {i} : i < j
           /\ \A o \in Owner : reserved[o].nIndex # -1 =>
                 /\ reserved[o].nIndex # i
                 /\ reserved[o].nIndex \in DOMAIN PoolAfterTopUp \ SetAfterTopUp
                 /\ reserved[o].vchPubKey = PoolAfterTopUp[reserved[o].nIndex]
                 /\ \E j \in SetAfterTopUp \ {i} : reserved[o].nIndex < j
<1>1. TypeOK /\ SetAfterTopUp \in SUBSET Nat /\ setKeyPool \subseteq SetAfterTopUp
  BY ToppedUpType, ToppedUpPool DEF PoolInv, TypeInv, Index
<1>2. PICK a \in SetAfterTopUp : i < a
  BY TwoAreFree
<1>3. i \in SetAfterTopUp
  BY <1>1, <1>2, LeastIs
<1>4. a # i
  BY <1>1, <1>2, <1>3
<1>5. ASSUME NEW o \in Owner, reserved[o].nIndex # -1
      PROVE  /\ reserved[o].nIndex \in DOMAIN pool \ setKeyPool
             /\ reserved[o].vchPubKey = pool[reserved[o].nIndex]
             /\ \E j \in SetAfterTopUp \ {i} : reserved[o].nIndex < j
  <2>1. /\ reserved[o].nIndex \in DOMAIN pool \ setKeyPool
        /\ reserved[o].vchPubKey = pool[reserved[o].nIndex]
    BY <1>5 DEF PoolInv, HeldBelowFree
  <2>2. PICK j \in setKeyPool : reserved[o].nIndex < j
    BY <1>5 DEF PoolInv, HeldBelowFree
  <2>3. reserved[o].nIndex \in Int /\ j \in SetAfterTopUp
    BY <1>1, <2>1 DEF TypeOK, Index
  <2>4. CASE j # i
    BY <2>1, <2>2, <2>3, <2>4
  <2>5. CASE j = i
    <3>1. reserved[o].nIndex < a
      BY <1>1, <1>2, <2>2, <2>3, <2>5
    <3> QED
      BY <1>2, <1>4, <2>1, <3>1
  <2> QED
    BY <2>4, <2>5
<1> QED
  BY <1>2, <1>3, <1>4, <1>5, ToppedUpPool

LEMMA PoolInit == Init => PoolInv
<1> SUFFICES ASSUME Init PROVE PoolInv
  OBVIOUS
<1>1. DOMAIN pool = {} /\ used = {} /\ setKeyPool = {}
  BY DEF Init
<1>2. \A o \in Owner : reserved[o].nIndex = -1 /\ reserved[o].vchPubKey = NoKey
  BY DEF Init, Unused
<1>3. RecordsAreNew /\ HeldBelowFree /\ HeldApart
  BY <1>1, <1>2 DEF RecordsAreNew, HeldBelowFree, HeldApart
<1>4. ~crypted /\ ~locked /\ encrypting = "no"
  BY Zenon DEF Init
<1> QED
  BY <1>1, <1>3, <1>4, TypeInit DEF PoolInv

\* It lasts until EncryptWallet.
LEMMA PoolStep == ASSUME SpareKey PROVE PoolInv /\ [Next]_vars => crypted' \/ PoolInv'
<1> SUFFICES ASSUME PoolInv, [Next]_vars, ~crypted' PROVE PoolInv'
  OBVIOUS
<1>a. TypeInv'
  BY TypeStep DEF PoolInv
<1>b. TypeOK
  BY DEF PoolInv, TypeInv
<1>1. CASE TopUpKeyPool
  <2>1. /\ setKeyPool' = SetAfterTopUp /\ pool' = PoolAfterTopUp /\ nKeys' = nKeys + nMissing
        /\ UNCHANGED <<reserved, used, crypted, locked, encrypting>>
    BY <1>1 DEF TopUpKeyPool, MakeKeys
  <2>2. RecordsAreNew'
    BY <1>b, <2>1, ToppedUpPool, ToppedUpType DEF RecordsAreNew, PoolInv, TypeOK
  <2>3. HeldBelowFree'
    <3> SUFFICES ASSUME NEW o \in Owner, reserved[o].nIndex # -1
                 PROVE  /\ reserved[o].nIndex \in DOMAIN PoolAfterTopUp \ SetAfterTopUp
                        /\ reserved[o].vchPubKey = PoolAfterTopUp[reserved[o].nIndex]
                        /\ \E j \in SetAfterTopUp : reserved[o].nIndex < j
      BY <2>1 DEF HeldBelowFree, PoolInv
    <3> QED
      BY TakeLeast
  <2> QED
    BY <1>a, <2>1, <2>2, <2>3, ToppedUpPool DEF PoolInv, HeldApart
<1>2. ASSUME NEW o \in Owner, GetReservedKey(o) PROVE PoolInv'
  <2> DEFINE i == Least(SetAfterTopUp)
             k == IF i \in DOMAIN PoolAfterTopUp THEN PoolAfterTopUp[i] ELSE NoKey
  <2>1. /\ setKeyPool' = SetAfterTopUp \ {i} /\ pool' = PoolAfterTopUp
        /\ nKeys' = nKeys + nMissing
        /\ reserved' = [reserved EXCEPT ![o] = [nIndex |-> i, vchPubKey |-> k]]
        /\ UNCHANGED <<used, crypted, locked, encrypting>>
    BY <1>2 DEF GetReservedKey, Taken, MakeKeys
  <2>2. /\ i \in SetAfterTopUp /\ i \in DOMAIN PoolAfterTopUp
        /\ i \notin DOMAIN pool \ setKeyPool
        /\ \E j \in SetAfterTopUp \ {i} : i < j
        /\ \A p \in Owner : reserved[p].nIndex # -1 =>
              /\ reserved[p].nIndex # i
              /\ reserved[p].nIndex \in DOMAIN PoolAfterTopUp \ SetAfterTopUp
              /\ reserved[p].vchPubKey = PoolAfterTopUp[reserved[p].nIndex]
              /\ \E j \in SetAfterTopUp \ {i} : reserved[p].nIndex < j
    BY TakeLeast
  <2>3. k = PoolAfterTopUp[i]
    BY <2>2
  <2>i. i \in Index
    BY <2>2, ToppedUpType DEF PoolInv
  <2> HIDE DEF i, k
  <2>4. /\ reserved'[o].nIndex = i /\ reserved'[o].vchPubKey = k
        /\ \A p \in Owner \ {o} : reserved'[p] = reserved[p]
    BY <1>b, <2>1 DEF TypeOK
  <2>5. RecordsAreNew'
    BY <1>b, <2>1, ToppedUpPool, ToppedUpType DEF RecordsAreNew, PoolInv, TypeOK
  <2>6. HeldBelowFree'
    <3> SUFFICES ASSUME NEW p \in Owner
                 PROVE  IF reserved'[p].nIndex = -1 THEN reserved'[p].vchPubKey = NoKey
                        ELSE /\ reserved'[p].nIndex \in DOMAIN pool' \ setKeyPool'
                             /\ reserved'[p].vchPubKey = pool'[reserved'[p].nIndex]
                             /\ \E j \in setKeyPool' : reserved'[p].nIndex < j
      BY DEF HeldBelowFree
    <3>1. CASE p = o
      BY <2>1, <2>2, <2>3, <2>4, <2>i, <3>1 DEF Index
    <3>2. CASE p # o /\ reserved[p].nIndex = -1
      BY <2>4, <3>2 DEF PoolInv, HeldBelowFree
    <3>3. CASE p # o /\ reserved[p].nIndex # -1
      BY <2>1, <2>2, <2>4, <3>3
    <3> QED
      BY <3>1, <3>2, <3>3
  <2>7. HeldApart'
    BY <2>2, <2>4, <2>i DEF HeldApart, PoolInv, Index
  <2>8. reserved[o].nIndex = -1
    BY <1>2 DEF GetReservedKey
  <2>9. \A j \in DOMAIN pool' \ setKeyPool' : \E p \in Owner : reserved'[p].nIndex = j
    <3> SUFFICES ASSUME NEW j \in DOMAIN pool' \ setKeyPool', j # i
                 PROVE  \E p \in Owner : reserved'[p].nIndex = j
      BY <2>4
    <3>1. j \in DOMAIN pool \ setKeyPool
      BY <2>1, ToppedUpPool
    <3>2. PICK p \in Owner : reserved[p].nIndex = j
      BY <3>1 DEF PoolInv
    <3>3. p # o
      BY <1>b, <2>8, <3>1, <3>2 DEF TypeOK, Index
    <3> QED
      BY <2>4, <3>2, <3>3
  <2> QED
    BY <1>a, <2>1, <2>5, <2>6, <2>7, <2>9, ToppedUpPool DEF PoolInv
<1>3. ASSUME NEW o \in Owner, KeepKey(o) PROVE PoolInv'
  <2> DEFINE i == reserved[o].nIndex
  <2>1. /\ pool' = [j \in DOMAIN pool \ {i} |-> pool[j]]
        /\ used' = used \cup {reserved[o].vchPubKey}
        /\ reserved' = [reserved EXCEPT ![o] = Unused]
        /\ UNCHANGED <<setKeyPool, nKeys, crypted, locked, encrypting>>
    BY <1>3 DEF KeepKey, ErasePool
  <2>2. /\ i \in DOMAIN pool \ setKeyPool /\ i # -1
        /\ reserved[o].vchPubKey = pool[i]
    BY <1>3 DEF KeepKey, PoolInv, HeldBelowFree
  <2> HIDE DEF i
  <2>3. /\ reserved'[o] = Unused
        /\ \A p \in Owner \ {o} : reserved'[p] = reserved[p]
    BY <1>b, <2>1 DEF TypeOK
  <2>4. DOMAIN pool' = DOMAIN pool \ {i} /\ \A j \in DOMAIN pool' : pool'[j] = pool[j]
    BY <2>1
  <2>5. RecordsAreNew'
    <3>1. /\ \A j \in DOMAIN pool : pool[j] \in 1 .. nKeys /\ pool[j] \notin used
          /\ \A j \in DOMAIN pool : pool[j] = pool[i] => j = i
          /\ used \subseteq 1 .. nKeys
      BY <2>2 DEF RecordsAreNew, PoolInv
    <3>2. used' = used \cup {pool[i]} /\ nKeys' = nKeys /\ i \in DOMAIN pool
      BY <2>1, <2>2
    <3>3. \A j \in DOMAIN pool' : pool'[j] \in (1 .. nKeys') \ used'
      BY <2>4, <3>1, <3>2
    <3>4. used' \subseteq 1 .. nKeys'
      BY <3>1, <3>2
    <3>5. \A j, l \in DOMAIN pool' : pool'[j] = pool'[l] => j = l
      BY <2>4 DEF RecordsAreNew, PoolInv
    <3> QED
      BY <3>3, <3>4, <3>5 DEF RecordsAreNew
  <2>6. \A p \in Owner \ {o} : reserved[p].nIndex # i
    BY <2>2 DEF PoolInv, HeldApart, i
  <2>7. HeldBelowFree'
    BY <2>1, <2>3, <2>4, <2>6 DEF HeldBelowFree, PoolInv, Unused
  <2>8. HeldApart'
    BY <2>3 DEF HeldApart, PoolInv, Unused
  <2>9. setKeyPool' \subseteq DOMAIN pool'
    BY <2>1, <2>2, <2>4 DEF PoolInv
  <2>10. \A j \in DOMAIN pool' \ setKeyPool' : \E p \in Owner : reserved'[p].nIndex = j
    <3> SUFFICES ASSUME NEW j \in DOMAIN pool \ setKeyPool, j # i
                 PROVE  \E p \in Owner : reserved'[p].nIndex = j
      BY <2>1, <2>4
    <3>1. PICK p \in Owner : reserved[p].nIndex = j
      BY DEF PoolInv
    <3> QED
      BY <2>3, <3>1 DEF i
  <2> QED
    BY <1>a, <2>1, <2>5, <2>7, <2>8, <2>9, <2>10 DEF PoolInv
<1>4. ASSUME NEW o \in Owner, ReturnKey(o) PROVE PoolInv'
  <2> DEFINE i == reserved[o].nIndex
  <2>1. /\ setKeyPool' = setKeyPool \cup {i}
        /\ reserved' = [reserved EXCEPT ![o] = Unused]
        /\ UNCHANGED <<pool, nKeys, used, crypted, locked, encrypting>>
    BY <1>4 DEF ReturnKey
  <2>2. i \in DOMAIN pool \ setKeyPool /\ i # -1
    BY <1>4 DEF ReturnKey, PoolInv, HeldBelowFree
  <2> HIDE DEF i
  <2>3. /\ reserved'[o] = Unused
        /\ \A p \in Owner \ {o} : reserved'[p] = reserved[p]
    BY <1>b, <2>1 DEF TypeOK
  <2>4. RecordsAreNew'
    BY <2>1 DEF RecordsAreNew, PoolInv
  <2>5. \A p \in Owner \ {o} : reserved[p].nIndex # i
    BY <2>2 DEF PoolInv, HeldApart, i
  <2>6. HeldBelowFree'
    BY <2>1, <2>3, <2>5 DEF HeldBelowFree, PoolInv, Unused
  <2>7. HeldApart'
    BY <2>3 DEF HeldApart, PoolInv, Unused
  <2>8. \A j \in DOMAIN pool' \ setKeyPool' : \E p \in Owner : reserved'[p].nIndex = j
    <3> SUFFICES ASSUME NEW j \in DOMAIN pool \ setKeyPool, j # i
                 PROVE  \E p \in Owner : reserved'[p].nIndex = j
      BY <2>1
    <3>1. PICK p \in Owner : reserved[p].nIndex = j
      BY DEF PoolInv
    <3> QED
      BY <2>3, <3>1 DEF i
  <2> QED
    BY <1>a, <2>1, <2>2, <2>4, <2>6, <2>7, <2>8 DEF PoolInv
<1>5. CASE GetKeyFromPool
  <2> DEFINE i == Least(SetAfterTopUp)
  <2>1. /\ i \in SetAfterTopUp /\ i \in DOMAIN PoolAfterTopUp
        /\ \A p \in Owner : reserved[p].nIndex # -1 =>
              /\ reserved[p].nIndex # i
              /\ reserved[p].nIndex \in DOMAIN PoolAfterTopUp \ SetAfterTopUp
              /\ reserved[p].vchPubKey = PoolAfterTopUp[reserved[p].nIndex]
              /\ \E j \in SetAfterTopUp \ {i} : reserved[p].nIndex < j
    BY TakeLeast
  <2>2. /\ setKeyPool' = SetAfterTopUp \ {i}
        /\ pool' = [j \in DOMAIN PoolAfterTopUp \ {i} |-> PoolAfterTopUp[j]]
        /\ used' = used \cup {PoolAfterTopUp[i]}
        /\ nKeys' = nKeys + nMissing
        /\ UNCHANGED <<reserved, crypted, locked, encrypting>>
    BY <1>5, <2>1 DEF GetKeyFromPool, Taken, MakeKeys
  <2> HIDE DEF i
  <2>3. /\ DOMAIN pool' = DOMAIN PoolAfterTopUp \ {i}
        /\ \A j \in DOMAIN pool' : pool'[j] = PoolAfterTopUp[j]
    BY <2>2
  <2>4. used \subseteq 1 .. nKeys + nMissing
    BY <1>b, ToppedUpType DEF PoolInv, RecordsAreNew, TypeOK
  <2>5. RecordsAreNew'
    <3>1. /\ \A j \in DOMAIN PoolAfterTopUp :
                PoolAfterTopUp[j] \in (1 .. nKeys + nMissing) \ used
          /\ \A j, l \in DOMAIN PoolAfterTopUp : PoolAfterTopUp[j] = PoolAfterTopUp[l] => j = l
      BY ToppedUpPool
    <3>2. \A j \in DOMAIN pool' : pool'[j] \in (1 .. nKeys') \ used'
      BY <2>1, <2>2, <2>3, <3>1
    <3>a. PoolAfterTopUp[i] \in 1 .. nKeys + nMissing
      BY <2>1, <3>1
    <3>3. used' \subseteq 1 .. nKeys'
      BY <2>2, <2>4, <3>a, Zenon
    <3>4. \A j, l \in DOMAIN pool' : pool'[j] = pool'[l] => j = l
      BY <2>3, <3>1
    <3> QED
      BY <3>2, <3>3, <3>4 DEF RecordsAreNew
  <2>6. HeldBelowFree'
    <3> SUFFICES ASSUME NEW p \in Owner
                 PROVE  IF reserved[p].nIndex = -1 THEN reserved[p].vchPubKey = NoKey
                        ELSE /\ reserved[p].nIndex \in DOMAIN pool' \ setKeyPool'
                             /\ reserved[p].vchPubKey = pool'[reserved[p].nIndex]
                             /\ \E j \in setKeyPool' : reserved[p].nIndex < j
      BY <2>2 DEF HeldBelowFree
    <3>1. CASE reserved[p].nIndex = -1
      BY <3>1 DEF PoolInv, HeldBelowFree
    <3>2. CASE reserved[p].nIndex # -1
      BY <2>1, <2>2, <2>3, <3>2
    <3> QED
      BY <3>1, <3>2
  <2>7. HeldApart'
    BY <2>2 DEF HeldApart, PoolInv
  <2>8. DOMAIN pool' \ setKeyPool' = DOMAIN pool \ setKeyPool
    BY <2>1, <2>2, <2>3, ToppedUpPool
  <2>9. setKeyPool' \subseteq DOMAIN pool'
    BY <2>2, <2>3, ToppedUpPool
  <2> QED
    BY <1>a, <2>2, <2>5, <2>6, <2>7, <2>8, <2>9 DEF PoolInv
<1>6. CASE Lock \/ Unlock \/ EncryptWallet \/ EraseStep \/ WriteStep
  <2>1. CASE EncryptWallet
    <3>1. crypted' = TRUE
      BY <2>1, Zenon DEF EncryptWallet
    <3> QED
      BY <3>1
  <2> QED
    BY <1>6, <2>1 DEF Lock, Unlock, EraseStep, WriteStep, PoolInv
<1>7. CASE UNCHANGED vars
  BY <1>7, <1>a DEF vars, PoolInv, RecordsAreNew, HeldBelowFree, HeldApart
<1>8. CASE CrashAndRestart
  <2>1. /\ setKeyPool' = DOMAIN pool /\ encrypting' = "no" /\ locked' = crypted
        /\ UNCHANGED <<pool, nKeys, used, crypted>>
        /\ \A o \in Owner : reserved'[o].nIndex = -1 /\ reserved'[o].vchPubKey = NoKey
    BY <1>8 DEF CrashAndRestart, Unused
  <2>2. RecordsAreNew' /\ HeldBelowFree' /\ HeldApart'
    BY <2>1 DEF RecordsAreNew, HeldBelowFree, HeldApart, PoolInv
  <2> QED
    BY <1>a, <2>1, <2>2 DEF PoolInv
<1> QED
  BY <1>1, <1>2, <1>3, <1>4, <1>5, <1>6, <1>7, <1>8 DEF Next

LEMMA PoolInvEnough == PoolInv => KeysUsedOnce /\ setKeyPool \subseteq DOMAIN pool
<1> SUFFICES ASSUME PoolInv PROVE KeysUsedOnce /\ setKeyPool \subseteq DOMAIN pool
  OBVIOUS
<1>1. setKeyPool \subseteq DOMAIN pool
  BY DEF PoolInv
<1>2. Offered \cap used = {}
  BY DEF PoolInv, RecordsAreNew, Offered
<1>3. ASSUME NEW o \in Owner, Held(o) # NoKey
      PROVE  Held(o) \notin used \cup Offered /\ \A p \in Owner \ {o} : Held(p) # Held(o)
  <2>1. /\ reserved[o].nIndex # -1
        /\ reserved[o].nIndex \in DOMAIN pool \ setKeyPool
        /\ Held(o) = pool[reserved[o].nIndex]
    BY <1>3 DEF Held, PoolInv, HeldBelowFree
  <2>2. Held(o) \notin used \cup Offered
    BY <2>1 DEF PoolInv, RecordsAreNew, Offered
  <2>3. ASSUME NEW p \in Owner \ {o}, Held(p) = Held(o) PROVE FALSE
    <3>1. /\ reserved[p].nIndex \in DOMAIN pool
          /\ Held(p) = pool[reserved[p].nIndex]
      BY <1>3, <2>3 DEF Held, PoolInv, HeldBelowFree
    <3>2. reserved[p].nIndex = reserved[o].nIndex
      BY <2>1, <2>3, <3>1 DEF PoolInv, RecordsAreNew
    <3> QED
      BY <2>1, <3>2 DEF PoolInv, HeldApart
  <2> QED
    BY <2>2, <2>3
<1> QED
  BY <1>1, <1>2, <1>3 DEF KeysUsedOnce

WhilePlain == ~crypted => PoolInv

LEMMA WhilePlainInit == Init => WhilePlain
  BY PoolInit DEF WhilePlain

LEMMA WhilePlainStep == ASSUME SpareKey PROVE WhilePlain /\ [Next]_vars => WhilePlain'
<1> SUFFICES ASSUME WhilePlain, [Next]_vars, ~crypted' PROVE PoolInv'
  BY DEF WhilePlain
<1>1. ~crypted
  <2>1. crypted => crypted'
    BY Zenon DEF Next, vars, TopUpKeyPool, GetKeyFromPool, GetReservedKey, KeepKey, ReturnKey,
                 Lock, Unlock, EncryptWallet, EraseStep, WriteStep, CrashAndRestart
  <2> QED
    BY <2>1
<1> QED
  BY <1>1, PoolStep DEF WhilePlain

\* CommitTransaction and CheckWork take their key "so it won't be used again":
\* until the wallet is encrypted, and with -keypool at least 1, no key is offered,
\* held or used twice, for any number of threads, keys and crashes.
THEOREM UsedOnceWhilePlain ==
    ASSUME SpareKey PROVE Spec => []PlainKeysUsedOnce
<1>1. Init => WhilePlain
  BY WhilePlainInit
<1>2. WhilePlain /\ [Next]_vars => WhilePlain'
  BY WhilePlainStep
<1>3. WhilePlain => PlainKeysUsedOnce
  BY PoolInvEnough DEF WhilePlain, PlainKeysUsedOnce
<1> QED
  BY <1>1, <1>2, <1>3, PTL DEF Spec

\* Under the same conditions ReserveKeyFromKeyPool always finds its record.
THEOREM RecordsExistWhilePlain ==
    ASSUME SpareKey PROVE Spec => []PlainRecordsExist
<1>1. Init => WhilePlain
  BY WhilePlainInit
<1>2. WhilePlain /\ [Next]_vars => WhilePlain'
  BY WhilePlainStep
<1>3. WhilePlain => PlainRecordsExist
  BY PoolInvEnough DEF WhilePlain, PlainRecordsExist
<1> QED
  BY <1>1, <1>2, <1>3, PTL DEF Spec

-----------------------------------------------------------------------------
(***************************************************************************)
(* Encrypted or not.  A key is under one index at most, and if somebody    *)
(* holds it, that index is the one he holds, whatever else has happened to *)
(* the record under it; so erasing the record under his index erases it.   *)
(***************************************************************************)
RecordOf(k, i) == \A j \in DOMAIN pool : pool[j] = k => j = i

ErasedInv ==
    /\ TypeInv
    /\ RecordsAreNew
    /\ \A o \in Owner : /\ reserved[o].vchPubKey <= nKeys
                        /\ RecordOf(reserved[o].vchPubKey, reserved[o].nIndex)

\* The pool after topping up.
LEMMA ToppedUpKeys ==
    ASSUME ErasedInv
    PROVE  /\ \A i \in DOMAIN PoolAfterTopUp :
                 PoolAfterTopUp[i] \in (1 .. nKeys + nMissing) \ used
           /\ \A i, j \in DOMAIN PoolAfterTopUp :
                 PoolAfterTopUp[i] = PoolAfterTopUp[j] => i = j
           /\ \A o \in Owner, j \in DOMAIN PoolAfterTopUp :
                 PoolAfterTopUp[j] = reserved[o].vchPubKey => j = reserved[o].nIndex
           /\ used \subseteq 1 .. nKeys + nMissing
           /\ nKeys + nMissing \in Nat /\ nKeys <= nKeys + nMissing
<1>1. nMissing \in Nat /\ nEnd \in Index /\ TypeOK
  BY ToppedUpType DEF ErasedInv, TypeInv
<1>2. nKeys \in Nat /\ \A o \in Owner : reserved[o].vchPubKey \in Nat
  BY <1>1 DEF TypeOK, Key, NoKey
<1>3. \A i \in ToppedUp : i \in Int /\ i >= nEnd /\ i < nEnd + nMissing
  BY <1>1 DEF ToppedUp, Index
<1>4. \A i \in ToppedUp : /\ PoolAfterTopUp[i] = nKeys + 1 + (i - nEnd)
                          /\ PoolAfterTopUp[i] \in nKeys + 1 .. nKeys + nMissing
  BY <1>1, <1>2, <1>3 DEF PoolAfterTopUp, Index
<1>5. \A i \in DOMAIN PoolAfterTopUp \ ToppedUp :
         i \in DOMAIN pool /\ PoolAfterTopUp[i] = pool[i]
  BY DEF PoolAfterTopUp
<1>6. /\ \A i \in DOMAIN pool : pool[i] \in 1 .. nKeys /\ pool[i] \notin used
      /\ \A i, j \in DOMAIN pool : pool[i] = pool[j] => i = j
      /\ used \subseteq 1 .. nKeys
  BY DEF ErasedInv, RecordsAreNew
<1>7. ASSUME NEW i \in DOMAIN PoolAfterTopUp
      PROVE  PoolAfterTopUp[i] \in (1 .. nKeys + nMissing) \ used
  <2>1. CASE i \in ToppedUp
    BY <1>1, <1>2, <1>4, <1>6, <2>1
  <2>2. CASE i \notin ToppedUp
    BY <1>1, <1>2, <1>5, <1>6, <2>2
  <2> QED
    BY <2>1, <2>2
<1>8. ASSUME NEW i \in DOMAIN PoolAfterTopUp, NEW j \in DOMAIN PoolAfterTopUp,
             PoolAfterTopUp[i] = PoolAfterTopUp[j]
      PROVE  i = j
  <2>1. CASE i \in ToppedUp /\ j \in ToppedUp
    BY <1>1, <1>2, <1>3, <1>4, <1>8, <2>1 DEF Index
  <2>2. CASE i \notin ToppedUp /\ j \notin ToppedUp
    BY <1>5, <1>6, <1>8, <2>2
  <2>3. CASE i \in ToppedUp /\ j \notin ToppedUp
    BY <1>2, <1>4, <1>5, <1>6, <1>8, <2>3
  <2>4. CASE i \notin ToppedUp /\ j \in ToppedUp
    BY <1>2, <1>4, <1>5, <1>6, <1>8, <2>4
  <2> QED
    BY <2>1, <2>2, <2>3, <2>4
<1>9. ASSUME NEW o \in Owner, NEW j \in DOMAIN PoolAfterTopUp,
             PoolAfterTopUp[j] = reserved[o].vchPubKey
      PROVE  j = reserved[o].nIndex
  <2>1. reserved[o].vchPubKey <= nKeys
    BY DEF ErasedInv
  <2>2. j \notin ToppedUp
    BY <1>1, <1>2, <1>4, <1>9, <2>1
  <2> QED
    BY <1>5, <1>9, <2>2 DEF ErasedInv, RecordOf
<1> QED
  BY <1>1, <1>2, <1>6, <1>7, <1>8, <1>9

LEMMA ErasedInit == Init => ErasedInv
<1> SUFFICES ASSUME Init PROVE ErasedInv
  OBVIOUS
<1>1. DOMAIN pool = {} /\ used = {} /\ nKeys = 0
  BY DEF Init
<1>2. \A o \in Owner : reserved[o].vchPubKey = 0
  BY DEF Init, Unused, NoKey
<1> QED
  BY <1>1, <1>2, TypeInit DEF ErasedInv, RecordsAreNew, RecordOf

LEMMA ErasedStep == ErasedInv /\ [Next]_vars => ErasedInv'
<1> SUFFICES ASSUME ErasedInv, [Next]_vars PROVE ErasedInv'
  OBVIOUS
<1>a. TypeInv'
  BY TypeStep DEF ErasedInv
<1>b. TypeOK /\ nKeys \in Nat /\ \A o \in Owner : reserved[o].vchPubKey \in Nat
  BY DEF ErasedInv, TypeInv, TypeOK, Key, NoKey
<1>c. /\ \A i \in DOMAIN pool : pool[i] \in 1 .. nKeys /\ pool[i] \notin used
      /\ \A i, j \in DOMAIN pool : pool[i] = pool[j] => i = j
      /\ used \subseteq 1 .. nKeys
      /\ \A o \in Owner : reserved[o].vchPubKey <= nKeys
      /\ \A o \in Owner, j \in DOMAIN pool :
            pool[j] = reserved[o].vchPubKey => j = reserved[o].nIndex
  BY DEF ErasedInv, RecordsAreNew, RecordOf
<1>1. CASE TopUpKeyPool
  BY <1>1, <1>a, <1>b, <1>c, ToppedUpKeys
     DEF TopUpKeyPool, MakeKeys, ErasedInv, RecordsAreNew, RecordOf
<1>2. ASSUME NEW o \in Owner, GetReservedKey(o) PROVE ErasedInv'
  <2> DEFINE i == Least(SetAfterTopUp)
             k == IF i \in DOMAIN PoolAfterTopUp THEN PoolAfterTopUp[i] ELSE NoKey
  <2>1. /\ pool' = PoolAfterTopUp /\ nKeys' = nKeys + nMissing /\ used' = used
        /\ reserved' = [reserved EXCEPT ![o] = [nIndex |-> i, vchPubKey |-> k]]
    BY <1>2 DEF GetReservedKey, MakeKeys
  <2>2. k <= nKeys + nMissing
    BY ToppedUpKeys DEF NoKey
  <2>3. \A j \in DOMAIN PoolAfterTopUp : PoolAfterTopUp[j] = k => j = i
    BY ToppedUpKeys DEF NoKey
  <2> HIDE DEF i, k
  <2>4. /\ reserved'[o].nIndex = i /\ reserved'[o].vchPubKey = k
        /\ \A p \in Owner \ {o} : reserved'[p] = reserved[p]
    BY <1>b, <2>1 DEF TypeOK
  <2>5. RecordsAreNew'
    BY <2>1, ToppedUpKeys DEF RecordsAreNew
  <2>6. \A p \in Owner : /\ reserved'[p].vchPubKey <= nKeys'
                         /\ RecordOf(reserved[p].vchPubKey, reserved[p].nIndex)'
    BY <1>b, <1>c, <2>1, <2>2, <2>3, <2>4, ToppedUpKeys DEF RecordOf
  <2> QED
    BY <1>a, <2>5, <2>6 DEF ErasedInv
<1>3. ASSUME NEW o \in Owner, KeepKey(o) PROVE ErasedInv'
  <2>1. /\ DOMAIN pool' = DOMAIN pool \ {reserved[o].nIndex}
        /\ \A j \in DOMAIN pool' : pool'[j] = pool[j]
        /\ used' = used \cup {reserved[o].vchPubKey} /\ nKeys' = nKeys
        /\ reserved' = [reserved EXCEPT ![o] = Unused]
        /\ reserved[o].vchPubKey # 0
    BY <1>3 DEF KeepKey, ErasePool, NoKey
  <2>2. /\ reserved'[o].vchPubKey = 0
        /\ \A p \in Owner \ {o} : reserved'[p] = reserved[p]
    BY <1>b, <2>1 DEF TypeOK, Unused, NoKey
  <2>3. \A j \in DOMAIN pool' : pool'[j] \in (1 .. nKeys') \ used'
    BY <1>c, <2>1
  <2>k. reserved[o].vchPubKey \in 1 .. nKeys
    BY <1>b, <1>c, <2>1
  <2>4. used' \subseteq 1 .. nKeys'
    BY <1>c, <2>1, <2>k, Zenon
  <2>5. RecordsAreNew'
    BY <1>c, <2>1, <2>3, <2>4 DEF RecordsAreNew
  <2>6. \A p \in Owner : /\ reserved'[p].vchPubKey <= nKeys'
                         /\ RecordOf(reserved[p].vchPubKey, reserved[p].nIndex)'
    BY <1>b, <1>c, <2>1, <2>2 DEF RecordOf
  <2> QED
    BY <1>a, <2>5, <2>6 DEF ErasedInv
<1>4. ASSUME NEW o \in Owner, ReturnKey(o) PROVE ErasedInv'
  <2>1. /\ UNCHANGED <<pool, used, nKeys>>
        /\ \A p \in Owner : reserved'[p] = IF p = o THEN Unused ELSE reserved[p]
    BY <1>4, <1>b DEF ReturnKey, TypeOK
  <2> QED
    BY <1>a, <1>b, <1>c, <2>1 DEF ErasedInv, RecordsAreNew, RecordOf, Unused, NoKey
<1>5. CASE GetKeyFromPool
  <2> DEFINE i == Least(SetAfterTopUp)
  <2>1. /\ DOMAIN pool' = DOMAIN PoolAfterTopUp \ {i}
        /\ \A j \in DOMAIN pool' : pool'[j] = PoolAfterTopUp[j]
        /\ used' = IF i \in DOMAIN PoolAfterTopUp THEN used \cup {PoolAfterTopUp[i]} ELSE used
        /\ nKeys' = nKeys + nMissing /\ reserved' = reserved
    BY <1>5 DEF GetKeyFromPool, MakeKeys
  <2> HIDE DEF i
  <2>2. \A j \in DOMAIN pool' : pool'[j] \in (1 .. nKeys') \ used'
    BY <2>1, ToppedUpKeys
  <2>3. used' \subseteq 1 .. nKeys'
    BY <2>1, ToppedUpKeys
  <2>4. RecordsAreNew'
    BY <2>1, <2>2, <2>3, ToppedUpKeys DEF RecordsAreNew
  <2>5. \A p \in Owner : /\ reserved'[p].vchPubKey <= nKeys'
                         /\ RecordOf(reserved[p].vchPubKey, reserved[p].nIndex)'
    BY <1>b, <1>c, <2>1, ToppedUpKeys DEF RecordOf
  <2> QED
    BY <1>a, <2>4, <2>5 DEF ErasedInv
<1>6. CASE Lock \/ Unlock \/ EncryptWallet \/ UNCHANGED vars
  BY <1>6, <1>a, <1>c DEF Lock, Unlock, EncryptWallet, vars, ErasedInv, RecordsAreNew, RecordOf
<1>7. CASE EraseStep
  <2>1. /\ DOMAIN pool' \subseteq DOMAIN pool
        /\ \A j \in DOMAIN pool' : pool'[j] = pool[j]
        /\ UNCHANGED <<nKeys, used, reserved>>
    BY <1>7 DEF EraseStep, ErasePool
  <2> QED
    BY <1>a, <1>c, <2>1 DEF ErasedInv, RecordsAreNew, RecordOf
<1>8. CASE WriteStep
  <2>1. CASE todo = {}
    BY <1>8, <1>a, <1>c, <2>1 DEF WriteStep, ErasedInv, RecordsAreNew, RecordOf
  <2>2. CASE todo # {}
    <3> DEFINE i == Least(todo)
    <3>1. /\ DOMAIN pool' = DOMAIN pool \cup {i}
          /\ \A j \in DOMAIN pool' : pool'[j] = IF j = i THEN nKeys + 1 ELSE pool[j]
          /\ nKeys' = nKeys + 1 /\ UNCHANGED <<used, reserved>>
      BY <1>8, <2>2 DEF WriteStep
    <3> HIDE DEF i
    <3> QED
      BY <1>a, <1>b, <1>c, <3>1 DEF ErasedInv, RecordsAreNew, RecordOf
  <2> QED
    BY <2>1, <2>2
<1>9. CASE CrashAndRestart
  <2>1. /\ UNCHANGED <<pool, nKeys, used>>
        /\ \A o \in Owner : reserved'[o].vchPubKey = 0
    BY <1>9 DEF CrashAndRestart, Unused, NoKey
  <2> QED
    BY <1>a, <1>b, <1>c, <2>1 DEF ErasedInv, RecordsAreNew, RecordOf
<1> QED
  BY <1>1, <1>2, <1>3, <1>4, <1>5, <1>6, <1>7, <1>8, <1>9 DEF Next

\* KeepKey erases the record of the key it keeps, for any number of threads, with
\* encryption and crashes anywhere in it: no used key is found in the file again.
THEOREM UsedKeysAreErased == Spec => []UsedIsErased
<1>1. Init => ErasedInv
  BY ErasedInit
<1>2. ErasedInv /\ [Next]_vars => ErasedInv'
  BY ErasedStep
<1>3. ErasedInv => UsedIsErased
  BY DEF ErasedInv, RecordsAreNew, UsedIsErased
<1> QED
  BY <1>1, <1>2, <1>3, PTL DEF Spec
=============================================================================
