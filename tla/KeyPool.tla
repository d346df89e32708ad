------------------------------ MODULE KeyPool -------------------------------
(***************************************************************************)
(* The key pool of the wallet: CWallet::TopUpKeyPool, ReserveKeyFromKeyPool,*)
(* KeepKey, ReturnKey, NewKeyPool and the parts of EncryptWallet, Lock and *)
(* LoadWallet that touch it, with the CReserveKey objects of the threads.  *)
(*                                                                         *)
(* Keys made in advance are "pool" records of the wallet file under an     *)
(* index; setKeyPool holds the indexes that are free.  A thread takes the  *)
(* smallest into its CReserveKey, and either keeps it (the record goes) or *)
(* returns it (the index is free again).  cs_wallet makes each of these    *)
(* one step, except that KeepKey does not take it and that a crash may     *)
(* interrupt the records NewKeyPool writes one by one.                     *)
(***************************************************************************)
EXTENDS Integers, FiniteSets

CONSTANTS
    Owner,          \* the CReserveKey objects: miner threads, getwork, send dialogs
    nTargetSize,    \* -keypool
    MaxKey,         \* bound on the keys ever made
    MaxCrash        \* bound on crashes

ASSUME KeyPoolAssumption ==
    nTargetSize \in Nat /\ MaxKey \in Nat /\ MaxCrash \in Nat

VARIABLES
    setKeyPool, \* the free indexes
    pool,       \* the pool records of the wallet file: index -> key
    nKeys,      \* how many keys were made; the next one is nKeys + 1
    reserved,   \* the CReserveKey objects
    used,       \* ghost: keys that were kept for a transaction, block or address
    crypted, locked,
    encrypting, \* where EncryptWallet is: "no", "erase" or "write" in NewKeyPool
    todo,       \* the indexes NewKeyPool still has to erase or write
    crashes

vars == <<setKeyPool, pool, nKeys, reserved, used, crypted, locked, encrypting, todo, crashes>>

Key    == Nat \ {0}
Index  == Nat \ {0}
NoKey  == 0     \* a CPubKey that is not valid
Unused == [nIndex |-> -1, vchPubKey |-> NoKey]

\* The type invariant.
TypeOK ==
    /\ setKeyPool \subseteq Index
    /\ DOMAIN pool \subseteq Index /\ \A i \in DOMAIN pool : pool[i] \in Key
    /\ nKeys \in Nat
    /\ reserved \in [Owner -> [nIndex : Index \cup {-1}, vchPubKey : Key \cup {NoKey}]]
    /\ used \subseteq Key
    /\ crypted \in BOOLEAN /\ locked \in BOOLEAN
    /\ encrypting \in {"no", "erase", "write"}
    /\ todo \subseteq Index
    /\ crashes \in 0 .. MaxCrash

\* A new wallet, whose pool is still to be filled.
Init ==
    /\ setKeyPool = {} /\ pool = [i \in {} |-> NoKey] /\ nKeys = 0
    /\ reserved = [o \in Owner |-> Unused] /\ used = {}
    /\ crypted = FALSE /\ locked = FALSE
    /\ encrypting = "no" /\ todo = {} /\ crashes = 0

-----------------------------------------------------------------------------
Least(S)    == CHOOSE i \in S : \A j \in S : i <= j
Greatest(S) == CHOOSE i \in S : \A j \in S : i >= j

\* TopUpKeyPool: one more than the target, at the indexes after the last free one.
nMissing == IF locked \/ Cardinality(setKeyPool) > nTargetSize THEN 0
            ELSE nTargetSize + 1 - Cardinality(setKeyPool)
\* Mutant: counting from zero.
nEndFromZero == IF setKeyPool = {} THEN 0 ELSE Greatest(setKeyPool) + 1
nEnd     == IF setKeyPool = {} THEN 1 ELSE Greatest(setKeyPool) + 1
ToppedUp == nEnd .. nEnd + nMissing - 1
SetAfterTopUp  == setKeyPool \cup ToppedUp
PoolAfterTopUp == [i \in DOMAIN pool \cup ToppedUp |->
                     IF i \in ToppedUp THEN nKeys + 1 + (i - nEnd) ELSE pool[i]]
MakeKeys == nKeys + nMissing <= MaxKey /\ nKeys' = nKeys + nMissing

\* ErasePool.  Mutant: a record that is kept stays in the file.
ErasePoolNothing(i) == pool
ErasePool(i) == [j \in DOMAIN pool \ {i} |-> pool[j]]

TopUpKeyPool ==
    /\ encrypting = "no" /\ nMissing > 0
    /\ MakeKeys
    /\ setKeyPool' = SetAfterTopUp /\ pool' = PoolAfterTopUp
    /\ UNCHANGED <<reserved, used, crypted, locked, encrypting, todo, crashes>>

\* Mutant: the index stays free.
ReserveLeaving(i) == SetAfterTopUp
Taken(i) == SetAfterTopUp \ {i}

\* GetReservedKey, ReserveKeyFromKeyPool: with no record at the index it throws,
\* and the CReserveKey has the index and no key.
GetReservedKey(o) ==
    /\ encrypting = "no" /\ reserved[o].nIndex = -1
    /\ MakeKeys
    /\ SetAfterTopUp # {}
    /\ LET i == Least(SetAfterTopUp)
           k == IF i \in DOMAIN PoolAfterTopUp THEN PoolAfterTopUp[i] ELSE NoKey
       IN  /\ setKeyPool' = Taken(i)
           /\ reserved' = [reserved EXCEPT ![o] = [nIndex |-> i, vchPubKey |-> k]]
    /\ pool' = PoolAfterTopUp
    /\ UNCHANGED <<used, crypted, locked, encrypting, todo, crashes>>

\* CheckWork, CommitTransaction: the key is used.  cs_wallet is not needed.
KeepKey(o) ==
    /\ reserved[o].nIndex # -1 /\ reserved[o].vchPubKey # NoKey
    /\ pool' = ErasePool(reserved[o].nIndex)
    /\ used' = used \cup {reserved[o].vchPubKey}
    /\ reserved' = [reserved EXCEPT ![o] = Unused]
    /\ UNCHANGED <<setKeyPool, nKeys, crypted, locked, encrypting, todo, crashes>>

\* The destructor of CReserveKey, and CreateTransaction without change.
ReturnKey(o) ==
    /\ encrypting = "no" /\ reserved[o].nIndex # -1
    /\ setKeyPool' = setKeyPool \cup {reserved[o].nIndex}
    /\ reserved' = [reserved EXCEPT ![o] = Unused]
    /\ UNCHANGED <<pool, nKeys, used, crypted, locked, encrypting, todo, crashes>>

\* Reserving and keeping in one step, for a new address.
GetKeyFromPool ==
    /\ encrypting = "no"
    /\ MakeKeys
    /\ SetAfterTopUp # {}
    /\ LET i == Least(SetAfterTopUp)
       IN  /\ setKeyPool' = Taken(i)
           /\ pool' = [j \in DOMAIN PoolAfterTopUp \ {i} |-> PoolAfterTopUp[j]]
           /\ used' = IF i \in DOMAIN PoolAfterTopUp
                      THEN used \cup {PoolAfterTopUp[i]} ELSE used
    /\ UNCHANGED <<reserved, crypted, locked, encrypting, todo, crashes>>

-----------------------------------------------------------------------------
Lock ==
    /\ crypted /\ ~locked /\ encrypting = "no"
    /\ locked' = TRUE
    /\ UNCHANGED <<setKeyPool, pool, nKeys, reserved, used, crypted, encrypting, todo, crashes>>

Unlock ==
    /\ locked /\ encrypting = "no"
    /\ locked' = FALSE
    /\ UNCHANGED <<setKeyPool, pool, nKeys, reserved, used, crypted, encrypting, todo, crashes>>

\* EncryptWallet up to its call of NewKeyPool, which finds the wallet unlocked.
EncryptWallet ==
    /\ ~crypted /\ encrypting = "no"
    /\ crypted' = TRUE
    /\ encrypting' = "erase" /\ todo' = setKeyPool
    /\ UNCHANGED <<setKeyPool, pool, nKeys, reserved, used, locked, crashes>>

\* NewKeyPool: the records of the free indexes go one by one, and then the set.
EraseStep ==
    /\ encrypting = "erase"
    /\ \/ /\ todo # {}
          /\ pool' = ErasePool(Least(todo))
          /\ todo' = todo \ {Least(todo)}
          /\ UNCHANGED <<setKeyPool, encrypting>>
       \/ /\ todo = {}
          /\ setKeyPool' = {} /\ todo' = 1 .. nTargetSize /\ encrypting' = "write"
          /\ UNCHANGED pool
    /\ UNCHANGED <<nKeys, reserved, used, crypted, locked, crashes>>

\* The new keys are written under the indexes from 1; EncryptWallet then locks.
WriteStep ==
    /\ encrypting = "write"
    /\ \/ /\ todo # {} /\ nKeys < MaxKey
          /\ LET i == Least(todo)
             IN  /\ pool' = [j \in DOMAIN pool \cup {i} |->
                               IF j = i THEN nKeys + 1 ELSE pool[j]]
                 /\ setKeyPool' = setKeyPool \cup {i}
                 /\ todo' = todo \ {i}
          /\ nKeys' = nKeys + 1
          /\ UNCHANGED <<locked, encrypting>>
       \/ /\ todo = {}
          /\ locked' = TRUE /\ encrypting' = "no"
          /\ UNCHANGED <<setKeyPool, pool, nKeys, todo>>
    /\ UNCHANGED <<reserved, used, crypted, crashes>>

\* The process dies and starts again: every record is a free index.
CrashAndRestart ==
    /\ crashes < MaxCrash /\ crashes' = crashes + 1
    /\ setKeyPool' = DOMAIN pool
    /\ reserved' = [o \in Owner |-> Unused]
    /\ locked' = crypted /\ encrypting' = "no" /\ todo' = {}
    /\ UNCHANGED <<pool, nKeys, used, crypted>>

Next ==
    \/ TopUpKeyPool \/ GetKeyFromPool
    \/ \E o \in Owner : GetReservedKey(o) \/ KeepKey(o) \/ ReturnKey(o)
    \/ Lock \/ Unlock \/ EncryptWallet \/ EraseStep \/ WriteStep
    \/ CrashAndRestart

Spec == Init /\ [][Next]_vars

-----------------------------------------------------------------------------
Offered == {pool[i] : i \in setKeyPool \cap DOMAIN pool}
Held(o) == reserved[o].vchPubKey

\* "Take key pair from key pool so it won't be used again" (CommitTransaction):
\* a key that was kept is never offered or reserved again, a crash included, and
\* no key is in two hands.  Encrypting the wallet breaks it: a locked wallet may
\* give out its last index, and NewKeyPool and a top-up count from 1 again.
KeysUsedOnce ==
    /\ Offered \cap used = {}
    /\ \A o \in Owner : Held(o) # NoKey =>
         /\ Held(o) \notin used \cup Offered
         /\ \A p \in Owner \ {o} : Held(p) # Held(o)

\* It holds as long as the wallet is not encrypted.
PlainKeysUsedOnce == ~crypted => KeysUsedOnce

\* As long as the wallet is not encrypted every free index has its record, so
\* "ReserveKeyFromKeyPool() : read failed" is never thrown.
PlainRecordsExist == ~crypted => setKeyPool \subseteq DOMAIN pool

\* Encrypted or not, KeepKey leaves no record of the key it keeps, under whatever
\* index: no later start or reservation finds a used key in the wallet file.
UsedIsErased == \A i \in DOMAIN pool : pool[i] \notin used
=============================================================================
