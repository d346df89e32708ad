# FoxCoin in TLA+

A verification development for the FoxCoin node (`src/src`, a Bitcoin 0.6 / Litecoin
descendant in C++). The modules model the parts that decide whether a node keeps a
correct ledger, keys and peer tables; TLC checks them on small instances and TLAPS
proves the theorems of the `*Proofs` modules for every instance.

All paths below are relative to `src/src/`.

## 1. The system

| part | state | operations | hard because |
|---|---|---|---|
| Block chain and transaction database (`main.cpp`, `db.cpp`) | `mapBlockIndex`, `pindexBest`, `pnext`, `bnBestInvalidWork`, `mapOrphanBlocks`; on disk the block index records, `hashBestChain`, a `CTxIndex` per transaction | `ProcessBlock`, `AcceptBlock`, `AddToBlockIndex`, `SetBestChain`, `Reorganize`, `ConnectBlock`, `DisconnectBlock`, `LoadBlockIndex` | memory and disk change at different times; a branch may fail half way; a crash at any write |
| Memory pool (`CTxMemPool`) | `mapTx`, `mapNextTx` | `accept`, `addUnchecked`, `remove` | two maps kept in step by hand; resurrection and deletion in a reorganisation |
| Wallet transactions (`wallet.cpp`) | `mapWallet`, each one's `hashBlock`, the best block locator, spent flags | `SyncWithWallets`, `ScanForWalletTransactions`, `ReacceptWalletTransactions` | told of blocks before they are committed |
| Key pool (`wallet.cpp`, `walletdb.cpp`) | `setKeyPool`, the pool records, each thread's `CReserveKey` | `TopUpKeyPool`, `ReserveKeyFromKeyPool`, `KeepKey`, `ReturnKey`, `NewKeyPool` | several threads hold keys at once; records written one by one; a crash |
| Address manager (`addrman.cpp`, `addrman.h`) | `mapInfo`, `mapAddr`, `vRandom`, new and tried buckets, `peers.dat` | `Add_`, `Good_`, `MakeTried`, `ShrinkNew`, `GetAddr_`, serialisation | five structures kept in step by hand; the file keeps only part of them |
| Orphan transactions (`main.cpp`) | `mapOrphanTransactions` and its index by previous hash, the work and erase queues | `AddOrphanTx`, `EraseOrphanTx`, `LimitOrphanTxSize`, the `tx` message | pointers held by two maps, a queue that grows while it is read, eviction at a limit |
| Message handling and inventory relay (`main.cpp`, `net.h`) | `mapAlreadyAskedFor`, each peer's `mapAskFor`, `setInventoryKnown`, `vInventoryToSend`, `hashContinue` | the handlers of `ProcessMessage`, `SendMessages`, `AskFor`, `PushGetBlocks` | requests put off and retried, answers from another peer, peers that go away in the middle |
| Connections and threads (`net.cpp`) | `vNodes`, `vNodesDisconnected`, reference counts and release times, bans, the outbound semaphore | the socket, connect and message threads | a node is freed while another thread takes a reference; a grant is moved without a lock |
| Miner (`main.cpp`) | the transaction selection, the key it reserved | `CreateNewBlock`, `CheckWork` | the best block moves meanwhile |
| Wallet encryption and coin selection (`crypter.cpp`, `keystore.cpp`, `wallet.cpp`) | plain and encrypted keys, spent flags | `EncryptWallet`, `Unlock`, `SelectCoins`, `CreateTransaction` | half-done encryption, the same coin chosen twice |
| Database environment (`db.cpp`) | use counts of open files | `Rewrite`, `Flush` | waits until nobody uses a file |
| Difficulty, subsidy, checkpoints, merkle trees, alerts, scripts | pure or nearly so | | boundaries |
| RPC, GUI, start and shutdown, utilities, vendored JSON | | | I/O and presentation |

How they interact: the message thread calls `ProcessBlock` and the pool under `cs_main`;
`ConnectBlock` calls every registered wallet (`SyncWithWallets`) from inside the
reorganisation; the wallet writes its locator when a block became the best one; miner
and send dialogs hold `CReserveKey` objects and end by calling `ProcessBlock` or
`CommitTransaction`, which keep the key; the connection threads take addresses from
and report successes to the address manager, under its own lock; a start (`AppInit2`)
loads the block index, rescans the wallet and re-accepts its transactions.

`PROJECT.json` lists every component with what is left out of it, and every hazard at
its line with the properties that watch it.

What makes each part correct:

* chain: the database always holds one valid branch and exactly that branch's index,
  gains work with every change, and the node ends on the heaviest valid branch;
* pool: no double spend inside, nothing that the branch already has, nothing lost by a
  reorganisation;
* wallet: a transaction points to the block of the best branch it is in;
* key pool: no key serves two purposes, across threads and restarts;
* address manager: the structures agree, the buckets stay bounded, a file written and
  read back gives the same tables;
* relay: what a live peer announced is obtained, no orphan that could go on is left, the
  index of the orphans holds no freed pointer, a download does not stop in the middle;
* connections: no thread works on a deleted node, no outbound slot is lost or doubled.

## 2. Modules

| module | contents |
|---|---|
| `ChainData` | blocks, transactions and the pure functions on the transaction index: `CheckBlock`, `FetchInputs`/`ConnectInputs` (`Fetch`, `ConnectInputs`), `ConnectBlock`, `DisconnectBlock`, BIP30, fees and subsidy |
| `Ledger` | the abstract specification of the database: a tip and the index of its branch, which change together, to a valid branch with more work. Validity is defined on a whole branch at once and not by connecting blocks, so it is a reference for the incremental code; the rules that look at one transaction or one block only are its parameters, and are those of `ChainData` |
| `BlockChain` | the node: block acceptance, orphan blocks, reorganisation, pool, wallet view, crash and restart |
| `MCBlockChain` | the block trees of the configurations |
| `BlockChainProofs` | lemmas on the operators; types, the pool, stored work |
| `BranchProofs` | the database holds exactly one valid branch: the refinement of `Ledger` and what follows from it |
| `AddrMan`, `MCAddrMan`, `AddrManProofs` | the address manager and its small tables; theorems |
| `KeyPool`, `KeyPoolProofs` | the key pool; theorems |
| `TxRelay`, `MCTxRelay`, `TxRelayProofs` | loose transactions: announcements, requests, retries, orphans; a line of transactions; theorems |
| `Download`, `MCDownload`, `DownloadProofs` | a node that is behind and the peers it downloads the chain from; theorems |
| `CompletionProofs` | a download from one peer comes to rest only at that peer's height |
| `Connections`, `MCConnections`, `ConnectionsProofs` | the life of the node objects among the threads of `net.cpp`; theorems |

### BlockChain

Everything runs under `cs_main`, so the model is one sequential process with a program
counter `pc`; it is cut into steps where the database is written, because the process
may die between any two of them. Variables fall into three groups: what is on disk
(`diskIndex`, `diskNext`, `diskBest`, `diskTx`, the wallet file), what the open database
transaction would write (`txnTx`, `txnNext`) and memory. `CrashAndRestart` keeps the
first, drops the second and rebuilds the third.

| code | action or operator |
|---|---|
| `ProcessBlock` up to the stored block, `AcceptBlock`, `AddToBlockIndex` | `ProcessBlock(b)`; the block becomes an orphan, is refused, or enters the index |
| the loop over `mapOrphanBlocksByPrev` | `ProcessOrphan(b)`, `OrphansDone` |
| `SetBestChain`: direct child, or `pindexIntermediate` and `vpindexSecondary` | `SetBestChain` |
| `Reorganize`: disconnect loop, connect loop, `TxnCommit`, memory index, resurrect, delete | `DisconnectStep`, `ConnectStep`, `Commit`, `ResurrectStep`, `DeleteStep` |
| `SetBestChainInner` of a direct child and of a postponed block | the same `ConnectStep`, `Commit`, `DeleteStep`; `SecondaryStep` picks the next postponed block |
| end of `SetBestChain`, announcing, queueing | `NewBest` |
| `InvalidChainFound`, `TxnAbort` and the returns of a failure | `ReorganizeFailed` |
| the `tx` message | `AcceptToMemoryPool(t)` |
| `LoadBlockIndex`, steps 7 and 9 of `AppInit2` | `CrashAndRestart` |

Abstractions, all on the side of more behaviours unless noted:

* A block is a name with its parent, work, transactions; scripts, proof of work, time,
  checkpoints are verdicts given as constants (`BadScript`, `Malformed`, `Unacceptable`,
  `Early`, `LowWork`). `Early` blocks may be refused now and accepted later.
* Fee, rate and size policy only ever refuse a transaction; the environment need not
  send it. `IsInitialBlockDownload` is a free choice where it decides whether the
  locator is written. `relayed` contains every block the code could announce.
* The orphans of one parent are taken in any order (the code uses a multimap), and
  re-acceptance leaves any maximal conflict-free set of wallet transactions.
* Genesis' transactions are not indexed, as in the code.
* Only the process dies: what BerkeleyDB committed is still there (the code commits
  with `DB_TXN_WRITE_NOSYNC`, so a power failure may lose more; that is not modelled).
* Left out: block file contents and `-checklevel` repair, spent flags and `vtxPrev` of
  the wallet, `-rescan`, disk errors, the signature-operation limit, the
  double-precision arithmetic of the subsidy (its shape is kept: it falls to a floor).

### AddrMan

Each method holds `CAddrMan::cs`, so it is one action: `AddUnknown`/`AddKnown` (`Add_`),
`Good` (`Good_` with `MakeTried`, `SelectTried`), `GetAddr`, `DumpAddresses`, `Restart`.
Buckets are chosen by a keyed hash: a constant function. The clock and the random
numbers are left open, so `ShrinkNew` may drop any entry and a known address may or may
not get another reference; `Attempt_`, `Connected_` and `Select_` then change nothing.
Times of successful connections are kept, because eviction compares them. Reading
`peers.dat` rebuilds reference counts and positions as `addrman.h` does. Addresses are
routable; the bucket count does not change between two versions.

### KeyPool

`cs_wallet` makes each operation one step; `NewKeyPool` is two loops of steps, because a
crash may come between the records it writes, and because `KeepKey` needs no lock and
can run in between. A key is a number in order of creation. A start reads every pool
record as a free index. `AddReserveKey` has no caller and is left out, and so are the
wallet file rewrite after encryption and restoring a backup (both of which re-use old
files on purpose).

### TxRelay

One node and its peers. `cs_main` makes a message one step, but the `tx` message's loop
over the work queue is a loop of steps (`TryOrphan`, `NextInQueue`), during which only the
clock, connections and nothing else of the node moves.

| code | action or operator |
|---|---|
| the `inv` message, `CNode::AskFor` | `Inv(p, t)`, `AskFor` with `RequestTime` |
| `SendMessages`, the `getdata` part | `SendMessages(p)` |
| the `tx` message: `CTxMemPool::accept`, `AddOrphanTx`, `LimitOrphanTxSize` | `ReceiveTx(p, t)` with `accept`, `AddOrphanTx` |
| its loop over `vWorkQueue`, then `vEraseQueue` | `TryOrphan(t)`, `NextInQueue` |
| a block that holds a transaction | `ConnectBlock(t)` |
| a connection that ends; the clock | `Disconnect(p)`, `Tick` |

Time is relative: `mapAlreadyAskedFor` and the due times count down to zero, one tick being
`1/RetryTime` of two minutes. The microsecond that `AskFor` adds to keep requests apart is
left out, and with it the order of requests that are due together. A peer announces a
transaction once (`setInventoryKnown`). Which orphan `LimitOrphanTxSize` evicts is free, as
its random number is. A transaction whose index entry is missing and one that is spent
are told apart (`MissingInputs`, `Conflicts`), because only the first makes an orphan.
Left out: fees, trickling of announcements, `mapRelay`, the sender's side.

### Download

A client that is behind, with a branch of its own, and servers that have the main chain.
Both ends run `main.cpp`; what a server learns from the client is that it has a block.

| code | action or operator |
|---|---|
| the `version` message's first `getblocks` | `Version(s)` |
| `inv`, with `AskFor`, the orphan's and the last entry's `getblocks` | `ReceiveInv`, `Asked`, `GotInventory`, `AskFor`, `PushGetBlocks` |
| `block`, `ProcessBlock` with its orphans and the request for what is missing | `ReceiveBlock`, `Accept`, `AddOrphanBlock` |
| `SendMessages` of the client and of a server | `ClientSend(s)`, `ServerSend(s)` |
| `getblocks` and `getdata` with `hashContinue` on a server | `ReceiveGetBlocks`, `GetBlockIndex`; `ReceiveGetData`, `Answered` |
| a block found by a server; a connection that ends; two minutes | `NewBlock(s)`, `Disconnect(s)`, `Tick` |

Messages of one connection arrive in order. Blocks of the main chain are their heights,
all are valid and of equal work, so the heaviest branch is the highest. A locator is named by
its first block; the others lie at the distances `vHave` from it (`CBlockLocator::Set`: 0 to 10,
then 9 + 2^k), and `GetBlockIndex` is the first of them that the server has. The `hashContinue` of
a server is tested against the first block of that name in a `getdata`, as the code resets it
there. `SendMessages` sends an inventory once, however often it was pushed (`Unsent`).
The checkpoint-work test of `ProcessBlock` and `getheaders` are left out.

### Connections

The openers (`ThreadOpenConnections2`, `ThreadOpenAddedConnections2`, `ProcessOneShot`) all
call `OpenNetworkConnection`; each is an element of `Opener`. `cs_vNodes` makes most of the
socket and message threads' sections one step. Three things are not under that lock and
are cut finer: `ConnectNode`'s `AddRef` on a node it found (the read of the count and the
write are two steps, and when the count changed in between either update may be lost, or
the two may follow each other); `MoveTo` (the test of the node's own grant, its
release, and the assignment); and the socket thread's release of the grant of a node it has just
taken out of `vNodes` (`Remove`, then `Retire`, while `Locked`).

| code | action or operator |
|---|---|
| `OpenNetworkConnection` | `Open(o, a)`, ..., `TestGrant(o)`, `ReleaseGrant(o)`, `MoveTo(o)`, `Flag(o)` |
| `ConnectNode` | `Connect(o)`, `AddRef(o)`, or `Dial(o)`, `DialFails(o)` |
| `ThreadSocketHandler2`: disconnect, delete, accept | `Remove(n)` and `Retire`, `Delete(n)`, `Accept(a)` |
| the copies of `vNodes` in the socket and message threads | `Copy(t)`, `Release(t)`; `Fail(t, n)` is any `fDisconnect` on the way |
| `nReleaseTime` | `fHeld`, `Expire(n)` |

`Expire` does not come while an opener points to the node: `nReleaseTime` is fifteen minutes
away and the opener, which has already found or made the node, has a handful of
assignments to do. No such assumption is made for the message and socket threads,
which may work on a copy for any time. Sends and receives, the locks of the buffers that
`delete` tries, bans (an address that is not opened), and shutdown are left out.
The `post` of a release and the reset of its flag are one step: nobody who looks at that flag
waits for the semaphore. Ghost variables record the races and never guard a step: `overwritten` (nodes
whose count lost an update), `unfinished` (nodes that were disconnected before their opener was
done) and `raced`, which counts the times that an opener saw a node without a grant while another one
was about to give it one.

`SlotsConserved` does not excuse the races on grants, it bounds them. Two openers that reach one
node (one made it, the other found it), and both saw no grant there, leave it with one for two: a
slot is lost for good though the node stays connected, and `raced` has counted it. An opener and the
socket thread that both release what the node had give back one too many; the node is then one of
`unfinished`, and however many openers release at once there is never more than one too many for it,
since each later one overwrites a grant. Without `raced` in the property, or without `unfinished`,
TLC finds each of the two. `UsedIsAlive` does except the nodes in `overwritten`: the unlocked
`AddRef` really lets them be freed in use.

## 3. Runs

| run | question | what is in it |
|---|---|---|
| `reorg` | does every switch leave database, memory, pool, orphans in agreement; does `ProcessBlock` return and the node end on the heaviest valid branch? | 11 blocks: two branches, an invalid third, one never acceptable, one refused at first, low work, a non-standard transaction; every order of arrival; fairness |
| `crash` | what does a start find after a death at any step? | 7 blocks, two rival branches with wallet transactions, up to two crashes |
| `postponed_invalid` | is the best block valid? *violated* | finding 1 |
| `duplicate_coinbase` | can a block of the best branch always be disconnected? *violated* | finding 2 |
| `wallet_failed_reorg` | does the wallet follow the best branch? *violated* | finding 3 |
| `addr_tables` | do the five structures agree, and is `peers.dat` faithful? | 4 services at 3 hosts, 2 new buckets of 1, 1 tried bucket of 1, files of 1 entry |
| `addr_evict` | is the newest of the inspected entries spared? *violated* | finding 4 |
| `key_pool` | is every key used once, does every index have its record, and does a used key leave the file? | 2 threads, 7 keys, 2 crashes; encryption, locking and unlocking at any time |
| `key_pool_encrypted` | and once the wallet is encrypted? *violated* | finding 5 |
| `tx_relay` | is what was announced obtained, and no orphan forgotten? | 4 transactions in a line, a silent and a good peer, two places for orphans; fairness |
| `download` | is anything announced forgotten, does a download reach the peers' height, and does it survive the loss of one of them? | 5 blocks behind, 1 own block, batches of 2, 2 peers, one leaves, one finds a block; fairness |
| `connections` | is no node used after its deletion, and what can a race cost in outbound slots? | 2 openers, 1 address from both sides, 2 grants, 2 node objects |

### Bounds

* Block trees (`MCBlockChain`) are the smallest in which the cases differ: a fork at
  `c2`; branch `a` (1 or 2 blocks) and the longer `b` (up to 3) spend the same coinbase
  output, so their transactions conflict; `b3` has a transaction that spends another of
  the same block; `x4`, `y4` are invalid deep in a branch; `d` repeats a transaction
  of `a`; `e` repeats a spent coinbase. Three blocks above the fork give an
  orphan chain of length two and, after a refused or interrupted block, a postponed one.
* `MaxCrash`: two, so that a crash can hit the recovery of a first one.
* `MaxId` bounds the addresses ever created (3: a full tried bucket and an eviction from
  it, a collision in a new bucket, a re-creation after a deletion); `MaxDump` bounds the
  tables `DumpAddresses` writes, because a restart multiplies the states. `DumpRestores`
  itself is evaluated in every state and not only where a file is written.
* `MaxKey` 7 with `-keypool` 2 lets the pool be refilled, emptied and refilled again, and
  renewed by an encryption; it is a guard on creating keys.
* `MAX_ORPHAN_TRANSACTIONS` 2 against three transactions that may all be orphans: the map
  is full when another comes. `t4` spends two of the others, so it is indexed twice, tried
  for each, and refused at the end; `t1` comes only in a block.
* `nLimit` 2 for the batch of 500, and six blocks to fetch: three batches, one of them
  across the client's own branch, and a block found in the middle of any of them.
* `MaxNode` 2: the second node object is made while the first is found, raced for,
  disconnected or deleted. One address from both sides is what makes an opener find a node
  that another made; with several addresses the nodes have less to do with each other.
  `MaxOutbound` 2, so that both openers work at once. The openers are interchangeable
  (`SYMMETRY`; no liveness is checked there).

`CHECK_DEADLOCK FALSE` in the chain, key pool and connection configurations: a finite tree
of blocks, of keys or of node objects runs out, and the model then stops where the program
would wait for the next message.

### Fairness

`BlockChain`: `FairSpec` assumes `WF(Internal)`: the thread in `ProcessBlock` holds
`cs_main`, waits for nobody and so keeps running; and `WF(ProcessBlock(b))` for each block:
peers offer a block again until the node has it (`getblocks`, the retry of
`mapAlreadyAskedFor`). Nothing is assumed of loose transactions or crashes. A block of the
tree that is refused for its time once (`Early`) is accepted directly when it is offered
again.

`TxRelay`: the message thread comes round to every connected peer
(`WF(SendMessages(p))`, `WF(Work)`), time goes on (`WF(Tick)`), and a peer that is not in
`Silent` answers. No peer is bound to announce or to stay, and blocks need not come.

`Download`: the two message threads come round, messages in flight arrive and time goes
on; nobody has to find a block and nobody has to leave.

### Findings

1. `postponed_invalid`: if a postponed block fails to connect, `SetBestChain` still makes
   the last, invalid tip the best block in memory, while the disk stays below it.
   It needs a crash between storing a block and connecting it.
2. `duplicate_coinbase`: BIP30 lets a fully spent coinbase be repeated. Undoing the
   repetition erases the entry of the first, so that the block that spent it can no
   longer be disconnected and the node is stuck on that branch.
3. `wallet_failed_reorg`: wallets hear of a block before its branch commits and are not
   told when it fails; `hashBlock` then names a block outside the best branch. The
   property holds in the run `crash`, where no wallet transaction is in two blocks. With one
   that is, a crash after `SyncWithWallets` and before the commit breaks it as well, unless
   the rescan of the next start reaches the block; section 4 proves that these are the only ways.
4. `addr_evict`: `SelectTried` remembers a position from before it swaps entries, so
   the entry it evicts need not be the least recently tried it looked at.
5. `key_pool_encrypted`: `NewKeyPool` numbers the new keys from 1 although such an index
   may be reserved; two keys share the index, and returning it offers a key in use.

Seen while modelling, and without a run of their own:

* `TopUpKeyPool` also starts from 1 when no index is free. That happens with `-keypool=0`
  (otherwise a top-up leaves one index free besides the one that is taken), and to a
  locked wallet whose last key is reserved: keeping the reserved key then erases the
  record of the new one. The theorems on the key pool assume `nTargetSize # 0`, and the
  proof shows where that is needed. Setting it to 0 in `KeyPool.cfg` shows the trace for
  `PlainRecordsExist`.
* A long branch of one's own stops a download. `getblocks` starts at the first block of the
  locator that the server has, which lies as far below the fork as the distances of the locator leave
  between them; the client's best block stays on its own branch until a batch reaches above it.
  When a batch ends below, the next `getblocks` gets the same batch, and `PushGetBlocks` and
  `setInventoryKnown` filter what is the same as before. The comment at `main.cpp:2917` expects
  the next batch. What is needed is a distance that is at least the length of the branch and less
  than a batch: with 500 blocks in a batch and the distances 0 to 11, 13, 17, ..., 265, 521, a
  branch of up to 265 blocks. `SideLength = nLimit` in `Download.cfg` shows the trace for
  `DownloadCompletes`; reconnecting helps.
* With two peers that announce blocks a download from the first may stop in the middle of the
  chain: `hashContinue` waits for a `getdata` of the last block of the batch, and when that block
  came from the second peer nobody requests it of the first. `CatchesUp` therefore speaks of a
  client to which only one peer sends; an `inv` of a new block moves the download on.
* A client asks only the first peer for blocks (`nAskedForBlocks`). When that one leaves,
  the next block of another peer moves the download on (`AdvancesWithNewBlock`) but need
  not complete it: if a block of a batch arrives late, after a retry, the block that
  carries `hashContinue` is an orphan by then and its `inv` asks for nothing new.
* A transaction that an orphan waits for and that comes in a block does not wake the
  orphan; `OrphansWait` names the case (`mined`).
* `SendMessages` sets `mapAlreadyAskedFor` to the time of the request (`main.cpp:3431`), which may
  be earlier than a time `AskFor` has promised; two later peers may then be asked within the
  two minutes that `net.h:329` speaks of. The bound of `TypeOK` holds all the same.
* A node that is disconnected between its `push_back` into `vNodes` and the assignment of
  `fNetworkNode` keeps its first reference, is never deleted, and keeps the grant that is moved to it:
  an outbound slot is lost for good (`unfinished` in `SlotsConserved`).
* Two openers that move their grants to one node at a time lose a slot for good, although the
  node stays connected; an opener and the socket thread that release the same grant make one too
  many (`net.cpp:1392`, `sync.h:187-193`). `SlotsConserved` bounds both.
* `ConnectNode` gives a node that it finds one more reference, and the disconnection of the node
  releases only one: such a node is never deleted either.

## 4. Proofs

Theorems hold for every value of the constants that satisfies the named assumptions
(`ChainDataAssumption`, `BlockChainAssumption`, `AddrManAssumption`, `KeyPoolAssumption`,
`TxRelayAssumption`, `ConnectionsAssumption`, `DownloadAssumption`): any tree of blocks, any number of threads, keys,
crashes, peers, transactions, openers and nodes, tables and buckets of any size.

* **`TypeCorrect`** (`Spec => []TypeOK`, BlockChain). `TypeOK` is inductive. Besides types in
  the narrow sense it says that every index entry has one mark per output (so that no
  index is out of range in `ConnectInputs`; lemmas `FetchType`, `ConnectBlockType`,
  `DisconnectBlockType`) and that the work queue is not empty while it is read.
* **`PoolIsLinked`** (`Spec => []PoolLinked`). Inductive with `TypeOK`: `AddKeepsPoolLinked`
  uses that `Acceptable` looked at every outpoint, `RemoveKeepsPoolLinked` that `remove`
  clears exactly the entries of what it takes out, `ReacceptIsPoolLinked` that the set a
  start leaves in the pool has no conflicts.
* **`StoredWorkIncreases`** (`Spec => WorkIncreases`). The guard that compares work reads
  memory, but the statement is about the disk, and after finding 1 they differ. The
  inductive `WorkInv` says, by program counter, that the stored best block has no more
  work than the one in memory, that during a switch the stored block has less work than
  the target, and that postponed blocks only go up. It rests on `BranchWork` (work does
  not fall along a branch), proved by well-founded induction over the block tree.
* **`KeyPoolTypeCorrect`** (`Spec => []TypeOK`, KeyPool), with `IndexesBounded`: a largest index
  exists, which `nEnd` needs.
* **`UsedOnceWhilePlain`, `RecordsExistWhilePlain`** (`PlainKeysUsedOnce`,
  `PlainRecordsExist`): until the wallet is encrypted and with `-keypool` at least
  1, for any number of threads and crashes. `KeysUsedOnce` is not inductive: nothing in it
  stops a top-up from writing over the record of a reserved key. `PoolInv` adds that
  records hold distinct keys not yet used (`RecordsAreNew`), that a reserved index belongs
  to one thread (`HeldApart`), and that it is not free, but has its record and a free
  index above it (`HeldBelowFree`). The last is why `nEnd`, computed from the free indexes
  alone, never meets a reserved one: a reservation takes the smallest of at least two.
* **`UsedKeysAreErased`** (`UsedIsErased`), without those conditions: also with encryption,
  whose `NewKeyPool` may give two keys one index, the record of a key goes before the key is
  used for good. `ErasedInv` follows each record to the thread that may still keep it.
* **`TxRelayTypeCorrect`** (`TypeOK`, TxRelay). Two parts are not types in the narrow sense. The
  orphan map never exceeds its limit (`TypeAddOrphanTx` counts the evicted). And the retry
  times have a bound: `AskedPerPeer` says that the time of a transaction is at most two minutes for
  each peer that has announced it, which each `AskFor` keeps because its peer is a new one.
* **`OrphansStayIndexed`** (`OrphansAreIndexed`). One case for the new orphan with any set of
  evicted ones, one for the erase queue; nothing else writes the two maps.
* **`NoOrphanIsForgotten`** (`OrphansWait`). The property speaks of the idle node only. `QueueInv`
  extends it into the loop: every orphan still waits, or is among those left for the first
  of the queue, or on the erase queue, or spends from a later entry of the work queue.
  `TakeFreesOrphans` is the core: one more transaction in the pool can only free orphans that
  spend from it, and they are found by the index, so `QueueInv` contains it.
* **`ConnectionsTypeCorrect`** (`TypeOK`, Connections): a node is in at most one of `vNodes`, being
  disconnected, `vNodesDisconnected` and deleted.
* **`UsedStaysAlive`** (`UsedIsAlive`). Inductive with `Counted`: except where the unlocked `AddRef` lost
  an update, the count of a node is at least the number of copies that hold it plus one
  while it is in `vNodes` or being disconnected. The count may be higher, and is, for ever, in
  the leaks above. Openers are safe for a different reason (`PnodeIsHeld`): what
  they point to is in `vNodes`, or its release time has not come.
* **`SlotsAreConserved`** (`SlotsConserved`). A node with a grant is connected or was cut off from its
  opener (`GrantsCount`), so the property speaks of `Count`: free slots, grants of openers that have yet
  to look at their node or to give its own back (`Carrying`), nodes that have a grant or are about to get
  one (`Kept`), and `raced`. `Count` never falls (`SlotsLeast`): an opener that is about to give a grant to a
  node that has one, or is to get one from another, was counted when it looked, or gave one back.
  It grows in two places only, when a grant is given back that is gone and when the socket thread
  gives one back while an opener is about to bring another. The upper bound is not inductive: nothing
  in it stops the same node from adding twice. `SlotsMost` keeps a place for each node where that can still
  happen (`Due`): a node joins the unfinished and `Due` in one step (`RemoveCounts`), and
  leaves `Due` when it adds (`ReleaseGrantCounts`, `RetireCounts`). Both need `SeenIsThere` (the grant that the socket
  thread saw is still there, or an opener is about to bring one) and `DeletedIsUnused`.

### The branch theorems

`BranchProofs` proves eleven invariants of `BlockChain` and its refinement of `Ledger`, for
every tree of blocks and with crashes anywhere. Their statements are false of the code as
it is: the findings show two ways out. So each theorem names what it excludes:

| hypothesis | says | needed because |
|---|---|---|
| `CoinBasesAreUnique` | no branch holds one coinbase in two blocks | finding 2: a repeated coinbase makes a block that cannot be disconnected |
| `PostponedNeverFails` | no postponed block fails to connect | finding 1: it becomes `pindexBest` all the same |
| `ScriptsAreChecked` | no checkpoint, or no bad script | `ConnectInputs` decides by the height of `pindexBest` whether it checks signatures; during a reorganisation that is the old branch's height |
| `WalletTxsAreUnique` | no wallet transaction is in two blocks, of whatever branches | finding 3: the wallet is told of the block that is then dropped |
| `ToldIsKept` | instead: no switch that has told the wallets of a block is cut short, by a block that fails or by a crash | finding 3, and its variant with a crash |
| `MaxCrash = 0` | no crash | after a crash the heaviest block may be stored and not connected until another one comes |

The instances of `reorg` and `crash` satisfy the first three in every behaviour (each was
checked there by TLC, along with the inductive invariant), and `crash` also the fourth, so the
theorems are not vacuous. With a wallet transaction in two rival blocks and no crash,
TLC finds that `ToldIsKept` holds and with it `WalletFollowsBranch`.

| theorem | states | hypotheses |
|---|---|---|
| `IndexIsBranch` | `TxIndexIsBranch`: the stored index is `IndexOf` the stored branch | first two |
| `ChainIsLinked` | `MainChainLinked` | first two |
| `DisconnectSucceeds` | `DisconnectNeverFails` | first two |
| `PoolIsOutsideBranch` | `PoolNotInBranch` | first two |
| `TxsAreKept` | `ReorganizeKeepsTxs` | first two |
| `DatabaseImplementsLedger` | `DatabaseIsLedger`, the refinement | first three |
| `AnnouncedIsValid`, `BestBlockIsValid` | `RelayedIsValid`, `BestIsValid`: the second is what finding 1 violates, so a failing postponed block is the only way to it | first three |
| `WarningJustified` | `WarningIsJustified` | first three |
| `OrphansAreDrained` | `OrphansDrained` | first three |
| `BestHeaviest` | `BestIsHeaviest` | first three and `MaxCrash = 0` |
| `UniqueTxsAreFollowed` | `WalletFollowsBranch`, with crashes and with blocks that fail | `WalletTxsAreUnique` alone |
| `KeptSwitchesAreFollowed` | `WalletFollowsBranch`, also for a transaction that moves from one branch to another | first two, `ToldIsKept`, finitely many blocks, none of the wallet's transactions in the genesis block |

The argument goes in five stages.

1. *Operators.* `Sound(b)` is what the index needs of a branch: no transaction twice, every
   input created earlier and spent once. For a sound branch `IndexEntries` says what each entry of
   `IndexOf` is; `DisconnectGivesParent` and `ConnectGivesChild` say that `DisconnectBlock` and
   `ConnectBlock` turn the index of a branch into the one of its parent or child. If `ConnectBlock` accepts,
   the longer branch is sound and, with `ScriptsAreChecked`, obeys every rule of `Ledger`
   (`ChildIsSound`, `ChildIsValid`). The converse, `ValidConnects`, says that it refuses nothing that obeys them.
   `ConnectBlock` looks at one block and the index, `Ledger` at the whole branch, so this is
   where each check of the code (unspent, mature, BIP30, the coinbase's value) is needed.
2. *Induction.* `TxIndexIsBranch` is not inductive: between two commits the work is in the
   open transaction. `BranchInv` has four parts. `Planned` says what `SetBestChain`
   decided and which blocks are left to disconnect and connect; `Progress` that the open transaction
   holds the branch that the work done so far leads to, all disconnected blocks lying above the fork; `Stored` that
   the database holds the stored branch; `Clear` that the pool and the index are disjoint but for the
   transactions that `DeleteStep` has yet to take out. One lemma per action, joined in
   `BranchNext` and `BestNext` (the latter relates the best block in memory to the stored one).
3. *What the failures mean.* With `ValidConnects`, a reorganisation fails only on an
   invalid block (`FailedIsInvalid`). `Warned` and `Outweighed` extend the two properties on
   work into the middle of a switch, and `Awaited` does so for the queue of orphan blocks.
4. *Transactions.* `Kept` follows each transaction of a disconnected block through connecting,
   resurrecting and deleting: it is still to be resurrected, or is where the property wants it.
5. *The wallet.* It is told inside the switch, so the invariant must follow the open
   transaction. `Told` (unique transactions): a transaction that either index has is in the wallet
   with that entry's block. `Following`: the wallet follows the open transaction always, and the
   database whenever no told block awaits its commit. A start rescans; `ScanStaysOnBranch` shows that
   it reads blocks of the stored branch only, so it can only set `hashBlock` right.

### The address manager's theorems

`AddrManProofs` proves every property of the run `addr_tables`, with tables of any size and without
hypotheses: `RefCountAlwaysExact`, `TriedAlwaysPlaced`, `AddrAlwaysIndexed`,
`RandomAlwaysPermutation`, `BucketsAlwaysBounded`, `TypeAlwaysOK`, `TriedNeverDeleted` and
`DumpAlwaysRestores`. All follow from `TablesAgree` (`Spec => []Inv`).

* *Why an invariant of its own.* The conjunction of the run's properties is not inductive.
  `Restart` reads a file written earlier, so `Inv` needs `FileInStep(peers)`: no host
  twice in the file, every new entry in some bucket and in no more than the limit, every
  bucket within its size. `Delete` needs that an id in `mapInfo` is below `nIdCount`
  and that `vRandom` and `nRandomPos` are inverse in both directions (`InStep`).
* *One lemma per method.* `SwapInStep`, `CreateInStep`, `DeleteInStep`, `ShrinkNewInStep` and
  `EnterNewInStep` follow the code's own helpers; `AddUnknownInv`, `AddKnownInv`, `AppendTriedInv`,
  `EvictTriedInv`, `SeenAgainInv` and `GetAddrInv` put them together. `EvictTriedInv` is where the bound of
  a bucket that is not shrunk is shown: the promoted entry has just left that bucket.
* *Loops.* The shuffles of `SelectTried` and `GetAddr_` are recursive functions over the swaps;
  that each step is a permutation goes by a least counterexample (`SwapsExist`,
  `ShufflesExist`), as induction theorems over an operator cannot be used.
* *The file.* `SerializeInStep` says that what is written satisfies `FileInStep`, `RestartInv` that any
  such file rebuilds tables that satisfy `Inv`. The ids are the ranks of a finite set of
  numbers (`Ranks`, `InOrderLists`). For the round trip, `AllFit` shows that no tried entry is dropped for
  lack of place, because the bucket of an entry depends on its address alone, and `SourceExists` maps
  each entry that is read to the one it was written from, one to one and onto.

### The theorems on a download

`DownloadProofs` and `CompletionProofs` hold for any number of peers, any heights, batches and locators.

| theorem | states |
|---|---|
| `DownloadTypeCorrect` | `TypeOK` |
| `NothingIsForgotten` | `NothingForgotten`: what a peer announced is had, or on its way from that peer |
| `PeersAreAskedForWhatTheyHave` | `OnlyWhatItHas`: nothing is asked of, announced or sent by a peer that is not in its chain |
| `BestIsHighest` | `ChainIsLinked`: the index is closed under `pprev`, the best block is a highest one, no orphan's parent is in the index |
| `BlocksComeInOrder` | `DownloadIsInOrder`: while one peer alone has shaken hands, the new blocks below its height at the start come once and one after the other, never as orphans |
| `FirstDownloadCompletes` | `DownloadCompletes`: a download from one peer comes to rest only at that peer's height. Assumes `SomeLocatorHelps` |

The first four follow from `DownloadInvariant`. `TypeOK` alone is not inductive: that an orphan is never in
the index needs `ChainIsLinked`, the count of unasked `getblocks` needs `AskedAreGreeted`, and that a
block that a server sends is one of the main chain needs `OnlyWhatItHas`, which in turn needs that
`NewBlock` only adds. `AnnouncesWhatItHas` says that the client pushes only blocks of its index.

* *Loops.* `Kept`, `Unsent`, `Asked` and `Answered` are recursive functions over a queue or a
  message. `StepsExist` shows once that such a function has the value of its steps, by a least
  counterexample, and `UpTo` replaces induction. `KeptFacts` and `UnsentFacts` give what the filters keep and
  that they keep its order; `AskedAll` that after an `inv` each of its blocks is had or in `mapAskFor`
  and that no earlier request is lost; `AnsweredAll` that a `getdata` is answered in full.
* *One lemma per action.* `NothingForgotten` is at risk where a request changes its form:
  `ClientSendKeeps` (a due request becomes a `getdata` or is dropped because the block is
  had), `ServerReceiveKeeps` (a `getdata` becomes blocks), `ClientReceiveKeeps` (a block becomes one
  that is had, as an orphan if need be).
* `AcceptKeeps` shows that the run of orphans that `ProcessBlock` takes along ends where the
  next block is missing, so that every orphan that is left still waits for something.

`FirstDownloadCompletes` assumes `SomeLocatorHelps`: some distance of a locator is at least the length
of the client's own branch and less than a batch. The code has the distances 0 to 11, 13, 17, ...,
265, 521 and batches of 500, so the assumption says that the branch has at most 265 blocks. Without
it the statement is false (section 3: a long branch of one's own stops a download). The property
looks at rest only; nothing there says why a download that is not at rest was on its way to
anything, so the invariant has to.

* *Background* holds of all peers. `AnnouncedArrives`: what a peer takes to be known to the client is
  had or in an `inv` on its way; what the client asks for starts at a block that it has.
  `UngreetedAreSilent`: nothing passes before `version`. `OwnIsThere`: the client's best block
  is the end of its own branch until it has gone over to the peer's chain.
  `FoundAreTold`: a block that the peer finds after the start is announced at once.
* *Order*, of the blocks that only the one peer can bring. `InOrder`: in each queue between the two
  (`vInventoryToSend`, `inv`, `mapAskFor`, `getdata`, `block`) a block comes after the one it follows on, or that
  one is further on its way. `ToldOnce`: it is announced once, so that `AskFor` never delays it
  (`AskedAtOnce`). `LowIsTold`: it is never an orphan. `BlocksComeInOrder` is this part; it
  needs no assumption on the locators.
* *Progress*. Let `e` be the last block that the peer has told of before one that it has not
  (`Gap`). Then something is on its way that makes it tell (`Live`): a `getblocks` that
  reaches beyond `e`; or `e` is `hashContinue` and not requested yet; or the announcement of
  the peer's best block follows `e` on its way; or that block is being fetched, and as an orphan will send a
  `getblocks`. The other three conjuncts of `Goes` are what keeps this so. `Answering`: no `getblocks` on its
  way starts too low to reach `e`, and later ones reach at least as far. `LastIsDone`: the
  request that `PushGetBlocks` would filter as a duplicate has been answered in full, or is still on
  its way. `CommonFirst`: the blocks below the fork, which the client has and asks nothing about, come before the first
  new one, so that a batch never ends with one of them. `SomeLocatorHelps` enters here: a first batch
  reaches above the client's branch.
* *One lemma per action* for `Order` and for `Goes` (`VersionGoes`, `ReceiveInvGoes`,
  `ReceiveBlockGoes`, `ClientSendGoes`, `GetBlocksGoes`, `GetDataGoes`, `LearnGoes`,
  `ServerSendGoes`, `NewBlockGoes`, `TickGoes`), joined in `OrderNext` and `GoesNext`. The core of
  `GetBlocksGoes` is that the answer ends with `hashContinue` or with the peer's best block; of
  `ReceiveBlockGoes` that the block that closes the gap below an orphan, or the orphan itself,
  leaves a request behind. At rest nothing is on its way, so `Live` is false and there is no
  gap (`AtRestHasAll`); then the best block is high enough by `BestIsHighest` (`AtRestIsHigh`).

### Only model-checked

* `NewestIsNotEvicted` of `AddrMan`, which is false (finding 4). The other eight properties are proved.
* Liveness (`ProcessBlockReturns`, `Converges`, `AnnouncedIsObtained`, `CatchesUp`,
  `AdvancesWithNewBlock`): fairness and `ENABLED` are outside the prover.

## 5. Not modelled, and what could follow

* The composition of `Download` with `BlockChain` (a client whose acceptance of a block is
  the whole of `ProcessBlock`) and of `Connections` with either: the products are beyond TLC,
  so each abstracts the other to what it sees of it (a block accepted or orphaned; a
  connection that ends).
* The miner over a moving chain, wallet encryption (key store, master keys, half-way
  crashes), spent flags, alerts, use counts of `CDBEnv`, shutdown: concurrent or persistent
  parts that can be modelled in the same way.
* Pure algorithms against their definitions: coin selection, `GetNextWorkRequired`,
  `ComputeMinWork`, subsidy, merkle branches, the median time offset.
* Not to be modelled: ciphers and hashes, the script interpreter's arithmetic, sockets, DNS,
  IRC and UPnP, RPC formatting, the GUI and its translations, vendored code; their
  verdicts enter the models as constants or free choices.
