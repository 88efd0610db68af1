----------------------------- MODULE ResyncIndex -----------------------------
(***************************************************************************)
(* SyncWorker.ResyncIndex (db/sync.go) against a backend whose best chain  *)
(* changes between any two calls.                                          *)
(*                                                                         *)
(* The hash of a block names the block and all its ancestors, so a hash is *)
(* modelled by the sequence of labels from the first block up to it, and   *)
(* its length is the height of the block.  The empty hash "" is <<>>.      *)
(*                                                                         *)
(* One thread runs resyncIndex, handleFork and the consumer side of        *)
(* connectBlocks; connectBlocks starts a producer, getBlockChain, that     *)
(* feeds it through the channel bch.  Every call to the backend is a step  *)
(* of its own.  How ConnectBlocksParallel and the database do their work   *)
(* is in ParallelSync and IndexStore: here a block is connected in one     *)
(* step, and the parallel load connects the blocks in order.               *)
(***************************************************************************)
EXTENDS Integers, Sequences, FiniteSets, FiniteSetsExt

CONSTANTS
    Labels,       \* what distinguishes two blocks with the same parent
    MaxLen,       \* bound: length of the backend's chain
    MaxDepth,     \* bound: how far below its longest length the chain is cut
    Keep,         \* KeepBlockAddresses()
    SyncChunk,    \* w.syncChunk
    QueueSize,    \* capacity of bch (8 in the code)
    Modes         \* how the program is run and what may happen to it

\* busy: the chain may be cut while a resync is running; parallel: w.syncWorkers > 1;
\* errors: calls to the backend may fail and a signal may arrive; changes, a bound:
\* number of changes of the backend's chain.
Mode == [busy : BOOLEAN, parallel : BOOLEAN, errors : BOOLEAN, changes : Nat]

ASSUME ResyncAssumption ==
    /\ MaxLen \in Nat \ {0} /\ MaxDepth \in Nat
    /\ Keep \in Nat /\ SyncChunk \in Nat /\ QueueSize \in Nat \ {0}
    /\ Modes \subseteq Mode

VARIABLES
    mode,         \* an element of Modes, fixed
    remote,       \* labels of the backend's best chain
    longest,      \* its greatest length so far
    changes,      \* changes so far
    local,        \* column height: hash stored for each height
    undo,         \* heights with data in the column blockTxs
    isSync,       \* internalState.IsSynchronized
    bestHeight,   \* internalState.BestHeight
    initial,      \* the initial synchronisation is not finished
    pc,           \* where the sync thread is
    remoteBest,   \* remoteBestHash
    startHeight,  \* w.startHeight
    startHash,    \* w.startHash
    forkHeight,   \* height in handleFork, h and remoteBestHeight in the
    parHigh,      \* parallel load
    lastRes,      \* lastRes.block of connectBlocks
    err,          \* error of the last ResyncIndex: "none", "rpc", "undo", "height"
    gpc,          \* where getBlockChain is
    ghash,        \* its hash
    gheight,      \* its height
    gblock,       \* block it is about to send
    bch           \* content of bch

chainVars == <<mode, remote, longest, changes>>
dbVars    == <<local, undo>>
isVars    == <<isSync, bestHeight>>
syncVars  == <<initial, pc, remoteBest, startHeight, startHash, forkHeight, parHigh,
               lastRes, err>>
genVars   == <<gpc, ghash, gheight, gblock, bch>>
vars      == <<chainVars, dbVars, isVars, syncVars, genVars>>

Heights == 1 .. MaxLen
ErrMark == <<"err">>      \* a blockResult with an error

Hashes == UNION {[1 .. n -> Labels] : n \in 0 .. MaxLen}

\* The database is empty, the configured start height is 1.
Init ==
    /\ mode \in Modes /\ remote \in {<<l>> : l \in Labels} /\ longest = 1 /\ changes = 0
    /\ local = [g \in Heights |-> <<>>] /\ undo = {}
    /\ isSync = FALSE /\ bestHeight = 0
    /\ initial = TRUE /\ pc = "idle" /\ remoteBest = <<>>
    /\ startHeight = 1 /\ startHash = <<>> /\ forkHeight = 0 /\ parHigh = 0
    /\ lastRes = <<>> /\ err = "none"
    /\ gpc = "exit" /\ ghash = <<>> /\ gheight = 0 /\ gblock = <<>> /\ bch = <<>>

-----------------------------------------------------------------------------
\* The backend.  GetBlockHash fails with ErrBlockNotFound above the tip, which
\* <<>> stands for; an orphaned block can still be read by its hash, and has
\* no next block.
HashAt(g) == IF g \in 1 .. Len(remote) THEN SubSeq(remote, 1, g) ELSE <<>>

NextOf(hash) == IF hash = HashAt(Len(hash)) THEN HashAt(Len(hash) + 1) ELSE <<>>

\* A new block on top of the best chain.
Extend ==
    /\ changes < mode.changes /\ Len(remote) < MaxLen
    /\ \E l \in Labels : remote' = Append(remote, l)
    /\ longest' = Max({longest, Len(remote) + 1})
    /\ changes' = changes + 1
    /\ UNCHANGED <<mode, dbVars, isVars, syncVars, genVars>>

\* A reorganisation: the end of the chain is cut and, with Extend, grows again.
\* The first block, the genesis block, stays.
Cut ==
    /\ changes < mode.changes
    /\ mode.busy \/ pc = "idle"
    /\ remote' \in {SubSeq(remote, 1, n) : n \in Max({1, longest - MaxDepth}) .. Len(remote)}
    /\ remote' # remote
    /\ changes' = changes + 1
    /\ UNCHANGED <<mode, longest, dbVars, isVars, syncVars, genVars>>

-----------------------------------------------------------------------------
\* GetBestBlock: the last key of the column height.
BestHeight == Max({0} \union {g \in Heights : local[g] # <<>>})
BestHash   == IF BestHeight = 0 THEN <<>> ELSE local[BestHeight]

\* Mutant of DbConnect: undo data of one block too few is kept.
DbConnectKeepsLess(hash) ==
    /\ local' = [local EXCEPT ![Len(hash)] = hash]
    /\ undo' = {g \in undo : g + Keep > Len(hash) + 1} \union {Len(hash)}
    /\ bestHeight' = Len(hash)

\* ConnectBlock: the undo data of the block Keep below is removed.
DbConnect(hash) ==
    /\ local' = [local EXCEPT ![Len(hash)] = hash]
    /\ undo' = {g \in undo : g + Keep > Len(hash)} \union {Len(hash)}
    /\ bestHeight' = Len(hash)

\* ResyncIndex returns with an error; IsSynchronized stays false.  An error of
\* the initial synchronisation ends the program.
Fail(e) ==
    /\ pc' = IF initial THEN "exited" ELSE "idle"
    /\ err' = e
    /\ UNCHANGED isSync

\* syncIndexLoop, or main for the initial synchronisation: StartedSync.
ResyncStart ==
    /\ pc = "idle"
    /\ isSync' = FALSE
    /\ pc' = "best"
    /\ UNCHANGED <<chainVars, dbVars, bestHeight, initial, remoteBest, startHeight,
                   startHash, forkHeight, parHigh, lastRes, err, genVars>>

\* resyncIndex: GetBestBlockHash.
GetBest ==
    /\ pc = "best"
    /\ remoteBest' = HashAt(Len(remote))
    /\ pc' = "compare"
    /\ UNCHANGED <<chainVars, dbVars, isVars, initial, startHeight, startHash,
                   forkHeight, parHigh, lastRes, err, genVars>>

\* resyncIndex: the local best block is the remote one, errSynced:
\* FinishedSyncNoChange.
Synced ==
    /\ pc = "compare"
    /\ BestHash = remoteBest
    /\ isSync' = TRUE /\ err' = "none" /\ initial' = FALSE
    /\ pc' = "idle"
    /\ UNCHANGED <<chainVars, dbVars, bestHeight, remoteBest, startHeight, startHash,
                   forkHeight, parHigh, lastRes, genVars>>

\* Mutant of Compare: a local block that is not on the chain counts as behind.
CompareIgnoresFork ==
    /\ pc = "compare"
    /\ BestHash # remoteBest
    /\ pc' = "startHash"
    /\ startHeight' = IF BestHash = <<>> THEN startHeight ELSE BestHeight + 1
    /\ UNCHANGED <<chainVars, dbVars, isVars, initial, remoteBest, startHash, forkHeight,
                   parHigh, lastRes, err, genVars>>

\* resyncIndex: GetBlockHash(localBestHeight) says whether local is forked or
\* behind.  An empty database keeps w.startHeight.
Compare ==
    /\ pc = "compare"
    /\ BestHash # remoteBest
    /\ IF BestHash # <<>> /\ HashAt(BestHeight) # BestHash
       THEN pc' = "fork" /\ forkHeight' = BestHeight - 1 /\ UNCHANGED startHeight
       ELSE /\ pc' = "startHash"
            /\ startHeight' = IF BestHash = <<>> THEN startHeight ELSE BestHeight + 1
            /\ UNCHANGED forkHeight
    /\ UNCHANGED <<chainVars, dbVars, isVars, initial, remoteBest, startHash, parHigh,
                   lastRes, err, genVars>>

\* resyncIndex: GetBlockHash(w.startHeight), an error if there is no such block.
GetStartHash ==
    /\ pc = "startHash"
    /\ startHash' = HashAt(startHeight)
    /\ IF startHash' = <<>>
       THEN Fail("height")
       ELSE /\ pc' = IF mode.parallel /\ initial THEN "bestHeight" ELSE "spawn"
            /\ UNCHANGED <<isSync, err>>
    /\ UNCHANGED <<chainVars, dbVars, bestHeight, initial, remoteBest, startHeight,
                   forkHeight, parHigh, lastRes, genVars>>

\* resyncIndex: GetBestBlockHeight decides whether the blocks are loaded in
\* parallel.
GetBestHeight ==
    /\ pc = "bestHeight"
    /\ parHigh' = Len(remote)
    /\ IF parHigh' < startHeight
       THEN Fail("height") /\ UNCHANGED forkHeight
       ELSE /\ UNCHANGED <<isSync, err>>
            /\ IF parHigh' - startHeight > SyncChunk
               THEN pc' = "parallel" /\ forkHeight' = startHeight
               ELSE pc' = "spawn" /\ UNCHANGED forkHeight
    /\ UNCHANGED <<chainVars, dbVars, bestHeight, initial, remoteBest, startHeight,
                   startHash, lastRes, genVars>>

\* ConnectBlocksParallel: GetBlockHash(h), retried until it succeeds, and in the
\* end the block is connected; undo data only for the last Keep blocks.
ParallelBlock ==
    /\ pc = "parallel"
    /\ forkHeight <= parHigh
    /\ HashAt(forkHeight) # <<>>
    /\ local' = [local EXCEPT ![forkHeight] = HashAt(forkHeight)]
    /\ undo' = undo \union {g \in {forkHeight} : g + Keep > parHigh}
    /\ bestHeight' = forkHeight
    /\ forkHeight' = forkHeight + 1
    /\ UNCHANGED <<chainVars, isSync, initial, pc, remoteBest, startHeight, startHash,
                   parHigh, lastRes, err, genVars>>

\* After the parallel load resyncIndex is called again.
ParallelDone ==
    /\ pc = "parallel"
    /\ forkHeight > parHigh
    /\ pc' = "best"
    /\ UNCHANGED <<chainVars, dbVars, isVars, initial, remoteBest, startHeight,
                   startHash, forkHeight, parHigh, lastRes, err, genVars>>

-----------------------------------------------------------------------------
\* handleFork: one height of the search for the last common block.  Height 0 is
\* below the start height and has no hash in the index.
ForkSearch ==
    /\ pc = "fork"
    /\ IF forkHeight = 0 \/ local[forkHeight] \in {<<>>, HashAt(forkHeight)}
       THEN pc' = "disconnect" /\ UNCHANGED forkHeight
       ELSE forkHeight' = forkHeight - 1 /\ UNCHANGED pc
    /\ UNCHANGED <<chainVars, dbVars, isVars, initial, remoteBest, startHeight,
                   startHash, parHigh, lastRes, err, genVars>>

\* Mutant of Disconnect: the lowest block of the fork stays.
DisconnectOneLess ==
    /\ pc = "disconnect"
    /\ LET range == (forkHeight + 2) .. BestHeight
       IN  IF range \subseteq undo
           THEN /\ local' = [g \in Heights |-> IF g \in range THEN <<>> ELSE local[g]]
                /\ undo' = undo \ range
                /\ pc' = "best" /\ UNCHANGED <<isSync, err>>
           ELSE Fail("undo") /\ UNCHANGED dbVars
    /\ UNCHANGED <<chainVars, bestHeight, initial, remoteBest, startHeight, startHash,
                   forkHeight, parHigh, lastRes, genVars>>

\* handleFork: DisconnectBlocks(height+1, localBestHeight), then resyncIndex
\* again.  Without undo data for the whole range it is refused.
Disconnect ==
    /\ pc = "disconnect"
    /\ LET range == (forkHeight + 1) .. BestHeight
       IN  IF range \subseteq undo
           THEN /\ local' = [g \in Heights |-> IF g \in range THEN <<>> ELSE local[g]]
                /\ undo' = undo \ range
                /\ pc' = "best" /\ UNCHANGED <<isSync, err>>
           ELSE Fail("undo") /\ UNCHANGED dbVars
    /\ UNCHANGED <<chainVars, bestHeight, initial, remoteBest, startHeight, startHash,
                   forkHeight, parHigh, lastRes, genVars>>

-----------------------------------------------------------------------------
\* connectBlocks: go w.getBlockChain(bch, done).
Spawn ==
    /\ pc = "spawn"
    /\ lastRes' = <<>> /\ bch' = <<>>
    /\ gpc' = "get" /\ ghash' = startHash /\ gheight' = startHeight /\ gblock' = <<>>
    /\ pc' = "connect"
    /\ UNCHANGED <<chainVars, dbVars, isVars, initial, remoteBest, startHeight,
                   startHash, forkHeight, parHigh, err>>

\* getBlockChain: GetBlock with an empty hash first asks for the hash at the
\* height; ErrBlockNotFound ends the goroutine, which closes bch.
ProduceHash ==
    /\ gpc = "get" /\ ghash = <<>>
    /\ ghash' = HashAt(gheight)
    /\ gpc' = IF ghash' = <<>> THEN "exit" ELSE "get"
    /\ UNCHANGED <<chainVars, dbVars, isVars, syncVars, gheight, gblock, bch>>

\* getBlockChain: GetBlock by hash; block.Next is as of now.
ProduceBlock ==
    /\ gpc = "get" /\ ghash # <<>>
    /\ gblock' = ghash
    /\ ghash' = NextOf(ghash)
    /\ gheight' = gheight + 1
    /\ gpc' = "send"
    /\ UNCHANGED <<chainVars, dbVars, isVars, syncVars, bch>>

\* getBlockChain: out <- blockResult{block: block}
ProduceSend ==
    /\ gpc = "send"
    /\ Len(bch) < QueueSize
    /\ bch' = Append(bch, gblock)
    /\ gpc' = "get"
    /\ UNCHANGED <<chainVars, dbVars, isVars, syncVars, ghash, gheight, gblock>>

\* getBlockChain: any other error is sent and the goroutine returns.
ProduceError ==
    /\ mode.errors
    /\ gpc = "get" /\ Len(bch) < QueueSize
    /\ bch' = Append(bch, ErrMark)
    /\ gpc' = "exit"
    /\ UNCHANGED <<chainVars, dbVars, isVars, syncVars, ghash, gheight, gblock>>

\* connectBlocks: the next result is connected, or its error returned.
Consume ==
    /\ pc = "connect"
    /\ bch # <<>>
    /\ bch' = Tail(bch)
    /\ IF Head(bch) = ErrMark
       THEN Fail("rpc") /\ lastRes' = <<>> /\ UNCHANGED <<dbVars, bestHeight>>
       ELSE DbConnect(Head(bch)) /\ lastRes' = Head(bch) /\ UNCHANGED <<isSync, pc, err>>
    /\ UNCHANGED <<chainVars, initial, remoteBest, startHeight, startHash, forkHeight,
                   parHigh, gpc, ghash, gheight, gblock>>

\* connectBlocks returns nil, ResyncIndex calls FinishedSync.
Finish ==
    /\ pc = "connect"
    /\ bch = <<>> /\ gpc = "exit"
    /\ isSync' = TRUE /\ bestHeight' = BestHeight /\ err' = "none" /\ initial' = FALSE
    /\ pc' = "idle"
    /\ UNCHANGED <<chainVars, dbVars, remoteBest, startHeight, startHash, forkHeight,
                   parHigh, lastRes, genVars>>

\* A call to the backend fails in resyncIndex or handleFork.
RpcError ==
    /\ mode.errors
    /\ pc \in {"best", "compare", "startHash", "bestHeight", "fork"}
    /\ Fail("rpc")
    /\ UNCHANGED <<chainVars, dbVars, bestHeight, initial, remoteBest, startHeight,
                   startHash, forkHeight, parHigh, lastRes, genVars>>

\* connectBlocks during the initial synchronisation: the signal is taken, and
\* the height of lastRes.block is logged.
Interrupt ==
    /\ mode.errors
    /\ pc = "connect" /\ initial
    /\ pc' = IF lastRes = <<>> THEN "panic" ELSE "interrupted"
    /\ UNCHANGED <<chainVars, dbVars, isVars, initial, remoteBest, startHeight,
                   startHash, forkHeight, parHigh, lastRes, err, genVars>>

\* A new process after the program has ended, or was told to: the internal state
\* is stored and loaded again, IsSynchronized is reset, and the sync worker has
\* the configured start height.
Restart ==
    /\ mode.errors
    /\ pc \in {"exited", "panic", "interrupted", "idle"}
    /\ pc' = "idle" /\ initial' = TRUE /\ isSync' = FALSE /\ startHeight' = 1
    /\ startHash' = <<>> /\ lastRes' = <<>> /\ remoteBest' = <<>>
    /\ gpc' = "exit" /\ bch' = <<>>
    /\ UNCHANGED <<chainVars, dbVars, bestHeight, forkHeight, parHigh, err, ghash,
                   gheight, gblock>>

Sync ==
    \/ ResyncStart \/ GetBest \/ Synced \/ Compare \/ GetStartHash \/ GetBestHeight
    \/ ParallelBlock \/ ParallelDone \/ ForkSearch \/ Disconnect \/ Spawn
    \/ Consume \/ Finish

Produce == ProduceHash \/ ProduceBlock \/ ProduceSend

Next ==
    \/ Extend \/ Cut
    \/ Sync \/ Produce
    \/ ProduceError \/ RpcError \/ Interrupt \/ Restart

Spec == Init /\ [][Next]_vars

\* syncIndexLoop runs ResyncIndex again and again, and both goroutines go on.
FairSpec == Spec /\ WF_vars(Sync) /\ WF_vars(Produce)

-----------------------------------------------------------------------------
\* The types of the variables; the producer never holds more than its channel takes.
TypeOK ==
    /\ remote \in Hashes \ {<<>>} /\ longest \in Heights /\ changes \in 0 .. mode.changes
    /\ local \in [Heights -> Hashes] /\ undo \subseteq Heights
    /\ isSync \in BOOLEAN /\ bestHeight \in 0 .. MaxLen
    /\ initial \in BOOLEAN
    /\ pc \in {"idle", "best", "compare", "startHash", "bestHeight", "parallel", "fork",
              "disconnect", "spawn", "connect", "exited", "panic", "interrupted"}
    /\ remoteBest \in Hashes /\ startHash \in Hashes /\ lastRes \in Hashes
    /\ startHeight \in 1 .. (MaxLen + 1) /\ forkHeight \in 0 .. (MaxLen + 1)
    /\ parHigh \in 0 .. MaxLen
    /\ err \in {"none", "rpc", "undo", "height"}
    /\ gpc \in {"get", "send", "exit"}
    /\ ghash \in Hashes /\ gblock \in Hashes /\ gheight \in 0 .. (MaxLen + 1)
    /\ Len(bch) <= QueueSize

\* The index is one chain: every indexed block is the parent of the one above
\* it, and no height is missing.  The backend reorganises between resyncs only.
Linked ==
    ~mode.busy => \A g \in Heights \ {1} : local[g] # <<>> => local[g - 1] = SubSeq(local[g], 1, g - 1)

\* When the best block of the index is the best block of the backend, the
\* whole index is the backend's chain.
SameTipSameChain ==
    pc = "idle" /\ isSync /\ BestHash = HashAt(Len(remote)) =>
        \A g \in 1 .. BestHeight : local[g] = HashAt(g)

\* Undo data reaches as deep as the chain is ever cut: a fork can always be
\* disconnected.  The backend reorganises between resyncs only.
ForksCanBeUndone == mode.busy \/ err # "undo"

\* The height reported by the API after a finished resync is the height of the
\* best indexed block.
BestHeightRight == pc = "idle" /\ isSync => bestHeight = BestHeight

\* Once the backend's chain no longer changes, the best indexed block becomes
\* and stays the backend's best block, also after reorganisations during a resync.
TipConverges == ~mode.errors => <>[](BestHash = HashAt(Len(remote)))
=============================================================================
