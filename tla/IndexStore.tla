----------------------------- MODULE IndexStore -----------------------------
(***************************************************************************)
(* The database of db/rocksdb.go and db/bulkconnect.go with the state flag *)
(* DbState that guards it: what is on disk, what is only in memory, and    *)
(* what a crash between two writes leaves behind.                          *)
(*                                                                         *)
(* A write batch of RocksDB is atomic and, once written, survives the      *)
(* process; two batches are two steps.  The columns that accumulate        *)
(* (txAddresses and addressBalance for Bitcoin type coins,                 *)
(* addressContracts for Ethereum type ones) are abstracted to how often    *)
(* each block was applied to each key: a block left out, or applied twice, *)
(* shows as a count other than 0 or 1.                                     *)
(***************************************************************************)
EXTENDS Integers, FiniteSets, Sequences

CONSTANTS
    NColumns,          \* accumulating columns, in the order Close waits for them
    Keys,              \* their keys: txids, address descriptors
    Block,             \* blocks that may be offered
    HeightOf,          \* block.Height
    Touch,             \* Touch[c][b]: keys of column c that block b changes
    MaxCached,         \* maxBulkTxAddresses, maxBulkBalances, maxBulkAddrContracts
    Partial,           \* partialStoreAddresses, ... : size of a partial store
    MaxBulkAddresses,  \* maxBulkAddresses (one address per block)
    Keep,              \* KeepBlockAddresses()
    MaxCount,          \* bound: how often a block is applied to a key (more than
                       \* once only after a failed Close)
    NoRow,             \* a key that is not in a column or a cache
    WriteErrors        \* may a write in BulkConnect.Close fail?

Columns == 1 .. NColumns
Heights == {HeightOf[b] : b \in Block}
Counts  == [Block -> Nat]

\* What the constants must be.
IndexStoreConstants ==
    /\ NColumns \in Nat /\ Keep \in Nat /\ MaxBulkAddresses \in Nat /\ MaxCount \in Nat
    /\ IsFiniteSet(Keys) /\ IsFiniteSet(Block)
    /\ HeightOf \in [Block -> Nat \ {0}]
    /\ Touch \in [Columns -> [Block -> SUBSET Keys]]
    /\ MaxCached \in [Columns -> Nat] /\ Partial \in [Columns -> Nat \ {0}]
    /\ NoRow \notin Block /\ NoRow \notin Counts
    /\ WriteErrors \in BOOLEAN
ASSUME StoreAssumption == IndexStoreConstants

VARIABLES
    \* on disk
    dbState,   \* DbState in the stored internal state
    height,    \* column height: the block stored for each height
    addrRows,  \* column addresses: the blocks whose rows are stored
    col,       \* the accumulating columns
    undo,      \* column blockTxs: the block whose undo data is stored
    \* in memory
    pc,        \* "down", "idle", "connect", "bulk", "bulkwrite", "closing"
    phase,     \* "initial" or, once storeInternalStateLoop runs, "running"
    memState,  \* internalState.DbState
    packed,    \* storeInternalStateLoop: packed state not yet put, or "none"
    cache,     \* txAddressesMap, balances, addressContracts
    bulk,      \* blocks in bulkAddresses
    cur,       \* block being connected, NoRow if none
    lo, hi,    \* range of the last bulk session
    pend,      \* batch of each store goroutine, NoRow for a key not in it
    pendOn,    \* the goroutine of the column has not written its batch yet
    failed,    \* its write failed
    mainRows,  \* height and address rows in the writer's own batch
    mainUndo,  \* undo data in that batch
    mainOn,    \* that batch is not written yet
    lost       \* some Close returned an error and may not have stored its data

disk    == <<dbState, height, addrRows, col, undo>>
batches == <<pend, pendOn, failed, mainRows, mainUndo, mainOn>>
session == <<cache, bulk, cur, lo, hi, lost>>
vars    == <<disk, pc, phase, memState, packed, session, batches>>

NoBatch == [c \in Columns |-> [k \in Keys |-> NoRow]]

\* GetBestBlock: the last key of the column height.
Best ==
    LET known == {0} \union {g \in Heights : height[g] # NoRow}
    IN  CHOOSE g \in known : \A x \in known : g >= x

\* Everything the process loses when it ends.  lo goes on naming the part of
\* the chain that an interrupted session did not touch.
ProcessGone ==
    /\ pc' = "down" /\ phase' = "initial" /\ memState' = "closed" /\ packed' = "none"
    /\ cache' = NoBatch /\ bulk' = {} /\ cur' = NoRow /\ UNCHANGED hi
    /\ lo' = IF memState = "inconsistent" THEN lo ELSE Best + 1
    /\ pend' = NoBatch /\ pendOn' = [c \in Columns |-> FALSE]
    /\ failed' = [c \in Columns |-> FALSE]
    /\ mainRows' = {} /\ mainUndo' = NoRow /\ mainOn' = FALSE /\ UNCHANGED lost

\* An empty database: LoadInternalState makes a new state, which is Closed.
Init ==
    /\ dbState = "closed"
    /\ height = [g \in Heights |-> NoRow]
    /\ addrRows = {}
    /\ col = [c \in Columns |-> [k \in Keys |-> [b \in Block |-> 0]]]
    /\ undo = [g \in Heights |-> NoRow]
    /\ pc = "down" /\ phase = "initial" /\ memState = "closed" /\ packed = "none"
    /\ cache = NoBatch /\ bulk = {} /\ cur = NoRow /\ lo = 1 /\ hi = 0
    /\ pend = NoBatch /\ pendOn = [c \in Columns |-> FALSE]
    /\ failed = [c \in Columns |-> FALSE]
    /\ mainRows = {} /\ mainUndo = NoRow /\ mainOn = FALSE /\ lost = FALSE

-----------------------------------------------------------------------------
Cached(m, c) == {k \in Keys : m[c][k] # NoRow}

\* processAddressesBitcoinType, processAddressesEthereumType: every key the
\* block touches is read from the map, else from the database into the map,
\* and changed there.
Process(m, b) ==
    [c \in Columns |-> [k \in Keys |->
        IF k \in Touch[c][b]
        THEN LET v == IF m[c][k] = NoRow THEN col[c][k] ELSE m[c][k]
             IN  [v EXCEPT ![b] = @ + 1]
        ELSE m[c][k]]]

\* The bound MaxCount allows block b once more.
MayApply(b) == \A c \in Columns, k \in Keys : col[c][k][b] < MaxCount

\* storeTxAddresses, storeBalances, storeAddressContracts and the write of the
\* batch: the keys in the map m get their values.
Stored(m, c) == [k \in Keys |-> IF m[c][k] = NoRow THEN col[c][k] ELSE m[c][k]]

\* Mutant of Cleaned: one height too many is deleted.
CleanedTooFar(h) ==
    [g \in Heights |->
        IF /\ h > Keep /\ g <= h - Keep + 1
           /\ \A f \in g .. (h - Keep + 1) : f \in Heights /\ undo[f] # NoRow
        THEN NoRow ELSE undo[g]]

\* cleanupBlockTxs: undo data at h-keep and below is deleted, down to the first
\* height that has none.  The deletes are not part of the batch.
Cleaned(h) ==
    [g \in Heights |->
        IF /\ h > Keep /\ g <= h - Keep
           /\ \A f \in g .. (h - Keep) : f \in Heights /\ undo[f] # NoRow
        THEN NoRow ELSE undo[g]]

PutHeights(B) ==
    [g \in Heights |-> IF \E b \in B : HeightOf[b] = g
                       THEN CHOOSE b \in B : HeightOf[b] = g
                       ELSE height[g]]

-----------------------------------------------------------------------------
\* main: NewRocksDB, LoadInternalState, the check of DbState, and the store of
\* DbStateOpen.  An inconsistent database is refused.
Start ==
    /\ pc = "down"
    /\ dbState # "inconsistent"
    /\ dbState' = "open" /\ memState' = "open"
    /\ pc' = "idle"
    /\ UNCHANGED <<height, addrRows, col, undo, phase, packed, session, batches>>

\* The process dies: a kill, a panic, or glog.Fatal after a failed
\* BulkConnect.ConnectBlock.
Crash ==
    /\ pc # "down"
    /\ ProcessGone
    /\ UNCHANGED disk

\* main returns and its deferred index.Close() stores DbStateClosed, but only
\* over DbStateOpen.
Shutdown ==
    /\ pc = "idle"
    /\ dbState' = IF memState = "open" THEN "closed" ELSE dbState
    /\ ProcessGone
    /\ UNCHANGED <<height, addrRows, col, undo>>

\* main: go storeInternalStateLoop(), after the initial synchronisation.
LoopStart ==
    /\ pc = "idle" /\ phase = "initial"
    /\ phase' = "running"
    /\ UNCHANGED <<disk, pc, memState, packed, session, batches>>

\* storeInternalStateLoop: storeState packs the internal state ...
LoopPack ==
    /\ pc # "down" /\ phase = "running" /\ packed = "none"
    /\ packed' = memState
    /\ UNCHANGED <<disk, pc, phase, memState, session, batches>>

\* ... and puts what it packed.
LoopPut ==
    /\ packed # "none"
    /\ dbState' = packed
    /\ packed' = "none"
    /\ UNCHANGED <<height, addrRows, col, undo, pc, phase, memState, session, batches>>

-----------------------------------------------------------------------------
\* RocksDB.ConnectBlock, up to the write of its batch: the maps are filled and
\* old undo data is deleted.
ConnectBlock(b) ==
    /\ pc = "idle"
    /\ HeightOf[b] = Best + 1 /\ MayApply(b)
    /\ cur' = b
    /\ cache' = Process(NoBatch, b)
    /\ undo' = Cleaned(HeightOf[b])
    /\ pc' = "connect"
    /\ UNCHANGED <<dbState, height, addrRows, col, phase, memState, packed,
                   bulk, lo, hi, lost, batches>>

\* RocksDB.ConnectBlock: the write of the batch.  If it fails nothing of it is
\* stored and the error is returned.
ConnectWrite ==
    /\ pc = "connect"
    /\ \E ok \in BOOLEAN :
          IF ok
          THEN /\ height' = PutHeights({cur})
               /\ addrRows' = addrRows \union {cur}
               /\ col' = [c \in Columns |-> Stored(cache, c)]
               /\ undo' = [undo EXCEPT ![HeightOf[cur]] = cur]
          ELSE UNCHANGED <<height, addrRows, col, undo>>
    /\ cur' = NoRow /\ cache' = NoBatch
    /\ pc' = "idle"
    /\ UNCHANGED <<dbState, phase, memState, packed, bulk, lo, hi, lost, batches>>

\* DisconnectBlockRangeBitcoinType, DisconnectBlockRangeEthereumType, from
\* handleFork and performRollback: one batch; refused unless every block of
\* the range has undo data.  What is undone is what the undo data says.
DisconnectBlockRange(lower) ==
    /\ pc = "idle"
    /\ lower <= Best
    /\ \A g \in lower .. Best : undo[g] # NoRow
    /\ LET gone == {undo[g] : g \in lower .. Best}
           rest(c, k) == [b \in Block |->
                IF b \in gone /\ k \in Touch[c][b] /\ col[c][k][b] > 0
                THEN col[c][k][b] - 1 ELSE col[c][k][b]]
       IN  /\ addrRows' = addrRows \ gone
           /\ col' = [c \in Columns |-> [k \in Keys |-> rest(c, k)]]
    /\ height' = [g \in Heights |-> IF g \in lower .. Best THEN NoRow ELSE height[g]]
    /\ undo' = [g \in Heights |-> IF g \in lower .. Best THEN NoRow ELSE undo[g]]
    /\ UNCHANGED <<dbState, pc, phase, memState, packed, session, batches>>

-----------------------------------------------------------------------------
\* Mutant of InitBulkConnect: the inconsistent state is set but not stored.
InitBulkConnectNotStored(higher) ==
    /\ pc = "idle"
    /\ phase = "initial"
    /\ higher > Best
    /\ memState' = "inconsistent"
    /\ lo' = Best + 1 /\ hi' = higher
    /\ cur' = NoRow /\ cache' = NoBatch /\ bulk' = {} /\ UNCHANGED lost
    /\ pc' = "bulk"
    /\ UNCHANGED <<disk, phase, packed, batches>>

\* InitBulkConnect for the range Best+1 .. higher.  Bulk sessions belong to the
\* initial synchronisation, before storeInternalStateLoop starts (the one of
\* -blockfrom without -sync is left out).  A failing SetInconsistentState leads
\* to a panic, see Crash.
InitBulkConnect(higher) ==
    /\ pc = "idle"
    /\ phase = "initial"
    /\ higher > Best
    /\ memState' = "inconsistent" /\ dbState' = "inconsistent"
    /\ lo' = Best + 1 /\ hi' = higher
    /\ cur' = NoRow /\ cache' = NoBatch /\ bulk' = {} /\ UNCHANGED lost
    /\ pc' = "bulk"
    /\ UNCHANGED <<height, addrRows, col, undo, phase, packed, batches>>

\* Height of the last block of the session.
Last == IF cur = NoRow THEN lo - 1 ELSE HeightOf[cur]

\* A subset S of the keys in the map m that a partial store may take: all of
\* them or at least Partial[c] (txAddresses takes all completely spent
\* transactions, however many there are).
PartialStore(m, c) ==
    {S \in SUBSET Cached(m, c) : S = Cached(m, c) \/ Cardinality(S) >= Partial[c]}

\* BulkConnect.ConnectBlock: the block goes into the maps; if a map is too
\* large, goroutines take a part of it to store; the writer's own batch gets
\* the address and height rows collected so far and the undo data.  Goroutines
\* that a failed Close left behind are taken to have finished by then.
BulkConnectBlock(b) ==
    /\ pc = "bulk"
    /\ \A c \in Columns : ~pendOn[c]
    /\ HeightOf[b] = Last + 1 /\ HeightOf[b] <= hi /\ MayApply(b)
    /\ LET m      == Process(cache, b)
           size(c) == Cardinality(Cached(m, c))
           sa      == \E c \in Columns : size(c) > MaxCached[c]
           store   == {c \in Columns : sa /\ size(c) + Partial[c] > MaxCached[c]}
           rows    == sa \/ Cardinality(bulk) + 1 > MaxBulkAddresses
           storeBlockTxs == HeightOf[b] + Keep > hi
       IN  /\ \E part \in [store -> SUBSET Keys] :
                /\ \A c \in store : part[c] \in PartialStore(m, c)
                /\ pend' = [c \in Columns |-> [k \in Keys |->
                              IF c \in store /\ k \in part[c] THEN m[c][k] ELSE NoRow]]
                /\ cache' = [c \in Columns |-> [k \in Keys |->
                              IF c \in store /\ k \in part[c] THEN NoRow ELSE m[c][k]]]
           /\ pendOn' = [c \in Columns |-> c \in store]
           /\ bulk' = IF rows THEN {} ELSE bulk \union {b}
           /\ mainRows' = IF rows THEN bulk \union {b} ELSE {}
           /\ mainUndo' = IF storeBlockTxs THEN b ELSE NoRow
           /\ mainOn' = (rows \/ storeBlockTxs)
           /\ undo' = IF storeBlockTxs THEN Cleaned(HeightOf[b]) ELSE undo
    /\ cur' = b
    /\ failed' = [c \in Columns |-> FALSE]
    /\ pc' = "bulkwrite"
    /\ UNCHANGED <<dbState, height, addrRows, col, phase, memState, packed, lo, hi, lost>>

\* The writer's own batch is written.  A failure in ConnectBlock is fatal (see
\* Crash); in Close it is returned at once, the goroutines are left alone.
MainWrite ==
    /\ mainOn
    /\ \E ok \in (IF WriteErrors /\ pc = "closing" THEN BOOLEAN ELSE {TRUE}) :
          IF ok
          THEN /\ height' = PutHeights(mainRows)
               /\ addrRows' = addrRows \union mainRows
               /\ undo' = [g \in Heights |-> IF mainUndo # NoRow /\ g = HeightOf[mainUndo]
                                             THEN mainUndo ELSE undo[g]]
               /\ UNCHANGED <<pc, cur, lost>>
          ELSE /\ pc' = "idle" /\ cur' = NoRow /\ lost' = TRUE
               /\ UNCHANGED <<height, addrRows, undo>>
    /\ mainOn' = FALSE /\ mainRows' = {} /\ mainUndo' = NoRow
    /\ UNCHANGED <<dbState, col, phase, memState, packed, cache, bulk, lo, hi,
                   pend, pendOn, failed>>

\* A store goroutine writes its batch: parallelStoreTxAddresses,
\* parallelStoreBalances, parallelStoreAddressContracts.
PendWrite(c) ==
    /\ pendOn[c]
    /\ \E ok \in (IF WriteErrors /\ pc = "closing" THEN BOOLEAN ELSE {TRUE}) :
          /\ col' = [col EXCEPT ![c] = IF ok THEN Stored(pend, c) ELSE @]
          /\ failed' = [failed EXCEPT ![c] = ~ok]
    /\ pend' = [pend EXCEPT ![c] = [k \in Keys |-> NoRow]]
    /\ pendOn' = [pendOn EXCEPT ![c] = FALSE]
    /\ UNCHANGED <<dbState, height, addrRows, undo, pc, phase, memState, packed, session,
                   mainRows, mainUndo, mainOn>>

\* BulkConnect.ConnectBlock returns after all its batches were written.
BulkWritten ==
    /\ pc = "bulkwrite"
    /\ ~mainOn /\ \A c \in Columns : ~pendOn[c]
    /\ pc' = "bulk"
    /\ UNCHANGED <<disk, phase, memState, packed, session, batches>>

\* BulkConnect.Close: goroutines store all that is left in the maps, the
\* writer stores the remaining address and height rows.  It is called at the
\* end of the range and after an interruption.
Close ==
    /\ pc = "bulk"
    /\ \A c \in Columns : ~pendOn[c]
    /\ pend' = cache /\ cache' = NoBatch
    /\ pendOn' = [c \in Columns |-> TRUE]
    /\ failed' = [c \in Columns |-> FALSE]
    /\ mainRows' = bulk /\ mainUndo' = NoRow /\ mainOn' = TRUE
    /\ bulk' = {}
    /\ pc' = "closing"
    /\ UNCHANGED <<disk, phase, memState, packed, cur, lo, hi, lost>>

\* Close reads the channels of the goroutines in order and returns the first
\* error, which ConnectBlocksParallel only logs.
CloseFails(c) ==
    /\ pc = "closing"
    /\ ~mainOn /\ ~pendOn[c] /\ failed[c]
    /\ \A d \in Columns : d < c => ~pendOn[d] /\ ~failed[d]
    /\ lost' = TRUE
    /\ cur' = NoRow
    /\ pc' = "idle"
    /\ UNCHANGED <<disk, phase, memState, packed, cache, bulk, lo, hi, batches>>

\* Mutant of CloseDone: the goroutines are not waited for.
CloseDoneEarly ==
    /\ pc = "closing"
    /\ ~mainOn
    /\ memState' = "open" /\ dbState' = "open"
    /\ cur' = NoRow
    /\ pc' = "idle"
    /\ UNCHANGED <<height, addrRows, col, undo, phase, packed, cache, bulk, lo, hi,
                   lost, batches>>

\* Close: everything is stored, SetInconsistentState(false), whose write may
\* fail as well.
CloseDone ==
    /\ pc = "closing"
    /\ ~mainOn /\ \A c \in Columns : ~pendOn[c] /\ ~failed[c]
    /\ memState' = "open"
    /\ dbState' \in {"open"} \union (IF WriteErrors THEN {dbState} ELSE {})
    /\ cur' = NoRow
    /\ pc' = "idle"
    /\ UNCHANGED <<height, addrRows, col, undo, phase, packed, cache, bulk, lo, hi,
                   lost, batches>>

-----------------------------------------------------------------------------
\* An inconsistent database is refused at every start; it must be recreated.
Refused ==
    /\ pc = "down" /\ dbState = "inconsistent"
    /\ UNCHANGED vars

Next ==
    \/ Start \/ Crash \/ Shutdown \/ Refused
    \/ LoopStart \/ LoopPack \/ LoopPut
    \/ \E b \in Block : ConnectBlock(b)
    \/ ConnectWrite
    \/ \E lower \in Heights : DisconnectBlockRange(lower)
    \/ \E higher \in Heights : InitBulkConnect(higher)
    \/ \E b \in Block : BulkConnectBlock(b)
    \/ MainWrite \/ \E c \in Columns : PendWrite(c)
    \/ BulkWritten
    \/ Close \/ \E c \in Columns : CloseFails(c)
    \/ CloseDone

Spec == Init /\ [][Next]_vars

-----------------------------------------------------------------------------
Batch == [Columns -> [Keys -> Counts \union {NoRow}]]
Rows  == [Heights -> Block \union {NoRow}]

TypeOK ==
    /\ dbState \in {"closed", "open", "inconsistent"}
    /\ height \in Rows /\ undo \in Rows /\ addrRows \subseteq Block
    /\ col \in [Columns -> [Keys -> Counts]]
    /\ pc \in {"down", "idle", "connect", "bulk", "bulkwrite", "closing"}
    /\ phase \in {"initial", "running"}
    /\ memState \in {"closed", "open", "inconsistent"}
    /\ packed \in {"none", "closed", "open", "inconsistent"}
    /\ cache \in Batch /\ pend \in Batch
    /\ bulk \subseteq Block /\ mainRows \subseteq Block
    /\ cur \in Block \union {NoRow} /\ mainUndo \in Block \union {NoRow}
    /\ lo \in Nat /\ hi \in Nat
    /\ pendOn \in [Columns -> BOOLEAN] /\ failed \in [Columns -> BOOLEAN]
    /\ mainOn \in BOOLEAN /\ lost \in BOOLEAN

\* A start accepts the database, or the process takes it for open although the
\* switch could not be stored; and no Close has lost data.
usable == (dbState # "inconsistent" \/ memState = "open") /\ ~lost

\* The blocks the column height says are indexed.
Indexed == {height[g] : g \in Heights} \ {NoRow}

\* What an accumulating column must hold for a set of indexed blocks.
Expected(B, c, k) == [b \in Block |-> IF b \in B /\ k \in Touch[c][b] THEN 1 ELSE 0]

\* The database is exactly the index of the blocks in its column height:
\* heights without a gap, all their address rows and no others, every block
\* applied once to every key it touches, and undo data of no other block.
Exact ==
    /\ \A g \in Heights : height[g] # NoRow => HeightOf[height[g]] = g
    /\ \A g \in 1 .. Best : g \in Heights /\ height[g] # NoRow
    /\ addrRows = Indexed
    /\ \A c \in Columns, k \in Keys : col[c][k] = Expected(Indexed, c, k)
    /\ \A g \in Heights : undo[g] # NoRow => undo[g] = height[g]

\* A database that is in use or that a start would accept is exact, whichever write the process
\* died after, unless some Close lost data.
DiskConsistent == usable => Exact

\* The same also after a Close that failed: what a start accepts is exact.
AcceptedIsExact == dbState # "inconsistent" => Exact

\* Connecting a block never removes undo data of the newest Keep-1 blocks,
\* even if the write of the block fails or the process dies before it.
CleanupKeepsNewest ==
    [][\A g \in Heights :
          undo[g] # NoRow /\ undo'[g] = NoRow /\ height'[g] # NoRow
              => g + Keep <= Best + 1 \/ dbState = "inconsistent"]_vars

-----------------------------------------------------------------------------
\* The inductive invariant behind DiskConsistent.

\* What the process knows of column c: the maps, else the batch a goroutine is
\* about to write, else the disk.
Merged(c, k) == IF cache[c][k] # NoRow THEN cache[c][k]
                ELSE IF pend[c][k] # NoRow THEN pend[c][k] ELSE col[c][k]

\* Blocks of the session whose height and address rows are not on disk yet.
Held == bulk \union mainRows

\* A bulk session is marked on disk, and the internal state is only packed
\* when none is running.
SessionMarked ==
    /\ pc \in {"bulk", "bulkwrite", "closing"} =>
          dbState = "inconsistent" /\ memState = "inconsistent" /\ phase = "initial"
    /\ packed # "none" => phase = "running"

\* DbState in memory follows what the process is doing, unless a Close failed.
Modes ==
    /\ pc = "down" => memState = "closed"
    /\ pc \in {"idle", "connect"} => memState = "open"
    /\ packed # "none" => packed = "open" /\ memState = "open"

\* Batches wait to be written only between the steps of a bulk session.
BatchesInSession ==
    /\ mainOn \/ (\E c \in Columns : pendOn[c]) => pc \in {"bulkwrite", "closing"}
    /\ \A c \in Columns : failed[c] => pc = "closing" /\ ~pendOn[c]
    /\ \A c \in Columns, k \in Keys : ~pendOn[c] => pend[c][k] = NoRow
    /\ ~mainOn => mainRows = {} /\ mainUndo = NoRow
    /\ mainRows # {} => bulk = {}
    /\ pc = "closing" => bulk = {} /\ cache = NoBatch

\* Where a block of a bulk session is: in the column height, or held, and the
\* held blocks are those from the first height without a row to the last one
\* connected.  What the process knows of the columns is the index of both.
SessionExact ==
    /\ \A g \in Heights : height[g] # NoRow => HeightOf[height[g]] = g
    /\ \A g \in 1 .. Best : g \in Heights /\ height[g] # NoRow
    /\ addrRows = Indexed
    /\ lo \in 1 .. (Best + 1) /\ Best <= Last
    /\ \A b \in Held : Best < HeightOf[b] /\ HeightOf[b] <= Last
    /\ \A b, d \in Held : HeightOf[b] = HeightOf[d] => b = d
    /\ \A g \in (Best + 1) .. Last : \E b \in Held : HeightOf[b] = g
    /\ \A c \in Columns, k \in Keys :
          ~failed[c] => Merged(c, k) = Expected(Indexed \union Held, c, k)
    /\ \A g \in Heights : undo[g] # NoRow =>
          undo[g] = height[g] \/ (undo[g] \in Held /\ HeightOf[undo[g]] = g)
    /\ mainUndo # NoRow => mainUndo \in Held

\* A block whose batch RocksDB.ConnectBlock is about to write.
ConnectReady ==
    /\ HeightOf[cur] = Best + 1
    /\ cache = Process(NoBatch, cur)

StoreInv ==
    /\ TypeOK /\ SessionMarked
    /\ pc = "connect" => cur \in Block
    /\ ~lost =>
          /\ Modes /\ BatchesInSession
          /\ pc \in {"idle", "connect"} \/ (pc = "down" /\ dbState # "inconsistent") => Exact
          /\ pc = "connect" => ConnectReady
          /\ pc \in {"bulk", "bulkwrite", "closing"} => SessionExact

-----------------------------------------------------------------------------
\* What the database promises: see Index.  During a bulk session the chain is
\* the part below it.
status == CASE lost -> "lost" [] usable -> "usable" [] OTHER -> "loading"
chain  == [g \in 1 .. (IF lost THEN 0 ELSE IF usable THEN Best ELSE lo - 1) |-> height[g]]

Promise == INSTANCE Index
    WITH content <- IF usable THEN [rows |-> addrRows, col |-> col] ELSE NoRow

\* The database, crashes included, implements the index that Index promises.
Implements == Promise!Spec
=============================================================================
