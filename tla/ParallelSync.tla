---------------------------- MODULE ParallelSync ----------------------------
(***************************************************************************)
(* SyncWorker.ConnectBlocksParallel (db/sync.go): the initial load of the  *)
(* blocks Lower..Higher.                                                   *)
(*                                                                         *)
(*   main    asks the backend for the hash of each height and puts         *)
(*           (hash, height) into hch, a channel of capacity SyncWorkers;   *)
(*   worker  getBlockWorker(i): takes a height from hch, fetches the       *)
(*           block, retrying on errors, and offers it on                   *)
(*           bch[height % SyncWorkers], an unbuffered channel;             *)
(*   writer  writeBlockWorker: receives from bch[(lastBlock+1) %           *)
(*           SyncWorkers] and connects the block in bulk mode.             *)
(*                                                                         *)
(* An OS signal closes the channel terminating.  A block is its height:    *)
(* what the backend answers for a height is the business of ResyncIndex.   *)
(***************************************************************************)
EXTENDS Integers, Sequences, FiniteSets

CONSTANTS
    SyncWorkers,  \* w.syncWorkers
    Lower,        \* first height to connect
    Higher,       \* last height to connect
    Keep          \* KeepBlockAddresses(): number of blocks with undo data

ASSUME ParallelSyncAssumption ==
    /\ SyncWorkers \in Nat \ {0}
    /\ Lower \in Nat
    /\ Higher \in Nat
    /\ Lower <= Higher
    /\ Keep \in Nat

Workers == 0 .. (SyncWorkers - 1)

NoBlock == -1   \* a worker, or the writer, that has no block in hand

VARIABLES
    dryRun,       \* w.dryRun
    signal,       \* chanOsSignal: "none", "pending" or "taken"
    mpc,          \* where main is
    h,            \* main's loop variable
    err,          \* the error ConnectBlocksParallel is going to return
    hch,          \* content of hch
    hchOpen,      \* close(hch) not yet called
    hchClosed,    \* the atomic flag hchClosed
    terminating,  \* the channel terminating is closed
    bchOpen,      \* the channels bch[i] are not yet closed
    wpc,          \* where each worker is
    wh,           \* height each worker took from hch and did not deliver
    vpc,          \* where the writer is
    vb,           \* block the writer received and did not connect yet
    bc,           \* the writer's *BulkConnect: "none", "open", "nil", "closed"
    lastBlock,    \* the writer's lastBlock
    blockTxs,     \* heights stored with undo data
    died          \* how the process died: "no", "skipped", "store", "panic"

mainVars   == <<mpc, h, err>>
chanVars   == <<hch, hchOpen, hchClosed, terminating, bchOpen>>
workerVars == <<wpc, wh>>
writerVars == <<vpc, vb, bc, lastBlock, blockTxs>>
vars == <<dryRun, signal, mainVars, chanVars, workerVars, writerVars, died>>

\* lastBlock starts at lower-1; for lower = 0 the code's uint32 wraps, and
\* lastBlock+1 wraps back to 0, which -1 stands for here.
Init ==
    /\ dryRun \in BOOLEAN
    /\ signal = "none"
    /\ mpc = "loop" /\ h = Lower /\ err = "nil"
    /\ hch = <<>> /\ hchOpen = TRUE /\ hchClosed = FALSE
    /\ terminating = FALSE /\ bchOpen = TRUE
    /\ wpc = [i \in Workers |-> "recv"]
    /\ wh = [i \in Workers |-> NoBlock]
    /\ vpc = "init" /\ vb = NoBlock /\ bc = "none"
    /\ lastBlock = Lower - 1 /\ blockTxs = {}
    /\ died = "no"

\* glog.Fatal and a panic end the process.
Alive == died = "no"

-----------------------------------------------------------------------------
\* The operating system delivers a signal to the process, once.
OsSignal ==
    /\ Alive
    /\ signal = "none"
    /\ mpc # "done"
    /\ signal' = "pending"
    /\ UNCHANGED <<dryRun, mainVars, chanVars, workerVars, writerVars, died>>

-----------------------------------------------------------------------------
\* main: the select of the loop finds the signal: terminating is closed and
\* the loop is left.
MainInterrupted ==
    /\ Alive
    /\ mpc = "loop" /\ h <= Higher
    /\ signal = "pending"
    /\ signal' = "taken"
    /\ err' = "interrupted"
    /\ terminating' = TRUE
    /\ mpc' = "close"
    /\ UNCHANGED <<dryRun, h, hch, hchOpen, hchClosed, bchOpen, workerVars,
                   writerVars, died>>

\* Mutant of MainGetBlockHash: a height whose hash cannot be read is skipped.
MainGetBlockHashSkips ==
    /\ Alive
    /\ mpc = "loop" /\ h <= Higher
    /\ signal # "pending"
    /\ \/ mpc' = "send" /\ err' = "nil" /\ h' = h
       \/ mpc' = "loop" /\ err' = "backend" /\ h' = h + 1
    /\ UNCHANGED <<dryRun, signal, chanVars, workerVars, writerVars, died>>

\* main: default case of the select, taken when no signal waits.  A failing
\* GetBlockHash leaves err set until the next call succeeds.
MainGetBlockHash ==
    /\ Alive
    /\ mpc = "loop" /\ h <= Higher
    /\ signal # "pending"
    /\ \/ mpc' = "send" /\ err' = "nil"
       \/ mpc' = "loop" /\ err' = "backend"
    /\ UNCHANGED <<dryRun, signal, h, chanVars, workerVars, writerVars, died>>

\* main: hch <- hashHeight{hash, h}; blocks while hch is full, whatever else
\* happens (the signal is not watched here).
MainSend ==
    /\ Alive
    /\ mpc = "send"
    /\ Len(hch) < SyncWorkers
    /\ hch' = Append(hch, h)
    /\ h' = h + 1
    /\ mpc' = "loop"
    /\ UNCHANGED <<dryRun, signal, err, hchOpen, hchClosed, terminating, bchOpen,
                   workerVars, writerVars, died>>

\* main: the loop condition h <= higher fails, or the loop was left: close(hch).
MainCloseHch ==
    /\ Alive
    /\ \/ mpc = "close"
       \/ mpc = "loop" /\ h > Higher
    /\ hchOpen' = FALSE
    /\ mpc' = "flag"
    /\ UNCHANGED <<dryRun, signal, h, err, hch, hchClosed, terminating, bchOpen,
                   workerVars, writerVars, died>>

\* main: hchClosed.Store(true)
MainSetClosed ==
    /\ Alive
    /\ mpc = "flag"
    /\ hchClosed' = TRUE
    /\ mpc' = "wait"
    /\ UNCHANGED <<dryRun, signal, h, err, hch, hchOpen, terminating, bchOpen,
                   workerVars, writerVars, died>>

\* main: wg.Wait() returns when every worker exited; then all bch are closed.
MainWaitWorkers ==
    /\ Alive
    /\ mpc = "wait"
    /\ \A i \in Workers : wpc[i] = "exit"
    /\ bchOpen' = FALSE
    /\ mpc' = "waitWriter"
    /\ UNCHANGED <<dryRun, signal, h, err, hch, hchOpen, hchClosed, terminating,
                   workerVars, writerVars, died>>

\* main: <-writeBlockDone; return err
MainReturn ==
    /\ Alive
    /\ mpc = "waitWriter"
    /\ vpc = "exit"
    /\ mpc' = "done"
    /\ UNCHANGED <<dryRun, signal, h, err, chanVars, workerVars, writerVars, died>>

Main ==
    \/ MainInterrupted \/ MainGetBlockHash \/ MainSend \/ MainCloseHch
    \/ MainSetClosed \/ MainWaitWorkers \/ MainReturn

-----------------------------------------------------------------------------
\* worker i: for hh := range hch, taking an element.
WorkerTake(i) ==
    /\ Alive
    /\ wpc[i] = "recv"
    /\ hch # <<>>
    /\ wh' = [wh EXCEPT ![i] = Head(hch)]
    /\ hch' = Tail(hch)
    /\ wpc' = [wpc EXCEPT ![i] = "get"]
    /\ UNCHANGED <<dryRun, signal, mainVars, hchOpen, hchClosed, terminating,
                   bchOpen, writerVars, died>>

\* worker i: the range ends, hch is closed and empty.
WorkerFinish(i) ==
    /\ Alive
    /\ wpc[i] = "recv"
    /\ hch = <<>> /\ ~hchOpen
    /\ wpc' = [wpc EXCEPT ![i] = "exit"]
    /\ UNCHANGED <<dryRun, signal, mainVars, chanVars, wh, writerVars, died>>

\* worker i: GetBlock succeeds; in a dry run the block is thrown away.
WorkerGetBlock(i) ==
    /\ Alive
    /\ wpc[i] = "get"
    /\ IF dryRun
       THEN /\ wpc' = [wpc EXCEPT ![i] = "recv"]
            /\ wh' = [wh EXCEPT ![i] = NoBlock]
       ELSE /\ wpc' = [wpc EXCEPT ![i] = "send"]
            /\ UNCHANGED wh
    /\ UNCHANGED <<dryRun, signal, mainVars, chanVars, writerVars, died>>

\* worker i: GetBlock fails.  Before hchClosed is set the worker sleeps and
\* tries again (no change of state); afterwards it gives up, and the block it
\* took is never delivered.
WorkerGiveUp(i) ==
    /\ Alive
    /\ wpc[i] = "get"
    /\ hchClosed
    /\ wpc' = [wpc EXCEPT ![i] = "exit"]
    /\ UNCHANGED <<dryRun, signal, mainVars, chanVars, wh, writerVars, died>>

\* Mutant of Deliver: one channel is shared by all workers.
DeliverShared(i) ==
    /\ Alive
    /\ wpc[i] = "send"
    /\ vpc = "loop"
    /\ vb' = wh[i]
    /\ vpc' = "connect"
    /\ wh' = [wh EXCEPT ![i] = NoBlock]
    /\ wpc' = [wpc EXCEPT ![i] = "recv"]
    /\ UNCHANGED <<dryRun, signal, mainVars, chanVars, bc, lastBlock, blockTxs, died>>

\* worker i and the writer: the rendezvous on bch[height % syncWorkers].
Deliver(i) ==
    /\ Alive
    /\ wpc[i] = "send"
    /\ vpc = "loop"
    /\ wh[i] % SyncWorkers = (lastBlock + 1) % SyncWorkers
    /\ vb' = wh[i]
    /\ vpc' = "connect"
    /\ wh' = [wh EXCEPT ![i] = NoBlock]
    /\ wpc' = [wpc EXCEPT ![i] = "recv"]
    /\ UNCHANGED <<dryRun, signal, mainVars, chanVars, bc, lastBlock, blockTxs, died>>

\* Mutant of WorkerTerminated: the worker waits for bch to be closed instead.
WorkerWaitsForClose(i) ==
    /\ Alive
    /\ wpc[i] = "send"
    /\ ~bchOpen
    /\ wpc' = [wpc EXCEPT ![i] = "exit"]
    /\ UNCHANGED <<dryRun, signal, mainVars, chanVars, wh, writerVars, died>>

\* worker i: the other case of its select, terminating is closed.
WorkerTerminated(i) ==
    /\ Alive
    /\ wpc[i] = "send"
    /\ terminating
    /\ wpc' = [wpc EXCEPT ![i] = "exit"]
    /\ UNCHANGED <<dryRun, signal, mainVars, chanVars, wh, writerVars, died>>

Worker(i) ==
    \/ WorkerTake(i) \/ WorkerFinish(i) \/ WorkerGetBlock(i) \/ WorkerGiveUp(i)
    \/ Deliver(i) \/ WorkerTerminated(i)

-----------------------------------------------------------------------------
\* writer: InitBulkConnect; its error is logged and bc is nil.
WriterInit ==
    /\ Alive
    /\ vpc = "init"
    /\ bc' \in {"open", "nil"}
    /\ vpc' = "loop"
    /\ UNCHANGED <<dryRun, signal, mainVars, chanVars, workerVars, vb, lastBlock,
                   blockTxs, died>>

\* Mutant of WriterConnect: undo data start one block late.
WriterConnectKeepsLess ==
    /\ Alive
    /\ vpc = "connect"
    /\ died' \in (IF vb # lastBlock + 1 THEN {"skipped"}
                 ELSE IF bc = "nil" THEN {"panic"} ELSE {"no", "store"})
    /\ IF died' = "no"
       THEN /\ lastBlock' = vb
            /\ blockTxs' = blockTxs \union {b \in {vb} : b + Keep > Higher + 1}
            /\ vpc' = "loop"
            /\ vb' = NoBlock
            /\ UNCHANGED bc
       ELSE UNCHANGED writerVars
    /\ UNCHANGED <<dryRun, signal, mainVars, chanVars, workerVars>>

\* writer: the received block is checked and connected; a wrong height and a
\* failed ConnectBlock are fatal, a nil bc panics.
WriterConnect ==
    /\ Alive
    /\ vpc = "connect"
    /\ died' \in (IF vb # lastBlock + 1 THEN {"skipped"}
                 ELSE IF bc = "nil" THEN {"panic"} ELSE {"no", "store"})
    /\ IF died' = "no"
       THEN /\ lastBlock' = vb
            /\ blockTxs' = blockTxs \union {b \in {vb} : b + Keep > Higher}
            /\ vpc' = "loop"
            /\ vb' = NoBlock
            /\ UNCHANGED bc
       ELSE UNCHANGED writerVars
    /\ UNCHANGED <<dryRun, signal, mainVars, chanVars, workerVars>>

\* writer: the loop ends because its channel is closed (b == nil) or because
\* terminating is closed.
WriterLeaveLoop ==
    /\ Alive
    /\ vpc = "loop"
    /\ ~bchOpen \/ terminating
    /\ vpc' = "close"
    /\ UNCHANGED <<dryRun, signal, mainVars, chanVars, workerVars, vb, bc, lastBlock,
                   blockTxs, died>>

\* writer: bc.Close(), whose error is only logged, then writeBlockDone is
\* closed.  Close on a nil bc panics.
WriterClose ==
    /\ Alive
    /\ vpc = "close"
    /\ IF bc = "nil"
       THEN died' = "panic" /\ UNCHANGED <<vpc, bc>>
       ELSE bc' = "closed" /\ vpc' = "exit" /\ UNCHANGED died
    /\ UNCHANGED <<dryRun, signal, mainVars, chanVars, workerVars, vb, lastBlock, blockTxs>>

Writer == WriterInit \/ WriterConnect \/ WriterLeaveLoop \/ WriterClose

-----------------------------------------------------------------------------
\* ConnectBlocksParallel has returned, or the process is gone.
Finished ==
    /\ mpc = "done" \/ ~Alive
    /\ UNCHANGED vars

Next ==
    \/ OsSignal
    \/ Main
    \/ \E i \in Workers : Worker(i)
    \/ Writer
    \/ Finished

Spec == Init /\ [][Next]_vars

\* Every goroutine that can move does so eventually, and a backend that is
\* asked again and again answers in the end.
FairSpec ==
    /\ Spec
    /\ WF_vars(Main)
    /\ WF_vars(Writer)
    /\ \A i \in Workers : WF_vars(Worker(i))

-----------------------------------------------------------------------------
\* The types of the variables; goroutines and channels are in their states.
TypeOK ==
    /\ dryRun \in BOOLEAN
    /\ signal \in {"none", "pending", "taken"}
    /\ mpc \in {"loop", "send", "close", "flag", "wait", "waitWriter", "done"}
    /\ h \in Lower .. (Higher + 1)
    /\ err \in {"nil", "backend", "interrupted"}
    /\ hch \in Seq(Lower .. Higher)
    /\ Len(hch) <= SyncWorkers
    /\ hchOpen \in BOOLEAN /\ hchClosed \in BOOLEAN
    /\ terminating \in BOOLEAN /\ bchOpen \in BOOLEAN
    /\ wpc \in [Workers -> {"recv", "get", "send", "exit"}]
    /\ wh \in [Workers -> (Lower .. Higher) \union {NoBlock}]
    /\ vpc \in {"init", "loop", "connect", "close", "exit"}
    /\ vb \in (Lower .. Higher) \union {NoBlock}
    /\ bc \in {"none", "open", "nil", "closed"}
    /\ lastBlock \in (Lower - 1) .. Higher
    /\ blockTxs \subseteq Lower .. Higher
    /\ died \in {"no", "skipped", "store", "panic"}

\* The first height that is still in hch or not yet in it.
Untaken == h - Len(hch)

\* Heights some worker took and did not deliver; a worker that exited with a
\* block in hand keeps it.
InHand == {wh[i] : i \in Workers} \ {NoBlock}

\* The writer never meets glog.Fatal("writeBlockWorker skipped block"): with
\* SyncWorkers workers and channels indexed by height % SyncWorkers, the block
\* received from bch[(lastBlock+1) % SyncWorkers] is the next one, however the
\* workers interleave, fail, give up or are terminated.
NoSkippedBlock == died # "skipped"

\* hch holds consecutive heights, the last one h-1.
HchInOrder == \A k \in 1 .. Len(hch) : hch[k] = Untaken + k - 1

\* No height is in the hands of two workers.
HeldOnce == \A i, j \in Workers : wh[i] # NoBlock /\ wh[i] = wh[j] => i = j

\* Every height that left hch is connected, at the writer, or in the hands of
\* exactly one worker; hch holds the following heights in order.  Nothing is
\* lost or duplicated by retries, by workers that give up or by termination.
BlocksAccountedFor ==
    /\ HchInOrder
    /\ HeldOnce
    /\ ~dryRun => (lastBlock + 1) .. (Untaken - 1) =
                     InHand \union (IF vpc = "connect" THEN {vb} ELSE {})

\* What BlocksAccountedFor needs to be inductive: where each goroutine stands
\* says whether it has a block, and what the writer has is the next block.
Positions ==
    /\ mpc = "send" => h <= Higher
    /\ lastBlock < Untaken
    /\ \A i \in Workers :
          /\ wpc[i] \in {"get", "send"} => wh[i] # NoBlock
          /\ wpc[i] = "recv" => wh[i] = NoBlock
          /\ wh[i] # NoBlock => lastBlock < wh[i] /\ wh[i] < Untaken
    /\ vpc = "connect" => vb = lastBlock + 1 /\ vb < Untaken /\ vb \notin InHand
    /\ dryRun => vpc # "connect" /\ \A i \in Workers : wpc[i] # "send"

IInv == TypeOK /\ NoSkippedBlock /\ BlocksAccountedFor /\ Positions

\* No goroutine is about to send on a channel that main has closed (a panic in
\* Go): hch is closed by its only sender, bch after the last worker exited.
NoSendOnClosed ==
    /\ ~hchOpen => mpc # "send"
    /\ ~bchOpen => \A i \in Workers : wpc[i] # "send"

\* When ConnectBlocksParallel returns, no goroutine of it is left and the bulk
\* connection is closed: the caller goes on to use the database.
QuietOnReturn ==
    mpc = "done" => bc = "closed" /\ \A i \in Workers : wpc[i] = "exit"

\* A worker gave its block up although no signal was taken: GetBlock failed
\* after the main loop had set hchClosed.
Dropped == ~terminating /\ \E i \in Workers : wpc[i] = "exit" /\ wh[i] # NoBlock

\* A nil error means that the whole range was connected (the caller's tests
\* demand that the best block is Higher).
CompleteOnSuccess ==
    mpc = "done" /\ err = "nil" /\ ~dryRun => lastBlock = Higher

\* The same for a load in which no worker dropped its block.
CompleteUnlessDropped == ~Dropped => CompleteOnSuccess

\* After ConnectBlocksParallel returned, the newest Keep of the blocks it
\* connected have their undo data in the column blockTxs.
UndoDataKept ==
    mpc = "done" =>
        \A g \in Lower .. lastBlock : g + Keep > lastBlock => g \in blockTxs

\* The same for a load that was not interrupted and dropped no block.
UndoDataKeptOnSuccess ==
    err = "nil" /\ ~Dropped => UndoDataKept

\* What the properties of the end of a load need to be inductive, next to IInv: the
\* order in which main closes and waits, which workers may have ended, and that the
\* blocks connected so far have the undo data of the end of the range.
Phases ==
    /\ hchOpen <=> mpc \in {"loop", "send", "close"}
    /\ bchOpen <=> mpc \notin {"waitWriter", "done"}
    /\ mpc = "close" => terminating
    /\ terminating => err = "interrupted" /\ mpc \notin {"loop", "send"}
    /\ mpc \in {"flag", "wait", "waitWriter", "done"} /\ ~terminating => h = Higher + 1
    /\ ~bchOpen => \A i \in Workers : wpc[i] = "exit"
    /\ vpc = "exit" => bc = "closed"
    /\ mpc = "done" => vpc = "exit"

EndInv ==
    /\ Phases
    /\ \A i \in Workers : wpc[i] = "exit" /\ wh[i] = NoBlock => hch = <<>> /\ ~hchOpen
    /\ dryRun => lastBlock = Lower - 1
    /\ \A g \in Lower .. lastBlock : g + Keep > Higher => g \in blockTxs

\* ConnectBlocksParallel returns or the process dies, unless a worker dropped
\* its block: then the others may wait for their turn for ever.
Termination == <>(mpc = "done" \/ ~Alive \/ Dropped)

\* What the caller may rely on at the end of a load: nothing was sent on a closed
\* channel and, when ConnectBlocksParallel returns, no goroutine of it is left; if it
\* returns nil and no worker dropped its block, the range is complete and the newest
\* blocks of it can be disconnected.
EndPromise ==
    NoSendOnClosed /\ QuietOnReturn /\ CompleteUnlessDropped /\ UndoDataKeptOnSuccess
=============================================================================
