------------------------------- MODULE Process -------------------------------
(***************************************************************************)
(* The Blockbook process (blockbook.go, mainWithExitCode): it connects to  *)
(* the backend, opens the index, does one of its one-off jobs and quits,   *)
(* or starts the servers, synchronizes, enables the full public interface  *)
(* and waits for a signal.  Then it is started again.  Its loops are those *)
(* of SyncLoops, seen from outside; the initial synchronization is that of *)
(* ParallelSync and ResyncIndex, reduced to how it ends.                   *)
(***************************************************************************)
EXTENDS PublicServer

CONSTANTS
    Configs,     \* command lines
    MaxRetries,  \* seconds that getBlockChainWithRetry goes on trying
    Best,        \* best height of the index
    Word,        \* heights are uint32: modulo Word
    MaxRuns      \* times the process is started

VARIABLES
    conf,        \* flags: [job, sync, range, public, explorer, rollback]
    pc,          \* next step of the main goroutine
    code,        \* exit code
    tries,       \* attempts to connect to the backend
    runs,        \* times the process was started
    sig,         \* chanOsSignal holds a signal
    db,          \* the index: "none", "open" or "closed"
    is,          \* DbState of the internal state in memory, "none" before it is loaded
    disk,        \* DbState of the internal state on disk
    mempool,     \* "created" or "ready"
    loops,       \* goroutines that use the index
    inShutdown,
    drained,     \* the servers' Shutdown waited for all requests
    height,      \* loop variable of performRollback and of ComputeFeeStats
    hashes       \* heights that performRollback has collected

processVars == <<conf, pc, code, tries, runs, sig, db, is, disk, mempool, loops,
                 inShutdown, drained, height, hashes>>
vars == <<serverVars, processVars>>

store == <<db, is, disk>>
work == <<tries, height, hashes>>
rest == <<conf, runs, mempool, loops, inShutdown, drained>>

Goto(p) == pc' = p /\ UNCHANGED code

\* A return from mainWithExitCode runs the deferred index.Close.
Return(c) == pc' = (IF db = "open" THEN "closing" ELSE "exiting") /\ code' = c
-----------------------------------------------------------------------------
Started(c) ==
    /\ conf' = c /\ pc' = "flags" /\ code' = "none" /\ tries' = 0
    /\ db' = "none" /\ is' = "none" /\ mempool' = "none" /\ loops' = {}
    /\ inShutdown' = FALSE /\ drained' = FALSE /\ height' = 0 /\ hashes' = {} /\ sig' = FALSE
    /\ mux' = {} /\ listening' = FALSE /\ req' = NoRequest

Init ==
    /\ conf \in Configs /\ pc = "flags" /\ code = "none" /\ tries = 0 /\ runs = 1
    /\ sig = FALSE /\ db = "none" /\ is = "none" /\ disk = "closed" /\ mempool = "none"
    /\ loops = {} /\ inShutdown = FALSE /\ drained = FALSE /\ height = 0 /\ hashes = {}
    /\ mux = {} /\ listening = FALSE /\ req = NoRequest

\* A signal is kept in a channel of size 1; when it is full it is dropped.
Signal ==
    /\ pc \notin {"exiting", "gone"} /\ ~sig /\ sig' = TRUE
    /\ UNCHANGED <<serverVars, conf, pc, code, tries, runs, store, mempool, loops, inShutdown,
                   drained, height, hashes>>

\* The job "repair" only repairs the files of the index.  A wrong configuration ends
\* the process at once.
ParseFlags ==
    /\ pc = "flags"
    /\ \/ conf.job = "repair" /\ Return("ok")
       \/ conf.job # "repair" /\ Goto("chain")
       \/ Return("fatal")
    /\ UNCHANGED <<serverVars, rest, work, store, sig>>

\* getBlockChainWithRetry: coins.NewBlockChain succeeds, or it is tried again
\* after a second, unless a signal comes or the attempts are used up.
GetBlockChainWithRetry ==
    /\ pc = "chain"
    /\ \/ Goto("open") /\ mempool' = "created" /\ UNCHANGED <<tries, sig>>
       \/ tries < MaxRetries /\ tries' = tries + 1 /\ Goto("chain") /\ UNCHANGED <<mempool, sig>>
       \/ tries < MaxRetries /\ sig /\ sig' = FALSE /\ Return("fatal") /\ UNCHANGED <<mempool, tries>>
       \/ tries = MaxRetries /\ Return("fatal") /\ UNCHANGED <<mempool, tries, sig>>
    /\ UNCHANGED <<serverVars, conf, runs, store, loops, inShutdown, drained, height, hashes>>

NewRocksDB ==
    /\ pc = "open"
    /\ \/ db' = "open" /\ Goto("state")
       \/ Return("fatal") /\ UNCHANGED db
    /\ UNCHANGED <<serverVars, rest, work, sig, is, disk>>

\* Mutant of NewInternalState: an inconsistent index is only warned of.
NewInternalStateWarn ==
    /\ pc = "state"
    /\ \/ /\ is' = disk
          /\ Goto(IF conf.job \in {"feestats", "columnstats"} THEN "stats" ELSE "store")
       \/ Return("fatal") /\ UNCHANGED is
    /\ UNCHANGED <<serverVars, rest, work, sig, db, disk>>

\* LoadInternalState fails for another coin or version; an index that was left
\* in the middle of a bulk load is refused.
NewInternalState ==
    /\ pc = "state"
    /\ \/ /\ is' = disk
          /\ IF disk = "inconsistent" THEN Return("fatal")
             ELSE Goto(IF conf.job \in {"feestats", "columnstats"} THEN "stats" ELSE "store")
       \/ Return("fatal") /\ UNCHANGED is
    /\ UNCHANGED <<serverVars, rest, work, sig, db, disk>>

\* The statistics jobs only read: DbState open is not stored.
StartStats ==
    /\ pc = "stats" /\ is' = "open" /\ height' = 0
    /\ Goto(conf.job)
    /\ UNCHANGED <<serverVars, rest, sig, tries, hashes, db, disk>>

\* computeFeeStats: the blocks of the range one by one.  Only a block with many
\* transactions looks at the signal.
ComputeFeeStats ==
    /\ pc = "feestats"
    /\ IF height > Best THEN Return("ok") /\ UNCHANGED <<sig, height>>
       ELSE \/ Return("fatal") /\ UNCHANGED <<sig, height>>
            \/ height' = height + 1 /\ Goto("feestats") /\ UNCHANGED sig
            \/ sig /\ sig' = FALSE /\ Return("ok") /\ UNCHANGED height
    /\ UNCHANGED <<serverVars, rest, store, tries, hashes>>

\* ComputeInternalStateColumnStats: an interrupt is an error.
ComputeColumnStats ==
    /\ pc = "columnstats"
    /\ \/ Return("ok") /\ UNCHANGED sig
       \/ sig /\ sig' = FALSE /\ Return("fatal")
    /\ UNCHANGED <<serverVars, rest, store, work>>

\* DbState open is stored before anything is written to the index.
StoreInternalState ==
    /\ pc = "store" /\ is' = "open"
    /\ \/ disk' = "open" /\ Goto(IF conf.job = "rollback" THEN "rollback" ELSE "servers")
       \/ Return("fatal") /\ UNCHANGED disk
    /\ UNCHANGED <<serverVars, rest, work, sig, db>>
-----------------------------------------------------------------------------
(* performRollback *)

StartRollback ==
    /\ pc = "rollback"
    /\ \/ Return("fatal") /\ UNCHANGED <<height, hashes>>
       \/ conf.rollback > Best /\ Return("ok") /\ UNCHANGED <<height, hashes>>
       \/ /\ conf.rollback <= Best /\ Goto("collect")
          /\ hashes' = {Best} /\ height' = (Best - 1) % Word
    /\ UNCHANGED <<serverVars, rest, store, sig, tries>>

\* Mutant of CollectHashes: the last block is left out.
CollectHashesAbove ==
    /\ pc = "collect"
    /\ IF height > conf.rollback
       THEN \/ /\ hashes' = hashes \cup {height} /\ height' = (height - 1) % Word
               /\ Goto("collect")
            \/ Return("fatal") /\ UNCHANGED <<height, hashes>>
       ELSE Goto("disconnect") /\ UNCHANGED <<height, hashes>>
    /\ UNCHANGED <<serverVars, rest, store, sig, tries>>

\* GetBlockHash of a height that is not in the index is no error.
CollectHashes ==
    /\ pc = "collect"
    /\ IF height >= conf.rollback
       THEN \/ /\ hashes' = hashes \cup {height} /\ height' = (height - 1) % Word
               /\ Goto("collect")
            \/ Return("fatal") /\ UNCHANGED <<height, hashes>>
       ELSE Goto("disconnect") /\ UNCHANGED <<height, hashes>>
    /\ UNCHANGED <<serverVars, rest, store, sig, tries>>

\* DisconnectBlocks is one batch.
DisconnectBlocks ==
    /\ pc = "disconnect"
    /\ Return("ok") \/ Return("fatal")
    /\ UNCHANGED <<serverVars, rest, work, store, sig>>
-----------------------------------------------------------------------------
(* The servers and the initial synchronization *)

\* startInternalServer and startPublicServer
StartServers ==
    /\ pc = "servers"
    /\ \/ /\ listening' = conf.public /\ mux' = NewPublicServer
          /\ Goto(IF conf.sync THEN "sync" ELSE "loops")
       \/ Return("fatal") /\ UNCHANGED <<listening, mux>>
    /\ UNCHANGED <<req, rest, work, store, sig>>

\* Bulk mode marks the index inconsistent until it is complete.
SetInconsistentState ==
    /\ pc = "sync" \/ (pc = "range" /\ conf.range /\ ~conf.sync)
    /\ is = "open"
    /\ is' = "inconsistent" /\ disk' = "inconsistent"
    /\ UNCHANGED <<serverVars, rest, work, sig, pc, code, db>>

\* Mutant of InitialSync: the interrupt is taken for the end of the synchronization.
InitialSyncGoesOn ==
    /\ pc = "sync"
    /\ (is' = "open" /\ disk' = "open") \/ UNCHANGED <<is, disk>>
    /\ \/ Goto("mempool") /\ UNCHANGED sig
       \/ Return("fatal") /\ UNCHANGED sig
       \/ sig /\ sig' = FALSE /\ Goto("mempool")
    /\ UNCHANGED <<serverVars, rest, work, db>>

\* ResyncIndex(nil, true) ends, fails or is interrupted.  The index is consistent
\* again, unless the last write of bulk mode has failed: this is only logged.
InitialSync ==
    /\ pc = "sync"
    /\ (is' = "open" /\ disk' = "open") \/ UNCHANGED <<is, disk>>
    /\ \/ Goto("mempool") /\ UNCHANGED sig
       \/ Return("fatal") /\ UNCHANGED sig
       \/ sig /\ sig' = FALSE /\ Return("ok")
    /\ UNCHANGED <<serverVars, rest, work, db>>

\* InitializeMempool and the first Resync; then the loops are started.
InitializeMempool ==
    /\ pc = "mempool"
    /\ \/ Return("fatal") /\ UNCHANGED <<mempool, loops>>
       \/ mempool' = "ready" /\ loops' = {"index", "mempool"} /\ Goto("loops")
    /\ UNCHANGED <<serverVars, work, store, sig, conf, runs, inShutdown, drained>>

StartStoreLoop ==
    /\ pc = "loops" /\ loops' = loops \cup {"store"}
    /\ Goto(IF conf.public THEN "connect" ELSE "range")
    /\ UNCHANGED <<serverVars, work, store, sig, conf, runs, mempool, inShutdown, drained>>

\* ConnectFullPublicInterface registers one group after the other.
ConnectFullPublicInterface ==
    /\ pc = "connect"
    /\ LET missing == SelectSeq(Groups(conf.explorer), LAMBDA g : g \notin mux)
       IN  IF missing = <<>> THEN Goto("range") /\ UNCHANGED mux
           ELSE mux' = mux \cup {Head(missing)} /\ Goto("connect")
    /\ UNCHANGED <<listening, req, rest, work, store, sig>>

\* -blockheight without -sync: ConnectBlocksParallel of the range.
ConnectRange ==
    /\ pc = "range"
    /\ IF conf.sync \/ ~conf.range THEN Goto("wait") /\ UNCHANGED <<sig, is, disk>>
       ELSE /\ (is' = "open" /\ disk' = "open") \/ UNCHANGED <<is, disk>>
            /\ \/ Goto("wait") /\ UNCHANGED sig
               \/ Return("fatal") /\ UNCHANGED sig
               \/ sig /\ sig' = FALSE /\ Return("ok")
    /\ UNCHANGED <<serverVars, rest, work, db>>
-----------------------------------------------------------------------------
(* The shutdown *)

WaitForSignal ==
    /\ pc = "wait" /\ sig
    /\ sig' = FALSE /\ inShutdown' = TRUE /\ listening' = FALSE /\ Goto("drain")
    /\ UNCHANGED <<mux, req, conf, runs, mempool, loops, drained, work, store>>

\* Mutant of Shutdown: the running request is not waited for.
ShutdownAtOnce ==
    /\ pc = "drain"
    /\ drained' = TRUE /\ Goto("join")
    /\ UNCHANGED <<serverVars, conf, runs, mempool, loops, inShutdown, work, store, sig>>

\* Shutdown of the servers waits for the requests, but not longer than the timeout.
Shutdown ==
    /\ pc = "drain"
    /\ drained' = (req = NoRequest) /\ Goto("join")
    /\ UNCHANGED <<serverVars, conf, runs, mempool, loops, inShutdown, work, store, sig>>

\* Main waits for its loops only when it synchronizes, and for no goroutine
\* that computes statistics.
JoinLoops ==
    /\ pc = "join"
    /\ conf.sync => loops \subseteq {"stats"}
    /\ Return("ok")
    /\ UNCHANGED <<serverVars, rest, work, store, sig>>

\* A loop ends after main has closed its input (SyncLoops, ShutdownEnds).
LoopEnds(l) ==
    /\ l \in loops /\ pc = "join" /\ conf.sync
    /\ loops' = loops \ {l}
    /\ UNCHANGED <<serverVars, pc, code, work, store, sig, conf, runs, mempool, inShutdown, drained>>

\* The store loop now and then has the statistics of the columns computed, in a
\* goroutine of its own.
StatsStart ==
    /\ "store" \in loops /\ "stats" \notin loops /\ ~inShutdown
    /\ loops' = loops \cup {"stats"}
    /\ UNCHANGED <<serverVars, pc, code, work, store, sig, conf, runs, mempool, inShutdown, drained>>

StatsEnd ==
    /\ "stats" \in loops /\ loops' = loops \ {"stats"}
    /\ UNCHANGED <<serverVars, pc, code, work, store, sig, conf, runs, mempool, inShutdown, drained>>

\* RocksDB.Close: an open index is marked closed; failing to store it is no error.
CloseIndex ==
    /\ pc = "closing" /\ db' = "closed"
    /\ IF is = "open" THEN is' = "closed" /\ disk' \in {disk, "closed"} ELSE UNCHANGED <<is, disk>>
    /\ Goto("exiting")
    /\ UNCHANGED <<serverVars, rest, work, sig>>

\* The process is gone, by itself or killed; everything but the disk is lost.
Gone ==
    /\ pc' = "gone" /\ loops' = {} /\ db' = "none" /\ is' = "none" /\ mempool' = "none"
    /\ sig' = FALSE /\ tries' = 0 /\ height' = 0 /\ hashes' = {} /\ inShutdown' = FALSE
    /\ drained' = FALSE /\ mux' = {} /\ listening' = FALSE /\ req' = NoRequest
    /\ UNCHANGED <<conf, code, runs, disk>>

Exit == pc = "exiting" /\ Gone
Kill == pc \notin {"exiting", "gone"} /\ Gone

\* The process is started again.
Start(c) == pc = "gone" /\ runs < MaxRuns /\ runs' = runs + 1 /\ Started(c) /\ UNCHANGED disk
-----------------------------------------------------------------------------
Main ==
    \/ ParseFlags \/ GetBlockChainWithRetry \/ NewRocksDB \/ NewInternalState
    \/ StartStats \/ ComputeFeeStats \/ ComputeColumnStats \/ StoreInternalState
    \/ StartRollback \/ CollectHashes \/ DisconnectBlocks
    \/ StartServers \/ InitialSync \/ InitializeMempool \/ StartStoreLoop
    \/ ConnectFullPublicInterface \/ ConnectRange
    \/ WaitForSignal \/ Shutdown \/ JoinLoops \/ CloseIndex \/ Exit

Loops == {"index", "mempool", "store", "stats"}
Server == ServerNext /\ UNCHANGED processVars

Next ==
    \/ Main \/ Signal \/ Kill \/ SetInconsistentState \/ StatsStart \/ StatsEnd
    \/ \E l \in Loops : LoopEnds(l)
    \/ \E c \in Configs : Start(c)
    \/ Server

\* The main goroutine, the loops and the handlers go on; nothing makes a signal,
\* a request or a restart happen.
Fairness ==
    /\ WF_vars(Main)
    /\ \A l \in Loops : WF_vars(LoopEnds(l))
    /\ WF_vars((Handling \/ Sent) /\ UNCHANGED processVars)

Spec == Init /\ [][Next]_vars /\ Fairness
-----------------------------------------------------------------------------
(* Properties *)

\* The main goroutine and the loops never leave the states that are expected.
TypeOK ==
    /\ conf \in Configs /\ runs \in 1 .. MaxRuns /\ tries \in 0 .. MaxRetries
    /\ pc \in {"flags", "chain", "open", "state", "stats", "feestats", "columnstats", "store",
              "rollback", "collect", "disconnect", "servers", "sync", "mempool", "loops", "connect",
              "range", "wait", "drain", "join", "closing", "exiting", "gone"}
    /\ code \in {"none", "ok", "fatal"} /\ db \in {"none", "open", "closed"}
    /\ is \in {"none", "open", "closed", "inconsistent"} /\ disk \in {"open", "closed", "inconsistent"}
    /\ mempool \in {"none", "created", "ready"} /\ loops \subseteq Loops
    /\ {sig, inShutdown, drained, listening} \subseteq BOOLEAN
    /\ height \in 0 .. Word - 1 /\ hashes \subseteq 0 .. Best
    /\ mux \subseteq {"basic", "pages", "explorer", "redirects", "api", "sockets"}

\* When a synchronizing process has waited for its requests, neither a request nor
\* one of its loops uses the index after it is closed (waitForSignalAndShutdown and
\* the channels that main reads before it returns).
OrderlyClose ==
    db = "closed" /\ drained /\ conf.sync => req = NoRequest /\ loops \subseteq {"stats"}

\* The full public interface answers only when the mempool is initialized and the
\* initial synchronization is over ("extend it after sync is finished").
FullAfterSync ==
    conf.sync /\ req.at \notin {"none", "done"} /\ HandlerOf(req.path).group # "basic" =>
        mempool = "ready" /\ pc \notin {"sync", "mempool"}

\* What is left inconsistent by a process that was killed in bulk mode stays so: no
\* later process, whatever its job, marks the index as usable.
StaysInconsistent ==
    [][disk = "inconsistent" /\ pc \notin {"sync", "range"} => disk' = "inconsistent"]_vars

\* While blocks may be written the index on disk is not marked closed: a process that
\* is killed then is noticed by the next one.
WritesMarked ==
    pc \in {"collect", "disconnect", "sync", "range"} \/ (loops # {} /\ db = "open") =>
        disk # "closed"

\* performRollback has the hash of every block from the best one down to the given
\* height, and of no other.
RollbackExact == pc = "disconnect" => hashes = conf.rollback .. Best

\* A signal ends the process, whatever it is doing (chanOsSignal is read in the retry
\* loop, by the synchronization and at the end; a job that does not read it ends).
SignalQuits == sig ~> pc = "gone"

\* Every request is answered (jsonHandler and htmlTemplateHandler recover from a
\* panic), or ends with the process.
Answered == req.at # "none" ~> req.at \in {"done", "none"}

\* The flag -rollback is documented as "rollback to the given height and quit".
RollbackQuits == conf.job = "rollback" ~> pc = "gone"

\* A kill at any moment is noticed: while blocks may be written the index is not
\* marked closed, and one that was left inconsistent is never marked usable again.
KillNoticed == []WritesMarked /\ StaysInconsistent

\* The ranges that loops over pages and heights cover, ends included: the hashes of a
\* rollback and the links of the paging.
RangesExact == TypeOK /\ RollbackExact /\ PagingRight
=============================================================================
