---------------------------- MODULE BitcoinMempool ----------------------------
(***************************************************************************)
(* The mempool of Bitcoin type chains (bchain/mempool_bitcoin_type.go).    *)
(*                                                                         *)
(* Resync, called from one goroutine, reads the list of unconfirmed        *)
(* transactions from the node, hands the new ones to a pool of workers     *)
(* over channels of size one and takes their answers back, between the     *)
(* hand-outs and at the end; then it drops what the list does not have.    *)
(* A worker does the same with the inputs of its transaction and a pool of *)
(* subworkers of its own.  The node changes at any time and any call to it *)
(* may fail.                                                               *)
(***************************************************************************)
EXTENDS BaseMempool

CONSTANTS
    Txs,            \* transactions that are ever unconfirmed
    Outs,           \* Outs[t]: addresses of the outputs of t, NoAddr if none
    Ins,            \* Ins[t]: the outpoints t spends, in order
    OutpointAddr,   \* OutpointAddr[o]: address of a spent outpoint
    Indexed,        \* outpoints the index knows (AddrDescForOutpoint)
    Workers, SubWorkers,    \* the goroutines; the number of subworkers of each
    NoAddr,
    MaxResyncs, MaxMoves, MaxFails  \* bounds: calls, changes of the node, errors

ASSUME MempoolAssumption ==
    /\ NoAddr \notin Addrs /\ SubWorkers \in Nat \ {0} /\ Workers # {}
    /\ \A t \in Txs :
         /\ Outs[t] \in Seq(Addrs \cup {NoAddr})
         /\ \A i \in DOMAIN Ins[t] : OutpointAddr[Ins[t][i]] \in Addrs

VARIABLES
    node,           \* the node's mempool
    moves, fails,   \* changes of the node and failed calls so far
    resync,         \* [pc, txs (the node's list), todo, dispatched, time]
    chanTxid, chanAddrIndex,    \* contents of the channels, at most one each
    worker,         \* worker[w]: a worker and its subworkers
    told,           \* told[t]: times OnNewTxAddr got the outputs of t in its stay
    missed,         \* missed[t]: places of the inputs lost to failed calls
    unread          \* transactions whose call failed in this resync

nodeVars == <<node, moves>>
chans == <<chanTxid, chanAddrIndex>>
history == <<told, missed, unread>>
vars == <<poolVars, nodeVars, fails, resync, chans, worker, history>>

IdleWorker ==
    [pc |-> "idle", txid |-> 0, todo |-> {}, chanInput |-> {}, busy |-> {},
     chanResult |-> {}, dispatched |-> 0, io |-> <<>>]

Init ==
    /\ PoolInit
    /\ node \in SUBSET Txs /\ moves = 0 /\ fails = 0
    /\ resync = [pc |-> "idle", txs |-> {}, todo |-> {}, dispatched |-> 0, time |-> 0]
    /\ chanTxid = {} /\ chanAddrIndex = {}
    /\ worker = [w \in Workers |-> IdleWorker]
    /\ told = [t \in Txs |-> 0] /\ missed = [t \in Txs |-> {}] /\ unread = {}
-----------------------------------------------------------------------------
\* The node accepts a transaction, or one is mined or evicted.
NodeMoves(t) ==
    /\ moves < MaxMoves
    /\ moves' = moves + 1
    /\ node' = IF t \in node THEN node \ {t} ELSE node \cup {t}
    /\ UNCHANGED <<poolVars, fails, resync, chans, worker, history>>

Fails == fails < MaxFails /\ fails' = fails + 1
-----------------------------------------------------------------------------
(***************************************************************************)
(* Resync                                                                  *)
(***************************************************************************)
\* GetMempoolTransactions; when the call fails, Resync returns.
ResyncStart ==
    /\ resync.pc = "idle" /\ resync.time < MaxResyncs
    /\ resync' = [pc |-> "dispatch", txs |-> node, todo |-> node, dispatched |-> 0,
                  time |-> resync.time + 1]
    /\ unread' = {}
    /\ UNCHANGED <<poolVars, nodeVars, fails, chans, worker, told, missed>>

ResyncFails ==
    /\ resync.pc = "idle" /\ resync.time < MaxResyncs /\ Fails
    /\ resync' = [resync EXCEPT !.time = @ + 1]
    /\ UNCHANGED <<poolVars, nodeVars, chans, worker, history>>

\* A transaction that has an entry is not read again.
Skip(t) ==
    /\ resync.pc = "dispatch" /\ t \in resync.todo /\ t \in DOMAIN txEntries
    /\ resync' = [resync EXCEPT !.todo = @ \ {t}]
    /\ UNCHANGED <<poolVars, nodeVars, fails, chans, worker, history>>

\* Mutant of Dispatch: what has an entry is handed out all the same.
DispatchAll(t) ==
    /\ resync.pc = "dispatch" /\ t \in resync.todo /\ chanTxid = {}
    /\ chanTxid' = {t}
    /\ resync' = [resync EXCEPT !.todo = @ \ {t}, !.dispatched = @ + 1]
    /\ UNCHANGED <<poolVars, nodeVars, fails, chanAddrIndex, worker, history>>

\* One case of the select: send the next new transaction to be processed.
Dispatch(t) ==
    /\ resync.pc = "dispatch" /\ t \in resync.todo \ DOMAIN txEntries /\ chanTxid = {}
    /\ chanTxid' = {t}
    /\ resync' = [resync EXCEPT !.todo = @ \ {t}, !.dispatched = @ + 1]
    /\ UNCHANGED <<poolVars, nodeVars, fails, chanAddrIndex, worker, history>>

\* onNewEntry: a transaction of which no address is known gets no entry.
OnNewEntry(tio) ==
    IF tio.io = <<>> THEN UNCHANGED poolVars
    ELSE AddEntry(tio.txid, [addrIndexes |-> tio.io, time |-> resync.time])

\* The other case of the select, while a transaction waits to be sent, and
\* the loop that takes the rest: store a processed transaction.
StoreResult(tio) ==
    /\ \/ resync.pc = "dispatch" /\ resync.todo \ DOMAIN txEntries # {}
       \/ resync.pc = "gather" /\ resync.dispatched > 0
    /\ OnNewEntry(tio)
    /\ chanAddrIndex' = {}
    /\ resync' = [resync EXCEPT !.dispatched = @ - 1]
    /\ UNCHANGED <<nodeVars, fails, chanTxid, worker, history>>

ResyncGather ==
    /\ resync.pc = "dispatch" /\ resync.todo = {}
    /\ resync' = [resync EXCEPT !.pc = "gather"]
    /\ UNCHANGED <<poolVars, nodeVars, fails, chans, worker, history>>

ResyncGathered ==
    /\ resync.pc = "gather" /\ resync.dispatched = 0
    /\ resync' = [resync EXCEPT !.pc = "remove"]
    /\ UNCHANGED <<poolVars, nodeVars, fails, chans, worker, history>>

\* Entries that are not in the list are removed, one at a time.
ResyncRemove(t) ==
    /\ resync.pc = "remove" /\ t \in DOMAIN txEntries \ resync.txs
    /\ RemoveEntries({t})
    /\ told' = [told EXCEPT ![t] = 0] /\ missed' = [missed EXCEPT ![t] = {}]
    /\ UNCHANGED <<nodeVars, fails, resync, chans, worker, unread>>

\* Mutant of ResyncEnd: an entry may be passed over.
ResyncEndEarly ==
    /\ resync.pc = "remove"
    /\ resync' = [resync EXCEPT !.pc = "idle"]
    /\ UNCHANGED <<poolVars, nodeVars, fails, chans, worker, history>>

ResyncEnd ==
    /\ resync.pc = "remove" /\ DOMAIN txEntries \subseteq resync.txs
    /\ resync' = [resync EXCEPT !.pc = "idle"]
    /\ UNCHANGED <<poolVars, nodeVars, fails, chans, worker, history>>
-----------------------------------------------------------------------------
(***************************************************************************)
(* A worker and its subworkers                                             *)
(***************************************************************************)
\* The addresses of the outputs: GetAddrDescFromVout fails or is empty for
\* an output with none.
OutputIndexes(t) ==
    LET places == {i \in DOMAIN Outs[t] : Outs[t][i] # NoAddr}
        place(k) == CHOOSE i \in places : Cardinality({j \in places : j <= i}) = k
    IN  [k \in 1 .. Cardinality(places) |->
            [addrDesc |-> Outs[t][place(k)], n |-> place(k) - 1]]

\* getTxAddrs: the transaction is read and the callback gets its outputs ...
WorkerRead(w, t) ==
    /\ worker[w].pc = "idle"
    /\ chanTxid' = {}
    /\ worker' = [worker EXCEPT ![w] = [IdleWorker EXCEPT !.pc = "inputs", !.txid = t,
                     !.todo = DOMAIN Ins[t], !.io = OutputIndexes(t)]]
    /\ told' = [told EXCEPT ![t] = @ + 1] /\ missed' = [missed EXCEPT ![t] = {}]
    /\ UNCHANGED <<poolVars, nodeVars, fails, resync, chanAddrIndex, unread>>

\* ... or cannot be read, which is answered with no addresses.
WorkerReadFails(w, t) ==
    /\ worker[w].pc = "idle" /\ Fails
    /\ chanTxid' = {}
    /\ worker' = [worker EXCEPT ![w] = [IdleWorker EXCEPT !.pc = "answer", !.txid = t]]
    /\ unread' = unread \cup {t}
    /\ UNCHANGED <<poolVars, nodeVars, resync, chanAddrIndex, told, missed>>

Step(w, r) ==
    /\ worker' = [worker EXCEPT ![w] = r]
    /\ UNCHANGED <<poolVars, nodeVars, resync, chans, told, unread>>

\* One case of the select: an input is handed to the subworkers.
SendInput(w) ==
    LET k == worker[w] IN
    /\ k.pc = "inputs" /\ k.chanInput = {}
    /\ \E i \in k.todo :
          /\ \A j \in k.todo : i <= j
          /\ Step(w, [k EXCEPT !.todo = @ \ {i}, !.chanInput = {i}, !.dispatched = @ + 1])
    /\ UNCHANGED <<fails, missed>>

\* Mutant of TakeAnswer: there is no loop after the inputs.
TakeAnswerSelect(w, ans) ==
    LET k == worker[w] IN
    /\ k.pc = "inputs" /\ k.todo # {}
    /\ Step(w, [k EXCEPT !.chanResult = {}, !.dispatched = @ - 1,
                         !.io = IF ans.ok THEN Append(@, ans.ix) ELSE @])
    /\ UNCHANGED <<fails, missed>>

\* The other one, and the loop after the inputs: an answer is taken.
TakeAnswer(w, ans) ==
    LET k == worker[w] IN
    /\ k.pc = "inputs" /\ (k.todo # {} \/ k.dispatched > 0)
    /\ Step(w, [k EXCEPT !.chanResult = {}, !.dispatched = @ - 1,
                         !.io = IF ans.ok THEN Append(@, ans.ix) ELSE @])
    /\ UNCHANGED <<fails, missed>>

SubTake(w, i) ==
    LET k == worker[w] IN
    /\ Cardinality(k.busy) < SubWorkers
    /\ Step(w, [k EXCEPT !.chanInput = {}, !.busy = @ \cup {i}])
    /\ UNCHANGED <<fails, missed>>

\* An input is told from an output by the complement of its number.
InputIndex(o) == [addrDesc |-> OutpointAddr[o], n |-> -o[2] - 1]

\* getInputAddress: from the index, or from the transaction read from the node.
SubAnswer(w, i) ==
    LET k == worker[w]
        ans == [i |-> i, ok |-> TRUE, ix |-> InputIndex(Ins[k.txid][i])]
    IN  /\ k.chanResult = {}
        /\ Step(w, [k EXCEPT !.busy = @ \ {i}, !.chanResult = {ans}])
        /\ UNCHANGED <<fails, missed>>

SubAnswerFails(w, i) ==
    LET k == worker[w] IN
    /\ k.chanResult = {} /\ Ins[k.txid][i] \notin Indexed /\ Fails
    /\ Step(w, [k EXCEPT !.busy = @ \ {i},
                         !.chanResult = {[i |-> i, ok |-> FALSE, ix |-> <<>>]}])
    /\ missed' = [missed EXCEPT ![k.txid] = @ \cup {i}]

\* Mutant of WorkerAnswer: the last answer is not waited for.
WorkerAnswerEarly(w) ==
    LET k == worker[w] IN
    /\ \/ k.pc = "answer"
       \/ k.pc = "inputs" /\ k.todo = {} /\ k.dispatched <= 1
    /\ chanAddrIndex = {}
    /\ chanAddrIndex' = {[txid |-> k.txid, io |-> k.io]}
    /\ worker' = [worker EXCEPT ![w] = IdleWorker]
    /\ UNCHANGED <<poolVars, nodeVars, fails, resync, chanTxid, history>>

\* With every answer in, the worker sends its result and takes the next.
WorkerAnswer(w) ==
    LET k == worker[w] IN
    /\ \/ k.pc = "answer"
       \/ k.pc = "inputs" /\ k.todo = {} /\ k.dispatched = 0
    /\ chanAddrIndex = {}
    /\ chanAddrIndex' = {[txid |-> k.txid, io |-> k.io]}
    /\ worker' = [worker EXCEPT ![w] = IdleWorker]
    /\ UNCHANGED <<poolVars, nodeVars, fails, resync, chanTxid, history>>
-----------------------------------------------------------------------------
ResyncStep ==
    \/ \E t \in resync.todo : Skip(t) \/ Dispatch(t)
    \/ \E tio \in chanAddrIndex : StoreResult(tio)
    \/ ResyncGather \/ ResyncGathered \/ ResyncEnd
    \/ \E t \in DOMAIN txEntries : ResyncRemove(t)
WorkerStep(w) ==
    \/ \E t \in chanTxid : WorkerRead(w, t) \/ WorkerReadFails(w, t)
    \/ SendInput(w)
    \/ \E ans \in worker[w].chanResult : TakeAnswer(w, ans)
    \/ WorkerAnswer(w)
SubStep(w) ==
    \/ \E i \in worker[w].chanInput : SubTake(w, i)
    \/ \E i \in worker[w].busy : SubAnswer(w, i) \/ SubAnswerFails(w, i)

Next ==
    \/ \E t \in Txs : NodeMoves(t)
    \/ ResyncStart \/ ResyncFails
    \/ ResyncStep
    \/ \E w \in Workers : WorkerStep(w) \/ SubStep(w)

Spec == Init /\ [][Next]_vars

\* Goroutines that can run do.
FairSpec ==
    /\ Spec
    /\ WF_vars(ResyncStep)
    /\ \A w \in Workers : WF_vars(WorkerStep(w)) /\ WF_vars(SubStep(w))
-----------------------------------------------------------------------------
\* The channels hold one item at most, a worker has at most its subworkers
\* busy, and no answer is expected that is not on its way: what Resync and
\* each worker count as dispatched is what the channels and goroutines hold.
TypeOK ==
    /\ Cardinality(chanTxid) <= 1 /\ Cardinality(chanAddrIndex) <= 1
    /\ DOMAIN txEntries \subseteq Txs /\ resync.dispatched \in 0 .. Cardinality(Txs)
    /\ resync.dispatched = Cardinality(chanTxid) + Cardinality(chanAddrIndex)
                             + Cardinality({w \in Workers : worker[w].pc # "idle"})
    /\ \A w \in Workers :
         LET k == worker[w] IN
         /\ k.pc \in {"idle", "inputs", "answer"}
         /\ Cardinality(k.busy) <= SubWorkers /\ Cardinality(k.chanResult) <= 1
         /\ k.dispatched = Cardinality(k.chanInput) + Cardinality(k.busy)
                             + Cardinality(k.chanResult)

\* io is the outputs of t that have an address, in their order, and after them the
\* indexes of the inputs of A, each once and in any order.
Whole(t, A, io) ==
    LET n == Len(OutputIndexes(t)) IN
    /\ n <= Len(io) /\ \A j \in 1 .. n : io[j] = OutputIndexes(t)[j]
    /\ \E f \in [A -> (n + 1) .. Len(io)] :
          /\ \A i, j \in A : f[i] = f[j] => i = j
          /\ \A j \in (n + 1) .. Len(io) : \E i \in A : f[i] = j
          /\ \A i \in A : io[f[i]] = InputIndex(Ins[t][i])

\* An entry names each address the transaction pays or spends from as often
\* as it does; one is missing only if the call for just that input failed.
\* (It then stays missing as long as the transaction is in the mempool.)
EntryComplete ==
    \A t \in DOMAIN txEntries : Whole(t, DOMAIN Ins[t] \ missed[t], txEntries[t].addrIndexes)

\* When Resync has returned, the mempool is the node's list: nothing that is
\* not on it, and of it all but what could not be read, or has no address.
ResyncExact ==
    resync.pc = "idle" =>
        /\ DOMAIN txEntries \subseteq resync.txs
        /\ \A t \in resync.txs \ DOMAIN txEntries :
             t \in unread \/ OutputIndexes(t) = <<>>

\* The owners of a transaction's outputs are notified once in its stay in the
\* mempool, however often it is resynchronized.
NotifiedOnce ==
    \A t \in Txs : OutputIndexes(t) # <<>> =>
        /\ told[t] <= 1
        /\ t \in DOMAIN txEntries => told[t] = 1

\* Resync ends: the pools of workers never wait for it while it waits for
\* them.
ResyncEnds == resync.pc # "idle" ~> resync.pc = "idle"

\* The mempool is one picture at all times, also in the middle of Resync: its two
\* maps agree, what an address is told is ordered, newest first, and an entry has the
\* addresses of all inputs and outputs.
EntriesExact == TypeOK /\ MapsAgree /\ NewestFirst /\ EntryComplete
=============================================================================
