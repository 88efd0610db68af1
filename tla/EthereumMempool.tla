--------------------------- MODULE EthereumMempool ---------------------------
(***************************************************************************)
(* The mempool of Ethereum type chains (bchain/mempool_ethereum_type.go)   *)
(* and the backend that feeds it (bchain/coins/eth/ethrpc.go).             *)
(*                                                                         *)
(* Transactions are added one by one, by the goroutine that receives the   *)
(* node's notifications and, on chains configured so, by Resync.  An       *)
(* adder looks for an entry, releases the lock, reads the transaction from *)
(* the node and locks again to insert it.  The backend removes an entry    *)
(* when it meets the transaction in a block or as mined, or when the node  *)
(* does not know it; Resync removes entries that are too old.              *)
(*                                                                         *)
(* The backend caches the header of the best block, which notifications of *)
(* new heads replace; a subscription that fails loses what comes before it *)
(* is renewed.  Times are kept as ages in ticks of a clock.                *)
(***************************************************************************)
EXTENDS BaseMempool, SequencesExt

CONSTANTS
    Txs,
    From, To,       \* addresses of a transaction; NoAddr creates a contract
    Payload, Logs,  \* its ERC20 transfers, as its data and as its receipt have them
    NoAddr,
    Timeout,        \* mempoolTimeoutTime
    Period,         \* mempoolTimeoutRunPeriod
    MaxBlocks, MaxDrops, MaxFails  \* bounds: blocks, failed subscriptions, failed calls

ASSUME EthAssumption == Timeout \in Nat /\ Period \in Nat /\ NoAddr \notin Addrs

VARIABLES
    isETC,          \* Ethereum Classic: no newHeads, Resync queries the node
    status,         \* status[t] at the node: 0 unknown, -1 pending, or its block
    best,           \* height of the node's best block
    sub,            \* sub[s]: the subscription of s is on
    heads, news,    \* notifications on their way: heights and transactions
    drops, fails,   \* subscriptions that failed, calls that failed
    bestHeader,     \* height of the cached header, 0 if none
    initialized,    \* mempoolInitialized
    adder,          \* adder[p]: the goroutines inside AddTransactionToMempool
    resync,         \* [pc, todo]
    block,          \* transactions GetBlock has yet to remove
    asked,          \* transactions a query has found mined or unknown
    wait,           \* ticks until nextTimeoutRun, -1 when it has passed
    missedHead,     \* a head was lost and none has come since (history)
    twice           \* transactions inserted twice with other addresses (history)

nodeVars == <<isETC, status, best>>
subVars == <<sub, heads, news, drops, missedHead>>
workVars == <<adder, resync, block, asked, wait, initialized>>
vars == <<poolVars, nodeVars, subVars, fails, bestHeader, workVars, twice>>

Adders == {"news", "resync"}
Subscriptions == {"heads", "news"}
Idle == [pc |-> "idle", txid |-> 0, entry |-> 0]

Init ==
    /\ PoolInit
    /\ isETC \in BOOLEAN
    /\ status \in [Txs -> {0, -1}] /\ best = 1
    /\ sub = [s \in Subscriptions |-> FALSE]
    /\ heads = <<>> /\ news = {} /\ drops = 0 /\ fails = 0 /\ bestHeader = 0
    /\ initialized = FALSE
    /\ adder = [p \in Adders |-> Idle]
    /\ resync = [pc |-> "start", todo |-> {}]
    /\ block = {} /\ asked = {} /\ wait = Timeout
    /\ missedHead = FALSE /\ twice = {}
-----------------------------------------------------------------------------
(***************************************************************************)
(* The node and its notifications                                          *)
(***************************************************************************)
NodeAccepts(t) ==
    /\ status[t] = 0
    /\ status' = [status EXCEPT ![t] = -1]
    /\ news' = IF sub["news"] THEN news \cup {t} ELSE news
    /\ UNCHANGED <<poolVars, isETC, best, sub, heads, drops, missedHead, fails,
                   bestHeader, workVars, twice>>

NodeMines(ts) ==
    /\ best < MaxBlocks /\ \A t \in ts : status[t] = -1
    /\ best' = best + 1
    /\ status' = [t \in Txs |-> IF t \in ts THEN best + 1 ELSE status[t]]
    /\ heads' = IF sub["heads"] THEN Append(heads, best + 1) ELSE heads
    /\ missedHead' = ~sub["heads"]
    /\ UNCHANGED <<poolVars, isETC, sub, news, drops, fails, bestHeader, workVars, twice>>

\* A subscription fails and what it had on its way is lost ...
SubscriptionError(s) ==
    /\ sub[s] /\ drops < MaxDrops
    /\ sub' = [sub EXCEPT ![s] = FALSE] /\ drops' = drops + 1
    /\ heads' = IF s = "heads" THEN <<>> ELSE heads
    /\ news' = IF s = "news" THEN {} ELSE news
    /\ missedHead' = (missedHead \/ (s = "heads" /\ heads # <<>>))
    /\ UNCHANGED <<poolVars, nodeVars, fails, bestHeader, workVars, twice>>

\* ... until the timer of subscribe succeeds in renewing it.
Resubscribe(s) ==
    /\ initialized /\ ~sub[s] /\ (s = "heads" => ~isETC)
    /\ sub' = [sub EXCEPT ![s] = TRUE]
    /\ UNCHANGED <<poolVars, nodeVars, heads, news, drops, missedHead, fails,
                   bestHeader, workVars, twice>>

\* The goroutine of chanNewBlock: the header becomes the best one.
NewHead ==
    /\ heads # <<>>
    /\ bestHeader' = Head(heads) /\ heads' = Tail(heads)
    /\ UNCHANGED <<poolVars, nodeVars, sub, news, drops, missedHead, fails, workVars, twice>>

\* getBestHeader, when no header is cached or, on Ethereum Classic, when a
\* second has passed: with the lock held, the node is asked.
GetBestHeader ==
    /\ bestHeader = 0 \/ isETC
    /\ bestHeader' = best
    /\ UNCHANGED <<poolVars, nodeVars, subVars, fails, workVars, twice>>
-----------------------------------------------------------------------------
(***************************************************************************)
(* AddTransactionToMempool                                                 *)
(***************************************************************************)
\* EthereumTypeGetErc20FromTx: the transfers come from the receipt if there
\* is one, as there is for a mined transaction, or else from the data.
Erc20Transfers(t, mined) == IF mined THEN Logs[t] ELSE Payload[t]

\* createTxEntry: the output, the input and both sides of the transfers.
AddrIndexes(t, mined) ==
    LET transfers == Erc20Transfers(t, mined)
        ends(i) == <<[addrDesc |-> transfers[i].from, n |-> -i - 1],
                     [addrDesc |-> transfers[i].to, n |-> i]>>
    IN  SelectSeq(<<[addrDesc |-> To[t], n |-> 0], [addrDesc |-> From[t], n |-> -1]>>
                    \o FlattenSeq([i \in DOMAIN transfers |-> ends(i)]),
                  LAMBDA ix : ix.addrDesc # NoAddr)

\* The goroutine p looks for t, under the lock: one that is there is skipped.
AddStart(p, t) ==
    /\ adder[p].pc = "idle"
    /\ adder' = IF t \in DOMAIN txEntries THEN adder
                ELSE [adder EXCEPT ![p] = [pc |-> "read", txid |-> t,
                                           entry |-> [addrIndexes |-> <<>>, time |-> 0]]]

\* The notification goroutine.
NewTx(t) ==
    /\ AddStart("news", t)
    /\ news' = news \ {t}
    /\ UNCHANGED <<poolVars, nodeVars, sub, heads, drops, missedHead, fails, bestHeader,
                   resync, block, asked, wait, initialized, twice>>

\* RemoveTransactionFromMempool
RemoveTransaction(t) == IF t \in DOMAIN txEntries THEN RemoveEntries({t}) ELSE UNCHANGED poolVars

Going(p, r) ==
    /\ adder' = [adder EXCEPT ![p] = r]
    /\ UNCHANGED <<nodeVars, subVars, bestHeader, resync, block, asked, wait, initialized, twice>>

\* GetTransaction: a call that fails, or a transaction the node has lost,
\* which is removed; either way nothing is added.
ReadNothing(p) ==
    LET t == adder[p].txid IN
    /\ adder[p].pc = "read"
    /\ \/ status[t] = 0 /\ UNCHANGED fails
          /\ IF initialized THEN RemoveTransaction(t) ELSE UNCHANGED poolVars
       \/ fails < MaxFails /\ fails' = fails + 1 /\ UNCHANGED poolVars
    /\ Going(p, Idle)

\* GetTransaction: a pending transaction, or a mined one, which is removed
\* and returned all the same.  createTxEntry makes its entry.
ReadTx(p) ==
    LET t == adder[p].txid IN
    /\ adder[p].pc = "read" /\ status[t] # 0
    /\ IF status[t] > 0 /\ initialized THEN RemoveTransaction(t) ELSE UNCHANGED poolVars
    /\ Going(p, [adder[p] EXCEPT !.pc = "insert",
                                 !.entry.addrIndexes = AddrIndexes(t, status[t] > 0)])
    /\ UNCHANGED fails

\* The lock is taken again and the entry is made.
Insert(p) ==
    LET t == adder[p].txid IN
    /\ adder[p].pc = "insert"
    /\ AddEntry(t, adder[p].entry)
    /\ twice' = IF t \in DOMAIN txEntries THEN twice \cup {t} ELSE twice
    /\ adder' = [adder EXCEPT ![p] = Idle]
    /\ UNCHANGED <<nodeVars, subVars, fails, bestHeader, resync, block, asked, wait, initialized>>
-----------------------------------------------------------------------------
(***************************************************************************)
(* InitializeMempool and Resync                                            *)
(***************************************************************************)
Others == <<nodeVars, subVars, fails, bestHeader, twice>>

\* The node's pending transactions are listed, at the start and, on chains
\* configured so, by each Resync.
ListPending ==
    /\ \/ resync.pc = "start" /\ resync' = [pc |-> "init", todo |-> {t \in Txs : status[t] = -1}]
       \/ resync.pc = "idle" /\ isETC
          /\ resync' = [pc |-> "adding", todo |-> {t \in Txs : status[t] = -1}]
    /\ UNCHANGED <<poolVars, adder, block, asked, wait, initialized, Others>>

AddListed(t) ==
    /\ t \in resync.todo /\ AddStart("resync", t)
    /\ resync' = [resync EXCEPT !.todo = @ \ {t}]
    /\ UNCHANGED <<poolVars, block, asked, wait, initialized, Others>>

\* The end of InitializeMempool: both subscriptions are made.
Initialized ==
    /\ resync.pc = "init" /\ resync.todo = {} /\ adder["resync"].pc = "idle"
    /\ resync' = [resync EXCEPT !.pc = "idle"]
    /\ initialized' = TRUE
    /\ sub' = [s \in Subscriptions |-> s = "news" \/ ~isETC]
    /\ UNCHANGED <<poolVars, adder, block, asked, wait, nodeVars, heads, news, drops,
                   missedHead, fails, bestHeader, twice>>

\* Mutant of Timeouts: the next run is put off by every Resync.
TimeoutsPutOff ==
    /\ \/ resync.pc = "adding" /\ resync.todo = {} /\ adder["resync"].pc = "idle"
       \/ resync.pc = "idle" /\ ~isETC
    /\ resync' = [resync EXCEPT !.pc = "idle"]
    /\ wait' = Period
    /\ IF wait = -1 THEN RemoveEntries({t \in DOMAIN txEntries : txEntries[t].time > Timeout})
       ELSE UNCHANGED poolVars
    /\ UNCHANGED <<adder, block, asked, initialized, Others>>

\* The rest of Resync, under the lock: once nextTimeoutRun has passed, entries
\* older than the timeout are removed.
Timeouts ==
    /\ \/ resync.pc = "adding" /\ resync.todo = {} /\ adder["resync"].pc = "idle"
       \/ resync.pc = "idle" /\ ~isETC
    /\ resync' = [resync EXCEPT !.pc = "idle"]
    /\ IF wait = -1
       THEN /\ RemoveEntries({t \in DOMAIN txEntries : txEntries[t].time > Timeout})
            /\ wait' = Period
       ELSE UNCHANGED <<poolVars, wait>>
    /\ UNCHANGED <<adder, block, asked, initialized, Others>>

\* Ages stop counting one past the timeout.
Older(e) == [e EXCEPT !.time = IF @ > Timeout THEN @ ELSE @ + 1]
Tick ==
    /\ txEntries' = [t \in DOMAIN txEntries |-> Older(txEntries[t])]
    /\ adder' = [p \in Adders |-> IF adder[p].pc = "idle" THEN adder[p]
                                         ELSE [adder[p] EXCEPT !.entry = Older(@)]]
    /\ wait' = IF wait = -1 THEN -1 ELSE wait - 1
    /\ UNCHANGED <<addrDescToTx, resync, block, asked, initialized, Others>>
-----------------------------------------------------------------------------
(***************************************************************************)
(* The backend removes what it meets                                       *)
(***************************************************************************)
\* Mutant of GetBlock: the pending block is taken for the next one.
GetBlockPending(n) ==
    /\ initialized /\ block = {} /\ n \in 2 .. best
    /\ block' = {t \in Txs : status[t] \in {n, -1}}
    /\ UNCHANGED <<poolVars, adder, resync, asked, wait, initialized, Others>>

\* GetBlock: the transactions of a block are removed one after another.
GetBlock(n) ==
    /\ initialized /\ block = {} /\ n \in 2 .. best
    /\ block' = {t \in Txs : status[t] = n}
    /\ UNCHANGED <<poolVars, adder, resync, asked, wait, initialized, Others>>

RemoveMined(t) ==
    /\ t \in block
    /\ RemoveTransaction(t) /\ block' = block \ {t}
    /\ UNCHANGED <<adder, resync, asked, wait, initialized, Others>>

\* GetTransaction for a client: what the node does not know, or has mined, is
\* removed when all calls have been answered.
GetTransaction(t) ==
    /\ initialized /\ asked = {} /\ status[t] # -1
    /\ asked' = {t}
    /\ UNCHANGED <<poolVars, adder, resync, block, wait, initialized, Others>>

RemoveAsked(t) ==
    /\ t \in asked
    /\ RemoveTransaction(t) /\ asked' = {}
    /\ UNCHANGED <<adder, resync, block, wait, initialized, Others>>
-----------------------------------------------------------------------------
AdderStep(p) == ReadNothing(p) \/ ReadTx(p) \/ Insert(p)
ResyncStep ==
    \/ ListPending \/ Initialized \/ Timeouts
    \/ \E t \in resync.todo : AddListed(t)
NewTxs == \E t \in news : NewTx(t)

Next ==
    \/ \E t \in Txs : NodeAccepts(t)
    \/ \E ts \in SUBSET Txs : NodeMines(ts)
    \/ \E s \in Subscriptions : SubscriptionError(s) \/ Resubscribe(s)
    \/ NewHead \/ GetBestHeader \/ NewTxs
    \/ \E p \in Adders : AdderStep(p)
    \/ ResyncStep \/ Tick
    \/ \E n \in 2 .. best : GetBlock(n)
    \/ \E t \in Txs : RemoveMined(t) \/ GetTransaction(t) \/ RemoveAsked(t)

Spec == Init /\ [][Next]_vars

\* The goroutines run, Resync is called again and again, time passes, the
\* synchronization asks for the best header and subscriptions are renewed.
FairSpec ==
    /\ Spec
    /\ WF_vars(ResyncStep) /\ WF_vars(Tick) /\ WF_vars(NewTxs) /\ WF_vars(NewHead)
    /\ WF_vars(GetBestHeader)
    /\ \A p \in Adders : WF_vars(AdderStep(p))
    /\ \A s \in Subscriptions : WF_vars(Resubscribe(s))
-----------------------------------------------------------------------------
\* The types of the variables: the mempool, the queue of notifications and the threads.
TypeOK ==
    /\ status \in [Txs -> -1 .. MaxBlocks] /\ best \in 1 .. MaxBlocks
    /\ bestHeader \in 0 .. best /\ \A i \in DOMAIN heads : heads[i] \in 2 .. best
    /\ DOMAIN txEntries \subseteq Txs /\ wait \in -1 .. Timeout + Period
    /\ \A p \in Adders : adder[p].pc \in {"idle", "read", "insert"}
    /\ resync.pc \in {"start", "init", "idle", "adding"} /\ resync.todo \subseteq Txs
    /\ \A i, j \in DOMAIN heads : i < j => heads[i] < heads[j]

\* The entries and the lists of the addresses agree, through every race of
\* an adder with another, with a block and with a query: an entry's addresses
\* list it, and what is listed has an entry, but for a transaction that two
\* adders inserted, one with the addresses of its data and one with those of
\* its receipt.
ListsAgree ==
    /\ \A t \in DOMAIN txEntries, a \in Addrs :
         Range(Listed(t, txEntries[t].addrIndexes, a)) \subseteq Range(addrDescToTx[a])
    /\ \A a \in Addrs : \A i \in DOMAIN addrDescToTx[a] :
         LET o == addrDescToTx[a][i]
         IN  \/ o.txid \in twice
             \/ o.txid \in DOMAIN txEntries
                /\ o \in Range(Listed(o.txid, txEntries[o.txid].addrIndexes, a))

\* A transaction that is still pending is dropped only when it is too old, or
\* by a query that had found it unknown before the node accepted it.
PendingKept ==
    [][\A t \in DOMAIN txEntries :
         t \notin DOMAIN txEntries' /\ status[t] = -1 =>
            txEntries[t].time > Timeout \/ t \in asked]_vars

\* A transaction that has been mined leaves the mempool, even if it was
\* inserted after the block that has it was read.
MinedLeaves ==
    \A t \in Txs : (status[t] > 0 /\ t \in DOMAIN txEntries) ~> t \notin DOMAIN txEntries

\* The cached header reaches the node's best block, unless its notification
\* was lost: then it stays behind until the next block.
HeaderFollows == bestHeader # best ~> (bestHeader = best \/ missedHead)

\* The node is followed although its notifications get lost: what was mined leaves
\* the mempool and the cached header reaches the best block.
NodeFollowed == MinedLeaves /\ HeaderFollows
=============================================================================
