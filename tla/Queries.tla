------------------------------- MODULE Queries -------------------------------
(***************************************************************************)
(* The queries of api/worker.go, with db/txcache.go below them and the     *)
(* address history of server/socketio.go above them.  Every read of the    *)
(* database, of the mempool and of the backend is a step of its own, and   *)
(* the world of QueryWorld moves between two of them.                      *)
(*                                                                         *)
(* A query is a stack of frames, one per Go function that is running: the  *)
(* field at is the read that comes next, got is what the last call         *)
(* returned, ok = FALSE in a result is a Go error.                         *)
(***************************************************************************)
EXTENDS QueryWorld, FiniteSetsExt

CONSTANTS
    Requests,    \* the requests of the clients
    Word,        \* unsigned integers are smaller than this
    MaxChanges   \* steps of the world during one query

ASSUME WordAssumption == Word \in Nat /\ Word > 2 * MaxBlocks

VARIABLES
    enabled,     \* TxCache.enabled
    request,     \* the request that is processed or was answered
    stack,       \* frames of the query, the running function first
    ans,         \* the answer, [ok, ...]
    changes,     \* world steps since the query started
    reorged,     \* a block was disconnected since the query started
    visible,     \* transactions in the mempool or in the index ever since then
    spentThen,   \* outpoints that were spent when the query read the mempool
    failed,      \* the backend did not know a transaction the query asked for
    cacheSafe    \* every row of the cache was written with a height of the index

ghostVars == <<changes, reorged, visible, spentThen, failed>>
queryVars == <<enabled, request, stack, ans, ghostVars, cacheSafe>>
vars == <<worldVars, queryVars>>

Error == [ok |-> FALSE]
Panic == [ok |-> FALSE, panic |-> TRUE]
NoAnswer == [ok |-> FALSE, none |-> TRUE]
Unknown == -1       \* the value of an input that was not found
-----------------------------------------------------------------------------
(* The stack. *)

Top == Head(stack)
At(fn, at) == stack # <<>> /\ Top.fn = fn /\ Top.at = at

Goto(f) == stack' = <<f>> \o Tail(stack) /\ UNCHANGED <<ans, request>>
Call(f, g) == stack' = <<g, f>> \o Tail(stack) /\ UNCHANGED <<ans, request>>
Return(r) ==
    /\ UNCHANGED request
    /\ IF Len(stack) = 1
       THEN stack' = <<>> /\ ans' = r
       ELSE /\ stack' = <<[stack[2] EXCEPT !.got = r]>> \o SubSeq(stack, 3, Len(stack))
            /\ UNCHANGED ans

Fail == Return(Error)
ReadOnly == UNCHANGED <<worldVars, enabled, ghostVars, cacheSafe>>

CacheFrame(t) ==
    [fn |-> "cache", at |-> "db", tx |-> t, conf |-> 0, height |-> 0, got |-> Error]
TxFrame(t, sp) ==
    [fn |-> "tx", at |-> "get", tx |-> t, spending |-> sp, conf |-> 0, height |-> 0,
     hash |-> 0, ins |-> <<>>, spent |-> {}, spenders |-> <<>>, got |-> Error]
SpendFrame(t, n, h) ==
    [fn |-> "spend", at |-> "open", tx |-> t, n |-> n, height |-> h, rows |-> <<>>, got |-> Error]
-----------------------------------------------------------------------------
(* TxCache.GetTransaction *)

NodeKnows(t) == t \in nodePool \cup TxsOf(nodeChain)
NodeConfirmations(t) ==
    IF t \in TxsOf(nodeChain) THEN Len(nodeChain) - HeightOf(nodeChain, t) ELSE 0

CacheGet ==
    /\ At("cache", "db")
    /\ Goto(IF enabled /\ cache[Top.tx] # -1
            THEN [Top EXCEPT !.at = "state", !.height = cache[Top.tx]]
            ELSE [Top EXCEPT !.at = "backend"])
    /\ ReadOnly

\* The number of confirmations is not stored: uint32(bestheight - h + 1).
CacheHit ==
    /\ At("cache", "state")
    /\ Return([ok |-> TRUE, conf |-> (best - Top.height + 1 + Word) % Word, height |-> Top.height])
    /\ ReadOnly

CacheMiss ==
    /\ At("cache", "backend")
    /\ IF ~NodeKnows(Top.tx)
       THEN Fail /\ failed' = TRUE
       ELSE /\ UNCHANGED failed
            /\ IF NodeConfirmations(Top.tx) = 0
               THEN Return([ok |-> TRUE, conf |-> 0, height |-> 0])
               ELSE Goto([Top EXCEPT !.at = "row", !.conf = NodeConfirmations(Top.tx)])
    /\ UNCHANGED <<worldVars, enabled, changes, reorged, visible, spentThen, cacheSafe>>

CacheRow ==
    /\ At("cache", "row")
    /\ Goto(IF RowHeight(Top.tx) = -1
            THEN [Top EXCEPT !.at = "best"]
            ELSE [Top EXCEPT !.at = "put", !.height = RowHeight(Top.tx)])
    /\ ReadOnly

\* The transaction is not indexed yet: the height is the height of the backend.
CacheBest ==
    /\ At("cache", "best")
    /\ Goto([Top EXCEPT !.at = "put", !.height = Len(nodeChain) - 1])
    /\ cacheSafe' = FALSE
    /\ UNCHANGED <<worldVars, enabled, ghostVars>>

CachePut ==
    /\ At("cache", "put")
    /\ cache' = IF enabled THEN [cache EXCEPT ![Top.tx] = Top.height] ELSE cache
    /\ Return([ok |-> TRUE, conf |-> Top.conf, height |-> Top.height])
    /\ UNCHANGED <<nodeVars, chain, best, pool, enabled, ghostVars, cacheSafe>>

CacheSteps == CacheGet \/ CacheHit \/ CacheMiss \/ CacheRow \/ CacheBest \/ CachePut
-----------------------------------------------------------------------------
(* GetTransaction and GetTransactionFromBchainTx *)

TxGet ==
    /\ At("tx", "get")
    /\ Call([Top EXCEPT !.at = "got"], CacheFrame(Top.tx))
    /\ ReadOnly

\* The loop over the inputs, or what follows it.
AtInput(f) == [f EXCEPT !.at = IF Len(f.ins) = Len(Ins[f.tx]) THEN "outs" ELSE "ins"]

TxGot ==
    /\ At("tx", "got")
    /\ LET r == Top.got
           f == [Top EXCEPT !.at = "row", !.conf = r.conf, !.height = r.height]
       IN  IF ~r.ok THEN Fail ELSE Goto(IF r.conf > 0 THEN f ELSE AtInput(f))
    /\ ReadOnly

SpentOutputs(t) == {n \in DOMAIN Outs[t] : SpentIn(TxsOf(chain), [tx |-> t, vout |-> n])}

TxRow ==
    /\ At("tx", "row")
    /\ Goto([Top EXCEPT !.at = "hash",
                        !.spent = IF RowHeight(Top.tx) # -1 THEN SpentOutputs(Top.tx) ELSE {}])
    /\ ReadOnly

TxHash ==
    /\ At("tx", "hash")
    /\ Goto(AtInput([Top EXCEPT !.hash = HashAt(Top.height)]))
    /\ ReadOnly

\* One input: its value is in the row of the transaction it spends from, or
\* that transaction is read like any other.
TxInput ==
    /\ At("tx", "ins")
    /\ LET o == Ins[Top.tx][Len(Top.ins) + 1]
       IN  IF RowHeight(o.tx) # -1
           THEN Goto(AtInput([Top EXCEPT !.ins = Append(@, Outs[o.tx][o.vout].val)]))
           ELSE Call([Top EXCEPT !.at = "in"], CacheFrame(o.tx))
    /\ ReadOnly

TxInputGot ==
    /\ At("tx", "in")
    /\ LET o == Ins[Top.tx][Len(Top.ins) + 1]
           value == IF Top.got.ok THEN Outs[o.tx][o.vout].val ELSE Unknown
       IN  Goto(AtInput([Top EXCEPT !.ins = Append(@, value)]))
    /\ ReadOnly

TxResult(f) ==
    [ok |-> TRUE, tx |-> f.tx, conf |-> f.conf, height |-> f.height, hash |-> f.hash,
     ins |-> f.ins, spent |-> f.spent, spenders |-> f.spenders]

\* The spent outputs whose spending transaction was asked for, one by one.
TxOutput ==
    /\ At("tx", "outs")
    /\ LET left == IF Top.spending THEN Top.spent \ DOMAIN Top.spenders ELSE {}
       IN  IF left = {} THEN Return(TxResult(Top))
           ELSE Call([Top EXCEPT !.at = "out"], SpendFrame(Top.tx, Min(left), Top.height))
    /\ ReadOnly

TxOutputGot ==
    /\ At("tx", "out")
    /\ LET n == Min(Top.spent \ DOMAIN Top.spenders)
       IN  Goto([Top EXCEPT !.at = "outs", !.spenders = @ @@ (n :> Top.got)])
    /\ ReadOnly

TxSteps == \/ TxGet \/ TxGot \/ TxRow \/ TxHash
           \/ TxInput \/ TxInputGot \/ TxOutput \/ TxOutputGot
-----------------------------------------------------------------------------
(* setSpendingTxToVout and GetSpendingTxid *)

\* The inputs that spend from the address of the output, in the order of the
\* iterator of GetAddrDescTransactions, which reads a snapshot.
InputsOf(a, h) ==
    LET rows == SelectSeq(History(a), LAMBDA t : HeightOf(chain, t) >= h)
        idx(t) == SetToSortSeq({x \in IndexesOf(a, t) : x < 0}, >)
    IN  FlattenSeq([k \in DOMAIN rows |->
            [j \in DOMAIN idx(rows[k]) |-> [tx |-> rows[k], i |-> -idx(rows[k])[j]]]])

SpendOpen ==
    /\ At("spend", "open")
    /\ Goto([Top EXCEPT !.at = "row", !.rows = InputsOf(Outs[Top.tx][Top.n].addr, Top.height)])
    /\ ReadOnly

InputValue(c) == LET o == Ins[c.tx][c.i] IN Outs[o.tx][o.vout].val

SpendRow ==
    /\ At("spend", "row")
    /\ IF Top.rows = <<>> THEN Fail
       ELSE IF /\ RowHeight(Head(Top.rows).tx) # -1
               /\ InputValue(Head(Top.rows)) = Outs[Top.tx][Top.n].val
       THEN Call([Top EXCEPT !.at = "tx"], CacheFrame(Head(Top.rows).tx))
       ELSE Goto([Top EXCEPT !.rows = Tail(@)])
    /\ ReadOnly

\* The input is taken for the spender if it spends from the transaction; the
\* number of the output is not compared.
SpendTx ==
    /\ At("spend", "tx")
    /\ LET row == Head(Top.rows)
       IN  IF Top.got.ok /\ Ins[row.tx][row.i].tx = Top.tx
           THEN Return([ok |-> TRUE, tx |-> row.tx, i |-> row.i, height |-> Top.got.height])
           ELSE Goto([Top EXCEPT !.at = "row", !.rows = Tail(@)])
    /\ ReadOnly

\* GetSpendingTxid: the transaction, then the search; the request is
\* [fn, at, tx, n, got].
SpendingGet ==
    /\ At("spending", "get")
    /\ Call([Top EXCEPT !.at = "got"], TxFrame(Top.tx, FALSE))
    /\ ReadOnly

SpendingGot ==
    /\ At("spending", "got")
    /\ IF ~Top.got.ok \/ Top.n \notin DOMAIN Outs[Top.tx] THEN Fail
       ELSE Call([Top EXCEPT !.at = "found"], SpendFrame(Top.tx, Top.n, Top.got.height))
    /\ ReadOnly

SpendingFound ==
    /\ At("spending", "found")
    /\ Return([ok |-> TRUE, spender |-> Top.got])
    /\ ReadOnly

SpendSteps == \/ SpendOpen \/ SpendRow \/ SpendTx
              \/ SpendingGet \/ SpendingGot \/ SpendingFound
-----------------------------------------------------------------------------
(* GetAddress; the request is [fn, at, addr, page, size, option, filter, got]
   with the page from 0 and the fields of AddressFilter in filter. *)

FilterVoutOff == -1
FilterVoutInputs == -2
FilterVoutOutputs == -3

\* The callback of getAddressTxids.
Matches(vout, indexes) ==
    \/ vout = FilterVoutOff
    \/ \E x \in indexes : \/ vout = FilterVoutInputs /\ x < 0
                          \/ vout = FilterVoutOutputs /\ x >= 0
                          \/ vout = IF x < 0 THEN -x - 1 ELSE x

\* getAddressTxids from the mempool: each transaction once.
MempoolTxids(a, filter) ==
    SelectSeq(Order, LAMBDA t : /\ t \in pool
                                /\ IndexesOf(a, t) # {}
                                /\ Matches(filter.vout, IndexesOf(a, t)))

\* getAddressTxids from the index: at most max of them, from the newest.
IndexTxids(a, filter, max) ==
    LET in(t) == /\ Matches(filter.vout, IndexesOf(a, t))
                 /\ HeightOf(chain, t) >= filter.from
                 /\ filter.to = 0 \/ HeightOf(chain, t) <= filter.to
        all == SelectSeq(History(a), in)
    IN  SubSeq(all, 1, IF Len(all) < max THEN Len(all) ELSE max)

NoFilter(filter) == filter.vout = FilterVoutOff /\ filter.from = 0 /\ filter.to = 0

ComputePaging(count, page, items) ==
    LET last == IF count = 0 THEN 0 ELSE (count - 1) \div items
        p == IF page * items >= count THEN last ELSE page
    IN  [page |-> p, pages |-> last + 1,
         from |-> p * items,
         to |-> IF (p + 1) * items > count THEN count ELSE (p + 1) * items]

\* Mutant of ValueFor: what the address spends is left out.
ValueForOutputs(a, t, ins) ==
    MapThenSumSet(LAMBDA n : Outs[t][n].val, {n \in DOMAIN Outs[t] : Outs[t][n].addr = a})

\* getAddrVoutValue less getAddrVinValue: what a transaction changes for an address.
ValueFor(a, t, ins) ==
    LET outs == {n \in DOMAIN Outs[t] : Outs[t][n].addr = a}
        spent == {i \in DOMAIN ins : /\ ins[i] # Unknown
                                     /\ Outs[Ins[t][i].tx][Ins[t][i].vout].addr = a}
    IN  MapThenSumSet(LAMBDA n : Outs[t][n].val, outs) - MapThenSumSet(LAMBDA i : ins[i], spent)

AddressFrame(q) ==
    q @@ [total |-> 0, balance |-> 0, txm |-> <<>>, txids |-> <<>>, txs |-> <<>>,
          unconfirmed |-> 0, ubal |-> 0, txc |-> <<>>, best |-> 0, pages |-> 0, height |-> 0]

AddressResult(f) ==
    [ok |-> TRUE, txids |-> f.txids, txs |-> f.txs, pages |-> f.pages, page |-> f.page,
     unconfirmed |-> f.unconfirmed, ubal |-> f.ubal, balance |-> f.balance, total |-> f.total]

AddressBalance ==
    /\ At("address", "balance")
    /\ LET n == Len(History(Top.addr))
       IN  Goto([Top EXCEPT
                 !.at = IF Top.filter.to = 0 /\ ~Top.filter.onlyConfirmed THEN "mempool" ELSE "history",
                 !.page = IF n = 0 THEN 0 ELSE @,
                 !.balance = FoldSeq(LAMBDA o, sum : sum + Outs[o.tx][o.vout].val, 0, UtxosOf(Top.addr)),
                 !.total = IF n = 0 \/ NoFilter(Top.filter) THEN n ELSE -1])
    /\ ReadOnly

AtPending(f) == [f EXCEPT !.at = IF f.txm = <<>> THEN "history" ELSE "pending"]

AddressMempool ==
    /\ At("address", "mempool")
    /\ Goto(AtPending([Top EXCEPT !.txm = MempoolTxids(Top.addr, Top.filter)]))
    /\ ReadOnly

AddressPending ==
    /\ At("address", "pending")
    /\ Call([Top EXCEPT !.at = "pended"], TxFrame(Head(Top.txm), FALSE))
    /\ ReadOnly

\* A transaction of the mempool may fail, and one that is already confirmed is
\* left to the index.
AddressPended ==
    /\ At("address", "pended")
    /\ LET r == Top.got
           t == Head(Top.txm)
           show == Top.page = 0
       IN  Goto(AtPending(
               IF r.ok /\ r.conf = 0
               THEN [Top EXCEPT !.txm = Tail(@),
                                !.unconfirmed = @ + 1,
                                !.ubal = @ + ValueFor(Top.addr, t, r.ins),
                                !.txids = IF show /\ Top.option # "basic" THEN Append(@, t) ELSE @,
                                !.txs = IF show /\ Top.option \in {"light", "full"}
                                        THEN Append(@, r) ELSE @]
               ELSE [Top EXCEPT !.txm = Tail(@)]))
    /\ ReadOnly

AddressHistory ==
    /\ At("address", "history")
    /\ IF Top.option = "basic" THEN Return(AddressResult(Top))
       ELSE Goto([Top EXCEPT !.at = "best",
                             !.txc = IndexTxids(Top.addr, Top.filter, (Top.page + 1) * Top.size)])
    /\ ReadOnly

AddressBest ==
    /\ At("address", "best")
    /\ LET pg == ComputePaging(Len(Top.txc), Top.page, Top.size)
           shown == IF Len(Top.txc) < Top.size THEN pg
                    ELSE IF Top.total < 0 THEN [pg EXCEPT !.pages = -1]
                    ELSE ComputePaging(Top.total, pg.page, Top.size)
           items == SubSeq(Top.txc, pg.from + 1, pg.to)
           f == [Top EXCEPT !.at = "item", !.page = shown.page, !.pages = shown.pages,
                            !.best = BestHeight, !.txc = items]
       IN  IF Top.option = "txids" \/ items = <<>>
           THEN Return(AddressResult([f EXCEPT !.txids = @ \o items]))
           ELSE Goto(f)
    /\ ReadOnly

\* txFromTxid: TxHistoryLight takes the transaction from its row.
AddressItem ==
    /\ At("address", "item")
    /\ LET t == Head(Top.txc)
       IN  IF Top.option = "light" /\ RowHeight(t) # -1
           THEN Goto([Top EXCEPT !.at = "info", !.height = RowHeight(t)])
           ELSE Call([Top EXCEPT !.at = "itemGot"], TxFrame(t, FALSE))
    /\ ReadOnly

NextItem(r) ==
    LET f == [Top EXCEPT !.at = "item", !.txc = Tail(@),
                         !.txids = Append(@, Head(Top.txc)), !.txs = Append(@, r)]
    IN  IF f.txc = <<>> THEN Return(AddressResult(f)) ELSE Goto(f)

\* txFromTxAddress: confirmations are uint32(bestheight - ta.Height + 1).
AddressInfo ==
    /\ At("address", "info")
    /\ LET t == Head(Top.txc)
       IN  NextItem([ok |-> TRUE, tx |-> t, height |-> Top.height, hash |-> HashAt(Top.height),
                     conf |-> (Top.best - Top.height + 1 + Word) % Word])
    /\ ReadOnly

AddressItemGot ==
    /\ At("address", "itemGot")
    /\ IF Top.got.ok THEN NextItem(Top.got) ELSE Fail
    /\ ReadOnly

AddressSteps == \/ AddressBalance \/ AddressMempool \/ AddressPending \/ AddressPended
                \/ AddressHistory \/ AddressBest
                \/ AddressItem \/ AddressInfo \/ AddressItemGot
-----------------------------------------------------------------------------
(* GetAddressUtxo; the request is [fn, at, addr, onlyConfirmed, got]. *)

UtxoFrame(q) == q @@ [txm |-> <<>>, mc |-> <<>>, utxos |-> <<>>]

AtUtxoPending(f) == [f EXCEPT !.at = IF f.txm = <<>> THEN "index" ELSE "pending"]

\* The outpoints that are spent; none if the mempool lags behind the index.
SpentNow ==
    IF pool \cap TxsOf(chain) # {} THEN {}
    ELSE UNION {ToSet(Ins[t]) : t \in TxsOf(chain) \cup IF Top.onlyConfirmed THEN {} ELSE pool}

\* Mutant of UtxoMempool: the mempool is not read.
UtxoMempoolSkip ==
    /\ At("utxo", "mempool")
    /\ Goto([Top EXCEPT !.at = "index"])
    /\ spentThen' = SpentNow
    /\ UNCHANGED <<worldVars, enabled, changes, reorged, visible, failed, cacheSafe>>

UtxoMempool ==
    /\ At("utxo", "mempool")
    /\ LET none == [vout |-> FilterVoutOff]
       IN  Goto(AtUtxoPending(IF Top.onlyConfirmed THEN Top
                              ELSE [Top EXCEPT !.txm = MempoolTxids(Top.addr, none)]))
    /\ spentThen' = SpentNow
    /\ UNCHANGED <<worldVars, enabled, changes, reorged, visible, failed, cacheSafe>>

UtxoPending ==
    /\ At("utxo", "pending")
    /\ Call([Top EXCEPT !.at = "pended"], CacheFrame(Head(Top.txm)))
    /\ ReadOnly

UtxoPended ==
    /\ At("utxo", "pended")
    /\ Goto(AtUtxoPending([Top EXCEPT !.txm = Tail(@),
                                      !.mc = IF Top.got.ok THEN Append(@, Head(Top.txm)) ELSE @]))
    /\ ReadOnly

\* The outputs of the mempool transactions that are not spent in the mempool.
\* The index is not asked whether they are confirmed or spent there.
MempoolUtxos(f) ==
    FlattenSeq([k \in DOMAIN f.mc |->
        LET t == f.mc[k]
            os == [n \in DOMAIN Outs[t] |-> [tx |-> t, vout |-> n, conf |-> 0]]
        IN  SelectSeq(os, LAMBDA o : /\ Outs[t][o.vout].addr = f.addr
                                     /\ ~SpentIn(ToSet(f.mc), [tx |-> t, vout |-> o.vout]))])

UtxoIndex ==
    /\ At("utxo", "index")
    /\ LET us == Reverse(UtxosOf(Top.addr))
       IN  IF us = <<>> THEN Return([ok |-> TRUE, utxos |-> MempoolUtxos(Top)])
           ELSE Goto([Top EXCEPT !.at = "best",
                                 !.utxos = [k \in DOMAIN us |->
                                               us[k] @@ [height |-> RowHeight(us[k].tx)]]])
    /\ ReadOnly

UtxoBest ==
    /\ At("utxo", "best")
    /\ LET left == SelectSeq(Top.utxos, LAMBDA u : ~SpentIn(ToSet(Top.mc), [tx |-> u.tx, vout |-> u.vout]))
           listed == [k \in DOMAIN left |-> [tx |-> left[k].tx, vout |-> left[k].vout,
                                             conf |-> BestHeight - left[k].height + 1]]
       IN  Return([ok |-> TRUE, utxos |-> MempoolUtxos(Top) \o listed])
    /\ ReadOnly

UtxoSteps == UtxoMempool \/ UtxoPending \/ UtxoPended \/ UtxoIndex \/ UtxoBest
-----------------------------------------------------------------------------
(* GetBlocks, GetBlock and GetMempool; the requests are [fn, at, page, size,
   got], for a block with its height. *)

BlocksFrame(q) == q @@ [best |-> 0, i |-> 0, from |-> 0, to |-> 0, list |-> <<>>]

BlocksBest ==
    /\ At("blocks", "best")
    /\ LET pg == ComputePaging(BestHeight + 1, Top.page, Top.size)
       IN  IF pg.to < pg.from THEN Return(Panic)
           ELSE Goto([Top EXCEPT !.at = "info", !.best = BestHeight,
                                 !.i = pg.from, !.from = pg.from, !.to = pg.to])
    /\ ReadOnly

\* A block that is missing ends the list: r.Blocks[:i], where the slice has
\* to - from elements, of which i - from are set.
BlocksInfo ==
    /\ At("blocks", "info")
    /\ LET h == Top.best - Top.i
           filled == Append(Top.list, h)
           zeros == [k \in 1 .. Top.from |-> -1]
       IN  IF HashAt(h) = 0
           THEN Return(IF Top.i > Top.to - Top.from THEN Panic
                       ELSE [ok |-> TRUE, heights |-> Top.list \o zeros])
           ELSE IF Top.i + 1 = Top.to THEN Return([ok |-> TRUE, heights |-> filled])
           ELSE Goto([Top EXCEPT !.i = @ + 1, !.list = filled])
    /\ ReadOnly

BlockFrame(q) ==
    q @@ [hash |-> 0, next |-> 0, best |-> 0, txids |-> <<>>, txs |-> <<>>, pages |-> 0]

BlockHash ==
    /\ At("block", "hash")
    /\ IF HashAt(Top.height) = 0 THEN Fail
       ELSE Goto([Top EXCEPT !.at = "info", !.hash = HashAt(Top.height)])
    /\ ReadOnly

\* The backend knows the blocks it gave up as well.
BlockInfo ==
    /\ At("block", "info")
    /\ LET b == blocks[Top.hash]
           more == b.height + 2 \in DOMAIN nodeChain /\ nodeChain[b.height + 1] = b
       IN  Goto([Top EXCEPT !.at = "best", !.txids = b.txs,
                            !.next = IF more THEN nodeChain[b.height + 2].id ELSE 0])
    /\ ReadOnly

BlockResult(f, next) ==
    [ok |-> TRUE, hash |-> f.hash, txs |-> f.txs, pages |-> f.pages, next |-> next]

AtBlockItem(f) == [f EXCEPT !.at = IF f.txids = <<>> THEN "next" ELSE "item"]

BlockBest ==
    /\ At("block", "best")
    /\ LET pg == ComputePaging(Len(Top.txids), Top.page, Top.size)
       IN  Goto(AtBlockItem([Top EXCEPT !.best = BestHeight, !.pages = pg.pages,
                                        !.txids = SubSeq(@, pg.from + 1, pg.to)]))
    /\ ReadOnly

BlockItem ==
    /\ At("block", "item")
    /\ Call([Top EXCEPT !.at = "itemGot"], TxFrame(Head(Top.txids), FALSE))
    /\ ReadOnly

BlockItemGot ==
    /\ At("block", "itemGot")
    /\ IF Top.got.ok
       THEN Goto(AtBlockItem([Top EXCEPT !.txids = Tail(@), !.txs = Append(@, Top.got)]))
       ELSE Fail
    /\ ReadOnly

\* The next block, if the backend did not name one, from the index.
BlockNext ==
    /\ At("block", "next")
    /\ Return(BlockResult(Top, IF Top.next = 0 /\ Top.height # Top.best
                               THEN HashAt(Top.height + 1) ELSE Top.next))
    /\ ReadOnly

MempoolPage ==
    /\ At("mempool", "entries")
    /\ LET entries == SelectSeq(Order, LAMBDA t : t \in pool)
           pg == ComputePaging(Len(entries), Top.page, Top.size)
       IN  Return([ok |-> TRUE, pages |-> pg.pages,
                   txids |-> SubSeq(entries, pg.from + 1, pg.to)])
    /\ ReadOnly

BlockSteps == \/ BlocksBest \/ BlocksInfo
              \/ BlockHash \/ BlockInfo \/ BlockBest \/ BlockItem \/ BlockItemGot \/ BlockNext
              \/ MempoolPage
-----------------------------------------------------------------------------
(* getAddressTxids and getAddressHistory of the socket.io server; the request
   is [fn, at, addrs, lower, higher, from, to, mempoolOnly, got]. *)

HistoryFrame(q) == q @@ [left |-> q.addrs, txids |-> <<>>, count |-> 0, items |-> <<>>]

\* GetUniqueTxids: the first of equal transactions is kept.
UniqueTxids(s) ==
    FoldLeft(LAMBDA u, t : IF t \in ToSet(u) THEN u ELSE Append(u, t), <<>>, s)

HistoryDone(f) == [ok |-> TRUE, count |-> f.count, items |-> f.items]

\* The transactions of one address, from the index or from the mempool; after
\* the last one the part that was asked for is cut out.
HistoryTxids ==
    /\ At("history", "txids")
    /\ LET a == Head(Top.left)
           some == IF Top.mempoolOnly THEN MempoolTxids(a, [vout |-> FilterVoutOff])
                   ELSE SelectSeq(History(a), LAMBDA t : HeightOf(chain, t) \in Top.lower .. Top.higher)
           f == [Top EXCEPT !.left = Tail(@), !.txids = @ \o some]
           all == UniqueTxids(f.txids)
           to == IF Len(all) > Top.to THEN Top.to ELSE Len(all)
           g == [f EXCEPT !.at = "item", !.count = Len(all), !.txids = SubSeq(all, Top.from + 1, to)]
       IN  IF f.left # <<>> THEN Goto(f)
           ELSE IF g.txids = <<>> THEN Return(HistoryDone(g)) ELSE Goto(g)
    /\ ReadOnly

HistoryItem ==
    /\ At("history", "item")
    /\ Call([Top EXCEPT !.at = "itemGot"], TxFrame(Head(Top.txids), FALSE))
    /\ ReadOnly

\* What the transaction changes for all addresses of the request together, and
\* txToResTx, which shows the height of an unconfirmed transaction as -1.
HistoryItemGot ==
    /\ At("history", "itemGot")
    /\ LET r == Top.got
           sat == FoldSeq(LAMBDA a, sum : sum + ValueFor(a, r.tx, r.ins), 0, Top.addrs)
           f == [Top EXCEPT !.at = "item", !.txids = Tail(@),
                            !.items = Append(@, [tx |-> r.tx, sat |-> sat, conf |-> r.conf,
                                                 height |-> IF r.conf = 0 THEN -1 ELSE r.height])]
       IN  IF ~r.ok THEN Fail
           ELSE IF f.txids = <<>> THEN Return(HistoryDone(f)) ELSE Goto(f)
    /\ ReadOnly

HistorySteps == HistoryTxids \/ HistoryItem \/ HistoryItemGot
-----------------------------------------------------------------------------
Frame(q) ==
    CASE q.fn = "tx" -> TxFrame(q.tx, q.spending)
      [] q.fn = "spending" -> q
      [] q.fn = "address" -> AddressFrame(q)
      [] q.fn = "utxo" -> UtxoFrame(q)
      [] q.fn = "blocks" -> BlocksFrame(q)
      [] q.fn = "block" -> BlockFrame(q)
      [] q.fn = "mempool" -> q
      [] q.fn = "history" -> HistoryFrame(q)

NoRequest == [fn |-> "none"]

Init ==
    /\ WorldInit
    /\ enabled \in BOOLEAN
    /\ request = NoRequest /\ stack = <<>> /\ ans = NoAnswer
    /\ changes = 0 /\ reorged = FALSE /\ visible = {} /\ spentThen = {} /\ failed = FALSE
    /\ cacheSafe = TRUE

Idle == request = NoRequest
Running == stack # <<>>

Start(q) ==
    /\ Idle
    /\ request' = q
    /\ stack' = <<Frame(q)>>
    /\ visible' = pool \cup TxsOf(chain)
    /\ UNCHANGED <<worldVars, enabled, ans, changes, reorged, spentThen, failed, cacheSafe>>

\* The client has its answer.
Deliver ==
    /\ ~Idle /\ ~Running
    /\ request' = NoRequest /\ ans' = NoAnswer
    /\ changes' = 0 /\ reorged' = FALSE /\ visible' = {} /\ spentThen' = {} /\ failed' = FALSE
    /\ UNCHANGED <<worldVars, enabled, stack, cacheSafe>>

QueryStep == CacheSteps \/ TxSteps \/ SpendSteps \/ AddressSteps \/ UtxoSteps
             \/ BlockSteps \/ HistorySteps

\* A row of the column transactions is about to be written with the height of
\* a block that is being disconnected.
PutPending == \E k \in DOMAIN stack : stack[k].fn = "cache" /\ stack[k].at = "put"

\* The next step of the query reads nothing: it commutes with a step of the
\* world, which can as well be taken before the next read.
Local ==
    \/ Top.at \in {"get", "got", "in", "outs", "out", "tx", "found",
                   "pending", "pended", "itemGot"}
    \/ Top.fn \in {"block", "history"} /\ Top.at = "item"

WorldStep ==
    /\ Idle \/ (Running /\ ~Local /\ changes < MaxChanges)
    /\ WorldNext
    /\ changes' = IF Idle THEN 0 ELSE changes + 1
    /\ visible' = visible \cap (pool' \cup TxsOf(chain'))
    /\ LET down == Len(chain') < Len(chain)
       IN  /\ reorged' = (reorged \/ (~Idle /\ down))
           /\ cacheSafe' = (cacheSafe /\ ~(down /\ PutPending))
    /\ UNCHANGED <<enabled, request, stack, ans, spentThen, failed>>

Next ==
    \/ \E q \in Requests : Start(q)
    \/ QueryStep
    \/ Deliver
    \/ WorldStep

Fairness == WF_vars(QueryStep)

Spec == Init /\ [][Next]_vars /\ Fairness
-----------------------------------------------------------------------------
(* Properties. *)

Functions == {"cache", "tx", "spend", "spending", "address", "utxo", "blocks",
              "block", "mempool", "history"}

\* The state stays in its types: frames are those of the functions above and
\* only the first one runs, a query is running or has its answer.
TypeOK ==
    /\ nodePool \subseteq Tx /\ pool \subseteq Tx /\ visible \subseteq Tx
    /\ cache \in [Tx -> -1 .. MaxBlocks]
    /\ best \in 0 .. MaxBlocks /\ changes \in 0 .. MaxChanges
    /\ request \in Requests \cup {NoRequest}
    /\ \A k \in DOMAIN stack : stack[k].fn \in Functions
    /\ Running => ~Idle /\ stack[Len(stack)].fn = request.fn
    /\ {enabled, reorged, failed, cacheSafe} \subseteq BOOLEAN

Answer(fn) == ~Idle /\ ~Running /\ request.fn = fn

\* A row of the column transactions has the height of its transaction in the
\* index, at all times of the sync, of a fork and of queries that write rows,
\* as long as no transaction was read before it was indexed and no block was
\* disconnected below a query that was about to write.
CacheExact ==
    cacheSafe => \A t \in Tx : cache[t] # -1 => cache[t] = RowHeight(t)

\* An answer of GetAddress that lists the transactions leaves none out that was
\* in the mempool or in the index all the time: one that is mined while the
\* query runs is found in the mempool or in the index, since the mempool is
\* read first.
NothingLost ==
    /\ Answer("address") /\ ans.ok /\ cacheSafe /\ ~reorged /\ ~failed
    /\ request.option # "basic" /\ request.page = 0 /\ request.size >= Len(Order)
    /\ NoFilter(request.filter) /\ ~request.filter.onlyConfirmed
    => \A t \in visible : IndexesOf(request.addr, t) # {} => t \in ToSet(ans.txids)

\* GetAddressUtxo never lists an outpoint that was spent, in the mempool or in
\* the index, when it read the mempool, while blocks with the spending or the
\* spent transactions are connected (spentThen is empty if the mempool held a
\* transaction of the index then).
NoSpentListed ==
    Answer("utxo") /\ ~reorged /\ ~failed
    => \A u \in ToSet(ans.utxos) : [tx |-> u.tx, vout |-> u.vout] \notin spentThen

Shown ==
    IF Answer("address") /\ ans.ok THEN ToSet(ans.txs)
    ELSE IF Answer("block") /\ ans.ok THEN ToSet(ans.txs)
    ELSE IF Answer("history") /\ ans.ok THEN ToSet(ans.items)
    ELSE IF Answer("tx") /\ ans.ok THEN {ans}
    ELSE {}

\* The confirmations of a transaction, computed with unsigned integers from
\* heights that are read at different times, neither wrap around nor are 0 for
\* a transaction that was in the index since the query began, unless the node
\* gave up its block.
ConfirmationsSane ==
    cacheSafe /\ ~reorged
    => \A r \in Shown : /\ r.conf <= MaxBlocks
                        /\ r.tx \in visible \ pool /\ IsPrefix(chain, nodeChain) => r.conf > 0

\* GetBlocks answers with a page of consecutive blocks of the index, without a
\* panic, while blocks are connected.
BlocksExact ==
    Answer("blocks") /\ ~reorged
    => /\ ans.ok
       /\ ans.heights # <<>>
       /\ Len(ans.heights) <= request.size
       /\ \A k \in DOMAIN ans.heights : ans.heights[k] = Head(ans.heights) - k + 1
       /\ Last(ans.heights) >= 0
       /\ Last(ans.heights) = 0 \/ Len(ans.heights) = request.size

\* Nothing moved since the query began, and all follow the node.
Steady == ~Idle /\ ~Running /\ changes = 0 /\ InSync /\ cacheSafe

\* In a steady state GetTransaction shows the transaction as the node has it,
\* from the cache or not: confirmations, block, the values of all inputs, the
\* spent outputs and a spender for each that spends from the transaction.
TxExact ==
    Steady /\ request.fn = "tx" =>
        LET t == request.tx
            conf == NodeConfirmations(t)
        IN  /\ ans.ok = NodeKnows(t)
            /\ ans.ok =>
               /\ ans.conf = conf
               /\ conf > 0 => /\ ans.height = HeightOf(nodeChain, t)
                              /\ ans.hash = nodeChain[ans.height + 1].id
                              /\ ans.spent = SpentOutputs(t)
               /\ ans.ins = [i \in DOMAIN Ins[t] |-> Outs[Ins[t][i].tx][Ins[t][i].vout].val]
               /\ request.spending => \A n \in ans.spent :
                      /\ ans.spenders[n].ok
                      /\ Ins[ans.spenders[n].tx][ans.spenders[n].i].tx = t

\* In a steady state GetAddress answers with the unconfirmed transactions on
\* the first page, the page of the history, and the balance the unconfirmed
\* transactions leave.
AddressExact ==
    Steady /\ request.fn = "address" =>
        LET a == request.addr
            f == request.filter
            mem == IF f.to = 0 /\ ~f.onlyConfirmed THEN MempoolTxids(a, f) ELSE <<>>
            all == IndexTxids(a, f, Len(Order))
            pg == ComputePaging(Len(all), request.page, request.size)
            first == request.page = 0 \/ History(a) = <<>>
            touched == {o \in {[tx |-> t, vout |-> n] : t \in Tx, n \in 1 .. 2} :
                           o.vout \in DOMAIN Outs[o.tx] /\ Outs[o.tx][o.vout].addr = a}
            value(ts) == MapThenSumSet(LAMBDA o : Outs[o.tx][o.vout].val,
                             {o \in touched : o.tx \in ts /\ ~SpentIn(ts, o)})
        IN  /\ ans.ok
            /\ ans.balance = value(TxsOf(chain))
            /\ f.vout = FilterVoutOff /\ mem # <<>>
               => ans.balance + ans.ubal = value(TxsOf(chain) \cup pool)
            /\ ans.unconfirmed = Len(mem)
            /\ request.option # "basic"
               => ans.txids = (IF first THEN mem ELSE <<>>) \o SubSeq(all, pg.from + 1, pg.to)
            /\ request.option # "basic" /\ ans.pages # -1 => ans.pages = pg.pages

\* In a steady state GetAddressUtxo lists every outpoint of the address that
\* neither the mempool nor the index spends, once.
UtxoExact ==
    Steady /\ request.fn = "utxo" =>
        LET ts == TxsOf(chain) \cup IF request.onlyConfirmed THEN {} ELSE pool
            listed == [k \in DOMAIN ans.utxos |-> [tx |-> ans.utxos[k].tx, vout |-> ans.utxos[k].vout]]
        IN  /\ IsInjective(listed)
            /\ ToSet(listed) = {o \in {[tx |-> t, vout |-> n] : t \in ts, n \in 1 .. 2} :
                                   /\ o.vout \in DOMAIN Outs[o.tx]
                                   /\ Outs[o.tx][o.vout].addr = request.addr
                                   /\ ~SpentIn(ts, o)}

\* While the index moves below a query the answer misses nothing that was there all
\* the time, lists nothing that was spent, shows consecutive blocks, and counts
\* confirmations without wrapping around.
MovingAnswers == NothingLost /\ NoSpentListed /\ ConfirmationsSane /\ BlocksExact

\* When nothing moves the answers are what the chain and the mempool define.
SteadyAnswers == TypeOK /\ TxExact /\ AddressExact /\ UtxoExact
=============================================================================
