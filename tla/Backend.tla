------------------------------- MODULE Backend -------------------------------
(***************************************************************************)
(* The clients of the backend nodes: bchain/coins/btc, skyr, nuls and eth. *)
(* A request of the synchronisation or of the API is one call of the node  *)
(* after the other, and the node finds blocks, reorganises and forgets     *)
(* transactions between two calls; any call may fail.                      *)
(*                                                                         *)
(* Blocks are numbers (0 stands for an empty hash) and blocks[b] is what   *)
(* block b contains.  The node keeps blocks that left its main chain.      *)
(***************************************************************************)
EXTENDS Integers, Sequences, FiniteSets, SequencesExt

CONSTANTS
    Coins,       \* clients: "btcParse" and "btcFull" (ParseBlocks or not), "skyr", "nuls", "eth"
    Order,       \* the transactions, in an order that respects spending
    MaxBlocks,   \* number of blocks the node finds
    MaxMoves,    \* changes of the node during one request
    Word,        \* uint32 wraps around at Word
    Period       \* blocks between two superblocks

VARIABLES
    coin,        \* the client
    blocks,      \* [prev, height, txs] of every block found
    main,        \* the main chain, main[h + 1] is the block at height h
    mempool,     \* transactions that wait
    bestHeader,  \* EthereumRPC.bestHeader, 0 for nil
    token,       \* is the token contract deployed
    contract,    \* cachedContracts: "unset", "nil", "part" or "whole"
    req,         \* the request that runs
    moves        \* changes of the node since it started

nodeVars == <<blocks, main, mempool, token>>
vars == <<coin, nodeVars, bestHeader, contract, req, moves>>

Tx == ToSet(Order)
TxsOf(c) == UNION {ToSet(blocks[c[k]].txs) : k \in DOMAIN c}
Height(b) == blocks[b].height
Tip == Last(main)
At(h) == IF h < Len(main) THEN main[h + 1] ELSE 0
InMain(b) == b \in ToSet(main)
NextOf(b) == IF InMain(b) THEN At(Height(b) + 1) ELSE 0
BlockOf(t) == CHOOSE b \in ToSet(main) : t \in ToSet(blocks[b].txs)
Known(t) == t \in mempool \cup TxsOf(main)

NoRequest == [at |-> "none"]
Idle == req = NoRequest
-----------------------------------------------------------------------------
(* The node. *)

NodeStep ==
    /\ Idle \/ (moves < MaxMoves /\ req.at # "done")
    /\ moves' = IF Idle THEN 0 ELSE moves + 1
    /\ UNCHANGED <<coin, contract, req>>

Mine(ts) ==
    /\ NodeStep
    /\ Len(blocks) < MaxBlocks
    /\ blocks' = Append(blocks, [prev |-> Tip, height |-> Len(main),
                                 txs |-> SelectSeq(Order, LAMBDA t : t \in ts)])
    /\ main' = Append(main, Len(blocks) + 1)
    /\ mempool' = mempool \ ts
    /\ UNCHANGED <<bestHeader, token>>

\* The last block leaves the main chain, its transactions wait again.
Orphan ==
    /\ NodeStep
    /\ Len(main) > 1
    /\ main' = Front(main)
    /\ mempool' = mempool \cup ToSet(blocks[Tip].txs)
    /\ UNCHANGED <<blocks, bestHeader, token>>

\* A waiting transaction is given up, for one that spends the same.
Drop(t) ==
    /\ NodeStep
    /\ t \in mempool
    /\ mempool' = mempool \ {t}
    /\ UNCHANGED <<blocks, main, bestHeader, token>>

Deploy ==
    /\ NodeStep
    /\ coin = "eth" /\ ~token
    /\ token' = TRUE
    /\ UNCHANGED <<blocks, main, mempool, bestHeader>>

\* The subscription delivers a head of the chain, maybe late.
NewHead(b) ==
    /\ NodeStep
    /\ coin = "eth" /\ b > bestHeader
    /\ bestHeader' = b
    /\ UNCHANGED nodeVars
-----------------------------------------------------------------------------
(* Calls. *)

\* Call and safeDecodeResponse: the call fails ("down": no connection, or an
\* answer that cannot be decoded), or the node answers, also with a status other
\* than 200, with its error ("busy", "missing") or with a result.
Answers(found) == {"down", "busy", IF found THEN "ok" ELSE "missing"}

Done(res) == [req EXCEPT !.at = "done", !.res = res]

\* Mutant of IsErrBlockNotFound: every error of the node.
IsErrBlockNotFoundAny(e) == TRUE

IsErrBlockNotFound(e) == e = "missing"

IsMissingTx(e) == e = "missing"

\* What a client makes of an error of the node.
NodeError == {"busy", "missing"}
BlockError == [e \in NodeError |-> IF IsErrBlockNotFound(e) THEN "notfound" ELSE "error"]
TxError == [e \in NodeError |-> IF IsMissingTx(e) THEN "notfound" ELSE "error"]
AnyError == [e \in NodeError |-> "error"]

\* NULS says success or not, and no reason.
Refused == [e \in NodeError |-> "notfound"]

Call(found, error, then) ==
    \E a \in Answers(found) :
        req' = IF a = "ok" THEN then
               ELSE [Done(IF a = "down" THEN "error" ELSE error[a]) EXCEPT !.absent = ~found]

\* The error is ignored.
CallOr(found, then, else) ==
    \E a \in Answers(found) : req' = IF a = "ok" THEN then ELSE else

Quietly == UNCHANGED <<coin, nodeVars, bestHeader, contract, moves>>

\* The request is at this call of one of these clients.
Asks(cs, at) == coin \in cs /\ req.at = at /\ Quietly
Btc == {"btcParse", "btcFull", "skyr"}

Header(b) == [req EXCEPT !.blk = b, !.next = NextOf(b), !.height = Height(b)]
Answer(r) == [r EXCEPT !.at = "done", !.res = "ok"]
-----------------------------------------------------------------------------
(* bitcoinrpc.go *)

GetBestBlockHash ==
    Asks(Btc, "best") /\ Call(TRUE, AnyError, Answer([req EXCEPT !.blk = Tip]))

GetBestBlockHeight ==
    Asks(Btc, "bestHeight")
    /\ Call(TRUE, AnyError, Answer([req EXCEPT !.height = Height(Tip)]))

\* The call for the block after its hash is known.
BlockCall(h) == CASE coin = "btcParse" -> IF h > 0 THEN "raw" ELSE "header"
                  [] coin = "btcFull" -> "full"
                  [] coin = "skyr" -> "thin"

GetBlockHash ==
    /\ Asks(Btc, "hash")
    /\ LET r == [req EXCEPT !.blk = At(req.height)]
       IN  Call(At(req.height) # 0, BlockError,
                IF req.op = "hash" THEN Answer(r) ELSE [r EXCEPT !.at = BlockCall(req.height)])

\* With a height of 0 the header is read first, then the block.
GetBlockHeader ==
    /\ Asks(Btc, "header")
    /\ Call(req.blk # 0, BlockError, IF req.op = "header" THEN Answer(Header(req.blk))
                                     ELSE [Header(req.blk) EXCEPT !.at = "raw"])

\* GetBlock, GetBlockWithoutHeader and GetBlockRaw: the header stays as it is,
\* with the hash and the height that were asked for if it was not read.
GetBlockRaw ==
    /\ Asks({"btcParse"}, "raw")
    /\ Call(req.blk # 0, BlockError, Answer([req EXCEPT !.txs = blocks[req.blk].txs]))

GetBlockFull ==
    /\ Asks({"btcFull"}, "full")
    /\ Call(req.blk # 0, BlockError, Answer([Header(req.blk) EXCEPT !.txs = blocks[req.blk].txs]))

GetBlockInfo ==
    /\ Asks(Btc, "info")
    /\ Call(req.blk # 0, BlockError, Answer([Header(req.blk) EXCEPT !.txs = blocks[req.blk].txs]))

GetMempoolTransactions ==
    /\ Asks(Btc, "mempool")
    /\ Call(TRUE, AnyError, Answer([req EXCEPT !.txs = SelectSeq(Order, LAMBDA t : t \in mempool)]))

\* A transaction for the mempool has no confirmations.
GetTransactionForMempool ==
    /\ Asks(Btc, "txMempool")
    /\ Call(Known(req.tx), TxError, Answer(req))

Confirmed(t) == IF t \in TxsOf(main) THEN Len(main) - Height(BlockOf(t)) ELSE 0

\* getRawTransaction and ParseTxFromJson, whose result is used before its error
\* is looked at.
GetTransaction ==
    /\ Asks(Btc, "tx")
    /\ \/ Call(Known(req.tx), TxError, Answer([req EXCEPT !.conf = Confirmed(req.tx)]))
       \/ Known(req.tx) /\ req' = Done("panic")

GetTransactionSpecific ==
    /\ Asks(Btc, "specific")
    /\ Call(Known(req.tx), TxError, Answer(req))

\* EstimateSmartFee and EstimateFee stand in for each other; next tells which of
\* the two the node was asked.
EstimateSmartFee ==
    /\ Asks(Btc, "smartFee")
    /\ \/ ~req.smart /\ req.simple /\ req' = [req EXCEPT !.at = "fee"]
       \/ (req.smart \/ ~req.simple) /\ Call(TRUE, AnyError, Answer([req EXCEPT !.next = 2]))

\* Mutant of EstimateFee: the condition of EstimateSmartFee.
EstimateFeeCopied ==
    /\ Asks(Btc, "fee")
    /\ \/ ~req.smart /\ req.simple /\ req' = [req EXCEPT !.at = "smartFee"]
       \/ (req.smart \/ ~req.simple) /\ Call(TRUE, AnyError, Answer([req EXCEPT !.next = 1]))

EstimateFee ==
    /\ Asks(Btc, "fee")
    /\ \/ ~req.simple /\ req.smart /\ req' = [req EXCEPT !.at = "smartFee"]
       \/ (req.simple \/ ~req.smart) /\ Call(TRUE, AnyError, Answer([req EXCEPT !.next = 1]))

\* The node may take the transaction although the call fails.
Send ==
    /\ req.at = "send"
    /\ \/ /\ req.tx \notin TxsOf(main)
          /\ mempool' = mempool \cup {req.tx}
          /\ req' = Answer(req) \/ req' = Done("error")
       \/ mempool' = mempool /\ req' = Done("error")
    /\ UNCHANGED <<coin, blocks, main, token, bestHeader, contract, moves>>

SendRawTransaction == coin \in Btc /\ Send

GetMempoolEntry ==
    /\ Asks(Btc, "entry")
    /\ Call(req.tx \in mempool, AnyError, Answer(req))

\* getblockchaininfo and getnetworkinfo.
BitcoinInfo ==
    IF req.calls = 0 THEN [req EXCEPT !.calls = 1, !.blk = Tip, !.height = Height(Tip)]
    ELSE [req EXCEPT !.calls = @ + 1]

GetChainInfo ==
    /\ Asks(Btc \ {"skyr"}, "chainInfo")
    /\ Call(TRUE, AnyError, IF req.calls = 0 THEN BitcoinInfo ELSE Answer(BitcoinInfo))
-----------------------------------------------------------------------------
(* skyrrpc.go *)

GetNextSuperBlock(h) == (h - (h % Period)) + Period

\* Three more calls: getinfo, getmasternodecount and getconnectioncount.
SkyrGetChainInfo ==
    /\ Asks({"skyr"}, "chainInfo")
    /\ Call(TRUE, AnyError,
            IF req.calls < 4 THEN BitcoinInfo
            ELSE Answer([req EXCEPT !.next = GetNextSuperBlock(req.height)]))

\* The block with the hashes of its transactions.
SkyrGetBlock ==
    /\ Asks({"skyr"}, "thin")
    /\ Call(req.blk # 0, AnyError, [Header(req.blk) EXCEPT !.at = "txs", !.left = blocks[req.blk].txs])

\* Each of them is read; one that the node does not have any more is skipped.
SkyrTransactions ==
    /\ Asks({"skyr"}, "txs")
    /\ IF req.left = <<>> THEN req' = Answer(req)
       ELSE LET t == Head(req.left)
                r == [req EXCEPT !.left = Tail(@)]
            IN  \/ \E a \in Answers(Known(t)) :
                      req' = CASE a = "ok" -> [r EXCEPT !.txs = Append(@, t)]
                               [] a \notin {"ok", "down"} /\ TxError[a] = "notfound" -> r
                               [] OTHER -> Done("error")
                \/ Known(t) /\ req' = Done("panic")

\* GetNodeBlockCount of a masternode, whose error is ignored.
GetNodeBlockCount == CallOr(TRUE, Answer([req EXCEPT !.next = Height(Tip)]), Answer(req))

\* The chain info, the list of masternodes, and the height of each one: that of
\* the chain info for the own node, none if there is no network.
GetMasternodesInfo ==
    /\ Asks({"skyr"}, "masternodes")
    /\ \/ req.calls < 3 /\ Call(TRUE, AnyError, BitcoinInfo)
       \/ /\ req.calls = 3
          /\ \/ GetNodeBlockCount
             \/ req' = Answer([req EXCEPT !.next = req.height])

\* The peers, and where they are if there is a service to ask.  Its answer is used
\* before its error is looked at.
GetPeersInfo ==
    /\ Asks({"skyr"}, "peers")
    /\ IF req.calls = 0
       THEN Call(TRUE, AnyError, [req EXCEPT !.calls = 1])
       ELSE CallOr(TRUE, Answer(req), Done("panic")) \/ req' = Answer(req)

\* The serial number of a spend is in the chain or it is not.
Findzcserial ==
    /\ Asks({"skyr"}, "serial")
    /\ Call(TRUE, AnyError, Answer(req))
-----------------------------------------------------------------------------
(* nulsrpc.go *)

\* Only a failure of the call itself is an error: whether the node says success is
\* not looked at, and the value is then empty.
Unchecked(then, empty) ==
    \E a \in Answers(TRUE) :
        req' = CASE a = "ok" -> then [] a = "busy" -> empty [] OTHER -> Done("error")

\* Call of nulsrpc.go, where the caller looks at the success.
NulsCall(found, then) == Call(found, Refused, then)

NulsGetChainInfo ==
    /\ Asks({"nuls"}, "chainInfo")
    /\ IF req.calls = 0
       THEN Unchecked([req EXCEPT !.calls = 1, !.height = Height(Tip)], [req EXCEPT !.calls = 1])
       ELSE Unchecked(Answer(req), Answer(req))

NulsGetBestBlockHash ==
    Asks({"nuls"}, "best") /\ Unchecked(Answer([req EXCEPT !.blk = Tip]), Answer(req))

NulsGetBestBlockHeight ==
    /\ Asks({"nuls"}, "bestHeight")
    /\ Unchecked(Answer([req EXCEPT !.height = Height(Tip)]), Answer(req))

NulsGetBlockHash ==
    /\ Asks({"nuls"}, "hash")
    /\ NulsCall(At(req.height) # 0, Answer([req EXCEPT !.blk = At(req.height)]))

\* getBlobkHeader by hash, GetBlock by hash or height, GetBlockInfo by hash.
NulsRead(b) == [req EXCEPT !.blk = b, !.height = Height(b), !.at = "next",
                           !.txs = IF req.op = "header" THEN <<>> ELSE blocks[b].txs]

NulsGetBlockHeader ==
    /\ Asks({"nuls"}, "header")
    /\ NulsCall(req.blk # 0, NulsRead(req.blk))

NulsGetBlock ==
    /\ Asks({"nuls"}, "block")
    /\ LET b == IF req.blk = 0 THEN At(req.height) ELSE req.blk
       IN  NulsCall(b # 0, NulsRead(b))

NulsGetBlockInfo ==
    /\ Asks({"nuls"}, "info")
    /\ IF req.blk = 0 THEN req' = [Done("notfound") EXCEPT !.absent = TRUE]
       ELSE NulsCall(TRUE, NulsRead(req.blk))

\* The next hash is the one at the next height, or none.
NulsNext ==
    /\ Asks({"nuls"}, "next")
    /\ LET n == At(req.height + 1)
       IN  CallOr(n # 0, Answer([req EXCEPT !.next = n]), Answer(req))

\* The transaction, the time of the block at its height (-1 while it waits), and
\* its bytes.
NulsGetTransaction ==
    /\ Asks({"nuls"}, "tx")
    /\ LET t == req.tx
       IN  NulsCall(Known(t),
                [req EXCEPT !.conf = Confirmed(t), !.at = "time",
                            !.height = IF t \in mempool THEN Word - 1 ELSE Height(BlockOf(t))])

NulsGetBlockHeaderByHeight ==
    /\ Asks({"nuls"}, "time")
    /\ LET b == At(req.height)
           r == [req EXCEPT !.at = "bytes"]
       IN  CallOr(b # 0, [r EXCEPT !.time = b], r)

NulsGetTransactionSpecific ==
    /\ Asks({"nuls"}, "bytes")
    /\ IF req.op = "specific" THEN NulsCall(Known(req.tx), Answer(req))
       ELSE CallOr(Known(req.tx), Answer(req), Answer(req))

NulsSendRawTransaction == coin = "nuls" /\ Send

\* There is no mempool and the fee is a constant.
NulsConstant ==
    /\ coin = "nuls" /\ req.at \in {"mempool", "txMempool", "fee", "smartFee"} /\ Quietly
    /\ req' = Answer(req)
-----------------------------------------------------------------------------
(* ethrpc.go and erc20.go *)

\* getBlockRaw by hash or by number.
EthBlockRaw ==
    /\ Asks({"eth"}, "block")
    /\ LET b == IF req.blk = 0 THEN At(req.height) ELSE req.blk
       IN  Call(b # 0, BlockError,
                [req EXCEPT !.blk = b, !.height = Height(b), !.at = "conf",
                            !.txs = IF req.op = "header" THEN <<>> ELSE blocks[b].txs])

\* Unsigned: a header older than the block wraps around.
ComputeConfirmations(best, n) == (best - n + 1) % Word

\* getBestHeader asks the node only if there is no header yet.
\* It gives header h, or 0 with an error.
GetBestHeader(h) ==
    /\ UNCHANGED <<coin, nodeVars, contract, moves>>
    /\ \/ bestHeader # 0 /\ h = bestHeader /\ UNCHANGED bestHeader
       \/ bestHeader = 0 /\ h = Tip /\ bestHeader' = Tip
       \/ bestHeader = 0 /\ h = 0 /\ UNCHANGED bestHeader
Headers == {0, bestHeader, Tip}

\* ethHeaderToBlockHeader, and computeConfirmations of a transaction.
Counted(h) ==
    LET r == [req EXCEPT !.conf = ComputeConfirmations(Height(h), req.height)]
    IN  IF req.op = "block" THEN [r EXCEPT !.at = "logs"] ELSE Answer(r)

EthHeaderToBlockHeader ==
    /\ coin = "eth" /\ req.at = "conf"
    /\ \E h \in Headers :
          GetBestHeader(h) /\ req' = IF h = 0 THEN Done("error") ELSE Counted(h)

\* Mutant of EthLogs: those of the latest block.
EthLogsLatest ==
    /\ Asks({"eth"}, "logs")
    /\ Call(TRUE, AnyError, Answer([req EXCEPT !.logs = ToSet(blocks[Tip].txs) \cap ToSet(req.txs)]))

\* getERC20EventsForBlock asks by number; events of other transactions are left.
EthLogs ==
    /\ Asks({"eth"}, "logs")
    /\ LET b == At(req.height)
       IN  Call(TRUE, AnyError, Answer([req EXCEPT !.logs =
                IF b = 0 THEN {} ELSE ToSet(blocks[b].txs) \cap ToSet(req.txs)]))

\* eth_getTransactionByHash; a transaction of a block needs its time and receipt.
EthGetTransaction ==
    /\ Asks({"eth"}, "tx")
    /\ LET t == req.tx
       IN  Call(Known(t), TxError,
                IF t \in mempool THEN Answer(req)
                ELSE [req EXCEPT !.blk = BlockOf(t), !.height = Height(BlockOf(t)), !.at = "txBlock"])

EthTxBlock ==
    /\ Asks({"eth"}, "txBlock")
    /\ Call(TRUE, BlockError, [req EXCEPT !.time = req.blk, !.at = "receipt"])

\* Without a receipt the status stays empty.
EthReceipt ==
    /\ Asks({"eth"}, "receipt")
    /\ Call(TRUE, AnyError, [req EXCEPT !.at = "conf",
                                        !.logs = IF req.tx \in TxsOf(main) THEN {req.tx} ELSE {}])

Best(h) == Answer([req EXCEPT !.blk = h, !.height = Height(h)])
EthGetBestBlock ==
    /\ coin = "eth" /\ req.at \in {"best", "bestHeight"}
    /\ \E h \in Headers : GetBestHeader(h) /\ req' = IF h = 0 THEN Done("error") ELSE Best(h)

\* The network, the best header and two versions.
InfoHeader(h) == [req EXCEPT !.calls = 2, !.blk = h, !.height = Height(h)]
EthGetChainInfo ==
    /\ coin = "eth" /\ req.at = "chainInfo"
    /\ \/ /\ req.calls = 1
          /\ \E h \in Headers :
                GetBestHeader(h) /\ req' = IF h = 0 THEN Done("error") ELSE InfoHeader(h)
       \/ /\ req.calls # 1 /\ Quietly
          /\ Call(TRUE, AnyError, IF req.calls = 3 THEN Answer(req) ELSE [req EXCEPT !.calls = @ + 1])

EthGetBlockHash ==
    /\ Asks({"eth"}, "hash")
    /\ Call(At(req.height) # 0, BlockError, Answer([req EXCEPT !.blk = At(req.height)]))

\* The transactions of the pending block.
EthGetMempoolTransactions ==
    /\ Asks({"eth"}, "mempool")
    /\ Call(TRUE, AnyError, Answer([req EXCEPT !.txs = SelectSeq(Order, LAMBDA t : t \in mempool)]))

\* The price of gas.
EthEstimateSmartFee ==
    /\ coin = "eth" /\ req.at \in {"fee", "smartFee"} /\ Quietly
    /\ Call(TRUE, AnyError, Answer(req))

EthSendRawTransaction == coin = "eth" /\ Send

EthEstimateGas == Asks({"eth"}, "gas") /\ Call(TRUE, AnyError, Answer(req))

EthGetBalance == Asks({"eth"}, "account") /\ Call(TRUE, AnyError, Answer(req))

\* Without a contract there is no number in the answer.
GetErc20ContractBalance == Asks({"eth"}, "balance") /\ Call(token, AnyError, Answer(req))

Cache(c) == contract' = c /\ req' = Answer([req EXCEPT !.contract = c])

\* Mutant of GetErc20ContractInfo: cached as soon as its name is known.
GetErc20ContractInfoEarly ==
    /\ coin = "eth" /\ req.at = "contract"
    /\ UNCHANGED <<coin, nodeVars, bestHeader, moves>>
    /\ \/ req.calls = 0 /\ contract # "unset" /\ Cache(contract)
       \/ /\ req.calls = 0 => contract = "unset"
          /\ \/ req' = Done("error") /\ UNCHANGED contract
             \/ req.calls = 0 /\ ~token /\ Cache("nil")
             \/ /\ req.calls < 2 /\ (req.calls = 0 => token)
                /\ contract' = "part" /\ req' = [req EXCEPT !.calls = @ + 1]
             \/ req.calls = 2 /\ Cache("whole")

\* EthereumTypeGetErc20ContractInfo: name, symbol and decimals are read one after
\* the other and cached together; without a name it is no contract, for good.
GetErc20ContractInfo ==
    /\ coin = "eth" /\ req.at = "contract"
    /\ UNCHANGED <<coin, nodeVars, bestHeader, moves>>
    /\ \/ req.calls = 0 /\ contract # "unset" /\ Cache(contract)
       \/ /\ req.calls = 0 => contract = "unset"
          /\ \/ req' = Done("error") /\ UNCHANGED contract
             \/ req.calls = 0 /\ ~token /\ Cache("nil")
             \/ /\ req.calls < 2 /\ (req.calls = 0 => token)
                /\ UNCHANGED contract /\ req' = [req EXCEPT !.calls = @ + 1]
             \/ req.calls = 2 /\ Cache("whole")
-----------------------------------------------------------------------------
(* Requests.  A block is asked for by hash, by height or by both. *)

Request(op, at, b, h, t, smart, simple) ==
    /\ Idle
    /\ req' = [op |-> op, at |-> at, res |-> "none", asked |-> b, blk |-> b, height |-> h,
               tx |-> t, txs |-> <<>>, left |-> <<>>, next |-> 0, time |-> 0, conf |-> 0,
               logs |-> {}, calls |-> 0, absent |-> FALSE, contract |-> "unset",
               smart |-> smart, simple |-> simple]
    /\ moves' = 0
    /\ UNCHANGED <<coin, nodeVars, bestHeader, contract>>

\* Where GetBlock starts.
BlockStart(b, h) ==
    CASE coin \in {"nuls", "eth"} -> "block"
      [] b = 0 /\ (coin = "skyr" => h > 0) -> "hash"
      [] OTHER -> BlockCall(h)

AskBlock(b, h) == Request("block", BlockStart(b, h), b, h, Order[1], FALSE, FALSE)

\* GetBlockHeader and GetBlockInfo by hash: in ethrpc.go they start with the block.
AskHeader(b) ==
    Request("header", IF coin = "eth" THEN "block" ELSE "header", b, 0, Order[1], FALSE, FALSE)
AskInfo(b) ==
    Request("info", IF coin = "eth" THEN "block" ELSE "info", b, 0, Order[1], FALSE, FALSE)

AskHash(h) == Request("hash", "hash", 0, h, Order[1], FALSE, FALSE)

TxStart(op) ==
    CASE coin = "eth" /\ op # "send" -> "tx"
      [] coin = "nuls" /\ op = "specific" -> "bytes"
      [] OTHER -> op
AskTx(op, t) ==
    /\ coin \in {"nuls", "eth"} => op # "entry"
    /\ Request(op, TxStart(op), 0, 0, t, FALSE, FALSE)

Fees == {"fee", "smartFee"}
AskFee(op, smart, simple) ==
    /\ coin = "skyr" => ~smart /\ simple
    /\ coin \in {"nuls", "eth"} => smart /\ simple
    /\ Request(op, op, 0, 0, Order[1], smart, simple)

Others == {"best", "bestHeight", "chainInfo", "mempool"}
          \cup (CASE coin = "skyr" -> {"masternodes", "peers", "serial"}
                  [] coin = "eth" -> {"gas", "account", "balance", "contract"}
                  [] OTHER -> {})
AskOther(op) == op \in Others /\ Request(op, op, 0, 0, Order[1], FALSE, FALSE)

Finish ==
    /\ ~Idle /\ req.at = "done"
    /\ req' = NoRequest /\ moves' = 0
    /\ UNCHANGED <<coin, nodeVars, bestHeader, contract>>
-----------------------------------------------------------------------------
Genesis == [prev |-> 0, height |-> 0, txs |-> <<>>]

Init ==
    /\ coin \in Coins
    /\ blocks = <<Genesis>> /\ main = <<1>>
    /\ mempool = Tx /\ token = FALSE
    /\ bestHeader = 0 /\ contract = "unset"
    /\ req = NoRequest /\ moves = 0

Node ==
    \/ \E ts \in SUBSET mempool : Mine(ts)
    \/ Orphan
    \/ \E t \in mempool : Drop(t)
    \/ Deploy
    \/ \E b \in DOMAIN blocks : NewHead(b)

Caller ==
    \/ \E b \in 0 .. Len(blocks) :
          \E h \in (IF b = 0 THEN 0 .. MaxBlocks ELSE {0, Height(b)}) : AskBlock(b, h)
    \/ \E b \in 0 .. Len(blocks) : AskHeader(b) \/ AskInfo(b)
    \/ \E h \in 0 .. MaxBlocks : AskHash(h)
    \/ \E op \in {"tx", "txMempool", "specific", "send", "entry"}, t \in Tx : AskTx(op, t)
    \/ \E op \in Fees, smart, simple \in BOOLEAN : AskFee(op, smart, simple)
    \/ \E op \in Others : AskOther(op)

BitcoinRPC ==
    \/ GetBestBlockHash \/ GetBestBlockHeight \/ GetBlockHash \/ GetBlockHeader
    \/ GetBlockRaw \/ GetBlockFull \/ GetBlockInfo \/ GetMempoolTransactions
    \/ GetTransactionForMempool \/ GetTransaction \/ GetTransactionSpecific
    \/ EstimateSmartFee \/ EstimateFee \/ SendRawTransaction \/ GetMempoolEntry \/ GetChainInfo

SkyrRPC ==
    \/ SkyrGetChainInfo \/ SkyrGetBlock \/ SkyrTransactions \/ GetMasternodesInfo
    \/ GetPeersInfo \/ Findzcserial

NulsRPC ==
    \/ NulsGetChainInfo \/ NulsGetBestBlockHash \/ NulsGetBestBlockHeight \/ NulsGetBlockHash
    \/ NulsGetBlockHeader \/ NulsGetBlock \/ NulsGetBlockInfo \/ NulsNext \/ NulsGetTransaction
    \/ NulsSendRawTransaction \/ NulsGetBlockHeaderByHeight \/ NulsGetTransactionSpecific \/ NulsConstant

EthereumRPC ==
    \/ EthBlockRaw \/ EthHeaderToBlockHeader \/ EthLogs \/ EthGetTransaction \/ EthTxBlock
    \/ EthReceipt \/ EthGetBestBlock \/ EthGetChainInfo \/ EthGetBlockHash
    \/ EthGetMempoolTransactions \/ EthEstimateSmartFee \/ EthEstimateGas
    \/ EthGetBalance \/ EthSendRawTransaction \/ GetErc20ContractBalance \/ GetErc20ContractInfo

Client == BitcoinRPC \/ SkyrRPC \/ NulsRPC \/ EthereumRPC

Next == Node \/ Caller \/ Client \/ Finish

\* Every call of the node ends, at the latest with its timeout.
Spec == Init /\ [][Next]_vars /\ WF_vars(Client)
-----------------------------------------------------------------------------
Ok(ops) == ~Idle /\ req.at = "done" /\ req.res = "ok" /\ req.op \in ops

\* Confirmations are unsigned, and whatever the node does the client ends with a
\* value, a not-found or another error, or in the panic of GetTransaction and
\* GetPeersInfo.
TypeOK ==
    /\ contract \in {"unset", "nil", "part", "whole"}
    /\ bestHeader \in 0 .. Len(blocks)
    /\ ~Idle => /\ req.res \in {"none", "ok", "notfound", "error", "panic"}
                /\ req.blk \in 0 .. Len(blocks)
                /\ req.conf \in 0 .. Word - 1
                /\ ToSet(req.txs) \subseteq Tx /\ req.logs \subseteq Tx

\* GetBlock and GetBlockInfo: the block is the one that was asked for, at its
\* height and with exactly its transactions, although it is put together from
\* several answers.  SkyrRPC.GetBlock, which reads the transactions one by one and
\* skips those the node does not have, may only lose some of a block that is no
\* longer in the chain.
BlockExact ==
    Ok({"block", "info"}) =>
        /\ req.blk # 0 /\ req.height = Height(req.blk)
        /\ req.asked # 0 => req.blk = req.asked
        /\ req.txs = blocks[req.blk].txs \/ (coin = "skyr" /\ ~InMain(req.blk))

\* The next hash in the header that the synchronisation follows belongs to a child
\* of the block.  NULS, which looks for it by height, may be wrong about a block
\* that left the chain.
NextLinks ==
    Ok({"block", "header", "info"}) /\ req.next # 0 /\ (coin = "nuls" => InMain(req.blk)) =>
        blocks[req.next].prev = req.blk

\* ErrBlockNotFound and ErrTxNotFound, at which the synchronisation stops at the
\* tip and the mempool forgets, are answered only for what the node did not have
\* at that call, never for a call that failed.  NULS cannot tell them apart.
NotFoundTrue == ~Idle /\ req.res = "notfound" /\ coin # "nuls" => req.absent

\* EthereumRPC.GetBlock reads the events of the tokens by the number of the block:
\* if the block is still in the chain they are those of all its transactions.
LogsOfBlock == coin = "eth" /\ Ok({"block"}) /\ InMain(req.blk) => req.logs = ToSet(req.txs)

\* computeConfirmations: with the head of the chain as the cached header, and
\* nothing that happened meanwhile, the confirmations of a block are what
\* the node would say: 1 for the best block.
ConfirmationsSane ==
    /\ coin = "eth" /\ Ok({"block", "header", "info"})
    /\ moves = 0 /\ bestHeader = Tip /\ InMain(req.blk)
    => req.conf = Len(main) - Height(req.blk)

\* A contract is never answered or cached with a part of its properties, also if a
\* call for one of them fails and the request is repeated.
ContractWhole ==
    /\ contract # "part"
    /\ Ok({"contract"}) => req.contract = contract

\* GetNextSuperBlock: the next superblock comes after the best block, and there
\* is none between.
SuperBlockNext ==
    coin = "skyr" /\ Ok({"chainInfo"}) =>
        /\ req.next % Period = 0
        /\ req.next \in req.height + 1 .. req.height + Period

\* Every request is answered, also when one way to estimate the fee stands in for
\* the other.
Answered == ~Idle ~> (~Idle /\ req.at = "done")

\* What the clients of the backend put together from several calls is one block: its
\* transactions, its token events, its child, its confirmations, and the superblock
\* after the best block.
AnswersRight ==
    TypeOK /\ BlockExact /\ NextLinks /\ LogsOfBlock /\ ConfirmationsSane /\ SuperBlockNext
=============================================================================
