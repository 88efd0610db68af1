------------------------------ MODULE QueryWorld ------------------------------
(***************************************************************************)
(* What a query reads while it changes: the backend node, the index that   *)
(* follows it, the mempool and the column transactions, the cache of       *)
(* db/txcache.go.  AddressIndex shows that the rows of the index are those *)
(* of its chain, so here they are functions of the chain; a connect or a   *)
(* disconnect is one write.                                                *)
(*                                                                         *)
(* Heights start at 0; the block at height h is chain[h + 1].              *)
(***************************************************************************)
EXTENDS SequencesExt, TLC

CONSTANTS
    Order,       \* the transactions, each after the ones it spends from
    Ins, Outs,   \* tx -> outpoints [tx, vout] it spends, outputs [addr, val]
    Genesis,     \* transactions of the first block
    MaxBlocks,   \* number of blocks the node finds
    MaxOrphans   \* number of blocks the node gives up

Tx == ToSet(Order)

ASSUME OrderAssumption ==
    /\ IsInjective(Order) /\ Genesis \subseteq Tx
    /\ \A i \in DOMAIN Order : \A o \in ToSet(Ins[Order[i]]) :
           \E j \in 1 .. i - 1 : Order[j] = o.tx /\ o.vout \in DOMAIN Outs[o.tx]

VARIABLES
    blocks,      \* blocks the node knows, [id, height, txs] with id the position
    nodeChain,   \* best chain of the node
    nodePool,    \* mempool of the node
    orphaned,    \* number of blocks given up so far
    chain,       \* chain of the index
    best,        \* InternalState.BestHeight
    pool,        \* transactions of the mempool
    cache        \* column transactions: tx -> height it is stored with, or -1

nodeVars == <<blocks, nodeChain, nodePool, orphaned>>
indexVars == <<chain, best, cache>>
worldVars == <<nodeVars, indexVars, pool>>
-----------------------------------------------------------------------------
TxsOf(c) == UNION {ToSet(c[k].txs) : k \in DOMAIN c}
HeightOf(c, t) == (CHOOSE k \in DOMAIN c : t \in ToSet(c[k].txs)) - 1

\* GetTxAddresses: height of the block, or -1 if there is no row.
RowHeight(t) == IF t \in TxsOf(chain) THEN HeightOf(chain, t) ELSE -1

Spends(t, o) == o \in ToSet(Ins[t])
SpentIn(ts, o) == \E t \in ts : Spends(t, o)

\* The indexes an address has in a transaction: n for an output, ^n for an input.
IndexesOf(a, t) ==
    {n - 1 : n \in {n \in DOMAIN Outs[t] : Outs[t][n].addr = a}}
    \cup {-i : i \in {i \in DOMAIN Ins[t] : Outs[Ins[t][i].tx][Ins[t][i].vout].addr = a}}

\* GetAddrDescTransactions: the rows of the column addresses, newest first.
History(a) ==
    LET newest[k \in 0 .. Len(chain)] ==
            IF k = 0 THEN <<>> ELSE Reverse(chain[k].txs) \o newest[k - 1]
    IN  SelectSeq(newest[Len(chain)], LAMBDA t : IndexesOf(a, t) # {})

\* GetBestBlock and GetBlockHash: height and hash of the last block, and the
\* hash at a height, where 0 is the empty hash.
BestHeight == IF chain = <<>> THEN 0 ELSE Len(chain) - 1
HashAt(h) == IF h + 1 \in DOMAIN chain THEN chain[h + 1].id ELSE 0
BestHash == HashAt(Len(chain) - 1)

\* GetAddrDescBalance with the utxos, oldest first.
UtxosOf(a) ==
    LET hist == History(a)
        spent == UNION {ToSet(Ins[t]) : t \in TxsOf(chain)}
        os(t) == [n \in DOMAIN Outs[t] |-> [tx |-> t, vout |-> n]]
        oldest[k \in 0 .. Len(hist)] ==
            IF k = 0 THEN <<>>
            ELSE SelectSeq(os(hist[k]), LAMBDA o : Outs[o.tx][o.vout].addr = a /\ o \notin spent)
                 \o oldest[k - 1]
    IN  oldest[Len(hist)]
-----------------------------------------------------------------------------
WorldInit ==
    /\ blocks = <<[id |-> 1, height |-> 0, txs |-> SelectSeq(Order, LAMBDA t : t \in Genesis)]>>
    /\ nodeChain = blocks
    /\ nodePool = {}
    /\ orphaned = 0
    /\ chain = nodeChain
    /\ best = 0
    /\ pool = {}
    /\ cache = [t \in Tx |-> -1]

\* A transaction reaches the node.
Broadcast(t) ==
    /\ t \notin nodePool \cup TxsOf(nodeChain)
    /\ \A o \in ToSet(Ins[t]) : /\ o.tx \in nodePool \cup TxsOf(nodeChain)
                                /\ ~SpentIn(nodePool \cup TxsOf(nodeChain), o)
    /\ nodePool' = nodePool \cup {t}
    /\ UNCHANGED <<blocks, nodeChain, orphaned, indexVars, pool>>

\* The node drops a transaction no other one of its mempool depends on.
Evict(t) ==
    /\ t \in nodePool
    /\ \A u \in nodePool : \A o \in ToSet(Ins[u]) : o.tx # t
    /\ nodePool' = nodePool \ {t}
    /\ UNCHANGED <<blocks, nodeChain, orphaned, indexVars, pool>>

\* The node finds a block with some of its transactions; blocks with none of
\* them are left out.
Mine(ts) ==
    /\ Len(blocks) < MaxBlocks
    /\ \A t \in ts : \A o \in ToSet(Ins[t]) : o.tx \in ts \cup TxsOf(nodeChain)
    /\ blocks' = Append(blocks, [id |-> Len(blocks) + 1, height |-> Len(nodeChain),
                                 txs |-> SelectSeq(Order, LAMBDA t : t \in ts)])
    /\ nodeChain' = Append(nodeChain, Last(blocks'))
    /\ nodePool' = nodePool \ ts
    /\ UNCHANGED <<orphaned, indexVars, pool>>

\* The node gives up its last block; the transactions return to its mempool.
Orphan ==
    /\ orphaned < MaxOrphans /\ Len(nodeChain) > 1
    /\ orphaned' = orphaned + 1
    /\ nodeChain' = Front(nodeChain)
    /\ nodePool' = nodePool \cup ToSet(Last(nodeChain).txs)
    /\ UNCHANGED <<blocks, indexVars, pool>>

\* writeHeight of the next block updates the internal state before the block
\* is written.
UpdateBestHeight ==
    /\ IsStrictPrefix(chain, nodeChain)
    /\ best # Len(chain)
    /\ best' = Len(chain)
    /\ UNCHANGED <<nodeVars, chain, cache, pool>>

ConnectBlock ==
    /\ IsStrictPrefix(chain, nodeChain)
    /\ best = Len(chain)
    /\ chain' = Append(chain, nodeChain[Len(chain) + 1])
    /\ UNCHANGED <<nodeVars, best, cache, pool>>

\* Both at once, for queries that do not read the internal state.
ConnectAtOnce ==
    /\ IsStrictPrefix(chain, nodeChain)
    /\ best' = Len(chain)
    /\ chain' = Append(chain, nodeChain[Len(chain) + 1])
    /\ UNCHANGED <<nodeVars, cache, pool>>

Common == CHOOSE n \in 0 .. Len(chain) :
              /\ n <= Len(nodeChain)
              /\ SubSeq(chain, 1, n) = SubSeq(nodeChain, 1, n)
              /\ n < Len(chain) /\ n < Len(nodeChain) => chain[n + 1] # nodeChain[n + 1]

\* Mutant of DisconnectBlocks: the cached transactions are left.
DisconnectBlocksKeepCache ==
    /\ ~IsPrefix(chain, nodeChain)
    /\ chain' = SubSeq(chain, 1, Common)
    /\ UNCHANGED <<nodeVars, best, pool, cache>>

\* DisconnectBlockRangeBitcoinType deletes the transactions of the blocks from
\* the cache in the same write.  It does not update the internal state.
DisconnectBlocks ==
    /\ ~IsPrefix(chain, nodeChain)
    /\ chain' = SubSeq(chain, 1, Common)
    /\ cache' = [t \in Tx |-> IF t \in TxsOf(SubSeq(chain, Common + 1, Len(chain)))
                              THEN -1 ELSE cache[t]]
    /\ UNCHANGED <<nodeVars, best, pool>>

\* Resync of the mempool, see BitcoinMempool.
MempoolResync ==
    /\ pool # nodePool
    /\ pool' = nodePool
    /\ UNCHANGED <<nodeVars, indexVars>>

NodeNext ==
    \/ \E t \in Tx : Broadcast(t)
    \/ \E ts \in SUBSET nodePool \ {{}} : Mine(ts)
    \/ Orphan

WorldNext ==
    \/ NodeNext
    \/ \E t \in Tx : Evict(t)
    \/ UpdateBestHeight
    \/ ConnectBlock
    \/ DisconnectBlocks
    \/ MempoolResync

\* The index and the mempool have caught up with the node.
InSync == chain = nodeChain /\ best = Len(chain) - 1 /\ pool = nodePool
=============================================================================
