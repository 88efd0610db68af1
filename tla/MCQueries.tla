------------------------------ MODULE MCQueries ------------------------------
(***************************************************************************)
(* The API over a moving world: the queries of Queries or the accounts of  *)
(* Xpub, one of which is at work in a behaviour.                           *)
(*                                                                         *)
(* For the queries, three transactions: the one of the first block pays    *)
(* ann twice the same amount, s1 passes the first output on, s2 spends     *)
(* what ann has left.                                                      *)
(***************************************************************************)
EXTENDS Queries

CONSTANTS c, s1, s2, ann, bob

MCOrder == <<c, s1, s2>>
MCGenesis == {c}

MCIns == c :> <<>>
      @@ s1 :> <<[tx |-> c, vout |-> 1]>>
      @@ s2 :> <<[tx |-> s1, vout |-> 1], [tx |-> c, vout |-> 2]>>

MCOuts == c :> <<[addr |-> ann, val |-> 5], [addr |-> ann, val |-> 5]>>
       @@ s1 :> <<[addr |-> ann, val |-> 5]>>
       @@ s2 :> <<[addr |-> bob, val |-> 9]>>

Off == [vout |-> FilterVoutOff, from |-> 0, to |-> 0, onlyConfirmed |-> FALSE]

Address(page, size, option, filter) ==
    [fn |-> "address", at |-> "balance", addr |-> ann, page |-> page, size |-> size,
     option |-> option, filter |-> filter, got |-> Error]

MCRequests ==
    {[fn |-> "tx", at |-> "get", tx |-> t, spending |-> t = c, got |-> Error] : t \in {c, s2}}
    \cup {[fn |-> "spending", at |-> "get", tx |-> c, n |-> n, got |-> Error] : n \in {1, 3}}
    \cup {Address(0, 3, "txids", Off),
          Address(1, 1, "light", Off),
          Address(0, 3, "light", [Off EXCEPT !.onlyConfirmed = TRUE]),
          Address(0, 1, "full", [Off EXCEPT !.vout = FilterVoutInputs]),
          Address(0, 2, "txids", [Off EXCEPT !.vout = FilterVoutOutputs, !.from = 1, !.to = 1]),
          Address(0, 3, "basic", [Off EXCEPT !.vout = 1])}
    \cup {[fn |-> "utxo", at |-> "mempool", addr |-> ann, onlyConfirmed |-> b, got |-> Error] : b \in BOOLEAN}
    \cup {[fn |-> "blocks", at |-> "best", page |-> p, size |-> 2, got |-> Error] : p \in {0, 1}}
    \cup {[fn |-> "block", at |-> "hash", height |-> 1, page |-> 0, size |-> 1, got |-> Error]}
    \cup {[fn |-> "mempool", at |-> "entries", page |-> 1, size |-> 1, got |-> Error]}
    \cup {[fn |-> "history", at |-> "txids", addrs |-> <<ann, bob>>, lower |-> 0, higher |-> 9,
           from |-> 1, to |-> 3, mempoolOnly |-> b, got |-> Error] : b \in BOOLEAN}

(***************************************************************************)
(* For an account, the same transactions with other outputs: three used    *)
(* external addresses, e1 to e3, and one change address, d1; gap 2 (one    *)
(* unused address more than the request asks for).  c pays e1, s1 spends   *)
(* it to e2 and d1, s2 spends e2 to e3 twice.                              *)
(***************************************************************************)
CONSTANTS e1, e2, e3, e4, d1, d2, d3, d4, Procs, XRequests, Derived

XpubIns == c :> <<>>
        @@ s1 :> <<[tx |-> c, vout |-> 1]>>
        @@ s2 :> <<[tx |-> s1, vout |-> 1]>>
XpubOuts == c :> <<[addr |-> e1, val |-> 5]>>
         @@ s1 :> <<[addr |-> e2, val |-> 3], [addr |-> d1, val |-> 2]>>
         @@ s2 :> <<[addr |-> e3, val |-> 1], [addr |-> e3, val |-> 2]>>
MCDerived == <<<<e1, e2, e3, e4>>, <<d1, d2, d3, d4>>>>

AllTxs == [vout |-> "off", from |-> 0, to |-> 0, onlyConfirmed |-> FALSE]
Ask(option, gap, filter) == [option |-> option, gap |-> gap, filter |-> filter]

MCXRequests ==
    {Ask("txids", 2, AllTxs),
     Ask("txids", 2, [AllTxs EXCEPT !.vout = "inputs", !.to = 1]),
     Ask("utxos", 2, AllTxs)}

VARIABLES part, cached, heap, mixed, proc

Account == INSTANCE Xpub WITH Ins <- XpubIns, Outs <- XpubOuts, MaxChanges <- 1

ApiInit ==
    /\ part \in {"query", "account"} /\ Init /\ Account!Init
    /\ part = "account" => enabled
ApiNext ==
    /\ UNCHANGED part
    /\ \/ part = "query" /\ Next /\ UNCHANGED <<cached, heap, mixed, proc>>
       \/ /\ part = "account" /\ Account!Next
          /\ UNCHANGED <<enabled, request, stack, ans, reorged, visible, spentThen, failed, cacheSafe>>
ApiSpec == ApiInit /\ [][ApiNext]_<<part, vars, cached, heap, mixed, proc>>

\* Behaviours are followed up to the answer of the query that wrote a row of
\* the cache with a height that is not the one of the index.
Safe == cacheSafe \/ Running

\* A block is given up in a world without s2.  Two requests for an account run at once
\* when the node is at rest on its longest chain, of which the index may lack a block,
\* and when both list transactions and found the entry: others share less or nothing.
\* Slices once mixed up are not followed any further.
Bounded ==
    LET active == {p \in Procs : proc[p].at # "none"}
    IN  /\ mixed = {}
        /\ orphaned = 0 \/ s2 \notin nodePool \cup TxsOf(blocks)
        /\ Cardinality(active) > 1 =>
              /\ nodePool = {} /\ pool = {} /\ Len(nodeChain) = Len(Order) /\ Len(chain) > 1
              /\ \A p \in active : proc[p].found /\ proc[p].q = Ask("txids", 2, AllTxs)

Symmetric == Permutations(Procs)

\* What is shown for an extended public key is what the index and the mempool have
\* for all its addresses: balance, transactions (each once) and unspent outputs.
AccountExact == part = "account" => Account!AccountExact
=============================================================================
