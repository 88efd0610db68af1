--------------------------------- MODULE Xpub ---------------------------------
(***************************************************************************)
(* Accounts of api/xpub.go: the derived addresses of an extended public    *)
(* key, their cached balances and transactions, and the two requests that  *)
(* read them, GetXpubAddress and GetXpubUtxo.                              *)
(*                                                                         *)
(* An entry of cachedXpubs is copied as a struct, its two slices of        *)
(* addresses are not: requests for the same key that find the entry share  *)
(* the elements without a lock.  Slices live in heap here and an entry     *)
(* refers to them.  A slice is scanned, loaded or read in one step.        *)
(***************************************************************************)
EXTENDS QueryWorld, FiniteSetsExt

CONSTANTS
    Procs,       \* requests that may run at the same time
    XRequests,   \* what is asked for, [option, gap, onlyConfirmed]
    Derived,     \* DeriveAddressDescriptorsFromTo: <<external, change>> addresses
    MaxChanges   \* steps of the world while requests run

VARIABLES
    cached,      \* cachedXpubs[xpub], or NoData
    heap,        \* Ref -> <<addresses, changeAddresses>>
    mixed,       \* slices two requests wrote to with different ideas of the chain
    proc,        \* requests that run, proc[p].at is the next step
    changes      \* world steps since some request started

xpubVars == <<cached, heap, mixed, proc, changes>>
vars == <<worldVars, xpubVars>>

Ref == 1 .. Cardinality(Procs) + 2
NoData == [gap |-> 0, height |-> 0, hash |-> 0, balance |-> 0, ref |-> 0, len |-> <<0, 0>>]
NoRequest == [at |-> "none"]
Quiet == proc = [p \in Procs |-> NoRequest]
-----------------------------------------------------------------------------
(* Reads of the index and of the mempool. *)

\* GetAddrDescBalance; a balance without transactions stands for nil.
BalanceOf(a) ==
    LET us == UtxosOf(a)
    IN  [txs |-> Len(History(a)), utxos |-> us,
         sat |-> MapThenSumSet(LAMBDA o : Outs[o.tx][o.vout].val, ToSet(us))]
Used(ad) == ad.balance.txs > 0

InputOutput(xs) == {"in" : x \in {x \in xs : x < 0}} \cup {"out" : x \in {x \in xs : x >= 0}}

\* xpubGetAddressTxids from the index, newest first.
XpubTxids(a, from, to) ==
    LET ts == SelectSeq(History(a), LAMBDA t : HeightOf(chain, t) \in from .. to)
    IN  [k \in DOMAIN ts |-> [tx |-> ts[k], height |-> HeightOf(chain, ts[k]),
                              io |-> InputOutput(IndexesOf(a, ts[k]))]]

\* xpubGetAddressTxids from the mempool keeps, for each transaction, the index
\* of the entry before its own, and a second outpoint of the address is noted
\* there: in entry -1, outside of the slice, for the first transaction.
MempoolOf(a) == SelectSeq(Order, LAMBDA t : t \in pool /\ IndexesOf(a, t) # {})
Outpoints(a, t) == Cardinality(IndexesOf(a, t))
MempoolIo(a, k) ==
    LET ms == MempoolOf(a)
        first(t) == IF \E x \in IndexesOf(a, t) : x >= 0 THEN "out" ELSE "in"
        rest(t) == IF Outpoints(a, t) = 1 THEN {}
                   ELSE InputOutput(IndexesOf(a, t) \ {CHOOSE x \in IndexesOf(a, t) : first(t) = "out" => x >= 0})
    IN  {first(ms[k])} \cup IF k < Len(ms) THEN rest(ms[k + 1]) ELSE {}
MempoolPanics(a) == MempoolOf(a) # <<>> /\ Outpoints(a, Head(MempoolOf(a))) > 1
-----------------------------------------------------------------------------
(* xpubScanAddresses *)

NewAddress(ch, i) ==
    [balance |-> BalanceOf(Derived[ch][i]), txs |-> 0, maxHeight |-> 0,
     complete |-> FALSE, txids |-> <<>>]

Rescan(ch, ads, fork) ==
    [i \in DOMAIN ads |->
        IF fork THEN NewAddress(ch, i)
        ELSE [ads[i] EXCEPT !.balance = BalanceOf(Derived[ch][i])]]

\* Index from 0 of the last used address, 0 if there is none.
LastUsed(ads) == IF \E i \in DOMAIN ads : Used(ads[i])
                 THEN Max({i \in DOMAIN ads : Used(ads[i])}) - 1 ELSE 0

\* Mutant of Derive: the addresses that were just derived are not looked at.
DeriveOnce(ch, ads, gap, min) ==
    LET missing == Len(ads) - LastUsed(ads)
        to == Max({Len(ads) + gap - missing, min})
    IN  IF missing >= gap THEN ads
        ELSE ads \o [i \in 1 .. to - Len(ads) |-> NewAddress(ch, Len(ads) + i)]

\* Addresses are derived until gap of them follow the last used one.
RECURSIVE Derive(_, _, _, _)
Derive(ch, ads, gap, min) ==
    LET missing == Len(ads) - LastUsed(ads)
        to == Max({Len(ads) + gap - missing, min})
    IN  IF missing >= gap THEN ads
        ELSE Derive(ch, ads \o [i \in 1 .. to - Len(ads) |-> NewAddress(ch, Len(ads) + i)], gap, min)

TotalOf(ads) == MapThenSumSet(LAMBDA i : ads[i].balance.sat, DOMAIN ads)
-----------------------------------------------------------------------------
(* The slices.  append finds room in the array and writes into it, so that
   entries that share the array but are shorter keep their length; an append
   that has to move the array shares less. *)

Slice(d, ch) == IF d.ref = 0 THEN <<>> ELSE SubSeq(heap[d.ref][ch], 1, d.len[ch])

WriteSlice(d, ch, ads) ==
    heap' = [heap EXCEPT ![d.ref][ch] = ads \o SubSeq(@, Len(ads) + 1, Len(@))]

Live == {cached.ref} \cup {proc[p].data.ref : p \in {p \in Procs : proc[p].at # "none"}}
FreeRef == Min(Ref \ Live)

Step(p, r) == proc' = [proc EXCEPT ![p] = r]

\* Requests that share the slices of p.
Beside(p) == {q \in Procs \ {p} : proc[q].at # "none" /\ proc[q].data.ref = proc[p].data.ref}
-----------------------------------------------------------------------------
(* getXpubData *)

Init ==
    /\ WorldInit
    /\ cached = NoData
    /\ heap = [r \in Ref |-> <<<<>>, <<>>>>]
    /\ mixed = {}
    /\ proc = [p \in Procs |-> NoRequest]
    /\ changes = 0

\* The request copies the entry of the cache.
Start(p, q) ==
    /\ proc[p].at = "none"
    /\ Step(p, [at |-> "best", q |-> q, data |-> cached, found |-> cached # NoData,
             processed |-> 0, height |-> 0, hash |-> 0, fork |-> FALSE, ch |-> 1, last |-> 0,
             new |-> <<>>, txm |-> <<>>, mem |-> <<>>, ubal |-> 0, txids |-> <<>>, utxos |-> <<>>,
             tips |-> {BestHash}, returned |-> FALSE, moved |-> FALSE,
             exact |-> <<>>])
    /\ UNCHANGED <<worldVars, cached, heap, mixed, changes>>

Reference == [balance |-> TotalOf([i \in 1 .. Len(Derived[1]) + Len(Derived[2]) |->
                              [balance |-> BalanceOf((Derived[1] \o Derived[2])[i])]]),
              txs |-> {t \in TxsOf(chain) : \E a \in ToSet(Derived[1] \o Derived[2]) :
                                                IndexesOf(a, t) # {}}]

AtLoad(r) == [r EXCEPT !.at = IF r.q.option = "txids" THEN "load" ELSE "best", !.ch = 1]

\* Scan the addresses if there are new blocks or a fork, and load transactions.
Process(r) ==
    IF r.data.height < r.height \/ r.fork
    THEN [r EXCEPT !.at = "scan", !.ch = 1, !.processed = r.hash,
                   !.data = [@ EXCEPT !.height = r.height, !.hash = r.hash, !.balance = 0]]
    ELSE AtLoad([r EXCEPT !.processed = r.hash])

\* The loop goes on until no block came while the data was loaded.  Data that
\* was not found, or was found for another gap, is made anew.
GetBestBlock(p) ==
    /\ proc[p].at = "best"
    /\ LET r == [proc[p] EXCEPT !.height = BestHeight, !.hash = BestHash]
           new == [NoData EXCEPT !.gap = r.q.gap, !.ref = FreeRef]
       IN  /\ IF BestHash = r.processed
              THEN /\ Step(p, [r EXCEPT !.at = "store", !.exact = Reference])
                   /\ UNCHANGED heap
              ELSE IF r.found /\ r.data.gap = r.q.gap
              THEN /\ Step(p, [r EXCEPT !.at = "hash"])
                   /\ UNCHANGED heap
              ELSE /\ Step(p, Process([r EXCEPT !.fork = FALSE, !.data = new]))
                   /\ heap' = [heap EXCEPT ![FreeRef] = <<<<>>, <<>>>>]
           /\ UNCHANGED <<worldVars, cached, mixed, changes>>

\* A fork is seen by the hash at the height of the data.
CheckFork(p) ==
    /\ proc[p].at = "hash"
    /\ LET d == proc[p].data
       IN  /\ Step(p, Process([proc[p] EXCEPT !.fork = HashAt(d.height) # d.hash]))
           /\ UNCHANGED <<worldVars, cached, heap, mixed, changes>>

\* xpubScanAddresses for one slice; the change addresses are derived up to the
\* last used external one.
Scan(p) ==
    /\ proc[p].at = "scan"
    /\ LET r == proc[p]
           known == Rescan(r.ch, Slice(r.data, r.ch), r.fork)
           ads == Derive(r.ch, known, r.q.gap, IF r.ch = 1 THEN 0 ELSE r.last)
           g == [r EXCEPT !.data = [@ EXCEPT !.balance = @ + TotalOf(ads), !.len[r.ch] = Len(ads)]]
       IN  /\ WriteSlice(r.data, r.ch, ads)
           /\ Step(p, IF r.ch = 1 THEN [g EXCEPT !.ch = 2, !.last = LastUsed(ads)]
                      ELSE AtLoad([g EXCEPT !.last = 0]))
           /\ mixed' = IF r.fork /\ Beside(p) # {} THEN mixed \cup {r.data.ref} ELSE mixed
           /\ UNCHANGED <<worldVars, cached, changes>>

\* xpubCheckAndLoadTxids, the reads: new transactions of the addresses that are
\* loaded and whose number of transactions changed, all of those that are not.
Load(p) ==
    /\ proc[p].at = "load"
    /\ LET r == proc[p]
           ads == Slice(r.data, r.ch)
           new(i) == [more |-> ads[i].complete,
                      txids |-> XpubTxids(Derived[r.ch][i],
                                    IF ads[i].complete THEN ads[i].maxHeight + 1 ELSE 0, r.height)]
           stale == {i \in DOMAIN ads : /\ Used(ads[i])
                                        /\ ads[i].complete => ads[i].balance.txs # ads[i].txs}
       IN  /\ Step(p, [r EXCEPT !.at = "loaded", !.new = [i \in stale |-> new(i)]])
           /\ UNCHANGED <<worldVars, cached, heap, mixed, changes>>

\* xpubCheckAndLoadTxids, the writes: new ones before those that are there.
Loaded(p) ==
    /\ proc[p].at = "loaded"
    /\ LET r == proc[p]
           ads == Slice(r.data, r.ch)
           all(i) == r.new[i].txids \o IF r.new[i].more THEN ads[i].txids ELSE <<>>
       IN  /\ Step(p, IF r.ch = 1 THEN [r EXCEPT !.at = "load", !.ch = 2, !.new = <<>>]
                                ELSE [r EXCEPT !.at = "best", !.ch = 1, !.new = <<>>])
           /\ mixed' = mixed \cup {r.data.ref : q \in {q \in Beside(p) : proc[q].hash \notin {0, r.hash}}}
           /\ WriteSlice(r.data, r.ch, [i \in DOMAIN ads |->
                  IF i \notin DOMAIN r.new THEN ads[i]
                  ELSE [ads[i] EXCEPT !.txids = all(i), !.txs = Len(all(i)),
                                      !.maxHeight = r.height, !.complete = TRUE]])
           /\ UNCHANGED <<worldVars, cached, changes>>

AfterData(q) ==
    IF q.option = "utxos" THEN "utxos"
    ELSE IF q.filter.onlyConfirmed \/ q.filter.to # 0 THEN "merge" ELSE "mempool"

\* The entry is stored; what the request goes on with is still shared.
Store(p) ==
    /\ proc[p].at = "store"
    /\ Step(p, [proc[p] EXCEPT !.at = AfterData(proc[p].q), !.ch = 1])
    /\ cached' = proc[p].data
    /\ UNCHANGED <<worldVars, heap, mixed, changes>>

\* evictXpubCacheItems: the entry is too old, or the oldest of a full cache.
EvictEntry ==
    /\ cached # NoData
    /\ cached' = NoData
    /\ UNCHANGED <<worldVars, heap, mixed, proc, changes>>
-----------------------------------------------------------------------------
(* GetXpubAddress *)

NodeKnows(t) == t \in nodePool \cup TxsOf(nodeChain)
NodeConfirmations(t) ==
    IF t \in TxsOf(nodeChain) THEN Len(nodeChain) - HeightOf(nodeChain, t) ELSE 0

ValueFor(a, t) ==
    LET outs == {n \in DOMAIN Outs[t] : Outs[t][n].addr = a}
        ins == {i \in DOMAIN Ins[t] : Outs[Ins[t][i].tx][Ins[t][i].vout].addr = a}
    IN  MapThenSumSet(LAMBDA n : Outs[t][n].val, outs)
        - MapThenSumSet(LAMBDA i : Outs[Ins[t][i].tx][Ins[t][i].vout].val, ins)

\* txidFilter
Passes(x, filter) ==
    /\ x.height >= filter.from
    /\ filter.to = 0 \/ x.height <= filter.to
    /\ filter.vout = "inputs" => "in" \in x.io
    /\ filter.vout = "outputs" => "out" \in x.io

\* One transaction of the mempool at one address: it is looked up once for all
\* addresses and shown if the backend has it unconfirmed.
AddPending(r, a, k) ==
    LET t == MempoolOf(a)[k]
        known == t \in DOMAIN r.txm
        conf == IF known THEN r.txm[t] ELSE NodeConfirmations(t)
        x == [tx |-> t, height |-> 0, io |-> MempoolIo(a, k)]
    IN  IF ~known /\ ~NodeKnows(t) THEN r
        ELSE [r EXCEPT !.txm = (t :> conf) @@ @,
                       !.ubal = IF conf = 0 THEN @ + ValueFor(a, t) ELSE @,
                       !.mem = IF conf = 0 /\ ~known /\ Passes(x, r.q.filter)
                               THEN Append(@, t) ELSE @]

\* The mempool transactions of one slice.
Mempool(p) ==
    /\ proc[p].at = "mempool"
    /\ LET r == proc[p]
           as == [i \in 1 .. r.data.len[r.ch] |-> Derived[r.ch][i]]
           one(g, a) == FoldLeft(LAMBDA f, k : AddPending(f, a, k), g, [k \in DOMAIN MempoolOf(a) |-> k])
           all == FoldLeft(one, r, as)
       IN  /\ Step(p, IF \E i \in DOMAIN as : MempoolPanics(as[i]) THEN [r EXCEPT !.at = "panic"]
                   ELSE IF r.ch = 1 THEN [all EXCEPT !.ch = 2]
                   ELSE [all EXCEPT !.at = "merge", !.ch = 1])
           /\ UNCHANGED <<worldVars, cached, heap, mixed, changes>>

\* A transaction of several addresses is added once, by the first that passes.
Unique(list, filter) ==
    FoldLeft(LAMBDA u, x : IF Passes(x, filter) /\ \A k \in DOMAIN u : u[k].tx # x.tx
                           THEN Append(u, x) ELSE u, <<>>, list)

\* xpubTxids.Less, which holds both ways for two inputs or two outputs.
Less(x, y) == IF x.height = y.height THEN "in" \in y.io => "in" \in x.io
              ELSE x.height > y.height

\* Merge the transactions of one slice, sort after the last one.
Merge(p) ==
    /\ proc[p].at = "merge"
    /\ LET r == proc[p]
           ads == Slice(r.data, r.ch)
           list == r.txids \o FlattenSeq([i \in DOMAIN ads |-> ads[i].txids])
           g == [r EXCEPT !.txids = list]
       IN  /\ Step(p, IF r.q.option = "basic" THEN [r EXCEPT !.at = "answer"]
                   ELSE IF r.ch = 1 THEN [g EXCEPT !.ch = 2]
                   ELSE [g EXCEPT !.at = "answer", !.ch = 1,
                                  !.txids = SortSeq(Unique(list, r.q.filter), Less)])
           /\ UNCHANGED <<worldVars, cached, heap, mixed, changes>>
-----------------------------------------------------------------------------
(* GetXpubUtxo *)

\* getAddrDescUtxo with the balance of the entry, for one address.
UtxosFor(a, ad, q) ==
    LET mc == IF q.filter.onlyConfirmed THEN <<>> ELSE SelectSeq(MempoolOf(a), NodeKnows)
        os == FlattenSeq([k \in DOMAIN mc |-> [n \in DOMAIN Outs[mc[k]] |-> [tx |-> mc[k], vout |-> n]]])
        unspent(o) == Outs[o.tx][o.vout].addr = a /\ ~SpentIn(ToSet(mc), o)
    IN  SelectSeq(os, unspent) \o SelectSeq(Reverse(ad.balance.utxos), unspent)

Utxos(p) ==
    /\ proc[p].at = "utxos"
    /\ LET r == proc[p]
           ads == Slice(r.data, r.ch)
           some == FlattenSeq([i \in DOMAIN ads |-> UtxosFor(Derived[r.ch][i], ads[i], r.q)])
           g == [r EXCEPT !.utxos = @ \o some]
       IN  /\ Step(p, IF r.ch = 1 THEN [g EXCEPT !.ch = 2] ELSE [g EXCEPT !.at = "answer", !.ch = 1])
           /\ UNCHANGED <<worldVars, cached, heap, mixed, changes>>
-----------------------------------------------------------------------------
Answered(p) == proc[p].at \in {"answer", "panic"}

\* The client has its answer; slices nobody refers to any more are dropped.
Deliver(p) ==
    LET live == {cached.ref} \cup {proc[q].data.ref : q \in {q \in Procs \ {p} : proc[q].at # "none"}}
    IN  /\ Answered(p)
        /\ proc' = [proc EXCEPT ![p] = NoRequest]
        /\ mixed' = mixed \cap live
        /\ heap' = [x \in Ref |-> IF x \in live THEN heap[x] ELSE <<<<>>, <<>>>>]
        /\ changes' = IF \A q \in Procs \ {p} : proc[q].at = "none" THEN 0 ELSE changes
        /\ UNCHANGED <<worldVars, cached>>

WorldStep ==
    /\ Quiet \/ changes < MaxChanges
    /\ \A p \in Procs : ~Answered(p)
    /\ NodeNext \/ ConnectAtOnce \/ DisconnectBlocks \/ MempoolResync
    /\ changes' = IF Quiet THEN 0 ELSE changes + 1
    /\ proc' = [p \in Procs |->
          IF proc[p].at = "none" THEN proc[p]
          ELSE [proc[p] EXCEPT !.moved = TRUE,
                               !.tips = @ \cup {BestHash'},
                               !.returned = @ \/ (BestHash' # BestHash /\ BestHash' \in proc[p].tips)]]
    /\ UNCHANGED <<cached, heap, mixed>>

XpubStep(p) ==
    \/ GetBestBlock(p) \/ CheckFork(p) \/ Scan(p) \/ Load(p) \/ Loaded(p) \/ Store(p)
    \/ Mempool(p) \/ Merge(p) \/ Utxos(p)

Next ==
    \/ \E p \in Procs : \/ \E q \in XRequests : Start(p, q)
                        \/ XpubStep(p)
                        \/ Deliver(p)
    \/ EvictEntry
    \/ WorldStep

Spec == Init /\ [][Next]_vars
-----------------------------------------------------------------------------
(* Properties. *)

\* The state stays in its types: no more slices are alive than the cache and
\* the requests refer to, and an entry is never longer than its slices.
TypeOK ==
    /\ cached.ref \in Ref \cup {0}
    /\ mixed \subseteq Ref
    /\ changes \in 0 .. MaxChanges
    /\ \A x \in Ref, ch \in 1 .. 2 : Len(heap[x][ch]) <= Len(Derived[ch])
    /\ \A p \in Procs : proc[p].at # "none" =>
          LET d == proc[p].data
          IN  /\ d.ref \in Ref \cup {0}
              /\ d.ref # 0 => \A ch \in 1 .. 2 : d.len[ch] <= Len(heap[d.ref][ch])

\* The data of the request is complete, and its slices were never emptied, or
\* written to for another block, while another request had them.
Ready(p) ==
    /\ proc[p].at \in {"store", "mempool", "merge", "utxos", "answer"}
    /\ proc[p].height > 0 /\ ~proc[p].returned
    /\ proc[p].data.ref \notin mixed

\* The balance of an account is the one of the index at the best block the
\* answer is about, although its addresses were read one after the other while
\* blocks were connected and disconnected and although parts of it were cached:
\* provided that the best block did not return to an earlier one meanwhile.
BalanceExact ==
    \A p \in Procs : Ready(p) => proc[p].data.balance = proc[p].exact.balance

\* The transactions of an account are all that the index had at that block,
\* whatever was cached and whatever another request loads into the slices it
\* shares; there are no others unless blocks came later.
TransactionsExact ==
    \A p \in Procs : Ready(p) /\ proc[p].at = "answer" /\ proc[p].q.option = "txids"
                     /\ proc[p].q.filter.vout = "off" /\ proc[p].q.filter.to = 0 =>
        LET listed == {x.tx : x \in ToSet(proc[p].txids)}
        IN  /\ proc[p].exact.txs \subseteq listed
            /\ ~proc[p].moved => listed = proc[p].exact.txs

\* A transaction is listed once, newest first, also when it belongs to several
\* addresses of the account or when two requests loaded it into one slice.
ListedOnce ==
    \A p \in Procs : proc[p].at = "answer" =>
        LET l == proc[p].txids
        IN  \A i, j \in DOMAIN l : i < j => l[i].tx # l[j].tx /\ l[i].height >= l[j].height

\* When nothing moves, the unspent outputs of the account are those that neither
\* the index nor the mempool spends, once each, from cached balances as well.
UtxosExact ==
    \A p \in Procs : Ready(p) /\ proc[p].at = "answer" /\ ~proc[p].moved
                     /\ proc[p].q.option = "utxos" /\ InSync =>
        LET ts == TxsOf(chain) \cup IF proc[p].q.filter.onlyConfirmed THEN {} ELSE pool
            mine == UNION {ToSet(SubSeq(Derived[ch], 1, proc[p].data.len[ch])) : ch \in 1 .. 2}
        IN  /\ IsInjective(proc[p].utxos)
            /\ ToSet(proc[p].utxos) =
                  {o \in UNION {{[tx |-> t, vout |-> n] : n \in DOMAIN Outs[t]} : t \in ts} :
                      Outs[o.tx][o.vout].addr \in mine /\ ~SpentIn(ts, o)}

\* What is shown for an extended public key is what the index and the mempool have
\* for all its addresses: balance, transactions (each once) and unspent outputs.
AccountExact == TypeOK /\ BalanceExact /\ TransactionsExact /\ ListedOnce /\ UtxosExact
=============================================================================
