----------------------------- MODULE AddressIndex -----------------------------
(***************************************************************************)
(* The contents of the Bitcoin-type index (db/rocksdb.go): the columns     *)
(* addresses, txAddresses, addressBalance and blockTxs, as ConnectBlock,   *)
(* BulkConnect and DisconnectBlockRangeBitcoinType compute them from the   *)
(* transactions of the blocks.                                             *)
(*                                                                         *)
(* A block is the sequence of its transactions.  What a transaction spends *)
(* and creates is given by the constants Ins and Outs: Ins[t][i] is the    *)
(* outpoint [tx, vout] of input i, Outs[t][i] the [addr, val] of output i, *)
(* where addr is the address descriptor the parser returns (NoAddr if it   *)
(* returns none or one that is too long).  Outputs are numbered from 1, so *)
(* the vout -1 of a utxo marked as spent is 0 here.                        *)
(*                                                                         *)
(* Chains are shorter than KeepBlockAddresses, so chain[h] is at once the  *)
(* row of the columns height and blockTxs; IndexStore has the rest.        *)
(***************************************************************************)
EXTENDS SequencesExt

CONSTANTS
    Tx,          \* transaction ids
    Mined,       \* the ones that may be in a block; the rest are unknown inputs
    Ins, Outs,
    Indexable,   \* descriptors that have an entry in the index
    Owner,       \* cold staking descriptors -> the descriptor of their owner
    NoAddr,      \* the empty descriptor
    Unknown,     \* descriptor the parser gives to an unknown input
    NoTx,        \* txid of an input that has none (coinbase)
    NoRow,
    MapMin,      \* number of utxos from which they are indexed by a map (16)
    MaxHeight, MaxBlockTxs

ASSUME IndexAssumption ==
    /\ Mined \subseteq Tx /\ NoTx \notin Tx
    /\ NoAddr \notin Indexable
    /\ MapMin \in Nat \ {0}

VARIABLES
    chain,       \* chain[h]: transactions of the block at height h
    addresses,   \* set of <<descriptor, height, tx>>
    txAddresses, \* tx -> [height, ins, spent], or NoRow
    balances,    \* descriptor -> [txs, sent, bal, utxos], or NoRow
    mapSafe      \* history: no disconnect so far put a utxo where utxosMap misses it

vars == <<chain, addresses, txAddresses, balances, mapSafe>>
-----------------------------------------------------------------------------
(***************************************************************************)
(* AddrBalance and its list of utxos.  In memory it also has utxosMap,     *)
(* txid -> index of its first utxo.  The map is built when the list        *)
(* reaches MapMin and then follows addUtxo, so it is determined by the     *)
(* number of utxos it has seen, the field mapped (0: there is no map).     *)
(***************************************************************************)
EmptyBalance == [txs |-> 0, sent |-> 0, bal |-> 0, utxos |-> <<>>, mapped |-> 0]

InMap(b, t) == \E i \in 1 .. b.mapped : b.utxos[i].tx = t
FirstInMap(b, t) == Min({i \in 1 .. b.mapped : b.utxos[i].tx = t})

HasUtxo(b, t, v) ==
    IF b.mapped > 0
    THEN InMap(b, t) /\ b.utxos[FirstInMap(b, t)].vout = v
    ELSE \E i \in DOMAIN b.utxos : b.utxos[i].tx = t /\ b.utxos[i].vout = v

AddUtxo(b, u) ==
    LET n == Len(b.utxos) + 1
    IN  [b EXCEPT !.utxos = Append(@, u),
                  !.mapped = IF n >= MapMin THEN n ELSE @]

\* Mutant of Candidates: the linear search compares vout only.
CandidatesByVout(b, t, v) ==
    IF b.mapped = 0
    THEN {i \in DOMAIN b.utxos : b.utxos[i].vout = v}
    ELSE IF InMap(b, t)
         THEN {i \in FirstInMap(b, t) .. Len(b.utxos) : b.utxos[i].vout = v}
         ELSE {}

\* The position markUtxoAsSpent stops at: with a map, the first utxo of that
\* vout at or after the first one of the transaction, whoever owns it.
Candidates(b, t, v) ==
    IF b.mapped = 0
    THEN {i \in DOMAIN b.utxos : b.utxos[i].vout = v /\ b.utxos[i].tx = t}
    ELSE IF InMap(b, t)
         THEN {i \in FirstInMap(b, t) .. Len(b.utxos) : b.utxos[i].vout = v}
         ELSE {}

MarkUtxoAsSpent(b, t, v) ==
    LET c == Candidates(b, t, v)
    IN  IF c # {} /\ b.utxos[Min(c)].tx = t
        THEN [b EXCEPT !.utxos[Min(c)].vout = 0]
        ELSE b

ResetIfNegative(x) == IF x < 0 THEN 0 ELSE x

\* GetAddrDescBalance with the utxos indexed; NoRow if there is no row.
Unpack(r) ==
    IF r = NoRow THEN NoRow
    ELSE [txs |-> r.txs, sent |-> r.sent, bal |-> r.bal, utxos |-> r.utxos,
          mapped |-> IF Len(r.utxos) >= MapMin THEN Len(r.utxos) ELSE 0]

\* storeBalances: a balance without transactions is deleted, and utxos marked
\* as spent are left out of the row.
Pack(b) ==
    IF b = NoRow \/ b.txs <= 0 THEN NoRow
    ELSE [txs |-> b.txs, sent |-> b.sent, bal |-> b.bal,
          utxos |-> SelectSeq(b.utxos, LAMBDA u : u.vout > 0)]

\* storeBalancesDisconnect: stable sort by height, then storeBalances.  The
\* utxos of a row that was not touched are sorted already.
SortUtxos(us) ==
    FlattenSeq([k \in 1 .. MaxHeight + 1 |->
                   SelectSeq(us, LAMBDA u : u.height = k - 1)])

PackSorted(b) ==
    IF b = NoRow THEN NoRow ELSE Pack([b EXCEPT !.utxos = SortUtxos(@)])
-----------------------------------------------------------------------------
\* The descriptors an output counts for: a cold staking output also counts for
\* the owner.
Descs(ad) == IF ad \in DOMAIN Owner THEN <<ad, Owner[ad]>> ELSE <<ad>>
IndexedDescs(ad) == SelectSeq(Descs(ad), LAMBDA d : d \in Indexable)

(***************************************************************************)
(* processAddressesBitcoinType works on m: tx is txAddressesMap over the   *)
(* column, bal is balances over the column, at is the block's addressesMap *)
(* as a set of <<descriptor, tx>>.                                         *)
(***************************************************************************)
Uncounted(m, ad, t) == IF <<ad, t>> \in m.at THEN 0 ELSE 1

\* One descriptor of one output.
AddOutput(m, e) ==
    LET b == m.bal[e.ad]
        c == [b EXCEPT !.bal = @ + e.val, !.txs = @ + Uncounted(m, e.ad, e.tx)]
        u == [tx |-> e.tx, vout |-> e.vout, height |-> m.height, val |-> e.val]
    IN  IF HasUtxo(b, e.tx, e.vout) THEN m
        ELSE [m EXCEPT !.bal[e.ad] = AddUtxo(c, u), !.at = @ \cup {<<e.ad, e.tx>>}]

\* One descriptor of the output that input e spends.
SpendFrom(m, ad, e, val) ==
    LET b == m.bal[ad]
        c == [b EXCEPT !.txs = @ + Uncounted(m, ad, e.tx),
                       !.bal = ResetIfNegative(@ - val),
                       !.sent = @ + val]
    IN  [m EXCEPT !.bal[ad] = MarkUtxoAsSpent(c, e.prev, e.vout),
                  !.at = @ \cup {<<ad, e.tx>>}]

\* One input.  Inputs without a txid and inputs out of bounds are skipped; the
\* parser names the descriptor of an unknown one.
SpendInput(m, e) ==
    IF e.prev = NoTx THEN m
    ELSE IF m.tx[e.prev] = NoRow
    THEN [m EXCEPT !.tx[e.tx].ins[e.i] = [addr |-> Unknown, val |-> 0]]
    ELSE IF e.vout > Len(m.tx[e.prev].spent) THEN m
    ELSE LET o == Outs[e.prev][e.vout]
             n == [m EXCEPT !.tx[e.tx].ins[e.i] = o,
                            !.tx[e.prev].spent[e.vout] = TRUE]
         IN  FoldLeft(LAMBDA x, ad : SpendFrom(x, ad, e, o.val),
                      n, IndexedDescs(o.addr))

NewTxAddresses(t, h) ==
    [height |-> h,
     ins    |-> [i \in DOMAIN Ins[t] |-> [addr |-> NoAddr, val |-> 0]],
     spent  |-> [i \in DOMAIN Outs[t] |-> FALSE]]

OutputsOf(blk) ==
    FlattenSeq([k \in DOMAIN blk |-> LET t == blk[k] IN
        FlattenSeq([i \in DOMAIN Outs[t] |-> LET ds == IndexedDescs(Outs[t][i].addr) IN
            [j \in DOMAIN ds |->
                [tx |-> t, vout |-> i, ad |-> ds[j], val |-> Outs[t][i].val]]])])

InputsOf(blk) ==
    FlattenSeq([k \in DOMAIN blk |-> LET t == blk[k] IN
        [i \in DOMAIN Ins[t] |->
            [tx |-> t, i |-> i, prev |-> Ins[t][i].tx, vout |-> Ins[t][i].vout]]])

\* All outputs of the block first, so that its inputs can refer to them.
ProcessAddresses(m, blk, h) ==
    LET n == [m EXCEPT !.height = h, !.at = {},
                       !.tx = [t \in Tx |-> IF t \in ToSet(blk)
                                            THEN NewTxAddresses(t, h) ELSE @[t]]]
    IN  FoldLeft(SpendInput, FoldLeft(AddOutput, n, OutputsOf(blk)), InputsOf(blk))
-----------------------------------------------------------------------------
(***************************************************************************)
(* Blocks a node can deliver on top of chain: transactions not there yet   *)
(* that spend unspent outputs of the chain or of earlier transactions of   *)
(* the block.                                                              *)
(***************************************************************************)
TxsOf(c) == UNION {ToSet(c[h]) : h \in DOMAIN c}
SpentBy(ts) == UNION {ToSet(Ins[t]) : t \in ts}

Delivers(c) ==
    {blk \in SeqOf(Mined, MaxBlockTxs) :
        /\ blk # <<>>
        /\ IsInjective(blk)
        /\ ToSet(blk) \cap TxsOf(c) = {}
        /\ \A k \in DOMAIN blk : \A o \in ToSet(Ins[blk[k]]) :
               o.tx \in Mined =>
                   LET before == TxsOf(c) \cup {blk[j] : j \in 1 .. k - 1}
                   IN  o.tx \in before /\ o \notin SpentBy(before)}

Init ==
    /\ chain = <<>>
    /\ addresses = {}
    /\ txAddresses = [t \in Tx |-> NoRow]
    /\ balances = [ad \in Indexable |-> NoRow]
    /\ mapSafe = TRUE

Load(onMissing) ==
    [height |-> 0, at |-> {}, tx |-> txAddresses,
     bal |-> [ad \in Indexable |->
                 IF balances[ad] = NoRow THEN onMissing ELSE Unpack(balances[ad])]]

\* storeAddresses: the rows of the block's addressesMap replace rows of the
\* same key.
StoreAddresses(rows, m) ==
    {r \in rows : ~ \E a \in m.at : a[1] = r[1] /\ r[2] = m.height}
        \cup {<<a[1], m.height, a[2]>> : a \in m.at}

ConnectBlock(blk) ==
    LET m == ProcessAddresses(Load(EmptyBalance), blk, Len(chain) + 1)
    IN  /\ Len(chain) < MaxHeight
        /\ chain' = Append(chain, blk)
        /\ addresses' = StoreAddresses(addresses, m)
        /\ txAddresses' = m.tx
        /\ balances' = [ad \in Indexable |-> Pack(m.bal[ad])]
        /\ UNCHANGED mapSafe

\* BulkConnect keeps balances and txAddressesMap in memory between blocks: the
\* second block finds the utxos marked as spent and the map of the first.
BulkConnect(blk1, blk2) ==
    LET m1 == ProcessAddresses(Load(EmptyBalance), blk1, Len(chain) + 1)
        m2 == ProcessAddresses(m1, blk2, Len(chain) + 2)
    IN  /\ Len(chain) + 1 < MaxHeight
        /\ chain' = chain \o <<blk1, blk2>>
        /\ addresses' = StoreAddresses(StoreAddresses(addresses, m1), m2)
        /\ txAddresses' = m2.tx
        /\ balances' = [ad \in Indexable |-> Pack(m2.bal[ad])]
        /\ UNCHANGED mapSafe
-----------------------------------------------------------------------------
(***************************************************************************)
(* disconnectTxAddresses: at is the local set of addresses, the ones whose *)
(* number of transactions is already lowered.                              *)
(***************************************************************************)
NotSeen(m, ad) == IF ad \in m.at THEN 0 ELSE 1

UndoInput(m, ad, o, val) ==
    LET sa == m.tx[o.tx]
        n  == [m EXCEPT !.at = @ \cup {ad},
                        !.tx = IF sa = NoRow THEN @
                               ELSE [@ EXCEPT ![o.tx].spent[o.vout] = FALSE]]
        u  == [tx |-> o.tx, vout |-> o.vout, val |-> val,
               height |-> IF sa = NoRow THEN 0 ELSE sa.height]
    IN  IF ad \notin Indexable \/ m.bal[ad] = NoRow THEN n
        ELSE [n EXCEPT !.bal[ad].txs = @ - NotSeen(m, ad),
                       !.bal[ad].sent = ResetIfNegative(@ - val),
                       !.bal[ad].bal = @ + val,
                       !.bal[ad].utxos = Append(@, u)]

UndoOutput(m, ad, t, i) ==
    LET n == [m EXCEPT !.at = @ \cup {ad}]
        c == [m.bal[ad] EXCEPT !.txs = @ - NotSeen(m, ad),
                               !.bal = ResetIfNegative(@ - Outs[t][i].val)]
    IN  IF ad \notin Indexable \/ m.bal[ad] = NoRow THEN n
        ELSE [n EXCEPT !.bal[ad] = MarkUtxoAsSpent(c, t, i)]

NonEmpty(ad) == SelectSeq(Descs(ad), LAMBDA d : d # NoAddr)

\* One transaction of the block at height h; its row is read from the column,
\* not from the rows being updated.
DisconnectTx(m, h, t) ==
    LET txa == txAddresses[t]
        In(x, i) == FoldLeft(LAMBDA y, ad : UndoInput(y, ad, Ins[t][i], txa.ins[i].val),
                             x, NonEmpty(txa.ins[i].addr))
        Out(x, i) == FoldLeft(LAMBDA y, ad : UndoOutput(y, ad, t, i),
                              x, NonEmpty(Outs[t][i].addr))
        n == FoldLeftDomain(Out, FoldLeftDomain(In, [m EXCEPT !.at = {}], Ins[t]), Outs[t])
    IN  IF txa = NoRow THEN m
        ELSE [n EXCEPT !.deleted = @ \cup {<<ad, h>> : ad \in n.at}]

\* A map over all of us would lead markUtxoAsSpent to each of them.
MapFindsAll(us) ==
    \A i \in DOMAIN us :
        Min(Candidates([utxos |-> us, mapped |-> Len(us)], us[i].tx, us[i].vout)) = i

\* Blocks from lower to the last one, backwards, and in one write.
DisconnectBlockRange(lower) ==
    LET one(x, h) == FoldLeft(LAMBDA y, t : DisconnectTx(y, h, t), x, Reverse(chain[h]))
        blocks == Reverse([k \in 1 .. Len(chain) - lower + 1 |-> lower + k - 1])
        start == [deleted |-> {}] @@ Load(NoRow)
        m == FoldLeft(one, start, blocks)
        gone == TxsOf(SubSeq(chain, lower, Len(chain)))
    IN  /\ chain' = SubSeq(chain, 1, lower - 1)
        /\ addresses' = {r \in addresses : <<r[1], r[2]>> \notin m.deleted}
        /\ txAddresses' = [t \in Tx |-> IF t \in gone THEN NoRow ELSE m.tx[t]]
        /\ balances' = [ad \in Indexable |-> PackSorted(m.bal[ad])]
        /\ mapSafe' = (mapSafe /\ \A ad \in Indexable : balances[ad] # NoRow =>
                         /\ start.bal[ad].mapped > 0 => m.bal[ad] = start.bal[ad]
                         /\ balances'[ad] # NoRow => MapFindsAll(balances'[ad].utxos))

Next ==
    \/ \E blk \in Delivers(chain) : ConnectBlock(blk)
    \/ \E blk1 \in Delivers(chain) : \E blk2 \in Delivers(Append(chain, blk1)) :
           BulkConnect(blk1, blk2)
    \/ \E lower \in 1 .. Len(chain) : DisconnectBlockRange(lower)

Spec == Init /\ [][Next]_vars
-----------------------------------------------------------------------------
(***************************************************************************)
(* What the index of a chain is, defined from the chain alone.             *)
(***************************************************************************)
Height(t) == CHOOSE h \in DOMAIN chain : t \in ToSet(chain[h])
Counts(ad, o) == ad \in ToSet(Descs(o.addr))


\* Outpoints of the chain that count for ad.
Received(ad) ==
    UNION {{[tx |-> t, vout |-> i] :
               i \in {i \in DOMAIN Outs[t] : Counts(ad, Outs[t][i])}} : t \in TxsOf(chain)}
Sent(ad) == Received(ad) \cap SpentBy(TxsOf(chain))
Unspent(ad) == Received(ad) \ Sent(ad)
Total(os) == MapThenSumSet(LAMBDA o : Outs[o.tx][o.vout].val, os)

\* Transactions of the chain that pay to ad or spend from it.
TxsWith(ad) ==
    {t \in TxsOf(chain) : \/ \E o \in Received(ad) : o.tx = t
                          \/ Sent(ad) \cap ToSet(Ins[t]) # {}}

\* Rows are well formed: no balance without transactions, no negative amount,
\* no utxo marked as spent or of unknown height.
TypeOK ==
    /\ Len(chain) <= MaxHeight /\ \A h \in DOMAIN chain : chain[h] # <<>>
    /\ \A r \in addresses : r[1] \in Indexable /\ r[3] \in Mined
    /\ \A ad \in Indexable : balances[ad] # NoRow =>
         /\ balances[ad].txs > 0 /\ balances[ad].sent \in Nat /\ balances[ad].bal \in Nat
         /\ \A u \in ToSet(balances[ad].utxos) : u.vout > 0 /\ u.height \in 1 .. MaxHeight

\* After any sequence of connects, bulk connects and disconnects (see UtxosExact
\* for the one exception) the number of transactions, the amount sent and the balance of an
\* address are those of the chain: nothing of a disconnected block is left and
\* nothing is counted twice (one address on both sides of a transaction, cold
\* staking owners, outputs spent in their own block, unknown inputs).
AmountsExact ==
    mapSafe => \A ad \in Indexable :
        IF TxsWith(ad) = {} THEN balances[ad] = NoRow
        ELSE /\ balances[ad] # NoRow
             /\ balances[ad].txs = Cardinality(TxsWith(ad))
             /\ balances[ad].sent = Total(Sent(ad))
             /\ balances[ad].bal = Total(Unspent(ad))

\* The utxos of an address are the outputs of the chain that are not spent in
\* it, each once, with the right height and value, oldest first: what
\* markUtxoAsSpent is there for, "finds outpoint btxID:vout in utxos and marks
\* it as spent" by linear search or, from MapMin utxos on, by the map.
UtxosOfChain ==
    \A ad \in Indexable : balances[ad] # NoRow =>
        LET us == balances[ad].utxos
        IN  /\ IsInjective(us)
            /\ ToSet(us) = {[tx |-> o.tx, vout |-> o.vout, height |-> Height(o.tx),
                             val |-> Outs[o.tx][o.vout].val] : o \in Unspent(ad)}
            /\ \A i, j \in DOMAIN us : i < j => us[i].height <= us[j].height

\* That holds through connects that use the map and disconnects that do not,
\* as long as no disconnect has (1) restored or removed utxos of a balance that
\* has a map, which it does not update, or (2) left the utxos in an order in
\* which the map leads to an outpoint of another transaction.
UtxosExact == mapSafe => UtxosOfChain

\* txAddresses has the transactions of the chain and no others, and says of
\* every output that has an address whether the chain spends it.  (The flag of
\* an output without an address stays set when the spending block is
\* disconnected: disconnectTxAddresses skips inputs without an address.)
TxAddressesExact ==
    \A t \in Tx :
        IF t \notin TxsOf(chain) THEN txAddresses[t] = NoRow
        ELSE /\ txAddresses[t] # NoRow /\ txAddresses[t].height = Height(t)
             /\ \A i \in DOMAIN Outs[t] : Outs[t][i].addr # NoAddr =>
                    (txAddresses[t].spent[i] <=>
                        [tx |-> t, vout |-> i] \in SpentBy(TxsOf(chain)))

\* The history of an address lists exactly the transactions of the chain that
\* pay to it or spend from it, each under the height of its block.
AddressesExact ==
    addresses = UNION {{<<ad, Height(t), t>> : t \in TxsWith(ad)} : ad \in Indexable}
=============================================================================
