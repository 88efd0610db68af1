----------------------------- MODULE EthereumIndex -----------------------------
(***************************************************************************)
(* The contents of the Ethereum-type index (db/rocksdb_ethereumtype.go):   *)
(* the columns addresses, addressContracts and blockTxs, as ConnectBlock,  *)
(* BulkConnect and DisconnectBlockRangeEthereumType compute them from the  *)
(* transactions and the token transfers of the blocks.                     *)
(*                                                                         *)
(* A row of the column addresses lists the transactions of one address in  *)
(* one block, each with its indexes: 0 is a transfer of ether, n > 0 the   *)
(* token contract at position n of the address's row in addressContracts,  *)
(* and the complement ^n the same for the sender.  The history is thus     *)
(* only readable as long as contracts keep their positions.                *)
(*                                                                         *)
(* Chains are shorter than KeepBlockAddresses, so that blockTxs has a row  *)
(* for every block; IndexStore has its cleanup.                            *)
(***************************************************************************)
EXTENDS SequencesExt

CONSTANTS
    EthTx,        \* transaction ids
    From, To,     \* tx -> its sender and recipient
    Transfers,    \* tx -> sequence of [contract, from, to]
    EthAddr,      \* addresses
    Zero,         \* the address 0x0, a member of EthAddr
    Missing,      \* instead of an address: there is none (contract creation)
    Bad,          \* instead of an address: the parser cannot decode it
    NoContracts,  \* there is no row in addressContracts
    MaxEthHeight, MaxEthBlockTxs

VARIABLES
    blocks,       \* blocks[h]: transactions of the block at height h
    history,      \* column addresses, as a set of [ad, height, tx, indexes]
    contracts,    \* address -> [total, non, list of [contract, txs]], or NoContracts
    blockTxs      \* column blockTxs: blocks[h] as read back for a disconnect

vars == <<blocks, history, contracts, blockTxs>>
-----------------------------------------------------------------------------
\* The bitwise complement of a Go integer.
Complement(i) == -i - 1

\* Positions of contract c in a list of contracts; at most one.
FindContract(c, list) == {i \in DOMAIN list : list[i].contract = c}

\* Mutant of AddContract: the most recently used contract comes first.
AddContractFront(list, c) ==
    IF FindContract(c, list) # {} THEN list ELSE <<[contract |-> c, txs |-> 0]>> \o list

AddContract(list, c) ==
    IF FindContract(c, list) # {} THEN list ELSE Append(list, [contract |-> c, txs |-> 0])

\* addToAddressesMap: the entry of the transaction gets one more index.
AddIndex(entries, t, index) ==
    IF \E i \in DOMAIN entries : entries[i].tx = t
    THEN [i \in DOMAIN entries |->
             IF entries[i].tx = t
             THEN [entries[i] EXCEPT !.indexes = Append(@, index)] ELSE entries[i]]
    ELSE Append(entries, [tx |-> t, indexes |-> <<index>>])

EmptyContracts == [total |-> 0, non |-> 0, list |-> <<>>]

(***************************************************************************)
(* processAddressesEthereumType works on m: cs is addressContracts over    *)
(* the column, at the block's addressesMap.                                *)
(***************************************************************************)
CountTx(m, ad, t, index) ==
    LET known == \E i \in DOMAIN m.at[ad] : m.at[ad][i].tx = t
    IN  [m EXCEPT !.at[ad] = AddIndex(@, t, index),
                  !.cs[ad].total = IF known THEN @ ELSE @ + 1]

\* addToAddressesAndContractsEthereumType without a contract.
AddEther(m, ad, t, index, count) ==
    CountTx([m EXCEPT !.cs[ad].non = IF count THEN @ + 1 ELSE @], ad, t, index)

\* The same with a contract; the zero address keeps the index of the transfer.
AddToken(m, ad, t, index, c, count) ==
    LET list == AddContract(m.cs[ad].list, c)
        i == CHOOSE i \in FindContract(c, list) : TRUE
        n == [m EXCEPT !.cs[ad].list =
                 IF count THEN [list EXCEPT ![i].txs = @ + 1] ELSE list]
    IN  IF ad = Zero THEN CountTx(m, ad, t, index)
        ELSE CountTx(n, ad, t, IF index < 0 THEN Complement(i) ELSE i)

AddTransfer(m, t, k) ==
    LET x == Transfers[t][k]
        n == AddToken(m, x.to, t, k - 1, x.contract, TRUE)
    IN  IF Bad \in {x.contract, x.from, x.to} THEN m
        ELSE AddToken(n, x.from, t, Complement(k - 1), x.contract, x.from # x.to)

\* An address that cannot be decoded ends the work on the transaction.
AddTx(m, t) ==
    LET received == IF To[t] = Missing THEN m ELSE AddEther(m, To[t], t, 0, TRUE)
        sent == IF From[t] = Missing THEN received
                ELSE AddEther(received, From[t], t, Complement(0), From[t] # To[t])
    IN  CASE To[t] = Bad -> m
          [] From[t] = Bad /\ To[t] # Bad -> received
          [] OTHER -> FoldLeftDomain(LAMBDA x, k : AddTransfer(x, t, k), sent, Transfers[t])

\* An address as storeAndCleanupBlockTxsEthereumType writes it and
\* getBlockTxsEthereumType reads it: 0x0 stands for no address.
Stored(ad) == IF ad \in {Zero, Bad} THEN Missing ELSE ad

BlockTxContracts(t) ==
    FlattenSeq([k \in DOMAIN Transfers[t] |-> LET x == Transfers[t][k] IN
        IF Bad \in {x.contract, x.from, x.to} THEN <<>>
        ELSE <<[ad |-> Stored(x.from), contract |-> x.contract]>>
             \o IF x.from = x.to THEN <<>>
                ELSE <<[ad |-> Stored(x.to), contract |-> x.contract]>>])

BlockTx(t) ==
    [tx |-> t,
     from |-> IF To[t] = Bad THEN Missing ELSE Stored(From[t]),
     to |-> Stored(To[t]),
     contracts |-> IF Bad \in {From[t], To[t]} THEN <<>> ELSE BlockTxContracts(t)]

ProcessAddresses(cs, blk) ==
    FoldLeft(AddTx, [cs |-> cs, at |-> [ad \in EthAddr |-> <<>>]], blk)
-----------------------------------------------------------------------------
\* GetAddrDescContracts, and the empty record of an address that has no row.
Loaded == [ad \in EthAddr |->
              IF contracts[ad] = NoContracts THEN EmptyContracts ELSE contracts[ad]]

\* storeAddressContracts: a row that has neither is deleted, whatever its total.
StoreContracts(cs) ==
    [ad \in EthAddr |->
        IF cs[ad] = NoContracts THEN NoContracts
        ELSE IF cs[ad].non = 0 /\ cs[ad].list = <<>> THEN NoContracts ELSE cs[ad]]

\* storeAddresses: a row replaces the row of the same address and height.
StoreAddresses(rows, at, h) ==
    {r \in rows : r.height # h \/ at[r.ad] = <<>>}
    \cup UNION {{[ad |-> ad, height |-> h, tx |-> e.tx, indexes |-> e.indexes] :
                    e \in ToSet(at[ad])} : ad \in EthAddr}

\* Blocks a node can deliver on top of c.
Delivers(c) ==
    {blk \in SeqOf(EthTx, MaxEthBlockTxs) :
        /\ blk # <<>> /\ IsInjective(blk)
        /\ \A h \in DOMAIN c : ToSet(c[h]) \cap ToSet(blk) = {}}

BlockTxsOf(blk) == [k \in DOMAIN blk |-> BlockTx(blk[k])]

ConnectBlock(blk) ==
    LET m == ProcessAddresses(Loaded, blk)
        h == Len(blocks) + 1
    IN  /\ Len(blocks) < MaxEthHeight
        /\ blocks' = Append(blocks, blk)
        /\ history' = StoreAddresses(history, m.at, h)
        /\ contracts' = StoreContracts(m.cs)
        /\ blockTxs' = Append(blockTxs, BlockTxsOf(blk))

\* BulkConnect keeps addressContracts in memory from block to block, or, when
\* there are too many, writes them and reads them again (flushed).
BulkConnect(blk1, blk2, flushed) ==
    LET m1 == ProcessAddresses(Loaded, blk1)
        kept == [ad \in EthAddr |->
                    IF flushed /\ StoreContracts(m1.cs)[ad] = NoContracts
                    THEN EmptyContracts ELSE m1.cs[ad]]
        m2 == ProcessAddresses(kept, blk2)
        h == Len(blocks) + 1
    IN  /\ Len(blocks) + 1 < MaxEthHeight
        /\ blocks' = blocks \o <<blk1, blk2>>
        /\ history' = StoreAddresses(StoreAddresses(history, m1.at, h), m2.at, h + 1)
        /\ contracts' = StoreContracts(m2.cs)
        /\ blockTxs' = blockTxs \o <<BlockTxsOf(blk1), BlockTxsOf(blk2)>>
-----------------------------------------------------------------------------
(***************************************************************************)
(* disconnectBlockTxsEthereumType.  m.seen is the local map addresses, as  *)
(* a set of <<address, tx>>.  A row that is missing is left alone.         *)
(***************************************************************************)
Lowered(list, c) ==
    LET is == FindContract(c, list)
        i == CHOOSE i \in is : TRUE
    IN  IF is = {} \/ list[i].txs = 0 THEN list
        ELSE IF list[i].txs > 1 THEN [list EXCEPT ![i].txs = @ - 1]
        ELSE RemoveAt(list, i)

DisconnectAddress(m, t, ad, c) ==
    LET n == [m EXCEPT !.seen = @ \cup {<<ad, t>>}]
        row == m.cs[ad]
    IN  CASE ad = Missing -> m
          [] ad # Missing /\ row = NoContracts -> n
          [] OTHER ->
               [n EXCEPT !.cs[ad] =
                   [total |-> IF <<ad, t>> \in m.seen THEN row.total ELSE row.total - 1,
                    non |-> IF c = Missing /\ row.non > 0 THEN row.non - 1 ELSE row.non,
                    list |-> IF c = Missing THEN row.list ELSE Lowered(row.list, c)]]

DisconnectTx(m, b) ==
    LET n == DisconnectAddress(m, b.tx, b.from, Missing)
        both == IF b.from = b.to THEN n ELSE DisconnectAddress(n, b.tx, b.to, Missing)
    IN  FoldLeft(LAMBDA x, c : DisconnectAddress(x, b.tx, c.ad, c.contract),
                 both, b.contracts)

\* The rows of the addresses seen in the block are deleted.
DisconnectBlock(m, h) ==
    LET n == FoldLeft(DisconnectTx, [m EXCEPT !.seen = {}], blockTxs[h])
    IN  [n EXCEPT !.rows = {r \in @ : r.height # h \/ ~ \E s \in n.seen : s[1] = r.ad}]

\* Blocks from lower to the last one, backwards, and in one write.
DisconnectBlockRange(lower) ==
    LET heights == Reverse([k \in 1 .. Len(blocks) - lower + 1 |-> lower + k - 1])
        m == FoldLeft(DisconnectBlock,
                      [cs |-> contracts, rows |-> history, seen |-> {}], heights)
    IN  /\ blocks' = SubSeq(blocks, 1, lower - 1)
        /\ history' = m.rows
        /\ contracts' = StoreContracts(m.cs)
        /\ blockTxs' = SubSeq(blockTxs, 1, lower - 1)

Init ==
    /\ blocks = <<>>
    /\ history = {}
    /\ contracts = [ad \in EthAddr |-> NoContracts]
    /\ blockTxs = <<>>

Next ==
    \/ \E blk \in Delivers(blocks) : ConnectBlock(blk)
    \/ \E blk1 \in Delivers(blocks) : \E blk2 \in Delivers(Append(blocks, blk1)) :
           \E flushed \in BOOLEAN : BulkConnect(blk1, blk2, flushed)
    \/ \E lower \in 1 .. Len(blocks) : DisconnectBlockRange(lower)

Spec == Init /\ [][Next]_vars
-----------------------------------------------------------------------------
(***************************************************************************)
(* What the index of a chain is, defined from the chain alone.             *)
(***************************************************************************)
EthTxs == UNION {ToSet(blocks[h]) : h \in DOMAIN blocks}
EtherParties(t) ==
    (IF To[t] = Bad THEN {} ELSE {To[t], From[t]}) \ {Missing, Bad}
TokenTransfers(t) ==
    IF Bad \in {From[t], To[t]} THEN {}
    ELSE {k \in DOMAIN Transfers[t] : Bad \notin Range(Transfers[t][k])}
TokenParties(t, k) == {Transfers[t][k].from, Transfers[t][k].to}
Parties(t) == EtherParties(t) \cup UNION {TokenParties(t, k) : k \in TokenTransfers(t)}

TxsOf(ad) == {t \in EthTxs : ad \in Parties(t)}
TransfersOf(ad, c) ==
    UNION {{<<t, k>> : k \in {k \in TokenTransfers(t) :
               ad \in TokenParties(t, k) /\ Transfers[t][k].contract = c}} : t \in EthTxs}
Roles(ad, t) ==
    {<<s, 0>> : s \in {s \in {"from", "to"} :
                         ad \in EtherParties(t) /\ ad = IF s = "from" THEN From[t] ELSE To[t]}}
    \cup {<<s, k>> \in {"from", "to"} \X TokenTransfers(t) : Transfers[t][k][s] = ad}
ContractsOf(ad) ==
    UNION {{Transfers[t][k].contract : k \in {k \in TokenTransfers(t) :
               ad \in TokenParties(t, k)}} : t \in EthTxs}

\* There are no empty rows, and no count is below one.
TypeOK ==
    /\ Len(blocks) <= MaxEthHeight /\ Len(blockTxs) = Len(blocks)
    /\ \A r \in history : r.ad \in EthAddr /\ r.tx \in EthTx /\ r.indexes # <<>>
    /\ \A ad \in EthAddr : contracts[ad] # NoContracts =>
         /\ contracts[ad].total > 0
         /\ \A i \in DOMAIN contracts[ad].list : contracts[ad].list[i].txs > 0

\* After any sequence of connects, bulk connects and disconnects the counts of
\* an address are those of the chain: its transactions, those among them that
\* name it as sender or recipient, and for every token contract the transfers
\* from or to it, a transfer to itself counted once.
CountsExact ==
    \A ad \in EthAddr \ {Zero} :
        IF TxsOf(ad) = {} THEN contracts[ad] = NoContracts
        ELSE LET row == contracts[ad]
             IN  /\ row # NoContracts
                 /\ row.total = Cardinality(TxsOf(ad))
                 /\ row.non = Cardinality({t \in EthTxs : ad \in EtherParties(t)})
                 /\ {row.list[i].contract : i \in DOMAIN row.list} = ContractsOf(ad)
                 /\ \A i \in DOMAIN row.list :
                        row.list[i].txs = Cardinality(TransfersOf(ad, row.list[i].contract))

\* The history of an address has its transactions, each under the height of its
\* block, and an index for every role the address has in the transaction.
HistoryExact ==
    \A ad \in EthAddr \ {Zero} :
        /\ {<<r.height, r.tx>> : r \in {r \in history : r.ad = ad}}
             = {<<h, t>> \in (DOMAIN blocks) \X TxsOf(ad) : t \in ToSet(blocks[h])}
        /\ \A r \in history : r.ad = ad => Len(r.indexes) = Cardinality(Roles(ad, r.tx))

\* An index in the history of an address leads to the contract that was meant
\* when it was written, although disconnected blocks have taken contracts out
\* of the middle of the list since.
IndexesResolve ==
    \A r \in history : \A i \in DOMAIN r.indexes :
        LET x == r.indexes[i]
            p == IF x < 0 THEN Complement(x) ELSE x
            side == IF x < 0 THEN "from" ELSE "to"
        IN  r.ad # Zero /\ p > 0 =>
                /\ contracts[r.ad] # NoContracts /\ p <= Len(contracts[r.ad].list)
                /\ \E k \in TokenTransfers(r.tx) :
                     /\ Transfers[r.tx][k][side] = r.ad
                     /\ Transfers[r.tx][k].contract = contracts[r.ad].list[p].contract

\* DisconnectBlockRangeEthereumType "removes all data belonging to blocks in
\* range lower-higher": no row of the history is of a block that was disconnected.
DisconnectRemovesAll ==
    \A r \in history : r.height \in DOMAIN blocks /\ r.tx \in ToSet(blocks[r.height])
=============================================================================
