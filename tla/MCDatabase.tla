------------------------------ MODULE MCDatabase ------------------------------
(***************************************************************************)
(* What the database contains, in two parts one of which is at work in a   *)
(* behaviour: the rows of the index (ChainIndex) and how they are packed   *)
(* into bytes (Rows).                                                      *)
(*                                                                         *)
(* For the rows of a Bitcoin type coin, a pool of transactions: a coinbase *)
(* that pays one address twice and a second coinbase; a payment with       *)
(* change; one that pays to a cold staking output whose owner is the first *)
(* address; one that spends it together with an input unknown to the index *)
(* and creates an output without address; one that spends the output       *)
(* without address; and one that conflicts with the first payment, for the *)
(* other branch of a fork.                                                 *)
(*                                                                         *)
(* For Ethereum: a payment with a token transfer, a transaction and a      *)
(* transfer to oneself, the creation of a contract that mints tokens (a    *)
(* transfer from 0x0) and moves others, one of which cannot be decoded,    *)
(* and a payment with a transfer each way whose sender cannot be decoded.  *)
(***************************************************************************)
EXTENDS ChainIndex, TLC

CONSTANTS alice, bob, stake, marker, none, unknown

MCTx == {"c1", "c2", "s1", "s2", "s3", "s4", "d1", "lost"}
MCMined == MCTx \ {"lost"}

In(t, v) == [tx |-> t, vout |-> v]
Out(ad, v) == [addr |-> ad, val |-> v]

MCIns ==
    [c1 |-> <<In(NoTx, 1)>>,
     c2 |-> <<In(NoTx, 1)>>,
     s1 |-> <<In("c1", 1)>>,
     s2 |-> <<In("s1", 1), In("s1", 2)>>,
     s3 |-> <<In("s2", 1), In("lost", 1)>>,
     s4 |-> <<In("c2", 1), In("s3", 2)>>,
     d1 |-> <<In("c1", 2), In("c1", 1)>>,
     lost |-> <<>>]

MCOuts ==
    [c1 |-> <<Out(alice, 5), Out(alice, 2)>>,
     c2 |-> <<Out(alice, 4), Out(marker, 0)>>,
     s1 |-> <<Out(bob, 3), Out(alice, 2)>>,
     s2 |-> <<Out(stake, 5)>>,
     s3 |-> <<Out(alice, 5), Out(none, 1)>>,
     s4 |-> <<Out(bob, 4)>>,
     d1 |-> <<Out(bob, 6), Out(alice, 1)>>,
     lost |-> <<>>]

MCIndexable == {alice, bob, stake, unknown}
MCOwner == [x \in {stake} |-> alice]

CONSTANTS ann, ben, tokA, tokB

Transfer(c, f, t) == [contract |-> c, from |-> f, to |-> t]
MCFrom == [e1 |-> ann, e2 |-> ann, e3 |-> ben, e4 |-> Bad]
MCTo   == [e1 |-> ben, e2 |-> ann, e3 |-> Missing, e4 |-> ann]
MCTransfers ==
    [e1 |-> <<Transfer(tokA, ann, ben), Transfer(tokA, ann, ben)>>,
     e2 |-> <<Transfer(tokB, ann, ann), Transfer(tokA, ben, ann)>>,
     e3 |-> <<Transfer(tokB, Zero, ann), Transfer(Bad, ann, ben), Transfer(tokB, ann, ben)>>,
     e4 |-> <<Transfer(tokB, ann, ben), Transfer(tokA, ben, ann)>>]
MCEthTx == DOMAIN MCFrom

(***************************************************************************)
(* For the bytes: txids and Ethereum addresses of two bytes, words of two  *)
(* bytes, descriptors one of which is the start of another, and numbers on *)
(* both sides of the lengths at which their encodings grow.                *)
(***************************************************************************)
CONSTANTS TxidLen, AddrLen, WordBytes, MaxWords, RefreshIterator, Decimals, RowDescs, RowHeights,
          TxLists, Data, MaxRows, MaxChanges

MCRowDescs == {<<7>>, <<7, 255>>, <<9, 0>>}
MCRowHeights == {0, 256}
id1 == <<0, 1>>
id2 == <<200, 130>>
MCTxLists == {<<[btxID |-> id1, indexes |-> <<0>>], [btxID |-> id2, indexes |-> <<-1, 40, -41>>]>>,
              <<[btxID |-> id2, indexes |-> <<63, 31>>]>>}

Big(ws) == [neg |-> FALSE, words |-> ws]
MCBig == {Big(<<>>), Big(<<5>>), Big(<<256>>), Big(<<0, 1>>), Big(<<65535, 300>>)}
MCCounts == {0, 127, 128, 16384}
MCTxInputs == {[AddrDesc |-> d, ValueSat |-> v] : d \in {<<>>, <<130, 1>>}, v \in MCBig}
MCTxOutputs == {[AddrDesc |-> d, Spent |-> s, ValueSat |-> v] :
                   d \in {<<>>, <<130, 1>>}, s \in BOOLEAN, v \in MCBig}
MCContract == {[addr |-> a, contract |-> <<1, 0>>] : a \in {<<>>, <<0, 1>>}}
MCData ==
    [txAddresses |->
        {[Height |-> h, Inputs |-> i, Outputs |-> o, ShieldIns |-> n, ShieldOuts |-> 1, ShieldValBal |-> b] :
            h \in {0, 16384}, i \in {<<>>} \cup {<<x>> : x \in MCTxInputs}, n \in {0, 128},
            o \in {<<>>} \cup {<<x>> : x \in MCTxOutputs},
            b \in {Big(<<>>), [neg |-> TRUE, words |-> <<7>>]}},
     addressBalance |->
        {[Txs |-> t, SentSat |-> s, BalanceSat |-> b, Utxos |-> u] : t \in {0, 128}, s \in {Big(<<>>), Big(<<0, 1>>)}, b \in MCBig,
            u \in {<<>>} \cup {<<[BtxID |-> id2, Vout |-> x, Height |-> t2, ValueSat |-> v],
                                 [BtxID |-> id1, Vout |-> 0, Height |-> 0, ValueSat |-> Big(<<>>)]>> :
                                  x \in {-1, 0, 128}, t2 \in {0, 16384}, v \in MCBig}},
     blockTxs |->
        {<<[btxID |-> id1, inputs |-> i], [btxID |-> id2, inputs |-> j]>> :
            i \in {<<>>, <<[btxID |-> <<>>, index |-> 0]>>},
            j \in {<<[btxID |-> id1, index |-> x], [btxID |-> id2, index |-> y]>> :
                      x \in {0, 63, 64}, y \in {0, 8192}}},
     ethBlockTxs |->
        {<<[btxID |-> id1, from |-> f, to |-> t, contracts |-> c], [btxID |-> id2, from |-> t, to |-> f, contracts |-> <<>>]>> :
            f \in {<<>>, <<0, 1>>}, t \in {<<>>, <<1, 0>>},
            c \in {<<>>} \cup {<<x, y>> : x \in MCContract, y \in MCContract}},
     addressContracts |->
        {[TotalTxs |-> t, NonContractTxs |-> n, Contracts |-> c] : t \in MCCounts, n \in MCCounts,
            c \in {<<>>} \cup {<<[Contract |-> <<0, 0>>, Txs |-> x], [Contract |-> <<130, 1>>, Txs |-> 1]>> :
                                  x \in MCCounts}},
     height |->
        {[Hash |-> id2, Time |-> t, Txs |-> n, Size |-> s] : t \in {0, 65535, 16777216}, n \in MCCounts, s \in MCCounts},
     transactions |->
        {[Txid |-> id1, Height |-> 3, Blocktime |-> 5, Time |-> t, Vin |-> v, Vout |-> <<x, y>>] :
            t \in {5, 6}, v \in {<<>>, <<id2>>}, x \in MCBig, y \in MCBig},
     amount |-> (-210 .. 210) \cup {999, 1000, 1001, 10100, 1010000}]

VARIABLES part, column, hist, row, stat, since

Bytes == INSTANCE Rows
bytesVars == <<column, hist, row, stat, since>>

DbInit ==
    /\ part \in {"rows", "bytes"} /\ ChainInit /\ Bytes!Init
    /\ part = "bytes" => chainType = "ChainBitcoinType"
DbNext ==
    /\ UNCHANGED part
    /\ \/ part = "rows" /\ ChainNext /\ UNCHANGED bytesVars
       \/ part = "bytes" /\ Bytes!Next /\ UNCHANGED chainVars
DbSpec == DbInit /\ [][DbNext]_<<part, chainVars, bytesVars>>

\* Utxos that the map has missed pile up with every further disconnect: such states
\* are not left.
Safe == mapSafe

\* The types of the variables of Rows.
BytesTypeOK == Bytes!TypeOK

\* A scan for a descriptor returns what the blocks of the range wrote for it, newest
\* first, as long as no descriptor in the column is the start of another.
HistoryScan == Bytes!HistoryScan

\* Every row reads back as it was written, whatever the lengths of the numbers in it.
RowsReadBack == Bytes!RowsReadBack

\* The statistics of a column count every row that was there once and no row twice,
\* while rows are added to it.
StatsExact == Bytes!StatsExact

\* A scan returns what was written for its descriptor only: does not hold.
HistoryScanOfAll == Bytes!HistoryScanOfAll

\* The balance of shielded coins keeps its sign in a row: does not hold.
SignKept == Bytes!SignKept

\* The rows of the columns are what was written: numbers read back whatever their
\* length, scans of a history find the blocks of the range, newest first, and the
\* statistics of a column count every row once.
ColumnsExact == Bytes!TypeOK /\ RowsReadBack /\ HistoryScan /\ StatsExact

\* The address index of a Bitcoin-type chain after any connects, disconnects and
\* reorganisations is the one that the transactions of the chain define: amounts and
\* counts of the balances, unspent outputs, spent flags and histories.
BitcoinIndexExact ==
    /\ TypeOK /\ AmountsExact /\ UtxosExact
    /\ TxAddressesExact /\ AddressesExact

\* The same for the index of an Ethereum-type chain: counts of the transfers of every
\* address and contract, histories, and the positions by which they name contracts.
EthereumIndexExact ==
    /\ EthTypeOK /\ EthCountsExact /\ EthHistoryExact
    /\ EthIndexesResolve
=============================================================================
