-------------------------------- MODULE Rows --------------------------------
(***************************************************************************)
(* The rows of the database as bytes: how keys and values are packed, the  *)
(* scans that rely on the order of the keys (db/rocksdb.go,                *)
(* db/rocksdb_ethereumtype.go) and the packing of transactions and amounts *)
(* (bchain/baseparser.go).                                                 *)
(*                                                                         *)
(* The column addresses is kept whole: blocks write its rows, disconnects  *)
(* delete them, histories are read by a scan over a range of keys, and the *)
(* statistics of the column are counted in batches while it changes.  Of   *)
(* the other columns one row at a time is written and read back.           *)
(*                                                                         *)
(* A byte is a number below 256, a txid or descriptor a sequence of bytes, *)
(* a big.Int a sign and its words, least significant first.                *)
(***************************************************************************)
EXTENDS Integers, Sequences, FiniteSets, SequencesExt, FiniteSetsExt

CONSTANTS TxidLen,            \* PackedTxidLen
          AddrLen,            \* EthereumTypeAddressDescriptorLen
          WordBytes,          \* wordBytes
          MaxWords,           \* maxPackedBigintWords
          RefreshIterator,    \* refreshIterator
          Decimals,           \* AmountDecimalPoint
          RowDescs,              \* the address descriptors in the column addresses
          RowHeights,         \* the heights of their rows
          TxLists,            \* the transactions a block may hold for a descriptor
          Data,               \* for every kind of row, the data written
          MaxRows,            \* bound on the rows of the column addresses
          MaxChanges          \* bound on the rows written or deleted while statistics are computed

VARIABLES column,             \* the column addresses, a function of its keys
          hist,               \* what blocks wrote into it: <<descriptor, height>> to transactions
          row,                \* the last row written to another column
          stat,               \* computeColumnSize at work
          since               \* the rows and key bytes when it started, the changes since
vars == <<column, hist, row, stat, since>>

----------------------------------------------------------------------------
(* Numbers *)

\* binary.BigEndian.PutUint32 and Uint32
packUint(n) == [i \in 1 .. 4 |-> (n \div 256 ^ (4 - i)) % 256]
unpackUint(b) == b[1] * 256 ^ 3 + b[2] * 256 ^ 2 + b[3] * 256 + b[4]

\* The package vlq: groups of seven bits, the most significant first, all but the
\* last with the high bit set; the sign of a signed number is its lowest bit.
Groups[n \in Nat] == IF n < 128 THEN <<n>> ELSE Append(Groups[n \div 128], n % 128)
packVaruint(n) ==
    LET g == Groups[n] IN [i \in DOMAIN g |-> IF i < Len(g) THEN g[i] + 128 ELSE g[i]]
unpackVaruint(b) ==
    LET l == Min({i \in DOMAIN b : b[i] < 128})
    IN [val |-> FoldLeft(LAMBDA n, x : 128 * n + (x % 128), 0, SubSeq(b, 1, l)), l |-> l]
packVarint(n) == packVaruint(IF n >= 0 THEN 2 * n ELSE 2 * (-n - 1) + 1)
unpackVarint(b) ==
    LET r == unpackVaruint(b)
    IN [val |-> IF r.val % 2 = 0 THEN r.val \div 2 ELSE -(r.val \div 2) - 1, l |-> r.l]

\* The bytes of a word, most significant first.
WordAsBytes(w) == [i \in 1 .. WordBytes |-> (w \div 256 ^ (WordBytes - i)) % 256]
SkipZeros(b) == SubSeq(b, Min({i \in DOMAIN b : b[i] # 0}), Len(b))

\* The most significant word loses its leading zeros, the others follow whole; what
\* does not fit in MaxWords words is cut off at the low end.
packBigint(bi) ==
    LET lw   == Len(bi.words)
        s    == IF lw > MaxWords THEN lw - MaxWords ELSE 0
        rest == FlattenSeq([j \in 1 .. lw - 1 - s |-> WordAsBytes(bi.words[lw - j])])
        b    == SkipZeros(WordAsBytes(bi.words[lw])) \o rest
    IN IF lw = 0 THEN <<0>> ELSE <<Len(b)>> \o b

\* big.Int.Bytes and SetBytes
Bytes(bi) ==
    LET lw == Len(bi.words)
    IN IF lw = 0 THEN <<>> ELSE SkipZeros(FlattenSeq([j \in 1 .. lw |-> WordAsBytes(bi.words[lw - j + 1])]))
SetBytes(b) ==
    LET n    == (Len(b) + WordBytes - 1) \div WordBytes
        full == [i \in 1 .. n * WordBytes - Len(b) |-> 0] \o b
        Word(j) == FoldLeft(LAMBDA w, x : 256 * w + x, 0,
                            SubSeq(full, (n - j) * WordBytes + 1, (n - j + 1) * WordBytes))
    IN [neg |-> FALSE, words |-> [j \in 1 .. n |-> Word(j)]]
unpackBigint(b) == [val |-> SetBytes(SubSeq(b, 2, b[1] + 1)), l |-> b[1] + 1]

----------------------------------------------------------------------------
(* Reading a sequence of items: Read(buf) is the item at the start of buf   *)
(* and its length.                                                          *)

Rest(buf, l) == SubSeq(buf, l + 1, Len(buf))

ReadN(Read(_), buf, n) ==
    FoldLeft(LAMBDA acc, i : LET r == Read(Rest(buf, acc.l))
                             IN [val |-> Append(acc.val, r.val), l |-> acc.l + r.l],
             [val |-> <<>>, l |-> 0], [i \in 1 .. n |-> i])

\* As long as min bytes are left.
ReadWhile(Read(_), buf, min) ==
    FoldLeft(LAMBDA acc, i : IF Len(buf) - acc.l < min THEN acc
                             ELSE LET r == Read(Rest(buf, acc.l))
                                  IN [val |-> Append(acc.val, r.val), l |-> acc.l + r.l],
             [val |-> <<>>, l |-> 0], buf)

----------------------------------------------------------------------------
(* The column txAddresses *)

appendTxInput(ti) == packVaruint(Len(ti.AddrDesc)) \o ti.AddrDesc \o packBigint(ti.ValueSat)
unpackTxInput(buf) ==
    LET al == unpackVaruint(buf)
        v  == unpackBigint(Rest(buf, al.l + al.val))
    IN [val |-> [AddrDesc |-> SubSeq(buf, al.l + 1, al.l + al.val), ValueSat |-> v.val],
        l |-> al.l + al.val + v.l]

\* The length is complemented when the output is spent.
appendTxOutput(to) ==
    packVarint(IF to.Spent THEN -Len(to.AddrDesc) - 1 ELSE Len(to.AddrDesc))
        \o to.AddrDesc \o packBigint(to.ValueSat)

unpackTxOutput(buf) ==
    LET n  == unpackVarint(buf)
        al == IF n.val < 0 THEN -n.val - 1 ELSE n.val
        v  == unpackBigint(Rest(buf, n.l + al))
    IN [val |-> [AddrDesc |-> SubSeq(buf, n.l + 1, n.l + al), Spent |-> n.val < 0, ValueSat |-> v.val],
        l |-> n.l + al + v.l]

packTxAddresses(ta) ==
    packVaruint(ta.Height)
        \o packVaruint(Len(ta.Inputs)) \o FlattenSeq([i \in DOMAIN ta.Inputs |-> appendTxInput(ta.Inputs[i])])
        \o packVaruint(Len(ta.Outputs)) \o FlattenSeq([i \in DOMAIN ta.Outputs |-> appendTxOutput(ta.Outputs[i])])
        \o packVaruint(ta.ShieldIns) \o packVaruint(ta.ShieldOuts) \o packBigint(ta.ShieldValBal)

unpackTxAddresses(buf) ==
    LET h  == unpackVaruint(buf)
        ni == unpackVaruint(Rest(buf, h.l))
        i  == ReadN(unpackTxInput, Rest(buf, h.l + ni.l), ni.val)
        afterIns == Rest(buf, h.l + ni.l + i.l)
        no == unpackVaruint(afterIns)
        o  == ReadN(unpackTxOutput, Rest(afterIns, no.l), no.val)
        afterOuts == Rest(afterIns, no.l + o.l)
        si == unpackVaruint(afterOuts)
        so == unpackVaruint(Rest(afterOuts, si.l))
    IN [Height |-> h.val, Inputs |-> i.val, Outputs |-> o.val, ShieldIns |-> si.val, ShieldOuts |-> so.val,
        ShieldValBal |-> unpackBigint(Rest(afterOuts, si.l + so.l)).val]

getTxAddresses(buf) == IF Len(buf) < 3 THEN <<>> ELSE <<unpackTxAddresses(buf)>>

----------------------------------------------------------------------------
(* The column addressBalance *)

\* Mutant of packUtxo: the height comes before the output's number.
packUtxoSwapped(u) == u.BtxID \o packVaruint(u.Height) \o packVaruint(u.Vout) \o packBigint(u.ValueSat)
packUtxo(u) == u.BtxID \o packVaruint(u.Vout) \o packVaruint(u.Height) \o packBigint(u.ValueSat)
unpackUtxo(buf) ==
    LET v  == unpackVaruint(Rest(buf, TxidLen))
        h  == unpackVaruint(Rest(buf, TxidLen + v.l))
        bi == unpackBigint(Rest(buf, TxidLen + v.l + h.l))
    IN [val |-> [BtxID |-> SubSeq(buf, 1, TxidLen), Vout |-> v.val, Height |-> h.val, ValueSat |-> bi.val],
        l |-> TxidLen + v.l + h.l + bi.l]

\* A utxo marked spent has a negative Vout and is not written.
packAddrBalance(ab) ==
    packVaruint(ab.Txs) \o packBigint(ab.SentSat) \o packBigint(ab.BalanceSat)
        \o FlattenSeq([i \in DOMAIN ab.Utxos |-> IF ab.Utxos[i].Vout >= 0 THEN packUtxo(ab.Utxos[i]) ELSE <<>>])

\* A balance without transactions is deleted, which reads as the empty value.
storeBalances(ab) == IF ab.Txs = 0 THEN <<>> ELSE packAddrBalance(ab)

\* With the utxos; without them (AddressBalanceDetailNoUTXO) the rest of buf is ignored.
unpackAddrBalance(buf) ==
    LET t == unpackVaruint(buf)
        s == unpackBigint(Rest(buf, t.l))
        b == unpackBigint(Rest(buf, t.l + s.l))
    IN [Txs |-> t.val, SentSat |-> s.val, BalanceSat |-> b.val,
        Utxos |-> ReadWhile(unpackUtxo, Rest(buf, t.l + s.l + b.l), TxidLen + 3).val]

GetAddrDescBalance(buf) == IF Len(buf) < 3 THEN <<>> ELSE <<unpackAddrBalance(buf)>>

----------------------------------------------------------------------------
(* The column blockTxs, for Bitcoin type coins and for Ethereum *)

packOutpoint(o) == o.btxID \o packVarint(o.index)
unpackOutpoint(buf) ==
    LET v == unpackVarint(Rest(buf, TxidLen))
    IN [val |-> [btxID |-> SubSeq(buf, 1, TxidLen), index |-> v.val], l |-> TxidLen + v.l]

packOutpoints(os) == FlattenSeq([i \in DOMAIN os |-> packOutpoint(os[i])])
unpackNOutpoints(buf) ==
    LET n == unpackVaruint(buf)
        o == ReadN(unpackOutpoint, Rest(buf, n.l), n.val)
    IN [val |-> o.val, l |-> n.l + o.l]

\* An input without txid is written with a txid of zeros.
zeroTx == [i \in 1 .. TxidLen |-> 0]
storeBlockTxs(txs) ==
    FlattenSeq([i \in DOMAIN txs |->
        txs[i].btxID \o packVaruint(Len(txs[i].inputs)) \o packOutpoints(
            [v \in DOMAIN txs[i].inputs |->
                IF txs[i].inputs[v].btxID = <<>> THEN [txs[i].inputs[v] EXCEPT !.btxID = zeroTx]
                ELSE txs[i].inputs[v]])])
getBlockTxs(buf) ==
    ReadWhile(LAMBDA b : LET o == unpackNOutpoints(Rest(b, TxidLen))
                         IN [val |-> [btxID |-> SubSeq(b, 1, TxidLen), inputs |-> o.val], l |-> TxidLen + o.l],
              buf, 1).val

\* A missing address is written as zeros, and zeros are read as a missing address.
zeroAddress == [i \in 1 .. AddrLen |-> 0]
appendAddress(a) == IF Len(a) # AddrLen THEN zeroAddress ELSE a
getAddress(buf) ==
    LET a == SubSeq(buf, 1, AddrLen) IN [val |-> IF a = zeroAddress THEN <<>> ELSE a, l |-> AddrLen]

storeBlockTxsEthereumType(txs) ==
    FlattenSeq([i \in DOMAIN txs |->
        txs[i].btxID \o appendAddress(txs[i].from) \o appendAddress(txs[i].to)
            \o packVaruint(Len(txs[i].contracts))
            \o FlattenSeq([j \in DOMAIN txs[i].contracts |->
                   appendAddress(txs[i].contracts[j].addr) \o appendAddress(txs[i].contracts[j].contract)])])
getBlockTxsEthereumType(buf) ==
    LET Contract(b) == [val |-> [addr |-> getAddress(b).val, contract |-> getAddress(Rest(b, AddrLen)).val],
                        l |-> 2 * AddrLen]
        BlockTx(b) ==
            LET n == TxidLen + 2 * AddrLen
                c == unpackVaruint(Rest(b, n))
                cs == ReadN(Contract, Rest(b, n + c.l), c.val)
            IN [val |-> [btxID |-> SubSeq(b, 1, TxidLen), from |-> getAddress(Rest(b, TxidLen)).val,
                         to |-> getAddress(Rest(b, TxidLen + AddrLen)).val, contracts |-> cs.val],
                l |-> n + c.l + cs.l]
    IN ReadWhile(BlockTx, buf, 1).val

----------------------------------------------------------------------------
(* The columns addressContracts, height and transactions; amounts *)

\* A row without transactions is deleted, which reads as the empty value.
storeAddressContracts(acs) ==
    IF acs.NonContractTxs = 0 /\ acs.Contracts = <<>> THEN <<>>
    ELSE packVaruint(acs.TotalTxs) \o packVaruint(acs.NonContractTxs)
             \o FlattenSeq([i \in DOMAIN acs.Contracts |->
                    acs.Contracts[i].Contract \o packVaruint(acs.Contracts[i].Txs)])
GetAddrDescContracts(buf) ==
    LET tt  == unpackVaruint(buf)
        nct == unpackVaruint(Rest(buf, tt.l))
        Contract(b) == LET n == unpackVaruint(Rest(b, AddrLen))
                       IN [val |-> [Contract |-> SubSeq(b, 1, AddrLen), Txs |-> n.val], l |-> AddrLen + n.l]
    IN IF buf = <<>> THEN <<>>
       ELSE <<[TotalTxs |-> tt.val, NonContractTxs |-> nct.val,
               Contracts |-> ReadWhile(Contract, Rest(buf, tt.l + nct.l), 1).val]>>

packBlockInfo(bi) == bi.Hash \o packUint(bi.Time) \o packVaruint(bi.Txs) \o packVaruint(bi.Size)
unpackBlockInfo(buf) ==
    LET txs  == unpackVaruint(Rest(buf, TxidLen + 4))
        size == unpackVaruint(Rest(buf, TxidLen + 4 + txs.l))
    IN IF Len(buf) < TxidLen + 4 + 2 THEN <<>>
       ELSE <<[Hash |-> SubSeq(buf, 1, TxidLen), Time |-> unpackUint(Rest(buf, TxidLen)),
               Txs |-> txs.val, Size |-> size.val]>>

\* The protobuf message holds the amounts as the bytes of their magnitude.
PackTx(tx) ==
    [Txid |-> tx.Txid, Height |-> tx.Height, Blocktime |-> tx.Blocktime, Vin |-> tx.Vin,
     Vout |-> [i \in DOMAIN tx.Vout |-> Bytes(tx.Vout[i])]]
UnpackTx(pt) ==
    [Txid |-> pt.Txid, Height |-> pt.Height, Blocktime |-> pt.Blocktime, Time |-> pt.Blocktime, Vin |-> pt.Vin,
     Vout |-> [i \in DOMAIN pt.Vout |-> SetBytes(pt.Vout[i])]]

\* An amount is a number; a decimal string is a sign and two sequences of digits.
Digits[n \in Nat] == IF n < 10 THEN <<n>> ELSE Append(Digits[n \div 10], n % 10)
Zeros(n) == [i \in 1 .. n |-> 0]
TrimRight(ds) == SubSeq(ds, 1, Max({0} \cup {i \in DOMAIN ds : ds[i] # 0}))
AmountToDecimalString(a) ==
    LET ds == Digits[IF a < 0 THEN -a ELSE a]
        n  == IF Len(ds) <= Decimals THEN Zeros(Decimals - Len(ds) + 1) \o ds ELSE ds
        i  == Len(n) - Decimals
    IN [neg |-> a < 0, int |-> SubSeq(n, 1, i), frac |-> TrimRight(Rest(n, i))]
AmountToBigInt(s) ==
    LET z  == Decimals - Len(s.frac)
        ds == IF z > 0 THEN s.int \o s.frac \o Zeros(z) ELSE s.int \o SubSeq(s.frac, 1, Decimals)
        v  == FoldLeft(LAMBDA n, x : 10 * n + x, 0, ds)
    IN IF s.neg THEN -v ELSE v

----------------------------------------------------------------------------
(* Writing a row of one of these kinds, and reading it *)

Written(kind, x) ==
    CASE kind = "txAddresses"      -> packTxAddresses(x)
      [] kind = "addressBalance"   -> storeBalances(x)
      [] kind = "blockTxs"         -> storeBlockTxs(x)
      [] kind = "ethBlockTxs"      -> storeBlockTxsEthereumType(x)
      [] kind = "addressContracts" -> storeAddressContracts(x)
      [] kind = "height"           -> packBlockInfo(x)
      [] kind = "transactions"     -> PackTx(x)
      [] kind = "amount"           -> AmountToDecimalString(x)
ReadBack(kind, b) ==
    CASE kind = "txAddresses"      -> getTxAddresses(b)
      [] kind = "addressBalance"   -> GetAddrDescBalance(b)
      [] kind = "blockTxs"         -> getBlockTxs(b)
      [] kind = "ethBlockTxs"      -> getBlockTxsEthereumType(b)
      [] kind = "addressContracts" -> GetAddrDescContracts(b)
      [] kind = "height"           -> unpackBlockInfo(b)
      [] kind = "transactions"     -> UnpackTx(b)
      [] kind = "amount"           -> AmountToBigInt(b)

----------------------------------------------------------------------------
(* The column addresses *)

\* bytes.Compare(a, b) < 0
Less(a, b) ==
    LET Differ == {i \in DOMAIN a \cap DOMAIN b : a[i] # b[i]}
    IN IF Differ = {} THEN Len(a) < Len(b) ELSE a[Min(Differ)] < b[Min(Differ)]

\* The height is complemented, so that newer blocks sort first.
Complement(b) == [i \in DOMAIN b |-> 255 - b[i]]
packAddressKey(d, h) == d \o Complement(packUint(h))
unpackAddressKey(key) == unpackUint(Complement(Rest(key, Len(key) - 4)))

\* The last transaction first; the last index of a transaction is marked.
packTxIndexes(txi) ==
    FlattenSeq([j \in DOMAIN txi |->
        LET t == txi[Len(txi) - j + 1]
        IN t.btxID \o FlattenSeq([i \in DOMAIN t.indexes |->
                           packVarint(2 * t.indexes[i] + (IF i = Len(t.indexes) THEN 1 ELSE 0))])])

\* One transaction of a value: its txid, and its indexes up to the marked one.
unpackTxIndexes(buf) ==
    LET r == FoldLeft(LAMBDA acc, x :
                 IF acc.done THEN acc
                 ELSE LET v == unpackVarint(Rest(buf, acc.l))
                      IN [val |-> Append(acc.val, v.val \div 2), l |-> acc.l + v.l,
                          done |-> v.val % 2 = 1 \/ acc.l + v.l = Len(buf)],
                 [val |-> <<>>, l |-> TxidLen, done |-> FALSE], buf)
    IN [val |-> [btxID |-> SubSeq(buf, 1, TxidLen), indexes |-> r.val], l |-> r.l]

\* The transactions passed to the callback: all keys from startKey to stopKey.
GetAddrDescTransactions(d, lower, higher) ==
    LET startKey == packAddressKey(d, higher)
        stopKey  == packAddressKey(d, lower)
        keys     == SetToSortSeq({k \in DOMAIN column : ~Less(k, startKey) /\ ~Less(stopKey, k)}, Less)
        Of(k)    == LET txs == ReadWhile(unpackTxIndexes, column[k], TxidLen + 1).val
                    IN [i \in DOMAIN txs |-> [tx |-> txs[i], height |-> unpackAddressKey(k)]]
    IN FlattenSeq([i \in DOMAIN keys |-> Of(keys[i])])

----------------------------------------------------------------------------
(* computeColumnSize: an iterator sees the column as it was when it was      *)
(* created, so that one batch is one step.                                   *)

Idle == [pc |-> "idle", seekKey |-> <<>>, rows |-> 0, keysSum |-> 0, valuesSum |-> 0]
NotStarted == [rows |-> 0, keysSum |-> 0, changes |-> 0, deleted |-> FALSE]

\* The keys the next batch would visit: from the first, or from the one after the
\* key that Seek finds.  When Seek finds none, an iterator that is not valid is
\* moved on, and stays so.
Ahead ==
    LET keys == SetToSortSeq({k \in DOMAIN column : ~Less(k, stat.seekKey)}, Less)
    IN IF stat.rows = 0 \/ keys = <<>> THEN keys ELSE Tail(keys)

SumLen(seqs) == FoldLeft(LAMBDA n, x : n + Len(x), 0, seqs)

StatsStart ==
    /\ stat = Idle
    /\ stat' = [Idle EXCEPT !.pc = "run"]
    /\ since' = [NotStarted EXCEPT !.rows = Cardinality(DOMAIN column), !.keysSum = SumLen(SetToSeq(DOMAIN column))]
    /\ UNCHANGED <<column, hist, row>>

StatsBatch ==
    /\ stat.pc = "run"
    /\ LET n     == IF Len(Ahead) < RefreshIterator THEN Len(Ahead) ELSE RefreshIterator
           batch == SubSeq(Ahead, 1, n)
       IN stat' = [pc |-> IF Len(Ahead) > n THEN "run" ELSE "done",
                   seekKey |-> IF n = 0 THEN <<>> ELSE batch[n],
                   rows |-> stat.rows + n,
                   keysSum |-> stat.keysSum + SumLen(batch),
                   valuesSum |-> stat.valuesSum + SumLen([i \in 1 .. n |-> column[batch[i]]])]
    /\ UNCHANGED <<column, hist, row, since>>

\* The statistics are set in the internal state, or given up when stopCompute is closed.
StatsEnd ==
    /\ stat.pc \in {"run", "done"} /\ stat' = Idle /\ since' = NotStarted
    /\ UNCHANGED <<column, hist, row>>

----------------------------------------------------------------------------
(* Blocks *)

Changed(deletes) ==
    \/ stat = Idle /\ UNCHANGED since
    \/ /\ stat.pc = "run" /\ since.changes < MaxChanges
       /\ since' = [since EXCEPT !.changes = @ + 1, !.deleted = @ \/ deletes]

\* Reduced to one address of the block, which is connected once.
storeAddresses(h, d, txi) ==
    /\ <<d, h>> \notin DOMAIN hist /\ Cardinality(DOMAIN hist) < MaxRows
    /\ column' = [k \in DOMAIN column \cup {packAddressKey(d, h)} |->
                     IF k = packAddressKey(d, h) THEN packTxIndexes(txi) ELSE column[k]]
    /\ hist' = [x \in DOMAIN hist \cup {<<d, h>>} |-> IF x = <<d, h>> THEN txi ELSE hist[x]]
    /\ Changed(FALSE) /\ UNCHANGED <<row, stat>>

\* The rows that disconnectTxAddresses and its Ethereum counterpart delete.
deleteAddresses(h, d) ==
    /\ <<d, h>> \in DOMAIN hist
    /\ column' = [k \in DOMAIN column \ {packAddressKey(d, h)} |-> column[k]]
    /\ hist' = [x \in DOMAIN hist \ {<<d, h>>} |-> hist[x]]
    /\ Changed(TRUE) /\ UNCHANGED <<row, stat>>

NoneYet == [kind |-> "amount", data |-> 0, bytes |-> AmountToDecimalString(0)]

\* A row of another column is written, which ends the behaviour: rows do not meet.
StoreRow ==
    /\ DOMAIN hist = {} /\ stat = Idle
    /\ \E kind \in DOMAIN Data : \E x \in Data[kind] :
           row' = [kind |-> kind, data |-> x, bytes |-> Written(kind, x)]
    /\ UNCHANGED <<column, hist, stat, since>>

Init ==
    /\ column = <<>> /\ hist = <<>> /\ stat = Idle
    /\ since = NotStarted
    /\ row = NoneYet

Next ==
    /\ row = NoneYet
    /\ \/ \E h \in RowHeights, d \in RowDescs :
              (\E txi \in TxLists : storeAddresses(h, d, txi)) \/ deleteAddresses(h, d)
       \/ StoreRow \/ StatsStart \/ StatsBatch \/ StatsEnd

Spec == Init /\ [][Next]_vars

----------------------------------------------------------------------------
(* Properties *)

IsBytes(b) == \A i \in DOMAIN b : b[i] \in 0 .. 255

\* The column holds bytes under keys that are bytes, one row for every block and
\* descriptor that was written, and the statistics are counts.
TypeOK ==
    /\ \A k \in DOMAIN column : IsBytes(k) /\ IsBytes(column[k])
    /\ Cardinality(DOMAIN column) = Cardinality(DOMAIN hist) /\ Cardinality(DOMAIN hist) <= MaxRows
    /\ row.kind \in {"transactions", "amount"} \/ IsBytes(row.bytes)
    /\ stat.pc \in {"idle", "run", "done"} /\ {stat.rows, stat.keysSum, stat.valuesSum} \subseteq Nat

\* What the blocks wrote for d, newest first.
History(d, lower, higher) ==
    LET hs == SetToSortSeq({h \in RowHeights : lower <= h /\ h <= higher /\ <<d, h>> \in DOMAIN hist}, >)
        Of(h) == LET txi == hist[<<d, h>>]
                 IN [i \in DOMAIN txi |-> [tx |-> txi[Len(txi) - i + 1], height |-> h]]
    IN FlattenSeq([i \in DOMAIN hs |-> Of(hs[i])])

\* No other descriptor in the column starts with d, or is the start of d.
Apart(d) == \A x \in DOMAIN hist : x[1] # d => ~IsPrefix(d, x[1]) /\ ~IsPrefix(x[1], d)

Bounds == RowHeights \cup {2147483647}

\* A scan for a descriptor returns what the blocks of the range wrote for it, from
\* the newest transaction to the oldest, as long as no descriptor in the column is
\* the start of another (GetAddrDescTransactions; the statistics only read).
HistoryScan ==
    stat = Idle => \A d \in RowDescs, lower \in Bounds, higher \in Bounds :
        Apart(d) => GetAddrDescTransactions(d, lower, higher) = History(d, lower, higher)

\* The same of all descriptors: does not hold, GetAddrDescTransactions takes every
\* key between startKey and stopKey for a key of the descriptor.
HistoryScanOfAll ==
    \A d \in RowDescs, lower \in Bounds, higher \in Bounds :
        GetAddrDescTransactions(d, lower, higher) = History(d, lower, higher)

\* What reading a row promises of the data that was written.
Unsigned(bi) == [bi EXCEPT !.neg = FALSE]
Promised(kind, x) ==
    CASE kind = "txAddresses"      -> <<[x EXCEPT !.ShieldValBal = Unsigned(@)]>>
      [] kind = "addressBalance"   -> IF x.Txs = 0 THEN <<>> ELSE <<[x EXCEPT !.Utxos = SelectSeq(@, LAMBDA u : u.Vout >= 0)]>>
      [] kind = "blockTxs"         ->
            [i \in DOMAIN x |-> [x[i] EXCEPT !.inputs =
                [v \in DOMAIN @ |-> IF @[v].btxID = <<>> THEN [@[v] EXCEPT !.btxID = zeroTx] ELSE @[v]]]]
      [] kind = "addressContracts" -> IF x.NonContractTxs = 0 /\ x.Contracts = <<>> THEN <<>> ELSE <<x>>
      [] kind = "height"           -> <<x>>
      [] kind = "transactions"     -> [x EXCEPT !.Time = x.Blocktime]
      [] OTHER                     -> x

\* Every row reads back as it was written, whatever the lengths of the numbers in it:
\* spent utxos are left out, a coinbase input has a txid of zeros, the time of a
\* transaction is that of its block, and the balance of shielded coins has lost its
\* sign (the pack and unpack functions).
RowsReadBack == ReadBack(row.kind, row.bytes) = Promised(row.kind, row.data)

\* The balance of shielded coins keeps its sign: does not hold, packBigint writes the
\* magnitude.
SignKept ==
    row.kind = "txAddresses" => getTxAddresses(row.bytes)[1].ShieldValBal = row.data.ShieldValBal

\* Rows may be added while the statistics are computed: every row that was there is
\* counted once, no row twice.  Nothing is promised once a row was deleted.
StatsExact ==
    stat.pc = "done" /\ ~since.deleted =>
        /\ stat.rows \in since.rows .. Cardinality(DOMAIN column)
        /\ stat.keysSum \in since.keysSum .. SumLen(SetToSeq(DOMAIN column))
=============================================================================
