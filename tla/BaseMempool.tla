----------------------------- MODULE BaseMempool -----------------------------
(***************************************************************************)
(* What the mempools of all chain types have in common                     *)
(* (bchain/basemempool.go): the transactions known to be unconfirmed, each *)
(* with the addresses it touches, and the list of outpoints of every       *)
(* address.  The two maps are changed together under one mutex, so that a  *)
(* change is one step.  Txids are numbers, for their order.                *)
(***************************************************************************)
EXTENDS Integers, Sequences, FiniteSets

CONSTANTS Addrs         \* address descriptors

VARIABLES
    txEntries,      \* txid -> [addrIndexes, time]
    addrDescToTx    \* address -> sequence of outpoints (absent: empty)

poolVars == <<txEntries, addrDescToTx>>

PoolInit ==
    /\ txEntries = [t \in {} |-> 0]
    /\ addrDescToTx = [a \in Addrs |-> <<>>]

\* The outpoints by which address a is listed for transaction t.
Listed(t, ixs, a) ==
    LET mine == SelectSeq(ixs, LAMBDA ix : ix.addrDesc = a)
    IN  [i \in DOMAIN mine |-> [txid |-> t, n |-> mine[i].n]]

\* The body of onNewEntry and the end of AddTransactionToMempool.
AddEntry(t, e) ==
    /\ txEntries' = [x \in DOMAIN txEntries \cup {t} |->
                        IF x = t THEN e ELSE txEntries[x]]
    /\ addrDescToTx' = [a \in Addrs |-> addrDescToTx[a] \o Listed(t, e.addrIndexes, a)]

\* The addresses the entry of t names.
Named(t) ==
    {txEntries[t].addrIndexes[i].addrDesc : i \in DOMAIN txEntries[t].addrIndexes}

\* Mutant of RemoveEntries: the lists of the addresses are left alone.
RemoveEntriesOnly(ts) ==
    /\ txEntries' = [x \in DOMAIN txEntries \ ts |-> txEntries[x]]
    /\ UNCHANGED addrDescToTx

\* removeEntryFromMempool, of each transaction of ts: its outpoints leave the
\* lists of the addresses its entry names.
RemoveEntries(ts) ==
    /\ txEntries' = [x \in DOMAIN txEntries \ ts |-> txEntries[x]]
    /\ addrDescToTx' = [a \in Addrs |->
          SelectSeq(addrDescToTx[a], LAMBDA o : o.txid \notin ts \/ a \notin Named(o.txid))]

\* GetAddrDescTransactions: the outpoints of an address, the last one first.
GetAddrDescTransactions(a) ==
    LET s == addrDescToTx[a] IN [i \in DOMAIN s |-> s[Len(s) + 1 - i]]

\* GetTransactionTime: when the transaction was first seen, 0 if unknown.
GetTransactionTime(t) == IF t \in DOMAIN txEntries THEN txEntries[t].time ELSE 0
-----------------------------------------------------------------------------
\* What an address is told by GetAddrDescTransactions is what the entries
\* say: its outpoints of a transaction are those of the transaction's entry,
\* each once, and a transaction that has no entry is not listed at all.
MapsAgree ==
    \A a \in Addrs :
        /\ \A i \in DOMAIN addrDescToTx[a] : addrDescToTx[a][i].txid \in DOMAIN txEntries
        /\ \A t \in DOMAIN txEntries :
             SelectSeq(addrDescToTx[a], LAMBDA o : o.txid = t)
               = Listed(t, txEntries[t].addrIndexes, a)

\* An address's unconfirmed transactions are reported newest first: none is
\* listed before one that was seen later.
NewestFirst ==
    \A a \in Addrs :
        LET read == GetAddrDescTransactions(a)
        IN  \A i, j \in DOMAIN read : i < j =>
                GetTransactionTime(read[i].txid) >= GetTransactionTime(read[j].txid)
=============================================================================
