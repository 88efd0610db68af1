------------------------ MODULE BitcoinMempool_proofs ------------------------
(***************************************************************************)
(* Proofs about Resync of the mempool of Bitcoin type chains, for any      *)
(* transactions, any number of workers and subworkers, any number of       *)
(* resyncs, changes of the node and failed calls.                          *)
(*                                                                         *)
(* A transaction of the node's list that Resync has handed out is in       *)
(* flight: in the channel to the workers, with one of them, or in the      *)
(* channel back.  The inductive invariant MempoolInv says that it is in    *)
(* one of these places only (Alone), that Resync's counter is the number   *)
(* of transactions in flight (Counted), that every transaction of the list *)
(* is waiting, in flight, stored, or was given up for a reason (Placed),   *)
(* that what a worker brings back is empty only for such a reason          *)
(* (Results), and that the owners of its outputs have been told exactly of *)
(* those that were read (Told).                                            *)
(*                                                                         *)
(* EntryInv adds the inputs of a transaction a worker is at: each is in    *)
(* one place, the worker's counter is the number of those that are out     *)
(* (Apart), and what has been gathered is whole but for them (Gathered).   *)
(***************************************************************************)
EXTENDS BitcoinMempool, FiniteSetTheorems, TLAPS

\* The indexes an entry may be made of.
Paid == UNION {{OutputIndexes(t)[k] : k \in DOMAIN OutputIndexes(t)} : t \in Txs}
Spent == UNION {{Ins[t][i] : i \in DOMAIN Ins[t]} : t \in Txs}
Index == Paid \cup {InputIndex(o) : o \in Spent}

Places == UNION {DOMAIN Ins[t] : t \in Txs}

Resyncing == [pc : {"idle", "dispatch", "gather", "remove"}, txs : SUBSET Txs,
              todo : SUBSET Txs, dispatched : Int, time : Nat]
Result == [txid : Txs, io : Seq(Index)]
Answer == [i : Places, ok : BOOLEAN, ix : Index \cup {<<>>}]
Given == Txs \cup {0}
Worker == [pc : {"idle", "inputs", "answer"}, txid : Given, todo : SUBSET Places,
           chanInput : SUBSET Places, busy : SUBSET Places, chanResult : SUBSET Answer,
           dispatched : Int, io : Seq(Index)]

Types ==
    /\ node \subseteq Txs /\ DOMAIN txEntries \subseteq Txs
    /\ resync \in Resyncing
    /\ chanTxid \subseteq Txs /\ chanAddrIndex \subseteq Result
    /\ worker \in [Workers -> Worker]
    /\ told \in [Txs -> Nat] /\ unread \subseteq Txs

\* A worker's inputs are those of its transaction, and only an answer that is not ok
\* lacks an index.
WorkerOK(k) ==
    /\ k.pc # "idle" => k.txid \in Txs
    /\ k.pc # "inputs" => k.todo = {} /\ k.chanInput = {} /\ k.busy = {} /\ k.chanResult = {}
    /\ k.pc = "inputs" => k.todo \cup k.chanInput \cup k.busy \subseteq DOMAIN Ins[k.txid]
    /\ \A ans \in k.chanResult : ans.ok => ans.ix \in Index

Handed == \A w \in Workers : WorkerOK(worker[w])

Working(w, t) == worker[w].pc # "idle" /\ worker[w].txid = t
Flight ==
    {t \in Txs : \/ t \in chanTxid
                 \/ \E w \in Workers : Working(w, t)
                 \/ \E tio \in chanAddrIndex : tio.txid = t}

\* A transaction in flight is in one place only.
Alone ==
    /\ \A x, y \in chanTxid : x = y
    /\ \A x, y \in chanAddrIndex : x = y
    /\ \A t \in Txs, v, w \in Workers : Working(v, t) /\ Working(w, t) => v = w
    /\ \A t \in chanTxid, w \in Workers : ~Working(w, t)
    /\ \A tio \in chanAddrIndex :
          tio.txid \notin chanTxid /\ \A w \in Workers : ~Working(w, tio.txid)

Counted == IsFiniteSet(Flight) /\ resync.dispatched = Cardinality(Flight)

Placed ==
    /\ Flight \subseteq resync.txs /\ resync.todo \subseteq resync.txs
    /\ Flight \cap resync.todo = {} /\ Flight \cap DOMAIN txEntries = {}
    /\ resync.pc \in {"idle", "remove"} => Flight = {}
    /\ resync.pc # "dispatch" => resync.todo = {}
    /\ resync.pc = "idle" => DOMAIN txEntries \subseteq resync.txs
    /\ \A t \in resync.txs :
          \/ t \in resync.todo \cup Flight \cup DOMAIN txEntries
          \/ t \in unread \/ OutputIndexes(t) = <<>>

\* Nothing comes back only for what could not be read, or has no output with an address.
Results ==
    /\ \A w \in Workers :
          /\ worker[w].pc = "inputs" /\ OutputIndexes(worker[w].txid) # <<>> => worker[w].io # <<>>
          /\ worker[w].pc = "answer" => worker[w].io = <<>> /\ worker[w].txid \in unread
    /\ \A tio \in chanAddrIndex :
          OutputIndexes(tio.txid) # <<>> => tio.io # <<>> \/ tio.txid \in unread

\* The callback has had the outputs of t in its present stay.
ReadOn(t) ==
    \/ t \in DOMAIN txEntries
    \/ \E w \in Workers : worker[w].pc = "inputs" /\ worker[w].txid = t
    \/ \E tio \in chanAddrIndex : tio.txid = t /\ tio.io # <<>>
Told ==
    \A t \in Txs : OutputIndexes(t) # <<>> => told[t] = IF ReadOn(t) THEN 1 ELSE 0

MempoolInv == Types /\ Handed /\ Alone /\ Counted /\ Placed /\ Results /\ Told

\* The inputs a worker has handed to its subworkers without having taken the answer, and
\* all it has not yet dealt with.
Answered(k) == {ans.i : ans \in k.chanResult}
Out(k) == k.chanInput \cup k.busy \cup Answered(k)
Pending(k) == k.todo \cup Out(k)

\* An input is in one place only, the worker counts those that are out, and what it has
\* gathered is whole but for the pending inputs and those of m, whose call failed.
Apart(k) ==
    /\ \A x, y \in k.chanInput : x = y
    /\ \A x, y \in k.chanResult : x = y
    /\ k.todo \cap Out(k) = {} /\ k.chanInput \cap k.busy = {}
    /\ Answered(k) \cap (k.chanInput \cup k.busy) = {}
    /\ IsFiniteSet(Out(k)) /\ k.dispatched = Cardinality(Out(k))
Gathered(k, m) ==
    /\ m \cap (k.todo \cup k.chanInput \cup k.busy) = {}
    /\ \A ans \in k.chanResult :
          /\ ans.i \in DOMAIN Ins[k.txid]
          /\ ans.ok => ans.i \notin m /\ ans.ix = InputIndex(Ins[k.txid][ans.i])
          /\ ~ans.ok => ans.i \in m
    /\ Whole(k.txid, DOMAIN Ins[k.txid] \ (Pending(k) \cup m), k.io)
Gathering ==
    \A w \in Workers : worker[w].pc = "inputs" =>
        Apart(worker[w]) /\ Gathered(worker[w], missed[worker[w].txid])

\* What a worker brings back is whole, too.
Brought ==
    \A tio \in chanAddrIndex : tio.io # <<>> =>
        Whole(tio.txid, DOMAIN Ins[tio.txid] \ missed[tio.txid], tio.io)

EntryInv == missed \in [Txs -> SUBSET Places] /\ Gathering /\ Brought /\ EntryComplete
-----------------------------------------------------------------------------
\* The outputs with an address are a sequence of indexes.
LEMMA OutputFacts ==
    ASSUME NEW t \in Txs
    PROVE  OutputIndexes(t) \in Seq(Index)
<1> DEFINE places == {i \in DOMAIN Outs[t] : Outs[t][i] # NoAddr}
           f == OutputIndexes(t)
<1>1. Cardinality(places) \in Nat
  <2>1. DOMAIN Outs[t] = 1 .. Len(Outs[t]) /\ Len(Outs[t]) \in Nat
    BY MempoolAssumption
  <2>2. IsFiniteSet(1 .. Len(Outs[t]))
    BY <2>1, FS_Interval
  <2>3. IsFiniteSet(places)
    BY <2>1, <2>2, FS_Subset
  <2> QED
    BY <2>3, FS_CardinalityType
<1>2. PICK n \in Nat : n = Cardinality(places)
  BY <1>1
<1>3. DOMAIN f = 1 .. n /\ f = [k \in 1 .. n |-> f[k]]
  BY <1>2 DEF OutputIndexes
<1> HIDE DEF f
<1>4. ASSUME NEW k \in 1 .. n PROVE f[k] \in Index
  <2>1. f[k] \in {OutputIndexes(t)[j] : j \in DOMAIN OutputIndexes(t)}
    BY <1>3 DEF f
  <2> QED
    BY <2>1 DEF Index, Paid
<1> QED
  BY <1>3, <1>4 DEF f

\* The outputs alone are whole for no input ...
LEMMA WholeOutputs ==
    ASSUME NEW t \in Txs
    PROVE  Whole(t, {}, OutputIndexes(t))
<1> DEFINE o == OutputIndexes(t)
           f == [i \in {} |-> 0]
<1>1. Len(o) \in Nat
  BY OutputFacts
<1> HIDE DEF o
<1>2. f \in [{} -> (Len(o) + 1) .. Len(o)] /\ (Len(o) + 1) .. Len(o) = {}
  BY <1>1
<1> HIDE DEF f
<1>3. \E g \in [{} -> (Len(o) + 1) .. Len(o)] :
          /\ \A i, j \in {} : g[i] = g[j] => i = j
          /\ \A j \in (Len(o) + 1) .. Len(o) : \E i \in {} : g[i] = j
          /\ \A i \in {} : o[g[i]] = InputIndex(Ins[t][i])
  BY <1>2, Zenon
<1>4. Len(o) <= Len(o) /\ \A j \in 1 .. Len(o) : o[j] = o[j]
  BY <1>1
<1> QED
  BY <1>3, <1>4, Zenon DEF Whole, o

\* ... and the index of one more input makes them whole for one more.
LEMMA WholeAppend ==
    ASSUME NEW t \in Txs, NEW A, NEW io \in Seq(Index), Whole(t, A, io),
           NEW i, i \notin A, NEW ix \in Index, ix = InputIndex(Ins[t][i])
    PROVE  Whole(t, A \cup {i}, Append(io, ix))
<1> DEFINE o == OutputIndexes(t)
           n == Len(o)
           l == Len(io)
           io2 == Append(io, ix)
<1>1. n \in Nat /\ l \in Nat /\ n <= l
  BY OutputFacts DEF Whole
<1>2. Len(io2) = l + 1 /\ io2[l + 1] = ix /\ \A j \in 1 .. l : io2[j] = io[j]
  OBVIOUS
<1>3. \A j \in 1 .. n : io[j] = o[j]
  BY DEF Whole
<1>4. PICK f \in [A -> (n + 1) .. l] :
          /\ \A x, y \in A : f[x] = f[y] => x = y
          /\ \A j \in (n + 1) .. l : \E x \in A : f[x] = j
          /\ \A x \in A : io[f[x]] = InputIndex(Ins[t][x])
  BY DEF Whole
<1> HIDE DEF o, n, l, io2
<1> DEFINE g == [x \in A \cup {i} |-> IF x = i THEN l + 1 ELSE f[x]]
<1>5. /\ g[i] = l + 1
      /\ \A x \in A : g[x] = f[x] /\ f[x] \in (n + 1) .. l
  OBVIOUS
<1>6. g \in [A \cup {i} -> (n + 1) .. (l + 1)]
  BY <1>1
<1> HIDE DEF g
<1>7. \A x, y \in A \cup {i} : g[x] = g[y] => x = y
  BY <1>1, <1>4, <1>5
<1>8. ASSUME NEW j \in (n + 1) .. (l + 1) PROVE \E x \in A \cup {i} : g[x] = j
  <2>1. j = l + 1 \/ j \in (n + 1) .. l
    BY <1>1
  <2> QED
    BY <1>4, <1>5, <2>1
<1>9. ASSUME NEW x \in A \cup {i} PROVE io2[g[x]] = InputIndex(Ins[t][x])
  <2>1. CASE x = i
    BY <1>2, <1>5, <2>1
  <2>2. CASE x \in A
    <3>1. f[x] \in 1 .. l
      BY <1>1, <1>5, <2>2
    <3> QED
      BY <1>2, <1>4, <1>5, <2>2, <3>1
  <2> QED
    BY <2>1, <2>2
<1>10. n <= l + 1 /\ \A j \in 1 .. n : io2[j] = o[j]
  BY <1>1, <1>2, <1>3
<1>11. \E h \in [A \cup {i} -> (n + 1) .. Len(io2)] :
          /\ \A x, y \in A \cup {i} : h[x] = h[y] => x = y
          /\ \A j \in (n + 1) .. Len(io2) : \E x \in A \cup {i} : h[x] = j
          /\ \A x \in A \cup {i} : io2[h[x]] = InputIndex(Ins[t][x])
  BY <1>2, <1>6, <1>7, <1>8, <1>9, Zenon
<1>12. n <= Len(io2)
  BY <1>2, <1>10
<1> QED
  BY <1>10, <1>11, <1>12, Zenon DEF Whole, n, o, io2

\* An input that is sent is out, and was not before.
LEMMA SendKeeps ==
    ASSUME NEW k, NEW r, NEW m, NEW i \in k.todo, Apart(k), Gathered(k, m), k.chanInput = {},
           r.txid = k.txid, r.todo = k.todo \ {i}, r.chanInput = {i}, r.busy = k.busy,
           r.chanResult = k.chanResult, r.dispatched = k.dispatched + 1, r.io = k.io
    PROVE  Apart(r) /\ Gathered(r, m)
<1>1. Answered(r) = Answered(k)
  BY DEF Answered
<1>2. Out(r) = Out(k) \cup {i} /\ i \notin Out(k)
  BY <1>1 DEF Out, Apart
<1>3. Pending(r) = Pending(k)
  BY <1>2 DEF Pending
<1>4. IsFiniteSet(Out(r)) /\ r.dispatched = Cardinality(Out(r))
  BY <1>2, FS_AddElement DEF Apart
<1>5. Apart(r)
  BY <1>1, <1>2, <1>4 DEF Apart, Out
<1>6. Gathered(r, m)
  BY <1>3 DEF Gathered
<1> QED
  BY <1>5, <1>6

\* A subworker that takes an input leaves it out.
LEMMA TakeKeeps ==
    ASSUME NEW k, NEW r, NEW m, NEW i \in k.chanInput, Apart(k), Gathered(k, m),
           r.txid = k.txid, r.todo = k.todo, r.chanInput = {}, r.busy = k.busy \cup {i},
           r.chanResult = k.chanResult, r.dispatched = k.dispatched, r.io = k.io
    PROVE  Apart(r) /\ Gathered(r, m)
<1>1. Answered(r) = Answered(k) /\ k.chanInput = {i}
  BY DEF Answered, Apart
<1>2. Out(r) = Out(k)
  BY <1>1 DEF Out
<1>3. Pending(r) = Pending(k)
  BY <1>2 DEF Pending
<1>4. Apart(r)
  BY <1>1, <1>2 DEF Apart
<1>5. Gathered(r, m)
  BY <1>1, <1>3 DEF Gathered
<1> QED
  BY <1>4, <1>5

\* So does one that answers; the input joins those that were lost if the call failed.
LEMMA AnswerKeeps ==
    ASSUME NEW k, NEW r, NEW m, NEW m2, NEW i \in k.busy, NEW ans, Apart(k), Gathered(k, m),
           k.chanResult = {}, i \in DOMAIN Ins[k.txid], ans.i = i,
           \/ ans.ok /\ ans.ix = InputIndex(Ins[k.txid][i]) /\ m2 = m
           \/ ~ans.ok /\ m2 = m \cup {i},
           r.txid = k.txid, r.todo = k.todo, r.chanInput = k.chanInput, r.busy = k.busy \ {i},
           r.chanResult = {ans}, r.dispatched = k.dispatched, r.io = k.io
    PROVE  Apart(r) /\ Gathered(r, m2)
<1>1. Answered(r) = {i} /\ Answered(k) = {}
  BY DEF Answered
<1>2. Out(r) = Out(k)
  BY <1>1 DEF Out
<1>3. Pending(r) = Pending(k) /\ i \in Pending(k)
  BY <1>2 DEF Pending, Out
<1>4. Apart(r)
  BY <1>1, <1>2 DEF Apart, Out
<1>5. DOMAIN Ins[k.txid] \ (Pending(r) \cup m2) = DOMAIN Ins[k.txid] \ (Pending(k) \cup m)
  BY <1>3
<1>6. Whole(r.txid, DOMAIN Ins[r.txid] \ (Pending(r) \cup m2), r.io)
  BY <1>5, Zenon DEF Gathered
<1>7. m2 \cap (r.todo \cup r.chanInput \cup r.busy) = {}
  BY DEF Gathered, Apart, Out
<1>8. i \notin m
  BY DEF Gathered
<1>9. Gathered(r, m2)
  BY <1>6, <1>7, <1>8 DEF Gathered
<1> QED
  BY <1>4, <1>9

\* An input whose answer is taken is out no more; its index, if it has one, is gathered.
LEMMA GatherKeeps ==
    ASSUME NEW k, NEW r, NEW m, NEW ans \in k.chanResult, Apart(k), Gathered(k, m),
           k.txid \in Txs, k.io \in Seq(Index), ans.ok => ans.ix \in Index,
           r.txid = k.txid, r.todo = k.todo, r.chanInput = k.chanInput, r.busy = k.busy,
           r.chanResult = {}, r.dispatched = k.dispatched - 1,
           r.io = IF ans.ok THEN Append(k.io, ans.ix) ELSE k.io
    PROVE  Apart(r) /\ Gathered(r, m)
<1> DEFINE i == ans.i
           A == DOMAIN Ins[k.txid] \ (Pending(k) \cup m)
           B == DOMAIN Ins[k.txid] \ (Pending(r) \cup m)
<1>1. k.chanResult = {ans} /\ Answered(k) = {i} /\ Answered(r) = {}
  BY DEF Answered, Apart
<1>2. Out(r) = Out(k) \ {i} /\ i \in Out(k) /\ i \notin k.todo
  BY <1>1 DEF Out, Apart
<1>3. Pending(r) = Pending(k) \ {i} /\ i \in Pending(k)
  BY <1>2 DEF Pending
<1>4. IsFiniteSet(Out(r)) /\ r.dispatched = Cardinality(Out(r))
  BY <1>2, FS_RemoveElement DEF Apart
<1>5. Apart(r)
  BY <1>1, <1>2, <1>4 DEF Apart
<1>6. Whole(k.txid, A, k.io) /\ i \in DOMAIN Ins[k.txid]
  BY DEF Gathered
<1>7. Whole(k.txid, B, r.io)
  <2>1. CASE ans.ok
    <3>1. i \notin m /\ ans.ix = InputIndex(Ins[k.txid][i]) /\ ans.ix \in Index
      BY <2>1 DEF Gathered
    <3>2. B = A \cup {i} /\ i \notin A
      BY <1>3, <1>6, <3>1
    <3>3. Whole(k.txid, A \cup {i}, Append(k.io, ans.ix))
      <4> HIDE DEF A, i
      <4> QED
        BY <1>6, <3>1, <3>2, WholeAppend, Zenon
    <3> QED
      BY <2>1, <3>2, <3>3, Zenon
  <2>2. CASE ~ans.ok
    <3>1. i \in m
      BY <2>2 DEF Gathered
    <3>2. B = A
      BY <1>3, <3>1
    <3> QED
      BY <1>6, <2>2, <3>2, Zenon
  <2> QED
    BY <2>1, <2>2
<1>8. Gathered(r, m)
  BY <1>7 DEF Gathered
<1> QED
  BY <1>5, <1>8

-----------------------------------------------------------------------------
\* The initial state satisfies the invariant: nothing is in flight.
LEMMA InitInv == ASSUME Init PROVE MempoolInv
<1> USE DEF Init, PoolInit
<1>0. IdleWorker \in Worker /\ IdleWorker.pc = "idle" /\ WorkerOK(IdleWorker)
  BY DEF IdleWorker, Worker, Given, WorkerOK
<1>1. Types /\ Handed
  BY <1>0 DEF Types, Handed, Resyncing
<1>2. Flight = {}
  BY <1>0 DEF Flight, Working
<1>3. Alone /\ Results
  BY <1>0 DEF Alone, Results, Working
<1>4. Counted
  BY <1>2, FS_EmptySet DEF Counted
<1>5. Placed
  BY <1>2 DEF Placed
<1>6. Told
  BY <1>0 DEF Told, ReadOn
<1> QED
  BY <1>1, <1>3, <1>4, <1>5, <1>6 DEF MempoolInv

\* A step that leaves the goroutines, the channels and the entries alone.
LEMMA Still ==
    ASSUME MempoolInv, UNCHANGED <<txEntries, chanTxid, chanAddrIndex, worker, told>>
    PROVE  /\ Handed' /\ Alone' /\ Told' /\ Flight' = Flight
           /\ unread' = unread => Results'
<1> USE DEF MempoolInv
<1>1. Handed' /\ Alone'
  BY DEF Handed, WorkerOK, Alone, Working
<1>2. Flight' = Flight
  BY DEF Flight, Working
<1>3. Told'
  BY DEF Told, ReadOn
<1>4. unread' = unread => Results'
  BY DEF Results
<1> QED
  BY <1>1, <1>2, <1>3, <1>4

\* When Resync is not at work nothing is in flight.
LEMMA AtRest ==
    ASSUME MempoolInv, Flight = {}
    PROVE  /\ chanTxid = {} /\ chanAddrIndex = {}
           /\ \A w \in Workers : worker[w].pc = "idle"
<1> USE DEF MempoolInv
<1>1. chanTxid = {}
  BY DEF Types, Flight
<1>2. chanAddrIndex = {}
  BY DEF Types, Result, Flight
<1>3. \A w \in Workers : worker[w].pc = "idle"
  BY DEF Handed, WorkerOK, Flight, Working
<1> QED
  BY <1>1, <1>2, <1>3

\* The node changes, Resync starts, fails to, or moves on without touching an entry.
LEMMA ResyncMovesInv ==
    ASSUME MempoolInv,
           \/ \E t \in Txs : NodeMoves(t)
           \/ ResyncStart \/ ResyncFails
           \/ \E t \in resync.todo : Skip(t)
           \/ ResyncGather \/ ResyncGathered \/ ResyncEnd
    PROVE  MempoolInv'
<1> USE DEF MempoolInv
<1>0. /\ UNCHANGED <<txEntries, chanTxid, chanAddrIndex, worker, told>>
      /\ unread' = unread \/ ResyncStart
  BY DEF NodeMoves, ResyncStart, ResyncFails, Skip, ResyncGather, ResyncGathered, ResyncEnd,
         chans, history, poolVars
<1>1. Handed' /\ Alone' /\ Told' /\ Flight' = Flight
  BY <1>0, Still
<1>2. Results'
  <2>1. CASE ResyncStart
    <3>1. chanAddrIndex = {} /\ \A w \in Workers : worker[w].pc = "idle"
      BY <2>1, AtRest DEF ResyncStart, Placed
    <3> QED
      BY <1>0, <3>1 DEF Results
  <2> QED
    BY <1>0, <2>1, Still
<1>3. resync \in Resyncing /\ node \in SUBSET Txs
  BY DEF Types
<1>4. resync' \in Resyncing /\ node' \in SUBSET Txs /\ unread' \in SUBSET Txs
  <2>1. CASE \E t \in Txs : NodeMoves(t)
    BY <2>1, <1>3 DEF NodeMoves, history, Types
  <2>2. CASE ResyncStart
    BY <2>2, <1>3 DEF ResyncStart, Resyncing, nodeVars
  <2>3. CASE ResyncFails \/ \E t \in resync.todo : Skip(t)
    BY <2>3, <1>3 DEF ResyncFails, Skip, Resyncing, nodeVars, history, Types
  <2>4. CASE ResyncGather \/ ResyncGathered \/ ResyncEnd
    BY <2>4, <1>3 DEF ResyncGather, ResyncGathered, ResyncEnd, Resyncing, nodeVars, history, Types
  <2> QED
    BY <2>1, <2>2, <2>3, <2>4, Zenon
<1>5. Types'
  BY <1>0, <1>4 DEF Types
<1>6. resync'.dispatched = resync.dispatched
  <2>1. CASE ResyncStart
    <3>1. resync.dispatched = 0
      BY <2>1, FS_EmptySet DEF ResyncStart, Placed, Counted
    <3> QED
      BY <2>1, <3>1 DEF ResyncStart
  <2>2. CASE ~ResyncStart
    BY <1>3, <2>2 DEF NodeMoves, ResyncFails, Skip, ResyncGather, ResyncGathered, ResyncEnd, Resyncing
  <2> QED
    BY <2>1, <2>2
<1>7. Counted'
  BY <1>1, <1>6 DEF Counted
<1>8. Placed'
  <2>1. CASE (\E t \in Txs : NodeMoves(t)) \/ ResyncFails
    <3>1. resync'.pc = resync.pc /\ resync'.txs = resync.txs /\ resync'.todo = resync.todo
      BY <1>3, <2>1 DEF NodeMoves, ResyncFails, Resyncing
    <3>2. unread' = unread
      BY <2>1 DEF NodeMoves, ResyncFails, history
    <3> QED
      BY <1>0, <1>1, <3>1, <3>2 DEF Placed
  <2>2. CASE ResyncStart
    <3>1. Flight = {} /\ resync'.pc = "dispatch" /\ resync'.txs = node /\ resync'.todo = node
      BY <2>2 DEF ResyncStart, Placed
    <3> QED
      BY <1>0, <1>1, <3>1 DEF Placed
  <2>3. ASSUME NEW t \in resync.todo, Skip(t) PROVE Placed'
    <3>1. /\ resync'.pc = "dispatch" /\ resync'.txs = resync.txs
          /\ resync'.todo = resync.todo \ {t} /\ unread' = unread
      BY <1>3, <2>3 DEF Skip, Resyncing, history
    <3>2. t \in DOMAIN txEntries /\ resync.pc = "dispatch"
      BY <2>3 DEF Skip
    <3> QED
      BY <1>0, <1>1, <3>1, <3>2 DEF Placed
  <2>4. CASE ResyncGather \/ ResyncGathered \/ ResyncEnd
    <3>1. resync'.txs = resync.txs /\ resync'.todo = resync.todo /\ unread' = unread
      BY <1>3, <2>4 DEF ResyncGather, ResyncGathered, ResyncEnd, Resyncing, history
    <3>2. resync'.pc \in {"gather", "remove", "idle"} /\ resync.todo = {}
      BY <1>3, <2>4 DEF ResyncGather, ResyncGathered, ResyncEnd, Resyncing, Placed
    <3>3. resync'.pc \in {"idle", "remove"} => Flight = {}
      <4>1. CASE ResyncGather
        BY <1>3, <4>1 DEF ResyncGather, Resyncing
      <4>2. CASE ResyncGathered
        <5>1. Cardinality(Flight) = 0 /\ IsFiniteSet(Flight)
          BY <4>2 DEF ResyncGathered, Counted
        <5> QED
          BY <5>1, FS_EmptySet
      <4>3. CASE ResyncEnd
        BY <4>3 DEF ResyncEnd, Placed
      <4> QED
        BY <2>4, <4>1, <4>2, <4>3
    <3>4. resync'.pc = "idle" => DOMAIN txEntries \subseteq resync.txs
      BY <1>3, <2>4 DEF ResyncGather, ResyncGathered, ResyncEnd, Resyncing
    <3> QED
      BY <1>0, <1>1, <3>1, <3>2, <3>3, <3>4 DEF Placed
  <2> QED
    BY <2>1, <2>2, <2>3, <2>4, Zenon
<1> QED
  BY <1>1, <1>2, <1>5, <1>7, <1>8

\* A transaction that is handed out is in flight, and was not before.
LEMMA DispatchInv ==
    ASSUME MempoolInv, NEW t \in resync.todo, Dispatch(t)
    PROVE  MempoolInv'
<1> USE DEF MempoolInv
<1>1. /\ chanTxid = {} /\ chanTxid' = {t} /\ resync.pc = "dispatch"
      /\ UNCHANGED <<txEntries, chanAddrIndex, worker, node, told, unread>>
  BY DEF Dispatch, poolVars, nodeVars, history
<1>2. t \in Txs /\ t \notin Flight /\ t \notin DOMAIN txEntries /\ resync \in Resyncing
  BY DEF Dispatch, Types, Resyncing, Placed
<1>3. /\ resync' \in Resyncing /\ resync'.pc = "dispatch" /\ resync'.txs = resync.txs
      /\ resync'.todo = resync.todo \ {t} /\ resync'.dispatched = resync.dispatched + 1
  <2>1. /\ resync.todo \ {t} \in SUBSET Txs /\ resync.dispatched + 1 \in Int
        /\ resync' = [resync EXCEPT !.todo = resync.todo \ {t}, !.dispatched = resync.dispatched + 1]
    BY <1>2 DEF Dispatch, Resyncing
  <2> QED
    BY <1>1, <1>2, <2>1, Zenon DEF Resyncing
<1>4. Types'
  BY <1>1, <1>2, <1>3 DEF Types
<1>5. Handed' /\ Results' /\ Told'
  <2>1. Handed'
    BY <1>1 DEF Handed, WorkerOK
  <2>2. Results'
    BY <1>1 DEF Results
  <2>3. Told'
    BY <1>1 DEF Told, ReadOn
  <2> QED
    BY <2>1, <2>2, <2>3
<1>6. Flight' = Flight \cup {t}
  BY <1>1, <1>2 DEF Flight, Working
<1>7. Alone'
  BY <1>1, <1>2 DEF Alone, Working, Flight
<1>8. Counted'
  <2>1. IsFiniteSet(Flight) /\ resync.dispatched = Cardinality(Flight)
    BY DEF Counted
  <2>2. IsFiniteSet(Flight \cup {t}) /\ Cardinality(Flight \cup {t}) = Cardinality(Flight) + 1
    BY <2>1, <1>2, FS_AddElement, Zenon
  <2> QED
    BY <2>1, <2>2, <1>3, <1>6 DEF Counted
<1>9. Placed'
  BY <1>1, <1>2, <1>3, <1>6 DEF Placed
<1> QED
  BY <1>4, <1>5, <1>7, <1>8, <1>9

\* A result that is taken leaves flight, for an entry if there is something in it.
LEMMA StoreInv ==
    ASSUME MempoolInv, NEW tio \in chanAddrIndex, StoreResult(tio)
    PROVE  MempoolInv'
<1> USE DEF MempoolInv
<1> DEFINE t == tio.txid
<1>1. /\ chanAddrIndex' = {} /\ resync.pc \in {"dispatch", "gather"}
      /\ UNCHANGED <<chanTxid, worker, node, told, unread>>
  BY DEF StoreResult, nodeVars, history
<1>2. DOMAIN txEntries' = IF tio.io = <<>> THEN DOMAIN txEntries ELSE DOMAIN txEntries \cup {t}
  <2>1. OnNewEntry(tio)
    BY DEF StoreResult
  <2> QED
    BY <2>1, Zenon DEF OnNewEntry, AddEntry, poolVars
<1>3. t \in Txs /\ t \in Flight /\ resync \in Resyncing /\ chanAddrIndex = {tio}
  BY DEF Types, Result, Flight, Alone
<1>4. /\ resync' \in Resyncing /\ resync'.pc = resync.pc /\ resync'.txs = resync.txs
      /\ resync'.todo = resync.todo /\ resync'.dispatched = resync.dispatched - 1
  BY <1>3 DEF StoreResult, Resyncing
<1>5. t \notin chanTxid /\ \A w \in Workers : ~Working(w, t)
  BY DEF Alone
<1> HIDE DEF t
<1>6. Types'
  BY <1>1, <1>2, <1>3, <1>4 DEF Types
<1>7. Handed'
  BY <1>1 DEF Handed, WorkerOK
<1>8. Flight' = Flight \ {t}
  BY <1>1, <1>3, <1>5, Zenon DEF Flight, Working, t
<1>9. Alone' /\ Results'
  BY <1>1 DEF Alone, Working, Results
<1>10. Counted'
  <2>1. IsFiniteSet(Flight) /\ resync.dispatched = Cardinality(Flight)
    BY DEF Counted
  <2>2. IsFiniteSet(Flight \ {t}) /\ Cardinality(Flight \ {t}) = Cardinality(Flight) - 1
    BY <2>1, <1>3, FS_RemoveElement
  <2> QED
    BY <2>1, <2>2, <1>4, <1>8 DEF Counted
<1>11. Placed'
  <2>1. t \in DOMAIN txEntries' \/ t \in unread \/ OutputIndexes(t) = <<>>
    BY <1>2 DEF Results, t
  <2> QED
    BY <1>1, <1>2, <1>3, <1>4, <1>8, <2>1, ZenonT(30) DEF Placed
<1>12. Told'
  <2>1. ASSUME NEW x \in Txs PROVE ReadOn(x)' = ReadOn(x)
    <3>1. CASE x = t
      BY <1>1, <1>2, <1>3, <1>5, <3>1 DEF ReadOn, t, Working
    <3>2. CASE x # t
      BY <1>1, <1>2, <1>3, <3>2 DEF ReadOn, t
    <3> QED
      BY <3>1, <3>2
  <2> QED
    BY <1>1, <2>1 DEF Told
<1> QED
  BY <1>6, <1>7, <1>9, <1>10, <1>11, <1>12

\* An entry that is removed is not in flight: its next stay starts untold.
LEMMA RemoveInv ==
    ASSUME MempoolInv, NEW t \in DOMAIN txEntries, ResyncRemove(t)
    PROVE  MempoolInv'
<1> USE DEF MempoolInv
<1>1. /\ UNCHANGED <<chanTxid, chanAddrIndex, worker, node, resync, unread>>
      /\ DOMAIN txEntries' = DOMAIN txEntries \ {t}
      /\ t \notin resync.txs /\ resync.pc = "remove" /\ told' = [told EXCEPT ![t] = 0]
  BY DEF ResyncRemove, RemoveEntries, nodeVars, chans
<1>2. t \in Txs /\ Flight = {} /\ told \in [Txs -> Nat]
  BY <1>1, Zenon DEF Types, Placed
<1>3. Types'
  BY <1>1, <1>2, Zenon DEF Types
<1>4. Handed' /\ Alone' /\ Results' /\ Flight' = Flight
  BY <1>1 DEF Handed, WorkerOK, Alone, Working, Results, Flight
<1>5. Counted' /\ Placed'
  BY <1>1, <1>2, <1>4 DEF Counted, Placed
<1>6. chanAddrIndex = {} /\ \A w \in Workers : worker[w].pc = "idle"
  BY <1>2, AtRest, Zenon
<1>7. Told'
  BY <1>1, <1>2, <1>6 DEF Told, ReadOn
<1> QED
  BY <1>3, <1>4, <1>5, <1>7, Zenon

\* A step of a worker or a subworker among the inputs of its transaction, which keeps
\* the transaction and does not lose an index.
LEMMA InnerInv ==
    ASSUME MempoolInv, NEW w \in Workers, NEW r \in Worker, Step(w, r), WorkerOK(r),
           worker[w].pc = "inputs", r.pc = "inputs", r.txid = worker[w].txid,
           worker[w].io # <<>> => r.io # <<>>
    PROVE  MempoolInv'
<1> USE DEF MempoolInv
<1>1. /\ UNCHANGED <<txEntries, chanTxid, chanAddrIndex, node, resync, told, unread>>
      /\ worker' = [worker EXCEPT ![w] = r]
  BY DEF Step, poolVars, nodeVars, chans
<1>2. worker'[w] = r /\ \A v \in Workers : v # w => worker'[v] = worker[v]
  BY <1>1 DEF Types
<1>3. Types'
  BY <1>1, Zenon DEF Types
<1>4. Handed'
  BY <1>2 DEF Handed, WorkerOK
<1>5. \A v \in Workers : \A t : Working(v, t)' = Working(v, t)
  BY <1>2 DEF Working
<1>6. Flight' = Flight
  BY <1>1, <1>5, Zenon DEF Flight
<1>7. Alone'
  BY <1>1, <1>5, Zenon DEF Alone
<1>8. Counted' /\ Placed'
  BY <1>1, <1>6, Zenon DEF Counted, Placed
<1>9. Results'
  BY <1>1, <1>2 DEF Results
<1>10. Told'
  <2>1. \A t \in Txs : ReadOn(t)' = ReadOn(t)
    BY <1>1, <1>2 DEF ReadOn
  <2> QED
    BY <1>1, <2>1, Zenon DEF Told
<1> QED
  BY <1>3, <1>4, <1>7, <1>8, <1>9, <1>10

\* The inputs go to the subworkers and come back.
LEMMA InputsInv ==
    ASSUME MempoolInv, NEW w \in Workers,
           \/ SendInput(w)
           \/ \E ans \in worker[w].chanResult : TakeAnswer(w, ans)
           \/ SubStep(w)
    PROVE  MempoolInv'
<1> DEFINE k == worker[w]
<1>1. k \in Worker /\ WorkerOK(k)
  BY DEF MempoolInv, Types, Handed
<1> HIDE DEF k
<1>2. \A i : i \in k.todo \cup k.chanInput \cup k.busy => k.pc = "inputs" /\ i \in Places
  BY <1>1 DEF WorkerOK, Worker
<1>3. CASE SendInput(w)
  <2>1. k.pc = "inputs"
    BY <1>3, Zenon DEF SendInput, k
  <2>2. PICK i \in k.todo :
            Step(w, [k EXCEPT !.todo = @ \ {i}, !.chanInput = {i}, !.dispatched = @ + 1])
    BY <1>3, Zenon DEF SendInput, k
  <2> DEFINE r == [k EXCEPT !.todo = @ \ {i}, !.chanInput = {i}, !.dispatched = @ + 1]
  <2>3. r \in Worker /\ r.pc = "inputs" /\ r.txid = k.txid /\ r.io = k.io
    <3>1. k.todo \ {i} \in SUBSET Places /\ {i} \in SUBSET Places /\ k.dispatched + 1 \in Int
      BY <1>1, <1>2 DEF Worker
    <3>2. r = [k EXCEPT !.todo = k.todo \ {i}, !.chanInput = {i}, !.dispatched = k.dispatched + 1]
      BY <1>1 DEF Worker
    <3> QED
      BY <1>1, <2>1, <3>1, <3>2, Zenon DEF Worker
  <2>4. WorkerOK(r)
    BY <1>1, <2>1 DEF Worker, WorkerOK
  <2> QED
    BY <2>1, <2>2, <2>3, <2>4, InnerInv, ZenonT(30) DEF k
<1>4. ASSUME NEW ans \in k.chanResult, TakeAnswer(w, ans) PROVE MempoolInv'
  <2> DEFINE io == IF ans.ok THEN Append(k.io, ans.ix) ELSE k.io
             r == [k EXCEPT !.chanResult = {}, !.dispatched = @ - 1, !.io = io]
  <2>1. k.pc = "inputs" /\ Step(w, r)
    BY <1>4, Zenon DEF TakeAnswer, k
  <2>2. io \in Seq(Index) /\ (k.io # <<>> => io # <<>>)
    BY <1>1 DEF Worker, WorkerOK
  <2> HIDE DEF io
  <2>3. r \in Worker /\ r.pc = "inputs" /\ r.txid = k.txid /\ r.io = io
    <3>1. k.dispatched - 1 \in Int /\ {} \in SUBSET Answer
      BY <1>1 DEF Worker
    <3>2. r = [k EXCEPT !.chanResult = {}, !.dispatched = k.dispatched - 1, !.io = io]
      BY <1>1 DEF Worker
    <3> QED
      BY <1>1, <2>1, <2>2, <3>1, <3>2, Zenon DEF Worker
  <2>4. WorkerOK(r)
    BY <1>1, <2>1 DEF Worker, WorkerOK
  <2> QED
    BY <2>1, <2>2, <2>3, <2>4, InnerInv, Zenon DEF k
<1>5. ASSUME NEW i \in k.chanInput, SubTake(w, i) PROVE MempoolInv'
  <2> DEFINE r == [k EXCEPT !.chanInput = {}, !.busy = @ \cup {i}]
  <2>1. k.pc = "inputs" /\ Step(w, r)
    BY <1>2, <1>5 DEF SubTake, k
  <2>2. r \in Worker /\ r.pc = "inputs" /\ r.txid = k.txid /\ r.io = k.io
    BY <1>1, <1>2, <2>1, Zenon DEF Worker
  <2>3. WorkerOK(r)
    BY <1>1, <2>1 DEF Worker, WorkerOK
  <2> QED
    BY <2>1, <2>2, <2>3, InnerInv, Zenon DEF k
<1>6. ASSUME NEW i \in k.busy, SubAnswer(w, i) \/ SubAnswerFails(w, i) PROVE MempoolInv'
  <2>1. k.pc = "inputs" /\ k.txid \in Txs /\ i \in DOMAIN Ins[k.txid] /\ i \in Places
    BY <1>1, <1>2 DEF WorkerOK
  <2>2. PICK ans \in {[i |-> i, ok |-> TRUE, ix |-> InputIndex(Ins[k.txid][i])],
                      [i |-> i, ok |-> FALSE, ix |-> <<>>]} :
            Step(w, [k EXCEPT !.busy = @ \ {i}, !.chanResult = {ans}])
    BY <1>6 DEF SubAnswer, SubAnswerFails, k
  <2>3. InputIndex(Ins[k.txid][i]) \in Index
    <3>1. Ins[k.txid][i] \in Spent
      BY <2>1 DEF Spent
    <3> QED
      BY <3>1, Zenon DEF Index
  <2>4. ans \in Answer /\ (ans.ok => ans.ix \in Index)
    <3>1. CASE ans = [i |-> i, ok |-> TRUE, ix |-> InputIndex(Ins[k.txid][i])]
      BY <2>1, <2>3, <3>1 DEF Answer
    <3>2. CASE ans = [i |-> i, ok |-> FALSE, ix |-> <<>>]
      BY <2>1, <3>2 DEF Answer
    <3> QED
      BY <2>2, <3>1, <3>2, Zenon
  <2> DEFINE r == [k EXCEPT !.busy = @ \ {i}, !.chanResult = {ans}]
  <2>5. r \in Worker /\ r.pc = "inputs" /\ r.txid = k.txid /\ r.io = k.io
    BY <1>1, <2>1, <2>4, ZenonT(30) DEF Worker
  <2>6. WorkerOK(r)
    BY <1>1, <2>1, <2>4 DEF Worker, WorkerOK
  <2> QED
    BY <2>1, <2>2, <2>5, <2>6, InnerInv, Zenon DEF k
<1> QED
  BY <1>3, <1>4, <1>5, <1>6 DEF SubStep, k

\* A worker takes a transaction and reads it, or cannot; the callback has not had its
\* outputs in this stay.
LEMMA ReadInv ==
    ASSUME MempoolInv, NEW w \in Workers, NEW t \in chanTxid,
           WorkerRead(w, t) \/ WorkerReadFails(w, t)
    PROVE  MempoolInv'
<1> USE DEF MempoolInv
<1>1. /\ worker[w].pc = "idle" /\ chanTxid' = {} /\ chanTxid = {t}
      /\ UNCHANGED <<txEntries, chanAddrIndex, node, resync>>
  BY Zenon DEF WorkerRead, WorkerReadFails, poolVars, nodeVars, Alone
<1>2. /\ t \in Txs /\ t \in Flight /\ t \notin DOMAIN txEntries
      /\ \A v \in Workers : ~Working(v, t)
      /\ \A tio \in chanAddrIndex : tio.txid # t
  BY DEF Types, Flight, Placed, Alone
<1>3. PICK r \in Worker :
          /\ worker' = [worker EXCEPT ![w] = r] /\ WorkerOK(r) /\ r.txid = t
          /\ \/ r.pc = "inputs" /\ r.io = OutputIndexes(t) /\ WorkerRead(w, t)
             \/ r.pc = "answer" /\ r.io = <<>> /\ WorkerReadFails(w, t)
  <2> DEFINE idle == IdleWorker
  <2>0. idle \in Worker
    BY DEF IdleWorker, Worker, Given
  <2>3. /\ idle.todo = {} /\ idle.chanInput = {}
        /\ idle.busy = {} /\ idle.chanResult = {} /\ idle.io = <<>>
    BY DEF IdleWorker, Worker, Given
  <2> HIDE DEF idle
  <2>1. CASE WorkerRead(w, t)
    <3> DEFINE r == [idle EXCEPT !.pc = "inputs", !.txid = t, !.todo = DOMAIN Ins[t],
                                       !.io = OutputIndexes(t)]
    <3>1. /\ DOMAIN Ins[t] \in SUBSET Places /\ OutputIndexes(t) \in Seq(Index)
          /\ t \in Given
      BY <1>2, OutputFacts DEF Places, Given
    <3>2. r \in Worker /\ r.pc = "inputs" /\ r.io = OutputIndexes(t) /\ r.txid = t
      <4>1. r \in Worker
        <5> DEFINE r1 == [idle EXCEPT !.pc = "inputs"]
                   r2 == [r1 EXCEPT !.txid = t]
        <5>1. r1 \in Worker
          BY <2>0 DEF Worker
        <5> HIDE DEF r1
        <5>2. r2 \in Worker
          BY <3>1, <5>1, Zenon DEF Worker
        <5> HIDE DEF r2
        <5>3. [r2 EXCEPT !.todo = DOMAIN Ins[t], !.io = OutputIndexes(t)] \in Worker
          BY <3>1, <5>2, Zenon DEF Worker
        <5> QED
          BY <5>3 DEF r1, r2
      <4>2. r.pc = "inputs" /\ r.io = OutputIndexes(t) /\ r.txid = t
        BY <2>0, SMTT(30) DEF Worker
      <4> QED
        BY <4>1, <4>2
    <3>3. WorkerOK(r)
      <4>1. /\ r.todo = DOMAIN Ins[t] /\ r.chanInput = {} /\ r.busy = {} /\ r.chanResult = {}
        BY <2>0, <2>3, SMTT(30) DEF Worker
      <4> HIDE DEF r
      <4> QED
        BY <1>2, <3>2, <4>1 DEF WorkerOK
    <3>4. worker' = [worker EXCEPT ![w] = r]
      BY <2>1 DEF WorkerRead, idle
    <3> HIDE DEF r
    <3> QED
      BY <2>1, <3>2, <3>3, <3>4, Zenon
  <2>2. CASE WorkerReadFails(w, t)
    <3> DEFINE r == [idle EXCEPT !.pc = "answer", !.txid = t]
    <3>1. r \in Worker /\ r.pc = "answer" /\ r.io = <<>> /\ r.txid = t
      <4>1. t \in Given
        BY <1>2 DEF Given
      <4>2. r \in Worker
        <5> DEFINE r1 == [idle EXCEPT !.pc = "answer"]
        <5>1. r1 \in Worker
          BY <2>0 DEF Worker
        <5> HIDE DEF r1
        <5>2. [r1 EXCEPT !.txid = t] \in Worker
          BY <4>1, <5>1 DEF Worker
        <5> QED
          BY <5>2 DEF r1
      <4>3. r.pc = "answer" /\ r.io = <<>> /\ r.txid = t
        BY <2>0, <2>3, SMTT(30) DEF Worker
      <4> QED
        BY <4>2, <4>3
    <3>2. WorkerOK(r)
      <4>1. /\ r.todo = {} /\ r.chanInput = {} /\ r.busy = {} /\ r.chanResult = {}
        BY <2>0, <2>3, SMTT(30) DEF Worker
      <4> HIDE DEF r
      <4> QED
        BY <1>2, <3>1, <4>1 DEF WorkerOK
    <3>3. worker' = [worker EXCEPT ![w] = r]
      BY <2>2, Zenon DEF WorkerReadFails, idle
    <3> HIDE DEF r
    <3> QED
      BY <2>2, <3>1, <3>2, <3>3, Zenon
  <2> QED
    BY <2>1, <2>2, Zenon
<1>4. worker'[w] = r /\ \A v \in Workers : v # w => worker'[v] = worker[v]
  BY <1>3 DEF Types
<1>5. /\ unread' = IF r.pc = "answer" THEN unread \cup {t} ELSE unread
      /\ told' = IF r.pc = "inputs" THEN [told EXCEPT ![t] = @ + 1] ELSE told
  BY <1>3 DEF WorkerRead, WorkerReadFails
<1>6. Types'
  <2>1. worker' \in [Workers -> Worker]
    BY <1>3, Zenon DEF Types
  <2>2. told' \in [Txs -> Nat] /\ unread' \subseteq Txs
    BY <1>2, <1>5 DEF Types
  <2> QED
    BY <1>1, <2>1, <2>2, Zenon DEF Types
<1>7. Handed'
  <2>1. \A v \in Workers : WorkerOK(worker'[v])
    BY <1>3, <1>4, Zenon DEF Handed
  <2> QED
    BY <2>1, Zenon DEF Handed
<1>8. \A v \in Workers : \A x : Working(v, x)' = (Working(v, x) \/ (v = w /\ x = t))
  BY <1>1, <1>3, <1>4 DEF Working
<1>9. Flight' = Flight
  BY <1>1, <1>2, <1>8, Zenon DEF Flight
<1>10. Alone'
  BY <1>1, <1>2, <1>8, ZenonT(30) DEF Alone
<1>11. Counted'
  BY <1>1, <1>9, Zenon DEF Counted
<1>12. Placed'
  BY <1>1, <1>5, <1>9, ZenonT(30) DEF Placed
<1>13. Results'
  <2>1. \A x \in unread : x \in unread'
    BY <1>5, Zenon
  <2>2. /\ r.pc = "inputs" /\ OutputIndexes(r.txid) # <<>> => r.io # <<>>
        /\ r.pc = "answer" => r.io = <<>> /\ r.txid \in unread'
    BY <1>3, <1>5
  <2>3. \A v \in Workers :
          LET k == worker'[v] IN
          /\ k.pc = "inputs" /\ OutputIndexes(k.txid) # <<>> => k.io # <<>>
          /\ k.pc = "answer" => k.io = <<>> /\ k.txid \in unread'
    BY <1>4, <2>1, <2>2, ZenonT(30) DEF Results
  <2>4. \A tio \in chanAddrIndex' :
          OutputIndexes(tio.txid) # <<>> => tio.io # <<>> \/ tio.txid \in unread'
    BY <1>1, <2>1, Zenon DEF Results
  <2> QED
    BY <2>3, <2>4, Zenon DEF Results
<1>14. Told'
  <2>1. ~ReadOn(t) /\ told \in [Txs -> Nat]
    BY <1>2 DEF ReadOn, Working, Types
  <2>2. \A x \in Txs : ReadOn(x)' = (ReadOn(x) \/ (x = t /\ r.pc = "inputs"))
    BY <1>1, <1>3, <1>4, Zenon DEF ReadOn
  <2>3. \A x \in Txs : told'[x] = IF x = t /\ r.pc = "inputs" THEN told[x] + 1 ELSE told[x]
    BY <1>2, <1>5, <2>1
  <2>4. ASSUME NEW x \in Txs, OutputIndexes(x) # <<>>
        PROVE  told'[x] = IF ReadOn(x)' THEN 1 ELSE 0
    <3>1. told[x] = IF ReadOn(x) THEN 1 ELSE 0
      BY <2>4 DEF Told
    <3>2. CASE x = t
      <4>1. told[x] = 0 /\ (ReadOn(x)' <=> r.pc = "inputs")
        BY <2>1, <2>2, <3>1, <3>2, Zenon
      <4>2. told'[x] = IF r.pc = "inputs" THEN 1 ELSE 0
        BY <2>3, <3>2, <4>1
      <4> QED
        BY <4>1, <4>2
    <3>3. CASE x # t
      BY <2>2, <2>3, <3>1, <3>3, ZenonT(30)
    <3> QED
      BY <3>2, <3>3
  <2> QED
    BY <2>4, Zenon DEF Told
<1> QED
  BY <1>6, <1>7, <1>10, <1>11, <1>12, <1>13, <1>14

\* A worker sends its result: the transaction moves from the worker to the channel.
LEMMA AnswerInv ==
    ASSUME MempoolInv, NEW w \in Workers, WorkerAnswer(w)
    PROVE  MempoolInv'
<1> USE DEF MempoolInv
<1> DEFINE k == worker[w]
           tio == [txid |-> k.txid, io |-> k.io]
<1>1. /\ k.pc \in {"inputs", "answer"} /\ chanAddrIndex = {} /\ chanAddrIndex' = {tio}
      /\ worker' = [worker EXCEPT ![w] = IdleWorker]
      /\ UNCHANGED <<txEntries, chanTxid, node, resync, told, unread>>
  BY Zenon DEF WorkerAnswer, poolVars, nodeVars, history
<1>2. k \in Worker /\ WorkerOK(k) /\ k.txid \in Txs
  BY <1>1, Zenon DEF Types, Handed, WorkerOK
<1>3. IdleWorker \in Worker /\ IdleWorker.pc = "idle" /\ WorkerOK(IdleWorker)
  BY DEF IdleWorker, Worker, Given, WorkerOK
<1>4. worker'[w] = IdleWorker /\ \A v \in Workers : v # w => worker'[v] = worker[v]
  BY <1>1 DEF Types
<1>5. Types'
  <2>1. tio \in Result
    BY <1>2, Zenon DEF Worker, Result
  <2> QED
    BY <1>1, <1>3, <2>1, Zenon DEF Types
<1>6. Handed'
  BY <1>3, <1>4 DEF Handed, WorkerOK
<1>7. \A v \in Workers : \A x : Working(v, x)' = (Working(v, x) /\ v # w)
  BY <1>3, <1>4 DEF Working
<1>8. \A x : Working(w, x) <=> x = tio.txid
  BY <1>1 DEF Working
<1>9. Flight' = Flight
  BY <1>1, <1>2, <1>7, <1>8, Zenon DEF Flight
<1>10. Alone'
  BY <1>1, <1>2, <1>7, <1>8, Zenon DEF Alone
<1>11. Counted' /\ Placed'
  BY <1>1, <1>9, Zenon DEF Counted, Placed
<1>12. Results'
  BY <1>1, <1>3, <1>4 DEF Results
<1>13. Told'
  <2>1. \A x \in Txs : OutputIndexes(x) # <<>> => ReadOn(x)' = ReadOn(x)
    <3>1. OutputIndexes(k.txid) # <<>> => (k.io # <<>> <=> k.pc = "inputs")
      BY <1>1 DEF Results
    <3> QED
      BY <1>1, <1>3, <1>4, <3>1 DEF ReadOn
  <2> QED
    BY <1>1, <2>1 DEF Told
<1> QED
  BY <1>5, <1>6, <1>10, <1>11, <1>12, <1>13, ZenonT(30)

\* Every step keeps the invariant.
LEMMA NextInv == ASSUME MempoolInv, [Next]_vars PROVE MempoolInv'
<1>1. CASE \/ \E t \in Txs : NodeMoves(t)
           \/ ResyncStart \/ ResyncFails
           \/ \E t \in resync.todo : Skip(t)
           \/ ResyncGather \/ ResyncGathered \/ ResyncEnd
  BY <1>1, ResyncMovesInv
<1>2. CASE \E t \in resync.todo : Dispatch(t)
  BY <1>2, DispatchInv
<1>3. CASE \E tio \in chanAddrIndex : StoreResult(tio)
  BY <1>3, StoreInv
<1>4. CASE \E t \in DOMAIN txEntries : ResyncRemove(t)
  BY <1>4, RemoveInv
<1>5. ASSUME NEW w \in Workers, WorkerStep(w) \/ SubStep(w) PROVE MempoolInv'
  <2>1. CASE \E t \in chanTxid : WorkerRead(w, t) \/ WorkerReadFails(w, t)
    BY <2>1, ReadInv
  <2>2. CASE \/ SendInput(w) \/ SubStep(w)
             \/ \E ans \in worker[w].chanResult : TakeAnswer(w, ans)
    BY <2>2, InputsInv
  <2>3. CASE WorkerAnswer(w)
    BY <2>3, AnswerInv
  <2> QED
    BY <1>5, <2>1, <2>2, <2>3, Zenon DEF WorkerStep
<1>6. CASE UNCHANGED vars
  <2>1. UNCHANGED <<txEntries, chanTxid, chanAddrIndex, worker, told, node, resync, unread>>
    BY <1>6 DEF vars, poolVars, nodeVars, chans, history
  <2>2. Handed' /\ Alone' /\ Told' /\ Flight' = Flight /\ Results'
    BY <2>1, Still, Zenon
  <2>3. Types' /\ Counted' /\ Placed'
    BY <2>1, <2>2, Zenon DEF MempoolInv, Types, Counted, Placed
  <2> QED
    BY <2>2, <2>3 DEF MempoolInv
<1> QED
  BY <1>1, <1>2, <1>3, <1>4, <1>5, <1>6, Zenon DEF Next, ResyncStep

-----------------------------------------------------------------------------
\* A step among the inputs of a transaction touches no other worker's transaction, no
\* result and no entry, as none of them is in flight twice.
LEMMA InnerEntry ==
    ASSUME MempoolInv, EntryInv, NEW w \in Workers, NEW r, Step(w, r),
           worker[w].pc = "inputs", r.pc = "inputs", r.txid = worker[w].txid,
           NEW m \in SUBSET Places, missed' = [missed EXCEPT ![worker[w].txid] = m],
           Apart(r), Gathered(r, m)
    PROVE  EntryInv'
<1> DEFINE t == worker[w].txid
<1>1. UNCHANGED <<txEntries, chanAddrIndex>> /\ worker' = [worker EXCEPT ![w] = r]
  BY DEF Step, poolVars, chans
<1>2. worker'[w] = r /\ \A v \in Workers : v # w => worker'[v] = worker[v]
  BY <1>1, Zenon DEF MempoolInv, Types
<1>3. t \in Txs /\ Working(w, t)
  BY Zenon DEF MempoolInv, Handed, WorkerOK, Working
<1>4. t \notin DOMAIN txEntries
  BY <1>3, Zenon DEF MempoolInv, Placed, Flight
<1>5. \A tio \in chanAddrIndex : tio.txid # t
  BY <1>3, Zenon DEF MempoolInv, Alone
<1>6. \A v \in Workers : v # w /\ worker[v].pc = "inputs" => worker[v].txid # t
  BY <1>3, Zenon DEF MempoolInv, Alone, Working
<1> HIDE DEF t
<1>7. /\ missed' \in [Txs -> SUBSET Places] /\ missed'[t] = m
      /\ \A x \in Txs : x # t => missed'[x] = missed[x]
  BY <1>3, Zenon DEF EntryInv, t
<1>8. Gathering'
  <2>1. SUFFICES ASSUME NEW v \in Workers, worker'[v].pc = "inputs"
                 PROVE  Apart(worker'[v]) /\ Gathered(worker'[v], missed'[worker'[v].txid])
    BY Zenon DEF Gathering
  <2>2. CASE v = w
    BY <1>2, <1>7, <2>2, Zenon DEF t
  <2>3. CASE v # w
    <3>1. worker'[v] = worker[v] /\ worker[v].txid # t /\ worker[v].txid \in Txs
      BY <1>2, <1>6, <2>1, <2>3, Zenon DEF MempoolInv, Handed, WorkerOK
    <3> QED
      BY <1>7, <2>1, <3>1, Zenon DEF EntryInv, Gathering
  <2> QED
    BY <2>2, <2>3, Zenon
<1>9. Brought'
  <2>1. \A tio \in chanAddrIndex : missed'[tio.txid] = missed[tio.txid]
    BY <1>5, <1>7, Zenon DEF MempoolInv, Types, Result
  <2> QED
    BY <1>1, <2>1, Zenon DEF EntryInv, Brought
<1>10. EntryComplete'
  <2>1. \A x \in DOMAIN txEntries : missed'[x] = missed[x]
    BY <1>4, <1>7, Zenon DEF MempoolInv, Types
  <2> QED
    BY <1>1, <2>1, Zenon DEF EntryInv, EntryComplete
<1> QED
  BY <1>7, <1>8, <1>9, <1>10, Zenon DEF EntryInv

\* The inputs go to the subworkers and their indexes come back.
LEMMA InputsEntry ==
    ASSUME MempoolInv, EntryInv, NEW w \in Workers,
           \/ SendInput(w)
           \/ \E ans \in worker[w].chanResult : TakeAnswer(w, ans)
           \/ SubStep(w)
    PROVE  EntryInv'
<1> DEFINE k == worker[w]
           m == missed[k.txid]
<1>1. k \in Worker /\ WorkerOK(k)
  BY Zenon DEF MempoolInv, Types, Handed
<1>2. k.pc = "inputs"
  <2>1. SendInput(w) \/ (\E ans \in k.chanResult : TakeAnswer(w, ans)) => k.pc = "inputs"
    BY Zenon DEF SendInput, TakeAnswer
  <2>2. SubStep(w) => k.chanInput # {} \/ k.busy # {}
    BY Zenon DEF SubStep
  <2> QED
    BY <1>1, <2>1, <2>2, Zenon DEF WorkerOK
<1>3. /\ k.txid \in Txs /\ Apart(k) /\ Gathered(k, m) /\ m \in SUBSET Places
      /\ missed = [missed EXCEPT ![k.txid] = m]
  BY <1>1, <1>2, Zenon DEF WorkerOK, EntryInv, Gathering
<1> HIDE DEF k, m
<1>4. CASE SendInput(w)
  <2>1. k.chanInput = {} /\ missed' = missed
    BY <1>4, Zenon DEF SendInput, k
  <2>2. PICK i \in k.todo :
            Step(w, [k EXCEPT !.todo = @ \ {i}, !.chanInput = {i}, !.dispatched = @ + 1])
    BY <1>4, Zenon DEF SendInput, k
  <2> DEFINE r == [k EXCEPT !.todo = @ \ {i}, !.chanInput = {i}, !.dispatched = @ + 1]
  <2>3. /\ r.pc = "inputs" /\ r.txid = k.txid /\ r.todo = k.todo \ {i} /\ r.chanInput = {i}
        /\ r.busy = k.busy /\ r.chanResult = k.chanResult
        /\ r.dispatched = k.dispatched + 1 /\ r.io = k.io
    BY <1>1, <1>2 DEF Worker
  <2>4. Step(w, r)
    BY <2>2, Zenon
  <2> HIDE DEF r
  <2>5. Apart(r) /\ Gathered(r, m)
    BY <1>3, <2>1, <2>3, SendKeeps, Zenon
  <2> QED
    BY <1>2, <1>3, <2>1, <2>3, <2>4, <2>5, InnerEntry, ZenonT(30) DEF k
<1>5. ASSUME NEW ans \in k.chanResult, TakeAnswer(w, ans) PROVE EntryInv'
  <2> DEFINE io == IF ans.ok THEN Append(k.io, ans.ix) ELSE k.io
             r == [k EXCEPT !.chanResult = {}, !.dispatched = @ - 1, !.io = io]
  <2>1. Step(w, r) /\ missed' = missed
    BY <1>5, Zenon DEF TakeAnswer, k
  <2> HIDE DEF io
  <2>2. /\ r.pc = "inputs" /\ r.txid = k.txid /\ r.todo = k.todo /\ r.chanInput = k.chanInput
        /\ r.busy = k.busy /\ r.chanResult = {}
        /\ r.dispatched = k.dispatched - 1 /\ r.io = io
    BY <1>1, <1>2, Zenon DEF Worker
  <2> HIDE DEF r
  <2>3. k.io \in Seq(Index) /\ (ans.ok => ans.ix \in Index)
    BY <1>1, Zenon DEF Worker, WorkerOK
  <2>4. Apart(r) /\ Gathered(r, m)
    BY <1>3, <2>2, <2>3, GatherKeeps, Zenon DEF io
  <2> QED
    BY <1>2, <1>3, <2>1, <2>2, <2>4, InnerEntry, ZenonT(30) DEF k
<1>6. ASSUME NEW i \in k.chanInput, SubTake(w, i) PROVE EntryInv'
  <2> DEFINE r == [k EXCEPT !.chanInput = {}, !.busy = @ \cup {i}]
  <2>1. Step(w, r) /\ missed' = missed
    BY <1>6, Zenon DEF SubTake, k
  <2>2. /\ r.pc = "inputs" /\ r.txid = k.txid /\ r.todo = k.todo /\ r.chanInput = {}
        /\ r.busy = k.busy \cup {i} /\ r.chanResult = k.chanResult
        /\ r.dispatched = k.dispatched /\ r.io = k.io
    BY <1>1, <1>2, Zenon DEF Worker
  <2> HIDE DEF r
  <2>3. Apart(r) /\ Gathered(r, m)
    BY <1>3, <2>2, TakeKeeps
  <2> QED
    BY <1>2, <1>3, <2>1, <2>2, <2>3, InnerEntry, Zenon DEF k
<1>7. ASSUME NEW i \in k.busy, SubAnswer(w, i) \/ SubAnswerFails(w, i) PROVE EntryInv'
  <2>1. i \in DOMAIN Ins[k.txid] /\ i \in Places /\ k.chanResult = {}
    BY <1>1, <1>2, <1>3, <1>7 DEF WorkerOK, Places, SubAnswer, SubAnswerFails, k
  <2>2. PICK ans, m2 :
            /\ Step(w, [k EXCEPT !.busy = @ \ {i}, !.chanResult = {ans}])
            /\ missed' = [missed EXCEPT ![k.txid] = m2] /\ ans.i = i
            /\ \/ ans.ok /\ ans.ix = InputIndex(Ins[k.txid][i]) /\ m2 = m
               \/ ~ans.ok /\ m2 = m \cup {i}
    <3>1. CASE SubAnswer(w, i)
      <4> DEFINE ans == [i |-> i, ok |-> TRUE, ix |-> InputIndex(Ins[k.txid][i])]
      <4>1. Step(w, [k EXCEPT !.busy = @ \ {i}, !.chanResult = {ans}]) /\ missed' = missed
        BY <3>1, Zenon DEF SubAnswer, k
      <4>2. ans.i = i /\ ans.ok /\ ans.ix = InputIndex(Ins[k.txid][i])
        OBVIOUS
      <4> HIDE DEF ans
      <4> QED
        BY <1>3, <4>1, <4>2, Zenon
    <3>2. CASE SubAnswerFails(w, i)
      <4> DEFINE ans == [i |-> i, ok |-> FALSE, ix |-> <<>>]
      <4>1. /\ Step(w, [k EXCEPT !.busy = @ \ {i}, !.chanResult = {ans}])
            /\ missed' = [missed EXCEPT ![k.txid] = missed[k.txid] \cup {i}]
        BY <3>2, Zenon DEF SubAnswerFails, k
      <4>2. ans.i = i /\ ~ans.ok
        OBVIOUS
      <4> HIDE DEF ans
      <4> QED
        BY <4>1, <4>2, Zenon DEF m
    <3> QED
      BY <1>7, <3>1, <3>2, Zenon
  <2> DEFINE r == [k EXCEPT !.busy = @ \ {i}, !.chanResult = {ans}]
  <2>3. /\ r.pc = "inputs" /\ r.txid = k.txid /\ r.todo = k.todo /\ r.chanInput = k.chanInput
        /\ r.busy = k.busy \ {i} /\ r.chanResult = {ans}
        /\ r.dispatched = k.dispatched /\ r.io = k.io
    BY <1>1, <1>2 DEF Worker
  <2>4. Step(w, r)
    BY <2>2
  <2> HIDE DEF r
  <2>5. Apart(r) /\ Gathered(r, m2)
    BY <1>3, <2>1, <2>2, <2>3, AnswerKeeps, Zenon
  <2>6. m2 \in SUBSET Places
    BY <1>3, <2>1, <2>2
  <2> QED
    BY <1>2, <2>2, <2>3, <2>4, <2>5, <2>6, InnerEntry, ZenonT(30) DEF k
<1> QED
  BY <1>4, <1>5, <1>6, <1>7, Zenon DEF SubStep, k

\* A worker that has read its transaction has the outputs, and all inputs before it.
LEMMA ReadEntry ==
    ASSUME MempoolInv, EntryInv, NEW w \in Workers, NEW t \in chanTxid,
           WorkerRead(w, t) \/ WorkerReadFails(w, t)
    PROVE  EntryInv'
<1>1. UNCHANGED <<txEntries, chanAddrIndex>>
  BY Zenon DEF WorkerRead, WorkerReadFails, poolVars
<1>2. /\ t \in Txs /\ t \notin DOMAIN txEntries
      /\ \A v \in Workers : ~Working(v, t)
      /\ \A tio \in chanAddrIndex : tio.txid # t
  BY Zenon DEF MempoolInv, Types, Flight, Placed, Alone
<1>3. /\ missed' \in [Txs -> SUBSET Places] /\ (WorkerRead(w, t) => missed'[t] = {})
      /\ \A x \in Txs : x # t => missed'[x] = missed[x]
  BY <1>2 DEF WorkerRead, WorkerReadFails, EntryInv
<1>4. \A v \in Workers : v # w => worker'[v] = worker[v]
  BY Zenon DEF WorkerRead, WorkerReadFails, MempoolInv, Types
<1>5. worker'[w].pc = "inputs" =>
          Apart(worker'[w]) /\ Gathered(worker'[w], missed'[worker'[w].txid])
  <2>1. CASE WorkerRead(w, t)
    <3> DEFINE r == worker'[w]
    <3>1. /\ r.txid = t /\ r.todo = DOMAIN Ins[t] /\ r.chanInput = {} /\ r.busy = {}
          /\ r.chanResult = {} /\ r.dispatched = 0 /\ r.io = OutputIndexes(t)
      BY <2>1, SMTT(30) DEF WorkerRead, IdleWorker, MempoolInv, Types
    <3> HIDE DEF r
    <3>2. Answered(r) = {} /\ Out(r) = {} /\ Pending(r) = DOMAIN Ins[t]
      BY <3>1 DEF Answered, Out, Pending
    <3>3. Apart(r)
      BY <3>1, <3>2, FS_EmptySet, Zenon DEF Apart
    <3>4. DOMAIN Ins[t] \ (Pending(r) \cup {}) = {}
      BY <3>2, Zenon
    <3>5. Gathered(r, {})
      BY <1>2, <3>1, <3>4, WholeOutputs, Zenon DEF Gathered
    <3> QED
      BY <1>3, <2>1, <3>1, <3>3, <3>5, Zenon DEF r
  <2>2. CASE WorkerReadFails(w, t)
    <3>1. worker'[w].pc = "answer"
      BY <2>2 DEF WorkerReadFails, IdleWorker, MempoolInv, Types
    <3> QED
      BY <3>1
  <2> QED
    BY <2>1, <2>2, Zenon
<1>6. Gathering'
  <2>1. SUFFICES ASSUME NEW v \in Workers, v # w, worker[v].pc = "inputs"
                 PROVE  Apart(worker[v]) /\ Gathered(worker[v], missed'[worker[v].txid])
    BY <1>4, <1>5, Zenon DEF Gathering
  <2>2. worker[v].txid \in Txs /\ worker[v].txid # t
    BY <1>2, <2>1, Zenon DEF MempoolInv, Handed, WorkerOK, Working
  <2> QED
    BY <1>3, <2>1, <2>2 DEF EntryInv, Gathering
<1>7. Brought'
  <2>1. \A tio \in chanAddrIndex : missed'[tio.txid] = missed[tio.txid]
    BY <1>2, <1>3, Zenon DEF MempoolInv, Types, Result
  <2> QED
    BY <1>1, <2>1, Zenon DEF EntryInv, Brought
<1>8. EntryComplete'
  <2>1. \A x \in DOMAIN txEntries : missed'[x] = missed[x]
    BY <1>2, <1>3, Zenon DEF MempoolInv, Types
  <2> QED
    BY <1>1, <2>1, Zenon DEF EntryInv, EntryComplete
<1> QED
  BY <1>3, <1>6, <1>7, <1>8 DEF EntryInv

\* A worker whose count is down to zero with no input left has gathered all of them.
LEMMA AnswerEntry ==
    ASSUME MempoolInv, EntryInv, NEW w \in Workers, WorkerAnswer(w)
    PROVE  EntryInv'
<1> DEFINE k == worker[w]
           tio == [txid |-> k.txid, io |-> k.io]
<1>1. /\ chanAddrIndex' = {tio} /\ UNCHANGED <<txEntries, missed>>
      /\ worker' = [worker EXCEPT ![w] = IdleWorker]
      /\ k.pc = "answer" \/ (k.pc = "inputs" /\ k.todo = {} /\ k.dispatched = 0)
  BY Zenon DEF WorkerAnswer, poolVars, history
<1>2. /\ worker'[w].pc = "idle"
      /\ \A v \in Workers : v # w => worker'[v] = worker[v]
  BY <1>1, Zenon DEF MempoolInv, Types, IdleWorker
<1>3. Gathering'
  BY <1>1, <1>2, Zenon DEF EntryInv, Gathering
<1>4. k.io # <<>> => Whole(k.txid, DOMAIN Ins[k.txid] \ missed[k.txid], k.io)
  <2>1. CASE k.pc = "answer"
    BY <2>1, Zenon DEF MempoolInv, Results
  <2>2. CASE k.pc = "inputs" /\ k.todo = {} /\ k.dispatched = 0
    <3>1. Apart(k) /\ Gathered(k, missed[k.txid])
      BY <2>2 DEF EntryInv, Gathering
    <3> HIDE DEF k
    <3>2. Out(k) = {}
      BY <2>2, <3>1, FS_EmptySet DEF Apart
    <3>3. Pending(k) \cup missed[k.txid] = missed[k.txid]
      BY <2>2, <3>2, Zenon DEF Pending
    <3> QED
      BY <3>1, <3>3, Zenon DEF Gathered
  <2> QED
    BY <1>1, <2>1, <2>2, Zenon
<1>5. Brought'
  <2>1. tio.txid = k.txid /\ tio.io = k.io
    OBVIOUS
  <2> HIDE DEF k, tio
  <2> QED
    BY <1>1, <1>4, <2>1, Zenon DEF Brought
<1>6. EntryComplete'
  BY <1>1 DEF EntryInv, EntryComplete
<1> QED
  BY <1>1, <1>3, <1>5, <1>6, Zenon DEF EntryInv

\* Resync stores what a worker has brought, and drops an entry with what was lost of it.
LEMMA PoolEntry ==
    ASSUME MempoolInv, EntryInv,
           \/ \E tio \in chanAddrIndex : StoreResult(tio)
           \/ \E t \in DOMAIN txEntries : ResyncRemove(t)
    PROVE  EntryInv'
<1>1. ASSUME NEW tio \in chanAddrIndex, StoreResult(tio) PROVE EntryInv'
  <2>1. chanAddrIndex' = {} /\ UNCHANGED <<worker, missed>>
    BY <1>1 DEF StoreResult, history
  <2>2. OnNewEntry(tio)
    BY <1>1 DEF StoreResult
  <2>3. EntryComplete'
    <3>1. CASE tio.io = <<>>
      BY <2>1, <2>2, <3>1, Zenon DEF OnNewEntry, poolVars, EntryInv, EntryComplete
    <3>2. CASE tio.io # <<>>
      <4> DEFINE e == [addrIndexes |-> tio.io, time |-> resync.time]
      <4>1. txEntries' = [x \in DOMAIN txEntries \cup {tio.txid} |->
                             IF x = tio.txid THEN e ELSE txEntries[x]]
        BY <2>2, <3>2, Zenon DEF OnNewEntry, AddEntry
      <4>2. e.addrIndexes = tio.io
        OBVIOUS
      <4>3. Whole(tio.txid, DOMAIN Ins[tio.txid] \ missed[tio.txid], tio.io)
        BY <3>2, Zenon DEF EntryInv, Brought
      <4> HIDE DEF e
      <4> QED
        BY <2>1, <4>1, <4>2, <4>3, Zenon DEF EntryInv, EntryComplete
    <3> QED
      BY <3>1, <3>2, Zenon
  <2>4. Gathering' /\ Brought'
    BY <2>1 DEF EntryInv, Gathering, Brought
  <2> QED
    BY <2>1, <2>3, <2>4 DEF EntryInv
<1>2. ASSUME NEW t \in DOMAIN txEntries, ResyncRemove(t) PROVE EntryInv'
  <2>1. /\ UNCHANGED <<worker, chanAddrIndex>> /\ missed' = [missed EXCEPT ![t] = {}]
        /\ txEntries' = [x \in DOMAIN txEntries \ {t} |-> txEntries[x]] /\ resync.pc = "remove"
    BY <1>2, Zenon DEF ResyncRemove, RemoveEntries, chans
  <2>2. chanAddrIndex = {} /\ \A w \in Workers : worker[w].pc = "idle"
    BY <2>1, AtRest, Zenon DEF MempoolInv, Placed
  <2>3. Gathering' /\ Brought'
    BY <2>1, <2>2 DEF Gathering, Brought
  <2>4. /\ missed' \in [Txs -> SUBSET Places]
        /\ \A x \in DOMAIN txEntries \ {t} : missed'[x] = missed[x]
    BY <2>1 DEF EntryInv, MempoolInv, Types
  <2>5. EntryComplete'
    BY <2>1, <2>4, Zenon DEF EntryInv, EntryComplete
  <2> QED
    BY <2>3, <2>4, <2>5 DEF EntryInv
<1> QED
  BY <1>1, <1>2

\* Every step keeps what the entries, the results and the workers hold whole.
LEMMA NextEntry == ASSUME MempoolInv, EntryInv, [Next]_vars PROVE EntryInv'
<1>1. CASE UNCHANGED <<txEntries, chanAddrIndex, worker, missed>>
  BY <1>1, Zenon DEF EntryInv, Gathering, Brought, EntryComplete
<1>2. CASE \/ \E t \in Txs : NodeMoves(t)
           \/ ResyncStart \/ ResyncFails
           \/ \E t \in resync.todo : Skip(t) \/ Dispatch(t)
           \/ ResyncGather \/ ResyncGathered \/ ResyncEnd
           \/ UNCHANGED vars
  <2>1. UNCHANGED <<txEntries, chanAddrIndex, worker, missed>>
    BY <1>2, Zenon DEF NodeMoves, ResyncStart, ResyncFails, Skip, Dispatch, ResyncGather,
                ResyncGathered, ResyncEnd, vars, chans, history, poolVars
  <2> QED
    BY <1>1, <2>1
<1>3. CASE \/ \E tio \in chanAddrIndex : StoreResult(tio)
           \/ \E t \in DOMAIN txEntries : ResyncRemove(t)
  BY <1>3, PoolEntry
<1>4. ASSUME NEW w \in Workers, WorkerStep(w) \/ SubStep(w) PROVE EntryInv'
  <2>1. CASE \E t \in chanTxid : WorkerRead(w, t) \/ WorkerReadFails(w, t)
    BY <2>1, ReadEntry
  <2>2. CASE \/ SendInput(w) \/ SubStep(w)
             \/ \E ans \in worker[w].chanResult : TakeAnswer(w, ans)
    BY <2>2, InputsEntry
  <2>3. CASE WorkerAnswer(w)
    BY <2>3, AnswerEntry
  <2> QED
    BY <1>4, <2>1, <2>2, <2>3, Zenon DEF WorkerStep
<1> QED
  BY <1>2, <1>3, <1>4, Zenon DEF Next, ResyncStep

-----------------------------------------------------------------------------
\* In every reachable state a transaction Resync has handed out is in exactly one of the
\* channels and workers, Resync's counter is the number of them, and each transaction of
\* the node's list is accounted for.
THEOREM Invariance == Spec => []MempoolInv
<1>1. Init => MempoolInv
  BY InitInv
<1>2. MempoolInv /\ [Next]_vars => MempoolInv'
  BY NextInv
<1> QED
  BY <1>1, <1>2, PTL DEF Spec

\* When Resync has returned, the mempool holds nothing that is not on the node's list,
\* and all of the list but what could not be read in this resync, or pays no address.
THEOREM ReturnsExact == Spec => []ResyncExact
<1>1. MempoolInv => ResyncExact
  BY DEF MempoolInv, Placed, ResyncExact
<1> QED
  BY <1>1, Invariance, PTL

\* The owners of a transaction's outputs are told of it once in its stay, over any number
\* of resyncs and failed calls.
THEOREM ToldOnce == Spec => []NotifiedOnce
<1>1. MempoolInv => NotifiedOnce
  <2>1. SUFFICES ASSUME MempoolInv, NEW t \in Txs, OutputIndexes(t) # <<>>
                 PROVE  told[t] <= 1 /\ (t \in DOMAIN txEntries => told[t] = 1)
    BY DEF NotifiedOnce
  <2>2. told[t] = IF ReadOn(t) THEN 1 ELSE 0
    BY <2>1 DEF MempoolInv, Told
  <2>3. t \in DOMAIN txEntries => ReadOn(t)
    BY DEF ReadOn
  <2> QED
    BY <2>2, <2>3
<1> QED
  BY <1>1, Invariance, PTL

\* An entry has every output with an address and, once each, every input but those whose
\* own call failed: whatever the order in which the subworkers answer, none is lost, taken
\* twice or stored before the last answer is in.
THEOREM EntriesWhole == Spec => []EntryComplete
<1>1. Init => EntryInv
  <2>1. SUFFICES ASSUME Init PROVE EntryInv
    BY Zenon
  <2>2. /\ missed \in [Txs -> SUBSET Places] /\ chanAddrIndex = {} /\ DOMAIN txEntries = {}
        /\ \A w \in Workers : worker[w].pc = "idle"
    BY <2>1 DEF Init, PoolInit, IdleWorker
  <2> QED
    BY <2>2 DEF EntryInv, Gathering, Brought, EntryComplete
<1>2. MempoolInv /\ EntryInv /\ [Next]_vars => EntryInv'
  BY NextEntry
<1>3. EntryInv => EntryComplete
  BY DEF EntryInv
<1> QED
  BY <1>1, <1>2, <1>3, Invariance, PTL DEF Spec
=============================================================================
