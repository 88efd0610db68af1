------------------------ MODULE ParallelSync_proofs -------------------------
(***************************************************************************)
(* Proofs about ConnectBlocksParallel for every number of workers and      *)
(* every range of heights.  IInv is inductive; the step that matters is    *)
(* Deliver: a worker that offers a block on the writer's channel offers    *)
(* the next block, because an earlier one with the same residue would be   *)
(* SyncWorkers or more heights away, and the SyncWorkers heights between   *)
(* would have to be in the hands of the other SyncWorkers-1 workers.       *)
(* EndInv, on top of it, follows main through the closing of the channels  *)
(* and gives what the caller relies on when the load returns.              *)
(***************************************************************************)
EXTENDS ParallelSync, FiniteSetTheorems, TLAPS

\* Two different heights with the same channel are SyncWorkers apart.
LEMMA SameChannel ==
    ASSUME NEW N \in Nat \ {0}, NEW a \in Nat, NEW b \in Nat,
           a < b, a % N = b % N
    PROVE  a + N <= b
  <1> DEFINE p == a \div N
             q == b \div N
  <1>1. /\ p \in Int /\ q \in Int
        /\ a = N * p + (a % N) /\ b = N * q + (b % N)
    OBVIOUS
  <1>2. N * q - N * p > 0
    BY <1>1
  <1>3. N * q >= N * p + N
    <2> HIDE DEF p, q
    <2>1. q > p
      <3>1. SUFFICES ASSUME q <= p PROVE FALSE
        BY <1>1
      <3>2. N * q <= N * p
        BY <1>1, <3>1
      <3> QED BY <1>1, <1>2, <3>2
    <2>2. N * q >= N * (p + 1)
      BY <1>1, <2>1
    <2> QED BY <1>1, <2>2
  <1> QED BY <1>1, <1>3

\* SyncWorkers heights cannot all be in the hands of the workers other than i.
LEMMA TooFewHands ==
    ASSUME NEW i \in Workers, NEW L \in Int
    PROVE  \E g \in (L + 1) .. (L + SyncWorkers) :
              \A j \in Workers \ {i} : wh[j] # g
  <1> DEFINE S == (L + 1) .. (L + SyncWorkers)
             T == Workers \ {i}
             f == [g \in S |-> CHOOSE j \in T : wh[j] = g]
  <1> USE ParallelSyncAssumption
  <1> SUFFICES ASSUME \A g \in S : \E j \in T : wh[j] = g
               PROVE  FALSE
    OBVIOUS
  <1>1. f \in [S -> T] /\ \A g \in S : wh[f[g]] = g
    OBVIOUS
  <1>2. IsFiniteSet(S) /\ Cardinality(S) = SyncWorkers
    BY FS_Interval
  <1>3. IsFiniteSet(Workers) /\ Cardinality(Workers) = SyncWorkers
    BY FS_Interval DEF Workers
  <1>4. IsFiniteSet(T) /\ Cardinality(T) < Cardinality(S)
    <2>1. IsFiniteSet(T) /\ Cardinality(T) = Cardinality(Workers) - 1
      BY <1>3, FS_RemoveElement
    <2> QED BY <1>2, <1>3, <2>1
  <1>5. \E x, y \in S : x # y /\ f[x] = f[y]
    <2> HIDE DEF S, T, f
    <2> QED BY <1>1, <1>2, <1>4, FS_PigeonHole
  <1> QED BY <1>1, <1>5

-----------------------------------------------------------------------------
\* The invariant holds before any goroutine has moved.
LEMMA InitInv == Init => IInv
  <1> SUFFICES ASSUME Init PROVE IInv
    OBVIOUS
  <1> USE ParallelSyncAssumption DEF Init
  <1>1. InHand = {} /\ Untaken = Lower
    BY DEF InHand, Untaken
  <1>2. TypeOK
    <2>1. hch \in Seq(Lower .. Higher) /\ Len(hch) <= SyncWorkers
      OBVIOUS
    <2>2. h \in Lower .. (Higher + 1) /\ lastBlock \in (Lower - 1) .. Higher
      OBVIOUS
    <2>3. dryRun \in BOOLEAN
      OBVIOUS
    <2>4. /\ hchOpen \in BOOLEAN /\ hchClosed \in BOOLEAN
          /\ terminating \in BOOLEAN /\ bchOpen \in BOOLEAN
      BY Zenon
    <2>5. wpc \in [Workers -> {"recv", "get", "send", "exit"}]
          /\ wh \in [Workers -> (Lower .. Higher) \union {NoBlock}]
      OBVIOUS
    <2> QED BY <2>1, <2>2, <2>3, <2>4, <2>5 DEF TypeOK
  <1>3. NoSkippedBlock
    BY DEF NoSkippedBlock
  <1>4. BlocksAccountedFor
    BY <1>1 DEF BlocksAccountedFor, HchInOrder, HeldOnce
  <1>5. Positions
    BY <1>1 DEF Positions
  <1> QED BY <1>2, <1>3, <1>4, <1>5 DEF IInv

\* The steps that move no height: they change no variable that says where a
\* height is, and leave a goroutine in a place of the same kind.
LEMMA QuietStep ==
    ASSUME IInv, TypeOK', NoSkippedBlock',
           UNCHANGED <<dryRun, h, hch, wh, vb, lastBlock>>,
           mpc' = "send" => h <= Higher,
           vpc' = "connect" <=> vpc = "connect",
           \A i \in Workers : wpc'[i] # wpc[i] => wpc'[i] = "exit"
    PROVE  IInv'
  <1>1. InHand' = InHand /\ Untaken' = Untaken
    BY DEF InHand, Untaken
  <1>2. BlocksAccountedFor'
    BY <1>1 DEF IInv, BlocksAccountedFor, HchInOrder, HeldOnce
  <1>3. Positions'
    BY <1>1 DEF IInv, Positions
  <1> QED BY <1>2, <1>3 DEF IInv

\* A block that a worker can hand to the writer is the next block.
LEMMA DeliverNext ==
    ASSUME IInv, NEW i \in Workers, Deliver(i)
    PROVE  wh[i] = lastBlock + 1
  <1> USE ParallelSyncAssumption
  <1>1. /\ wh[i] \in Nat /\ wh[i] # NoBlock
        /\ lastBlock + 1 \in Nat /\ lastBlock \in Int
        /\ lastBlock < wh[i] /\ wh[i] < Untaken /\ Untaken \in Int
        /\ ~dryRun /\ vpc = "loop"
    BY DEF IInv, TypeOK, Positions, Deliver, NoBlock, Untaken
  <1>2. SUFFICES ASSUME lastBlock + 1 < wh[i] PROVE FALSE
    BY <1>1
  <1>3. lastBlock + 1 + SyncWorkers <= wh[i]
    BY <1>1, <1>2, SameChannel DEF Deliver
  <1>4. (lastBlock + 1) .. (Untaken - 1) = InHand
    BY <1>1 DEF IInv, BlocksAccountedFor
  <1>5. \A g \in (lastBlock + 1) .. (lastBlock + SyncWorkers) :
           \E j \in Workers \ {i} : wh[j] = g
    <2> TAKE g \in (lastBlock + 1) .. (lastBlock + SyncWorkers)
    <2>1. g \in InHand /\ g # wh[i]
      BY <1>1, <1>3, <1>4
    <2> QED BY <2>1 DEF InHand
  <1> QED BY <1>1, <1>5, TooFewHands, Zenon

\* Every step of every goroutine preserves the invariant.
LEMMA NextInv == IInv /\ [Next]_vars => IInv'
  <1> SUFFICES ASSUME IInv, [Next]_vars PROVE IInv'
    OBVIOUS
  <1> USE ParallelSyncAssumption
  <1>1. CASE OsSignal
    <2>1. TypeOK' /\ NoSkippedBlock'
      BY <1>1 DEF IInv, TypeOK, NoSkippedBlock, OsSignal, mainVars, chanVars, workerVars, writerVars
    <2> QED BY <1>1, <2>1, QuietStep DEF IInv, Positions, OsSignal, mainVars, chanVars, workerVars, writerVars
  <1>2. CASE MainInterrupted
    <2>1. TypeOK' /\ NoSkippedBlock'
      BY <1>2 DEF IInv, TypeOK, NoSkippedBlock, MainInterrupted, workerVars, writerVars
    <2> QED BY <1>2, <2>1, QuietStep DEF MainInterrupted, workerVars, writerVars
  <1>3. CASE MainGetBlockHash
    <2>1. TypeOK' /\ NoSkippedBlock'
      BY <1>3 DEF IInv, TypeOK, NoSkippedBlock, MainGetBlockHash, chanVars, workerVars, writerVars
    <2> QED BY <1>3, <2>1, QuietStep DEF MainGetBlockHash, chanVars, workerVars, writerVars
  <1>4. CASE MainSend
    <2> USE <1>4 DEF MainSend, workerVars, writerVars
    <2>1. /\ h \in Lower .. Higher /\ Len(hch') = Len(hch) + 1
          /\ Untaken' = Untaken /\ InHand' = InHand
      BY DEF IInv, TypeOK, Positions, Untaken, InHand
    <2>2. TypeOK' /\ NoSkippedBlock'
      BY <2>1 DEF IInv, TypeOK, NoSkippedBlock
    <2>3. HchInOrder'
      <3> SUFFICES ASSUME NEW k \in 1 .. Len(hch') PROVE hch'[k] = Untaken + k - 1
        BY <2>1 DEF HchInOrder
      <3>1. CASE k \in 1 .. Len(hch)
        BY <3>1 DEF IInv, TypeOK, BlocksAccountedFor, HchInOrder
      <3>2. CASE k = Len(hch) + 1
        BY <2>1, <3>2 DEF IInv, TypeOK, Untaken
      <3> QED BY <2>1, <3>1, <3>2 DEF IInv, TypeOK
    <2>4. BlocksAccountedFor'
      BY <2>1, <2>3 DEF IInv, BlocksAccountedFor, HeldOnce
    <2>5. Positions'
      BY <2>1 DEF IInv, Positions
    <2> QED BY <2>2, <2>4, <2>5 DEF IInv
  <1>5. CASE MainCloseHch
    <2>1. TypeOK' /\ NoSkippedBlock'
      <3>1. hchOpen' \in BOOLEAN
        BY <1>5, Zenon DEF MainCloseHch
      <3>2. UNCHANGED <<dryRun, signal, h, err, hch, wpc, wh, vpc, vb, bc, lastBlock, blockTxs, died>>
        BY <1>5 DEF MainCloseHch, workerVars, writerVars
      <3> QED BY <1>5, <3>1, <3>2 DEF IInv, TypeOK, NoSkippedBlock, MainCloseHch
    <2> QED BY <1>5, <2>1, QuietStep DEF MainCloseHch, workerVars, writerVars
  <1>6. CASE MainSetClosed
    <2>1. TypeOK' /\ NoSkippedBlock'
      BY <1>6 DEF IInv, TypeOK, NoSkippedBlock, MainSetClosed, workerVars, writerVars
    <2> QED BY <1>6, <2>1, QuietStep DEF MainSetClosed, workerVars, writerVars
  <1>7. CASE MainWaitWorkers
    <2>1. TypeOK' /\ NoSkippedBlock'
      <3>1. bchOpen' \in BOOLEAN
        BY <1>7, Zenon DEF MainWaitWorkers
      <3>2. UNCHANGED <<dryRun, signal, h, err, hch, wpc, wh, vpc, vb, bc, lastBlock, blockTxs, died>>
        BY <1>7 DEF MainWaitWorkers, workerVars, writerVars
      <3> QED BY <1>7, <3>1, <3>2 DEF IInv, TypeOK, NoSkippedBlock, MainWaitWorkers
    <2> QED BY <1>7, <2>1, QuietStep DEF MainWaitWorkers, workerVars, writerVars
  <1>8. CASE MainReturn
    <2>1. TypeOK' /\ NoSkippedBlock'
      BY <1>8 DEF IInv, TypeOK, NoSkippedBlock, MainReturn, chanVars, workerVars, writerVars
    <2> QED BY <1>8, <2>1, QuietStep DEF MainReturn, chanVars, workerVars, writerVars
  <1>9. ASSUME NEW i \in Workers, WorkerTake(i) PROVE IInv'
    <2> USE <1>9 DEF WorkerTake, mainVars, writerVars
    <2>1. /\ Head(hch) = Untaken /\ Len(hch) \in Nat \ {0} /\ Len(hch') = Len(hch) - 1
          /\ Untaken \in Lower .. Higher /\ Untaken' = Untaken + 1
          /\ \A k \in 1 .. Len(hch') : hch'[k] = hch[k + 1]
      BY DEF IInv, TypeOK, BlocksAccountedFor, HchInOrder, Untaken
    <2>2. TypeOK' /\ NoSkippedBlock'
      BY <2>1 DEF IInv, TypeOK, NoSkippedBlock
    <2>3. /\ wh[i] = NoBlock /\ wh'[i] = Untaken
          /\ \A j \in Workers \ {i} : wh'[j] = wh[j]
      BY <2>1 DEF IInv, TypeOK, Positions
    <2>4. InHand' = InHand \union {Untaken}
      BY <2>1, <2>3 DEF InHand, NoBlock
    <2>5. HchInOrder'
      BY <2>1 DEF IInv, TypeOK, BlocksAccountedFor, HchInOrder
    <2>6. HeldOnce'
      BY <2>1, <2>3 DEF IInv, TypeOK, BlocksAccountedFor, HeldOnce, Positions
    <2>7. BlocksAccountedFor'
      <3>1. lastBlock \in Int /\ lastBlock < Untaken /\ Untaken \in Int
        BY <2>1 DEF IInv, TypeOK, Positions
      <3>2. (lastBlock + 1) .. (Untaken' - 1)
              = ((lastBlock + 1) .. (Untaken - 1)) \union {Untaken}
        BY <2>1, <3>1
      <3> QED BY <2>4, <2>5, <2>6, <3>2 DEF IInv, BlocksAccountedFor
    <2>8. Positions'
      <3>1. \A j \in Workers \ {i} : wpc'[j] = wpc[j]
        BY DEF IInv, TypeOK
      <3>2. wpc'[i] = "get" /\ Untaken # NoBlock /\ lastBlock \in Int
        BY <2>1 DEF IInv, TypeOK, NoBlock
      <3>3. \A j \in Workers : wh[j] \in Int
        BY DEF IInv, TypeOK, NoBlock
      <3> QED BY <2>1, <2>3, <2>4, <3>1, <3>2, <3>3 DEF IInv, Positions
    <2> QED BY <2>2, <2>7, <2>8 DEF IInv
  <1>10. ASSUME NEW i \in Workers, WorkerFinish(i) PROVE IInv'
    <2>1. TypeOK' /\ NoSkippedBlock'
      BY <1>10 DEF IInv, TypeOK, NoSkippedBlock, WorkerFinish, mainVars, chanVars, writerVars
    <2> QED BY <1>10, <2>1, QuietStep
            DEF IInv, TypeOK, Positions, WorkerFinish, mainVars, chanVars, writerVars
  <1>11. ASSUME NEW i \in Workers, WorkerGetBlock(i) PROVE IInv'
    <2> USE <1>11 DEF WorkerGetBlock, mainVars, chanVars, writerVars
    <2>1. TypeOK' /\ NoSkippedBlock'
      BY DEF IInv, TypeOK, NoSkippedBlock
    <2>2. Untaken' = Untaken
      BY DEF Untaken
    <2>3. CASE dryRun
      <3>1. /\ wpc'[i] = "recv" /\ wh'[i] = NoBlock
            /\ \A j \in Workers \ {i} : wpc'[j] = wpc[j] /\ wh'[j] = wh[j]
        BY <2>3 DEF IInv, TypeOK
      <3>2. BlocksAccountedFor'
        BY <2>2, <2>3, <3>1 DEF IInv, BlocksAccountedFor, HchInOrder, HeldOnce
      <3>3. Positions'
        BY <2>2, <2>3, <3>1 DEF IInv, Positions
      <3> QED BY <2>1, <3>2, <3>3 DEF IInv
    <2>4. CASE ~dryRun
      <3>1. InHand' = InHand
        BY <2>4 DEF InHand
      <3>2. BlocksAccountedFor'
        BY <2>2, <2>4, <3>1 DEF IInv, BlocksAccountedFor, HchInOrder, HeldOnce
      <3>3. Positions'
        BY <2>2, <2>4, <3>1, SMTT(30) DEF IInv, TypeOK, Positions
      <3> QED BY <2>1, <3>2, <3>3 DEF IInv
    <2> QED BY <2>3, <2>4
  <1>12. ASSUME NEW i \in Workers, WorkerGiveUp(i) PROVE IInv'
    <2>1. TypeOK' /\ NoSkippedBlock'
      BY <1>12 DEF IInv, TypeOK, NoSkippedBlock, WorkerGiveUp, mainVars, chanVars, writerVars
    <2> QED BY <1>12, <2>1, QuietStep
            DEF IInv, TypeOK, Positions, WorkerGiveUp, mainVars, chanVars, writerVars
  <1>13. ASSUME NEW i \in Workers, Deliver(i) PROVE IInv'
    <2> USE <1>13 DEF Deliver, mainVars, chanVars
    <2>1. wh[i] = lastBlock + 1 /\ wh[i] # NoBlock /\ wh[i] < Untaken /\ ~dryRun
      BY DeliverNext, Zenon DEF IInv, Positions
    <2>2. TypeOK' /\ NoSkippedBlock'
      BY DEF IInv, TypeOK, NoSkippedBlock
    <2>3. /\ Untaken' = Untaken /\ wh'[i] = NoBlock /\ wpc'[i] = "recv"
          /\ \A j \in Workers \ {i} : wpc'[j] = wpc[j] /\ wh'[j] = wh[j]
      BY DEF IInv, TypeOK, Untaken
    <2>4. InHand' = InHand \ {wh[i]} /\ wh[i] \in InHand
      <3>1. \A j \in Workers \ {i} : wh[j] # wh[i]
        BY <2>1 DEF IInv, BlocksAccountedFor, HeldOnce
      <3> QED BY <2>1, <2>3, <3>1 DEF InHand
    <2>5. BlocksAccountedFor'
      <3>1. HchInOrder'
        BY <2>3 DEF IInv, BlocksAccountedFor, HchInOrder
      <3>2. HeldOnce'
        <4>1. HeldOnce
          BY DEF IInv, BlocksAccountedFor
        <4> QED BY <2>3, <4>1 DEF HeldOnce
      <3>3. (lastBlock + 1) .. (Untaken - 1) = InHand
        BY <2>1 DEF IInv, BlocksAccountedFor
      <3>4. /\ vpc' = "connect" /\ vb' = wh[i] /\ lastBlock' = lastBlock
            /\ InHand = InHand' \union {vb'}
        BY <2>4
      <3> HIDE <1>13 DEF Deliver
      <3> QED BY <2>3, <3>1, <3>2, <3>3, <3>4 DEF BlocksAccountedFor
    <2>6. Positions'
      BY <2>1, <2>3, <2>4, SMTT(30) DEF IInv, Positions
    <2> QED BY <2>2, <2>5, <2>6 DEF IInv
  <1>14. ASSUME NEW i \in Workers, WorkerTerminated(i) PROVE IInv'
    <2>1. TypeOK' /\ NoSkippedBlock'
      BY <1>14 DEF IInv, TypeOK, NoSkippedBlock, WorkerTerminated, mainVars, chanVars, writerVars
    <2> QED BY <1>14, <2>1, QuietStep
            DEF IInv, TypeOK, Positions, WorkerTerminated, mainVars, chanVars, writerVars
  <1>15. CASE WriterInit
    <2>1. TypeOK' /\ NoSkippedBlock'
      BY <1>15 DEF IInv, TypeOK, NoSkippedBlock, WriterInit, mainVars, chanVars, workerVars
    <2> QED BY <1>15, <2>1, QuietStep
            DEF IInv, Positions, WriterInit, mainVars, chanVars, workerVars
  <1>16. CASE WriterConnect
    <2>1. /\ vb = lastBlock + 1 /\ vb < Untaken /\ vb \notin InHand /\ vb \in Lower .. Higher
          /\ ~dryRun /\ vpc = "connect" /\ lastBlock \in Int /\ Untaken \in Int
          /\ (lastBlock + 1) .. (Untaken - 1) = InHand \union {vb}
      BY <1>16 DEF IInv, TypeOK, Positions, BlocksAccountedFor, NoBlock, Untaken, WriterConnect
    <2>2. /\ UNCHANGED <<dryRun, signal, mpc, h, err, hch, hchOpen, hchClosed, terminating,
                         bchOpen, wpc, wh>>
          /\ died' \in {"no", "store", "panic"}
      BY <1>16, <2>1 DEF WriterConnect, mainVars, chanVars, workerVars
    <2>3. NoSkippedBlock'
      BY <2>2 DEF NoSkippedBlock
    <2>4. Untaken' = Untaken /\ InHand' = InHand
      BY <2>2 DEF Untaken, InHand
    <2>5. CASE died' # "no"
      <3>1. UNCHANGED <<vpc, vb, bc, lastBlock, blockTxs>>
        BY <1>16, <2>5 DEF WriterConnect, writerVars
      <3>2. TypeOK'
        BY <2>2, <3>1 DEF IInv, TypeOK
      <3> QED
        BY <2>2, <2>3, <2>4, <3>1, <3>2
           DEF IInv, BlocksAccountedFor, HchInOrder, HeldOnce, Positions
    <2>6. CASE died' = "no"
      <3>1. /\ lastBlock' = lastBlock + 1 /\ vpc' = "loop" /\ vb' = NoBlock /\ bc' = bc
            /\ blockTxs' \subseteq blockTxs \union {vb}
        BY <1>16, <2>1, <2>6 DEF WriterConnect
      <3>2. TypeOK'
        BY <2>1, <2>2, <3>1 DEF IInv, TypeOK
      <3>3. (lastBlock' + 1) .. (Untaken - 1) = InHand
        <4>1. \A g : g \in (lastBlock' + 1) .. (Untaken - 1)
                      <=> g \in (lastBlock + 1) .. (Untaken - 1) /\ g # vb
          BY <2>1, <3>1
        <4> QED BY <2>1, <4>1, ZenonT(30)
      <3>4. BlocksAccountedFor'
        BY <2>2, <2>4, <3>1, <3>3 DEF IInv, BlocksAccountedFor, HchInOrder, HeldOnce
      <3>5. \A i \in Workers : wh[i] # NoBlock => lastBlock' < wh[i]
        <4> TAKE i \in Workers
        <4> HAVE wh[i] # NoBlock
        <4>1. wh[i] \in InHand
          BY DEF InHand
        <4> QED BY <2>1, <3>1, <3>3, <4>1
      <3>6. Positions'
        BY <2>1, <2>2, <2>4, <3>1, <3>5 DEF IInv, Positions
      <3> QED BY <2>3, <3>2, <3>4, <3>6 DEF IInv
    <2> QED BY <2>5, <2>6
  <1>17. CASE WriterLeaveLoop
    <2>1. TypeOK' /\ NoSkippedBlock'
      BY <1>17 DEF IInv, TypeOK, NoSkippedBlock, WriterLeaveLoop, mainVars, chanVars, workerVars
    <2> QED BY <1>17, <2>1, QuietStep
            DEF IInv, Positions, WriterLeaveLoop, mainVars, chanVars, workerVars
  <1>18. CASE WriterClose
    <2>1. TypeOK' /\ NoSkippedBlock'
      BY <1>18 DEF IInv, TypeOK, NoSkippedBlock, WriterClose, mainVars, chanVars, workerVars
    <2> QED BY <1>18, <2>1, QuietStep
            DEF IInv, Positions, WriterClose, mainVars, chanVars, workerVars
  <1>19. CASE UNCHANGED vars
    BY <1>19 DEF IInv, TypeOK, NoSkippedBlock, BlocksAccountedFor, HchInOrder, HeldOnce,
                 Positions, InHand, Untaken, vars, mainVars, chanVars, workerVars, writerVars
  <1> QED
    BY <1>1, <1>2, <1>3, <1>4, <1>5, <1>6, <1>7, <1>8, <1>9, <1>10, <1>11, <1>12,
       <1>13, <1>14, <1>15, <1>16, <1>17, <1>18, <1>19
       DEF Next, Main, Worker, Writer, Finished

\* TypeOK and NoSkippedBlock hold in every reachable state, for every number
\* of workers and every range: glog.Fatal("writeBlockWorker skipped block") is
\* unreachable, and no height is lost or duplicated between main, the workers
\* and the writer.
THEOREM Invariance == Spec => []IInv
  BY InitInv, NextInv, PTL DEF Spec

\* The writer only ever receives the block that follows the last one it wrote.
THEOREM NeverSkips == Spec => []NoSkippedBlock
  <1>1. IInv => NoSkippedBlock
    BY DEF IInv
  <1> QED BY <1>1, Invariance, PTL

\* Every height main took from the backend is connected, at the writer, in
\* exactly one worker's hands or in hch.
THEOREM Accounting == Spec => []BlocksAccountedFor
  <1>1. IInv => BlocksAccountedFor
    BY DEF IInv
  <1> QED BY <1>1, Invariance, PTL

\* The types of all variables, and the bound on hch.
THEOREM TypeCorrect == Spec => []TypeOK
  <1>1. IInv => TypeOK
    BY DEF IInv
  <1> QED BY <1>1, Invariance, PTL

-----------------------------------------------------------------------------
\* EndInv holds before any goroutine has moved.
LEMMA InitEnd == Init => EndInv
  BY ParallelSyncAssumption DEF Init, EndInv, Phases

\* Every step preserves EndInv: main closes hch and bch only when nobody sends to
\* them any more, workers end without a block only when hch is empty for good, and
\* the writer stores undo data from Higher - Keep on.
LEMMA NextEnd == IInv /\ EndInv /\ [Next]_vars => EndInv'
  <1> SUFFICES ASSUME IInv, EndInv, [Next]_vars PROVE EndInv'
    OBVIOUS
  <1> USE ParallelSyncAssumption
  <1>1. CASE OsSignal
    BY <1>1 DEF EndInv, Phases, OsSignal, mainVars, chanVars, workerVars, writerVars
  <1>2. CASE MainInterrupted
    BY <1>2 DEF EndInv, Phases, MainInterrupted, workerVars, writerVars
  <1>3. CASE MainGetBlockHash
    BY <1>3 DEF EndInv, Phases, MainGetBlockHash, chanVars, workerVars, writerVars
  <1>4. CASE MainSend
    BY <1>4 DEF EndInv, Phases, MainSend, workerVars, writerVars
  <1>5. CASE MainCloseHch
    BY <1>5 DEF IInv, TypeOK, EndInv, Phases, MainCloseHch, workerVars, writerVars
  <1>6. CASE MainSetClosed
    BY <1>6 DEF EndInv, Phases, MainSetClosed, workerVars, writerVars
  <1>7. CASE MainWaitWorkers
    BY <1>7 DEF EndInv, Phases, MainWaitWorkers, workerVars, writerVars
  <1>8. CASE MainReturn
    BY <1>8 DEF EndInv, Phases, MainReturn, chanVars, workerVars, writerVars
  <1>9. ASSUME NEW i \in Workers, WorkerTake(i) PROVE EndInv'
    BY <1>9 DEF IInv, TypeOK, EndInv, Phases, WorkerTake, mainVars, writerVars
  <1>10. ASSUME NEW i \in Workers, WorkerFinish(i) PROVE EndInv'
    BY <1>10 DEF IInv, TypeOK, EndInv, Phases, WorkerFinish, mainVars, chanVars, writerVars
  <1>11. ASSUME NEW i \in Workers, WorkerGetBlock(i) PROVE EndInv'
    BY <1>11 DEF IInv, TypeOK, EndInv, Phases, WorkerGetBlock, mainVars, chanVars, writerVars
  <1>12. ASSUME NEW i \in Workers, WorkerGiveUp(i) PROVE EndInv'
    BY <1>12 DEF IInv, TypeOK, Positions, EndInv, Phases, WorkerGiveUp, mainVars, chanVars, writerVars
  <1>13. ASSUME NEW i \in Workers, Deliver(i) PROVE EndInv'
    BY <1>13 DEF IInv, TypeOK, EndInv, Phases, Deliver, mainVars, chanVars
  <1>14. ASSUME NEW i \in Workers, WorkerTerminated(i) PROVE EndInv'
    BY <1>14 DEF IInv, TypeOK, Positions, EndInv, Phases, WorkerTerminated, mainVars, chanVars, writerVars
  <1>15. CASE WriterInit
    BY <1>15 DEF EndInv, Phases, WriterInit, mainVars, chanVars, workerVars
  <1>16. CASE WriterConnect
    <2> USE <1>16 DEF WriterConnect, mainVars, chanVars, workerVars
    <2>1. vb = lastBlock + 1 /\ lastBlock \in Int /\ ~dryRun
      BY DEF IInv, TypeOK, Positions
    <2>2. CASE died' # "no"
      BY <2>2 DEF EndInv, Phases, writerVars
    <2>3. CASE died' = "no"
      <3>1. /\ lastBlock' = lastBlock + 1 /\ vpc' = "loop" /\ bc' = bc
            /\ blockTxs' = blockTxs \union {b \in {vb} : b + Keep > Higher}
        BY <2>1, <2>3
      <3>2. \A g \in Lower .. lastBlock' : g + Keep > Higher => g \in blockTxs'
        BY <2>1, <3>1 DEF EndInv
      <3> QED BY <2>1, <3>1, <3>2 DEF EndInv, Phases
    <2> QED BY <2>2, <2>3
  <1>17. CASE WriterLeaveLoop
    BY <1>17 DEF EndInv, Phases, WriterLeaveLoop, mainVars, chanVars, workerVars
  <1>18. CASE WriterClose
    BY <1>18 DEF EndInv, Phases, WriterClose, mainVars, chanVars, workerVars
  <1>19. CASE UNCHANGED vars
    BY <1>19 DEF EndInv, Phases, vars, mainVars, chanVars, workerVars, writerVars
  <1> QED
    BY <1>1, <1>2, <1>3, <1>4, <1>5, <1>6, <1>7, <1>8, <1>9, <1>10, <1>11, <1>12,
       <1>13, <1>14, <1>15, <1>16, <1>17, <1>18, <1>19
       DEF Next, Main, Worker, Writer, Finished

\* The order in which main closes and waits, for every number of workers and range.
THEOREM EndInvariance == Spec => []EndInv
  BY InitEnd, NextEnd, Invariance, InitInv, NextInv, PTL DEF Spec

\* No goroutine is ever about to send on hch or bch after main has closed it.
THEOREM NeverSendsOnClosed == Spec => []NoSendOnClosed
  <1>1. EndInv => NoSendOnClosed
    BY DEF EndInv, Phases, NoSendOnClosed
  <1> QED BY <1>1, EndInvariance, PTL

\* ConnectBlocksParallel returns only when its workers have ended and the bulk
\* connection is closed.
THEOREM ReturnsQuiet == Spec => []QuietOnReturn
  <1>1. EndInv => QuietOnReturn
    BY DEF EndInv, Phases, QuietOnReturn
  <1> QED BY <1>1, EndInvariance, PTL

\* When no worker has dropped its block, nothing is in anybody's hands at the end of
\* a load that was not interrupted, and hch is empty.
LEMMA Complete == IInv /\ EndInv => CompleteUnlessDropped
  <1> SUFFICES ASSUME IInv, EndInv, ~Dropped, mpc = "done", err = "nil", ~dryRun
               PROVE  lastBlock = Higher
    BY DEF CompleteUnlessDropped, CompleteOnSuccess
  <1> USE ParallelSyncAssumption
  <1>1. ~terminating /\ h = Higher + 1 /\ vpc = "exit" /\ ~bchOpen
    BY DEF EndInv, Phases
  <1>2. \A i \in Workers : wpc[i] = "exit" /\ wh[i] = NoBlock
    BY <1>1 DEF EndInv, Phases, Dropped
  <1>3. InHand = {}
    BY <1>2 DEF InHand
  <1>4. hch = <<>>
    <2>1. 0 \in Workers
      BY DEF Workers
    <2> QED BY <1>2, <2>1 DEF EndInv
  <1>5. Untaken = Higher + 1
    BY <1>1, <1>4 DEF Untaken
  <1>6. (lastBlock + 1) .. Higher = {}
    BY <1>1, <1>3, <1>5 DEF IInv, BlocksAccountedFor
  <1>7. lastBlock \in Int /\ lastBlock <= Higher
    BY DEF IInv, TypeOK
  <1>8. Higher \in (lastBlock + 1) .. Higher \/ lastBlock >= Higher
    BY <1>7
  <1> QED BY <1>6, <1>7, <1>8

\* A load that succeeds without a dropped block has connected the whole range.
THEOREM CompleteLoad == Spec => []CompleteUnlessDropped
  BY Complete, Invariance, EndInvariance, PTL

\* Such a load, and every dry run, leaves undo data for the newest Keep blocks.
THEOREM UndoDataComplete == Spec => []UndoDataKeptOnSuccess
  <1>1. IInv /\ EndInv => UndoDataKeptOnSuccess
    <2> SUFFICES ASSUME IInv, EndInv, err = "nil", ~Dropped, mpc = "done",
                        NEW g \in Lower .. lastBlock, g + Keep > lastBlock
                 PROVE  g \in blockTxs
      BY DEF UndoDataKeptOnSuccess, UndoDataKept
    <2> USE ParallelSyncAssumption
    <2>1. CASE dryRun
      BY <2>1 DEF EndInv
    <2>2. CASE ~dryRun
      <3>1. lastBlock = Higher
        BY <2>2, Complete DEF CompleteUnlessDropped, CompleteOnSuccess
      <3> QED BY <3>1 DEF EndInv
    <2> QED BY <2>1, <2>2
  <1> QED BY <1>1, Invariance, EndInvariance, PTL

\* What the caller relies on at the end of a load, for any number of workers and
\* any range.
THEOREM EndOfLoad == Spec => []EndPromise
  BY NeverSendsOnClosed, ReturnsQuiet, CompleteLoad, UndoDataComplete, PTL DEF EndPromise
=============================================================================
