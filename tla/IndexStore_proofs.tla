------------------------- MODULE IndexStore_proofs --------------------------
(***************************************************************************)
(* Proofs about the database: crash consistency for every set of blocks,   *)
(* keys and columns, every size of the caches and every failing write, and *)
(* that the database implements the index that Index promises.             *)
(*                                                                         *)
(* StoreInv is inductive.  Outside a bulk session what is on disk is the   *)
(* index of the chain of rows in the column height, but for the batch of   *)
(* one block that is written as a whole.  In a session (SessionExact) disk,*)
(* batches on their way and caches together hold the blocks of the         *)
(* session once, and the stored DbState is inconsistent until all of it is *)
(* on disk.  Crash consistency follows state by state, and the refinement  *)
(* of Index step by step.                                                  *)
(***************************************************************************)
EXTENDS IndexStoreBase_proofs

\* The invariant holds in the empty database.
LEMMA InitStore == IndexStoreConstants /\ Init => StoreInv
  <1> SUFFICES ASSUME IndexStoreConstants, Init PROVE StoreInv
    OBVIOUS
  <1>1. TypeOK
    BY InitType
  <1>2. Best = 0 /\ Indexed = {}
    BY BestFacts DEF Init, Indexed
  <1>3. Exact
    BY <1>2 DEF Exact, Init, Expected
  <1>4. Modes /\ SessionMarked
    BY DEF Modes, SessionMarked, Init
  <1>5. BatchesInSession
    BY DEF BatchesInSession, Init, NoBatch
  <1> QED BY <1>1, <1>3, <1>4, <1>5 DEF StoreInv, Init

\* The process that ends leaves nothing of a session behind, and an exact
\* database unless DbState refuses it.
LEMMA GoneStore ==
    ASSUME IndexStoreConstants, StoreInv, TypeOK', ProcessGone, pc # "down",
           dbState' = dbState \/ (pc = "idle" /\ memState = "open"),
           UNCHANGED <<height, addrRows, col, undo>>
    PROVE  StoreInv'
  <1>0. SessionMarked'
    BY DEF SessionMarked, ProcessGone
  <1> SUFFICES ASSUME ~lost PROVE StoreInv'
    BY <1>0 DEF StoreInv, ProcessGone
  <1>1. Modes'
    BY DEF Modes, ProcessGone
  <1>2. BatchesInSession'
    BY DEF BatchesInSession, ProcessGone, NoBatch
  <1>3. dbState' # "inconsistent" => Exact'
    <2>1. SUFFICES ASSUME dbState' # "inconsistent" PROVE Exact'
      OBVIOUS
    <2>2. Exact
      BY <2>1 DEF StoreInv, Modes, SessionMarked, TypeOK
    <2> QED BY <2>2, ExactKept
  <1> QED BY <1>0, <1>1, <1>2, <1>3 DEF StoreInv, ProcessGone

\* Every step keeps a bulk session marked.
LEMMA NextMarked ==
    ASSUME IndexStoreConstants, StoreInv, [Next]_vars
    PROVE  SessionMarked'
  <1> USE DEF StoreInv, SessionMarked, session, batches, disk
  <1>1. CASE Start \/ Crash \/ Shutdown \/ Refused
    BY <1>1 DEF Start, Crash, Shutdown, Refused, ProcessGone, vars
  <1>2. CASE LoopStart \/ LoopPack \/ LoopPut
    BY <1>2 DEF LoopStart, LoopPack, LoopPut
  <1>3. CASE ConnectWrite \/ \E b \in Block : ConnectBlock(b)
    BY <1>3 DEF ConnectWrite, ConnectBlock
  <1>4. CASE \E lower \in Heights : DisconnectBlockRange(lower)
    BY <1>4 DEF DisconnectBlockRange
  <1>5. CASE \E higher \in Heights : InitBulkConnect(higher)
    BY <1>5 DEF InitBulkConnect
  <1>6. CASE \E b \in Block : BulkConnectBlock(b)
    <2>1. PICK b \in Block : BulkStep(b)
      BY <1>6, BulkSteps
    <2> QED BY <2>1 DEF BulkStep
  <1>7. CASE MainWrite \/ \E c \in Columns : PendWrite(c)
    BY <1>7, Zenon DEF MainWrite, PendWrite
  <1>8. CASE BulkWritten \/ Close \/ CloseDone \/ \E c \in Columns : CloseFails(c)
    BY <1>8 DEF BulkWritten, Close, CloseDone, CloseFails
  <1>9. CASE UNCHANGED vars
    BY <1>9 DEF vars
  <1> QED BY <1>1, <1>2, <1>3, <1>4, <1>5, <1>6, <1>7, <1>8, <1>9 DEF Next

\* Every step keeps the invariant.
LEMMA NextStore ==
    ASSUME IndexStoreConstants, StoreInv, [Next]_vars
    PROVE  StoreInv'
  <1> USE DEF session, batches, disk
  <1>t. TypeOK /\ TypeOK'
    BY NextType DEF StoreInv
  <1>m. SessionMarked'
    BY NextMarked
  <1>k. UNCHANGED <<height, addrRows, col, undo>> /\ Exact => Exact'
    BY ExactKept, SMTT(30)
  <1>1. CASE Start
    BY <1>1, <1>t, <1>m, <1>k, Zenon DEF Start, StoreInv, Modes, BatchesInSession
  <1>2. CASE Crash
    BY <1>2, <1>t, <1>m, GoneStore DEF Crash
  <1>3. CASE Shutdown
    BY <1>3, <1>t, <1>m, GoneStore, Zenon DEF Shutdown
  <1>4. CASE Refused \/ UNCHANGED vars
    <2>1. UNCHANGED vars
      BY <1>4, SMTT(30) DEF Refused
    <2>2. (SessionExact => SessionExact') /\ (ConnectReady => ConnectReady')
      BY <2>1, SessionKept, ZenonT(30) DEF vars, ConnectReady, Process, Best
    <2> QED BY <2>1, <2>2, <1>t, <1>m, <1>k DEF vars, StoreInv, Modes, BatchesInSession
  <1>5. CASE LoopStart
    BY <1>5, <1>t, <1>m, <1>k DEF LoopStart, StoreInv, Modes, BatchesInSession
  <1>6. CASE LoopPack
    <2>1. ConnectReady => ConnectReady'
      BY <1>6 DEF LoopPack, ConnectReady, Process, Best
    <2>2. SessionExact => SessionExact'
      BY <1>6, SessionKept DEF LoopPack
    <2>3. ~lost => Modes' /\ BatchesInSession'
      BY <1>6 DEF LoopPack, StoreInv, TypeOK, Modes, SessionMarked, BatchesInSession
    <2> QED BY <1>6, <2>1, <2>2, <2>3, <1>t, <1>m, <1>k DEF LoopPack, StoreInv
  <1>7. CASE LoopPut
    <2>1. ConnectReady => ConnectReady'
      BY <1>7 DEF LoopPut, ConnectReady, Process, Best
    <2> QED BY <1>7, <2>1, <1>t, <1>m, <1>k, SMTT(30) DEF LoopPut, StoreInv, Modes, SessionMarked, BatchesInSession
  <1>8. ASSUME NEW b \in Block, ConnectBlock(b) PROVE StoreInv'
    <2>1. ConnectReady'
      <3>1. Best' = Best /\ cur' = b /\ HeightOf[b] = Best + 1
        BY <1>8, Zenon DEF ConnectBlock, Best
      <3>2. cache' = Process(NoBatch, b)'
        BY <1>8, SMTT(30) DEF ConnectBlock, Process, NoBatch
      <3> QED BY <3>1, <3>2 DEF ConnectReady, Process, NoBatch
    <2>2. Exact => Exact'
      BY <1>8, ExactKept, CleanedOnly, ZenonT(30) DEF ConnectBlock
    <2> QED BY <1>8, <2>1, <2>2, <1>t, <1>m DEF ConnectBlock, StoreInv, Modes, BatchesInSession
  <1>9. CASE ConnectWrite
    <2>1. Exact /\ ConnectReady => Exact'
      <3>1. CASE UNCHANGED <<height, addrRows, col, undo>>
        BY <3>1, <1>k
      <3>2. CASE /\ height' = PutHeights({cur})
                 /\ addrRows' = addrRows \union {cur}
                 /\ col' = [c \in Columns |-> Stored(cache, c)]
                 /\ undo' = [undo EXCEPT ![HeightOf[cur]] = cur]
        BY <1>9, <3>2, <1>t, <1>m, ConnectWriteExact, SMTT(30) DEF ConnectWrite, StoreInv
      <3> QED BY <1>9, <3>1, <3>2, Zenon DEF ConnectWrite
    <2> QED BY <1>9, <2>1, <1>t, <1>m, SMTT(30) DEF ConnectWrite, StoreInv, Modes, BatchesInSession
  <1>10. ASSUME NEW lower \in Heights, DisconnectBlockRange(lower) PROVE StoreInv'
    <2>1. Exact => Exact'
      BY <1>10, <1>t, <1>m, DisconnectExact
    <2> QED BY <1>10, <2>1, <1>t, <1>m DEF DisconnectBlockRange, StoreInv, Modes, BatchesInSession
  <1>11. ASSUME NEW higher \in Heights, InitBulkConnect(higher) PROVE StoreInv'
    <2>1. Exact /\ BatchesInSession => SessionExact'
      <3>1. BatchesInSession => /\ mainRows' = {} /\ mainUndo' = NoRow
                                /\ \A c \in Columns, k \in Keys : pend'[c][k] = NoRow
        BY <1>11 DEF InitBulkConnect, BatchesInSession
      <3> QED BY <1>11, <3>1, SessionStart DEF InitBulkConnect
    <2> QED BY <1>11, <2>1, <1>t, <1>m DEF InitBulkConnect, StoreInv, Modes, SessionMarked,
                                          BatchesInSession
  <1>12. ASSUME NEW b \in Block, BulkConnectBlock(b) PROVE StoreInv'
    <2>0. BulkStep(b) /\ TypeOK
      BY <1>12, BulkSteps DEF StoreInv
    <2> SUFFICES ASSUME ~lost PROVE StoreInv'
      BY <2>0, <1>t, <1>m DEF BulkStep, StoreInv
    <2>1. SessionExact'
      <3>1. SessionExact /\ BatchesInSession
        BY <2>0 DEF BulkStep, StoreInv
      <3> QED BY <2>0, <3>1, BulkConnectSession
    <2>2. BatchesInSession'
      <3>1. \A c \in Columns, k \in Keys : ~pendOn'[c] => pend'[c][k] = NoRow
        BY <2>0 DEF BulkStep
      <3>2. /\ pc' = "bulkwrite" /\ \A c \in Columns : ~failed'[c]
            /\ mainRows' # {} => bulk' = {}
        BY <2>0 DEF BulkStep
      <3>3. ~mainOn' => mainRows' = {} /\ mainUndo' = NoRow
        BY <2>0 DEF BulkStep
      <3> QED BY <3>1, <3>2, <3>3 DEF BatchesInSession
    <2>3. Modes'
      BY <2>0 DEF BulkStep, Modes, StoreInv
    <2> QED BY <2>0, <2>1, <2>2, <2>3, <1>t, <1>m DEF BulkStep, StoreInv
  <1>13. CASE MainWrite
    <2> SUFFICES ASSUME ~lost' PROVE StoreInv'
      BY <1>13, <1>t, <1>m DEF MainWrite, StoreInv, Modes
    <2>1. /\ ~lost /\ UNCHANGED <<pc, cur>>
          /\ height' = PutHeights(mainRows) /\ addrRows' = addrRows \union mainRows
          /\ undo' = [g \in Heights |-> IF mainUndo # NoRow /\ g = HeightOf[mainUndo]
                                        THEN mainUndo ELSE undo[g]]
      BY <1>13 DEF MainWrite
    <2>2. pc \in {"bulkwrite", "closing"}
      BY <1>13, <2>1 DEF MainWrite, StoreInv, BatchesInSession
    <2>3. SessionExact'
      BY <1>13, <2>1, <2>2, <1>t, <1>m, MainWriteSession, SMTT(30) DEF MainWrite, StoreInv
    <2>4. BatchesInSession' /\ Modes'
      BY <1>13, <2>1, <2>2 DEF MainWrite, StoreInv, BatchesInSession, Modes
    <2> QED BY <2>1, <2>2, <2>3, <2>4, <1>t, <1>m DEF StoreInv
  <1>14. ASSUME NEW c \in Columns, PendWrite(c) PROVE StoreInv'
    <2> SUFFICES ASSUME ~lost PROVE StoreInv'
      BY <1>14, <1>t, <1>m DEF PendWrite, StoreInv
    <2>1. pc \in {"bulkwrite", "closing"} /\ pc' = pc
      BY <1>14 DEF PendWrite, StoreInv, BatchesInSession
    <2>2. SessionExact'
      BY <1>14, <2>1, <1>t, <1>m, PendWriteSession DEF StoreInv
    <2>3. BatchesInSession'
      <3>1. \A d \in Columns : failed'[d] => pc' = "closing" /\ ~pendOn'[d]
        BY <1>14, <2>1, ZenonT(30) DEF PendWrite, StoreInv, BatchesInSession, TypeOK
      <3>2. \A d \in Columns, k \in Keys : ~pendOn'[d] => pend'[d][k] = NoRow
        BY <1>14, <2>1, <1>t, <1>m, ZenonT(30) DEF PendWrite, StoreInv, BatchesInSession, TypeOK, Batch
      <3> QED BY <1>14, <2>1, <3>1, <3>2 DEF PendWrite, StoreInv, BatchesInSession
    <2>4. Modes'
      BY <1>14, SMTT(30) DEF PendWrite, StoreInv, Modes
    <2> QED BY <2>1, <2>2, <2>3, <2>4, <1>t, <1>m DEF StoreInv
  <1>15. CASE BulkWritten
    <2>1. SessionExact => SessionExact'
      BY <1>15, SessionKept DEF BulkWritten
    <2> QED BY <1>15, <2>1, <1>t, <1>m, ZenonT(30) DEF BulkWritten, StoreInv, Modes, BatchesInSession
  <1>16. CASE Close
    <2>1. ~lost => SessionExact'
      BY <1>16, <1>t, <1>m, CloseSession DEF Close, StoreInv
    <2> QED BY <1>16, <2>1, <1>t, <1>m DEF Close, StoreInv, Modes, BatchesInSession
  <1>17. ASSUME NEW c \in Columns, CloseFails(c) PROVE StoreInv'
    BY <1>17, <1>t, <1>m DEF CloseFails, StoreInv
  <1>18. CASE CloseDone
    <2>1. ~lost => Exact
      BY <1>18, <1>t, <1>m, CloseDoneExact DEF CloseDone, StoreInv
    <2> QED BY <1>18, <2>1, <1>t, <1>m, <1>k DEF CloseDone, StoreInv, Modes, BatchesInSession
  <1> QED
    BY <1>1, <1>2, <1>3, <1>4, <1>5, <1>6, <1>7, <1>8, <1>9, <1>10, <1>11, <1>12,
       <1>13, <1>14, <1>15, <1>16, <1>17, <1>18 DEF Next

\* The invariant of the database holds in every reachable state, whatever the
\* blocks, keys, columns and cache sizes, and whichever write fails or is the
\* last before a crash.
THEOREM StoreInvariance == Spec => []StoreInv
  <1> SUFFICES ASSUME IndexStoreConstants PROVE Spec => []StoreInv
    BY StoreAssumption
  <1>1. Init => StoreInv
    BY InitStore
  <1>2. StoreInv /\ [Next]_vars => StoreInv'
    BY NextStore
  <1> QED BY <1>1, <1>2, PTL DEF Spec

\* Crash consistency (DbState, SetInconsistentState, BulkConnect.Close): a
\* database that is in use or that a start accepts is exactly the index of
\* the blocks in its column height.
THEOREM CrashConsistency == Spec => []DiskConsistent
  <1> SUFFICES ASSUME IndexStoreConstants PROVE Spec => []DiskConsistent
    BY StoreAssumption
  <1>1. StoreInv => DiskConsistent
    BY DEF StoreInv, Modes, SessionMarked, TypeOK, DiskConsistent, usable
  <1>2. Spec => []StoreInv
    BY StoreInvariance
  <1> QED BY <1>1, <1>2, PTL

-----------------------------------------------------------------------------
\* cleanupBlockTxs never deletes undo data of the newest Keep-1 blocks of a
\* database that is not in a bulk session.
THEOREM CleanupSafe == Spec => CleanupKeepsNewest
  <1> SUFFICES ASSUME IndexStoreConstants PROVE Spec => CleanupKeepsNewest
    BY StoreAssumption
  <1> DEFINE Kept == \A g \in Heights :
                        undo[g] # NoRow /\ undo'[g] = NoRow /\ height'[g] # NoRow
                            => g + Keep <= Best + 1 \/ dbState = "inconsistent"
  <1>1. ASSUME StoreInv, [Next]_vars PROVE Kept \/ UNCHANGED vars
    <2> USE DEF session, batches, disk
    <2>1. undo' = undo => Kept
      OBVIOUS
    <2>2. ASSUME NEW b \in Block, ConnectBlock(b) PROVE Kept
      <3>1. Best \in Nat /\ Heights \subseteq Nat /\ Keep \in Nat
        BY BestFacts, HeightsBounded DEF IndexStoreConstants
      <3>2. undo' = Cleaned(Best + 1)
        BY <2>2 DEF ConnectBlock
      <3>3. ASSUME NEW g \in Heights, undo[g] # NoRow, undo'[g] = NoRow
            PROVE  g <= (Best + 1) - Keep
        <4>1. Cleaned(Best + 1)[g] = NoRow
          BY <3>2, <3>3
        <4> QED BY <4>1, <3>3, CleanedBelow
      <3> SUFFICES ASSUME NEW g \in Heights, undo[g] # NoRow, undo'[g] = NoRow
                   PROVE  g + Keep <= Best + 1
        OBVIOUS
      <3>4. g <= (Best + 1) - Keep
        BY <3>3
      <3>5. g \in Nat
        BY <3>1, SMTT(30)
      <3> HIDE DEF Kept
      <3> QED BY <3>1, <3>4, <3>5
    <2>3. CASE ConnectWrite
      <3>1. cur \in Block /\ NoRow \notin Block
        BY <1>1, <2>3 DEF StoreInv, ConnectWrite, IndexStoreConstants
      <3> QED BY <1>1, <2>3, <3>1 DEF ConnectWrite, StoreInv, TypeOK, Rows
    <2>4. ASSUME NEW lower \in Heights, DisconnectBlockRange(lower) PROVE Kept
      BY <2>4, SMTT(30) DEF DisconnectBlockRange
    <2>5. ASSUME NEW b \in Block, BulkConnectBlock(b) PROVE Kept
      <3>1. BulkStep(b)
        BY <1>1, <2>5, BulkSteps, Zenon DEF StoreInv
      <3> QED BY <1>1, <3>1, Zenon DEF BulkStep, StoreInv, SessionMarked
    <2>6. CASE MainWrite
      BY <2>6 DEF MainWrite
    <2>7. CASE Start \/ Crash \/ Shutdown \/ Refused
      BY <2>7, <2>1 DEF Start, Crash, Shutdown, Refused, vars
    <2>8. CASE LoopStart \/ LoopPack \/ LoopPut \/ BulkWritten \/ Close \/ CloseDone
      BY <2>8, <2>1, SMTT(30) DEF LoopStart, LoopPack, LoopPut, BulkWritten, Close, CloseDone
    <2>9. ASSUME NEW higher \in Heights, InitBulkConnect(higher) PROVE Kept
      BY <2>9, <2>1, ZenonT(30) DEF InitBulkConnect
    <2>10. ASSUME NEW c \in Columns, PendWrite(c) \/ CloseFails(c) PROVE Kept
      BY <2>10, <2>1, Zenon DEF PendWrite, CloseFails
    <2> HIDE DEF Kept
    <2> QED BY <1>1, <2>2, <2>3, <2>4, <2>5, <2>6, <2>7, <2>8, <2>9, <2>10 DEF Next
  <1>2. Spec => []StoreInv
    BY StoreInvariance
  <1>3. StoreInv /\ [Next]_vars => [Kept]_vars
    BY <1>1
  <1> QED BY <1>2, <1>3, PTL DEF Spec, CleanupKeepsNewest

-----------------------------------------------------------------------------
(* The refinement of Index: every step, crashes and failing writes included, is
   a step of Index or leaves what Index sees unchanged *)

\* The rows of the column height, read in order, are a chain whose index is
\* what the other columns are expected to hold.
LEMMA IndexOfChain ==
    ASSUME IndexStoreConstants, NEW n \in Nat, NEW h \in Rows,
           \A g \in Heights : h[g] # NoRow => HeightOf[h[g]] = g /\ g <= n,
           \A g \in 1 .. n : g \in Heights /\ h[g] # NoRow
    PROVE  LET s == [g \in 1 .. n |-> h[g]]
               B == {h[g] : g \in Heights} \ {NoRow}
           IN  /\ s \in Seq(Block) /\ Len(s) = n
               /\ \A i \in 1 .. n : HeightOf[s[i]] = i
               /\ Promise!IndexOf(s) =
                    [rows |-> B, col |-> [c \in Columns |-> [k \in Keys |-> Expected(B, c, k)]]]
  <1> DEFINE s == [g \in 1 .. n |-> h[g]]
             B == {h[g] : g \in Heights} \ {NoRow}
  <1>1. \A g \in 1 .. n : h[g] \in Block /\ HeightOf[h[g]] = g
    BY DEF Rows
  <1>2. s \in Seq(Block) /\ Len(s) = n
    BY <1>1
  <1>3. \A i \in 1 .. n : s[i] = h[i]
    OBVIOUS
  <1>4. {s[i] : i \in 1 .. Len(s)} = B
    <2>1. \A g \in Heights : h[g] # NoRow => g \in 1 .. n
      BY HeightsBounded
    <2> QED BY <1>1, <1>2, <1>3, <2>1
  <1> HIDE DEF s, B
  <1>5. Promise!BlocksOf(s) = B
    BY <1>4 DEF Promise!BlocksOf
  <1>6. Promise!IndexOf(s) =
          [rows |-> B, col |-> [c \in Columns |-> [k \in Keys |-> Expected(B, c, k)]]]
    BY <1>5 DEF Promise!IndexOf, Expected, Columns
  <1> QED BY <1>1, <1>2, <1>3, <1>6, Zenon DEF s, B

\* In a usable database the chain that Index speaks of is the column height,
\* and its content is the index of that chain.
LEMMA UsableIndex ==
    ASSUME IndexStoreConstants, StoreInv, StoreInv'
    PROVE  /\ usable => /\ chain = [g \in 1 .. Best |-> height[g]]
                        /\ chain \in Seq(Block) /\ Len(chain) = Best
                        /\ [rows |-> addrRows, col |-> col] = Promise!IndexOf(chain)
                        /\ \A i \in 1 .. Best : HeightOf[chain[i]] = i /\ chain[i] = height[i]
           /\ usable' => /\ chain' = [g \in 1 .. Best' |-> height'[g]]
                         /\ chain' \in Seq(Block) /\ Len(chain') = Best'
                         /\ [rows |-> addrRows', col |-> col'] = Promise!IndexOf(chain')
                         /\ \A i \in 1 .. Best' : HeightOf[chain'[i]] = i /\ chain'[i] = height'[i]
  <1>1. ASSUME usable
        PROVE  /\ chain = [g \in 1 .. Best |-> height[g]]
               /\ chain \in Seq(Block) /\ Len(chain) = Best
               /\ [rows |-> addrRows, col |-> col] = Promise!IndexOf(chain)
               /\ \A i \in 1 .. Best : HeightOf[chain[i]] = i /\ chain[i] = height[i]
    <2>1. Exact /\ height \in Rows /\ col \in [Columns -> [Keys -> Counts]]
      BY <1>1 DEF StoreInv, Modes, SessionMarked, TypeOK, usable
    <2>2. chain = [g \in 1 .. Best |-> height[g]]
      BY <1>1 DEF chain, usable
    <2>3. /\ \A g \in Heights : height[g] # NoRow => HeightOf[height[g]] = g /\ g <= Best
          /\ \A g \in 1 .. Best : g \in Heights /\ height[g] # NoRow
          /\ Best \in Nat
      BY <2>1, BestFacts DEF Exact
    <2>4. col = [c \in Columns |-> [k \in Keys |-> Expected(Indexed, c, k)]]
      BY <2>1 DEF Exact
    <2>5. addrRows = Indexed
      BY <2>1 DEF Exact
    <2>6. \A i \in 1 .. Best : chain[i] = height[i]
      BY <2>2
    <2> QED BY <2>1, <2>2, <2>3, <2>4, <2>5, <2>6, IndexOfChain, ZenonT(30) DEF Indexed
  <1>2. ASSUME usable'
        PROVE  /\ chain' = [g \in 1 .. Best' |-> height'[g]]
               /\ chain' \in Seq(Block) /\ Len(chain') = Best'
               /\ [rows |-> addrRows', col |-> col'] = Promise!IndexOf(chain')
               /\ \A i \in 1 .. Best' : HeightOf[chain'[i]] = i /\ chain'[i] = height'[i]
    <2>1. Exact' /\ height' \in Rows /\ col' \in [Columns -> [Keys -> Counts]]
      BY <1>2 DEF StoreInv, Modes, SessionMarked, TypeOK, usable
    <2>2. chain' = [g \in 1 .. Best' |-> height'[g]]
      BY <1>2 DEF chain, usable
    <2>3. /\ \A g \in Heights : height'[g] # NoRow => HeightOf[height'[g]] = g /\ g <= Best'
          /\ \A g \in 1 .. Best' : g \in Heights /\ height'[g] # NoRow
          /\ Best' \in Nat
      BY <2>1, BestFacts DEF Exact
    <2>4. col' = [c \in Columns |-> [k \in Keys |-> Expected(Indexed', c, k)]]
      <3>1. \A c \in Columns, k \in Keys : col'[c][k] = Expected(Indexed', c, k)
        BY <2>1 DEF Exact, Expected
      <3> QED BY <2>1, <3>1
    <2>5. addrRows' = Indexed'
      BY <2>1 DEF Exact
    <2>6. \A i \in 1 .. Best' : chain'[i] = height'[i]
      BY <2>2
    <2> QED BY <2>1, <2>2, <2>3, <2>4, <2>5, <2>6, IndexOfChain, ZenonT(30) DEF Indexed
  <1> QED BY <1>1, <1>2

\* A step that Index does not see.
LEMMA StutterStep ==
    ASSUME UNCHANGED lost, usable' = usable,
           usable => UNCHANGED <<height, addrRows, col>>,
           ~usable /\ ~lost => UNCHANGED lo /\ \A g \in 1 .. (lo - 1) : height'[g] = height[g]
    PROVE  UNCHANGED Promise!vars
  <1>1. status' = status
    BY DEF status
  <1>2. CASE lost
    BY <1>1, <1>2 DEF chain, usable, Promise!vars
  <1>3. CASE ~lost /\ usable
    <2>1. Best' = Best
      BY <1>3 DEF Best
    <2>2. chain' = chain
      BY <1>3, <2>1 DEF chain
    <2> QED BY <1>1, <1>3, <2>2 DEF Promise!vars
  <1>4. CASE ~lost /\ ~usable
    <2>1. chain' = chain
      BY <1>4 DEF chain
    <2> QED BY <1>1, <1>4, <2>1 DEF Promise!vars
  <1> QED BY <1>2, <1>3, <1>4 DEF usable

\* A bulk session starts: the usable database becomes one that is loading the
\* blocks above its chain.  The same when a process dies that could not store
\* that its session had ended.
LEMMA BeginBulkStep ==
    ASSUME usable, ~lost', ~usable', UNCHANGED height, lo' = Best + 1, Best \in Nat
    PROVE  Promise!BeginBulk
  <1>1. ~lost
    BY DEF usable
  <1>2. chain' = chain
    BY <1>1 DEF chain
  <1>3. status = "usable" /\ status' = "loading"
    BY <1>1 DEF status
  <1> QED BY <1>2, <1>3 DEF Promise!BeginBulk

\* A session loses data.
LEMMA LoseStep ==
    ASSUME ~lost, ~usable, lost'
    PROVE  Promise!Lose
  <1>1. status = "loading" /\ status' = "lost" /\ ~usable'
    BY DEF status, usable
  <1>2. chain' = <<>>
    BY DEF chain
  <1> QED BY <1>1, <1>2 DEF Promise!Lose

\* A sequence one longer, with the same start, is the sequence with an element
\* appended.
LEMMA OneLonger ==
    ASSUME NEW S, NEW s \in Seq(S), NEW t \in Seq(S), NEW e \in S,
           Len(t) = Len(s) + 1, t[Len(s) + 1] = e, \A i \in 1 .. Len(s) : t[i] = s[i]
    PROVE  t = Append(s, e)
  <1>1. Append(s, e) \in Seq(S) /\ Len(Append(s, e)) = Len(t)
    OBVIOUS
  <1>2. \A i \in 1 .. Len(t) : Append(s, e)[i] = t[i]
    OBVIOUS
  <1> QED BY <1>1, <1>2

\* The write of RocksDB.ConnectBlock is a Connect of Index.
LEMMA ConnectStep ==
    ASSUME IndexStoreConstants, StoreInv, StoreInv', ~lost, UNCHANGED <<dbState, memState, lost>>,
           pc = "connect", height' = PutHeights({cur}), addrRows' = addrRows \union {cur},
           col' = [c \in Columns |-> Stored(cache, c)],
           undo' = [undo EXCEPT ![HeightOf[cur]] = cur]
    PROVE  cur \in Block /\ Promise!Connect(cur)
  <1>1. cur \in Block /\ Exact /\ ConnectReady /\ TypeOK /\ memState = "open"
    BY DEF StoreInv, Modes, SessionMarked
  <1>2. /\ HeightOf[cur] = Best + 1 /\ Best' = Best + 1 /\ height'[Best'] = cur
        /\ \A g \in 1 .. Best : height'[g] = height[g]
        /\ Best \in Nat
    BY <1>1, ConnectWriteExact, BestFacts, Zenon DEF ConnectReady
  <1>3. usable /\ usable' /\ status = "usable" /\ status' = "usable"
    BY <1>1 DEF usable, status
  <1>4. /\ chain \in Seq(Block) /\ Len(chain) = Best /\ \A g \in 1 .. Best : chain[g] = height[g]
        /\ chain' \in Seq(Block) /\ Len(chain') = Best + 1
        /\ \A g \in 1 .. (Best + 1) : chain'[g] = height'[g]
        /\ [rows |-> addrRows', col |-> col'] = Promise!IndexOf(chain')
    BY <1>2, <1>3, UsableIndex, Zenon
  <1>5. chain' = Append(chain, cur)
    <2>1. Best + 1 \in 1 .. (Best + 1) /\ \A g \in 1 .. Best : g \in 1 .. (Best + 1)
      BY <1>2
    <2>2. chain'[Best + 1] = cur
      BY <1>2, <1>4, <2>1, Zenon
    <2>3. \A g \in 1 .. Best : chain'[g] = chain[g]
      BY <1>2, <1>4, <2>1, ZenonT(30)
    <2> QED BY <1>1, <1>4, <2>2, <2>3, OneLonger
  <1> QED BY <1>1, <1>2, <1>3, <1>4, <1>5 DEF Promise!Connect

\* Disconnecting a range of blocks is a Disconnect of Index.
LEMMA DisconnectStep ==
    ASSUME IndexStoreConstants, StoreInv, StoreInv', ~lost,
           NEW lower \in Heights, DisconnectBlockRange(lower)
    PROVE  \E n \in 0 .. Len(chain) : Promise!Disconnect(n)
  <1>1. Exact /\ TypeOK /\ memState = "open" /\ UNCHANGED <<dbState, memState, lost>>
    BY Zenon DEF StoreInv, Modes, SessionMarked, DisconnectBlockRange, session
  <1>2. /\ Best' = lower - 1 /\ lower <= Best /\ lower \in Nat \ {0} /\ Best \in Nat
        /\ \A g \in 1 .. (lower - 1) : height'[g] = height[g]
    BY <1>1, DisconnectExact, HeightsBounded, BestFacts DEF DisconnectBlockRange
  <1>3. usable /\ usable' /\ status = "usable" /\ status' = "usable"
    BY <1>1, Zenon DEF usable, status
  <1>4. /\ chain \in Seq(Block) /\ Len(chain) = Best /\ chain = [g \in 1 .. Best |-> height[g]]
        /\ chain' = [g \in 1 .. (lower - 1) |-> height'[g]]
        /\ [rows |-> addrRows', col |-> col'] = Promise!IndexOf(chain')
    BY <1>2, <1>3, UsableIndex
  <1>5. chain' = SubSeq(chain, 1, lower - 1)
    BY <1>2, <1>4
  <1>6. Promise!Disconnect(lower - 1)
    BY <1>2, <1>3, <1>4, <1>5 DEF Promise!Disconnect
  <1> QED BY <1>2, <1>4, <1>6

\* The end of Close is an EndBulk of Index.
LEMMA EndBulkStep ==
    ASSUME IndexStoreConstants, StoreInv, StoreInv', ~lost, CloseDone
    PROVE  Promise!EndBulk
  <1>1. /\ memState = "inconsistent" /\ dbState = "inconsistent" /\ SessionExact
        /\ memState' = "open" /\ UNCHANGED <<height, lost, lo>>
    BY DEF StoreInv, Modes, SessionMarked, CloseDone
  <1>2. ~usable /\ usable' /\ status = "loading" /\ status' = "usable"
    BY <1>1 DEF usable, status
  <1>3. /\ chain = [g \in 1 .. (lo - 1) |-> height[g]]
        /\ Best' = Best /\ Best \in Nat /\ lo \in 1 .. (Best + 1)
    BY <1>1, <1>2, BestFacts DEF chain, Best, SessionExact
  <1>4. /\ chain' = [g \in 1 .. Best |-> height[g]] /\ Len(chain') = Best
        /\ [rows |-> addrRows', col |-> col'] = Promise!IndexOf(chain')
        /\ \A i \in 1 .. Best : HeightOf[chain'[i]] = i
    BY <1>1, <1>2, <1>3, UsableIndex
  <1>5. Len(chain) = lo - 1
    BY <1>3
  <1>6. \A i \in 1 .. Len(chain) : chain'[i] = chain[i]
    BY <1>3, <1>4, <1>5
  <1> QED BY <1>2, <1>3, <1>4, <1>5, <1>6 DEF Promise!EndBulk

\* The writer's batch of a load is not seen by Index: the blocks it puts on the disk are
\* above the ones that were there when the load began.
LEMMA MainWriteStep ==
    ASSUME IndexStoreConstants, StoreInv, MainWrite, ~lost, ~lost'
    PROVE  UNCHANGED Promise!vars
  <1>1. /\ UNCHANGED <<dbState, memState, lost, lo>> /\ height' = PutHeights(mainRows)
        /\ pc \in {"bulkwrite", "closing"} /\ mainRows \in SUBSET Held /\ Held \subseteq Block
    BY ZenonT(30) DEF MainWrite, StoreInv, BatchesInSession, Held, TypeOK, session, batches
  <1>2. memState = "inconsistent" /\ dbState = "inconsistent" /\ SessionExact
    BY <1>1 DEF StoreInv, Modes, SessionMarked
  <1>3. ~usable /\ ~usable' /\ usable' = usable
    BY <1>1, <1>2, Zenon DEF usable
  <1>4. /\ Best \in Nat /\ lo \in 1 .. (Best + 1)
        /\ \A g \in 1 .. Best : g \in Heights
        /\ \A b \in Held : Best < HeightOf[b]
    BY <1>2, BestFacts, Zenon DEF SessionExact
  <1>5. \A b \in Block : HeightOf[b] \in Nat
    BY DEF IndexStoreConstants
  <1>6. ASSUME NEW g \in 1 .. (lo - 1) PROVE height'[g] = height[g]
    <2>1. g \in 1 .. Best
      BY <1>4
    <2>2. \A n \in Nat : Best < n => n # g
      BY <1>4, <2>1
    <2>3. \A b \in mainRows : HeightOf[b] # g
      BY <1>1, <1>4, <1>5, <2>2, Zenon
    <2>4. g \in Heights
      BY <1>4, <2>1, Zenon
    <2> QED BY <1>1, <2>3, <2>4 DEF PutHeights
  <1> QED BY <1>1, <1>3, <1>6, StutterStep, Zenon

\* Every step of the database is a step of Index or one that Index does not see.
LEMMA PromiseStep ==
    ASSUME IndexStoreConstants, StoreInv, StoreInv', [Next]_vars
    PROVE  Promise!Next \/ UNCHANGED Promise!vars
  <1> USE DEF session, batches, disk
  <1>s. ASSUME UNCHANGED <<lost, lo, height, addrRows, col>>, usable' = usable
        PROVE  UNCHANGED Promise!vars
    BY <1>s, StutterStep
  <1>l. ASSUME lost, lost' PROVE UNCHANGED Promise!vars
    BY <1>l, StutterStep DEF usable
  <1>1. CASE Start
    <2>1. usable' = usable
      BY <1>1 DEF Start, usable
    <2> QED BY <1>1, <2>1, <1>s DEF Start
  <1>2. CASE Crash
    <2>1. lost' = lost /\ UNCHANGED <<dbState, height, addrRows, col>> /\ memState' = "closed"
      BY <1>2 DEF Crash, ProcessGone
    <2>2. CASE ~lost /\ usable /\ usable'
      <3>1. usable' = usable
        BY <2>2
      <3> QED BY <2>1, <2>2, <3>1, StutterStep
    <2>3. CASE ~lost /\ usable /\ ~usable'
      <3>1. memState # "inconsistent"
        BY <2>3 DEF StoreInv, Modes, SessionMarked, TypeOK, usable
      <3>2. lo' = Best + 1 /\ Best \in Nat
        BY <1>2, <3>1, BestFacts DEF Crash, ProcessGone
      <3> QED BY <2>1, <2>3, <3>2, BeginBulkStep DEF Promise!Next
    <2>4. CASE ~lost /\ ~usable
      <3>1. dbState = "inconsistent" /\ memState # "open"
        BY <2>4 DEF usable
      <3>2. memState = "inconsistent"
        BY <1>2, <2>4, <3>1 DEF Crash, StoreInv, Modes, SessionMarked, TypeOK
      <3>3. lo' = lo
        BY <1>2, <3>2 DEF Crash, ProcessGone
      <3>4. usable' = usable
        BY <2>1, <2>4, <3>1 DEF usable
      <3> QED BY <2>1, <3>3, <3>4, <1>s
    <2> QED BY <2>1, <2>2, <2>3, <2>4, <1>l
  <1>3. CASE Shutdown
    <2>1. lost' = lost /\ UNCHANGED <<height, addrRows, col>>
      BY <1>3 DEF Shutdown, ProcessGone
    <2>2. CASE ~lost
      <3>1. memState = "open"
        BY <1>3, <2>2 DEF Shutdown, StoreInv, Modes, SessionMarked
      <3>2. usable /\ usable'
        BY <1>3, <2>1, <2>2, <3>1 DEF Shutdown, usable
      <3>3. usable' = usable
        BY <3>2
      <3> QED BY <2>1, <3>2, <3>3, StutterStep
    <2> QED BY <2>1, <2>2, <1>l
  <1>4. CASE Refused \/ UNCHANGED vars
    <2>1. usable' = usable
      BY <1>4 DEF Refused, vars, usable
    <2> QED BY <1>4, <2>1, <1>s DEF Refused, vars
  <1>5. CASE LoopStart \/ LoopPack
    <2>1. usable' = usable
      BY <1>5 DEF LoopStart, LoopPack, usable
    <2> QED BY <1>5, <2>1, <1>s DEF LoopStart, LoopPack
  <1>6. CASE LoopPut
    <2>1. usable' = usable
      BY <1>6 DEF LoopPut, StoreInv, Modes, SessionMarked, usable
    <2> QED BY <1>6, <2>1, <1>s DEF LoopPut
  <1>7. ASSUME NEW b \in Block, ConnectBlock(b) PROVE UNCHANGED Promise!vars
    <2>1. usable' = usable
      BY <1>7 DEF ConnectBlock, usable
    <2> QED BY <1>7, <2>1, <1>s DEF ConnectBlock
  <1>8. CASE ConnectWrite
    <2>1. pc = "connect" /\ UNCHANGED <<dbState, memState, lost, lo>>
      BY <1>8 DEF ConnectWrite
    <2>2. CASE UNCHANGED <<height, addrRows, col, undo>>
      <3>1. usable' = usable
        BY <2>1 DEF usable
      <3> QED BY <2>1, <2>2, <3>1, <1>s
    <2>3. CASE /\ height' = PutHeights({cur})
               /\ addrRows' = addrRows \union {cur}
               /\ col' = [c \in Columns |-> Stored(cache, c)]
               /\ undo' = [undo EXCEPT ![HeightOf[cur]] = cur]
               /\ ~lost
      <3>1. cur \in Block /\ Promise!Connect(cur)
        BY <2>1, <2>3, ConnectStep
      <3> QED BY <3>1 DEF Promise!Next
    <2> QED BY <1>8, <2>1, <2>2, <2>3, <1>l DEF ConnectWrite
  <1>9. ASSUME NEW lower \in Heights, DisconnectBlockRange(lower)
        PROVE  Promise!Next \/ UNCHANGED Promise!vars
    <2>1. CASE ~lost
      BY <1>9, <2>1, DisconnectStep DEF Promise!Next
    <2>2. CASE lost
      BY <1>9, <2>2, <1>l DEF DisconnectBlockRange
    <2> QED BY <2>1, <2>2
  <1>10. ASSUME NEW higher \in Heights, InitBulkConnect(higher)
         PROVE  Promise!Next \/ UNCHANGED Promise!vars
    <2>1. CASE ~lost
      <3>1. memState = "open" /\ usable
        BY <1>10, <2>1 DEF InitBulkConnect, StoreInv, Modes, SessionMarked, usable
      <3>2. ~usable' /\ ~lost' /\ lo' = Best + 1 /\ height' = height /\ Best \in Nat
        BY <1>10, <2>1, BestFacts DEF InitBulkConnect, usable
      <3> QED BY <3>1, <3>2, BeginBulkStep DEF Promise!Next
    <2>2. CASE lost
      BY <1>10, <2>2, <1>l DEF InitBulkConnect
    <2> QED BY <2>1, <2>2
  <1>11. ASSUME NEW b \in Block, BulkConnectBlock(b) PROVE UNCHANGED Promise!vars
    <2>1. BulkStep(b)
      BY <1>11, BulkSteps DEF StoreInv
    <2>2. usable' = usable
      BY <2>1, Zenon DEF BulkStep, usable
    <2> QED BY <2>1, <2>2, <1>s, Zenon DEF BulkStep
  <1>12. CASE MainWrite
    <2>1. CASE ~lost /\ ~lost'
      BY <1>12, <2>1, MainWriteStep, Zenon
    <2>2. CASE ~lost /\ lost'
      <3>1. ~usable
        BY <1>12, <2>2 DEF MainWrite, StoreInv, BatchesInSession, Modes, SessionMarked, usable
      <3> QED BY <2>2, <3>1, LoseStep, SMTT(30) DEF Promise!Next
    <2>3. lost => lost'
      BY <1>12, Zenon DEF MainWrite
    <2> QED BY <2>1, <2>2, <2>3, <1>l
  <1>13. ASSUME NEW c \in Columns, PendWrite(c) PROVE UNCHANGED Promise!vars
    <2>1. CASE ~lost
      <3>1. /\ UNCHANGED <<dbState, memState, lost, lo, height>>
            /\ memState = "inconsistent" /\ dbState = "inconsistent"
        BY <1>13, <2>1 DEF PendWrite, StoreInv, BatchesInSession, Modes, SessionMarked
      <3>2. ~usable /\ ~usable'
        BY <3>1 DEF usable
      <3>3. usable' = usable
        BY <3>2 DEF usable
      <3> QED BY <3>1, <3>2, <3>3, StutterStep, Zenon
    <2>2. CASE lost
      BY <1>13, <2>2, <1>l DEF PendWrite
    <2> QED BY <2>1, <2>2
  <1>14. CASE BulkWritten \/ Close
    <2>1. usable' = usable
      BY <1>14 DEF BulkWritten, Close, usable
    <2> QED BY <1>14, <2>1, <1>s DEF BulkWritten, Close
  <1>15. ASSUME NEW c \in Columns, CloseFails(c)
         PROVE  Promise!Next \/ UNCHANGED Promise!vars
    <2>1. CASE ~lost
      <3>1. ~usable /\ lost'
        BY <1>15, <2>1 DEF CloseFails, StoreInv, Modes, SessionMarked, usable
      <3> QED BY <2>1, <3>1, LoseStep DEF Promise!Next
    <2>2. CASE lost
      BY <1>15, <2>2, <1>l DEF CloseFails
    <2> QED BY <2>1, <2>2
  <1>16. CASE CloseDone
    <2>1. CASE ~lost
      BY <1>16, <2>1, EndBulkStep, ZenonT(30) DEF Promise!Next
    <2>2. CASE lost
      BY <1>16, <2>2, <1>l DEF CloseDone
    <2> QED BY <2>1, <2>2
  <1> QED
    BY <1>1, <1>2, <1>3, <1>4, <1>5, <1>6, <1>7, <1>8, <1>9, <1>10, <1>11, <1>12,
       <1>13, <1>14, <1>15, <1>16 DEF Next

\* The empty database is the empty index.
LEMMA PromiseInit == IndexStoreConstants /\ Init => Promise!Init
  <1> SUFFICES ASSUME IndexStoreConstants, Init PROVE Promise!Init
    OBVIOUS
  <1>1. usable /\ status = "usable"
    BY DEF Init, usable, status
  <1>2. Best = 0 /\ chain = <<>>
    <2>1. Best = 0
      BY BestFacts, SMTT(30) DEF Init
    <2> QED BY <2>1 DEF chain, Init, usable
  <1>3. [rows |-> addrRows, col |-> col] = Promise!IndexOf(<<>>)
    <2>1. Promise!BlocksOf(<<>>) = {}
      BY DEF Promise!BlocksOf
    <2>2. Promise!IndexOf(<<>>) =
            [rows |-> {}, col |-> [c \in Columns |-> [k \in Keys |-> [b \in Block |-> 0]]]]
      BY <2>1, Zenon DEF Promise!IndexOf, Columns
    <2> QED BY <2>2, Zenon DEF Init
  <1> QED BY <1>1, <1>2, <1>3 DEF Promise!Init

\* The database, crashes and failing writes included, implements the index
\* that Index promises: one chain that grows by a block, is cut at its end, or
\* goes through a load during which nothing else is promised.
THEOREM ImplementsIndex == Spec => Implements
  <1> SUFFICES ASSUME IndexStoreConstants PROVE Spec => Implements
    BY StoreAssumption
  <1>1. Init => Promise!Init
    BY PromiseInit
  <1>2. StoreInv /\ StoreInv' /\ [Next]_vars => [Promise!Next]_(Promise!vars)
    BY PromiseStep
  <1>3. Spec => []StoreInv
    BY StoreInvariance
  <1> QED BY <1>1, <1>2, <1>3, PTL DEF Spec, Implements, Promise!Spec
=============================================================================
