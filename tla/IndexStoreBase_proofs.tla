------------------------ MODULE IndexStoreBase_proofs ------------------------
(***************************************************************************)
(* First part of the proofs about the database: what its operators return, *)
(* that rows, batches and maps are of the types they should be of, and     *)
(* what connecting and disconnecting blocks does to an index that is       *)
(* exact, outside a bulk session (Exact) and in one (SessionExact).        *)
(***************************************************************************)
EXTENDS IndexStore, WellFoundedInduction, TLAPS

-----------------------------------------------------------------------------
(* The best height *)

\* The order of the integers, for the provers that do no arithmetic.
LEMMA Order ==
    /\ Nat \subseteq Int
    /\ \A x, y \in Int : x <= y /\ y <= x => x = y
    /\ \A x, y, z \in Int : x <= y /\ y <= z => x <= z
  OBVIOUS

\* A set of naturals that is not empty has a least element.
LEMMA LeastElement ==
    ASSUME NEW T \in SUBSET Nat, T # {}
    PROVE  \E x \in T : \A y \in T : x <= y
  <1> DEFINE R == OpToRel(<, Nat)
  <1>1. \A x, y \in Nat : <<y, x>> \in R <=> y < x
    BY DEF OpToRel
  <1>2. IsWellFoundedOn(R, Nat)
    BY NatLessThanWellFounded, Zenon
  <1>3. \E x \in T : \A y \in T : <<y, x>> \notin R
    <2>1. T \subseteq Nat
      OBVIOUS
    <2> HIDE DEF R
    <2> QED BY <1>2, <2>1, WFMin, Zenon
  <1>4. PICK x \in T : \A y \in T : <<y, x>> \notin R
    BY <1>3, Zenon
  <1> HIDE DEF R
  <1>5. \A y \in T : ~(y < x)
    BY <1>1, <1>4, Zenon
  <1> QED BY <1>5

\* The elements of a sequence of naturals have an upper bound: the shortest part without
\* one would lose its last element and still have none.
LEMMA SequenceIsBounded ==
    ASSUME NEW s \in Seq(Nat)
    PROVE  \E n \in Nat : \A i \in 1 .. Len(s) : s[i] <= n
  <1> DEFINE Bounded(k) == \E n \in Nat : \A i \in 1 .. k : s[i] <= n
             T == {k \in 0 .. Len(s) : ~Bounded(k)}
  <1>1. Len(s) \in Nat /\ \A i \in 1 .. Len(s) : s[i] \in Nat
    OBVIOUS
  <1>2. \A k : k \in T <=> k \in 0 .. Len(s) /\ ~Bounded(k)
    OBVIOUS
  <1>3. T \in SUBSET Nat
    BY <1>1
  <1>4. Bounded(0)
    OBVIOUS
  <1>5. ASSUME NEW k \in 1 .. Len(s), Bounded(k - 1) PROVE Bounded(k)
    <2>1. PICK n \in Nat : \A i \in 1 .. (k - 1) : s[i] <= n
      BY <1>5, Zenon
    <2>2. n + s[k] \in Nat
      BY <1>1
    <2>3. \A i \in 1 .. k : s[i] <= n + s[k]
      <3> TAKE i \in 1 .. k
      <3>1. s[i] \in Nat /\ s[k] \in Nat /\ (i = k \/ i \in 1 .. (k - 1))
        BY <1>1
      <3> QED BY <2>1, <3>1
    <2> QED BY <2>2, <2>3, Zenon
  <1> HIDE DEF T, Bounded
  <1>6. T = {}
    <2> SUFFICES ASSUME T # {} PROVE FALSE
      OBVIOUS
    <2>1. PICK k \in T : \A j \in T : k <= j
      BY <1>3, LeastElement, Zenon
    <2>2. k \in 0 .. Len(s) /\ ~Bounded(k)
      BY <1>2, <2>1
    <2>3. k \in 1 .. Len(s) /\ k - 1 \in 0 .. Len(s) /\ ~(k <= k - 1)
      BY <1>1, <1>4, <2>2
    <2>4. Bounded(k - 1)
      BY <1>2, <2>1, <2>3, Zenon
    <2> QED BY <1>5, <2>2, <2>3, <2>4
  <1>7. Bounded(Len(s))
    BY <1>1, <1>2, <1>6
  <1> QED BY <1>7, Zenon DEF Bounded

-----------------------------------------------------------------------------
\* Heights are naturals other than 0, and as there are finitely many blocks there is
\* a last one.
LEMMA HeightsBounded ==
    ASSUME IndexStoreConstants
    PROVE  Heights \subseteq Nat \ {0} /\ \E n \in Nat : \A g \in Heights : g <= n
  <1>1. HeightOf \in [Block -> Nat \ {0}] /\ IsFiniteSet(Block)
    BY DEF IndexStoreConstants
  <1>2. Heights \subseteq Nat \ {0}
    BY <1>1 DEF Heights
  <1>3. PICK s \in Seq(Block) : \A b \in Block : \E i \in 1 .. Len(s) : s[i] = b
    BY <1>1 DEF IsFiniteSet
  <1> DEFINE t == [i \in 1 .. Len(s) |-> HeightOf[s[i]]]
  <1>4. t \in Seq(Nat) /\ Len(t) = Len(s) /\ \A i \in 1 .. Len(s) : t[i] = HeightOf[s[i]]
    BY <1>1
  <1> HIDE DEF t
  <1>5. PICK n \in Nat : \A i \in 1 .. Len(t) : t[i] <= n
    BY <1>4, SequenceIsBounded, Zenon
  <1>6. \A g \in Heights : g <= n
    BY <1>3, <1>4, <1>5 DEF Heights
  <1> QED BY <1>2, <1>6

\* What GetBestBlock returns: 0 or the last height that has a row.
LEMMA MaxHeightOf ==
    ASSUME IndexStoreConstants, NEW f
    PROVE  LET known == {0} \union {g \in Heights : f[g] # NoRow}
               best == CHOOSE g \in known : \A x \in known : g >= x
           IN  /\ best \in Nat
               /\ best = 0 \/ (best \in Heights /\ f[best] # NoRow)
               /\ \A g \in Heights : f[g] # NoRow => g <= best
  <1> DEFINE S == {0} \union {g \in Heights : f[g] # NoRow}
             T == {n \in Nat : \A x \in S : x <= n}
  <1>1. S \in SUBSET Nat
    BY HeightsBounded
  <1>2. T # {}
    BY HeightsBounded
  <1>3. PICK m \in T : \A n \in T : m <= n
    BY <1>2, LeastElement, Zenon
  <1>4. m \in S
    <2>1. SUFFICES ASSUME m \notin S PROVE FALSE
      OBVIOUS
    <2>2. m > 0 /\ \A x \in S : x <= m - 1
      BY <1>1, <1>3, <2>1
    <2>3. m - 1 \in T
      BY <2>2
    <2> QED BY <1>3, <2>3
  <1>5. \E x \in S : \A y \in S : x >= y
    BY <1>1, <1>3, <1>4
  <1> DEFINE best == CHOOSE g \in S : \A x \in S : g >= x
  <1>6. best \in S /\ \A y \in S : best >= y
    BY <1>5, Zenon
  <1> QED BY <1>1, <1>6

\* The same of the state before and after a step.
LEMMA BestFacts ==
    ASSUME IndexStoreConstants
    PROVE  /\ Best \in Nat
           /\ Best = 0 \/ (Best \in Heights /\ height[Best] # NoRow)
           /\ \A g \in Heights : height[g] # NoRow => g <= Best
           /\ Best' \in Nat
           /\ Best' = 0 \/ (Best' \in Heights /\ height'[Best'] # NoRow)
           /\ \A g \in Heights : height'[g] # NoRow => g <= Best'
  BY MaxHeightOf DEF Best

-----------------------------------------------------------------------------
(* What writing and deleting rows does *)

\* An exact index stays exact when at most undo data is deleted.
LEMMA ExactKept ==
    ASSUME Exact, UNCHANGED <<height, addrRows, col>>,
           \A g \in Heights : undo'[g] = NoRow \/ undo'[g] = undo[g]
    PROVE  Exact'
  <1>1. Best' = Best /\ Indexed' = Indexed
    BY DEF Best, Indexed
  <1> QED BY <1>1 DEF Exact, Expected

\* cleanupBlockTxs only deletes.
LEMMA CleanedOnly ==
    ASSUME NEW h, NEW g \in Heights
    PROVE  Cleaned(h)[g] = NoRow \/ Cleaned(h)[g] = undo[g]
  BY DEF Cleaned

\* ... and only undo data that is Keep heights old.
LEMMA CleanedBelow ==
    ASSUME NEW h, NEW g \in Heights, undo[g] # NoRow, Cleaned(h)[g] = NoRow
    PROVE  g <= h - Keep
  BY DEF Cleaned

\* The rows of blocks with different heights all get to their heights.
LEMMA PutHeightsAt ==
    ASSUME NEW B \in SUBSET Block,
           \A b, d \in B : HeightOf[b] = HeightOf[d] => b = d
    PROVE  /\ \A b \in B : PutHeights(B)[HeightOf[b]] = b
           /\ \A g \in Heights : (\A b \in B : HeightOf[b] # g) => PutHeights(B)[g] = height[g]
  <1>1. \A b \in B : HeightOf[b] \in Heights
    BY DEF Heights
  <1>2. ASSUME NEW b \in B
        PROVE  (CHOOSE d \in B : HeightOf[d] = HeightOf[b]) = b
    OBVIOUS
  <1> QED BY <1>1, <1>2 DEF PutHeights

-----------------------------------------------------------------------------
(* Bulk sessions *)

\* A step that touches nothing of the session.
LEMMA SessionKept ==
    ASSUME SessionExact, UNCHANGED <<height, addrRows, col, undo, cache, bulk, cur, lo,
                                     pend, failed, mainRows, mainUndo>>
    PROVE  SessionExact'
  <1>1. /\ Best' = Best /\ Indexed' = Indexed /\ Held' = Held /\ Last' = Last
        /\ \A c \in Columns, k \in Keys : Merged(c, k)' = Merged(c, k)
    BY DEF Best, Indexed, Held, Last, Merged
  <1> QED BY <1>1 DEF SessionExact, Expected

\* A bulk session starts with everything on disk.
LEMMA SessionStart ==
    ASSUME IndexStoreConstants, Exact, UNCHANGED <<height, addrRows, col, undo>>,
           cur' = NoRow, lo' = Best + 1, cache' = NoBatch, bulk' = {}, mainRows' = {},
           mainUndo' = NoRow, \A c \in Columns, k \in Keys : pend'[c][k] = NoRow
    PROVE  SessionExact'
  <1>1. /\ Best' = Best /\ Indexed' = Indexed /\ Held' = {}
        /\ \A c \in Columns, k \in Keys : Merged(c, k)' = col[c][k]
    BY DEF Best, Indexed, Held, Merged, NoBatch
  <1>2. Last' = Best /\ Best \in Nat
    BY BestFacts DEF Last
  <1>3. \A c \in Columns, k \in Keys : Merged(c, k)' = Expected(Indexed \union Held, c, k)'
    <2>1. Indexed' \union Held' = Indexed
      BY <1>1
    <2>2. \A c \in Columns, k \in Keys : Merged(c, k)' = Expected(Indexed, c, k)
      BY <1>1 DEF Exact
    <2> QED BY <2>1, <2>2 DEF Expected
  <1>4. /\ Best' <= Last' /\ lo' \in 1 .. (Best' + 1)
        /\ \A g \in (Best' + 1) .. Last' : \E b \in Held' : HeightOf[b] = g
    BY <1>1, <1>2
  <1>5. /\ \A g \in Heights : height'[g] # NoRow => HeightOf[height'[g]] = g
        /\ \A g \in 1 .. Best' : g \in Heights /\ height'[g] # NoRow
        /\ addrRows' = Indexed'
        /\ \A g \in Heights : undo'[g] # NoRow => undo'[g] = height'[g]
    BY <1>1 DEF Exact
  <1> QED BY <1>1, <1>3, <1>4, <1>5 DEF SessionExact

\* What BulkConnect.ConnectBlock does with block b, leaving out how it chooses what to
\* store: the block is held in the collected rows or goes with them into the writer's
\* batch, and a count of the maps stays there or goes into the batch of a goroutine.
BulkStep(b) ==
    /\ pc = "bulk" /\ pc' = "bulkwrite" /\ cur' = b /\ HeightOf[b] = Last + 1
    /\ \A c \in Columns : ~pendOn[c]
    /\ UNCHANGED <<dbState, height, addrRows, col, phase, memState, packed, lo, hi, lost>>
    /\ failed' = [c \in Columns |-> FALSE] /\ pendOn' \in [Columns -> BOOLEAN]
    /\ undo' = undo \/ undo' = Cleaned(HeightOf[b])
    /\ \/ bulk' = bulk \union {b} /\ mainRows' = {}
       \/ bulk' = {} /\ mainRows' = bulk \union {b} /\ mainOn' = TRUE
    /\ \/ mainUndo' = NoRow /\ mainOn' \in BOOLEAN
       \/ mainUndo' = b /\ mainOn' = TRUE
    /\ cache' \in Batch /\ pend' \in Batch
    /\ \A c \in Columns, k \in Keys :
         \/ cache'[c][k] = Process(cache, b)[c][k] /\ pend'[c][k] = NoRow
         \/ cache'[c][k] = NoRow /\ pend'[c][k] = Process(cache, b)[c][k] /\ pendOn'[c]

\* BulkConnect.ConnectBlock adds the next block to the blocks held and to the
\* maps, whichever part of the maps it hands to the goroutines.
LEMMA BulkConnectSession ==
    ASSUME IndexStoreConstants, TypeOK, SessionExact, BatchesInSession,
           NEW b \in Block, BulkStep(b)
    PROVE  SessionExact'
  <1> DEFINE m == Process(cache, b)
  <1>1. /\ mainRows = {} /\ mainUndo = NoRow /\ Held = bulk
        /\ \A c \in Columns : ~failed[c] /\ ~failed'[c]
        /\ \A c \in Columns, k \in Keys : pend[c][k] = NoRow
    BY DEF BatchesInSession, BulkStep, Held
  <1>2. Held' = bulk \union {b} /\ (mainUndo' # NoRow => mainUndo' = b)
    BY DEF BulkStep, Held
  <1>3. Best' = Best /\ Indexed' = Indexed
    BY DEF BulkStep, Best, Indexed
  <1>4. /\ Last' = HeightOf[b] /\ HeightOf[b] = Last + 1 /\ b # NoRow
        /\ Best \in Nat /\ Last \in Nat /\ HeightOf[b] \in Nat /\ Best <= Last
    <2>1. Last' = HeightOf[b] /\ HeightOf[b] = Last + 1 /\ b # NoRow
      BY DEF BulkStep, Last, IndexStoreConstants
    <2>2. Best \in Nat /\ HeightOf[b] \in Nat
      BY BestFacts DEF IndexStoreConstants
    <2>3. Last \in Int
      BY DEF Last, TypeOK, IndexStoreConstants
    <2>4. Best <= Last
      BY DEF SessionExact
    <2> QED BY <2>1, <2>2, <2>3, <2>4
  <1>5. /\ \A d \in Indexed : HeightOf[d] \in Nat /\ HeightOf[d] <= Best
        /\ \A d \in Held : HeightOf[d] \in Nat /\ Best < HeightOf[d] /\ HeightOf[d] <= Last
    <2>1. \A g \in Heights : height[g] # NoRow => HeightOf[height[g]] = g /\ g <= Best /\ g \in Nat
      BY BestFacts, HeightsBounded DEF SessionExact
    <2>2. Held \subseteq Block
      BY DEF Held, TypeOK
    <2> QED BY <2>1, <2>2 DEF SessionExact, Indexed, IndexStoreConstants
  <1>6. b \notin Indexed /\ b \notin Held
    BY <1>4, <1>5
  <1>7. ASSUME NEW c \in Columns, NEW k \in Keys
        PROVE  Merged(c, k)' = Expected(Indexed \union (Held \union {b}), c, k)
    <2> DEFINE old == IF cache[c][k] = NoRow THEN col[c][k] ELSE cache[c][k]
               e == [old EXCEPT ![b] = @ + 1]
    <2>1. old = Expected(Indexed \union Held, c, k)
      BY <1>1 DEF SessionExact, Merged
    <2>2. old \in Counts /\ e \in Counts /\ NoRow \notin Counts
      BY DEF TypeOK, Batch, Counts, IndexStoreConstants
    <2>3. m[c][k] = IF k \in Touch[c][b] THEN e ELSE cache[c][k]
      BY DEF Process
    <2>4. Merged(c, k)' = IF m[c][k] # NoRow THEN m[c][k] ELSE col[c][k]
      <3>1. \/ cache'[c][k] = m[c][k] /\ pend'[c][k] = NoRow
            \/ cache'[c][k] = NoRow /\ pend'[c][k] = m[c][k]
        BY DEF BulkStep
      <3>2. col' = col
        BY DEF BulkStep
      <3> HIDE DEF m
      <3> QED BY <3>1, <3>2 DEF Merged
    <2>5. Merged(c, k)' = IF k \in Touch[c][b] THEN e ELSE old
      BY <2>2, <2>3, <2>4
    <2>6. CASE k \in Touch[c][b]
      BY <1>6, <2>1, <2>5, <2>6 DEF Expected
    <2>7. CASE k \notin Touch[c][b]
      BY <1>6, <2>1, <2>5, <2>7 DEF Expected
    <2> QED BY <2>6, <2>7
  <1>8. \A g \in Heights : undo'[g] = NoRow \/ undo'[g] = undo[g]
    BY CleanedOnly DEF BulkStep
  <1>9. UNCHANGED <<height, addrRows>>
    BY DEF BulkStep
  <1>10. \A d \in Held' : Best' < HeightOf[d] /\ HeightOf[d] <= Last'
    BY <1>1, <1>2, <1>3, <1>4, <1>5
  <1>11. \A x, y \in Held' : HeightOf[x] = HeightOf[y] => x = y
    BY <1>1, <1>2, <1>4, <1>5 DEF SessionExact
  <1>12. \A g \in (Best' + 1) .. Last' : \E d \in Held' : HeightOf[d] = g
    <2>1. \A g \in (Best' + 1) .. Last' : g = HeightOf[b] \/ g \in (Best + 1) .. Last
      BY <1>3, <1>4
    <2>2. \A g \in (Best + 1) .. Last : \E d \in Held : HeightOf[d] = g
      BY DEF SessionExact
    <2>3. Held' = Held \union {b}
      BY <1>1, <1>2
    <2> QED BY <2>1, <2>2, <2>3
  <1>13. \A g \in Heights : undo'[g] # NoRow =>
             undo'[g] = height'[g] \/ (undo'[g] \in Held' /\ HeightOf[undo'[g]] = g)
    BY <1>1, <1>2, <1>8, <1>9 DEF SessionExact
  <1>14. \A c \in Columns, k \in Keys :
             ~failed'[c] => Merged(c, k)' = Expected(Indexed \union Held, c, k)'
    BY <1>1, <1>2, <1>3, <1>7 DEF Expected
  <1>15. /\ \A g \in Heights : height'[g] # NoRow => HeightOf[height'[g]] = g
         /\ \A g \in 1 .. Best' : g \in Heights /\ height'[g] # NoRow
         /\ addrRows' = Indexed'
         /\ Best' <= Last'
         /\ mainUndo' # NoRow => mainUndo' \in Held'
    BY <1>2, <1>3, <1>4, <1>9 DEF SessionExact
  <1>16. lo' \in 1 .. (Best' + 1)
    BY <1>3 DEF BulkStep, SessionExact
  <1> QED BY <1>10, <1>11, <1>12, <1>13, <1>14, <1>15, <1>16 DEF SessionExact

\* The writer's own batch moves the blocks it holds to the disk, all at once,
\* or only undo data of a block that stays held.
LEMMA MainWriteSession ==
    ASSUME IndexStoreConstants, TypeOK, SessionExact, BatchesInSession,
           height' = PutHeights(mainRows), addrRows' = addrRows \union mainRows,
           undo' = [g \in Heights |-> IF mainUndo # NoRow /\ g = HeightOf[mainUndo]
                                      THEN mainUndo ELSE undo[g]],
           mainRows' = {}, mainUndo' = NoRow,
           UNCHANGED <<col, cache, bulk, cur, lo, pend, failed>>
    PROVE  SessionExact'
  <1>1. /\ Best \in Nat /\ Last \in Int /\ Last' = Last /\ Best <= Last
        /\ Held \subseteq Block /\ Held' = bulk /\ NoRow \notin Block
    BY BestFacts DEF Last, TypeOK, IndexStoreConstants, SessionExact, Held
  <1>2. /\ \A b \in mainRows : height'[HeightOf[b]] = b /\ b \in Held /\ HeightOf[b] \in Heights
        /\ \A g \in Heights : (\A b \in mainRows : HeightOf[b] # g) => height'[g] = height[g]
    <2>1. mainRows \in SUBSET Block /\ mainRows \subseteq Held
      BY DEF Held, TypeOK
    <2>2. \A b, d \in mainRows : HeightOf[b] = HeightOf[d] => b = d
      BY <2>1 DEF SessionExact
    <2> QED BY <2>1, <2>2, PutHeightsAt DEF Heights
  <1>3. \A g \in Heights : height[g] # NoRow => height'[g] = height[g] /\ g <= Best /\ g \in Nat
    <2>1. \A g \in Heights : height[g] # NoRow => g <= Best /\ g \in Nat
      BY BestFacts, HeightsBounded
    <2>2. \A b \in mainRows : Best < HeightOf[b] /\ HeightOf[b] \in Nat
      BY <1>2, HeightsBounded DEF SessionExact
    <2>3. \A g \in Heights : height[g] # NoRow => \A b \in mainRows : HeightOf[b] # g
      BY <1>1, <2>1, <2>2
    <2> QED BY <1>2, <2>1, <2>3
  <1>4. \A g \in Heights : height'[g] # NoRow =>
            \/ height'[g] = height[g]
            \/ height'[g] \in mainRows /\ HeightOf[height'[g]] = g
    BY <1>2
  <1>5. Indexed' = Indexed \union mainRows
    <2>1. Indexed' \subseteq Indexed \union mainRows
      BY <1>4 DEF Indexed
    <2>2. Indexed \subseteq Indexed'
      BY <1>3 DEF Indexed
    <2>3. mainRows \subseteq Indexed'
      BY <1>1, <1>2 DEF Indexed
    <2> QED BY <2>1, <2>2, <2>3
  <1>6. Indexed' \union Held' = Indexed \union Held
    BY <1>1, <1>5 DEF Held
  <1>7. \A c \in Columns, k \in Keys :
            ~failed'[c] => Merged(c, k)' = Expected(Indexed \union Held, c, k)'
    <2>1. \A c \in Columns, k \in Keys : Merged(c, k)' = Merged(c, k)
      BY DEF Merged
    <2> QED BY <1>6, <2>1 DEF SessionExact, Expected
  <1>8. ASSUME NEW g \in Heights, undo'[g] # NoRow
        PROVE  undo'[g] = height'[g] \/ (undo'[g] \in Held' /\ HeightOf[undo'[g]] = g)
    <2>1. \/ undo[g] # NoRow /\ undo'[g] = undo[g] /\ undo[g] = height[g]
          \/ undo'[g] \in Held /\ HeightOf[undo'[g]] = g
      BY <1>8 DEF SessionExact
    <2>2. CASE undo'[g] \in mainRows /\ HeightOf[undo'[g]] = g
      BY <1>2, <2>2, Zenon
    <2> QED BY <1>1, <1>3, <2>1, <2>2 DEF Held
  <1>9. addrRows' = Indexed'
    BY <1>5 DEF SessionExact
  <1>10. \A g \in Heights : height'[g] # NoRow => HeightOf[height'[g]] = g
    BY <1>4 DEF SessionExact
  <1>11. CASE mainRows = {}
    <2>1. height' = [g \in Heights |-> height[g]] /\ Held' = Held
      BY <1>1, <1>11 DEF PutHeights, Held
    <2>2. Best' = Best
      BY <2>1, ZenonT(30) DEF Best
    <2> QED BY <1>1, <1>7, <1>8, <1>9, <1>10, <2>1, <2>2, ZenonT(30) DEF SessionExact
  <1>12. CASE mainRows # {}
    <2>1. Held = mainRows /\ Held' = {}
      BY <1>1, <1>12 DEF BatchesInSession, Held
    <2>2. \A g \in (Best + 1) .. Last : g \in Heights /\ height'[g] # NoRow
      BY <1>1, <1>2, <2>1 DEF SessionExact
    <2>3. Last > Best /\ Last \in Heights /\ height'[Last] # NoRow
      <3>1. PICK b \in mainRows : TRUE
        BY <1>12
      <3>2. HeightOf[b] \in Nat /\ Best < HeightOf[b] /\ HeightOf[b] <= Last
        BY <1>2, HeightsBounded DEF SessionExact
      <3>3. Last \in (Best + 1) .. Last
        BY <1>1, <3>2
      <3> QED BY <1>1, <2>2, <3>3
    <2>4. \A g \in Heights : height'[g] # NoRow => g <= Last
      <3>1. \A b \in mainRows : HeightOf[b] <= Last
        BY <1>2 DEF SessionExact
      <3>2. \A g \in Heights : height[g] # NoRow => g <= Last
        BY <1>1, <1>3, Order, Zenon
      <3> QED BY <1>4, <3>1, <3>2, Zenon
    <2>5. Best' = Last
      <3>1. Last <= Best' /\ Best' \in Nat
        BY <2>3, BestFacts, Zenon
      <3>2. Best' # 0
        BY <1>1, <2>3, <3>1
      <3>3. Best' \in Heights /\ height'[Best'] # NoRow
        BY <3>2, BestFacts, Zenon
      <3>4. Best' <= Last
        BY <2>4, <3>3, Zenon
      <3> QED BY <1>1, <3>1, <3>4, Order, Zenon
    <2>6. \A g \in 1 .. Best' : g \in Heights /\ height'[g] # NoRow
      <3>1. \A g \in 1 .. Last : g \in 1 .. Best \/ g \in (Best + 1) .. Last
        BY <1>1
      <3>2. \A g \in 1 .. Best : g \in Heights /\ height'[g] # NoRow
        BY <1>3 DEF SessionExact
      <3> QED BY <2>2, <2>5, <3>1, <3>2
    <2>7. Best' <= Last' /\ (Best' + 1) .. Last' = {} /\ lo' \in 1 .. (Best' + 1)
      BY <1>1, <2>3, <2>5 DEF SessionExact
    <2> QED BY <1>7, <1>8, <1>9, <1>10, <2>1, <2>6, <2>7 DEF SessionExact
  <1> QED BY <1>11, <1>12, Zenon

\* A goroutine moves the counts of its batch to the disk, or fails.
LEMMA PendWriteSession ==
    ASSUME IndexStoreConstants, TypeOK, SessionExact, BatchesInSession,
           NEW c \in Columns, PendWrite(c)
    PROVE  SessionExact'
  <1>1. /\ Best' = Best /\ Indexed' = Indexed /\ Held' = Held /\ Last' = Last
        /\ UNCHANGED <<height, addrRows, undo, mainUndo, lo>>
    <2>1. UNCHANGED <<height, addrRows, undo, mainUndo, mainRows, bulk, cur, lo>>
      BY DEF PendWrite, session
    <2> QED BY <2>1 DEF Best, Indexed, Held, Last
  <1>2. ASSUME NEW d \in Columns, NEW k \in Keys, ~failed'[d]
        PROVE  ~failed[d] /\ Merged(d, k)' = Merged(d, k)
    <2>1. CASE d # c
      BY <1>2, <2>1, Zenon DEF PendWrite, Merged, TypeOK, Batch, session
    <2>2. CASE d = c
      <3>1. ~failed[c] /\ cache' = cache /\ pend'[c][k] = NoRow
        BY DEF PendWrite, BatchesInSession, TypeOK, Batch, session
      <3>2. col'[c] = Stored(pend, c)
        BY <1>2, <2>2 DEF PendWrite, TypeOK
      <3>3. col'[c][k] = IF pend[c][k] = NoRow THEN col[c][k] ELSE pend[c][k]
        BY <3>2 DEF Stored
      <3> QED BY <2>2, <3>1, <3>3 DEF Merged
    <2> QED BY <2>1, <2>2
  <1>3. \A d \in Columns, k \in Keys :
            ~failed'[d] => Merged(d, k)' = Expected(Indexed \union Held, d, k)'
    BY <1>1, <1>2 DEF SessionExact, Expected
  <1> QED BY <1>1, <1>3, ZenonT(30) DEF SessionExact

\* Close hands what is left in the maps and the rows to the last batches.
LEMMA CloseSession ==
    ASSUME IndexStoreConstants, TypeOK, SessionExact, BatchesInSession, Close
    PROVE  SessionExact'
  <1>1. /\ Best' = Best /\ Indexed' = Indexed /\ Last' = Last
        /\ UNCHANGED <<height, addrRows, undo, lo>>
    BY Zenon DEF Close, Best, Indexed, Last, disk
  <1>2. Held' = Held /\ mainUndo' = NoRow
    BY Zenon DEF Close, BatchesInSession, Held
  <1>3. ASSUME NEW c \in Columns, NEW k \in Keys
        PROVE  ~failed[c] /\ Merged(c, k)' = Merged(c, k)
    BY Zenon DEF Close, BatchesInSession, Merged, NoBatch, disk
  <1>4. \A c \in Columns, k \in Keys :
            ~failed'[c] => Merged(c, k)' = Expected(Indexed \union Held, c, k)'
    BY <1>1, <1>2, <1>3 DEF SessionExact, Expected
  <1> QED BY <1>1, <1>2, <1>4, SMTT(30) DEF SessionExact

\* Once Close has seen every batch written, the disk is the index.
LEMMA CloseDoneExact ==
    ASSUME IndexStoreConstants, TypeOK, SessionExact, BatchesInSession, pc = "closing",
           ~mainOn, \A c \in Columns : ~pendOn[c] /\ ~failed[c]
    PROVE  Exact
  <1>1. Held = {}
    BY DEF BatchesInSession, Held
  <1>2. \A c \in Columns, k \in Keys : Merged(c, k) = col[c][k]
    BY DEF BatchesInSession, Merged, NoBatch
  <1>3. \A c \in Columns, k \in Keys : col[c][k] = Expected(Indexed \union Held, c, k)
    BY <1>2 DEF SessionExact
  <1>4. Indexed \union Held = Indexed
    BY <1>1, Zenon
  <1> QED BY <1>1, <1>3, <1>4 DEF SessionExact, Exact

-----------------------------------------------------------------------------
(* Blocks outside a bulk session *)

\* Writing the batch of RocksDB.ConnectBlock extends the exact index by its
\* block.
LEMMA ConnectWriteExact ==
    ASSUME IndexStoreConstants, TypeOK, Exact, cur \in Block, ConnectReady,
           height' = PutHeights({cur}),
           addrRows' = addrRows \union {cur},
           col' = [c \in Columns |-> Stored(cache, c)],
           undo' = [undo EXCEPT ![HeightOf[cur]] = cur]
    PROVE  /\ Exact'
           /\ Best' = HeightOf[cur] /\ height'[Best'] = cur
           /\ \A g \in 1 .. Best : height'[g] = height[g]
  <1> DEFINE n == HeightOf[cur]
  <1>1. n = Best + 1 /\ n \in Heights /\ Best \in Nat /\ height[n] = NoRow /\ cur # NoRow
    <2>1. n = Best + 1 /\ n \in Heights /\ cur # NoRow
      BY DEF ConnectReady, Heights, IndexStoreConstants
    <2> QED BY <2>1, BestFacts
  <1>2. /\ height'[n] = cur
        /\ \A g \in Heights : g # n => height'[g] = height[g]
    BY PutHeightsAt
  <1>0. HeightOf[cur] = n
    OBVIOUS
  <1> HIDE DEF n
  <1>3. Indexed' = Indexed \union {cur}
    BY <1>1, <1>2, ZenonT(30) DEF Indexed
  <1>4. cur \notin Indexed
    BY <1>0, <1>1 DEF Indexed, Exact
  <1>5. Best' = n
    <2>1. n <= Best'
      BY <1>1, <1>2, BestFacts, Zenon
    <2>2. Best' # n => Best' \in Heights /\ height[Best'] # NoRow
      <3>1. Best' # 0
        BY <1>1, <2>1
      <3>2. Best' \in Heights /\ height'[Best'] # NoRow
        BY <3>1, BestFacts, Zenon
      <3> QED BY <1>2, <3>2, Zenon
    <2>3. Best' <= n
      BY <1>1, <2>2, BestFacts
    <2> QED BY <1>1, <2>1, <2>3, BestFacts
  <1>6. \A g \in Heights : height'[g] # NoRow => HeightOf[height'[g]] = g
    BY <1>0, <1>1, <1>2, ZenonT(30) DEF Exact
  <1>7. \A g \in 1 .. Best' : g \in Heights /\ height'[g] # NoRow
    <2>1. \A g \in 1 .. n : g = n \/ g \in 1 .. Best
      BY <1>1
    <2> QED BY <1>1, <1>2, <1>5, <2>1, ZenonT(30) DEF Exact
  <1>8. addrRows' = Indexed'
    BY <1>3, Zenon DEF Exact
  <1>9. ASSUME NEW c \in Columns, NEW k \in Keys
        PROVE  col'[c][k] = Expected(Indexed \union {cur}, c, k)
    <2>1. col[c][k] = Expected(Indexed, c, k) /\ col[c][k] \in Counts
      BY DEF Exact, TypeOK
    <2>2. cache[c][k] = IF k \in Touch[c][cur] THEN [col[c][k] EXCEPT ![cur] = @ + 1] ELSE NoRow
      BY Zenon DEF ConnectReady, Process, NoBatch
    <2>3. [col[c][k] EXCEPT ![cur] = @ + 1] \in Counts /\ NoRow \notin Counts
      BY <2>1 DEF Counts, IndexStoreConstants
    <2>4. col'[c][k] = IF k \in Touch[c][cur] THEN [col[c][k] EXCEPT ![cur] = @ + 1] ELSE col[c][k]
      BY <2>2, <2>3 DEF Stored
    <2> QED BY <1>4, <2>1, <2>4 DEF Expected
  <1>10. \A g \in Heights : undo'[g] # NoRow => undo'[g] = height'[g]
    BY <1>0, <1>1, <1>2, Zenon DEF Exact, TypeOK, Rows
  <1>11. \A c \in Columns, k \in Keys : (col[c][k] = Expected(Indexed, c, k))'
    BY <1>3, <1>9 DEF Expected
  <1>12. Exact'
    BY <1>6, <1>7, <1>8, <1>10, <1>11, Zenon DEF Exact
  <1>13. \A g \in 1 .. Best : height'[g] = height[g]
    BY <1>1, <1>2, Zenon DEF Exact
  <1> QED BY <1>0, <1>2, <1>5, <1>12, <1>13

\* Disconnecting blocks leaves the exact index of the blocks below them.
LEMMA DisconnectExact ==
    ASSUME IndexStoreConstants, TypeOK, Exact, NEW lower \in Heights, DisconnectBlockRange(lower)
    PROVE  Exact' /\ Best' = lower - 1 /\ \A g \in 1 .. Best' : height'[g] = height[g]
  <1> DEFINE gone == {undo[g] : g \in lower .. Best}
  <1>1. lower \in Nat \ {0} /\ Best \in Nat /\ lower <= Best
    BY HeightsBounded, BestFacts, Zenon DEF DisconnectBlockRange
  <1>2. \A g \in lower .. Best : g \in Heights /\ undo[g] = height[g] /\ height[g] # NoRow
    BY <1>1 DEF Exact, DisconnectBlockRange
  <1>3. height' = [g \in Heights |-> IF g \in lower .. Best THEN NoRow ELSE height[g]]
    BY DEF DisconnectBlockRange
  <1>4. Indexed' = Indexed \ gone
    <2>1. \A g \in Heights : height[g] # NoRow => (height[g] \in gone <=> g \in lower .. Best)
      BY <1>2 DEF Exact
    <2> QED BY <1>2, <1>3, <2>1 DEF Indexed
  <1>5. Best' < lower /\ Best' = lower - 1
    <2>1. Best' < lower
      BY <1>1, <1>3, BestFacts, HeightsBounded
    <2>2. CASE lower = 1
      BY <2>1, <2>2, BestFacts
    <2>3. CASE lower # 1
      <3>1. lower - 1 \in 1 .. Best /\ lower - 1 \notin lower .. Best
        BY <1>1, <2>3
      <3>2. lower - 1 \in Heights /\ height[lower - 1] # NoRow
        BY <3>1 DEF Exact
      <3>3. height'[lower - 1] # NoRow
        BY <1>3, <3>1, <3>2
      <3>4. lower - 1 <= Best'
        BY <3>2, <3>3, BestFacts
      <3> QED BY <1>1, <2>1, <3>4, BestFacts
    <2> QED BY <2>1, <2>2, <2>3
  <1>6. \A g \in Heights : height'[g] # NoRow => HeightOf[height'[g]] = g
    BY <1>3 DEF Exact
  <1>7. \A g \in 1 .. Best' : g \in Heights /\ height'[g] # NoRow
    BY <1>1, <1>3, <1>5, BestFacts DEF Exact
  <1>8. addrRows' = Indexed'
    BY <1>4 DEF Exact, DisconnectBlockRange
  <1>9. ASSUME NEW c \in Columns, NEW k \in Keys
        PROVE  col'[c][k] = Expected(Indexed \ gone, c, k)
    <2>1. col[c][k] = Expected(Indexed, c, k)
      BY Zenon DEF Exact
    <2>2. gone \subseteq Indexed
      BY <1>2, Zenon DEF Indexed
    <2>3. col'[c][k] = [b \in Block |->
                IF b \in gone /\ k \in Touch[c][b] /\ col[c][k][b] > 0
                THEN col[c][k][b] - 1 ELSE col[c][k][b]]
      BY Zenon DEF DisconnectBlockRange
    <2> QED BY <2>1, <2>2, <2>3 DEF Expected
  <1>10. \A g \in Heights : undo'[g] # NoRow => undo'[g] = height'[g]
    BY <1>3 DEF Exact, DisconnectBlockRange
  <1>11. \A c \in Columns, k \in Keys : (col[c][k] = Expected(Indexed, c, k))'
    BY <1>4, <1>9 DEF Expected
  <1>12. Exact'
    BY <1>6, <1>7, <1>8, <1>10, <1>11 DEF Exact
  <1>13. \A g \in 1 .. Best' : height'[g] = height[g]
    BY <1>1, <1>3, <1>5 DEF Exact
  <1> QED BY <1>5, <1>12, <1>13, Zenon

-----------------------------------------------------------------------------
(* Types *)

\* The maps stay maps of counts when a block is applied.
LEMMA ProcessType ==
    ASSUME IndexStoreConstants, TypeOK, NEW m \in Batch, NEW b \in Block
    PROVE  Process(m, b) \in Batch
  <1>1. SUFFICES ASSUME NEW c \in Columns, NEW k \in Keys
                 PROVE  Process(m, b)[c][k] \in Counts \union {NoRow}
    BY DEF Process, Batch
  <1>2. m[c][k] \in Counts \union {NoRow} /\ col[c][k] \in Counts
    BY DEF Batch, TypeOK
  <1>3. \A v \in Counts : [v EXCEPT ![b] = @ + 1] \in Counts
    BY DEF Counts
  <1> QED BY <1>1, <1>2, <1>3, Zenon DEF Process

\* No key is in an empty map.
LEMMA NoBatchType == NoBatch \in Batch
  BY DEF NoBatch, Batch

\* Storing a map leaves counts in the column.
LEMMA StoredType ==
    ASSUME TypeOK, NEW m \in Batch, NEW c \in Columns
    PROVE  Stored(m, c) \in [Keys -> Counts]
  BY DEF Stored, TypeOK, Batch

\* Deleting old undo data leaves undo data.
LEMMA CleanedType ==
    ASSUME TypeOK, NEW h
    PROVE  Cleaned(h) \in Rows
  BY DEF Cleaned, TypeOK, Rows

\* Putting rows of blocks leaves rows of blocks.
LEMMA PutHeightsType ==
    ASSUME TypeOK, NEW B \in SUBSET Block
    PROVE  PutHeights(B) \in Rows
  BY DEF PutHeights, TypeOK, Rows

\* Disconnecting blocks leaves counts and rows.
LEMMA DisconnectType ==
    ASSUME TypeOK, NEW lower \in Heights, DisconnectBlockRange(lower)
    PROVE  /\ col' \in [Columns -> [Keys -> Counts]]
           /\ height' \in Rows /\ undo' \in Rows /\ addrRows' \subseteq Block
  <1>1. \A c \in Columns, k \in Keys, b \in Block : col[c][k][b] \in Nat
    BY DEF TypeOK, Counts
  <1>2. \A n \in Nat : n > 0 => n - 1 \in Nat
    OBVIOUS
  <1>3. col' \in [Columns -> [Keys -> Counts]]
    BY <1>1, <1>2, Zenon DEF DisconnectBlockRange, Counts
  <1>4. height' \in Rows /\ undo' \in Rows /\ addrRows' \subseteq Block
    BY DEF DisconnectBlockRange, TypeOK, Rows
  <1> QED BY <1>3, <1>4

\* The types hold in the empty database.
LEMMA InitType == IndexStoreConstants /\ Init => TypeOK
  <1> SUFFICES ASSUME IndexStoreConstants, Init PROVE TypeOK
    OBVIOUS
  <1>1. col \in [Columns -> [Keys -> Counts]]
    BY DEF Init, Counts
  <1>2. height \in Rows /\ undo \in Rows
    BY DEF Init, Rows
  <1>3. cache \in Batch /\ pend \in Batch
    BY NoBatchType DEF Init
  <1> QED BY <1>1, <1>2, <1>3, Zenon DEF Init, TypeOK

\* What the end of the process leaves in memory has the right types.
LEMMA GoneType ==
    ASSUME IndexStoreConstants, TypeOK, ProcessGone,
           dbState' \in {"closed", "open", "inconsistent"},
           UNCHANGED <<height, addrRows, col, undo>>
    PROVE  TypeOK'
  <1>1. cache' \in Batch /\ pend' \in Batch
    BY NoBatchType DEF ProcessGone
  <1>2. lo' \in Nat
    BY BestFacts DEF ProcessGone, TypeOK
  <1> QED BY <1>1, <1>2, Zenon DEF ProcessGone, TypeOK

\* BulkConnect.ConnectBlock is such a step, whatever it chooses.
LEMMA BulkSteps ==
    ASSUME IndexStoreConstants, TypeOK, NEW b \in Block, BulkConnectBlock(b)
    PROVE  BulkStep(b)
  <1> DEFINE m == Process(cache, b)
             size(c) == Cardinality(Cached(m, c))
             sa == \E c \in Columns : size(c) > MaxCached[c]
             store == {c \in Columns : sa /\ size(c) + Partial[c] > MaxCached[c]}
             rows == sa \/ Cardinality(bulk) + 1 > MaxBulkAddresses
             storeBlockTxs == HeightOf[b] + Keep > hi
  <1>1. PICK part \in [store -> SUBSET Keys] :
           /\ pend' = [c \in Columns |-> [k \in Keys |->
                         IF c \in store /\ k \in part[c] THEN m[c][k] ELSE NoRow]]
           /\ cache' = [c \in Columns |-> [k \in Keys |->
                         IF c \in store /\ k \in part[c] THEN NoRow ELSE m[c][k]]]
    BY ZenonT(30) DEF BulkConnectBlock
  <1>2. /\ pc = "bulk" /\ pc' = "bulkwrite" /\ cur' = b /\ HeightOf[b] = Last + 1
        /\ \A c \in Columns : ~pendOn[c]
        /\ UNCHANGED <<dbState, height, addrRows, col, phase, memState, packed, lo, hi, lost>>
        /\ failed' = [c \in Columns |-> FALSE] /\ pendOn' = [c \in Columns |-> c \in store]
    BY ZenonT(30) DEF BulkConnectBlock
  <1>3. /\ bulk' = IF rows THEN {} ELSE bulk \union {b}
        /\ mainRows' = IF rows THEN bulk \union {b} ELSE {}
        /\ mainUndo' = IF storeBlockTxs THEN b ELSE NoRow
        /\ mainOn' = (rows \/ storeBlockTxs)
        /\ undo' = IF storeBlockTxs THEN Cleaned(HeightOf[b]) ELSE undo
    BY ZenonT(30) DEF BulkConnectBlock
  <1>4. m \in Batch
    BY ProcessType, Zenon DEF TypeOK
  <1> HIDE DEF m, store, rows, storeBlockTxs
  <1>5. pendOn' \in [Columns -> BOOLEAN] /\ \A c \in Columns : pendOn'[c] <=> c \in store
    <2>1. pendOn' = [c \in Columns |-> c \in store]
      BY <1>2
    <2>2. pendOn' \in [Columns -> BOOLEAN]
      BY <2>1
    <2>3. \A c \in Columns : pendOn'[c] <=> c \in store
      BY <2>1, Zenon
    <2> QED BY <2>2, <2>3
  <1>6. \/ mainUndo' = NoRow /\ mainOn' \in BOOLEAN
        \/ mainUndo' = b /\ mainOn' = TRUE
    BY <1>3, Zenon
  <1>7. \/ bulk' = bulk \union {b} /\ mainRows' = {}
        \/ bulk' = {} /\ mainRows' = bulk \union {b} /\ mainOn' = TRUE
    BY <1>3, Zenon
  <1>8. cache' \in Batch /\ pend' \in Batch
    BY <1>1, <1>4 DEF Batch
  <1>9. \A c \in Columns, k \in Keys :
          \/ cache'[c][k] = m[c][k] /\ pend'[c][k] = NoRow
          \/ cache'[c][k] = NoRow /\ pend'[c][k] = m[c][k] /\ pendOn'[c]
    BY <1>1, <1>5
  <1>10. undo' = undo \/ undo' = Cleaned(HeightOf[b])
    BY <1>3
  <1> QED BY <1>2, <1>5, <1>6, <1>7, <1>8, <1>9, <1>10, Zenon DEF BulkStep, m

\* Every step keeps the types.
LEMMA NextType ==
    ASSUME IndexStoreConstants, TypeOK, [Next]_vars, pc = "connect" => cur \in Block
    PROVE  TypeOK'
  <1> USE DEF session, batches, disk
  <1>1. CASE Start
    BY <1>1, ZenonT(30) DEF Start, TypeOK
  <1>2. CASE Crash
    BY <1>2, GoneType, Zenon DEF Crash, TypeOK
  <1>3. CASE Shutdown
    BY <1>3, GoneType, Zenon DEF Shutdown, TypeOK
  <1>4. CASE Refused
    BY <1>4 DEF Refused, TypeOK, vars
  <1>5. CASE LoopStart
    BY <1>5 DEF LoopStart, TypeOK
  <1>6. CASE LoopPack
    BY <1>6 DEF LoopPack, TypeOK
  <1>7. CASE LoopPut
    BY <1>7 DEF LoopPut, TypeOK
  <1>8. ASSUME NEW b \in Block, ConnectBlock(b) PROVE TypeOK'
    <2>1. cache' \in Batch /\ undo' \in Rows
      BY <1>8, ProcessType, NoBatchType, CleanedType DEF ConnectBlock
    <2> QED BY <1>8, <2>1 DEF ConnectBlock, TypeOK
  <1>9. CASE ConnectWrite
    <2>1. cur \in Block
      BY <1>9, Zenon DEF ConnectWrite
    <2>2. CASE UNCHANGED <<height, addrRows, col, undo>>
      BY <1>9, <2>2, NoBatchType, ZenonT(30) DEF ConnectWrite, TypeOK
    <2>3. CASE /\ height' = PutHeights({cur})
               /\ addrRows' = addrRows \union {cur}
               /\ col' = [c \in Columns |-> Stored(cache, c)]
               /\ undo' = [undo EXCEPT ![HeightOf[cur]] = cur]
      <3>1. col' \in [Columns -> [Keys -> Counts]]
        BY <2>3, StoredType DEF TypeOK
      <3>2. height' \in Rows /\ addrRows' \subseteq Block
        BY <2>1, <2>3, PutHeightsType DEF TypeOK
      <3>3. undo' \in Rows
        BY <2>1, <2>3, Zenon DEF TypeOK, Rows
      <3> QED BY <1>9, <3>1, <3>2, <3>3, NoBatchType DEF ConnectWrite, TypeOK
    <2> QED BY <1>9, <2>2, <2>3 DEF ConnectWrite
  <1>10. ASSUME NEW lower \in Heights, DisconnectBlockRange(lower) PROVE TypeOK'
    BY <1>10, DisconnectType, ZenonT(30) DEF DisconnectBlockRange, TypeOK
  <1>11. ASSUME NEW higher \in Heights, InitBulkConnect(higher) PROVE TypeOK'
    BY <1>11, BestFacts, HeightsBounded, NoBatchType DEF InitBulkConnect, TypeOK
  <1>12. ASSUME NEW b \in Block, BulkConnectBlock(b) PROVE TypeOK'
    <2>1. BulkStep(b)
      BY <1>12, BulkSteps
    <2>2. undo' \in Rows
      <3>1. undo' = undo \/ undo' = Cleaned(HeightOf[b])
        BY <2>1, Zenon DEF BulkStep
      <3> QED BY <3>1, CleanedType, Zenon DEF TypeOK
    <2>3. mainOn' \in BOOLEAN /\ failed' \in [Columns -> BOOLEAN]
      BY <2>1, Zenon DEF BulkStep
    <2> QED BY <2>1, <2>2, <2>3 DEF BulkStep, TypeOK
  <1>13. CASE MainWrite
    <2>1. height' \in Rows /\ addrRows' \subseteq Block
      BY <1>13, PutHeightsType DEF MainWrite, TypeOK
    <2>2. undo' \in Rows
      BY <1>13 DEF MainWrite, TypeOK, Rows
    <2> QED BY <1>13, <2>1, <2>2, ZenonT(30) DEF MainWrite, TypeOK
  <1>14. ASSUME NEW c \in Columns, PendWrite(c) PROVE TypeOK'
    <2>1. col' \in [Columns -> [Keys -> Counts]]
      BY <1>14, StoredType DEF PendWrite, TypeOK
    <2>2. pend' \in Batch
      BY <1>14 DEF PendWrite, TypeOK, Batch
    <2>3. pendOn' \in [Columns -> BOOLEAN] /\ failed' \in [Columns -> BOOLEAN]
      BY <1>14 DEF PendWrite, TypeOK
    <2> QED BY <1>14, <2>1, <2>2, <2>3 DEF PendWrite, TypeOK
  <1>15. CASE BulkWritten
    BY <1>15 DEF BulkWritten, TypeOK
  <1>16. CASE Close
    BY <1>16, NoBatchType DEF Close, TypeOK
  <1>17. ASSUME NEW c \in Columns, CloseFails(c) PROVE TypeOK'
    BY <1>17 DEF CloseFails, TypeOK
  <1>18. CASE CloseDone
    BY <1>18 DEF CloseDone, TypeOK
  <1>19. CASE UNCHANGED vars
    BY <1>19 DEF TypeOK, vars
  <1> QED
    BY <1>1, <1>2, <1>3, <1>4, <1>5, <1>6, <1>7, <1>8, <1>9, <1>10, <1>11, <1>12,
       <1>13, <1>14, <1>15, <1>16, <1>17, <1>18, <1>19, ZenonT(30) DEF Next
=============================================================================
