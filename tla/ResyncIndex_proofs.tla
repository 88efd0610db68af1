------------------------- MODULE ResyncIndex_proofs --------------------------
(***************************************************************************)
(* For any number of labels, any length of the chain and any depth of the  *)
(* reorganisations: when the backend reorganises between resyncs only, the *)
(* index is one chain without gaps, and when the undo data is kept for as  *)
(* many blocks as the backend ever takes back, no fork is refused.         *)
(*                                                                         *)
(* Linked speaks of two neighbours; the induction needs that the indexed   *)
(* blocks are all prefixes of the best one (Chained), which part of them   *)
(* the backend still has (Kept), and what the goroutine getBlockChain and  *)
(* the channel hold while blocks are connected (Feed).                     *)
(***************************************************************************)
EXTENDS ResyncIndex, SequenceTheorems, TLAPS

\* The indexed heights are 1 .. n.
Contiguous(n) == \A g \in Heights : local[g] # <<>> <=> g <= n

\* The indexed blocks are the ancestors of the best one.
Chained(n) ==
    \A h \in 1 .. n : Len(local[h]) = h /\ \A g \in 1 .. h : local[g] = SubSeq(local[h], 1, g)

\* Every indexed block is on the backend's chain.
Agrees == \A g \in Heights : local[g] # <<>> => local[g] = HashAt(g)

\* With m the greatest height that was ever indexed, or that a parallel load will
\* reach: the undo data of the last Keep heights below m is there, and what is
\* MaxDepth below m, like the first block, can no longer leave the backend's chain.
Kept(n, m) ==
    /\ m \in n .. longest
    /\ \A g \in 1 .. n : /\ g + Keep > m => g \in undo
                         /\ g = 1 \/ g + MaxDepth <= m => local[g] = HashAt(g)

\* What getBlockChain has sent and is about to send are the blocks that follow the
\* best indexed one, in order.
Feed(n) ==
    /\ bch \in Seq(Seq(Labels) \cup {ErrMark})
    /\ \A i \in 1 .. Len(bch) : bch[i] = ErrMark \/ (bch[i] = HashAt(n + i) /\ bch[i] # <<>>)
    /\ gpc = "get" => /\ gheight = n + Len(bch) + 1
                      /\ ghash \in {<<>>, HashAt(gheight)}
    /\ gpc = "send" => /\ gblock = HashAt(n + Len(bch) + 1) /\ gblock # <<>>
                       /\ gheight = n + Len(bch) + 2
                       /\ ghash \in {<<>>, HashAt(gheight)}

\* What the place of the sync thread says about the index.
Placed(n, m) ==
    /\ pc \in {"startHash", "bestHeight", "parallel", "spawn", "connect"} => Agrees
    /\ pc \in {"startHash", "bestHeight", "spawn"} => startHeight = n + 1
    /\ pc \in {"bestHeight", "spawn"} => startHash = HashAt(n + 1) /\ startHash # <<>>
    /\ pc = "parallel" => forkHeight = n + 1 /\ parHigh <= m
    /\ pc \in {"fork", "disconnect"} => forkHeight \in 1 .. n /\ m <= forkHeight + MaxDepth
    /\ pc = "connect" => Feed(n)

Types ==
    /\ remote \in Seq(Labels) /\ Len(remote) \in 1 .. MaxLen /\ longest \in Len(remote) .. MaxLen
    /\ local \in [Heights -> Seq(Labels)] /\ undo \subseteq Heights
    /\ startHeight \in Nat /\ parHigh \in Nat /\ forkHeight \in Nat
    /\ local[1] = <<>> => startHeight = 1

Indexed(n, m) == Contiguous(n) /\ Chained(n) /\ Kept(n, m)

\* The inductive invariant of a process whose backend reorganises between resyncs.
QuietInv ==
    /\ Types
    /\ \E n \in 0 .. MaxLen : \E m \in 0 .. MaxLen : Indexed(n, m) /\ Placed(n, m)

IInv == ~mode.busy => QuietInv
-----------------------------------------------------------------------------
(* Sequences and heights *)

\* The greatest of two numbers.
LEMMA MaxPair == \A x, y \in Int : Max({x, y}) = IF x >= y THEN x ELSE y
<1> SUFFICES ASSUME NEW x \in Int, NEW y \in Int
             PROVE  Max({x, y}) = IF x >= y THEN x ELSE y
  OBVIOUS
<1>1. \E z \in {x, y} : \A w \in {x, y} : z >= w
  OBVIOUS
<1>2. Max({x, y}) \in {x, y} /\ \A w \in {x, y} : Max({x, y}) >= w
  BY <1>1 DEF Max
<1> QED
  BY <1>2

\* A prefix of a chain.
LEMMA Prefix ==
    ASSUME NEW s \in Seq(Labels), NEW k \in 1 .. Len(s)
    PROVE  /\ SubSeq(s, 1, k) \in Seq(Labels) /\ Len(SubSeq(s, 1, k)) = k
           /\ \A i \in 1 .. k : SubSeq(s, 1, k)[i] = s[i]
<1>1. \A i \in 1 .. k : s[i] \in Labels
  BY ElementOfSeq
<1> QED
  BY <1>1, SubSeqProperties

\* Two chains with the same first labels have the same prefix.
LEMMA SamePrefix ==
    ASSUME NEW s \in Seq(Labels), NEW t \in Seq(Labels), NEW k \in Nat \ {0},
           k <= Len(s), k <= Len(t), \A i \in 1 .. k : s[i] = t[i]
    PROVE  SubSeq(s, 1, k) = SubSeq(t, 1, k)
<1>1. /\ SubSeq(s, 1, k) \in Seq(Labels) /\ Len(SubSeq(s, 1, k)) = k
      /\ \A i \in 1 .. k : SubSeq(s, 1, k)[i] = s[i]
  BY Prefix
<1>2. /\ SubSeq(t, 1, k) \in Seq(Labels) /\ Len(SubSeq(t, 1, k)) = k
      /\ \A i \in 1 .. k : SubSeq(t, 1, k)[i] = t[i]
  BY Prefix
<1> QED
  BY <1>1, <1>2, SeqEqual

\* The prefix of a prefix.
LEMMA PrefixOfPrefix ==
    ASSUME NEW s \in Seq(Labels), NEW h \in 1 .. Len(s), NEW g \in 1 .. h
    PROVE  SubSeq(SubSeq(s, 1, h), 1, g) = SubSeq(s, 1, g)
<1>1. /\ SubSeq(s, 1, h) \in Seq(Labels) /\ Len(SubSeq(s, 1, h)) = h
      /\ \A i \in 1 .. h : SubSeq(s, 1, h)[i] = s[i]
  BY Prefix
<1> QED
  BY <1>1, SamePrefix

\* GetBlockHash at, and above, the heights of the backend's chain.
LEMMA HashFacts ==
    ASSUME Types
    PROVE  /\ \A g \in 1 .. Len(remote) : /\ HashAt(g) \in Seq(Labels) /\ Len(HashAt(g)) = g
                                          /\ HashAt(g) # <<>>
           /\ \A g \in Nat : g > Len(remote) => HashAt(g) = <<>>
           /\ \A g \in Nat \ {0} : HashAt(g) # <<>> => g \in 1 .. Len(remote)
           /\ \A h \in 1 .. Len(remote) : \A g \in 1 .. h : SubSeq(HashAt(h), 1, g) = HashAt(g)
<1>1. remote \in Seq(Labels)
  BY DEF Types
<1>2. \A g \in 1 .. Len(remote) : HashAt(g) = SubSeq(remote, 1, g)
  BY DEF HashAt
<1>3. \A g \in 1 .. Len(remote) : HashAt(g) \in Seq(Labels) /\ Len(HashAt(g)) = g
  BY <1>1, <1>2, Prefix
<1>4. \A g \in 1 .. Len(remote) : HashAt(g) # <<>>
  BY <1>3
<1>5. \A g \in Nat : g > Len(remote) => HashAt(g) = <<>>
  BY <1>1 DEF HashAt
<1>6. \A g \in Nat \ {0} : HashAt(g) # <<>> => g \in 1 .. Len(remote)
  BY <1>1 DEF HashAt
<1>7. \A h \in 1 .. Len(remote) : \A g \in 1 .. h : SubSeq(HashAt(h), 1, g) = HashAt(g)
  <2> SUFFICES ASSUME NEW h \in 1 .. Len(remote), NEW g \in 1 .. h
               PROVE  SubSeq(HashAt(h), 1, g) = HashAt(g)
    OBVIOUS
  <2>1. Len(remote) \in Nat /\ g \in 1 .. Len(remote)
    BY <1>1
  <2> QED
    BY <1>1, <1>2, <2>1, PrefixOfPrefix
<1> QED
  BY <1>3, <1>4, <1>5, <1>6, <1>7

\* Growing keeps the hashes that there are.
LEMMA ExtendHashes ==
    ASSUME Types, NEW l \in Labels, remote' = Append(remote, l)
    PROVE  /\ remote' \in Seq(Labels) /\ Len(remote') = Len(remote) + 1
           /\ \A g \in 1 .. Len(remote) : HashAt(g)' = HashAt(g)
<1>1. remote \in Seq(Labels) /\ Len(remote) \in Nat
  BY DEF Types
<1>2. /\ remote' \in Seq(Labels) /\ Len(remote') = Len(remote) + 1
      /\ \A i \in 1 .. Len(remote) : remote'[i] = remote[i]
  BY <1>1, AppendProperties
<1>3. \A g \in 1 .. Len(remote) : SubSeq(remote', 1, g) = SubSeq(remote, 1, g)
  BY <1>1, <1>2, SamePrefix
<1>4. \A g \in 1 .. Len(remote) : g \in 1 .. Len(remote')
  BY <1>1, <1>2
<1> QED
  BY <1>2, <1>3, <1>4 DEF HashAt

\* A reorganisation keeps the hashes below the place where the chain is cut.
LEMMA CutHashes ==
    ASSUME Types, NEW k \in 1 .. Len(remote), remote' = SubSeq(remote, 1, k)
    PROVE  /\ remote' \in Seq(Labels) /\ Len(remote') = k
           /\ \A g \in 1 .. k : HashAt(g)' = HashAt(g)
<1>1. remote \in Seq(Labels) /\ Len(remote) \in Nat
  BY DEF Types
<1>2. /\ remote' \in Seq(Labels) /\ Len(remote') = k
      /\ \A i \in 1 .. k : remote'[i] = remote[i]
  BY <1>1, Prefix
<1>3. \A g \in 1 .. k : SubSeq(remote', 1, g) = SubSeq(remote, 1, g)
  BY <1>1, <1>2, SamePrefix
<1>4. \A g \in 1 .. k : g \in 1 .. Len(remote') /\ g \in 1 .. Len(remote)
  BY <1>1, <1>2
<1> QED
  BY <1>2, <1>3, <1>4 DEF HashAt

\* GetBestBlock finds the last of the indexed heights.
LEMMA BestOfContiguous ==
    ASSUME Types, NEW n \in 0 .. MaxLen, Contiguous(n)
    PROVE  /\ BestHeight = n
           /\ BestHash = IF n = 0 THEN <<>> ELSE local[n]
           /\ BestHash = <<>> <=> n = 0
<1> DEFINE S == {0} \union {g \in Heights : local[g] # <<>>}
<1>1. MaxLen \in Nat
  BY ResyncAssumption
<1>2. n \in S /\ \A y \in S : n >= y /\ y \in Int
  BY <1>1 DEF Contiguous, Heights
<1>3. Max(S) \in S /\ \A y \in S : Max(S) >= y
  <2>1. \E x \in S : \A y \in S : x >= y
    BY <1>2
  <2> HIDE DEF S
  <2> QED
    BY <2>1 DEF Max
<1>4. Max(S) = n
  <2> HIDE DEF S
  <2>1. Max(S) \in Int /\ n >= Max(S)
    BY <1>2, <1>3, Zenon
  <2>2. Max(S) >= n /\ n \in Int
    BY <1>2, <1>3
  <2> QED
    BY <2>1, <2>2
<1>5. BestHeight = n
  BY <1>4 DEF BestHeight
<1>6. n # 0 => local[n] # <<>>
  BY <1>1 DEF Contiguous, Heights
<1> QED
  BY <1>5, <1>6 DEF BestHash

\* Prefixes of one chain are each other's prefixes.
LEMMA PrefixesChained ==
    ASSUME NEW s \in Seq(Labels), NEW n \in Nat, n <= Len(s), NEW f,
           \A g \in 1 .. n : f[g] = SubSeq(s, 1, g)
    PROVE  \A h \in 1 .. n : Len(f[h]) = h /\ \A g \in 1 .. h : f[g] = SubSeq(f[h], 1, g)
<1> SUFFICES ASSUME NEW h \in 1 .. n
             PROVE  Len(f[h]) = h /\ \A g \in 1 .. h : f[g] = SubSeq(f[h], 1, g)
  OBVIOUS
<1>1. h \in 1 .. Len(s) /\ \A g \in 1 .. h : g \in 1 .. n
  OBVIOUS
<1>2. Len(f[h]) = h
  BY <1>1, Prefix
<1>3. \A g \in 1 .. h : SubSeq(f[h], 1, g) = SubSeq(s, 1, g)
  BY <1>1, PrefixOfPrefix
<1> QED
  BY <1>1, <1>2, <1>3

\* When the best indexed block is on the backend's chain, all indexed blocks are.
LEMMA TipAgrees ==
    ASSUME Types, NEW n \in 0 .. MaxLen, Contiguous(n), Chained(n),
           n # 0 => local[n] = HashAt(n)
    PROVE  Agrees
<1> SUFFICES ASSUME NEW g \in Heights, local[g] # <<>> PROVE local[g] = HashAt(g)
  BY DEF Agrees
<1>1. MaxLen \in Nat
  BY ResyncAssumption
<1>2. g <= n /\ n # 0 /\ n \in 1 .. n /\ g \in 1 .. n /\ n \in Heights
  BY <1>1 DEF Contiguous, Heights
<1>3. local[g] = SubSeq(local[n], 1, g)
  BY <1>2 DEF Chained
<1>4. local[n] # <<>> /\ local[n] = HashAt(n) /\ n \in Nat \ {0}
  BY <1>1, <1>2 DEF Contiguous
<1>5. n \in 1 .. Len(remote)
  BY <1>4, HashFacts
<1> QED
  BY <1>2, <1>3, <1>4, <1>5, HashFacts

\* A step that leaves the backend and the index alone.
LEMMA IndexSame ==
    ASSUME UNCHANGED <<remote, longest, local, undo>>, NEW n, NEW m
    PROVE  /\ Indexed(n, m)' <=> Indexed(n, m)
           /\ Agrees' <=> Agrees
           /\ \A g : HashAt(g)' = HashAt(g)
<1>1. \A g : HashAt(g)' = HashAt(g)
  BY DEF HashAt
<1> QED
  BY <1>1 DEF Indexed, Contiguous, Chained, Kept, Agrees

-----------------------------------------------------------------------------
(* The steps *)

\* The empty database.
LEMMA QuietInit == Init => QuietInv
<1> SUFFICES ASSUME Init PROVE QuietInv
  OBVIOUS
<1>1. MaxLen \in Nat \ {0} /\ 0 \in 0 .. MaxLen
  BY ResyncAssumption
<1>2. PICK l \in Labels : remote = <<l>>
  BY DEF Init
<1>3. remote \in Seq(Labels) /\ Len(remote) = 1
  BY <1>2
<1>4. local \in [Heights -> Seq(Labels)] /\ \A g \in Heights : local[g] = <<>>
  BY DEF Init
<1>5. Types
  BY <1>1, <1>3, <1>4 DEF Init, Types
<1>6. Contiguous(0)
  BY <1>1, <1>4 DEF Contiguous, Heights
<1>7. Chained(0) /\ Kept(0, 0)
  BY <1>1 DEF Chained, Kept, Init
<1>8. Placed(0, 0)
  BY DEF Placed, Init
<1> QED
  BY <1>1, <1>5, <1>6, <1>7, <1>8 DEF QuietInv, Indexed

\* A new block on the backend's chain takes nothing away from what is known of it.
LEMMA ExtendInv ==
    ASSUME Types, NEW n \in 0 .. MaxLen, NEW m \in 0 .. MaxLen, Indexed(n, m), Placed(n, m), Extend
    PROVE  Types' /\ Indexed(n, m)' /\ Placed(n, m)'
<1>1. MaxLen \in Nat /\ Len(remote) \in Nat /\ longest \in Nat /\ n \in Nat /\ m \in Nat
  BY ResyncAssumption DEF Types
<1>2. PICK l \in Labels : remote' = Append(remote, l)
  BY DEF Extend
<1>3. /\ remote' \in Seq(Labels) /\ Len(remote') = Len(remote) + 1
      /\ \A g \in 1 .. Len(remote) : HashAt(g)' = HashAt(g)
  BY <1>2, ExtendHashes
<1>4. Len(remote) < MaxLen /\ longest' = IF longest >= Len(remote) + 1 THEN longest ELSE Len(remote) + 1
  BY <1>1, MaxPair DEF Extend
<1>5. UNCHANGED <<local, undo, pc, startHeight, startHash, forkHeight, parHigh, gpc, ghash,
                  gheight, gblock, bch>>
  BY DEF Extend, dbVars, syncVars, genVars
<1>6. Types'
  BY <1>1, <1>3, <1>4, <1>5 DEF Types
<1>7. \A g \in Nat \ {0} : HashAt(g) # <<>> => HashAt(g)' = HashAt(g)
  BY <1>3, HashFacts
<1>8. Contiguous(n)' /\ Chained(n)'
  BY <1>5 DEF Indexed, Contiguous, Chained
<1>9. Kept(n, m)'
  <2>1. m \in n .. longest'
    BY <1>1, <1>4 DEF Indexed, Kept
  <2>2. ASSUME NEW g \in 1 .. n, g = 1 \/ g + MaxDepth <= m PROVE local[g] = HashAt(g)'
    <3>1. local[g] = HashAt(g)
      BY <2>2 DEF Indexed, Kept
    <3>2. g \in Heights /\ g <= n /\ g \in Nat \ {0}
      BY <1>1 DEF Heights
    <3>3. local[g] # <<>>
      BY <3>2 DEF Indexed, Contiguous
    <3> QED
      BY <1>7, <3>1, <3>2, <3>3
  <2>3. \A g \in 1 .. n : g + Keep > m => g \in undo
    BY DEF Indexed, Kept
  <2> QED
    BY <1>5, <2>1, <2>2, <2>3 DEF Kept
<1>10. Agrees => Agrees'
  <2>1. \A g \in Heights : g \in Nat \ {0}
    BY <1>1 DEF Heights
  <2> QED
    BY <1>5, <1>7, <2>1 DEF Agrees
<1>11. Feed(n) => Feed(n)'
  <2> SUFFICES ASSUME Feed(n) PROVE Feed(n)'
    OBVIOUS
  <2>1. Len(bch) \in Nat
    BY DEF Feed
  <2>2. \A i \in 1 .. Len(bch) : bch[i] = ErrMark \/ (bch[i] = HashAt(n + i)' /\ bch[i] # <<>>)
    BY <1>1, <1>7, <2>1 DEF Feed
  <2>3. ASSUME NEW k \in Nat \ {0}, gheight = k, ghash \in {<<>>, HashAt(gheight)}
        PROVE  ghash' \in {<<>>, HashAt(gheight)'}
    <3>1. HashAt(gheight)' = HashAt(k)'
      BY <1>5, <2>3
    <3>2. ghash = <<>> \/ ghash = HashAt(k)'
      BY <1>7, <2>3
    <3> QED
      BY <1>5, <3>1, <3>2
  <2>4. gpc = "get" => /\ gheight = n + Len(bch) + 1
                       /\ ghash' \in {<<>>, HashAt(gheight)'}
    BY <1>1, <2>1, <2>3 DEF Feed
  <2>5. gpc = "send" => /\ gblock = HashAt(n + Len(bch) + 1) /\ gblock # <<>>
                        /\ gheight = n + Len(bch) + 2
                        /\ ghash' \in {<<>>, HashAt(gheight)'}
    BY <1>1, <2>1, <2>3 DEF Feed
  <2>6. gpc = "send" => gblock' = HashAt(n + Len(bch) + 1)'
    <3>1. n + Len(bch) + 1 \in Nat \ {0}
      BY <1>1, <2>1
    <3>2. gpc = "send" => gblock = HashAt(n + Len(bch) + 1)' 
      BY <1>5, <1>7, <2>5, <3>1
    <3> QED
      BY <1>5, <3>2
  <2> QED
    BY <1>5, <2>2, <2>4, <2>5, <2>6 DEF Feed
<1>12. Placed(n, m)'
  BY <1>1, <1>5, <1>7, <1>10, <1>11 DEF Placed
<1> QED
  BY <1>6, <1>8, <1>9, <1>12 DEF Indexed

\* Between two resyncs the backend keeps the blocks MaxDepth below its longest chain.
LEMMA CutInv ==
    ASSUME Types, NEW n \in 0 .. MaxLen, NEW m \in 0 .. MaxLen, Indexed(n, m), Cut, pc = "idle"
    PROVE  Types' /\ Indexed(n, m)' /\ Placed(n, m)'
<1>1. MaxLen \in Nat /\ Len(remote) \in Nat /\ longest \in Nat /\ n \in Nat /\ m \in Nat /\ MaxDepth \in Nat
  BY ResyncAssumption DEF Types
<1>2. PICK k \in Max({1, longest - MaxDepth}) .. Len(remote) : remote' = SubSeq(remote, 1, k)
  BY Zenon DEF Cut
<1>3. k \in 1 .. Len(remote) /\ k >= longest - MaxDepth
  BY <1>1, MaxPair
<1>4. /\ remote' \in Seq(Labels) /\ Len(remote') = k
      /\ \A g \in 1 .. k : HashAt(g)' = HashAt(g)
  BY <1>2, <1>3, CutHashes
<1>5. UNCHANGED <<longest, local, undo, pc, startHeight, forkHeight, parHigh>>
  BY DEF Cut, dbVars, syncVars
<1>6. Types'
  BY <1>1, <1>3, <1>4, <1>5 DEF Types
<1>7. Contiguous(n)' /\ Chained(n)'
  BY <1>5 DEF Indexed, Contiguous, Chained
<1>8. Kept(n, m)'
  <2>1. m <= longest
    BY DEF Indexed, Kept
  <2>2. ASSUME NEW g \in 1 .. n, g = 1 \/ g + MaxDepth <= m PROVE local[g] = HashAt(g)'
    <3>1. local[g] = HashAt(g)
      BY <2>2 DEF Indexed, Kept
    <3>2. g \in 1 .. k
      BY <1>1, <1>3, <2>1, <2>2
    <3> QED
      BY <1>4, <3>1, <3>2
  <2> QED
    BY <1>5, <2>2 DEF Indexed, Kept
<1>9. Placed(n, m)'
  BY <1>5 DEF Placed
<1> QED
  BY <1>6, <1>7, <1>8, <1>9 DEF Indexed

\* Places of the sync thread that say nothing about the index.
Neutral == {"idle", "best", "compare", "exited", "panic", "interrupted"}

\* A step of the sync thread to one of them, with the index as it is.
LEMMA NeutralStep ==
    ASSUME Types, NEW n \in 0 .. MaxLen, NEW m \in 0 .. MaxLen, Indexed(n, m),
           UNCHANGED <<remote, longest, local, undo>>, pc' \in Neutral,
           startHeight' \in {startHeight, 1}, parHigh' \in Nat, forkHeight' \in Nat
    PROVE  Types' /\ Indexed(n, m)' /\ Placed(n, m)'
<1>1. Types'
  BY DEF Types
<1>2. Indexed(n, m)'
  BY IndexSame
<1>3. Placed(n, m)'
  BY DEF Placed, Neutral
<1> QED
  BY <1>1, <1>2, <1>3

\* Where errors lead.
LEMMA FailPlace == \A e : Fail(e) => pc' \in Neutral
  BY DEF Fail, Neutral

\* resyncIndex: behind, or forked at a block that the backend may have taken back.
LEMMA CompareInv ==
    ASSUME Types, NEW n \in 0 .. MaxLen, NEW m \in 0 .. MaxLen, Indexed(n, m), Compare
    PROVE  Types' /\ Indexed(n, m)' /\ Placed(n, m)'
<1>1. MaxLen \in Nat /\ n \in Nat /\ m \in Nat /\ MaxDepth \in Nat
  BY ResyncAssumption
<1>2. UNCHANGED <<remote, longest, local, undo, parHigh>>
  BY DEF Compare, chainVars, dbVars
<1>3. Contiguous(n) /\ Chained(n) /\ Kept(n, m)
  BY DEF Indexed
<1>4. BestHeight = n /\ BestHash = (IF n = 0 THEN <<>> ELSE local[n]) /\ (BestHash = <<>> <=> n = 0)
  BY <1>3, BestOfContiguous
<1>5. Indexed(n, m)' /\ (Agrees' <=> Agrees)
  BY <1>2, IndexSame
<1>6. CASE BestHash # <<>> /\ HashAt(BestHeight) # BestHash
  <2>1. pc' = "fork" /\ forkHeight' = n - 1 /\ startHeight' = startHeight
    BY <1>4, <1>6 DEF Compare
  <2>2. n \in 1 .. n /\ local[n] # HashAt(n)
    BY <1>1, <1>4, <1>6
  <2>3. n # 1 /\ ~(n + MaxDepth <= m)
    BY <1>3, <2>2 DEF Kept
  <2>4. forkHeight' \in 1 .. n /\ m <= forkHeight' + MaxDepth /\ forkHeight' \in Nat
    BY <1>1, <2>1, <2>2, <2>3
  <2>5. Types'
    BY <1>2, <2>1, <2>4 DEF Types
  <2>6. Placed(n, m)'
    BY <2>1, <2>4 DEF Placed
  <2> QED
    BY <1>5, <2>5, <2>6
<1>7. CASE ~(BestHash # <<>> /\ HashAt(BestHeight) # BestHash)
  <2>1. pc' = "startHash" /\ forkHeight' = forkHeight
        /\ startHeight' = (IF n = 0 THEN startHeight ELSE n + 1)
    BY <1>4, <1>7 DEF Compare
  <2>2. n # 0 => local[n] = HashAt(n)
    BY <1>4, <1>7
  <2>3. Agrees
    BY <1>3, <2>2, TipAgrees
  <2>4. startHeight' = n + 1
    <3>1. CASE n = 0
      <4>1. 1 \in Heights /\ local[1] = <<>>
        BY <1>3, <3>1, ResyncAssumption DEF Contiguous, Heights
      <4>2. startHeight = 1
        BY <4>1 DEF Types
      <4> QED
        BY <2>1, <3>1, <4>2
    <3>2. CASE n # 0
      BY <2>1, <3>2
    <3> QED
      BY <3>1, <3>2
  <2>5. Types'
    <3>1. local[1] = <<>> => startHeight' = 1
      <4>1. 1 \in Heights /\ (local[1] = <<>> => n = 0)
        BY <1>1, <1>3, ResyncAssumption DEF Contiguous, Heights
      <4> QED
        BY <2>4, <4>1
    <3>2. startHeight' \in Nat
      BY <1>1, <2>4
    <3> QED
      BY <1>2, <2>1, <3>1, <3>2 DEF Types
  <2>6. Placed(n, m)'
    BY <1>5, <2>1, <2>3, <2>4 DEF Placed
  <2> QED
    BY <1>5, <2>5, <2>6
<1> QED
  BY <1>6, <1>7

\* resyncIndex: the hash of the block after the best indexed one.
LEMMA StartInv ==
    ASSUME Types, NEW n \in 0 .. MaxLen, NEW m \in 0 .. MaxLen, Indexed(n, m), Placed(n, m),
           GetStartHash
    PROVE  Types' /\ Indexed(n, m)' /\ Placed(n, m)'
<1>1. UNCHANGED <<remote, longest, local, undo, startHeight, forkHeight, parHigh>>
  BY DEF GetStartHash, chainVars, dbVars
<1>2. Indexed(n, m)' /\ (Agrees' <=> Agrees) /\ \A g : HashAt(g)' = HashAt(g)
  BY <1>1, IndexSame
<1>3. CASE startHash' = <<>>
  <2>1. pc' \in Neutral
    BY <1>3, FailPlace DEF GetStartHash
  <2>2. parHigh' \in Nat /\ forkHeight' \in Nat
    BY <1>1 DEF Types
  <2> QED
    BY <1>1, <2>1, <2>2, NeutralStep
<1>4. CASE startHash' # <<>>
  <2>1. pc = "startHash" /\ pc' \in {"bestHeight", "spawn"} /\ startHash' = HashAt(startHeight)
    BY <1>4 DEF GetStartHash
  <2>2. Agrees /\ startHeight = n + 1
    BY <2>1 DEF Placed
  <2>3. startHash' = HashAt(n + 1)'
    BY <1>2, <2>1, <2>2
  <2>4. Placed(n, m)'
    BY <1>1, <1>2, <1>4, <2>1, <2>2, <2>3 DEF Placed
  <2>5. Types'
    BY <1>1 DEF Types
  <2> QED
    BY <1>2, <2>4, <2>5
<1> QED
  BY <1>3, <1>4

\* Where every indexed block is on the backend's chain, the mark may be raised.
LEMMA RaiseMark ==
    ASSUME Types, NEW n \in 0 .. MaxLen, NEW m \in 0 .. MaxLen, NEW k \in m .. longest,
           Indexed(n, m), Agrees
    PROVE  k \in 0 .. MaxLen /\ Indexed(n, k)
<1>1. MaxLen \in Nat /\ longest \in 0 .. MaxLen /\ Keep \in Nat
  BY ResyncAssumption DEF Types
<1>2. k \in 0 .. MaxLen /\ k \in n .. longest
  BY <1>1 DEF Indexed, Kept
<1>3. ASSUME NEW g \in 1 .. n PROVE local[g] = HashAt(g)
  <2>1. g \in Heights /\ g <= n
    BY <1>1 DEF Heights
  <2> QED
    BY <2>1 DEF Agrees, Indexed, Contiguous
<1>4. ASSUME NEW g \in 1 .. n, g + Keep > k PROVE g \in undo
  <2>1. g + Keep > m
    BY <1>1, <1>2, <1>4
  <2> QED
    BY <2>1 DEF Indexed, Kept
<1> QED
  BY <1>2, <1>3, <1>4 DEF Indexed, Kept

\* resyncIndex: the parallel load will reach the backend's best height.
LEMMA BestHeightInv ==
    ASSUME Types, NEW n \in 0 .. MaxLen, NEW m \in 0 .. MaxLen, Indexed(n, m), Placed(n, m),
           GetBestHeight
    PROVE  \E k \in 0 .. MaxLen : Types' /\ Indexed(n, k)' /\ Placed(n, k)'
<1>1. /\ UNCHANGED <<remote, longest, local, undo, startHeight, startHash>>
      /\ pc = "bestHeight" /\ parHigh' = Len(remote) /\ forkHeight' \in {forkHeight, startHeight}
  BY DEF GetBestHeight, chainVars, dbVars
<1>2. /\ MaxLen \in Nat /\ Len(remote) \in Nat /\ longest \in Len(remote) .. MaxLen
      /\ n \in Nat /\ m \in Nat
  BY ResyncAssumption DEF Types
<1>3. parHigh' \in Nat /\ forkHeight' \in Nat
  BY <1>1, <1>2 DEF Types
<1>4. CASE pc' \in Neutral
  BY <1>1, <1>3, <1>4, NeutralStep
<1>5. CASE pc' \notin Neutral
  <2>1. \/ pc' = "parallel" /\ forkHeight' = startHeight
        \/ pc' = "spawn"
    <3>1. ~(parHigh' < startHeight)
      BY <1>5, FailPlace DEF GetBestHeight
    <3> QED
      BY <3>1 DEF GetBestHeight
  <2>2. Agrees /\ startHeight = n + 1 /\ startHash = HashAt(n + 1) /\ startHash # <<>>
    BY <1>1 DEF Placed
  <2>m. m <= longest
    BY DEF Indexed, Kept
  <2>k. PICK k \in m .. longest : Len(remote) <= k
    BY <1>2, <2>m
  <2>3. parHigh' <= k
    BY <1>1, <2>k
  <2>4. k \in 0 .. MaxLen /\ Indexed(n, k)
    BY <2>2, RaiseMark
  <2>5. Indexed(n, k)' /\ Agrees' /\ HashAt(n + 1)' = HashAt(n + 1)
    BY <1>1, <2>2, <2>4, IndexSame
  <2>6. Placed(n, k)'
    BY <1>1, <2>1, <2>2, <2>3, <2>5 DEF Placed
  <2>7. Types'
    BY <1>1, <1>3 DEF Types
  <2> QED
    BY <2>4, <2>5, <2>6, <2>7
<1> QED
  BY <1>4, <1>5

\* The block at n + 1 of the backend's chain is written: the index grows by it.  Undo
\* data may be missing only where it is Keep below the mark.
LEMMA Grows ==
    ASSUME Types, NEW n \in 0 .. MaxLen, NEW m \in 0 .. MaxLen, Indexed(n, m), Agrees,
           n + 1 \in 1 .. Len(remote), NEW k \in m .. longest, n + 1 <= k,
           UNCHANGED <<remote, longest, startHeight, parHigh>>, forkHeight' \in Nat,
           local' = [local EXCEPT ![n + 1] = HashAt(n + 1)],
           undo' \subseteq Heights, \A g \in undo \cup {n + 1} : g + Keep > k => g \in undo'
    PROVE  /\ n + 1 \in 0 .. MaxLen /\ k \in 0 .. MaxLen
           /\ Types' /\ Indexed(n + 1, k)' /\ Agrees' /\ \A g : HashAt(g)' = HashAt(g)
<1>1. /\ MaxLen \in Nat \ {0} /\ Len(remote) \in 1 .. MaxLen /\ longest \in Len(remote) .. MaxLen
      /\ n \in Nat /\ m \in Nat /\ n + 1 \in Nat \ {0}
  BY ResyncAssumption DEF Types
<1>2. n + 1 \in 0 .. MaxLen /\ n + 1 \in Heights /\ k \in 0 .. MaxLen /\ k \in (n + 1) .. longest
  BY <1>1 DEF Heights
<1>3. \A g : HashAt(g)' = HashAt(g)
  BY DEF HashAt
<1>4. HashAt(n + 1) \in Seq(Labels) /\ HashAt(n + 1) # <<>>
  BY HashFacts
<1>5. local \in [Heights -> Seq(Labels)]
  BY DEF Types
<1>6. /\ local' \in [Heights -> Seq(Labels)] /\ local'[n + 1] = HashAt(n + 1)
      /\ \A g \in Heights \ {n + 1} : local'[g] = local[g]
  BY <1>2, <1>4, <1>5
<1>7. Contiguous(n + 1)'
  <2> SUFFICES ASSUME NEW g \in Heights PROVE local'[g] # <<>> <=> g <= n + 1
    BY DEF Contiguous
  <2>1. CASE g = n + 1
    BY <1>1, <1>4, <1>6, <2>1
  <2>2. CASE g # n + 1
    <3>1. local[g] # <<>> <=> g <= n
      BY DEF Indexed, Contiguous
    <3>2. g \in Nat
      BY <1>1 DEF Heights
    <3> QED
      BY <1>1, <1>6, <2>2, <3>1, <3>2
  <2> QED
    BY <2>1, <2>2
<1>8. Agrees'
  <2> SUFFICES ASSUME NEW g \in Heights, local'[g] # <<>> PROVE local'[g] = HashAt(g)
    BY <1>3 DEF Agrees
  <2> QED
    BY <1>6 DEF Agrees
<1>9. Types'
  <2>1. local'[1] = <<>> => startHeight = 1
    <3>1. 1 \in Heights /\ (local[1] = <<>> => startHeight = 1)
      BY <1>1 DEF Types, Heights
    <3> QED
      BY <1>4, <1>6, <3>1
  <2> QED
    BY <1>6, <2>1 DEF Types
<1>a. ASSUME NEW g \in 1 .. n + 1 PROVE local'[g] = HashAt(g)'
  <2>1. g \in Heights /\ g <= n + 1
    BY <1>1, <1>2 DEF Heights
  <2> QED
    BY <1>7, <1>8, <2>1 DEF Contiguous, Agrees
<1>10. Chained(n + 1)'
  <2>1. remote \in Seq(Labels) /\ n + 1 <= Len(remote)
    BY <1>1 DEF Types
  <2>2. \A g \in 1 .. n + 1 : local'[g] = SubSeq(remote, 1, g)
    <3>1. \A g \in 1 .. n + 1 : HashAt(g) = SubSeq(remote, 1, g)
      BY <1>1, <2>1 DEF HashAt
    <3> QED
      BY <1>3, <1>a, <3>1
  <2> QED
    BY <1>1, <2>1, <2>2, PrefixesChained DEF Chained
<1>11. Kept(n + 1, k)'
  <2>1. \A g \in 1 .. n + 1 : local'[g] = HashAt(g)'
    BY <1>a
  <2>2. ASSUME NEW g \in 1 .. n + 1, g + Keep > k PROVE g \in undo'
    <3>1. CASE g = n + 1
      BY <2>2, <3>1
    <3>2. CASE g # n + 1
      <4>1. g \in 1 .. n
        BY <1>1, <3>2
      <4>2. g + Keep > m
        BY <1>1, <1>2, <2>2, <4>1, ResyncAssumption
      <4>3. g \in undo
        BY <4>1, <4>2 DEF Indexed, Kept
      <4> QED
        BY <2>2, <4>3
    <3> QED
      BY <3>1, <3>2
  <2> QED
    BY <1>2, <2>1, <2>2 DEF Kept
<1> QED
  BY <1>2, <1>3, <1>7, <1>8, <1>9, <1>10, <1>11 DEF Indexed

\* ConnectBlocksParallel writes the next block; undo data for the last Keep blocks.
LEMMA ParallelInv ==
    ASSUME Types, NEW n \in 0 .. MaxLen, NEW m \in 0 .. MaxLen, Indexed(n, m), Placed(n, m),
           ParallelBlock
    PROVE  /\ n + 1 \in 0 .. MaxLen
           /\ Types' /\ Indexed(n + 1, m)' /\ Placed(n + 1, m)'
<1>1. /\ pc = "parallel" /\ forkHeight <= parHigh /\ HashAt(forkHeight) # <<>>
      /\ local' = [local EXCEPT ![forkHeight] = HashAt(forkHeight)]
      /\ undo' = undo \union {g \in {forkHeight} : g + Keep > parHigh}
      /\ forkHeight' = forkHeight + 1
      /\ UNCHANGED <<remote, longest, startHeight, startHash, parHigh, pc>>
  BY DEF ParallelBlock, chainVars
<1>2. Agrees /\ forkHeight = n + 1 /\ parHigh <= m
  BY <1>1 DEF Placed
<1>3. MaxLen \in Nat /\ n \in Nat /\ m \in Nat /\ Keep \in Nat /\ parHigh \in Nat /\ m <= longest
      /\ longest \in Nat
  BY ResyncAssumption DEF Types, Indexed, Kept
<1>4. n + 1 \in 1 .. Len(remote)
  BY <1>1, <1>2, <1>3, HashFacts
<1>5. m \in m .. longest /\ n + 1 <= m /\ forkHeight' \in Nat
  BY <1>1, <1>2, <1>3
<1>6. undo' \subseteq Heights /\ \A g \in undo \cup {n + 1} : g + Keep > m => g \in undo'
  <2>1. undo \subseteq Heights /\ n + 1 \in Heights /\ \A g \in Heights : g \in Nat
    BY <1>3, <1>4 DEF Types, Heights
  <2> QED
    BY <1>1, <1>2, <1>3, <2>1
<1>7. /\ n + 1 \in 0 .. MaxLen
      /\ Types' /\ Indexed(n + 1, m)' /\ Agrees'
  BY <1>1, <1>2, <1>4, <1>5, <1>6, Grows, Zenon
<1>8. Placed(n + 1, m)'
  BY <1>1, <1>2, <1>7 DEF Placed
<1> QED
  BY <1>7, <1>8

\* handleFork: a height where the index and the backend differ is above what the
\* backend keeps, and so is the search.
LEMMA ForkInv ==
    ASSUME Types, NEW n \in 0 .. MaxLen, NEW m \in 0 .. MaxLen, Indexed(n, m), Placed(n, m),
           ForkSearch
    PROVE  Types' /\ Indexed(n, m)' /\ Placed(n, m)'
<1>1. pc = "fork" /\ UNCHANGED <<remote, longest, local, undo, startHeight, parHigh>>
  BY DEF ForkSearch, chainVars, dbVars
<1>2. Indexed(n, m)'
  BY <1>1, IndexSame
<1>3. forkHeight \in 1 .. n /\ m <= forkHeight + MaxDepth
  BY <1>1 DEF Placed
<1>4. MaxLen \in Nat /\ n \in Nat /\ m \in Nat /\ MaxDepth \in Nat /\ forkHeight \in Nat
  BY ResyncAssumption DEF Types
<1>5. pc' \in {"fork", "disconnect"} /\ forkHeight' \in 1 .. n /\ m <= forkHeight' + MaxDepth
  <2>1. CASE forkHeight = 0 \/ local[forkHeight] \in {<<>>, HashAt(forkHeight)}
    BY <1>3, <2>1 DEF ForkSearch
  <2>2. CASE ~(forkHeight = 0 \/ local[forkHeight] \in {<<>>, HashAt(forkHeight)})
    <3>1. pc' = "fork" /\ forkHeight' = forkHeight - 1
      BY <1>1, <2>2, ZenonT(30) DEF ForkSearch
    <3>2. local[forkHeight] # HashAt(forkHeight)
      BY <2>2
    <3>3. forkHeight # 1 /\ ~(forkHeight + MaxDepth <= m)
      BY <1>3, <3>2 DEF Indexed, Kept
    <3> QED
      BY <1>3, <1>4, <3>1, <3>3
  <2> QED
    BY <2>1, <2>2
<1>6. Types'
  BY <1>1, <1>4, <1>5 DEF Types
<1>7. Placed(n, m)'
  BY <1>5 DEF Placed
<1> QED
  BY <1>2, <1>6, <1>7

\* With undo data for at least MaxDepth blocks, handleFork finds it for the whole
\* range that is disconnected.
LEMMA RangeUndoable ==
    ASSUME Types, NEW n \in 0 .. MaxLen, NEW m \in 0 .. MaxLen, Indexed(n, m), Placed(n, m),
           pc = "disconnect", MaxDepth <= Keep
    PROVE  (forkHeight + 1) .. BestHeight \subseteq undo
<1>1. forkHeight \in 1 .. n /\ m <= forkHeight + MaxDepth
  BY DEF Placed
<1>2. n \in Nat /\ m \in Nat /\ MaxDepth \in Nat /\ Keep \in Nat /\ forkHeight \in Nat
  BY ResyncAssumption DEF Types
<1>3. BestHeight = n
  BY BestOfContiguous DEF Indexed
<1>4. ASSUME NEW g \in (forkHeight + 1) .. n PROVE g \in undo
  <2>1. g \in 1 .. n /\ g + Keep > m
    BY <1>1, <1>2
  <2> QED
    BY <2>1 DEF Indexed, Kept
<1> QED
  BY <1>3, <1>4

\* handleFork: the index is cut down to the common block.
LEMMA DisconnectInv ==
    ASSUME Types, NEW n \in 0 .. MaxLen, NEW m \in 0 .. MaxLen, Indexed(n, m), Placed(n, m),
           Disconnect, (forkHeight + 1) .. BestHeight \subseteq undo
    PROVE  /\ forkHeight \in 0 .. MaxLen
           /\ Types' /\ Indexed(forkHeight, m)' /\ Placed(forkHeight, m)'
<1>1. pc = "disconnect" /\ UNCHANGED <<remote, longest, startHeight, forkHeight, parHigh>>
  BY DEF Disconnect, chainVars
<1>2. forkHeight \in 1 .. n
  BY <1>1 DEF Placed
<1>3. MaxLen \in Nat \ {0} /\ n \in Nat /\ m \in Nat /\ forkHeight \in Nat /\ n <= MaxLen
  BY ResyncAssumption DEF Types
<1>4. BestHeight = n
  BY BestOfContiguous DEF Indexed
<1>5. /\ local' = [g \in Heights |-> IF g \in (forkHeight + 1) .. n THEN <<>> ELSE local[g]]
      /\ undo' = undo \ ((forkHeight + 1) .. n) /\ pc' = "best"
  BY <1>4 DEF Disconnect
<1>6. \A g : HashAt(g)' = HashAt(g)
  BY <1>1 DEF HashAt
<1>7. local \in [Heights -> Seq(Labels)] /\ undo \subseteq Heights
  BY DEF Types
<1>8. local' \in [Heights -> Seq(Labels)] /\ undo' \subseteq Heights
  BY <1>5, <1>7
<1>9. \A g \in 1 .. forkHeight : g \in Heights /\ g \in 1 .. n /\ local'[g] = local[g]
  BY <1>2, <1>3, <1>5 DEF Heights
<1>10. Contiguous(forkHeight)'
  <2> SUFFICES ASSUME NEW g \in Heights PROVE local'[g] # <<>> <=> g <= forkHeight
    BY <1>1 DEF Contiguous
  <2>1. local[g] # <<>> <=> g <= n
    BY DEF Indexed, Contiguous
  <2>2. g \in Nat
    BY <1>3 DEF Heights
  <2> QED
    BY <1>2, <1>3, <1>5, <2>1, <2>2
<1>11. Chained(forkHeight)'
  <2> SUFFICES ASSUME NEW h \in 1 .. forkHeight
               PROVE  Len(local'[h]) = h /\ \A g \in 1 .. h : local'[g] = SubSeq(local'[h], 1, g)
    BY <1>1 DEF Chained
  <2>1. h \in 1 .. n /\ local'[h] = local[h] /\ \A g \in 1 .. h : local'[g] = local[g]
    BY <1>3, <1>9
  <2> QED
    BY <2>1 DEF Indexed, Chained
<1>12. Kept(forkHeight, m)'
  <2>1. m \in forkHeight .. longest
    BY <1>2, <1>3 DEF Indexed, Kept
  <2>2. ASSUME NEW g \in 1 .. forkHeight, g + Keep > m PROVE g \in undo'
    <3>1. g \in undo
      BY <1>9, <2>2 DEF Indexed, Kept
    <3> QED
      BY <1>3, <1>5, <3>1
  <2>3. ASSUME NEW g \in 1 .. forkHeight, g = 1 \/ g + MaxDepth <= m PROVE local'[g] = HashAt(g)'
    <3>1. local[g] = HashAt(g)
      BY <1>9, <2>3 DEF Indexed, Kept
    <3> QED
      BY <1>6, <1>9, <3>1
  <2> QED
    BY <1>1, <2>1, <2>2, <2>3 DEF Kept
<1>13. Types'
  <2>1. local'[1] = local[1]
    BY <1>2, <1>3, <1>9
  <2> QED
    BY <1>1, <1>8, <2>1 DEF Types
<1>14. Placed(forkHeight, m)'
  BY <1>5 DEF Placed
<1> QED
  BY <1>2, <1>3, <1>10, <1>11, <1>12, <1>13, <1>14 DEF Indexed

\* connectBlocks starts getBlockChain at the block after the best indexed one.
LEMMA SpawnInv ==
    ASSUME Types, NEW n \in 0 .. MaxLen, NEW m \in 0 .. MaxLen, Indexed(n, m), Placed(n, m), Spawn
    PROVE  Types' /\ Indexed(n, m)' /\ Placed(n, m)'
<1>1. /\ UNCHANGED <<remote, longest, local, undo, startHeight, startHash, forkHeight, parHigh>>
      /\ pc = "spawn" /\ pc' = "connect" /\ bch' = <<>>
      /\ gpc' = "get" /\ ghash' = startHash /\ gheight' = startHeight
  BY DEF Spawn, chainVars, dbVars
<1>2. Indexed(n, m)' /\ (Agrees' <=> Agrees) /\ \A g : HashAt(g)' = HashAt(g)
  BY <1>1, IndexSame
<1>3. Agrees /\ startHeight = n + 1 /\ startHash = HashAt(n + 1)
  BY <1>1 DEF Placed
<1>4. Feed(n)'
  <2>1. bch' \in Seq(Seq(Labels) \cup {ErrMark}) /\ Len(bch') = 0
    BY <1>1
  <2>2. gheight' = n + Len(bch') + 1
    BY <1>1, <1>3, <2>1
  <2>3. ghash' = HashAt(gheight)'
    BY <1>1, <1>2, <1>3
  <2> QED
    BY <1>1, <2>1, <2>2, <2>3 DEF Feed
<1>5. Placed(n, m)'
  BY <1>1, <1>2, <1>3, <1>4 DEF Placed
<1>6. Types'
  BY <1>1 DEF Types
<1> QED
  BY <1>2, <1>5, <1>6

\* getBlockChain: a hash is looked up, a block is read with the hash of the next one,
\* it is sent, or an error is.
LEMMA ProduceInv ==
    ASSUME Types, NEW n \in 0 .. MaxLen, NEW m \in 0 .. MaxLen, Indexed(n, m), Placed(n, m),
           Produce \/ ProduceError
    PROVE  Types' /\ Indexed(n, m)' /\ Placed(n, m)'
<1>1. UNCHANGED <<remote, longest, local, undo, pc, startHeight, startHash, forkHeight, parHigh>>
  BY DEF Produce, ProduceHash, ProduceBlock, ProduceSend, ProduceError, chainVars, dbVars, syncVars
<1>2. Indexed(n, m)' /\ (Agrees' <=> Agrees) /\ \A g : HashAt(g)' = HashAt(g)
  BY <1>1, IndexSame
<1>3. ASSUME Feed(n) PROVE Feed(n)'
  <2> DEFINE T == Seq(Labels) \cup {ErrMark}
  <2>1. bch \in Seq(T) /\ Len(bch) \in Nat /\ n \in Nat
    BY <1>3 DEF Feed
  <2>2. \A i \in 1 .. Len(bch) : bch[i] = ErrMark \/ (bch[i] = HashAt(n + i) /\ bch[i] # <<>>)
    BY <1>3 DEF Feed
  <2>3. CASE ProduceHash
    <3>1. gpc = "get" /\ ghash' = HashAt(gheight) /\ UNCHANGED <<gheight, gblock, bch>>
          /\ gpc' \in {"exit", "get"}
      BY <2>3 DEF ProduceHash
    <3>2. gheight = n + Len(bch) + 1
      BY <1>3, <3>1 DEF Feed
    <3>3. ghash' = HashAt(gheight)'
      BY <1>2, <3>1
    <3> QED
      BY <1>2, <2>1, <2>2, <3>1, <3>2, <3>3 DEF Feed
  <2>4. CASE ProduceBlock
    <3>1. /\ gpc = "get" /\ gpc' = "send" /\ ghash # <<>> /\ gblock' = ghash /\ ghash' = NextOf(ghash)
          /\ gheight' = gheight + 1 /\ bch' = bch
      BY <2>4 DEF ProduceBlock
    <3>2. gheight = n + Len(bch) + 1 /\ ghash = HashAt(gheight) /\ gheight \in Nat \ {0}
      BY <1>3, <2>1, <3>1 DEF Feed
    <3>3. Len(ghash) = gheight
      <4>1. gheight \in 1 .. Len(remote)
        BY <3>1, <3>2, HashFacts
      <4> QED
        BY <3>2, <4>1, HashFacts
    <3>4. ghash' = HashAt(gheight + 1)
      BY <3>1, <3>2, <3>3 DEF NextOf
    <3>5. gheight' = n + Len(bch') + 2
      BY <2>1, <3>1, <3>2
    <3>6. ghash' = HashAt(gheight)' /\ gblock' = HashAt(n + Len(bch) + 1)'
      BY <1>2, <3>1, <3>2, <3>4
    <3> QED
      BY <1>2, <2>1, <2>2, <3>1, <3>5, <3>6 DEF Feed
  <2>5. CASE ProduceSend
    <3>1. /\ gpc = "send" /\ gpc' = "get" /\ bch' = Append(bch, gblock)
          /\ UNCHANGED <<ghash, gheight, gblock>>
      BY <2>5 DEF ProduceSend
    <3>2. /\ gblock = HashAt(n + Len(bch) + 1) /\ gblock # <<>>
          /\ gheight = n + Len(bch) + 2 /\ ghash \in {<<>>, HashAt(gheight)}
      BY <1>3, <3>1 DEF Feed
    <3>3. gblock \in T
      <4>1. n + Len(bch) + 1 \in Nat \ {0}
        BY <2>1
      <4>2. n + Len(bch) + 1 \in 1 .. Len(remote)
        BY <3>2, <4>1, HashFacts
      <4> QED
        BY <3>2, <4>2, HashFacts
    <3>4. /\ bch' \in Seq(T) /\ Len(bch') = Len(bch) + 1 /\ bch'[Len(bch) + 1] = gblock
          /\ \A i \in 1 .. Len(bch) : bch'[i] = bch[i]
      BY <2>1, <3>1, <3>3, AppendProperties
    <3>5. \A i \in 1 .. Len(bch') : bch'[i] = ErrMark \/ (bch'[i] = HashAt(n + i)' /\ bch'[i] # <<>>)
      <4> SUFFICES ASSUME NEW i \in 1 .. Len(bch')
                   PROVE  bch'[i] = ErrMark \/ (bch'[i] = HashAt(n + i) /\ bch'[i] # <<>>)
        BY <1>2
      <4>1. CASE i \in 1 .. Len(bch)
        BY <2>2, <3>4, <4>1
      <4>2. CASE i = Len(bch) + 1
        BY <2>1, <3>2, <3>4, <4>2
      <4> QED
        BY <2>1, <3>4, <4>1, <4>2
    <3>6. gheight' = n + Len(bch') + 1 /\ ghash' \in {<<>>, HashAt(gheight)'}
      BY <1>2, <2>1, <3>1, <3>2, <3>4
    <3> QED
      BY <3>1, <3>4, <3>5, <3>6 DEF Feed
  <2>6. CASE ProduceError
    <3>1. gpc' = "exit" /\ bch' = Append(bch, ErrMark)
      BY <2>6 DEF ProduceError
    <3>2. /\ bch' \in Seq(T) /\ Len(bch') = Len(bch) + 1 /\ bch'[Len(bch) + 1] = ErrMark
          /\ \A i \in 1 .. Len(bch) : bch'[i] = bch[i]
      BY <2>1, <3>1, AppendProperties
    <3>3. \A i \in 1 .. Len(bch') : bch'[i] = ErrMark \/ (bch'[i] = HashAt(n + i)' /\ bch'[i] # <<>>)
      <4> SUFFICES ASSUME NEW i \in 1 .. Len(bch')
                   PROVE  bch'[i] = ErrMark \/ (bch'[i] = HashAt(n + i) /\ bch'[i] # <<>>)
        BY <1>2
      <4>1. CASE i \in 1 .. Len(bch)
        BY <2>2, <3>2, <4>1
      <4>2. CASE i = Len(bch) + 1
        BY <3>2, <4>2
      <4> QED
        BY <2>1, <3>2, <4>1, <4>2
    <3> QED
      BY <3>1, <3>2, <3>3 DEF Feed
  <2> QED
    BY <2>3, <2>4, <2>5, <2>6 DEF Produce
<1>4. Placed(n, m)'
  BY <1>1, <1>2, <1>3 DEF Placed
<1>5. Types'
  BY <1>1 DEF Types
<1> QED
  BY <1>2, <1>4, <1>5

\* connectBlocks: the next result is connected, or its error ends the resync.
LEMMA ConsumeInv ==
    ASSUME Types, NEW n \in 0 .. MaxLen, NEW m \in 0 .. MaxLen, Indexed(n, m), Placed(n, m), Consume
    PROVE  \E h \in 0 .. MaxLen : \E k \in 0 .. MaxLen : Types' /\ Indexed(h, k)' /\ Placed(h, k)'
<1>1. /\ pc = "connect" /\ bch # <<>> /\ bch' = Tail(bch)
      /\ UNCHANGED <<remote, longest, startHeight, forkHeight, parHigh, gpc, ghash, gheight, gblock>>
  BY DEF Consume, chainVars
<1>2. Agrees /\ Feed(n)
  BY <1>1 DEF Placed
<1>3. parHigh' \in Nat /\ forkHeight' \in Nat
  BY <1>1 DEF Types
<1>4. CASE Head(bch) = ErrMark
  <2>1. pc' \in Neutral /\ UNCHANGED <<local, undo>>
    BY <1>4, FailPlace DEF Consume, dbVars
  <2> QED
    BY <1>1, <1>3, <2>1, NeutralStep
<1>5. CASE Head(bch) # ErrMark
  <2> DEFINE T == Seq(Labels) \cup {ErrMark}
  <2>1. bch \in Seq(T) /\ Len(bch) \in Nat \ {0} /\ n \in Nat /\ m \in Nat /\ Keep \in Nat
    BY <1>1, <1>2, EmptySeq, ResyncAssumption DEF Feed
  <2>2. Head(bch) = HashAt(n + 1) /\ Head(bch) # <<>>
    <3>1. Head(bch) = bch[1] /\ 1 \in 1 .. Len(bch)
      BY <2>1
    <3> QED
      BY <1>2, <1>5, <2>1, <3>1 DEF Feed
  <2>3. n + 1 \in 1 .. Len(remote) /\ Len(Head(bch)) = n + 1
    <3>1. n + 1 \in 1 .. Len(remote)
      BY <2>1, <2>2, HashFacts
    <3> QED
      BY <2>2, <3>1, HashFacts
  <2>4. /\ local' = [local EXCEPT ![n + 1] = HashAt(n + 1)]
        /\ undo' = {g \in undo : g + Keep > n + 1} \union {n + 1}
        /\ pc' = pc
    BY <1>5, <2>2, <2>3 DEF Consume, DbConnect
  <2>5. m <= longest /\ Len(remote) <= longest /\ longest \in Nat /\ Len(remote) \in Nat
    BY DEF Indexed, Kept, Types
  <2>6. PICK k \in m .. longest : n + 1 <= k
    BY <2>1, <2>3, <2>5
  <2>7. undo' \subseteq Heights /\ \A g \in undo \cup {n + 1} : g + Keep > k => g \in undo'
    <3>1. undo \subseteq Heights /\ n + 1 \in Heights /\ \A g \in Heights : g \in Nat
      BY <2>1, <2>3, ResyncAssumption DEF Types, Heights
    <3>2. k \in Nat
      BY <2>1, <2>5
    <3> QED
      BY <2>1, <2>4, <2>6, <3>1, <3>2
  <2>8. /\ n + 1 \in 0 .. MaxLen /\ k \in 0 .. MaxLen
        /\ Types' /\ Indexed(n + 1, k)' /\ Agrees' /\ \A g : HashAt(g)' = HashAt(g)
    BY <1>1, <1>2, <1>3, <2>3, <2>4, <2>6, <2>7, Grows, Zenon
  <2>9. Feed(n + 1)'
    <3>1. /\ bch' \in Seq(T) /\ Len(bch') = Len(bch) - 1
          /\ \A i \in 1 .. Len(bch') : bch'[i] = bch[i + 1]
      BY <1>1, <2>1, HeadTailProperties
    <3>2. \A i \in 1 .. Len(bch') :
             bch'[i] = ErrMark \/ (bch'[i] = HashAt(n + 1 + i)' /\ bch'[i] # <<>>)
      <4> SUFFICES ASSUME NEW i \in 1 .. Len(bch')
                   PROVE  bch'[i] = ErrMark \/ (bch'[i] = HashAt(n + 1 + i) /\ bch'[i] # <<>>)
        BY <2>8, Zenon
      <4>1. i + 1 \in 1 .. Len(bch) /\ n + (i + 1) = n + 1 + i
        BY <2>1, <3>1
      <4> QED
        BY <1>2, <3>1, <4>1, Zenon DEF Feed
    <3>3. n + Len(bch) + 1 = n + 1 + Len(bch') + 1 /\ n + Len(bch) + 2 = n + 1 + Len(bch') + 2
      BY <2>1, <3>1
    <3>4. gpc = "get" => gheight' = n + 1 + Len(bch') + 1 /\ ghash' \in {<<>>, HashAt(gheight)'}
      BY <1>1, <1>2, <2>8, <3>3 DEF Feed
    <3>5. gpc = "send" => /\ gblock' = HashAt(n + 1 + Len(bch') + 1) /\ gblock' # <<>>
                          /\ gheight' = n + 1 + Len(bch') + 2 /\ ghash' \in {<<>>, HashAt(gheight)'}
      BY <1>1, <1>2, <2>8, <3>3 DEF Feed
    <3>6. HashAt(n + 1 + Len(bch) + 1)' = HashAt(n + 1 + Len(bch') + 1)
      BY <2>8
    <3> QED
      BY <1>1, <3>1, <3>2, <3>4, <3>5, <3>6, Zenon DEF Feed
  <2>10. Placed(n + 1, k)'
    BY <1>1, <2>4, <2>8, <2>9 DEF Placed
  <2> QED
    BY <2>8, <2>10
<1> QED
  BY <1>4, <1>5

\* Every step keeps the invariant when the backend is quiet during a resync.
LEMMA QuietNext == ~mode.busy /\ QuietInv /\ [Next]_vars => QuietInv'
<1> SUFFICES ASSUME ~mode.busy, QuietInv, [Next]_vars PROVE QuietInv'
  OBVIOUS
<1>0. Types
  BY DEF QuietInv
<1>n. PICK n \in 0 .. MaxLen : \E k \in 0 .. MaxLen : Indexed(n, k) /\ Placed(n, k)
  BY DEF QuietInv
<1>m. PICK m \in 0 .. MaxLen : Indexed(n, m) /\ Placed(n, m)
  BY <1>n
<1>q. ASSUME Types', Indexed(n, m)', Placed(n, m)' PROVE QuietInv'
  BY <1>q DEF QuietInv
<1>t. startHeight \in Nat /\ parHigh \in Nat /\ forkHeight \in Nat
  BY <1>0 DEF Types
<1>1. CASE Extend
  BY <1>0, <1>m, <1>q, <1>1, ExtendInv
<1>2. CASE Cut
  <2>1. pc = "idle"
    BY <1>2 DEF Cut
  <2> QED
    BY <1>0, <1>m, <1>q, <1>2, <2>1, CutInv
<1>3. CASE ResyncStart \/ GetBest \/ Synced \/ ParallelDone \/ Finish
  <2>1. /\ UNCHANGED <<remote, longest, local, undo, startHeight, parHigh, forkHeight>>
        /\ pc' \in Neutral
    BY <1>3 DEF ResyncStart, GetBest, Synced, ParallelDone, Finish, Neutral, chainVars, dbVars
  <2> QED
    BY <1>0, <1>m, <1>q, <1>t, <2>1, NeutralStep
<1>4. CASE RpcError \/ Interrupt \/ Restart
  <2>1. /\ UNCHANGED <<remote, longest, local, undo, parHigh, forkHeight>>
        /\ startHeight' \in {startHeight, 1} /\ pc' \in Neutral
    BY <1>4, FailPlace DEF RpcError, Interrupt, Restart, Neutral, chainVars, dbVars
  <2> QED
    BY <1>0, <1>m, <1>q, <1>t, <2>1, NeutralStep
<1>5. CASE Compare
  BY <1>0, <1>m, <1>q, <1>5, CompareInv
<1>6. CASE GetStartHash
  BY <1>0, <1>m, <1>q, <1>6, StartInv
<1>7. CASE GetBestHeight
  <2>1. \E k \in 0 .. MaxLen : Types' /\ Indexed(n, k)' /\ Placed(n, k)'
    BY <1>0, <1>m, <1>7, BestHeightInv
  <2> QED
    BY <2>1 DEF QuietInv
<1>8. CASE ParallelBlock
  <2>1. n + 1 \in 0 .. MaxLen /\ Types' /\ Indexed(n + 1, m)' /\ Placed(n + 1, m)'
    BY <1>0, <1>m, <1>8, ParallelInv
  <2> QED
    BY <2>1 DEF QuietInv
<1>9. CASE ForkSearch
  BY <1>0, <1>m, <1>q, <1>9, ForkInv
<1>10. CASE Disconnect
  <2>1. UNCHANGED <<remote, longest, startHeight, parHigh, forkHeight>>
    BY <1>10 DEF Disconnect, chainVars
  <2>2. CASE (forkHeight + 1) .. BestHeight \subseteq undo
    <3>1. /\ forkHeight \in 0 .. MaxLen
          /\ Types' /\ Indexed(forkHeight, m)' /\ Placed(forkHeight, m)'
      BY <1>0, <1>m, <1>10, <2>2, DisconnectInv
    <3>2. PICK h \in 0 .. MaxLen : h = forkHeight
      BY <3>1
    <3>3. Indexed(h, m)' /\ Placed(h, m)'
      BY <2>1, <3>1, <3>2
    <3> QED
      BY <3>1, <3>3 DEF QuietInv
  <2>3. CASE ~((forkHeight + 1) .. BestHeight \subseteq undo)
    <3>1. pc' \in Neutral /\ UNCHANGED <<local, undo>>
      BY <1>10, <2>3, FailPlace DEF Disconnect, dbVars
    <3> QED
      BY <1>0, <1>m, <1>q, <1>t, <2>1, <3>1, NeutralStep
  <2> QED
    BY <2>2, <2>3
<1>11. CASE Spawn
  BY <1>0, <1>m, <1>q, <1>11, SpawnInv
<1>12. CASE Consume
  <2>1. \E h \in 0 .. MaxLen : \E k \in 0 .. MaxLen : Types' /\ Indexed(h, k)' /\ Placed(h, k)'
    BY <1>0, <1>m, <1>12, ConsumeInv
  <2> QED
    BY <2>1 DEF QuietInv
<1>13. CASE Produce \/ ProduceError
  BY <1>0, <1>m, <1>q, <1>13, ProduceInv
<1>14. CASE UNCHANGED vars
  <2>1. UNCHANGED <<remote, longest, local, undo, pc, startHeight, startHash, forkHeight, parHigh,
                    gpc, ghash, gheight, gblock, bch>>
    BY <1>14 DEF vars, chainVars, dbVars, syncVars, genVars
  <2>2. \A g : HashAt(g)' = HashAt(g)
    BY <2>1 DEF HashAt
  <2>3. Types'
    BY <1>0, <2>1 DEF Types
  <2>4. Indexed(n, m)'
    BY <1>m, <2>1, <2>2 DEF Indexed, Contiguous, Chained, Kept
  <2>5. Agrees => Agrees'
    BY <2>1, <2>2 DEF Agrees
  <2>6. Feed(n) => Feed(n)'
    BY <2>1, <2>2 DEF Feed
  <2>7. HashAt(n + 1)' = HashAt(n + 1)
    BY <2>2
  <2>8. Placed(n, m)'
    BY <1>m, <2>1, <2>5, <2>6, <2>7 DEF Placed
  <2> QED
    BY <1>q, <2>3, <2>4, <2>8
<1> QED
  BY <1>1, <1>2, <1>3, <1>4, <1>5, <1>6, <1>7, <1>8, <1>9, <1>10, <1>11, <1>12, <1>13, <1>14
     DEF Next, Sync

-----------------------------------------------------------------------------
(* What holds for every value of the constants *)

\* How the program is run never changes.
LEMMA ModeFixed == [Next]_vars => mode' = mode
  BY Zenon DEF Next, Sync, Produce, Extend, Cut, ResyncStart, GetBest, Synced, Compare, GetStartHash,
         GetBestHeight, ParallelBlock, ParallelDone, ForkSearch, Disconnect, Spawn, Consume,
         Finish, ProduceHash, ProduceBlock, ProduceSend, ProduceError, RpcError, Interrupt,
         Restart, vars, chainVars

\* The index is contiguous, its blocks are ancestors of its best one, and the producer
\* feeds the block that comes next: an invariant of the process when the backend
\* reorganises between resyncs only.
THEOREM QuietIndex == Spec => []IInv
<1>1. Init => IInv
  BY QuietInit DEF IInv
<1>2. IInv /\ [Next]_vars => IInv'
  BY QuietNext, ModeFixed DEF IInv
<1> QED
  BY <1>1, <1>2, PTL DEF Spec

\* An indexed block is the child of the block indexed below it: no gap and no mixture of
\* two forks, across reorganisations, parallel loads, failed calls, interrupts and restarts.
THEOREM IndexIsLinked == Spec => []Linked
<1>1. IInv => Linked
  <2> SUFFICES ASSUME IInv, ~mode.busy, NEW g \in Heights \ {1}, local[g] # <<>>
               PROVE  local[g - 1] = SubSeq(local[g], 1, g - 1)
    BY DEF Linked
  <2>1. PICK n \in 0 .. MaxLen : Contiguous(n) /\ Chained(n)
    BY DEF IInv, QuietInv, Indexed
  <2>2. g \in 1 .. n /\ g - 1 \in 1 .. g
    BY <2>1, ResyncAssumption DEF Contiguous, Heights
  <2> QED
    BY <2>1, <2>2 DEF Chained
<1> QED
  BY <1>1, QuietIndex, PTL

\* handleFork never finds a block without undo data, provided the undo data is kept for
\* at least as many blocks as the backend ever takes back (KeepBlockAddresses).
THEOREM ForksUndoable ==
    ASSUME MaxDepth <= Keep PROVE Spec => []ForksCanBeUndone
<1>1. Init => ForksCanBeUndone
  BY DEF Init, ForksCanBeUndone
<1>2. IInv /\ ForksCanBeUndone /\ [Next]_vars => ForksCanBeUndone'
  <2> SUFFICES ASSUME IInv, ~mode.busy, err # "undo", [Next]_vars PROVE err' # "undo"
    BY ModeFixed DEF ForksCanBeUndone
  <2>1. CASE Disconnect
    <3>1. (forkHeight + 1) .. BestHeight \subseteq undo
      <4>1. PICK n \in 0 .. MaxLen : \E k \in 0 .. MaxLen : Indexed(n, k) /\ Placed(n, k)
        BY DEF IInv, QuietInv
      <4>2. PICK m \in 0 .. MaxLen : Indexed(n, m) /\ Placed(n, m)
        BY <4>1
      <4>3. Types /\ pc = "disconnect"
        BY <2>1 DEF IInv, QuietInv, Disconnect
      <4> QED
        BY <4>2, <4>3, RangeUndoable
    <3> QED
      BY <2>1, <3>1 DEF Disconnect
  <2>2. CASE ~Disconnect
    BY <2>2, Zenon DEF Next, Sync, Produce, Extend, Cut, ResyncStart, GetBest, Synced, Compare,
         GetStartHash, GetBestHeight, ParallelBlock, ParallelDone, ForkSearch, Spawn, Consume,
         Finish, ProduceHash, ProduceBlock, ProduceSend, ProduceError, RpcError, Interrupt,
         Restart, Fail, vars, syncVars
  <2> QED
    BY <2>1, <2>2
<1> QED
  BY <1>1, <1>2, QuietIndex, PTL DEF Spec

\* When the best indexed block is the backend's best block, which is all that resyncIndex
\* compares before it reports the index as synchronised, the whole index is the backend's
\* chain.  (With reorganisations during a resync it is not: SameTipSameChain.)
THEOREM SameTipIsSameChain ==
    Spec => [](~mode.busy /\ BestHash = HashAt(Len(remote)) =>
                   BestHeight = Len(remote) /\ \A g \in 1 .. BestHeight : local[g] = HashAt(g))
<1>1. IInv => (~mode.busy /\ BestHash = HashAt(Len(remote)) =>
                  BestHeight = Len(remote) /\ \A g \in 1 .. BestHeight : local[g] = HashAt(g))
  <2> SUFFICES ASSUME IInv, ~mode.busy, BestHash = HashAt(Len(remote))
               PROVE  BestHeight = Len(remote) /\ \A g \in 1 .. BestHeight : local[g] = HashAt(g)
    OBVIOUS
  <2>1. Types
    BY DEF IInv, QuietInv
  <2>2. PICK n \in 0 .. MaxLen : Contiguous(n) /\ Chained(n)
    BY DEF IInv, QuietInv, Indexed
  <2>3. Len(remote) \in 1 .. Len(remote)
    BY <2>1 DEF Types
  <2>4. HashAt(Len(remote)) # <<>> /\ Len(HashAt(Len(remote))) = Len(remote)
    BY <2>1, <2>3, HashFacts
  <2>5. BestHeight = n /\ n # 0 /\ local[n] = HashAt(Len(remote))
    BY <2>1, <2>2, <2>4, BestOfContiguous
  <2>6. n \in 1 .. n
    BY <2>5
  <2>7. Len(remote) = n
    BY <2>2, <2>4, <2>5, <2>6 DEF Chained
  <2>8. Agrees
    BY <2>1, <2>2, <2>5, <2>7, TipAgrees
  <2>9. ASSUME NEW g \in 1 .. n PROVE local[g] = HashAt(g)
    <3>1. g \in Heights /\ g <= n
      BY ResyncAssumption DEF Heights
    <3> QED
      BY <2>2, <2>8, <3>1 DEF Agrees, Contiguous
  <2> QED
    BY <2>5, <2>7, <2>9
<1> QED
  BY <1>1, QuietIndex, PTL
=============================================================================
