-------------------------- MODULE PushServer_proofs --------------------------
(***************************************************************************)
(* Proofs about the push servers: what clients are told and what they are  *)
(* subscribed to, for any number of clients, addresses and requests, any   *)
(* capacity of the channels and any number of broadcasts.  The broadcasts  *)
(* keep the invariant PushInv too, and the properties follow from it.      *)
(***************************************************************************)
EXTENDS PushServerBase_proofs, FiniteSetTheorems

\* Whom a broadcast finds subscribed, each with the id of the request.
LEMMA SubscribersFacts ==
    ASSUME PushInv, NEW t \in Topics
    PROVE  /\ Subscribers(t) \in SUBSET (Clients \X Nat)
           /\ \A p \in Subscribers(t) : /\ p[1] \in Clients /\ p[2] = subs[t][p[1]]
                                        /\ p[2] # 0 /\ p[2] \in 1 .. asked[p[1]]
           /\ \A c \in Clients : subs[t][c] # 0 => \E p \in Subscribers(t) : p[1] = c
<1>1. \A c \in Clients : subs[t][c] \in Nat /\ subs[t][c] <= asked[c] /\ asked[c] \in Nat
  BY SMTT(30) DEF PushInv, Notified, Types, Ids
<1>2. \A p \in Subscribers(t) : \E c \in Clients : p = <<c, subs[t][c]>> /\ subs[t][c] # 0
  BY DEF Subscribers
<1>3. \A c \in Clients : subs[t][c] # 0 => <<c, subs[t][c]>> \in Subscribers(t)
  BY DEF Subscribers
<1>4. ASSUME NEW p \in Subscribers(t)
      PROVE  /\ p \in Clients \X Nat
             /\ p[1] \in Clients /\ p[2] = subs[t][p[1]] /\ p[2] # 0 /\ p[2] \in 1 .. asked[p[1]]
  <2>1. PICK c \in Clients : p = <<c, subs[t][c]>> /\ subs[t][c] # 0
    BY <1>2
  <2> QED
    BY <1>1, <2>1
<1>5. ASSUME NEW c \in Clients, subs[t][c] # 0 PROVE \E p \in Subscribers(t) : p[1] = c
  BY <1>3, <1>5, Zenon
<1> QED
  BY <1>4, <1>5

\* A broadcast leaves requests and subscriptions alone.
LEMMA CastFrame ==
    ASSUME PushInv, UNCHANGED <<silent, reqVars, subs>>
    PROVE  Ids' /\ Subscribed' /\ Ended' /\ OneAtATime'
<1> USE DEF PushInv, Notified
<1>0. UNCHANGED <<silent, req, script, asked, overlapped, subs>>
  BY DEF reqVars
<1>1. Ids' /\ Subscribed' /\ OneAtATime'
  BY <1>0 DEF Ids, Subscribed, Past, OneAtATime
<1>2. Ended'
  BY <1>0 DEF Ended, Dead, Past
<1> QED
  BY <1>1, <1>2

\* OnNewBlock: every subscriber is owed the block, and it is pending for them.
LEMMA NewBlockInv ==
    ASSUME PushInv, OnNewBlock
    PROVE  PushInv'
<1> USE DEF PushInv, Notified
<1> DEFINE n == events["blocks"] + 1
           new == [pc |-> "loop", topic |-> Block, todo |-> Subscribers(Block), cur |-> {}]
<1>1. /\ UNCHANGED <<conn, closing, out, told, silent, req, script, asked, overlapped, subs>>
      /\ cast["blocks"].pc = "idle"
      /\ cast' = [cast EXCEPT !["blocks"] = new]
      /\ events' = [events EXCEPT !["blocks"] = n]
      /\ owed' = [c \in Clients |-> owed[c] \cup IF subs[Block][c] # 0 THEN {n} ELSE {}]
  <2>1. Cast("loop", Block, Subscribers(Block)) = new
    BY DEF Cast
  <2> HIDE DEF new
  <2> QED
    BY <2>1, Zenon DEF OnNewBlock, chanVars, reqVars
<1>2. Block \in Topics /\ events["blocks"] \in Nat /\ n \in Nat
  BY SMTT(30) DEF Topics, Types, Casters
<1>3. /\ Subscribers(Block) \in SUBSET (Clients \X Nat)
      /\ \A p \in Subscribers(Block) : /\ p[1] \in Clients /\ p[2] = subs[Block][p[1]]
                                       /\ p[2] # 0 /\ p[2] \in 1 .. asked[p[1]]
      /\ \A c \in Clients : subs[Block][c] # 0 => \E p \in Subscribers(Block) : p[1] = c
  BY <1>2, SubscribersFacts
<1>4. new \in Broadcast
  BY <1>2, <1>3, SMTT(30) DEF Broadcast
<1>5. /\ cast'["blocks"] = new /\ cast'["txs"] = cast["txs"] /\ events'["blocks"] = n
      /\ \A c \in Clients : owed'[c] = owed[c] \cup IF subs[Block][c] # 0 THEN {n} ELSE {}
  BY <1>1, SMTT(30) DEF Types, Casters
<1>6. Types'
  <2>1. cast' \in [Casters -> Broadcast]
    BY <1>1, <1>4, Zenon DEF Types
  <2>2. events' \in [Casters -> Nat]
    BY <1>1, <1>2, Zenon DEF Types
  <2>3. owed' \in [Clients -> SUBSET Nat]
    BY <1>1, <1>2, SMTT(30) DEF Types
  <2> QED
    BY <1>1, <2>1, <2>2, <2>3, SMTT(30) DEF Types
<1>7. Channels'
  <2>1. \A c \in Clients : asked[c] = 0 => subs[Block][c] = 0
    BY <1>2, SMTT(30) DEF Ids, Types
  <2> QED
    BY <1>1, <1>5, <2>1 DEF Channels
<1>8. Ids' /\ Subscribed' /\ Ended' /\ OneAtATime'
  BY <1>1, CastFrame DEF reqVars
<1>9. Casting'
  <2>1. /\ new.pc = "loop" /\ new.topic = Block /\ new.todo = Subscribers(Block) /\ new.cur = {}
    OBVIOUS
  <2> HIDE DEF new
  <2> QED
    BY <1>1, <1>3, <1>5, <2>1, SMTT(30) DEF Casting, Held, Casters
<1>10. Telling'
  <2> SUFFICES ASSUME NEW c \in Clients, conn[c] = "open"
               PROVE  /\ \A i \in DOMAIN told[c] :
                           /\ told[c][i] \in owed'[c]
                           /\ told[c][i] <= n
                           /\ Pending(c)' => told[c][i] < n
                      /\ \A m \in owed'[c] :
                           /\ m <= n
                           /\ \/ \E i \in DOMAIN told[c] : told[c][i] = m
                              \/ Pending(c)' /\ m = n
                      /\ Pending(c)' => n \in owed'[c]
                      /\ \A i, j \in DOMAIN told[c] : i < j => told[c][i] < told[c][j]
    BY <1>1, <1>5, SMTT(30) DEF Telling, ToldRight
  <2>1. ~Pending(c)
    BY <1>1 DEF Pending, Held
  <2>2. Pending(c)' <=> subs[Block][c] # 0
    BY <1>3, <1>5 DEF Pending, Held
  <2>3. /\ \A i \in DOMAIN told[c] : told[c][i] \in owed[c]
        /\ \A m \in owed[c] : /\ m <= events["blocks"]
                              /\ \E i \in DOMAIN told[c] : told[c][i] = m
        /\ \A i, j \in DOMAIN told[c] : i < j => told[c][i] < told[c][j]
    BY <2>1, SMTT(30) DEF Telling, ToldRight
  <2>4. owed[c] \in SUBSET Nat
    BY SMTT(30) DEF Types
  <2>5. \A i \in DOMAIN told[c] : told[c][i] < n
    BY <1>2, <2>3, <2>4
  <2> HIDE DEF n
  <2>6. \A m \in owed[c] : m <= n
    BY <1>2, <2>3, <2>4 DEF n
  <2> QED
    BY <1>2, <1>5, <2>2, <2>3, <2>4, <2>5, <2>6
<1> QED
  BY <1>6, <1>7, <1>8, <1>9, <1>10

\* OnNewTxAddr and the two ways it goes on, with other subscribers or none.
LEMMA TxInv ==
    ASSUME PushInv,
           (\E a \in Addrs : OnNewTxAddr(a)) \/ TxDetailsFail \/ TxSubscribers
    PROVE  PushInv'
<1> USE DEF PushInv, Notified
<1>1. /\ UNCHANGED <<conn, closing, out, told, silent, req, script, asked, overlapped, subs, owed>>
      /\ events' \in [Casters -> Nat] /\ events'["blocks"] = events["blocks"]
  <2>1. events \in [Casters -> Nat] /\ events["txs"] \in Nat
    BY SMTT(30) DEF Types, Casters
  <2>2. CASE \E a \in Addrs : OnNewTxAddr(a)
    <3>1. PICK a \in Addrs : OnNewTxAddr(a)
      BY <2>2
    <3>2. events' = [events EXCEPT !["txs"] = @ + 1]
      BY <3>1 DEF OnNewTxAddr
    <3>3. events' \in [Casters -> Nat] /\ events'["blocks"] = events["blocks"]
      BY <2>1, <3>2 DEF Casters
    <3> QED
      BY <3>1, <3>3 DEF OnNewTxAddr, chanVars, reqVars
  <2>3. CASE TxDetailsFail \/ TxSubscribers
    BY <2>1, <2>3 DEF TxDetailsFail, TxSubscribers, chanVars, reqVars
  <2> QED
    BY <2>2, <2>3
<1>2. /\ cast' \in [Casters -> Broadcast] /\ cast'["blocks"] = cast["blocks"]
      /\ cast'["txs"].cur = {}
      /\ cast'["txs"].pc # "idle" => cast'["txs"].topic \in Addrs
      /\ cast'["txs"].todo = {} \/ cast'["txs"].todo = Subscribers(cast'["txs"].topic)
  <2>0. cast \in [Casters -> Broadcast] /\ "txs" \in Casters /\ "blocks" \in Casters
    BY SMTT(30) DEF Types, Casters
  <2>1. CASE \E a \in Addrs : OnNewTxAddr(a)
    <3>1. PICK a \in Addrs : OnNewTxAddr(a)
      BY <2>1
    <3> DEFINE new == [pc |-> "details", topic |-> a, todo |-> Subscribers(a), cur |-> {}]
    <3>2. Cast("details", a, Subscribers(a)) = new
      BY DEF Cast
    <3>3. a \in Topics
      BY DEF Topics
    <3>4. Subscribers(a) \in SUBSET (Clients \X Nat)
      BY <3>3, SubscribersFacts
    <3>5. new \in Broadcast /\ new.cur = {} /\ new.topic = a /\ new.todo = Subscribers(a)
      BY <3>3, <3>4, SMTT(30) DEF Broadcast
    <3> HIDE DEF new
    <3>6. cast' = [cast EXCEPT !["txs"] = new]
      BY <3>1, <3>2, Zenon DEF OnNewTxAddr
    <3> QED
      BY <2>0, <3>5, <3>6
  <2>2. CASE TxDetailsFail
    <3>1. NoCast \in Broadcast /\ NoCast.cur = {} /\ NoCast.todo = {} /\ NoCast.pc = "idle"
      BY SMTT(30) DEF Cast, NoCast, Broadcast, Topics
    <3> QED
      BY <2>0, <2>2, <3>1 DEF TxDetailsFail
  <2>3. CASE TxSubscribers
    <3> DEFINE old == cast["txs"]
    <3>1. old \in Broadcast /\ old.topic \in Addrs /\ old.pc = "details" /\ old.cur = {}
      BY <2>3, SMTT(30) DEF TxSubscribers, Types, Casting, Casters, Held
    <3>2. old.topic \in Topics
      BY <3>1 DEF Topics
    <3>3. Subscribers(old.topic) \in SUBSET (Clients \X Nat)
      BY <3>2, SubscribersFacts
    <3>4. cast' = [cast EXCEPT !["txs"].pc = "loop", !["txs"].todo = Subscribers(old.topic)]
      BY <2>3 DEF TxSubscribers
    <3> QED
      BY <2>0, <3>1, <3>3, <3>4, Zenon DEF Broadcast
  <2> QED
    BY <2>1, <2>2, <2>3
<1>3. Types' /\ Channels'
  BY <1>1, <1>2, SMTT(30) DEF Types, Channels
<1>4. Ids' /\ Subscribed' /\ Ended' /\ OneAtATime'
  BY <1>1, CastFrame DEF reqVars
<1>5. Casting'
  <2>1. cast'["txs"].topic \in Topics
    BY <1>2, SMTT(30) DEF Broadcast, Casters
  <2>2. \A p \in Subscribers(cast'["txs"].topic) :
           p[2] = subs[cast'["txs"].topic][p[1]] /\ p[2] \in 1 .. asked[p[1]]
    BY <2>1, SubscribersFacts
  <2> QED
    BY <1>1, <1>2, <2>2, SMTT(30) DEF Casting, Held, Casters
<1>6. Telling'
  BY <1>1, <1>2, SMTT(30) DEF Telling, ToldRight, Pending, Held
<1> QED
  BY <1>3, <1>4, <1>5, <1>6

\* The broadcast comes to its next client, or ends: nothing is told.
LEMMA LoopInv ==
    ASSUME PushInv, NEW b \in Casters,
           (\E p \in cast[b].todo : CheckAlive(b, p)) \/ CastEnd(b)
    PROVE  PushInv'
<1> USE DEF PushInv, Notified
<1>1. /\ UNCHANGED <<conn, closing, out, told, silent, req, script, asked, overlapped, subs,
                     events, owed>>
      /\ Held(b) /\ cast[b].cur = {}
  BY Zenon DEF CheckAlive, CastEnd, chanVars, reqVars
<1>2. /\ cast' \in [Casters -> Broadcast] /\ \A d \in Casters \ {b} : cast'[d] = cast[d]
      /\ cast'[b].todo \cup cast'[b].cur \subseteq cast[b].todo
      /\ cast'[b].todo \cap cast'[b].cur = {}
      /\ \A p, q \in cast'[b].cur : p = q
      /\ \A p \in cast[b].todo : conn[p[1]] = "open" => p \in cast'[b].todo \cup cast'[b].cur
      /\ \/ cast'[b].pc = "idle" /\ cast'[b].topic = Block /\ cast[b].todo = {}
         \/ cast'[b].pc = "loop" /\ cast'[b].topic = cast[b].topic
  <2>0. cast \in [Casters -> Broadcast] /\ cast[b] \in Broadcast
    BY SMTT(30) DEF Types
  <2>1. CASE CastEnd(b)
    <3>1. /\ NoCast \in Broadcast /\ NoCast.cur = {} /\ NoCast.todo = {} /\ NoCast.pc = "idle"
          /\ NoCast.topic = Block
      BY SMTT(30) DEF Cast, NoCast, Broadcast, Topics
    <3>2. cast' = [cast EXCEPT ![b] = NoCast] /\ cast[b].todo = {}
      BY <2>1 DEF CastEnd
    <3> QED
      BY <2>0, <3>1, <3>2
  <2>2. CASE \E p \in cast[b].todo : CheckAlive(b, p)
    <3>1. PICK p \in cast[b].todo : CheckAlive(b, p)
      BY <2>2
    <3> DEFINE todo == cast[b].todo \ {p}
               cur == IF conn[p[1]] = "open" THEN {p} ELSE {}
    <3>2. cast' = [cast EXCEPT ![b].todo = todo, ![b].cur = cur]
      BY <3>1 DEF CheckAlive
    <3>3. /\ todo \in SUBSET (Clients \X Nat) /\ cur \in SUBSET (Clients \X Nat)
          /\ todo \cup cur \subseteq cast[b].todo /\ todo \cap cur = {}
          /\ \A x, y \in cur : x = y
          /\ \A x \in cast[b].todo : conn[x[1]] = "open" => x \in todo \cup cur
      BY <2>0, SMTT(30) DEF Broadcast
    <3> HIDE DEF todo, cur
    <3>4. /\ cast'[b].todo = todo /\ cast'[b].cur = cur /\ cast'[b].pc = cast[b].pc
          /\ cast'[b].topic = cast[b].topic /\ cast' \in [Casters -> Broadcast]
          /\ \A d \in Casters \ {b} : cast'[d] = cast[d]
      BY <2>0, <3>2, <3>3, Zenon DEF Broadcast
    <3>5. cast[b].pc = "loop"
      BY <1>1 DEF Held
    <3> QED
      BY <3>3, <3>4, <3>5
  <2> QED
    BY <2>1, <2>2
<1>3. Types' /\ Channels'
  BY <1>1, <1>2, SMTT(30) DEF Types, Channels
<1>4. Ids' /\ Subscribed' /\ Ended' /\ OneAtATime'
  BY <1>1, CastFrame DEF reqVars
<1>5. Casting'
  <2>1. \A p \in cast'[b].todo \cup cast'[b].cur :
           p[2] \in 1 .. asked[p[1]] /\ p[2] = subs[cast[b].topic][p[1]]
    BY <1>1, <1>2, SMTT(30) DEF Casting
  <2>2. cast'[b].pc = "idle" => cast'[b].todo = {} /\ cast'[b].cur = {}
    BY <1>2
  <2>3. /\ cast'["blocks"].topic = Block /\ cast'["blocks"].pc # "details"
        /\ cast'["txs"].pc # "idle" => cast'["txs"].topic \in Addrs
    BY <1>1, <1>2, SMTT(30) DEF Casting, Held, Casters
  <2>4. ASSUME NEW d \in Casters \ {b}
        PROVE  cast'[d] = cast[d] /\ Held(d)' = Held(d)
    BY <1>1, <1>2 DEF Held
  <2>5. /\ ~Held(b)' => cast'[b].cur = {}
        /\ cast'[b].todo \cap cast'[b].cur = {}
        /\ \A p, q \in cast'[b].cur : p = q
    BY <1>1, <1>2, <2>2, SMTT(30) DEF Casting, Held
  <2>6. ASSUME NEW d \in Casters
        PROVE  /\ \A p \in cast'[d].todo \cup cast'[d].cur : p[2] \in 1 .. asked'[p[1]]
               /\ Held(d)' => \A p \in cast'[d].todo \cup cast'[d].cur :
                                  p[2] = subs'[cast'[d].topic][p[1]]
               /\ ~Held(d)' => cast'[d].cur = {}
               /\ cast'[d].todo \cap cast'[d].cur = {}
               /\ \A p, q \in cast'[d].cur : p = q
    <3>1. CASE d = b
      <4>1. Held(b)' => cast'[b].topic = cast[b].topic
        BY <1>2 DEF Held
      <4> QED
        BY <1>1, <2>1, <2>5, <3>1, <4>1
    <3>2. CASE d # b
      BY <1>1, <2>4, <3>2, SMTT(30) DEF Casting
    <3> QED
      BY <3>1, <3>2
  <2> QED
    BY <2>3, <2>6, SMTT(30) DEF Casting
<1>6. Telling'
  <2>1. ASSUME NEW c \in Clients, conn[c] = "open" PROVE Pending(c)' <=> Pending(c)
    <3>1. CASE b # "blocks"
      BY <1>2, <3>1 DEF Pending, Held, Casters
    <3>2. CASE b = "blocks"
      BY <1>1, <1>2, <2>1, <3>2 DEF Pending, Held
    <3> QED
      BY <3>1, <3>2
  <2> QED
    BY <1>1, <2>1, SMTT(30) DEF Telling, ToldRight
<1> QED
  BY <1>3, <1>4, <1>5, <1>6

\* A client is told of the block, or of the transaction.
LEMMA SendInv ==
    ASSUME PushInv, NEW b \in Casters, NEW p \in cast[b].cur, CastSend(b, p)
    PROVE  PushInv'
<1> USE DEF PushInv, Notified
<1> DEFINE d == p[1]
<1>1. /\ UNCHANGED <<conn, closing, silent, req, script, asked, overlapped, subs, events, owed>>
      /\ Held(b) /\ conn[d] = "open" /\ out[d] < OutSize
      /\ out' = [out EXCEPT ![d] = @ + 1]
      /\ told' = [told EXCEPT ![d] = IF b = "blocks" THEN Append(@, events[b]) ELSE @]
      /\ cast' = [cast EXCEPT ![b].cur = {}]
  BY DEF CastSend, reqVars
<1>2. /\ cast \in [Casters -> Broadcast] /\ cast[b] \in Broadcast /\ p \in Clients \X Nat
      /\ d \in Clients
  BY SMTT(30) DEF Types, Broadcast
<1>3. /\ cast'[b].todo = cast[b].todo /\ cast'[b].cur = {} /\ cast'[b].pc = "loop"
      /\ cast'[b].topic = cast[b].topic /\ \A x \in Casters \ {b} : cast'[x] = cast[x]
      /\ cast' \in [Casters -> Broadcast]
  BY <1>1, <1>2, SMTT(30) DEF Broadcast, Held
<1>4. told \in [Clients -> Seq(Nat)] /\ events \in [Casters -> Nat] /\ events[b] \in Nat
  BY SMTT(30) DEF Types
<1> HIDE DEF d
<1>5. told' \in [Clients -> Seq(Nat)]
  <2>1. told[d] \in Seq(Nat) /\ Append(told[d], events[b]) \in Seq(Nat)
    BY <1>2, <1>4
  <2> QED
    BY <1>1, <1>4, <2>1, Zenon
<1>6. out' \in [Clients -> 0 .. OutSize] /\ \A c \in Clients \ {d} : out'[c] = out[c]
  <2>0. out \in [Clients -> 0 .. OutSize]
    BY SMTT(30) DEF Types
  <2>1. out[d] + 1 \in 0 .. OutSize
    BY <1>1, <1>2, <2>0, PushAssumption, SMTT(30)
  <2> QED
    BY <1>1, <2>0, <2>1, Zenon
<1>7. \A c \in Clients \ {d} : told'[c] = told[c]
  BY <1>1, <1>4
<1>8. Types'
  BY <1>1, <1>3, <1>5, <1>6, SMTT(30) DEF Types
<1>9. Channels'
  BY <1>1, <1>2, <1>6, <1>7 DEF Channels
<1>10. Ids' /\ Subscribed' /\ Ended' /\ OneAtATime'
  BY <1>1, CastFrame DEF reqVars
<1>11. Casting'
  BY <1>1, <1>3, SMTT(30) DEF Casting, Held, Casters
<1>12. Telling'
  <2>1. CASE b = "txs"
    <3>1. told'[d] = told[d]
      BY <1>1, <1>2, <1>4, <2>1
    <3>2. \A c \in Clients : told'[c] = told[c]
      BY <1>7, <3>1
    <3>3. cast'["blocks"] = cast["blocks"]
      BY <1>3, <2>1 DEF Casters
    <3>4. \A c \in Clients : Pending(c)' <=> Pending(c)
      BY <3>3 DEF Pending, Held
    <3>5. UNCHANGED <<conn, owed, events>>
      BY <1>1
    <3> QED
      BY <3>2, <3>4, <3>5, SMTT(30) DEF Telling, ToldRight
  <2>2. CASE b = "blocks"
    <3> DEFINE n == events["blocks"]
    <3>1. /\ told[d] \in Seq(Nat) /\ n \in Nat /\ told'[d] = Append(told[d], n)
      BY <1>1, <1>2, <1>4, <2>2
    <3>2. /\ DOMAIN told[d] = 1 .. Len(told[d]) /\ Len(told[d]) \in Nat
          /\ DOMAIN told'[d] = 1 .. Len(told[d]) + 1
          /\ \A i \in 1 .. Len(told[d]) : told'[d][i] = told[d][i]
          /\ told'[d][Len(told[d]) + 1] = n
      BY <3>1
    <3>3. Pending(d)
      BY <1>1, <2>2 DEF Pending, d
    <3>4. ~Pending(d)'
      <4>1. \A q \in cast["blocks"].todo : q[1] = d => q = p
        <5>1. \A q \in cast["blocks"].todo : q \in Clients \X Nat
          BY <1>2, <2>2, SMTT(30) DEF Broadcast
        <5>2. \A q \in cast["blocks"].todo \cup cast["blocks"].cur :
                 q[2] = subs[cast["blocks"].topic][q[1]]
          BY <1>1, <2>2, SMTT(30) DEF Casting
        <5> QED
          BY <1>2, <2>2, <5>1, <5>2 DEF d
      <4>2. p \notin cast["blocks"].todo
        BY <2>2, SMTT(30) DEF Casting
      <4> QED
        BY <1>3, <2>2, <4>1, <4>2 DEF Pending
    <3>5. \A c \in Clients \ {d} : Pending(c)' <=> Pending(c)
      <4>1. \A q \in cast["blocks"].cur : q[1] = d
        BY <2>2, SMTT(30) DEF Casting, d
      <4> QED
        BY <1>1, <1>3, <2>2, <4>1 DEF Pending, Held
    <3>6. /\ \A i \in DOMAIN told[d] : told[d][i] \in owed[d] /\ told[d][i] < n
          /\ \A k \in owed[d] : k <= n /\ ((\E i \in DOMAIN told[d] : told[d][i] = k) \/ k = n)
          /\ n \in owed[d]
          /\ \A i, j \in DOMAIN told[d] : i < j => told[d][i] < told[d][j]
      BY <1>1, <1>2, <3>3, SMTT(30) DEF Telling, ToldRight
    <3> HIDE DEF n
    <3>7. /\ \A i \in DOMAIN told'[d] : told'[d][i] \in owed[d] /\ told'[d][i] <= n
          /\ \A k \in owed[d] : k <= n /\ \E i \in DOMAIN told'[d] : told'[d][i] = k
          /\ \A i, j \in DOMAIN told'[d] : i < j => told'[d][i] < told'[d][j]
      <4>1. ASSUME NEW i \in DOMAIN told'[d] PROVE told'[d][i] \in owed[d] /\ told'[d][i] <= n
        BY <3>1, <3>2, <3>6, <4>1
      <4>2. ASSUME NEW k \in owed[d] PROVE k <= n /\ \E i \in DOMAIN told'[d] : told'[d][i] = k
        <5>1. Len(told[d]) + 1 \in DOMAIN told'[d] /\ DOMAIN told[d] \subseteq DOMAIN told'[d]
          BY <3>2
        <5> QED
          BY <3>2, <3>6, <4>2, <5>1
      <4>3. ASSUME NEW i \in DOMAIN told'[d], NEW j \in DOMAIN told'[d], i < j
            PROVE  told'[d][i] < told'[d][j]
        <5>1. i \in DOMAIN told[d] /\ (j \in DOMAIN told[d] \/ j = Len(told[d]) + 1)
          BY <3>2, <4>3
        <5> QED
          BY <3>2, <3>6, <4>3, <5>1
      <4> QED
        BY <4>1, <4>2, <4>3
    <3>8. events'["blocks"] = n /\ owed' = owed /\ conn' = conn
      BY <1>1 DEF n
    <3> QED
      BY <1>7, <3>4, <3>5, <3>7, <3>8, SMTT(30) DEF Telling, ToldRight, n
  <2> QED
    BY <2>1, <2>2 DEF Casters
<1> QED
  BY <1>8, <1>9, <1>10, <1>11, <1>12

\* A step that leaves the websocket server alone.
LEMMA FrameInv ==
    ASSUME PushInv, UNCHANGED <<chanVars, reqVars, subs, castVars>>
    PROVE  PushInv'
<1> USE DEF PushInv, Notified
<1>1. UNCHANGED <<conn, closing, out, told, silent, req, script, asked, overlapped, subs,
                  cast, events, owed>>
  BY DEF chanVars, reqVars, castVars
<1>2. Types' /\ Channels'
  BY <1>1, SMTT(30) DEF Types, Channels
<1>3. Ids' /\ Subscribed' /\ Ended' /\ OneAtATime'
  BY <1>1, CastFrame DEF reqVars
<1>4. Casting' /\ Telling'
  BY <1>1, CastingKept, ToldKept DEF Telling
<1> QED
  BY <1>2, <1>3, <1>4

\* Every step of the specification keeps the invariant.
LEMMA NextInv ==
    ASSUME PushInv, [Next]_vars
    PROVE  PushInv'
<1>1. CASE \E c \in Clients : Websocket(ClientStep(c)) \/ Websocket(OutputLoop(c))
  <2>1. PICK c \in Clients : Websocket(ClientStep(c)) \/ Websocket(OutputLoop(c))
    BY <1>1
  <2>2. UNCHANGED castVars
    BY <2>1 DEF Websocket, Alive
  <2>3. ServeHTTP(c) \/ CloseChannel(c) \/ OutputLoop(c) \/ InputLoop(c)
    BY <2>1 DEF Websocket, Alive, ClientStep
  <2> QED
    BY <2>2, <2>3, ConnectionInv, InputInv
<1>2. CASE \E c \in Clients : Websocket(CloseStep(c))
  BY <1>2, DisconnectInv DEF Websocket, Alive
<1>3. CASE \E c \in Clients : Websocket(RequestStep(c))
  <2>1. PICK c \in Clients : RequestStep(c) /\ UNCHANGED castVars
    BY <1>3 DEF Websocket, Alive
  <2> QED
    BY <2>1, HandlersInv, ResponseInv DEF RequestStep
<1>4. CASE Alive(OnNewBlock)
  BY <1>4, NewBlockInv DEF Alive
<1>5. CASE \E a \in Addrs : Alive(OnNewTxAddr(a))
  BY <1>5, TxInv DEF Alive
<1>6. CASE \E b \in Casters : Alive(CastStep(b))
  BY <1>6, TxInv, LoopInv, SendInv DEF Alive, CastStep
<1>7. CASE \/ UNCHANGED vars
           \/ \E b \in Casters : ~crashed /\ CastPanic(b)
           \/ \E c \in SioClients :
                \/ SocketIo(SioDisconnect(c))
                \/ \E ts \in SUBSET Addrs \cup {{Block}}, bad \in BOOLEAN :
                      SocketIo(OnSubscribe(c, ts, bad))
  <2>1. UNCHANGED <<chanVars, reqVars, subs, castVars>>
    BY <1>7 DEF vars, CastPanic, SocketIo
  <2> QED
    BY <2>1, FrameInv
<1> QED
  BY <1>1, <1>2, <1>3, <1>4, <1>5, <1>6, <1>7 DEF Next
-----------------------------------------------------------------------------
\* PushInv holds in every state of the websocket server, whatever its clients ask for,
\* whenever they leave and however slowly they read.
THEOREM PushInvariance == Spec => []PushInv
  BY InitInv, NextInv, PTL DEF Spec

\* A set without two different elements has at most one.
LEMMA AtMostOne ==
    ASSUME NEW S, \A x, y \in S : x = y
    PROVE  Cardinality(S) <= 1
<1>1. CASE S = {}
  BY <1>1, FS_EmptySet
<1>2. CASE S # {}
  <2>1. PICK x : x \in S
    BY <1>2
  <2>2. S = {x}
    BY <2>1
  <2>3. Cardinality({x}) = 1
    BY FS_Singleton
  <2> QED
    BY <2>2, <2>3
<1> QED
  BY <1>1, <1>2

\* The channels, subscriptions and broadcasts have the shape the code gives them.
LEMMA PushTypes == ASSUME PushInv PROVE TypeOK
<1> USE DEF PushInv, Notified
<1>1. \A c \in Clients : asked[c] \in Nat /\ Len(script[c]) \in Nat /\ asked[c] <= Len(script[c])
  BY SMTT(30) DEF Types, Ids
<1>2. ASSUME NEW t \in Topics, NEW c \in Clients PROVE subs[t][c] \in 0 .. Len(script[c])
  <2>1. subs[t][c] \in Nat /\ subs[t][c] <= asked[c]
    BY SMTT(30) DEF Types, Ids
  <2> QED
    BY <1>1, <2>1
<1>3. ASSUME NEW b \in Casters
      PROVE  /\ cast[b].pc \in {"idle", "details", "loop"} /\ cast[b].topic \in Topics
             /\ Cardinality(cast[b].cur) <= 1
             /\ \A p \in cast[b].todo \cup cast[b].cur :
                   p[1] \in Clients /\ p[2] \in 1 .. Len(script[p[1]])
  <2>1. cast[b] \in Broadcast
    BY SMTT(30) DEF Types
  <2>2. Cardinality(cast[b].cur) <= 1
    <3>1. \A p, q \in cast[b].cur : p = q
      BY SMTT(30) DEF Casting
    <3> QED
      BY <3>1, AtMostOne
  <2>3. ASSUME NEW p \in cast[b].todo \cup cast[b].cur
        PROVE  p[1] \in Clients /\ p[2] \in 1 .. Len(script[p[1]])
    <3>1. p \in Clients \X Nat
      BY <2>1, SMTT(30) DEF Broadcast
    <3>2. p[1] \in Clients /\ p[2] \in 1 .. asked[p[1]]
      BY <3>1, SMTT(30) DEF Casting
    <3> QED
      BY <1>1, <3>2
  <2> QED
    BY <2>1, <2>2, <2>3, SMTT(30) DEF Broadcast
<1>4. /\ conn \in [Clients -> {"none", "open", "closed"}]
      /\ closing \in [Clients -> {"no", Block, "addr"}]
      /\ out \in [Clients -> 0 .. OutSize]
  BY SMTT(30) DEF Types
<1> QED
  BY <1>2, <1>3, <1>4 DEF TypeOK, Channels

\* Whom a broadcast serves is subscribed, so no answer has ended the subscription.
LEMMA PushQuiet == ASSUME PushInv PROVE QuietAfterUnsubscribe
<1> USE DEF PushInv, Notified
<1> SUFFICES ASSUME NEW b \in Casters, Held(b), NEW p \in cast[b].todo \cup cast[b].cur,
                    <<cast[b].topic, p[2]>> \in silent[p[1]]
             PROVE  FALSE
  BY DEF QuietAfterUnsubscribe
<1>1. p \in Clients \X Nat
  BY SMTT(30) DEF Types, Broadcast
<1>2. p[2] = subs[cast[b].topic][p[1]]
  BY SMTT(30) DEF Casting
<1>3. Dead(p[1], <<cast[b].topic, p[2]>>)
  BY <1>1 DEF Ended
<1> QED
  BY <1>2, <1>3 DEF Dead

\* Between broadcasts of blocks nothing is pending: all that is owed has been told.
LEMMA PushTold == ASSUME PushInv PROVE EveryoneTold
<1> SUFFICES ASSUME NEW c \in Clients, conn[c] = "open", ~Held("blocks")
             PROVE  /\ {told[c][i] : i \in DOMAIN told[c]} = owed[c]
                    /\ \A i, j \in DOMAIN told[c] : i < j => told[c][i] < told[c][j]
  BY DEF EveryoneTold
<1>1. ~Pending(c)
  BY DEF Pending
<1> QED
  BY <1>1, SMTT(30) DEF PushInv, Notified, Telling, ToldRight

\* The websocket clients are told what they asked for and nothing else (OnNewBlock,
\* OnNewTxAddr, the handlers and closeChannel of server/websocket.go): every block
\* while they are subscribed, once and in order, and nothing after the answer to the
\* request that ended it; no channel exceeds its capacity.
THEOREM Notifications == Spec => []NotificationsExact
<1>1. PushInv => NotificationsExact
  BY PushTypes, PushQuiet, PushTold DEF NotificationsExact
<1> QED
  BY <1>1, PushInvariance, PTL
-----------------------------------------------------------------------------
\* The rooms of socket.io and the subscriptions that were answered.
SioInv ==
    /\ rooms \in [Topics -> SUBSET SioClients]
    /\ wanted \in [SioClients -> [Topics -> BOOLEAN]]
    /\ SioAllOrNothing

\* Every step keeps the rooms equal to the answered subscriptions.
LEMMA SioStep ==
    ASSUME SioInv, [Next]_vars
    PROVE  SioInv'
<1> USE DEF SioInv, SioAllOrNothing
<1>1. CASE UNCHANGED sioVars
  BY <1>1 DEF sioVars
<1>2. ASSUME NEW c \in SioClients, SioDisconnect(c) PROVE SioInv'
  <2>1. rooms' \in [Topics -> SUBSET SioClients]
    BY <1>2 DEF SioDisconnect
  <2>2. wanted' \in [SioClients -> [Topics -> BOOLEAN]]
    BY <1>2 DEF SioDisconnect
  <2>3. ASSUME NEW d \in SioClients, NEW t \in Topics PROVE d \in rooms'[t] <=> wanted'[d][t]
    <3>1. d \in rooms'[t] <=> d \in rooms[t] /\ d # c
      BY <1>2 DEF SioDisconnect
    <3>2. d = c => wanted'[d][t] = FALSE
      BY <1>2 DEF SioDisconnect
    <3>3. d # c => wanted'[d][t] = wanted[d][t]
      BY <1>2 DEF SioDisconnect
    <3> QED
      BY <3>1, <3>2, <3>3
  <2> QED
    BY <2>1, <2>2, <2>3
<1>3. ASSUME NEW c \in SioClients, NEW ts \in SUBSET Addrs \cup {{Block}}, NEW bad \in BOOLEAN,
             OnSubscribe(c, ts, bad)
      PROVE  SioInv'
  <2>1. rooms' \in [Topics -> SUBSET SioClients]
    BY <1>3 DEF OnSubscribe
  <2>2. wanted' \in [SioClients -> [Topics -> BOOLEAN]]
    <3> DEFINE row == [t \in Topics |-> wanted[c][t] \/ t \in ts]
    <3>1. row \in [Topics -> BOOLEAN]
      OBVIOUS
    <3> HIDE DEF row
    <3>2. wanted' = [wanted EXCEPT ![c] = row]
      BY <1>3 DEF OnSubscribe, row
    <3> QED
      BY <3>1, <3>2
  <2>3. ASSUME NEW d \in SioClients, NEW t \in Topics PROVE d \in rooms'[t] <=> wanted'[d][t]
    <3>1. d \in rooms'[t] <=> d \in rooms[t] \/ (d = c /\ t \in ts)
      BY <1>3 DEF OnSubscribe
    <3>2. d = c => (wanted'[d][t] <=> wanted[d][t] \/ t \in ts)
      BY <1>3, Zenon DEF OnSubscribe
    <3>3. d # c => wanted'[d][t] = wanted[d][t]
      BY <1>3 DEF OnSubscribe
    <3> QED
      BY <3>1, <3>2, <3>3
  <2> QED
    BY <2>1, <2>2, <2>3
<1>4. \/ UNCHANGED sioVars
      \/ \E c \in SioClients : SioDisconnect(c)
      \/ \E c \in SioClients : \E ts \in SUBSET Addrs \cup {{Block}}, bad \in BOOLEAN :
            OnSubscribe(c, ts, bad)
  <2>1. CASE Next
    BY <2>1, ZenonT(30) DEF Next, Websocket, Alive, SocketIo, CastPanic
  <2>2. CASE UNCHANGED vars
    BY <2>2 DEF vars
  <2> QED
    BY <2>1, <2>2
<1> QED
  <2> HIDE DEF SioInv, SioAllOrNothing
  <2> QED
    BY <1>1, <1>2, <1>3, <1>4, Zenon

\* Subscriptions are those of the requests that were answered: a websocket client
\* that waits for its answers has the addresses of one request (subscribeAddresses
\* replaces what there was, though it frees the lock in between), and a socket.io
\* client is in all the rooms of a subscription or in none.
THEOREM Subscriptions == Spec => []SubscriptionsExact
<1>1. Init => SioInv
  BY DEF Init, SioInv, SioAllOrNothing
<1>2. PushInv /\ SioInv => SubscriptionsExact
  <2> SUFFICES ASSUME PushInv, SioInv, NEW c \in Clients, ~overlapped[c]
               PROVE  Cardinality({subs[a][c] : a \in Addrs} \ {0}) <= 1
    BY DEF SubscriptionsExact, OneAddressRequest, SioInv
  <2>1. \A x, y \in {subs[a][c] : a \in Addrs} \ {0} : x = y
    BY DEF PushInv, OneAtATime
  <2> QED
    BY <2>1, AtMostOne
<1> QED
  BY <1>1, <1>2, PushInvariance, SioStep, PTL DEF Spec
=============================================================================
