------------------------ MODULE PushServerBase_proofs ------------------------
(***************************************************************************)
(* First part of the proofs about the push servers: the inductive          *)
(* invariant PushInv, that it holds at the start, and that what clients do *)
(* (connect, ask, leave) and what their goroutines do with it keeps it.    *)
(*                                                                         *)
(* PushInv ties three things together.  Requests have ids of their own,    *)
(* and one whose id stands in the subscriptions is past its last change    *)
(* (Subscribed); a subscription that some request has ended is dead        *)
(* (Dead): its id is nowhere and no request can enter it again.  While a   *)
(* broadcast holds its lock, whom it still has to serve is subscribed at   *)
(* that moment (Casting), since every change waits for the lock.  And a    *)
(* block that a client is owed has been told or is still to come in the    *)
(* broadcast that is running (Telling).                                    *)
(***************************************************************************)
EXTENDS PushServer, TLAPS

Request == [pc : {"run", "subscribe", "reply"}, method : Methods, id : Nat,
            addrs : SUBSET Addrs, cancels : SUBSET (Topics \X Nat)]
Broadcast == [pc : {"idle", "details", "loop"}, topic : Topics,
              todo : SUBSET (Clients \X Nat), cur : SUBSET (Clients \X Nat)]

Types ==
    /\ conn \in [Clients -> {"none", "open", "closed"}]
    /\ closing \in [Clients -> {"no", Block, "addr"}]
    /\ out \in [Clients -> 0 .. OutSize]
    /\ req \in [Clients -> SUBSET Request]
    /\ script \in [Clients -> Seq(Methods \X SUBSET Addrs)]
    /\ asked \in [Clients -> Nat]
    /\ subs \in [Topics -> [Clients -> Nat]]
    /\ cast \in [Casters -> Broadcast]
    /\ events \in [Casters -> Nat]
    /\ silent \in [Clients -> SUBSET (Topics \X Nat)]
    /\ told \in [Clients -> Seq(Nat)]
    /\ owed \in [Clients -> SUBSET Nat]
    /\ overlapped \in [Clients -> BOOLEAN]

\* Channels that are not open are empty, only a closed one is being cleaned up, and
\* nothing has happened to a client before it connects.
Channels ==
    \A c \in Clients :
        /\ conn[c] # "open" => out[c] = 0
        /\ closing[c] # "no" => conn[c] = "closed"
        /\ conn[c] = "none" => asked[c] = 0 /\ told[c] = <<>> /\ owed[c] = {}

\* Every request has an id of its own, of a request that was received.
Ids ==
    \A c \in Clients :
        /\ asked[c] <= Len(script[c])
        /\ \A r \in req[c] : r.id \in 1 .. asked[c]
        /\ \A r, s \in req[c] : r.id = s.id => r = s
        /\ \A t \in Topics : subs[t][c] <= asked[c]

\* The request with this id will not change the subscriptions any more.
Past(c, id) == \A r \in req[c] : r.id = id => r.pc = "reply"

\* What stands in the subscriptions is of a request that is past its last change.
Subscribed == \A c \in Clients, t \in Topics : subs[t][c] # 0 => Past(c, subs[t][c])

\* The subscription e, a topic and an id, has ended for good.
Dead(c, e) == e[2] \in 1 .. asked[c] /\ subs[e[1]][c] # e[2] /\ Past(c, e[2])

Ended ==
    \A c \in Clients :
        /\ \A e \in silent[c] : Dead(c, e)
        /\ \A r \in req[c] : \A e \in r.cancels : Dead(c, e)

\* A broadcast serves each subscriber of its topic once; while it holds the lock these
\* are the subscribers there are.
Casting ==
    /\ cast["blocks"].topic = Block /\ cast["blocks"].pc # "details"
    /\ cast["txs"].pc # "idle" => cast["txs"].topic \in Addrs
    /\ \A b \in Casters :
         /\ \A p \in cast[b].todo \cup cast[b].cur : p[2] \in 1 .. asked[p[1]]
         /\ Held(b) => \A p \in cast[b].todo \cup cast[b].cur :
                           p[2] = subs[cast[b].topic][p[1]]
         /\ ~Held(b) => cast[b].cur = {}
         /\ cast[b].todo \cap cast[b].cur = {}
         /\ \A p, q \in cast[b].cur : p = q

\* The running broadcast of a block has still to come to client c.
Pending(c) ==
    Held("blocks") /\ \E p \in cast["blocks"].todo \cup cast["blocks"].cur : p[1] = c

\* Client c has been told, in order, of the blocks it is owed, but for one that is
\* pending for it.
ToldRight(c) ==
    /\ \A i \in DOMAIN told[c] :
         /\ told[c][i] \in owed[c]
         /\ told[c][i] <= events["blocks"]
         /\ Pending(c) => told[c][i] < events["blocks"]
    /\ \A n \in owed[c] :
         /\ n <= events["blocks"]
         /\ \/ \E i \in DOMAIN told[c] : told[c][i] = n
            \/ Pending(c) /\ n = events["blocks"]
    /\ Pending(c) => events["blocks"] \in owed[c]
    /\ \A i, j \in DOMAIN told[c] : i < j => told[c][i] < told[c][j]

Telling == \A c \in Clients : conn[c] = "open" => ToldRight(c)

\* A client that waits for its answers has one request at a time, and its addresses
\* are those of one request.
OneAtATime ==
    \A c \in Clients : ~overlapped[c] =>
        /\ \A r, s \in req[c] : r = s
        /\ \A a, b \in Addrs : subs[a][c] # 0 /\ subs[b][c] # 0 => subs[a][c] = subs[b][c]
        /\ \A r \in req[c] : r.pc = "subscribe" => \A a \in Addrs : subs[a][c] = 0

Notified == Types /\ Channels /\ Ids /\ Subscribed /\ Ended /\ Casting /\ Telling
PushInv == Notified /\ OneAtATime
-----------------------------------------------------------------------------
\* What the broadcasts have still to do depends on three variables.
LEMMA CastingKept ==
    ASSUME Casting, UNCHANGED <<cast, asked, subs>>
    PROVE  Casting'
BY ZenonT(30) DEF Casting, Held

\* Whether a client was told right depends on four.
LEMMA ToldKept ==
    ASSUME NEW c, UNCHANGED <<cast, told, owed, events>>
    PROVE  ToldRight(c)' <=> ToldRight(c)
BY ZenonT(30) DEF ToldRight, Pending, Held

\* The initial state satisfies the invariant: nobody is connected.
LEMMA InitInv == ASSUME Init PROVE PushInv
<1> USE PushAssumption DEF Init, Cast, NoCast, Block, Casters, Topics
<1>1. Types
  <2>1. script \in [Clients -> Seq(Methods \X SUBSET Addrs)]
    BY Zenon
  <2>2. NoCast \in Broadcast
    BY SMTT(30) DEF Broadcast
  <2> QED
    BY <2>1, <2>2, SMTT(30) DEF Types
<1>2. Channels /\ Ids /\ Subscribed /\ Ended /\ OneAtATime
  <2>1. \A c \in Clients : Len(script[c]) \in Nat
    BY <1>1, SMTT(30) DEF Types
  <2> QED
    BY <2>1 DEF Channels, Ids, Subscribed, Ended, OneAtATime
<1>3. Casting /\ Telling
  BY SMTT(30) DEF Casting, Telling, ToldRight, Pending, Held
<1> QED
  BY <1>1, <1>2, <1>3 DEF PushInv, Notified

\* What a request does: the goroutine r of client c moves on, having entered its id or
\* nothing for the topics ts, whose locks no broadcast holds.
Changes(c, r, pc, ts) ==
    /\ r.pc # "reply" /\ Goto(c, r, pc, ts) /\ UNCHANGED castVars
    /\ subs' \in [Topics -> [Clients -> Nat]]
    /\ \A t \in Topics, d \in Clients : subs'[t][d] # subs[t][d] => d = c /\ t \in ts
    /\ \A t \in ts : subs'[t][c] = 0 \/ (subs'[t][c] = r.id /\ pc = "reply")
    /\ Held("blocks") => Block \notin ts
    /\ Held("txs") => ts \cap Addrs = {}
Moved(c, r, pc) ==
    /\ \A d \in Clients \ {c} : req'[d] = req[d]
    /\ \E r2 \in Request : req'[c] = (req[c] \ {r}) \cup {r2} /\ r2.pc = pc

\* Such a request keeps all of the invariant but OneAtATime, which depends on what the
\* client did.
LEMMA RequestMoves ==
    ASSUME PushInv, NEW c \in Clients, NEW r \in req[c],
           NEW pc \in {"subscribe", "reply"}, NEW ts \in SUBSET Topics, Changes(c, r, pc, ts)
    PROVE  Notified' /\ Moved(c, r, pc)
<1> DEFINE over == {<<t, subs[t][c]>> : t \in {u \in ts : subs[u][c] # 0}}
           r2 == [r EXCEPT !.pc = pc, !.cancels = @ \cup over]
<1> USE DEF PushInv, Notified, Changes
<1>0. over \subseteq Topics \X Nat
  BY SMTT(30) DEF Types
<1>1. /\ r2 \in Request /\ r2.id = r.id /\ r2.pc = pc
      /\ r2.cancels = r.cancels \cup over
  <2> HIDE DEF over
  <2>1. r \in Request
    BY SMTT(30) DEF Types
  <2> QED
    BY <1>0, <2>1, Zenon DEF Request
<1>2. /\ req' = [req EXCEPT ![c] = (@ \ {r}) \cup {r2}]
      /\ UNCHANGED <<conn, closing, out, told, silent, script, asked, overlapped>>
  BY Zenon DEF Goto, chanVars
<1> HIDE DEF r2, over
<1>3. /\ req'[c] = (req[c] \ {r}) \cup {r2}
      /\ \A d \in Clients \ {c} : req'[d] = req[d]
  BY <1>2, SMTT(30) DEF Types
<1>4. Types'
  BY <1>1, <1>2, SMTT(30) DEF Types, castVars
<1>5. Channels'
  BY <1>2 DEF Channels, castVars
<1>6. Ids'
  <2> SUFFICES ASSUME NEW d \in Clients
               PROVE  /\ asked[d] <= Len(script[d])
                      /\ \A q \in req'[d] : q.id \in 1 .. asked[d]
                      /\ \A q, s \in req'[d] : q.id = s.id => q = s
                      /\ \A t \in Topics : subs'[t][d] <= asked[d]
    BY <1>2 DEF Ids
  <2>1. r.id \in 1 .. asked[c]
    BY DEF Ids
  <2>2. \A t \in Topics : subs'[t][d] = subs[t][d] \/ (d = c /\ subs'[t][d] \in {0, r.id})
    BY SMTT(30) DEF Types
  <2>3. \A t \in Topics : subs'[t][d] <= asked[d]
    <3> SUFFICES ASSUME NEW t \in Topics PROVE subs'[t][d] <= asked[d]
      OBVIOUS
    <3>1. subs[t][d] <= asked[d] /\ asked[d] \in Nat
      BY SMTT(30) DEF Ids, Types
    <3> QED
      BY <2>1, <2>2, <3>1
  <2>4. /\ \A q \in req'[d] : q.id \in 1 .. asked[d]
        /\ \A q, s \in req'[d] : q.id = s.id => q = s
    BY <1>1, <1>3, <2>1 DEF Ids
  <2> QED
    BY <2>3, <2>4 DEF Ids
<1>7. \A d \in Clients, id \in Nat :
         Past(d, id) /\ (d = c => id # r.id) => Past(d, id)'
  BY <1>1, <1>3 DEF Past
<1>8. pc = "reply" => Past(c, r.id)'
  BY <1>1, <1>3 DEF Past, Ids
<1>9. \A t \in Topics : subs[t][c] # 0 => subs[t][c] # r.id
  BY DEF Subscribed, Past
<1>10. Subscribed'
  <2> SUFFICES ASSUME NEW d \in Clients, NEW t \in Topics, subs'[t][d] # 0
               PROVE  \A q \in req'[d] : q.id = subs'[t][d] => q.pc = "reply"
    BY DEF Subscribed, Past
  <2>1. CASE subs'[t][d] = subs[t][d]
    <3>1. \A q \in req[d] : q.id = subs[t][d] => q.pc = "reply"
      BY <2>1 DEF Subscribed, Past
    <3>2. d = c => subs[t][d] # r.id
      BY <1>9, <2>1
    <3> QED
      BY <1>1, <1>3, <2>1, <3>1, <3>2
  <2>2. CASE subs'[t][d] # subs[t][d]
    BY <1>8, <2>2 DEF Past
  <2> QED
    BY <2>1, <2>2
<1>11. \A d \in Clients, e \in Topics \X Nat : Dead(d, e) => Dead(d, e)'
  <2> SUFFICES ASSUME NEW d \in Clients, NEW e \in Topics \X Nat, Dead(d, e)
               PROVE  Dead(d, e)'
    OBVIOUS
  <2>1. d = c => e[2] # r.id
    BY DEF Dead, Past
  <2> QED
    BY <1>2, <1>7, <2>1 DEF Dead
<1>12. \A e \in over : Dead(c, e)'
  <2> SUFFICES ASSUME NEW e \in over
               PROVE  Dead(c, e)'
    OBVIOUS
  <2>1. PICK t \in ts : subs[t][c] # 0 /\ e = <<t, subs[t][c]>>
    BY DEF over
  <2>2. e[1] = t /\ e[2] \in 1 .. asked[c] /\ e[2] # r.id /\ Past(c, e[2])
    BY <1>9, <2>1, SMTT(30) DEF Ids, Subscribed, Types
  <2>3. subs'[t][c] # e[2]
    BY <2>1, <2>2
  <2> QED
    BY <1>2, <1>7, <2>2, <2>3 DEF Dead
<1>13. Ended'
  <2>1. \A d \in Clients : \A e \in silent[d] : Dead(d, e)'
    BY <1>11, SMTT(30) DEF Ended, Types
  <2>2. \A d \in Clients : \A q \in req[d] : \A e \in q.cancels : Dead(d, e)'
    BY <1>11, SMTT(30) DEF Ended, Types, Request
  <2>3. \A e \in r2.cancels : Dead(c, e)'
    BY <1>1, <1>12, <2>2
  <2> QED
    BY <1>2, <1>3, <2>1, <2>2, <2>3 DEF Ended
<1>14. Casting' /\ Telling'
  <2>1. \A b \in Casters : Held(b) => subs'[cast[b].topic] = subs[cast[b].topic]
    <3> SUFFICES ASSUME NEW b \in Casters, Held(b)
                 PROVE  subs'[cast[b].topic] = subs[cast[b].topic]
      OBVIOUS
    <3>1. cast[b].topic \in Topics /\ cast[b].topic \notin ts
      BY SMTT(30) DEF Casting, Casters, Held, Types, Broadcast
    <3> QED
      BY <3>1, SMTT(30) DEF Types
  <2>2. Casting'
    BY <1>2, <2>1, SMTT(30) DEF Casting, Held, castVars, Casters
  <2> QED
    BY <1>2, <2>2, ToldKept DEF Telling, castVars
<1> QED
  BY <1>1, <1>3, <1>4, <1>5, <1>6, <1>10, <1>13, <1>14 DEF Moved

\* Without the addresses of c, only these subscriptions change, to none.
LEMMA WithoutAddrsFacts ==
    ASSUME PushInv, NEW c \in Clients, subs' = WithoutAddrs(c)
    PROVE  /\ subs' \in [Topics -> [Clients -> Nat]]
           /\ \A t \in Topics, d \in Clients : subs'[t][d] # subs[t][d] => d = c /\ t \in Addrs
           /\ \A a \in Addrs : subs'[a][c] = 0
  BY SMTT(30) DEF PushInv, Notified, Types, WithoutAddrs, Topics

\* Handlers of requests keep the invariant: queries, subscriptions to blocks and the
\* three that change the addresses.
LEMMA HandlersInv ==
    ASSUME PushInv, NEW c \in Clients, NEW r \in req[c], UNCHANGED castVars,
           \/ OnRequest(c, r) \/ SubscribeNewBlock(c, r) \/ UnsubscribeNewBlock(c, r)
           \/ UnsubscribeAddresses(c, r) \/ UnsubscribePrevious(c, r) \/ SubscribeAddresses(c, r)
    PROVE  PushInv'
<1> USE PushAssumption
<1>0. /\ subs \in [Topics -> [Clients -> Nat]] /\ r.id \in Nat /\ r \in Request
      /\ r.addrs \in SUBSET Topics /\ Block \in Topics /\ Addrs \in SUBSET Topics
      /\ Block \notin r.addrs /\ {Block} \in SUBSET Topics
  BY SMTT(30) DEF PushInv, Notified, Types, Request, Topics
<1>1. ASSUME NEW pc \in {"subscribe", "reply"}, UNCHANGED overlapped,
             Moved(c, r, pc),
             \A a \in Addrs, d \in Clients \ {c} : subs'[a][d] = subs[a][d],
             \/ pc = "reply" /\ \A a \in Addrs : subs'[a][c] = subs[a][c]
             \/ \A a \in Addrs : subs'[a][c] = 0
             \/ /\ pc = "reply" /\ r.pc = "subscribe"
                /\ \A a \in Addrs : subs'[a][c] = r.id \/ subs'[a][c] = subs[a][c]
      PROVE  OneAtATime'
  <2> SUFFICES ASSUME NEW d \in Clients, ~overlapped[d]
               PROVE  /\ \A q, s \in req'[d] : q = s
                      /\ \A a, b \in Addrs : subs'[a][d] # 0 /\ subs'[b][d] # 0
                                                => subs'[a][d] = subs'[b][d]
                      /\ \A q \in req'[d] : q.pc = "subscribe" => \A a \in Addrs : subs'[a][d] = 0
    BY <1>1 DEF OneAtATime
  <2>0. /\ \A q, s \in req[d] : q = s
        /\ \A a, b \in Addrs : subs[a][d] # 0 /\ subs[b][d] # 0 => subs[a][d] = subs[b][d]
        /\ \A q \in req[d] : q.pc = "subscribe" => \A a \in Addrs : subs[a][d] = 0
    BY DEF PushInv, Notified, OneAtATime
  <2>1. CASE d # c
    <3>1. req'[d] = req[d] /\ \A a \in Addrs : subs'[a][d] = subs[a][d]
      BY <1>1, <2>1 DEF Moved
    <3> QED
      BY <2>0, <3>1
  <2>2. CASE d = c
    <3>1. PICK r2 \in Request : req'[c] = {r2} /\ r2.pc = pc
      BY <1>1, <2>0, <2>2 DEF Moved
    <3> QED
      BY <1>1, <2>0, <2>2, <3>1
  <2> QED
    BY <2>1, <2>2
<1>2. CASE OnRequest(c, r)
  <2>1. r.pc # "reply" /\ Goto(c, r, "reply", {}) /\ UNCHANGED <<subs, overlapped>>
    BY <1>2, Zenon DEF OnRequest, Goto
  <2>2. /\ subs' \in [Topics -> [Clients -> Nat]] /\ {} \in SUBSET Topics
        /\ \A t \in Topics, d \in Clients : subs'[t][d] # subs[t][d] => d = c /\ t \in {}
        /\ \A t \in {} : subs'[t][c] = 0 \/ (subs'[t][c] = r.id /\ "reply" = "reply")
        /\ Held("blocks") => Block \notin {}
        /\ Held("txs") => {} \cap Addrs = {}
    BY <1>0, <2>1
  <2>3. Notified' /\ Moved(c, r, "reply")
    <3>1. Changes(c, r, "reply", {})
      BY <2>1, <2>2 DEF Changes
    <3> QED
      BY <2>2, <3>1, RequestMoves
  <2>4. OneAtATime'
    BY <1>0, <1>1, <2>1, <2>3
  <2> QED
    BY <2>3, <2>4, Zenon DEF PushInv, Notified
<1>3. CASE SubscribeNewBlock(c, r) \/ UnsubscribeNewBlock(c, r)
  <2>1. PICK v \in {0, r.id} :
           /\ r.pc # "reply" /\ Goto(c, r, "reply", {Block}) /\ UNCHANGED overlapped
           /\ ~Held("blocks") /\ subs' = [subs EXCEPT ![Block][c] = v]
    BY <1>3, Zenon DEF SubscribeNewBlock, UnsubscribeNewBlock, Goto
  <2>2. /\ subs' \in [Topics -> [Clients -> Nat]]
        /\ \A t \in Topics, d \in Clients : subs'[t][d] # subs[t][d] => d = c /\ t \in {Block}
        /\ subs'[Block][c] = v
    <3>1. v \in Nat
      BY <1>0
    <3> QED
      BY <1>0, <2>1, <3>1
  <2>3. /\ \A t \in {Block} : subs'[t][c] = 0 \/ (subs'[t][c] = r.id /\ "reply" = "reply")
        /\ Held("blocks") => Block \notin {Block}
        /\ Held("txs") => {Block} \cap Addrs = {}
    BY <2>1, <2>2
  <2>4. Notified' /\ Moved(c, r, "reply")
    <3>1. Changes(c, r, "reply", {Block})
      BY <2>1, <2>2, <2>3 DEF Changes
    <3> QED
      BY <1>0, <3>1, RequestMoves
  <2>5. OneAtATime'
    BY <1>0, <1>1, <2>1, <2>2, <2>4
  <2> QED
    BY <2>4, <2>5, Zenon DEF PushInv, Notified
<1>4. CASE UnsubscribeAddresses(c, r) \/ UnsubscribePrevious(c, r)
  <2>1. PICK pc \in {"subscribe", "reply"} :
           /\ r.pc # "reply" /\ Goto(c, r, pc, Addrs) /\ UNCHANGED overlapped /\ ~Held("txs")
           /\ subs' = WithoutAddrs(c)
    BY <1>4, Zenon DEF UnsubscribeAddresses, UnsubscribePrevious, Goto
  <2>2. /\ subs' \in [Topics -> [Clients -> Nat]]
        /\ \A t \in Topics, d \in Clients : subs'[t][d] # subs[t][d] => d = c /\ t \in Addrs
        /\ \A a \in Addrs : subs'[a][c] = 0
    BY <2>1, WithoutAddrsFacts, Zenon
  <2>3. /\ \A t \in Addrs : subs'[t][c] = 0 \/ (subs'[t][c] = r.id /\ pc = "reply")
        /\ Held("blocks") => Block \notin Addrs
        /\ Held("txs") => Addrs \cap Addrs = {}
    BY <2>1, <2>2
  <2>4. Notified' /\ Moved(c, r, pc)
    <3>1. Changes(c, r, pc, Addrs)
      BY <2>1, <2>2, <2>3 DEF Changes
    <3> QED
      BY <1>0, <3>1, RequestMoves
  <2>5. OneAtATime'
    BY <1>0, <1>1, <2>1, <2>2, <2>4
  <2> QED
    BY <2>4, <2>5, Zenon DEF PushInv, Notified
<1>5. CASE SubscribeAddresses(c, r)
  <2>1. /\ r.pc = "subscribe" /\ r.pc # "reply" /\ Goto(c, r, "reply", r.addrs)
        /\ UNCHANGED overlapped /\ ~Held("txs")
        /\ subs' = [t \in Topics |-> IF t \in r.addrs
                                     THEN [subs[t] EXCEPT ![c] = r.id] ELSE subs[t]]
    BY <1>5, Zenon DEF SubscribeAddresses, Goto
  <2>2. /\ subs' \in [Topics -> [Clients -> Nat]]
        /\ \A t \in Topics, d \in Clients : subs'[t][d] # subs[t][d] => d = c /\ t \in r.addrs
        /\ \A t \in r.addrs : subs'[t][c] = r.id
    BY <1>0, <2>1
  <2>3. /\ \A t \in r.addrs : subs'[t][c] = 0 \/ (subs'[t][c] = r.id /\ "reply" = "reply")
        /\ Held("blocks") => Block \notin r.addrs
        /\ Held("txs") => r.addrs \cap Addrs = {}
    BY <1>0, <2>1, <2>2
  <2>4. Notified' /\ Moved(c, r, "reply")
    <3>1. Changes(c, r, "reply", r.addrs)
      BY <2>1, <2>2, <2>3 DEF Changes
    <3> QED
      BY <1>0, <3>1, RequestMoves
  <2>5. \A a \in Addrs : subs'[a][c] = r.id \/ subs'[a][c] = subs[a][c]
    BY <1>0, <2>2
  <2>6. OneAtATime'
    BY <1>0, <1>1, <2>1, <2>2, <2>4, <2>5
  <2> QED
    BY <2>4, <2>6, Zenon DEF PushInv, Notified
<1> QED
  BY <1>2, <1>3, <1>4, <1>5

\* The answer of a request: what it ended is silent from now on.
LEMMA ResponseInv ==
    ASSUME PushInv, NEW c \in Clients, NEW r \in req[c], UNCHANGED castVars,
           SendResponse(c, r)
    PROVE  PushInv'
<1> USE DEF PushInv, Notified
<1>1. /\ UNCHANGED <<conn, closing, told, script, asked, overlapped, subs, cast, events, owed>>
      /\ req' = [req EXCEPT ![c] = @ \ {r}]
      /\ \/ conn[c] = "open" /\ out[c] < OutSize /\ out' = [out EXCEPT ![c] = @ + 1]
         \/ UNCHANGED out
      /\ \/ silent' = [silent EXCEPT ![c] = @ \cup r.cancels]
         \/ UNCHANGED silent
  BY DEF SendResponse, castVars
<1>2. \A d \in Clients : req'[d] \subseteq req[d]
  BY <1>1, SMTT(30) DEF Types
<1>3. Types'
  <2>1. req' \in [Clients -> SUBSET Request]
    BY <1>1, SMTT(30) DEF Types
  <2>2. out' \in [Clients -> 0 .. OutSize]
    <3>1. out \in [Clients -> 0 .. OutSize]
      BY SMTT(30) DEF Types
    <3>2. out[c] < OutSize => out[c] + 1 \in 0 .. OutSize
      BY <3>1, PushAssumption, SMTT(30)
    <3> QED
      BY <1>1, <3>1, <3>2
  <2>3. r.cancels \subseteq Topics \X Nat
    BY SMTT(30) DEF Types, Request
  <2>4. silent' \in [Clients -> SUBSET (Topics \X Nat)]
    <3>1. silent \in [Clients -> SUBSET (Topics \X Nat)]
      BY SMTT(30) DEF Types
    <3>2. silent[c] \cup r.cancels \in SUBSET (Topics \X Nat)
      BY <2>3, <3>1
    <3> QED
      BY <1>1, <3>1, <3>2
  <2> QED
    BY <1>1, <2>1, <2>2, <2>4, SMTT(30) DEF Types
<1>4. Channels'
  BY <1>1, SMTT(30) DEF Channels, Types
<1>5. Ids' /\ Subscribed' /\ OneAtATime'
  BY <1>1, <1>2 DEF Ids, Subscribed, Past, OneAtATime
<1>6. \A d \in Clients, e \in Topics \X Nat : Dead(d, e) => Dead(d, e)'
  BY <1>1, <1>2 DEF Dead, Past
<1>7. Ended'
  <2>1. \A d \in Clients : \A e \in silent[d] : Dead(d, e)'
    BY <1>6, SMTT(30) DEF Ended, Types
  <2>2. \A d \in Clients : \A q \in req[d] : \A e \in q.cancels : Dead(d, e)'
    BY <1>6, SMTT(30) DEF Ended, Types, Request
  <2>3. \A d \in Clients : silent'[d] = silent[d] \/ (d = c /\ silent'[d] = silent[d] \cup r.cancels)
    BY <1>1, SMTT(30) DEF Types
  <2> QED
    BY <1>2, <2>1, <2>2, <2>3 DEF Ended
<1>8. Casting' /\ Telling'
  BY <1>1, CastingKept, ToldKept DEF Telling
<1> QED
  BY <1>3, <1>4, <1>5, <1>7, <1>8

\* A request that arrives has an id of its own and has changed nothing yet.
LEMMA InputInv ==
    ASSUME PushInv, NEW c \in Clients, UNCHANGED castVars, InputLoop(c)
    PROVE  PushInv'
<1> USE DEF PushInv, Notified
<1> DEFINE n == asked[c] + 1
           q == NewReq(n, script[c][n])
<1>1. /\ UNCHANGED <<conn, closing, out, told, silent, script, subs, cast, events, owed>>
      /\ conn[c] = "open" /\ asked[c] < Len(script[c])
      /\ asked' = [asked EXCEPT ![c] = n]
      /\ req' = [req EXCEPT ![c] = @ \cup {q}]
      /\ overlapped' = [overlapped EXCEPT ![c] = @ \/ req[c] # {}]
  BY SMTT(30) DEF InputLoop, castVars, chanVars, Types
<1>2. /\ n \in 1 .. Len(script[c]) /\ n \in Nat /\ n = asked[c] + 1
      /\ asked[c] \in Nat /\ Len(script[c]) \in Nat
  BY <1>1, SMTT(30) DEF Types
<1>3. q \in Request /\ q.id = n /\ q.pc = "run" /\ q.cancels = {}
  <2>1. script[c] \in Seq(Methods \X SUBSET Addrs)
    BY SMTT(30) DEF Types
  <2>2. script[c][n] \in Methods \X SUBSET Addrs
    BY <1>2, <2>1
  <2> QED
    BY <1>2, <2>2 DEF NewReq, Request
<1> HIDE DEF q
<1>4. /\ req'[c] = req[c] \cup {q} /\ asked'[c] = n
      /\ \A d \in Clients \ {c} : req'[d] = req[d] /\ asked'[d] = asked[d]
  BY <1>1, SMTT(30) DEF Types
<1> HIDE DEF n
<1>5. \A d \in Clients : \A id \in 1 .. asked[d] : id \in 1 .. asked'[d]
  <2>1. \A d \in Clients : asked[d] \in Nat
    BY SMTT(30) DEF Types
  <2> SUFFICES ASSUME NEW d \in Clients, NEW id \in 1 .. asked[d]
               PROVE  id \in 1 .. asked'[d]
    OBVIOUS
  <2>3. CASE d = c
    BY <1>2, <1>4, <2>1, <2>3
  <2>4. CASE d # c
    BY <1>4, <2>4
  <2> QED
    BY <2>3, <2>4
<1>15. Types'
  <2>1. overlapped' \in [Clients -> BOOLEAN]
    BY <1>1, Zenon DEF Types
  <2> QED
    BY <1>1, <1>2, <1>3, <2>1, SMTT(30) DEF Types
<1>6. Channels'
  BY <1>1, <1>4 DEF Channels
<1>7. Ids'
  <2> SUFFICES ASSUME NEW d \in Clients
               PROVE  /\ asked'[d] <= Len(script[d])
                      /\ \A p \in req'[d] : p.id \in 1 .. asked'[d]
                      /\ \A p, s \in req'[d] : p.id = s.id => p = s
                      /\ \A t \in Topics : subs[t][d] <= asked'[d]
    BY <1>1 DEF Ids
  <2>1. CASE d # c
    BY <1>4, <2>1 DEF Ids
  <2>2. CASE d = c
    <3>1. \A t \in Topics : subs[t][c] \in Nat /\ subs[t][c] <= asked[c]
      BY SMTT(30) DEF Types, Ids
    <3>2. \A p \in req[c] : p.id \in 1 .. asked[c]
      BY DEF Ids
    <3>3. \A p, s \in req[c] : p.id = s.id => p = s
      BY DEF Ids
    <3>4. \A p, s \in req[c] \cup {q} : p.id = s.id => p = s
      BY <1>2, <1>3, <3>2, <3>3
    <3> QED
      BY <1>2, <1>3, <1>4, <2>2, <3>1, <3>2, <3>4
  <2> QED
    BY <2>1, <2>2
<1>8. \A d \in Clients : \A id \in 1 .. asked[d] : Past(d, id) => Past(d, id)'
  BY <1>2, <1>3, <1>4 DEF Past
<1>9. Subscribed'
  <2>1. \A d \in Clients, t \in Topics : subs[t][d] # 0 => subs[t][d] \in 1 .. asked[d]
    BY SMTT(30) DEF Types, Ids
  <2> SUFFICES ASSUME NEW d \in Clients, NEW t \in Topics, subs[t][d] # 0
               PROVE  \A p \in req'[d] : p.id = subs[t][d] => p.pc = "reply"
    BY <1>1 DEF Subscribed, Past
  <2> QED
    BY <1>8, <2>1 DEF Subscribed, Past
<1>10. \A d \in Clients, e \in Topics \X Nat : Dead(d, e) => Dead(d, e)'
  <2> SUFFICES ASSUME NEW d \in Clients, NEW e \in Topics \X Nat, Dead(d, e)
               PROVE  Dead(d, e)'
    OBVIOUS
  <2>1. e[2] \in 1 .. asked[d] /\ Past(d, e[2])'
    BY <1>8 DEF Dead
  <2>2. e[2] \in 1 .. asked'[d]
    BY <1>5, <2>1
  <2> QED
    BY <1>1, <2>1, <2>2 DEF Dead
<1>11. Ended'
  <2>1. \A d \in Clients : \A e \in silent[d] : Dead(d, e)'
    BY <1>10, SMTT(30) DEF Ended, Types
  <2>2. \A d \in Clients : \A p \in req[d] : \A e \in p.cancels : Dead(d, e)'
    BY <1>10, SMTT(30) DEF Ended, Types, Request
  <2> QED
    BY <1>1, <1>3, <1>4, <2>1, <2>2 DEF Ended
<1>12. Casting'
  <2>2. \A b \in Casters : \A p \in cast[b].todo \cup cast[b].cur :
           p[1] \in Clients /\ p[2] \in 1 .. asked[p[1]]
    BY SMTT(30) DEF Casting, Types, Broadcast
  <2> QED
    BY <1>1, <1>5, <2>2, SMTT(30) DEF Casting, Held
<1>13. Telling'
  BY <1>1, ToldKept DEF Telling
<1>14. OneAtATime'
  <2> SUFFICES ASSUME NEW d \in Clients, ~overlapped'[d]
               PROVE  /\ \A p, s \in req'[d] : p = s
                      /\ \A a, b \in Addrs : subs[a][d] # 0 /\ subs[b][d] # 0
                                                => subs[a][d] = subs[b][d]
                      /\ \A p \in req'[d] : p.pc = "subscribe" => \A a \in Addrs : subs[a][d] = 0
    BY <1>1 DEF OneAtATime
  <2>1. ~overlapped[d] /\ (d = c => req[c] = {})
    BY <1>1, Zenon DEF Types
  <2>2. /\ \A p, s \in req[d] : p = s
        /\ \A a, b \in Addrs : subs[a][d] # 0 /\ subs[b][d] # 0 => subs[a][d] = subs[b][d]
        /\ \A p \in req[d] : p.pc = "subscribe" => \A a \in Addrs : subs[a][d] = 0
    BY <2>1 DEF OneAtATime
  <2> QED
    BY <1>3, <1>4, <2>1, <2>2
<1> QED
  BY <1>15, <1>6, <1>7, <1>9, <1>11, <1>12, <1>13, <1>14

\* Steps of the connection itself: it is opened, written to, or closed with its channel.
LEMMA ConnectionInv ==
    ASSUME PushInv, NEW c \in Clients, UNCHANGED castVars,
           ServeHTTP(c) \/ CloseChannel(c) \/ OutputLoop(c)
    PROVE  PushInv'
<1> USE DEF PushInv, Notified
<1>0. UNCHANGED <<told, silent, req, script, asked, overlapped, subs, cast, events, owed>>
  BY DEF ServeHTTP, CloseChannel, OutputLoop, castVars, reqVars
<1>1. Ids' /\ Subscribed' /\ OneAtATime'
  BY <1>0 DEF Ids, Subscribed, Past, OneAtATime
<1>2. Ended'
  BY <1>0 DEF Ended, Dead, Past
<1>3. Casting'
  BY <1>0, CastingKept
<1>4. CASE ServeHTTP(c)
  <2>1. UNCHANGED <<closing, out>> /\ conn[c] = "none" /\ conn' = [conn EXCEPT ![c] = "open"]
    BY <1>4 DEF ServeHTTP
  <2>2. Types' /\ Channels'
    BY <1>0, <2>1, SMTT(30) DEF Types, Channels
  <2>3. Telling'
    <3> SUFFICES ASSUME NEW d \in Clients, conn'[d] = "open" PROVE ToldRight(d)
      BY <1>0, ToldKept DEF Telling
    <3>1. CASE d # c
      BY <2>1, <3>1, SMTT(30) DEF Telling, Types
    <3>2. CASE d = c
      <4>1. told[c] = <<>> /\ owed[c] = {} /\ asked[c] = 0
        BY <2>1 DEF Channels
      <4>2. ~Pending(c)
        BY <4>1, SMTT(30) DEF Pending, Casting, Casters
      <4>3. DOMAIN told[c] = {}
        BY <4>1
      <4> QED
        BY <3>2, <4>1, <4>2, <4>3 DEF ToldRight
    <3> QED
      BY <3>1, <3>2
  <2> QED
    BY <1>1, <1>2, <1>3, <2>2, <2>3
<1>5. CASE CloseChannel(c)
  <2>1. /\ conn[c] = "open" /\ conn' = [conn EXCEPT ![c] = "closed"]
        /\ out' = [out EXCEPT ![c] = 0] /\ closing' = [closing EXCEPT ![c] = Block]
    BY <1>5 DEF CloseChannel
  <2>2. Types' /\ Channels'
    <3>1. conn' \in [Clients -> {"none", "open", "closed"}]
      BY <2>1, SMTT(30) DEF Types
    <3>2. closing' \in [Clients -> {"no", Block, "addr"}]
      BY <2>1, SMTT(30) DEF Types
    <3>3. out' \in [Clients -> 0 .. OutSize]
      BY <2>1, PushAssumption, SMTT(30) DEF Types
    <3>4. Channels'
      BY <1>0, <2>1, SMTT(30) DEF Types, Channels
    <3> QED
      BY <1>0, <3>1, <3>2, <3>3, <3>4, SMTT(30) DEF Types
  <2>3. Telling'
    <3>1. \A d \in Clients : conn'[d] = "open" => conn[d] = "open"
      BY <2>1, SMTT(30) DEF Types
    <3> QED
      BY <1>0, <3>1, ToldKept DEF Telling
  <2> QED
    BY <1>1, <1>2, <1>3, <2>2, <2>3
<1>6. CASE OutputLoop(c)
  <2>1. UNCHANGED <<conn, closing>> /\ out[c] > 0 /\ out' = [out EXCEPT ![c] = @ - 1]
    BY <1>6 DEF OutputLoop
  <2>2. out' \in [Clients -> 0 .. OutSize] /\ \A d \in Clients : out[d] = 0 => out'[d] = 0
    <3>1. out \in [Clients -> 0 .. OutSize]
      BY DEF Types
    <3>2. OutSize \in Nat
      BY PushAssumption
    <3>3. out[c] - 1 \in 0 .. OutSize
      BY <2>1, <3>1, <3>2
    <3> QED
      BY <2>1, <3>1, <3>3
  <2>3. Types' /\ Channels'
    BY <1>0, <2>1, <2>2, SMTT(30) DEF Types, Channels
  <2>4. Telling'
    BY <1>0, <2>1, ToldKept DEF Telling
  <2> QED
    BY <1>1, <1>2, <1>3, <2>3, <2>4
<1> QED
  BY <1>4, <1>5, <1>6

\* onDisconnect: subscriptions are taken away, each kind under its own lock.
LEMMA DisconnectInv ==
    ASSUME PushInv, NEW c \in Clients, UNCHANGED castVars, CloseStep(c)
    PROVE  PushInv'
<1> USE DEF PushInv, Notified
<1>1. /\ UNCHANGED <<conn, out, told, silent, req, script, asked, overlapped, cast, events, owed>>
      /\ closing[c] # "no"
      /\ closing' \in [Clients -> {"no", Block, "addr"}]
      /\ \A d \in Clients \ {c} : closing'[d] = closing[d]
  <2>1. PICK x \in {"no", "addr"} : closing' = [closing EXCEPT ![c] = x] /\ closing[c] # "no"
    BY DEF CloseStep, DisconnectBlocks, DisconnectAddrs, Block
  <2>2. UNCHANGED <<conn, out, told, silent, req, script, asked, overlapped, cast, events, owed>>
    BY DEF CloseStep, DisconnectBlocks, DisconnectAddrs, castVars, reqVars
  <2>3. closing \in [Clients -> {"no", Block, "addr"}]
    BY DEF Types
  <2> QED
    BY <2>1, <2>2, <2>3
<1>2. PICK ts \in SUBSET Topics :
         /\ subs' \in [Topics -> [Clients -> Nat]]
         /\ \A t \in Topics, d \in Clients : subs'[t][d] # subs[t][d] => d = c /\ t \in ts
         /\ \A t \in ts : subs'[t][c] = 0
         /\ Held("blocks") => Block \notin ts
         /\ Held("txs") => ts \cap Addrs = {}
         /\ ts \cap Addrs = {} \/ Addrs \subseteq ts
  <2>1. CASE DisconnectBlocks(c)
    <3>1. subs' = [subs EXCEPT ![Block][c] = 0] /\ ~Held("blocks")
      BY <2>1 DEF DisconnectBlocks
    <3>2. {Block} \in SUBSET Topics
      BY DEF Topics
    <3>3. /\ subs' \in [Topics -> [Clients -> Nat]]
          /\ \A t \in Topics, d \in Clients : subs'[t][d] # subs[t][d] => d = c /\ t \in {Block}
          /\ \A t \in {Block} : subs'[t][c] = 0
      <4>1. subs \in [Topics -> [Clients -> Nat]] /\ Block \in Topics
        BY <3>2 DEF Types
      <4>2. [subs[Block] EXCEPT ![c] = 0] \in [Clients -> Nat]
        BY <4>1
      <4>3. subs' = [subs EXCEPT ![Block] = [subs[Block] EXCEPT ![c] = 0]]
        BY <3>1
      <4> QED
        BY <4>1, <4>2, <4>3
    <3>4. {Block} \cap Addrs = {}
      BY PushAssumption
    <3> QED
      BY <3>1, <3>2, <3>3, <3>4, Zenon
  <2>2. CASE DisconnectAddrs(c)
    <3>1. subs' = WithoutAddrs(c) /\ ~Held("txs")
      BY <2>2 DEF DisconnectAddrs
    <3>2. /\ subs' \in [Topics -> [Clients -> Nat]]
          /\ \A t \in Topics, d \in Clients : subs'[t][d] # subs[t][d] => d = c /\ t \in Addrs
          /\ \A a \in Addrs : subs'[a][c] = 0
      BY <3>1, WithoutAddrsFacts, Zenon
    <3>3. Addrs \in SUBSET Topics /\ Block \notin Addrs
      BY PushAssumption DEF Topics
    <3> QED
      BY <3>1, <3>2, <3>3
  <2> QED
    BY <2>1, <2>2 DEF CloseStep
<1>3. \A t \in Topics, d \in Clients : subs'[t][d] = subs[t][d] \/ (d = c /\ subs'[t][d] = 0)
  BY <1>2
<1>4. Types' /\ Channels'
  <2>1. subs' \in [Topics -> [Clients -> Nat]]
    BY <1>2
  <2>2. Types'
    BY <1>1, <2>1, Zenon DEF Types
  <2>3. ASSUME NEW d \in Clients PROVE closing'[d] # "no" => conn[d] = "closed"
    <3>1. closing[d] # "no" => conn[d] = "closed"
      BY Zenon DEF Channels
    <3>2. CASE d = c
      BY <1>1, <3>1, <3>2, Zenon
    <3>3. CASE d # c
      <4>1. closing'[d] = closing[d]
        BY <1>1, <3>3, Zenon
      <4> QED
        BY <3>1, <4>1, Zenon
    <3> QED
      BY <3>2, <3>3, Zenon
  <2>4. Channels'
    BY <1>1, <2>3, Zenon DEF Channels
  <2> QED
    BY <2>2, <2>4, Zenon
<1>5. Ids'
  <2>1. \A t \in Topics, d \in Clients : subs'[t][d] <= asked[d]
    <3> SUFFICES ASSUME NEW t \in Topics, NEW d \in Clients PROVE subs'[t][d] <= asked[d]
      OBVIOUS
    <3>1. asked[d] \in Nat /\ subs[t][d] <= asked[d]
      BY SMTT(30) DEF Ids, Types
    <3> QED
      BY <1>3, <3>1
  <2> QED
    BY <1>1, <2>1 DEF Ids
<1>6. Subscribed'
  BY <1>1, <1>3 DEF Subscribed, Past
<1>7. \A d \in Clients, e \in Topics \X Nat : Dead(d, e) => Dead(d, e)'
  <2> SUFFICES ASSUME NEW d \in Clients, NEW e \in Topics \X Nat, Dead(d, e)
               PROVE  Dead(d, e)'
    OBVIOUS
  <2>1. e[1] \in Topics /\ e[2] # 0
    BY DEF Dead
  <2> QED
    BY <1>1, <1>3, <2>1 DEF Dead, Past
<1>8. Ended'
  <2>1. \A d \in Clients : \A e \in silent[d] : Dead(d, e)'
    BY <1>7, SMTT(30) DEF Ended, Types
  <2>2. \A d \in Clients : \A q \in req[d] : \A e \in q.cancels : Dead(d, e)'
    BY <1>7, SMTT(30) DEF Ended, Types, Request
  <2> QED
    BY <1>1, <2>1, <2>2 DEF Ended
<1>9. Casting' /\ Telling'
  <2>1. \A b \in Casters : Held(b) =>
           \A d \in Clients : subs'[cast[b].topic][d] = subs[cast[b].topic][d]
    <3> SUFFICES ASSUME NEW b \in Casters, Held(b)
                 PROVE  \A d \in Clients : subs'[cast[b].topic][d] = subs[cast[b].topic][d]
      OBVIOUS
    <3>1. cast[b].topic \in Topics
      <4>1. cast[b] \in Broadcast
        BY Zenon DEF Types
      <4> QED
        BY <4>1 DEF Broadcast
    <3>2. CASE b = "blocks"
      <4>1. cast[b].topic = Block /\ Block \notin ts
        BY <1>2, <3>2, Zenon DEF Casting
      <4> QED
        BY <1>2, <3>1, <4>1
    <3>3. CASE b = "txs"
      <4>1. cast[b].topic \in Addrs
        <5>1. cast["txs"].pc = "loop"
          BY <3>3, Zenon DEF Held
        <5> QED
          BY <3>3, <5>1 DEF Casting
      <4>2. cast[b].topic \notin ts
        BY <1>2, <3>3, <4>1
      <4> QED
        BY <1>2, <3>1, <4>2
    <3> QED
      BY <3>2, <3>3 DEF Casters
  <2>2. \A b \in Casters : \A p \in cast[b].todo \cup cast[b].cur : p[1] \in Clients
    BY SMTT(30) DEF Types, Broadcast
  <2>3. Casting'
    <3>1. cast' = cast /\ asked' = asked
      BY <1>1, Zenon
    <3>2. ASSUME NEW b \in Casters, Held(b), NEW p \in cast[b].todo \cup cast[b].cur
          PROVE  p[2] = subs'[cast[b].topic][p[1]]
      <4>1. p[1] \in Clients
        BY <2>2, Zenon
      <4>2. p[2] = subs[cast[b].topic][p[1]]
        BY <3>2, Zenon DEF Casting
      <4>3. subs'[cast[b].topic][p[1]] = subs[cast[b].topic][p[1]]
        BY <2>1, <3>2, <4>1, Zenon
      <4> QED
        BY <4>2, <4>3, Zenon
    <3> QED
      BY <3>1, <3>2 DEF Casting, Held
  <2> QED
    BY <1>1, <2>3, ToldKept DEF Telling
<1>10. OneAtATime'
  <2>1. \A a \in Addrs : a \in Topics
    BY DEF Topics
  <2> QED
    BY <1>1, <1>3, <2>1 DEF OneAtATime
<1> QED
  BY <1>4, <1>5, <1>6, <1>8, <1>9, <1>10
=============================================================================
