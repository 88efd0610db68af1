------------------------------ MODULE PushServer ------------------------------
(***************************************************************************)
(* The servers that push news to their clients (server/websocket.go,       *)
(* server/socketio.go and the callbacks of server/public.go).              *)
(*                                                                         *)
(* A websocket client has a reader (inputLoop), a writer (outputLoop), a   *)
(* bounded channel between them, and a goroutine for each of its requests. *)
(* The synchronization broadcasts new blocks and the mempool broadcasts    *)
(* transactions of subscribed addresses; a broadcast keeps the lock of its *)
(* subscriptions until every subscriber has been served.  A critical       *)
(* section that waits for nothing inside is one step here; the two that    *)
(* wait are the broadcast and closeChannel, which holds the client's       *)
(* aliveLock while it takes both subscription locks in turn.               *)
(*                                                                         *)
(* Clients of socket.io are kept in rooms by the library.                  *)
(***************************************************************************)
EXTENDS Integers, Sequences, FiniteSets

CONSTANTS
    Clients,        \* websocket connections
    SioClients,     \* socket.io connections
    Addrs,          \* address descriptors
    OutSize,        \* outChannelSize
    Asks,           \* Asks[c]: the sequences of requests client c may make, each
                    \* with a method and addresses; they bound the run
    MaxEvents       \* bound: broadcasts of each kind

VARIABLES
    conn,       \* conn[c]: "none", "open" (c.alive) or "closed" (c.out too)
    closing,    \* closing[c]: "no", or the subscriptions onDisconnect is at
    out,        \* out[c]: messages in the channel c.out
    req,        \* req[c]: the request goroutines of c
    script,     \* script[c]: the requests c makes, chosen at the start
    asked,      \* asked[c]: requests received, the last one's id
    subs,       \* subs[t][c]: id of the subscription to topic t, 0 if none
    cast,       \* cast[b]: the broadcasters
    events,     \* events[b]: broadcasts started
    crashed,    \* a panic nobody recovers has ended the process
    rooms,      \* rooms[t]: socket.io clients that joined
    wanted,     \* wanted[c][t]: a subscription of c to t was answered (history)
    silent,     \* silent[c]: topics with the id of a subscription whose end was
                \* answered (history)
    told,       \* told[c]: blocks c was told of (history)
    owed,       \* owed[c]: blocks broadcast while c was subscribed (history)
    overlapped  \* overlapped[c]: two requests of c ran at a time (history)

chanVars == <<conn, closing, out, told, silent>>
reqVars == <<req, script, asked, overlapped>>
castVars == <<cast, events, owed>>
sioVars == <<rooms, wanted>>
vars == <<chanVars, reqVars, subs, castVars, crashed, sioVars>>

Block == "block"
Topics == {Block} \cup Addrs
Casters == {"blocks", "txs"}
Methods == {"query", "subscribeNewBlock", "unsubscribeNewBlock",
            "subscribeAddresses", "unsubscribeAddresses"}
ASSUME PushAssumption ==
    /\ OutSize \in Nat \ {0} /\ MaxEvents \in Nat /\ Block \notin Addrs
    /\ \A c \in Clients : Asks[c] \subseteq Seq(Methods \X SUBSET Addrs)

NewReq(id, ask) ==
    [pc |-> "run", method |-> ask[1], id |-> id, addrs |-> ask[2], cancels |-> {}]
Cast(pc, topic, todo) == [pc |-> pc, topic |-> topic, todo |-> todo, cur |-> {}]
NoCast == Cast("idle", Block, {})

\* The lock of the subscriptions b serves is held by b's broadcast.
Held(b) == cast[b].pc = "loop"
\* What a broadcast ranges over: the channels with the ids of their requests.
Subscribers(t) == {<<c, subs[t][c]>> : c \in {d \in Clients : subs[t][d] # 0}}

Init ==
    /\ conn = [c \in Clients |-> "none"]
    /\ closing = [c \in Clients |-> "no"]
    /\ out = [c \in Clients |-> 0]
    /\ req = [c \in Clients |-> {}]
    /\ script \in [Clients -> UNION {Asks[c] : c \in Clients}]
    /\ \A c \in Clients : script[c] \in Asks[c]
    /\ asked = [c \in Clients |-> 0]
    /\ subs = [t \in Topics |-> [c \in Clients |-> 0]]
    /\ cast = [b \in Casters |-> NoCast]
    /\ events = [b \in Casters |-> 0]
    /\ crashed = FALSE
    /\ rooms = [t \in Topics |-> {}]
    /\ wanted = [c \in SioClients |-> [t \in Topics |-> FALSE]]
    /\ silent = [c \in Clients |-> {}] /\ told = [c \in Clients |-> <<>>]
    /\ owed = [c \in Clients |-> {}]
    /\ overlapped = [c \in Clients |-> FALSE]
-----------------------------------------------------------------------------
(***************************************************************************)
(* Connections.                                                            *)
(***************************************************************************)
\* ServeHTTP: the channel is created alive and its goroutines start.
ServeHTTP(c) ==
    /\ conn[c] = "none"
    /\ conn' = [conn EXCEPT ![c] = "open"]
    /\ UNCHANGED <<closing, out, told, silent, reqVars, subs>>

\* closeChannel, called by the reader (read error, bad or binary message,
\* close message) or by the writer (write error), with aliveLock taken: close
\* the connection and the channel and drain it.  A second call finds the
\* channel not alive and does nothing.
CloseChannel(c) ==
    /\ conn[c] = "open" /\ closing[c] = "no"
    /\ conn' = [conn EXCEPT ![c] = "closed"]
    /\ out' = [out EXCEPT ![c] = 0]
    /\ closing' = [closing EXCEPT ![c] = Block]
    /\ UNCHANGED <<told, silent, reqVars, subs>>

\* onDisconnect, with aliveLock still held: unsubscribeNewBlock ...
DisconnectBlocks(c) ==
    /\ closing[c] = Block /\ ~Held("blocks")
    /\ subs' = [subs EXCEPT ![Block][c] = 0]
    /\ closing' = [closing EXCEPT ![c] = "addr"]
    /\ UNCHANGED <<conn, out, told, silent, reqVars>>

\* unsubscribeAddresses: c is removed from every address.
WithoutAddrs(c) ==
    [t \in Topics |-> IF t \in Addrs THEN [subs[t] EXCEPT ![c] = 0] ELSE subs[t]]

\* ... and unsubscribeAddresses; then the lock is released.
DisconnectAddrs(c) ==
    /\ closing[c] = "addr" /\ ~Held("txs")
    /\ subs' = WithoutAddrs(c)
    /\ closing' = [closing EXCEPT ![c] = "no"]
    /\ UNCHANGED <<conn, out, told, silent, reqVars>>

\* Mutant of OutputLoop: messages are written in batches of two.
OutputLoopBatch(c) ==
    /\ out[c] > 1
    /\ out' = [out EXCEPT ![c] = 0]
    /\ UNCHANGED <<conn, closing, told, silent, reqVars, subs>>

\* outputLoop: the next message is written to the connection.
OutputLoop(c) ==
    /\ out[c] > 0
    /\ out' = [out EXCEPT ![c] = @ - 1]
    /\ UNCHANGED <<conn, closing, told, silent, reqVars, subs>>
-----------------------------------------------------------------------------
(***************************************************************************)
(* Requests.                                                               *)
(***************************************************************************)
\* inputLoop: a text message starts a goroutine for its request.
InputLoop(c) ==
    /\ conn[c] = "open" /\ asked[c] < Len(script[c])
    /\ asked' = [asked EXCEPT ![c] = @ + 1]
    /\ req' = [req EXCEPT ![c] = @ \cup {NewReq(asked'[c], script[c][asked'[c]])}]
    /\ overlapped' = [overlapped EXCEPT ![c] = @ \/ req[c] # {}]
    /\ UNCHANGED <<chanVars, script, subs>>

\* The goroutine goes on to pc, having ended the subscriptions of c to the topics ts.
Goto(c, r, pc, ts) ==
    /\ req' = [req EXCEPT ![c] = (@ \ {r}) \cup
                 {[r EXCEPT !.pc = pc, !.cancels = @ \cup
                                {<<t, subs[t][c]>> : t \in {u \in ts : subs[u][c] # 0}}]}]
    /\ UNCHANGED <<chanVars, script, asked, overlapped>>

\* requestHandlers: every handler but the four below reads and returns data
\* or an error; an unknown method is an error, and a panic is answered with
\* one too.
OnRequest(c, r) ==
    /\ r.pc = "run" /\ r.method = "query"
    /\ Goto(c, r, "reply", {})
    /\ UNCHANGED subs

SubscribeNewBlock(c, r) ==
    /\ r.pc = "run" /\ r.method = "subscribeNewBlock" /\ ~Held("blocks")
    /\ subs' = [subs EXCEPT ![Block][c] = r.id]
    /\ Goto(c, r, "reply", {Block})

UnsubscribeNewBlock(c, r) ==
    /\ r.pc = "run" /\ r.method = "unsubscribeNewBlock" /\ ~Held("blocks")
    /\ subs' = [subs EXCEPT ![Block][c] = 0]
    /\ Goto(c, r, "reply", {Block})

UnsubscribeAddresses(c, r) ==
    /\ r.pc = "run" /\ r.method = "unsubscribeAddresses" /\ ~Held("txs")
    /\ subs' = WithoutAddrs(c)
    /\ Goto(c, r, "reply", Addrs)

\* Mutant of UnsubscribePrevious: the previous subscriptions are kept.
UnsubscribePreviousNot(c, r) ==
    /\ r.pc = "run" /\ r.method = "subscribeAddresses" /\ ~Held("txs")
    /\ Goto(c, r, "subscribe", {})
    /\ UNCHANGED subs

\* subscribeAddresses: unsubscribe all previous subscriptions ...
UnsubscribePrevious(c, r) ==
    /\ r.pc = "run" /\ r.method = "subscribeAddresses" /\ ~Held("txs")
    /\ subs' = WithoutAddrs(c)
    /\ Goto(c, r, "subscribe", Addrs)

\* ... and, the lock having been free in between, enter the new ones.
SubscribeAddresses(c, r) ==
    /\ r.pc = "subscribe" /\ ~Held("txs")
    /\ subs' = [t \in Topics |-> IF t \in r.addrs
                                 THEN [subs[t] EXCEPT ![c] = r.id] ELSE subs[t]]
    /\ Goto(c, r, "reply", r.addrs)

\* sendResponse: the send waits while the channel is full; on a closed
\* channel it panics, which the function recovers.
SendResponse(c, r) ==
    /\ r.pc = "reply"
    /\ \/ /\ conn[c] = "open" /\ out[c] < OutSize
          /\ out' = [out EXCEPT ![c] = @ + 1]
          /\ silent' = [silent EXCEPT ![c] = @ \cup r.cancels]
       \/ conn[c] = "closed" /\ UNCHANGED <<out, silent>>
    /\ req' = [req EXCEPT ![c] = @ \ {r}]
    /\ UNCHANGED <<conn, closing, told, script, asked, overlapped, subs>>
-----------------------------------------------------------------------------
(***************************************************************************)
(* Broadcasts.                                                             *)
(***************************************************************************)
\* OnNewBlock: the lock is taken and kept.
OnNewBlock ==
    /\ cast["blocks"].pc = "idle" /\ events["blocks"] < MaxEvents
    /\ cast' = [cast EXCEPT !["blocks"] = Cast("loop", Block, Subscribers(Block))]
    /\ events' = [events EXCEPT !["blocks"] = @ + 1]
    /\ owed' = [c \in Clients |-> owed[c] \cup
                   IF subs[Block][c] # 0 THEN {events["blocks"] + 1} ELSE {}]
    /\ UNCHANGED <<chanVars, reqVars, subs>>

\* OnNewTxAddr: with no subscriber nothing happens; otherwise the lock is
\* released, the transaction is read, which may fail ...
OnNewTxAddr(a) ==
    /\ cast["txs"].pc = "idle" /\ events["txs"] < MaxEvents /\ Subscribers(a) # {}
    /\ cast' = [cast EXCEPT !["txs"] = Cast("details", a, Subscribers(a))]
    /\ events' = [events EXCEPT !["txs"] = @ + 1]
    /\ UNCHANGED <<chanVars, reqVars, subs, owed>>

TxDetailsFail ==
    /\ cast["txs"].pc = "details"
    /\ cast' = [cast EXCEPT !["txs"] = NoCast]
    /\ UNCHANGED <<chanVars, reqVars, subs, events, owed>>

\* Mutant of TxSubscribers: the subscribers read before the details are used.
TxSubscribersStale ==
    /\ cast["txs"].pc = "details"
    /\ cast' = [cast EXCEPT !["txs"].pc = "loop"]
    /\ UNCHANGED <<chanVars, reqVars, subs, events, owed>>

\* ... and the subscribers are read again, this time keeping the lock.
TxSubscribers ==
    /\ cast["txs"].pc = "details"
    /\ cast' = [cast EXCEPT !["txs"].pc = "loop",
                            !["txs"].todo = Subscribers(cast["txs"].topic)]
    /\ UNCHANGED <<chanVars, reqVars, subs, events, owed>>

\* c.IsAlive(), for the next client of the map's iteration: it waits for a
\* closeChannel that has the client's lock.
CheckAlive(b, p) ==
    /\ Held(b) /\ cast[b].cur = {} /\ closing[p[1]] = "no"
    /\ cast' = [cast EXCEPT ![b].todo = @ \ {p},
                            ![b].cur = IF conn[p[1]] = "open" THEN {p} ELSE {}]
    /\ UNCHANGED <<chanVars, reqVars, subs, events, owed>>

\* The send: it waits while the channel is full.
CastSend(b, p) ==
    /\ Held(b) /\ conn[p[1]] = "open" /\ out[p[1]] < OutSize
    /\ out' = [out EXCEPT ![p[1]] = @ + 1]
    /\ told' = [told EXCEPT ![p[1]] = IF b = "blocks" THEN Append(@, events[b]) ELSE @]
    /\ cast' = [cast EXCEPT ![b].cur = {}]
    /\ UNCHANGED <<conn, closing, silent, reqVars, subs, events, owed>>

CastEnd(b) ==
    /\ Held(b) /\ cast[b].cur = {} /\ cast[b].todo = {}
    /\ cast' = [cast EXCEPT ![b] = NoCast]
    /\ UNCHANGED <<chanVars, reqVars, subs, events, owed>>

\* The channel has been closed since IsAlive, or while the send waited.
CastPanic(b) ==
    /\ Held(b) /\ \E p \in cast[b].cur : conn[p[1]] = "closed"
    /\ crashed' = TRUE
    /\ UNCHANGED <<chanVars, reqVars, subs, castVars, sioVars>>
-----------------------------------------------------------------------------
(***************************************************************************)
(* socket.io                                                               *)
(***************************************************************************)
\* onSubscribe to new blocks or to a list of addresses, one of which may be
\* invalid: all are converted before the first room is joined.
OnSubscribe(c, ts, bad) ==
    /\ ~bad
    /\ rooms' = [t \in Topics |-> IF t \in ts THEN rooms[t] \cup {c} ELSE rooms[t]]
    /\ wanted' = [wanted EXCEPT ![c] = [t \in Topics |-> wanted[c][t] \/ t \in ts]]

\* The library takes a client that disconnects out of its rooms.
SioDisconnect(c) ==
    /\ rooms' = [t \in Topics |-> rooms[t] \ {c}]
    /\ wanted' = [wanted EXCEPT ![c] = [t \in Topics |-> FALSE]]
-----------------------------------------------------------------------------
ClientStep(c) ==
    \/ ServeHTTP(c)
    \/ CloseChannel(c)
    \/ InputLoop(c)
RequestStep(c) ==
    \E r \in req[c] :
        \/ OnRequest(c, r) \/ SubscribeNewBlock(c, r) \/ UnsubscribeNewBlock(c, r)
        \/ UnsubscribeAddresses(c, r) \/ UnsubscribePrevious(c, r) \/ SubscribeAddresses(c, r)
        \/ SendResponse(c, r)
CloseStep(c) == DisconnectBlocks(c) \/ DisconnectAddrs(c)
CastStep(b) ==
    \/ \E p \in cast[b].todo : CheckAlive(b, p)
    \/ \E p \in cast[b].cur : CastSend(b, p)
    \/ CastEnd(b)
    \/ b = "txs" /\ (TxDetailsFail \/ TxSubscribers)

Alive(A) == ~crashed /\ A /\ UNCHANGED <<crashed, sioVars>>
Websocket(A) == Alive(A /\ UNCHANGED castVars)
SocketIo(A) == ~crashed /\ A /\ UNCHANGED <<chanVars, reqVars, subs, castVars, crashed>>

Next ==
    \/ \E c \in Clients :
         \/ Websocket(ClientStep(c)) \/ Websocket(CloseStep(c)) \/ Websocket(OutputLoop(c))
         \/ Websocket(RequestStep(c))
    \/ Alive(OnNewBlock)
    \/ \E a \in Addrs : Alive(OnNewTxAddr(a))
    \/ \E b \in Casters : Alive(CastStep(b)) \/ (~crashed /\ CastPanic(b))
    \/ \E c \in SioClients :
         \/ SocketIo(SioDisconnect(c))
         \/ \E ts \in SUBSET Addrs \cup {{Block}}, bad \in BOOLEAN : SocketIo(OnSubscribe(c, ts, bad))

Spec == Init /\ [][Next]_vars

\* Goroutines that can run do, and the clients read what is sent to them.
FairSpec ==
    /\ Spec
    /\ \A b \in Casters : WF_vars(Alive(CastStep(b)))
    /\ \A c \in Clients :
         /\ WF_vars(Websocket(OutputLoop(c))) /\ WF_vars(Websocket(CloseStep(c)))
         /\ WF_vars(Websocket(RequestStep(c)))
-----------------------------------------------------------------------------
\* The connections, channels and broadcasters have the shape the code gives
\* them: the channel never exceeds its capacity, a closed one stays empty, and
\* aliveLock is held across steps only by the close of a closed channel.
TypeOK ==
    /\ conn \in [Clients -> {"none", "open", "closed"}]
    /\ closing \in [Clients -> {"no", Block, "addr"}]
    /\ out \in [Clients -> 0 .. OutSize]
    /\ \A c \in Clients :
         /\ conn[c] # "open" => out[c] = 0
         /\ closing[c] # "no" => conn[c] = "closed"
    /\ \A t \in Topics, c \in Clients : subs[t][c] \in 0 .. Len(script[c])
    /\ \A b \in Casters :
         /\ cast[b].pc \in {"idle", "details", "loop"} /\ cast[b].topic \in Topics
         /\ Cardinality(cast[b].cur) <= 1
         /\ \A p \in cast[b].todo \cup cast[b].cur : p[1] \in Clients /\ p[2] \in 1 .. Len(script[p[1]])

\* Once a client has been sent the answer to a request that ended a
\* subscription, it is sent nothing more for it: broadcasts use the
\* subscriptions as they are while they hold the lock (OnNewBlock, the second
\* read of OnNewTxAddr).
QuietAfterUnsubscribe ==
    \A b \in Casters : Held(b) =>
        \A p \in cast[b].todo \cup cast[b].cur : <<cast[b].topic, p[2]>> \notin silent[p[1]]

\* When no broadcast is under way, a client that is still connected has been
\* told of every block that was broadcast while it was subscribed, once and
\* in order, whatever happened to the other clients.
EveryoneTold ==
    \A c \in Clients : conn[c] = "open" /\ ~Held("blocks") =>
        /\ {told[c][i] : i \in DOMAIN told[c]} = owed[c]
        /\ \A i, j \in DOMAIN told[c] : i < j => told[c][i] < told[c][j]

\* The subscriptions of a client that waits for an answer before it asks
\* again are all of one request: subscribeAddresses replaces what there was.
OneAddressRequest ==
    \A c \in Clients :
        conn[c] = "open" /\ ~overlapped[c] /\ req[c] = {} =>
            Cardinality({subs[a][c] : a \in Addrs} \ {0}) <= 1

\* A socket.io client is in the rooms its answered subscriptions named, and
\* in no other: a list with an invalid address subscribes to none of it.
SioAllOrNothing ==
    \A c \in SioClients, t \in Topics : c \in rooms[t] <=> wanted[c][t]

\* A broadcast ends, full channels and busy requests notwithstanding, unless
\* a client leaves: the clients' writers drain what it waits for.
BroadcastEnds ==
    \A b \in Casters : Held(b) ~> (~Held(b) \/ \E c \in Clients : conn[c] = "closed")

\* Clients are told what they asked for and nothing else: every block while they are
\* subscribed, and nothing after the answer to the request that ended it.
NotificationsExact == TypeOK /\ QuietAfterUnsubscribe /\ EveryoneTold

\* The subscriptions are those of the requests that were answered.
SubscriptionsExact == OneAddressRequest /\ SioAllOrNothing
=============================================================================
