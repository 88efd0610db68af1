------------------------------- MODULE SyncLoops -------------------------------
(***************************************************************************)
(* The goroutines of a synchronizing Blockbook after the initial sync      *)
(* (blockbook.go, bchain/mq.go): the ZeroMQ listener hands notifications   *)
(* over unbuffered channels to the loops that resync the index and the     *)
(* mempool, a third loop stores the internal state, and the main goroutine *)
(* waits for a signal, shuts everything down and closes the database.      *)
(* The goroutine the third loop may start to compute statistics is left    *)
(* out.                                                                    *)
(*                                                                         *)
(* A resync is seen from outside: at some moment it reads the backend, and *)
(* what is new in the backend after that moment is left to the next one.   *)
(***************************************************************************)
EXTENDS Integers, Sequences

CONSTANTS
    Loop,       \* the loops: index, mempool, internal state
    Notified,   \* the ones the listener notifies: index and mempool
    Retried,    \* the ones that repeat a failed call once: index
    Inputs,     \* the loops in the order in which main closes their inputs
    MaxQueue    \* messages ZeroMQ keeps for the listener; more are lost

ASSUME LoopAssumption ==
    /\ Notified \subseteq Loop /\ Notified # {} /\ Retried \subseteq Loop
    /\ Inputs \in Seq(Loop) /\ Inputs # <<>>
    /\ \A l \in Loop : \E i \in 1 .. Len(Inputs) : Inputs[i] = l
    /\ MaxQueue \in Nat \ {0}

VARIABLES
    news,       \* news[l]: the backend has something no resync of l has read
    queue,      \* ZeroMQ's queue of notifications
    mq,         \* listener: "recv", "push", "send", "finish" or "gone"
    mqKind,     \* loop of the notification it handles, or "none"
    mqStop,     \* its socket is closed
    loop,       \* loop[l]: "select", "call", "work", "sleep" or "exited"
    try,        \* try[l]: attempt of the call
    timer,      \* timer[l]: what it was reset to, "fired" or "none" (taken)
    first,      \* firstDebounce: "zero", "recent" or "old"
    sig,        \* chanOsSignal holds a signal
    inShutdown,
    main,       \* "wait", "servers", "mq", "mqwait", "close", "join" or "closed"
    at,         \* next input main closes or loop it waits for
    closed      \* closed[l]: main has closed the input of l

mqVars == <<queue, mq, mqKind, mqStop>>
loopVars == <<loop, try, timer, first>>
mainVars == <<sig, inShutdown, main, at, closed>>
vars == <<news, mqVars, loopVars, mainVars>>
-----------------------------------------------------------------------------
\* timer.Stop, draining the channel if it has fired, and timer.Reset.  Resets
\* to debounceTime alternate between two values, to tell one from the next.
Debounce == {"debounce1", "debounce2"}
ResetDebounce(l) ==
    [timer EXCEPT ![l] = IF @ = "debounce1" THEN "debounce2" ELSE "debounce1"]

Init ==
    /\ news = [l \in Notified |-> FALSE]
    /\ queue = <<>> /\ mq = "recv" /\ mqKind = "none" /\ mqStop = FALSE
    /\ loop = [l \in Loop |-> "select"]
    /\ try = [l \in Loop |-> 1]
    /\ timer = [l \in Loop |-> "tick"]
    /\ first = [l \in Loop |-> "zero"]
    /\ sig = FALSE /\ inShutdown = FALSE /\ main = "wait" /\ at = 1
    /\ closed = [l \in Loop |-> FALSE]
-----------------------------------------------------------------------------
(***************************************************************************)
(* The backend publishes a block or a transaction.  The message may be     *)
(* lost.                                                                   *)
(***************************************************************************)
Publish(l) ==
    /\ news' = [news EXCEPT ![l] = TRUE]
    /\ \/ Len(queue) < MaxQueue /\ queue' = Append(queue, l)
       \/ UNCHANGED queue
    /\ UNCHANGED <<mq, mqKind, mqStop, loopVars, mainVars>>

\* MQ.run: receive a message ...
MqRecv ==
    /\ mq = "recv" /\ queue # <<>> /\ ~mqStop
    /\ mq' = "push" /\ mqKind' = Head(queue) /\ queue' = Tail(queue)
    /\ UNCHANGED <<news, mqStop, loopVars, mainVars>>

\* ... leave the loop when the socket is closed ...
MqTerm ==
    /\ mq = "recv" /\ mqStop
    /\ mq' = "finish"
    /\ UNCHANGED <<news, queue, mqKind, mqStop, loopVars, mainVars>>

\* ... and call pushSynchronizationHandler, which does nothing in a shutdown
\* and otherwise sends to the channel of the loop.
MqPush ==
    /\ mq = "push"
    /\ IF inShutdown THEN mq' = "recv" /\ mqKind' = "none"
       ELSE mq' = "send" /\ UNCHANGED mqKind
    /\ UNCHANGED <<news, queue, mqStop, loopVars, mainVars>>

\* A send to a channel that is or becomes closed panics; run recovers.
MqPanic ==
    /\ mq = "send" /\ closed[mqKind]
    /\ mq' = "finish" /\ mqKind' = "none"
    /\ UNCHANGED <<news, queue, mqStop, loopVars, mainVars>>
-----------------------------------------------------------------------------
(***************************************************************************)
(* tickAndDebounce                                                         *)
(***************************************************************************)
TimerFires(l) ==
    /\ loop[l] = "select" /\ timer[l] # "fired"
    /\ timer' = [timer EXCEPT ![l] = "fired"]
    /\ UNCHANGED <<news, mqVars, loop, try, first, mainVars>>

\* More than debounceTime has passed since firstDebounce.
WindowPasses(l) ==
    /\ loop[l] = "select" /\ first[l] = "recent"
    /\ first' = [first EXCEPT ![l] = "old"]
    /\ UNCHANGED <<news, mqVars, loop, try, timer, mainVars>>

\* Mutant of TakeInput: every notification restarts the debounce period.
TakeInputNoCap(l) ==
    /\ loop[l] = "select" /\ mq = "send" /\ mqKind = l /\ ~closed[l]
    /\ mq' = "recv" /\ mqKind' = "none"
    /\ first' = [first EXCEPT ![l] = IF @ = "zero" THEN "recent" ELSE @]
    /\ timer' = ResetDebounce(l)
    /\ UNCHANGED <<news, queue, mqStop, loop, try, mainVars>>

\* A notification is received: debounce up to debounceTime, afterwards execute
\* immediately.
TakeInput(l) ==
    /\ loop[l] = "select" /\ mq = "send" /\ mqKind = l /\ ~closed[l]
    /\ mq' = "recv" /\ mqKind' = "none"
    /\ first' = [first EXCEPT ![l] = IF @ = "zero" THEN "recent" ELSE @]
    /\ timer' = IF first'[l] = "recent" THEN ResetDebounce(l)
                ELSE [timer EXCEPT ![l] = "now"]
    /\ UNCHANGED <<news, queue, mqStop, loop, try, mainVars>>

\* The closed input ends the loop.
LoopExit(l) ==
    /\ loop[l] = "select" /\ closed[l]
    /\ loop' = [loop EXCEPT ![l] = "exited"]
    /\ timer' = [timer EXCEPT ![l] = "none"]
    /\ first' = [first EXCEPT ![l] = "zero"]
    /\ UNCHANGED <<news, mqVars, try, mainVars>>

\* End of the timer case.
BackToSelect(l) ==
    /\ loop' = [loop EXCEPT ![l] = "select"]
    /\ try' = [try EXCEPT ![l] = 1]
    /\ timer' = [timer EXCEPT ![l] = "tick"]

\* firstDebounce is reset at the end of the case; nothing reads it before.
TimerCase(l) ==
    /\ loop[l] = "select" /\ timer[l] = "fired"
    /\ IF inShutdown THEN BackToSelect(l)
       ELSE /\ loop' = [loop EXCEPT ![l] = "call"] /\ UNCHANGED try
            /\ timer' = [timer EXCEPT ![l] = "none"]
    /\ first' = [first EXCEPT ![l] = "zero"]
    /\ UNCHANGED <<news, mqVars, mainVars>>

\* The resync reads the backend (GetBestBlockHash, GetMempoolTransactions); the
\* state loop begins to store the state.
CallReads(l) ==
    /\ loop[l] = "call"
    /\ loop' = [loop EXCEPT ![l] = "work"]
    /\ news' = [k \in Notified |-> IF k = l THEN FALSE ELSE news[k]]
    /\ try' = [try EXCEPT ![l] = 1]
    /\ UNCHANGED <<mqVars, timer, first, mainVars>>

CallEnds(l) ==
    /\ loop[l] = "work"
    /\ BackToSelect(l)
    /\ UNCHANGED <<news, mqVars, first, mainVars>>

\* The call returns an error and the backend's news are not read; the index
\* loop tries a second time after a delay.
CallFails(l) ==
    /\ loop[l] = "call"
    /\ IF l \in Retried /\ try[l] = 1
       THEN /\ loop' = [loop EXCEPT ![l] = "sleep"] /\ try' = [try EXCEPT ![l] = 2]
            /\ UNCHANGED timer
       ELSE BackToSelect(l)
    /\ UNCHANGED <<news, mqVars, first, mainVars>>

Retry(l) ==
    /\ loop[l] = "sleep"
    /\ loop' = [loop EXCEPT ![l] = "call"]
    /\ UNCHANGED <<news, mqVars, try, timer, first, mainVars>>
-----------------------------------------------------------------------------
(***************************************************************************)
(* waitForSignalAndShutdown and the end of mainWithExitCode                *)
(***************************************************************************)
\* A signal that comes later stays in the channel.
Signal ==
    /\ main = "wait" /\ ~sig /\ sig' = TRUE
    /\ UNCHANGED <<news, mqVars, loopVars, inShutdown, main, at, closed>>

TakeSignal ==
    /\ main = "wait" /\ sig
    /\ sig' = FALSE /\ inShutdown' = TRUE /\ main' = "servers"
    /\ UNCHANGED <<news, mqVars, loopVars, at, closed>>

\* Both servers, each until its requests are finished or the time is over.
StopServers ==
    /\ main = "servers" /\ main' = "mq"
    /\ UNCHANGED <<news, mqVars, loopVars, sig, inShutdown, at, closed>>

\* MQ.Shutdown does nothing when the listener has ended.
MqShutdown ==
    /\ main = "mq"
    /\ main' = IF mq \in {"finish", "gone"} THEN "close" ELSE "mqwait"
    /\ UNCHANGED <<news, mqVars, loopVars, sig, inShutdown, at, closed>>

\* Its goroutine closes the socket; it goes on after the time is over.
MqClose ==
    /\ main \in {"mqwait", "close", "join"} /\ ~mqStop
    /\ mqStop' = TRUE
    /\ UNCHANGED <<news, queue, mq, mqKind, loopVars, mainVars>>

\* mq.finished is unbuffered.
MqFinished ==
    /\ main = "mqwait" /\ mq = "finish"
    /\ main' = "close" /\ mq' = "gone"
    /\ UNCHANGED <<news, queue, mqKind, mqStop, loopVars, sig, inShutdown, at, closed>>

\* The time is over, or a step of the closing sequence returned an error.
MqGiveUp ==
    /\ main = "mqwait" /\ main' = "close"
    /\ UNCHANGED <<news, mqVars, loopVars, sig, inShutdown, at, closed>>

\* Mutant of CloseInput: the last channel is not closed.
CloseInputButLast ==
    /\ main = "close"
    /\ closed' = [closed EXCEPT ![Inputs[at]] = (at < Len(Inputs))]
    /\ IF at < Len(Inputs) THEN at' = at + 1 /\ UNCHANGED main ELSE at' = 1 /\ main' = "join"
    /\ UNCHANGED <<news, mqVars, loopVars, sig, inShutdown>>

CloseInput ==
    /\ main = "close"
    /\ closed' = [closed EXCEPT ![Inputs[at]] = TRUE]
    /\ IF at < Len(Inputs) THEN at' = at + 1 /\ UNCHANGED main ELSE at' = 1 /\ main' = "join"
    /\ UNCHANGED <<news, mqVars, loopVars, sig, inShutdown>>

\* Mutant of Join: main waits for the first loop only.
JoinFirstOnly ==
    /\ main = "join" /\ loop[Inputs[1]] = "exited"
    /\ main' = "closed" /\ UNCHANGED at
    /\ UNCHANGED <<news, mqVars, loopVars, sig, inShutdown, closed>>

\* Wait for the loops, then the deferred index.Close.
Join ==
    /\ main = "join" /\ loop[Inputs[at]] = "exited"
    /\ IF at < Len(Inputs) THEN at' = at + 1 /\ UNCHANGED main ELSE main' = "closed" /\ UNCHANGED at
    /\ UNCHANGED <<news, mqVars, loopVars, sig, inShutdown, closed>>
-----------------------------------------------------------------------------
\* The process exits with main.
Next ==
    /\ main # "closed"
    /\ \/ \E l \in Notified : Publish(l) \/ TakeInput(l)
       \/ MqRecv \/ MqTerm \/ MqPush \/ MqPanic
       \/ \E l \in Loop : \/ TimerFires(l) \/ TimerCase(l) \/ LoopExit(l)
                          \/ CallReads(l) \/ CallEnds(l) \/ CallFails(l) \/ Retry(l)
       \/ \E l \in Notified : WindowPasses(l)
       \/ Signal \/ TakeSignal \/ StopServers
       \/ MqShutdown \/ MqClose \/ MqFinished \/ MqGiveUp
       \/ CloseInput \/ Join

Spec == Init /\ [][Next]_vars

(***************************************************************************)
(* Fairness.  Goroutines that can go on do.  A select with several ready   *)
(* cases chooses at random, so a case that is ready again and again is     *)
(* taken (SF).  A timer fires unless it is reset before, so fairness is    *)
(* promised to each arming only; one that is reset to 0 fires at once.     *)
(* The backend answers again and again.                                    *)
(***************************************************************************)
Fairness ==
    /\ \A l \in Loop :
         /\ SF_vars(TimerCase(l)) /\ SF_vars(LoopExit(l))
         /\ \A t \in {"tick", "now"} \cup Debounce : WF_vars(timer[l] = t /\ TimerFires(l))
         /\ SF_vars(CallReads(l)) /\ WF_vars(CallEnds(l)) /\ WF_vars(Retry(l))
    /\ \A l \in Notified : WF_vars(WindowPasses(l))
    /\ WF_vars(TakeSignal) /\ WF_vars(StopServers) /\ WF_vars(MqShutdown)
    /\ WF_vars(MqGiveUp) /\ WF_vars(CloseInput) /\ WF_vars(Join)

FairSpec == Spec /\ Fairness
-----------------------------------------------------------------------------
\* The types of the variables; the loops and main are in their states.
TypeOK ==
    /\ news \in [Notified -> BOOLEAN]
    /\ queue \in Seq(Notified) /\ Len(queue) <= MaxQueue
    /\ mq \in {"recv", "push", "send", "finish", "gone"}
    /\ mqKind \in Notified \cup {"none"} /\ mqStop \in BOOLEAN
    /\ loop \in [Loop -> {"select", "call", "work", "sleep", "exited"}]
    /\ try \in [Loop -> 1 .. 2]
    /\ timer \in [Loop -> {"tick", "now", "fired", "none"} \cup Debounce]
    /\ first \in [Loop -> {"zero", "recent", "old"}]
    /\ sig \in BOOLEAN /\ inShutdown \in BOOLEAN
    /\ main \in {"wait", "servers", "mq", "mqwait", "close", "join", "closed"}
    /\ at \in 1 .. Len(Inputs) /\ closed \in [Loop -> BOOLEAN]

\* The database is closed only when the loops that use it have ended, whatever
\* they were doing when the signal came.
ClosedAfterLoops == main = "closed" => \A l \in Loop : loop[l] = "exited"

\* Whatever the backend publishes is read by a resync, unless the process
\* shuts down: also when the notification is lost, when the call fails, and
\* when notifications come so fast that the debounce timer is always reset.
BackendSeen == \A l \in Notified : news[l] ~> (~news[l] \/ inShutdown)

\* A signal ends the process: with the listener blocked on a channel, with
\* resyncs running and failing, and while notifications keep coming.
ShutdownEnds == sig /\ main = "wait" ~> main = "closed"
=============================================================================
