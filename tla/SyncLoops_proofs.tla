--------------------------- MODULE SyncLoops_proofs ---------------------------
(***************************************************************************)
(* For any set of loops: the variables keep their types, and the database  *)
(* is closed after the last of the loops has ended.                        *)
(***************************************************************************)
EXTENDS SyncLoops, TLAPS

\* While main waits for the loops, the ones before position at have ended.
JoinedExited ==
    main = "join" => \A i \in 1 .. at - 1 : loop[Inputs[i]] = "exited"

\* The inductive invariant.
IInv == TypeOK /\ JoinedExited /\ ClosedAfterLoops

\* The sequence of inputs has a first position.
LEMMA LenPos == Len(Inputs) \in Nat /\ Len(Inputs) >= 1
  BY LoopAssumption

\* The loops that are notified are loops.
LEMMA NotifiedLoop == Notified \subseteq Loop
  BY LoopAssumption

\* Types of the initial state.
LEMMA InitType == Init => TypeOK
  <1> SUFFICES ASSUME Init PROVE TypeOK
    OBVIOUS
  <1>1. news \in [Notified -> BOOLEAN] /\ closed \in [Loop -> BOOLEAN]
    BY DEF Init
  <1>2. queue \in Seq(Notified) /\ Len(queue) <= MaxQueue
    BY LoopAssumption DEF Init
  <1>3. /\ mq \in {"recv", "push", "send", "finish", "gone"}
        /\ mqKind \in Notified \cup {"none"}
        /\ main \in {"wait", "servers", "mq", "mqwait", "close", "join", "closed"}
    BY DEF Init
  <1>4. mqStop \in BOOLEAN /\ sig \in BOOLEAN /\ inShutdown \in BOOLEAN
    BY Zenon DEF Init
  <1>5. /\ loop \in [Loop -> {"select", "call", "work", "sleep", "exited"}]
        /\ try \in [Loop -> 1 .. 2]
        /\ first \in [Loop -> {"zero", "recent", "old"}]
    BY DEF Init
  <1>6. timer \in [Loop -> {"tick", "now", "fired", "none"} \cup Debounce]
    BY DEF Init
  <1>7. at \in 1 .. Len(Inputs)
    BY LenPos DEF Init
  <1> QED
    BY <1>1, <1>2, <1>3, <1>4, <1>5, <1>6, <1>7 DEF TypeOK

\* What the end of the timer case does to the variables of the loops.
LEMMA BackType ==
  ASSUME TypeOK, NEW l \in Loop, BackToSelect(l)
  PROVE  /\ loop' \in [Loop -> {"select", "call", "work", "sleep", "exited"}]
         /\ try' \in [Loop -> 1 .. 2]
         /\ timer' \in [Loop -> {"tick", "now", "fired", "none"} \cup Debounce]
  <1>1. /\ loop' \in [Loop -> {"select", "call", "work", "sleep", "exited"}]
        /\ try' \in [Loop -> 1 .. 2]
    BY DEF TypeOK, BackToSelect
  <1>2. timer' \in [Loop -> {"tick", "now", "fired", "none"} \cup Debounce]
    BY DEF TypeOK, BackToSelect
  <1> QED
    BY <1>1, <1>2

\* Every step keeps the types.
LEMMA NextType == TypeOK /\ [Next]_vars => TypeOK'
  <1> SUFFICES ASSUME TypeOK, [Next]_vars PROVE TypeOK'
    OBVIOUS
  <1> USE NotifiedLoop
  <1>1. ASSUME NEW l \in Notified, Publish(l) PROVE TypeOK'
    <2>1. news' \in [Notified -> BOOLEAN]
      BY <1>1 DEF TypeOK, Publish
    <2>2. queue' \in Seq(Notified) /\ Len(queue') <= MaxQueue
      <3>1. queue \in Seq(Notified) /\ Len(queue) <= MaxQueue /\ MaxQueue \in Nat
        BY LoopAssumption DEF TypeOK
      <3>2. CASE Len(queue) < MaxQueue /\ queue' = Append(queue, l)
        BY <3>1, <3>2
      <3>3. CASE queue' = queue
        BY <3>1, <3>3
      <3> QED
        BY <1>1, <3>2, <3>3 DEF Publish
    <2> QED
      BY <1>1, <2>1, <2>2 DEF TypeOK, Publish, mqVars, loopVars, mainVars
  <1>2. ASSUME NEW l \in Notified, TakeInput(l) PROVE TypeOK'
    BY <1>2 DEF TypeOK, TakeInput, mqVars, loopVars, mainVars, ResetDebounce, Debounce
  <1>3. CASE MqRecv
    <2>1. queue' \in Seq(Notified) /\ Len(queue') <= MaxQueue
      <3>1. queue \in Seq(Notified) /\ Len(queue) <= MaxQueue /\ MaxQueue \in Nat
        BY LoopAssumption DEF TypeOK
      <3>2. queue # <<>> /\ queue' = Tail(queue)
        BY <1>3 DEF MqRecv
      <3> QED
        BY <3>1, <3>2
    <2>2. mqKind' \in Notified \cup {"none"}
      BY <1>3 DEF TypeOK, MqRecv
    <2> QED
      BY <1>3, <2>1, <2>2 DEF TypeOK, MqRecv, mqVars, loopVars, mainVars
  <1>4. CASE MqTerm
    BY <1>4 DEF TypeOK, MqTerm, mqVars, loopVars, mainVars
  <1>5. CASE MqPush
    BY <1>5 DEF TypeOK, MqPush, mqVars, loopVars, mainVars
  <1>6. CASE MqPanic
    BY <1>6 DEF TypeOK, MqPanic, mqVars, loopVars, mainVars
  <1>7. ASSUME NEW l \in Loop, TimerFires(l) PROVE TypeOK'
    BY <1>7 DEF TypeOK, TimerFires, mqVars, loopVars, mainVars, Debounce
  <1>8. ASSUME NEW l \in Loop, TimerCase(l) PROVE TypeOK'
    <2>1. first' \in [Loop -> {"zero", "recent", "old"}]
      BY <1>8 DEF TypeOK, TimerCase
    <2>2. CASE inShutdown
      BY <1>8, <2>1, <2>2, BackType DEF TypeOK, TimerCase, mqVars, loopVars, mainVars
    <2>3. CASE ~inShutdown
      <3>1. loop' \in [Loop -> {"select", "call", "work", "sleep", "exited"}]
        <4>1. loop' = [loop EXCEPT ![l] = "call"]
          BY <1>8, <2>3 DEF TimerCase
        <4> QED
          BY <4>1 DEF TypeOK
      <3>2. timer' \in [Loop -> {"tick", "now", "fired", "none"} \cup Debounce]
        <4>1. timer' = [timer EXCEPT ![l] = "none"]
          BY <1>8, <2>3 DEF TimerCase
        <4> QED
          BY <4>1 DEF TypeOK
      <3>3. try' = try
        BY <1>8, <2>3 DEF TimerCase
      <3> QED
        BY <1>8, <2>1, <3>1, <3>2, <3>3 DEF TypeOK, TimerCase, mqVars, loopVars, mainVars
    <2> QED
      BY <2>2, <2>3
  <1>9. ASSUME NEW l \in Loop, LoopExit(l) PROVE TypeOK'
    BY <1>9 DEF TypeOK, LoopExit, mqVars, loopVars, mainVars, Debounce
  <1>10. ASSUME NEW l \in Loop, CallReads(l) PROVE TypeOK'
    <2>1. news' \in [Notified -> BOOLEAN]
      BY <1>10, Zenon DEF TypeOK, CallReads
    <2>2. /\ loop' \in [Loop -> {"select", "call", "work", "sleep", "exited"}]
          /\ try' \in [Loop -> 1 .. 2]
      <3>1. loop' = [loop EXCEPT ![l] = "work"] /\ try' = [try EXCEPT ![l] = 1]
        BY <1>10 DEF CallReads
      <3> QED
        BY <3>1 DEF TypeOK
    <2> QED
      BY <1>10, <2>1, <2>2, ZenonT(30) DEF TypeOK, CallReads, mqVars, loopVars, mainVars
  <1>11. ASSUME NEW l \in Loop, CallEnds(l) PROVE TypeOK'
    BY <1>11, BackType DEF TypeOK, CallEnds, mqVars, loopVars, mainVars
  <1>12. ASSUME NEW l \in Loop, CallFails(l) PROVE TypeOK'
    <2>1. CASE l \in Retried /\ try[l] = 1
      <3>1. /\ loop' \in [Loop -> {"select", "call", "work", "sleep", "exited"}]
            /\ try' \in [Loop -> 1 .. 2]
        <4>1. loop' = [loop EXCEPT ![l] = "sleep"] /\ try' = [try EXCEPT ![l] = 2]
          BY <1>12, <2>1 DEF CallFails
        <4> QED
          BY <4>1 DEF TypeOK
      <3>2. timer' = timer
        BY <1>12, <2>1 DEF CallFails
      <3> QED
        BY <1>12, <3>1, <3>2 DEF TypeOK, CallFails, mqVars, loopVars, mainVars
    <2>2. CASE ~(l \in Retried /\ try[l] = 1)
      BY <1>12, <2>2, BackType DEF TypeOK, CallFails, mqVars, loopVars, mainVars
    <2> QED
      BY <2>1, <2>2
  <1>13. ASSUME NEW l \in Loop, Retry(l) PROVE TypeOK'
    BY <1>13 DEF TypeOK, Retry, mqVars, loopVars, mainVars
  <1>14. ASSUME NEW l \in Notified, WindowPasses(l) PROVE TypeOK'
    BY <1>14 DEF TypeOK, WindowPasses, mqVars, loopVars, mainVars
  <1>15. CASE Signal
    BY <1>15 DEF TypeOK, Signal, mqVars, loopVars, mainVars
  <1>16. CASE TakeSignal
    BY <1>16, Zenon DEF TypeOK, TakeSignal, mqVars, loopVars, mainVars
  <1>17. CASE StopServers
    BY <1>17 DEF TypeOK, StopServers, mqVars, loopVars, mainVars
  <1>18. CASE MqShutdown
    BY <1>18 DEF TypeOK, MqShutdown, mqVars, loopVars, mainVars
  <1>19. CASE MqClose
    BY <1>19 DEF TypeOK, MqClose, mqVars, loopVars, mainVars
  <1>20. CASE MqFinished
    BY <1>20 DEF TypeOK, MqFinished, mqVars, loopVars, mainVars
  <1>21. CASE MqGiveUp
    BY <1>21 DEF TypeOK, MqGiveUp, mqVars, loopVars, mainVars
  <1>22. CASE CloseInput
    <2>1. closed' \in [Loop -> BOOLEAN]
      BY <1>22, Zenon DEF TypeOK, CloseInput
    <2>2. at' \in 1 .. Len(Inputs)
      <3>1. at \in 1 .. Len(Inputs)
        BY DEF TypeOK
      <3>2. \/ at < Len(Inputs) /\ at' = at + 1
            \/ at' = 1
        BY <1>22 DEF CloseInput
      <3> QED
        BY <3>1, <3>2, LenPos
    <2>3. main' \in {"wait", "servers", "mq", "mqwait", "close", "join", "closed"}
      BY <1>22 DEF TypeOK, CloseInput
    <2> QED
      BY <1>22, <2>1, <2>2, <2>3 DEF TypeOK, CloseInput, mqVars, loopVars, mainVars
  <1>23. CASE Join
    <2>1. at' \in 1 .. Len(Inputs)
      <3>1. at \in 1 .. Len(Inputs)
        BY DEF TypeOK
      <3>2. \/ at < Len(Inputs) /\ at' = at + 1
            \/ at' = at
        BY <1>23 DEF Join
      <3> QED
        BY <3>1, <3>2, LenPos
    <2>2. main' \in {"wait", "servers", "mq", "mqwait", "close", "join", "closed"}
      BY <1>23 DEF TypeOK, Join
    <2> QED
      BY <1>23, <2>1, <2>2 DEF TypeOK, Join, mqVars, loopVars, mainVars
  <1>24. CASE UNCHANGED vars
    BY <1>24 DEF TypeOK, vars, mqVars, loopVars, mainVars
  <1> QED
    BY <1>1, <1>2, <1>3, <1>4, <1>5, <1>6, <1>7, <1>8, <1>9, <1>10, <1>11, <1>12, <1>13, <1>14, <1>15, <1>16, <1>17, <1>18, <1>19, <1>20, <1>21, <1>22, <1>23, <1>24 DEF Next

\* A loop that has ended stays so: every step of a loop starts elsewhere.
LEMMA ExitedStable ==
  ASSUME TypeOK, [Next]_vars, NEW k \in Loop, loop[k] = "exited"
  PROVE  loop'[k] = "exited"
  <1>1. CASE UNCHANGED loop
    BY <1>1
  <1>2. CASE \E l \in Loop : /\ loop[l] # "exited"
                             /\ \E p \in {"select", "call", "work", "sleep", "exited"} :
                                    loop' = [loop EXCEPT ![l] = p]
    BY <1>2 DEF TypeOK
  <1>3. ASSUME NEW l \in Loop,
               TimerCase(l) \/ LoopExit(l) \/ CallReads(l) \/ CallEnds(l)
                 \/ CallFails(l) \/ Retry(l)
        PROVE  /\ loop[l] # "exited"
               /\ \E p \in {"select", "call", "work", "sleep", "exited"} :
                      loop' = [loop EXCEPT ![l] = p]
    <2>1. loop[l] # "exited"
      BY <1>3, Zenon DEF TimerCase, LoopExit, CallReads, CallEnds, CallFails, Retry
    <2>2. \/ loop' = [loop EXCEPT ![l] = "select"]
          \/ loop' = [loop EXCEPT ![l] = "call"]
          \/ loop' = [loop EXCEPT ![l] = "work"]
          \/ loop' = [loop EXCEPT ![l] = "sleep"]
          \/ loop' = [loop EXCEPT ![l] = "exited"]
      BY <1>3, Zenon DEF TimerCase, LoopExit, CallReads, CallEnds, CallFails, Retry, BackToSelect
    <2> QED
      BY <2>1, <2>2
  <1>4. ASSUME NEW l \in Loop, TimerFires(l) PROVE UNCHANGED loop
    BY <1>4 DEF TimerFires
  <1>5. ASSUME NEW l \in Notified, Publish(l) \/ TakeInput(l) \/ WindowPasses(l)
        PROVE  UNCHANGED loop
    BY <1>5 DEF Publish, TakeInput, WindowPasses, loopVars
  <1>6. CASE MqRecv \/ MqTerm \/ MqPush \/ MqPanic
    BY <1>1, <1>6 DEF MqRecv, MqTerm, MqPush, MqPanic, loopVars
  <1>7. CASE Signal \/ TakeSignal \/ StopServers \/ MqShutdown \/ MqClose
               \/ MqFinished \/ MqGiveUp \/ CloseInput \/ Join
    BY <1>1, <1>7 DEF Signal, TakeSignal, StopServers, MqShutdown, MqClose,
                      MqFinished, MqGiveUp, CloseInput, Join, loopVars
  <1>8. CASE UNCHANGED vars
    BY <1>1, <1>8 DEF vars, loopVars
  <1> QED
    BY <1>1, <1>2, <1>3, <1>4, <1>5, <1>6, <1>7, <1>8 DEF Next

\* Only CloseInput starts the waiting, at the first loop, and only Join goes on
\* with it or ends it.
LEMMA MainSteps ==
  ASSUME TypeOK, [Next]_vars
  PROVE  \/ CloseInput
         \/ Join
         \/ main' = main /\ at' = at
         \/ main' \notin {"join", "closed"}
  <1>1. ASSUME NEW l \in Loop,
               TimerFires(l) \/ TimerCase(l) \/ LoopExit(l) \/ CallReads(l)
                 \/ CallEnds(l) \/ CallFails(l) \/ Retry(l)
        PROVE  main' = main /\ at' = at
    BY <1>1, Zenon DEF TimerFires, TimerCase, LoopExit, CallReads, CallEnds, CallFails, Retry, mainVars
  <1>2. ASSUME NEW l \in Notified, Publish(l) \/ TakeInput(l) \/ WindowPasses(l)
        PROVE  main' = main /\ at' = at
    BY <1>2 DEF Publish, TakeInput, WindowPasses, mainVars
  <1>3. CASE MqRecv \/ MqTerm \/ MqPush \/ MqPanic \/ MqClose \/ Signal
    BY <1>3 DEF MqRecv, MqTerm, MqPush, MqPanic, MqClose, Signal, mainVars
  <1>4. CASE TakeSignal \/ StopServers \/ MqShutdown \/ MqFinished \/ MqGiveUp
    BY <1>4 DEF TakeSignal, StopServers, MqShutdown, MqFinished, MqGiveUp
  <1>5. CASE UNCHANGED vars
    BY <1>5 DEF vars, mainVars
  <1> QED
    BY <1>1, <1>2, <1>3, <1>4, <1>5 DEF Next

\* Every step keeps what main knows of the loops.
LEMMA NextJoined == IInv /\ [Next]_vars => JoinedExited' /\ ClosedAfterLoops'
  <1> SUFFICES ASSUME IInv, [Next]_vars PROVE JoinedExited' /\ ClosedAfterLoops'
    OBVIOUS
  <1>0. TypeOK /\ JoinedExited /\ ClosedAfterLoops
    BY DEF IInv
  <1>a. at \in 1 .. Len(Inputs) /\ \A i \in 1 .. Len(Inputs) : Inputs[i] \in Loop
    BY <1>0, LoopAssumption DEF TypeOK
  <1>1. CASE CloseInput
    <2>1. main' # "closed" /\ (main' = "join" => at' = 1)
      BY <1>1 DEF CloseInput
    <2> QED
      BY <2>1 DEF JoinedExited, ClosedAfterLoops
  <1>2. CASE Join
    <2>1. \A i \in 1 .. at : loop[Inputs[i]] = "exited"
      BY <1>0, <1>2, <1>a, LenPos DEF Join, JoinedExited
    <2>2. \A i \in 1 .. at : loop'[Inputs[i]] = "exited"
      BY <1>0, <1>a, <2>1, LenPos, ExitedStable
    <2>3. CASE at < Len(Inputs)
      BY <1>2, <1>a, <2>2, <2>3, LenPos DEF Join, JoinedExited, ClosedAfterLoops
    <2>4. CASE ~(at < Len(Inputs))
      <3>1. at = Len(Inputs) /\ main' = "closed"
        BY <1>2, <1>a, <2>4, LenPos DEF Join
      <3>2. ASSUME NEW l \in Loop PROVE loop'[l] = "exited"
        <4>1. PICK i \in 1 .. Len(Inputs) : Inputs[i] = l
          BY LoopAssumption
        <4> QED
          BY <2>2, <3>1, <4>1
      <3> QED
        BY <3>1, <3>2 DEF JoinedExited, ClosedAfterLoops
    <2> QED
      BY <2>3, <2>4
  <1>3. CASE main' = main /\ at' = at
    <2>1. JoinedExited'
      <3>1. SUFFICES ASSUME main = "join", NEW i \in 1 .. at - 1
                     PROVE  loop'[Inputs[i]] = "exited"
        BY <1>3 DEF JoinedExited
      <3>2. i \in 1 .. Len(Inputs) /\ loop[Inputs[i]] = "exited"
        BY <1>0, <1>a, <3>1, LenPos DEF JoinedExited
      <3> QED
        BY <1>0, <1>a, <3>2, ExitedStable
    <2>2. ClosedAfterLoops'
      BY <1>0, <1>3, ExitedStable DEF ClosedAfterLoops
    <2> QED
      BY <2>1, <2>2
  <1>4. CASE main' \notin {"join", "closed"}
    BY <1>4 DEF JoinedExited, ClosedAfterLoops
  <1> QED
    BY <1>0, <1>1, <1>2, <1>3, <1>4, MainSteps

\* The inductive invariant holds in every reachable state.
THEOREM LoopsInvariance == Spec => []IInv
  <1>1. Init => IInv
    <2> SUFFICES ASSUME Init PROVE IInv
      OBVIOUS
    <2>1. TypeOK
      BY InitType
    <2>2. main = "wait"
      BY DEF Init
    <2> QED
      BY <2>1, <2>2 DEF IInv, JoinedExited, ClosedAfterLoops
  <1>2. IInv /\ [Next]_vars => IInv'
    BY NextType, NextJoined DEF IInv
  <1> QED
    BY <1>1, <1>2, PTL DEF Spec

\* The database is closed only after every loop has ended, for any number of
\* loops and any queue (waitForSignalAndShutdown and the end of main).
THEOREM LoopsEndFirst == Spec => []ClosedAfterLoops
  BY LoopsInvariance, PTL DEF IInv
=============================================================================
