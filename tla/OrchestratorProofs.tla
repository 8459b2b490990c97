------------------------- MODULE OrchestratorProofs -------------------------
(***************************************************************************)
(* Proofs about Orchestrator for any number of daemons, any workers and    *)
(* any bounds of queue and handlers.                                       *)
(***************************************************************************)
EXTENDS Orchestrator, TLAPS

\* The main thread of a daemon stands between acquire() and release().
Leading == {"starting", "running", "stopping", "failed"}

LeadingHolds == \A d \in Daemons : pc[d] \in Leading => lock = d

\* Outside of that stretch no thread of the daemon is left, unless a join gave up;
RestingIsQuiet ==
  \A d \in Daemons : (pc[d] \notin Leading /\ ~timedOut[d]) =>
    \A w \in AllWorkers : ~Alive(d, w)

\* a shutdown gets there one worker after the other.
StoppedSoFar ==
  \A d \in Daemons : (pc[d] = "stopping" /\ ~timedOut[d]) =>
    \A i \in 1..4 : i < step[d] => ~Alive(d, StopOrder[i])

Ind == TypeOK /\ LeadingHolds /\ RestingIsQuiet /\ StoppedSoFar

-----------------------------------------------------------------------------
\* The shutdown sequence names every worker.
LEMMA StopOrderCovers ==
  /\ Len(StopOrder) = 4 /\ Len(StartOrder) = 4
  /\ \A w \in AllWorkers : \E i \in 1..4 : StopOrder[i] = w
  /\ \A i \in 1..4 : StopOrder[i] \in AllWorkers /\ StartOrder[i] \in AllWorkers
<1>1. /\ StopOrder[1] = "poller" /\ StopOrder[2] = "server"
      /\ StopOrder[3] = "recovery" /\ StopOrder[4] = "invoker"
      /\ StartOrder[1] = "invoker" /\ StartOrder[2] = "poller"
      /\ StartOrder[3] = "server" /\ StartOrder[4] = "recovery"
  BY DEF StopOrder, StartOrder
<1>2. Len(StopOrder) = 4 /\ Len(StartOrder) = 4
  BY DEF StopOrder, StartOrder
<1>3. \A i \in 1..4 : i = 1 \/ i = 2 \/ i = 3 \/ i = 4
  OBVIOUS
<1>4. QED BY <1>1, <1>2, <1>3 DEF AllWorkers

\* The inductive invariant holds before any daemon starts
LEMMA InitInd == Init => Ind
BY OrchestratorAssumption, NobodyAssumption
   DEF Init, Ind, TypeOK, LeadingHolds, RestingIsQuiet, StoppedSoFar, Places, Leading,
       NoThreads, Alive

\* Steps that only move a main thread, or change counters, keep the types.
LEMMA NextTypeOK == TypeOK /\ [Next]_vars => TypeOK'
<1>. SUFFICES ASSUME TypeOK, [Next]_vars
              PROVE  TypeOK'
  OBVIOUS
<1>. USE OrchestratorAssumption, NobodyAssumption, StopOrderCovers DEF TypeOK, Places, Goto, Advance
<1>1. ASSUME NEW d \in Daemons, MainStep(d)
      PROVE  TypeOK'
  <2>1. CASE StartLocked(d)   BY <2>1 DEF StartLocked
  <2>2. CASE StartRefused(d)  BY <2>2 DEF StartRefused
  <2>3. CASE StartWorker(d)
    <3>1. step[d] \in 1..4 /\ StartOrder[step[d]] \in AllWorkers
      BY <2>3 DEF StartWorker
    <3>2. \A w \in AllWorkers : SetThread(d, w, "idle") =>
            thread' \in [Daemons -> [AllWorkers -> {"off", "idle", "busy", "dead", "quit"}]]
      BY DEF SetThread
    <3>3. thread' \in [Daemons -> [AllWorkers -> {"off", "idle", "busy", "dead", "quit"}]]
      BY <2>3, <3>1, <3>2 DEF StartWorker
    <3>4. step' \in [Daemons -> 1..5] /\ pc' = pc
      BY <2>3, <3>1 DEF StartWorker
    <3>5. QED BY <2>3, <3>3, <3>4 DEF StartWorker
  <2>4. CASE BindFails(d)     BY <2>4 DEF BindFails
  <2>5. CASE Started(d)       BY <2>5 DEF Started
  <2>6. CASE StopJoined(d)    BY <2>6 DEF StopJoined
  <2>7. CASE StopTimesOut(d)  BY <2>7 DEF StopTimesOut
  <2>8. CASE StopServer(d)    BY <2>8 DEF StopServer, SetThread, AllWorkers
  <2>9. CASE Stopped(d)       BY <2>9 DEF Stopped
  <2>10. QED BY <1>1, <2>1, <2>2, <2>3, <2>4, <2>5, <2>6, <2>7, <2>8, <2>9 DEF MainStep
<1>2. ASSUME NEW d \in Daemons, Signal(d)
      PROVE  TypeOK'
  BY <1>2 DEF Signal
<1>3. ASSUME NEW d \in Daemons, Gone(d)
      PROVE  TypeOK'
  BY <1>3 DEF Gone, NoThreads
<1>4. ASSUME NEW d \in Daemons, WorkerStep(d)
      PROVE  TypeOK'
  <2>1. ASSUME NEW w \in Workers, LoopWakes(d, w) \/ LoopRoundEnds(d, w) \/ LoopDies(d, w)
        PROVE  TypeOK'
    <3>1. ASSUME NEW s \in {"idle", "busy", "dead", "quit"}, SetThread(d, w, s)
          PROVE  thread' \in [Daemons -> [AllWorkers -> {"off", "idle", "busy", "dead", "quit"}]]
      BY <3>1 DEF SetThread
    <3>2. CASE LoopWakes(d, w)
      <4>1. SetThread(d, w, "dead") \/ SetThread(d, w, "busy")
        BY <3>2 DEF LoopWakes
      <4>2. QED BY <3>1, <3>2, <4>1 DEF LoopWakes
    <3>3. CASE LoopRoundEnds(d, w)
      BY <3>1, <3>3 DEF LoopRoundEnds
    <3>4. CASE LoopDies(d, w)
      BY <3>1, <3>4 DEF LoopDies
    <3>5. QED BY <2>1, <3>2, <3>3, <3>4
  <2>2. ASSUME Enqueue(d)
        PROVE  queued' \in [Daemons -> 0..MaxQueue]
    BY <2>2 DEF Enqueue
  <2>3. CASE PollerEnqueues(d)   BY <2>2, <2>3 DEF PollerEnqueues
  <2>4. CASE RequestAccepted(d)  BY <2>4 DEF RequestAccepted
  <2>5. CASE RequestAnswered(d)  BY <2>2, <2>5 DEF RequestAnswered
  <2>6. CASE InvokerStops(d)     BY <2>6 DEF InvokerStops, SetThread, AllWorkers
  <2>7. CASE InvokerTakes(d)     BY <2>7 DEF InvokerTakes, SetThread, AllWorkers
  <2>8. CASE InvokerReturns(d)   BY <2>8 DEF InvokerReturns, SetThread, AllWorkers
  <2>9. QED BY <1>4, <2>1, <2>3, <2>4, <2>5, <2>6, <2>7, <2>8 DEF WorkerStep
<1>5. CASE UNCHANGED vars
  BY <1>5 DEF vars
<1>6. QED BY <1>1, <1>2, <1>3, <1>4, <1>5 DEF Next, Exit, Kill

-----------------------------------------------------------------------------
\* A step that revives no thread and moves no main thread keeps the invariant.
LEMMA WorkersKeepInd ==
  ASSUME Ind, TypeOK', UNCHANGED <<lock, pc, step, timedOut>>,
         \A d \in Daemons, w \in AllWorkers : Alive(d, w)' => Alive(d, w)
  PROVE  Ind'
<1>1. LeadingHolds'
  BY DEF Ind, LeadingHolds
<1>2. RestingIsQuiet'
  BY DEF Ind, RestingIsQuiet
<1>3. StoppedSoFar'
  BY StopOrderCovers DEF Ind, StoppedSoFar
<1>4. QED BY <1>1, <1>2, <1>3 DEF Ind

\* The threads of a daemon only ever end, or go on.
LEMMA WorkersReviveNothing ==
  ASSUME TypeOK, NEW d \in Daemons, WorkerStep(d)
  PROVE  /\ UNCHANGED <<lock, pc, step, timedOut>>
         /\ \A e \in Daemons, v \in AllWorkers : Alive(e, v)' => Alive(e, v)
<1>. USE OrchestratorAssumption DEF TypeOK, Alive
<1>1. ASSUME NEW w \in AllWorkers, NEW s \in {"idle", "busy", "dead", "quit"},
             Alive(d, w), SetThread(d, w, s)
      PROVE  \A e \in Daemons, v \in AllWorkers : Alive(e, v)' => Alive(e, v)
  BY <1>1 DEF SetThread
<1>2. ASSUME NEW w \in Workers, LoopWakes(d, w)
      PROVE  \A e \in Daemons, v \in AllWorkers : Alive(e, v)' => Alive(e, v)
  <2>1. SetThread(d, w, "dead") \/ SetThread(d, w, "busy")
    BY <1>2 DEF LoopWakes
  <2>2. Alive(d, w) /\ w \in AllWorkers
    BY <1>2 DEF LoopWakes
  <2>3. QED BY <1>1, <2>1, <2>2
<1>3. ASSUME NEW w \in Workers, LoopRoundEnds(d, w) \/ LoopDies(d, w)
      PROVE  \A e \in Daemons, v \in AllWorkers : Alive(e, v)' => Alive(e, v)
  BY <1>1, <1>3 DEF LoopRoundEnds, LoopDies
<1>4. ASSUME InvokerStops(d) \/ InvokerTakes(d) \/ InvokerReturns(d)
      PROVE  \A e \in Daemons, v \in AllWorkers : Alive(e, v)' => Alive(e, v)
  <2>1. Alive(d, "invoker") /\ "invoker" \in AllWorkers
    BY <1>4 DEF InvokerStops, InvokerTakes, InvokerReturns, AllWorkers
  <2>2. \/ SetThread(d, "invoker", "dead") \/ SetThread(d, "invoker", "idle")
        \/ SetThread(d, "invoker", "busy") \/ SetThread(d, "invoker", "quit")
    BY <1>4 DEF InvokerStops, InvokerTakes, InvokerReturns
  <2>3. QED BY <1>1, <2>1, <2>2
<1>5. ASSUME PollerEnqueues(d) \/ RequestAccepted(d) \/ RequestAnswered(d)
      PROVE  thread' = thread
  BY <1>5 DEF PollerEnqueues, RequestAccepted, RequestAnswered
<1>6. \A e \in Daemons, v \in AllWorkers : Alive(e, v)' => Alive(e, v)
  BY <1>2, <1>3, <1>4, <1>5 DEF WorkerStep
<1>7. UNCHANGED <<lock, pc, step, timedOut>>
  BY DEF WorkerStep, LoopWakes, LoopRoundEnds, LoopDies, PollerEnqueues, RequestAccepted,
         RequestAnswered, InvokerStops, InvokerTakes, InvokerReturns
<1>8. QED BY <1>6, <1>7

\* and every step keeps it.
LEMMA NextInd == Ind /\ [Next]_vars => Ind'
<1>. SUFFICES ASSUME Ind, [Next]_vars
              PROVE  Ind'
  OBVIOUS
<1>1. TypeOK /\ TypeOK' /\ LeadingHolds /\ RestingIsQuiet /\ StoppedSoFar
  BY NextTypeOK DEF Ind
<1>. USE <1>1, OrchestratorAssumption, NobodyAssumption, StopOrderCovers
     DEF TypeOK, Goto, Advance, Leading
<1>2. ASSUME NEW d \in Daemons, StartLocked(d)  PROVE  Ind'
  BY <1>2 DEF StartLocked, Startable, Ind, LeadingHolds, RestingIsQuiet, StoppedSoFar, Alive
<1>3. ASSUME NEW d \in Daemons, StartRefused(d)  PROVE  Ind'
  BY <1>3 DEF StartRefused, Startable, Ind, LeadingHolds, RestingIsQuiet, StoppedSoFar, Alive
<1>4. ASSUME NEW d \in Daemons, StartWorker(d)  PROVE  Ind'
  <2>1. \A e \in Daemons : e # d => thread'[e] = thread[e] /\ step'[e] = step[e]
    BY <1>4 DEF StartWorker, SetThread
  <2>2. pc' = pc /\ pc[d] = "starting" /\ lock' = lock /\ timedOut' = timedOut
    BY <1>4 DEF StartWorker
  <2>3. QED BY <2>1, <2>2 DEF Ind, LeadingHolds, RestingIsQuiet, StoppedSoFar, Alive
<1>5. ASSUME NEW d \in Daemons, BindFails(d) \/ Started(d) \/ Signal(d)  PROVE  Ind'
  <2>1. /\ pc[d] \in {"starting", "running"}
        /\ \E place \in {"failed", "running", "stopping"} : pc' = [pc EXCEPT ![d] = place]
        /\ step' = [step EXCEPT ![d] = 1]
        /\ UNCHANGED <<lock, thread, timedOut>>
    BY <1>5 DEF BindFails, Started, Signal
  <2>2. LeadingHolds' /\ RestingIsQuiet'
    BY <2>1 DEF LeadingHolds, RestingIsQuiet, Alive
  <2>3. StoppedSoFar'
    BY <2>1 DEF StoppedSoFar, Alive
  <2>4. QED BY <2>2, <2>3 DEF Ind
<1>6. ASSUME NEW d \in Daemons, StopJoined(d)  PROVE  Ind'
  <2>1. \A e \in Daemons : step'[e] = IF e = d THEN step[d] + 1 ELSE step[e]
    BY <1>6 DEF StopJoined
  <2>2. ~Alive(d, StopOrder[step[d]])
    BY <1>6 DEF StopJoined
  <2>3. LeadingHolds' /\ RestingIsQuiet'
    BY <1>6 DEF StopJoined, LeadingHolds, RestingIsQuiet, Alive
  <2>4. StoppedSoFar'
    BY <1>6, <2>1, <2>2 DEF StopJoined, StoppedSoFar, Alive
  <2>5. QED BY <2>3, <2>4 DEF Ind
<1>7. ASSUME NEW d \in Daemons, StopTimesOut(d)  PROVE  Ind'
  BY <1>7 DEF StopTimesOut, Ind, LeadingHolds, RestingIsQuiet, StoppedSoFar, Alive
<1>8. ASSUME NEW d \in Daemons, StopServer(d)  PROVE  Ind'
  <2>1. \A e \in Daemons, w \in AllWorkers :
          thread'[e][w] = IF e = d /\ w = "server" THEN "dead" ELSE thread[e][w]
    BY <1>8 DEF StopServer, SetThread, AllWorkers
  <2>2. \A e \in Daemons : step'[e] = IF e = d THEN step[d] + 1 ELSE step[e]
    BY <1>8 DEF StopServer
  <2>3. StopOrder[step[d]] = "server" /\ UNCHANGED <<pc, lock, timedOut>>
    BY <1>8 DEF StopServer
  <2>4. /\ \A e \in Daemons, w \in AllWorkers : Alive(e, w)' => Alive(e, w)
        /\ ~Alive(d, "server")'
    BY <2>1 DEF Alive, AllWorkers
  <2>5. LeadingHolds' /\ RestingIsQuiet'
    BY <2>4, <2>3 DEF LeadingHolds, RestingIsQuiet
  <2>6. StoppedSoFar'
    <3>1. ASSUME NEW e \in Daemons, pc[e] = "stopping", ~timedOut[e],
                 NEW i \in 1..4, i < step'[e]
          PROVE  ~Alive(e, StopOrder[i])'
      <4>1. CASE i < step[e]
        BY <2>4, <3>1, <4>1 DEF StoppedSoFar
      <4>2. CASE ~(i < step[e])
        <5>1. e = d
          BY <2>2, <3>1, <4>2
        <5>2. i < step[d] + 1 /\ ~(i < step[d]) /\ step[d] \in 1..5
          BY <2>2, <3>1, <4>2, <5>1
        <5>3. i = step[d]
          BY <5>2
        <5>4. QED BY <2>3, <2>4, <5>1, <5>3
      <4>3. QED BY <4>1, <4>2
    <3>2. QED BY <2>3, <3>1 DEF StoppedSoFar
  <2>7. QED BY <2>5, <2>6 DEF Ind
<1>9. ASSUME NEW d \in Daemons, Stopped(d)  PROVE  Ind'
  <2>1. lock = d
    BY <1>9 DEF Stopped, LeadingHolds
  <2>2. LeadingHolds' /\ StoppedSoFar'
    BY <1>9, <2>1 DEF Stopped, LeadingHolds, StoppedSoFar, Alive
  <2>3. ~timedOut[d] => \A w \in AllWorkers : ~Alive(d, w)
    BY <1>9 DEF Stopped, StoppedSoFar
  <2>4. RestingIsQuiet'
    BY <1>9, <2>3 DEF Stopped, RestingIsQuiet, Alive
  <2>5. QED BY <2>2, <2>4 DEF Ind
<1>10. ASSUME NEW d \in Daemons, Gone(d)  PROVE  Ind'
  <2>1. LeadingHolds'
    BY <1>10 DEF Gone, LeadingHolds
  <2>2. \A w \in AllWorkers : ~Alive(d, w)'
    BY <1>10 DEF Gone, NoThreads, Alive
  <2>3. RestingIsQuiet' /\ StoppedSoFar'
    BY <1>10, <2>2 DEF Gone, RestingIsQuiet, StoppedSoFar, Alive
  <2>4. QED BY <2>1, <2>3 DEF Ind
<1>11. ASSUME NEW d \in Daemons, WorkerStep(d)  PROVE  Ind'
  BY <1>11, WorkersReviveNothing, WorkersKeepInd
<1>12. CASE UNCHANGED vars
  BY <1>12, WorkersKeepInd DEF vars, Alive
<1>13. QED
  BY <1>2, <1>3, <1>4, <1>5, <1>6, <1>7, <1>8, <1>9, <1>10, <1>11, <1>12
     DEF Next, MainStep, Exit, Kill

-----------------------------------------------------------------------------
\* Main threads, workers and the lock keep to the invariant (orchestrator.py:121-160).
THEOREM OrchestratorInvariant == Spec => []Ind
BY InitInd, NextInd, PTL DEF Spec

\* Every variable keeps its type, the queue its bound (orchestrator.py:121-160).
THEOREM TypeCorrect == Spec => []TypeOK
<1>1. Ind => TypeOK
  BY DEF Ind
<1>2. QED BY <1>1, OrchestratorInvariant, PTL

\* Whatever fails to bind, is killed, shut down or started again: a daemon has a live
\* thread only under the leader lock, or after a join that gave up
\* (orchestrator.py:129-146, 150-159).
THEOREM WorkIsCovered == Spec => []LockCoversWork
<1>1. Ind => LockCoversWork
  BY OrchestratorAssumption DEF Ind, LeadingHolds, RestingIsQuiet, LockCoversWork
<1>2. QED BY <1>1, OrchestratorInvariant, PTL

-----------------------------------------------------------------------------
(***************************************************************************)
(* QueueServiced says nothing of the requests that are under way, which    *)
(* may still enqueue when the server is gone, nor of the moment when the   *)
(* consumer has been started and no producer yet; Serviced does.           *)
(***************************************************************************)
InvokerUp(d) == Alive(d, "invoker") \/ thread[d]["invoker"] = "quit"
Loaded(d)    == queued[d] > 0 \/ handlers[d] > 0 \/ Working(d)

Serviced ==
  \A d \in Daemons :
    (~stop[d] /\ (Loaded(d) \/ (pc[d] = "starting" /\ step[d] > 1))) => InvokerUp(d)

\* The invoker's thread ends on the stop event, or is ended by its invoker; it is the
\* only thing the workers do that could break Serviced.
LEMMA WorkersKeepInvoker ==
  ASSUME TypeOK, NEW d \in Daemons, WorkerStep(d), NEW e \in Daemons, ~stop[e], InvokerUp(e)
  PROVE  InvokerUp(e)'
<1>. USE DEF TypeOK, InvokerUp, Alive, AllWorkers
<1>1. ASSUME NEW w \in {"poller", "recovery"}, NEW s, SetThread(d, w, s)
      PROVE  thread'[e]["invoker"] = thread[e]["invoker"]
  BY <1>1 DEF SetThread
<1>2. ASSUME NEW w \in Workers, LoopWakes(d, w) \/ LoopRoundEnds(d, w) \/ LoopDies(d, w)
      PROVE  InvokerUp(e)'
  <2>1. thread'[e]["invoker"] = thread[e]["invoker"]
    BY <1>1, <1>2 DEF LoopWakes, LoopRoundEnds, LoopDies
  <2>2. QED BY <2>1
<1>3. ASSUME InvokerStops(d) \/ InvokerTakes(d) \/ InvokerReturns(d)
      PROVE  InvokerUp(e)'
  <2>1. CASE e # d
    BY <1>3, <2>1 DEF InvokerStops, InvokerTakes, InvokerReturns, SetThread
  <2>2. CASE e = d
    <3>1. \E s \in {"idle", "busy", "quit"} : SetThread(d, "invoker", s)
      BY <1>3, <2>2 DEF InvokerStops, InvokerTakes, InvokerReturns
    <3>2. QED BY <2>2, <3>1 DEF SetThread
  <2>3. QED BY <2>1, <2>2
<1>4. ASSUME PollerEnqueues(d) \/ RequestAccepted(d) \/ RequestAnswered(d)
      PROVE  InvokerUp(e)'
  BY <1>4 DEF PollerEnqueues, RequestAccepted, RequestAnswered
<1>5. QED BY <1>2, <1>3, <1>4 DEF WorkerStep

\* Work is only made out of work: of a live producer, or of a request under way.
LEMMA WorkersLoadTheLoaded ==
  ASSUME TypeOK, NEW d \in Daemons, WorkerStep(d), NEW e \in Daemons, Loaded(e)'
  PROVE  Loaded(e)
<1>. USE OrchestratorAssumption DEF TypeOK, Loaded
<1>1. Working(e)' => Working(e)
  <2>1. \A v \in AllWorkers : Alive(e, v)' => Alive(e, v)
    BY WorkersReviveNothing
  <2>2. QED BY <2>1 DEF Working, AllWorkers
<1>2. e # d => queued'[e] = queued[e] /\ handlers'[e] = handlers[e]
  BY DEF WorkerStep, LoopWakes, LoopRoundEnds, LoopDies, PollerEnqueues, RequestAccepted,
         RequestAnswered, InvokerStops, InvokerTakes, InvokerReturns, Enqueue
<1>3. CASE e # d
  BY <1>1, <1>2, <1>3
<1>4. CASE e = d
  <2>1. CASE PollerEnqueues(d)
    BY <1>4, <2>1 DEF PollerEnqueues, Working, Alive
  <2>2. CASE RequestAccepted(d)
    BY <1>4, <2>2 DEF RequestAccepted, Working
  <2>3. CASE RequestAnswered(d)
    BY <1>4, <2>3 DEF RequestAnswered
  <2>4. CASE InvokerTakes(d)
    BY <1>4, <2>4 DEF InvokerTakes
  <2>5. ASSUME queued' = queued, handlers' = handlers
        PROVE  Loaded(e)
    BY <1>1, <2>5
  <2>6. QED
    BY <2>1, <2>2, <2>3, <2>4, <2>5
       DEF WorkerStep, LoopWakes, LoopRoundEnds, LoopDies, InvokerStops, InvokerReturns
<1>5. QED BY <1>3, <1>4

\* A step that leaves threads, queue and requests alone keeps Serviced if it starts no
\* daemon and no stop event is taken back.
LEMMA MainKeepsServiced ==
  ASSUME Serviced, UNCHANGED <<thread, queued, handlers>>,
         \A e \in Daemons : stop[e] => stop'[e],
         \A e \in Daemons : pc'[e] = "starting" /\ step'[e] > 1 =>
                            pc[e] = "starting" /\ step[e] > 1
  PROVE  Serviced'
BY DEF Serviced, Loaded, Working, InvokerUp, Alive

\* The consumer is started before the producers.
LEMMA StartKeepsServiced ==
  ASSUME TypeOK, Serviced, NEW d \in Daemons, StartWorker(d)
  PROVE  Serviced'
<1>. USE OrchestratorAssumption DEF TypeOK
<1>1. /\ pc[d] = "starting" /\ step[d] \in 1..4
      /\ UNCHANGED <<pc, stop, queued, handlers>>
      /\ \A e \in Daemons : e # d => step'[e] = step[e] /\ thread'[e] = thread[e]
  BY StopOrderCovers DEF StartWorker, Advance, SetThread
<1>2. CASE step[d] = 1
  <2>1. StartOrder[step[d]] = "invoker"
    BY <1>2 DEF StartOrder
  <2>2. InvokerUp(d)'
    BY <2>1 DEF StartWorker, SetThread, InvokerUp, Alive, AllWorkers
  <2>3. QED BY <1>1, <2>2 DEF Serviced, Loaded, Working, InvokerUp, Alive
<1>3. CASE step[d] > 1
  <2>1. StartOrder[step[d]] \in {"poller", "server", "recovery"}
    <3>1. step[d] \in {2, 3, 4}
      BY <1>1, <1>3
    <3>2. QED BY <3>1 DEF StartOrder
  <2>2. thread'[d]["invoker"] = thread[d]["invoker"]
    BY <2>1 DEF StartWorker, SetThread, AllWorkers
  <2>3. ~stop[d] => InvokerUp(d)'
    BY <1>1, <1>3, <2>2 DEF Serviced, InvokerUp, Alive
  <2>4. QED BY <1>1, <2>3 DEF Serviced, Loaded, Working, InvokerUp, Alive
<1>4. QED BY <1>1, <1>2, <1>3

LEMMA NextServiced == TypeOK /\ Serviced /\ [Next]_vars => Serviced'
<1>. SUFFICES ASSUME TypeOK, Serviced, [Next]_vars
              PROVE  Serviced'
  OBVIOUS
<1>. USE DEF TypeOK, Goto, Advance
<1>1. ASSUME NEW d \in Daemons,
             \/ StartLocked(d) \/ StartRefused(d) \/ BindFails(d) \/ Started(d)
             \/ StopJoined(d) \/ StopTimesOut(d) \/ Stopped(d) \/ Signal(d)
      PROVE  Serviced'
  <2>1. UNCHANGED <<thread, queued, handlers>> /\ \A e \in Daemons : stop[e] => stop'[e]
    BY <1>1 DEF StartLocked, StartRefused, BindFails, Started, StopJoined, StopTimesOut,
                Stopped, Signal
  <2>2. \A e \in Daemons : pc'[e] = "starting" /\ step'[e] > 1 =>
                           pc[e] = "starting" /\ step[e] > 1
    <3>1. CASE StopJoined(d) \/ StopTimesOut(d)
      <4>1. pc' = pc /\ pc[d] = "stopping" /\ \A e \in Daemons : e # d => step'[e] = step[e]
        BY <3>1 DEF StopJoined, StopTimesOut
      <4>2. QED BY <4>1
    <3>2. CASE ~(StopJoined(d) \/ StopTimesOut(d))
      <4>1. \E place \in Places : pc' = [pc EXCEPT ![d] = place]
        BY <1>1, <3>2 DEF StartLocked, StartRefused, BindFails, Started, Stopped, Signal, Places
      <4>2. step' = [step EXCEPT ![d] = 1]
        BY <1>1, <3>2 DEF StartLocked, StartRefused, BindFails, Started, Stopped, Signal
      <4>3. QED BY <4>1, <4>2
    <3>3. QED BY <3>1, <3>2
  <2>3. QED BY <2>1, <2>2, MainKeepsServiced
<1>2. ASSUME NEW d \in Daemons, StartWorker(d)  PROVE  Serviced'
  BY <1>2, StartKeepsServiced
<1>3. ASSUME NEW d \in Daemons, StopServer(d)  PROVE  Serviced'
  <2>1. \A e \in Daemons, w \in AllWorkers :
          thread'[e][w] = IF e = d /\ w = "server" THEN "dead" ELSE thread[e][w]
    BY <1>3 DEF StopServer, SetThread, AllWorkers
  <2>2. /\ UNCHANGED <<pc, stop, queued, handlers>> /\ pc[d] = "stopping"
        /\ \A e \in Daemons : e # d => step'[e] = step[e]
    BY <1>3 DEF StopServer
  <2>3. \A e \in Daemons : InvokerUp(e)' <=> InvokerUp(e)
    BY <2>1 DEF InvokerUp, Alive, AllWorkers
  <2>4. \A e \in Daemons : Working(e)' => Working(e)
    BY <2>1 DEF Working, Alive, AllWorkers
  <2>5. QED BY <2>2, <2>3, <2>4 DEF Serviced, Loaded
<1>4. ASSUME NEW d \in Daemons, Gone(d)  PROVE  Serviced'
  <2>1. \A e \in Daemons : e # d =>
          UNCHANGED <<pc[e], step[e], stop[e], thread[e], queued[e], handlers[e]>>
    BY <1>4 DEF Gone
  <2>2. ~Loaded(d)' /\ pc'[d] = "init"
    BY <1>4 DEF Gone, NoThreads, Loaded, Working, Alive, AllWorkers
  <2>3. QED BY <2>1, <2>2 DEF Serviced, Loaded, Working, InvokerUp, Alive
<1>5. ASSUME NEW d \in Daemons, WorkerStep(d)  PROVE  Serviced'
  <2>1. UNCHANGED <<pc, step, stop>>
    BY <1>5 DEF WorkerStep, LoopWakes, LoopRoundEnds, LoopDies, PollerEnqueues,
                RequestAccepted, RequestAnswered, InvokerStops, InvokerTakes, InvokerReturns
  <2>2. QED BY <1>5, <2>1, WorkersKeepInvoker, WorkersLoadTheLoaded DEF Serviced
<1>6. CASE UNCHANGED vars
  BY <1>6, MainKeepsServiced DEF vars
<1>7. QED BY <1>1, <1>2, <1>3, <1>4, <1>5, <1>6 DEF Next, MainStep, Exit, Kill

\* Until the stop event, what producers or late requests enqueue has a consumer - or the
\* operator's invoker ended it (orchestrator.py:138-146, agent_invoker.py:188-194).
THEOREM QueueIsServiced == Spec => []QueueServiced
<1>1. Init => Serviced
  BY DEF Init, Serviced, Loaded, Working, Alive, NoThreads, AllWorkers
<1>2. Serviced => QueueServiced
  BY DEF Serviced, QueueServiced, Loaded, InvokerUp
<1>3. Spec => []TypeOK
  BY TypeCorrect
<1>4. QED BY <1>1, <1>2, <1>3, NextServiced, PTL DEF Spec
=============================================================================
