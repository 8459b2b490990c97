---------------------------- MODULE Orchestrator ----------------------------
(***************************************************************************)
(* Start and shutdown of the daemon (daemon/orchestrator.py): the main     *)
(* thread takes the leader lock, starts the workers, waits for a signal,   *)
(* sets the stop event and joins the workers - each join for five seconds  *)
(* at most - before it releases the lock.  Several daemons contend for the *)
(* lock of the host; LeaderLock has its details, here it is one variable.  *)
(*                                                                         *)
(* A worker thread is idle when it waits where the stop event wakes it     *)
(* (Event.wait, a dequeue with timeout, the serve loop) and busy inside a  *)
(* call that may outlast the join: an API call, the operator's invoker.    *)
(***************************************************************************)
EXTENDS Integers, FiniteSets, Sequences

CONSTANTS Daemons,        \* daemon processes started on the host
          Workers,        \* the workers the mode asks for
          MaxQueue,       \* queue_maxsize
          MaxHandlers     \* bound: webhook requests being handled at a time

AllWorkers == {"invoker", "poller", "server", "recovery"}

ASSUME OrchestratorAssumption ==
  /\ "invoker" \in Workers /\ Workers \subseteq AllWorkers
  /\ MaxQueue \in Nat \ {0} /\ MaxHandlers \in Nat

Nobody == "nobody"
ASSUME NobodyAssumption == Nobody \notin Daemons

VARIABLES lock,       \* the process that holds the leader lock
          pc,         \* where each main thread stands
          step,       \* its place in the start or stop sequence
          stop,       \* the stop event shared by all workers of a daemon
          thread,     \* the state of each worker thread
          queued,     \* events in the queue
          handlers,   \* webhook requests accepted and not answered yet
          timedOut    \* history: some join of this run gave up

vars == <<lock, pc, step, stop, thread, queued, handlers, timedOut>>

Alive(d, w) == thread[d][w] \in {"idle", "busy"}
Working(d)  == \E w \in {"poller", "server"} : Alive(d, w)

ProducersFirst == <<"poller", "server", "recovery", "invoker">>     \* mutant
StartOrder == <<"invoker", "poller", "server", "recovery">>

InvokerLeftRunning == <<"poller", "server", "recovery">>            \* mutant
StopOrder == <<"poller", "server", "recovery", "invoker">>

NoThreads == [w \in AllWorkers |-> "off"]

Init ==
  /\ lock = Nobody
  /\ pc = [d \in Daemons |-> "init"]
  /\ step = [d \in Daemons |-> 1]
  /\ stop = [d \in Daemons |-> FALSE]
  /\ thread = [d \in Daemons |-> NoThreads]
  /\ queued = [d \in Daemons |-> 0]
  /\ handlers = [d \in Daemons |-> 0]
  /\ timedOut = [d \in Daemons |-> FALSE]

SetThread(d, w, s) == thread' = [thread EXCEPT ![d][w] = s]
Goto(d, place)     == pc' = [pc EXCEPT ![d] = place] /\ step' = [step EXCEPT ![d] = 1]
Advance(d)         == step' = [step EXCEPT ![d] = @ + 1] /\ UNCHANGED pc

-----------------------------------------------------------------------------
\* start(), which may be called again on an Orchestrator that was stopped: the lock
\* first; a second daemon gets a RuntimeError and is done.
Startable(d) == pc[d] \in {"init", "stopped"}

StartLocked(d) ==
  /\ Startable(d)
  /\ lock = Nobody
  /\ lock' = d
  /\ Goto(d, "starting")
  /\ UNCHANGED <<stop, thread, queued, handlers, timedOut>>

StartRefused(d) ==
  /\ Startable(d)
  /\ lock # Nobody
  /\ Goto(d, "refused")
  /\ UNCHANGED <<lock, stop, thread, queued, handlers, timedOut>>

\* Then the workers, the consumer before the producers.  A thread that is still
\* alive is left alone; one that has ended is replaced.
StartWorker(d) ==
  /\ pc[d] = "starting"
  /\ step[d] <= Len(StartOrder)
  /\ LET w == StartOrder[step[d]]
     IN  IF w \in Workers /\ ~Alive(d, w) THEN SetThread(d, w, "idle") ELSE UNCHANGED thread
  /\ Advance(d)
  /\ UNCHANGED <<lock, stop, queued, handlers, timedOut>>

\* The receiver cannot bind its port: the OSError leaves start() as it is.
BindFails(d) ==
  /\ pc[d] = "starting"
  /\ step[d] <= Len(StartOrder)
  /\ StartOrder[step[d]] = "server" /\ "server" \in Workers
  /\ Goto(d, "failed")
  /\ UNCHANGED <<lock, stop, thread, queued, handlers, timedOut>>

Started(d) ==
  /\ pc[d] = "starting"
  /\ step[d] > Len(StartOrder)
  /\ Goto(d, "running")
  /\ UNCHANGED <<lock, stop, thread, queued, handlers, timedOut>>

\* SIGINT or SIGTERM: stop() begins with the stop event.
Signal(d) ==
  /\ pc[d] = "running"
  /\ stop' = [stop EXCEPT ![d] = TRUE]
  /\ Goto(d, "stopping")
  /\ UNCHANGED <<lock, thread, queued, handlers, timedOut>>

\* The next worker is stopped.  It has ended, or was never started;
StopJoined(d) ==
  /\ pc[d] = "stopping"
  /\ step[d] <= Len(StopOrder)
  /\ ~Alive(d, StopOrder[step[d]])
  /\ Advance(d)
  /\ UNCHANGED <<lock, stop, thread, queued, handlers, timedOut>>

JoinForEver(d) == pc[d] = "never" /\ UNCHANGED vars     \* mutant: no timeout

\* or the join gives up after five seconds on a worker that is busy;
StopTimesOut(d) ==
  /\ pc[d] = "stopping"
  /\ step[d] <= Len(StopOrder)
  /\ thread[d][StopOrder[step[d]]] = "busy"
  /\ timedOut' = [timedOut EXCEPT ![d] = TRUE]
  /\ Advance(d)
  /\ UNCHANGED <<lock, stop, thread, queued, handlers>>

\* or it is the receiver, whose serve loop is shut down and socket closed.
StopServer(d) ==
  /\ pc[d] = "stopping"
  /\ step[d] <= Len(StopOrder)
  /\ StopOrder[step[d]] = "server" /\ Alive(d, "server")
  /\ SetThread(d, "server", "dead")
  /\ Advance(d)
  /\ UNCHANGED <<lock, stop, queued, handlers, timedOut>>

Stopped(d) ==
  /\ pc[d] = "stopping"
  /\ step[d] > Len(StopOrder)
  /\ lock' = IF lock = d THEN Nobody ELSE lock
  /\ Goto(d, "stopped")
  /\ UNCHANGED <<stop, thread, queued, handlers, timedOut>>

\* The process is gone, and with it its threads, its queue and its hold on the lock;
\* it may be started anew.
Gone(d) ==
  /\ lock' = IF lock = d THEN Nobody ELSE lock
  /\ stop' = [stop EXCEPT ![d] = FALSE]
  /\ thread' = [thread EXCEPT ![d] = NoThreads]
  /\ queued' = [queued EXCEPT ![d] = 0]
  /\ handlers' = [handlers EXCEPT ![d] = 0]
  /\ timedOut' = [timedOut EXCEPT ![d] = FALSE]
  /\ Goto(d, "init")

Exit(d) == pc[d] \in {"stopped", "refused", "failed"} /\ Gone(d)

\* SIGKILL, or a signal that arrives while start() has no handler installed yet.
Kill(d) == pc[d] \in {"starting", "running", "stopping"} /\ Gone(d)

-----------------------------------------------------------------------------
\* The loops of poller and recovery: stop event, one round of API calls, wait.
LoopWakes(d, w) ==
  /\ w \in {"poller", "recovery"}
  /\ thread[d][w] = "idle"
  /\ SetThread(d, w, IF stop[d] THEN "dead" ELSE "busy")
  /\ UNCHANGED <<lock, pc, step, stop, queued, handlers, timedOut>>

LoopRoundEnds(d, w) ==
  /\ w \in {"poller", "recovery"}
  /\ thread[d][w] = "busy"
  /\ SetThread(d, w, "idle")
  /\ UNCHANGED <<lock, pc, step, stop, queued, handlers, timedOut>>

\* A payload that breaks the schema raises out of the round: the thread ends without
\* the stop event, and nobody looks after it.
LoopDies(d, w) ==
  /\ w \in {"poller", "recovery"}
  /\ thread[d][w] = "busy"
  /\ SetThread(d, w, "dead")
  /\ UNCHANGED <<lock, pc, step, stop, queued, handlers, timedOut>>

EnqueueUnbounded(d) == queued' = [queued EXCEPT ![d] = @ + 1]       \* mutant

\* An event is enqueued, unless the queue is full.
Enqueue(d) == queued' = [queued EXCEPT ![d] = IF @ < MaxQueue THEN @ + 1 ELSE @]

PollerEnqueues(d) ==
  /\ thread[d]["poller"] = "busy"
  /\ Enqueue(d)
  /\ UNCHANGED <<lock, pc, step, stop, thread, handlers, timedOut>>

\* The receiver handles each request in a thread of its own, which it does not join.
RequestAccepted(d) ==
  /\ Alive(d, "server")
  /\ handlers[d] < MaxHandlers
  /\ handlers' = [handlers EXCEPT ![d] = @ + 1]
  /\ UNCHANGED <<lock, pc, step, stop, thread, queued, timedOut>>

RequestAnswered(d) ==
  /\ handlers[d] > 0
  /\ handlers' = [handlers EXCEPT ![d] = @ - 1]
  /\ Enqueue(d)
  /\ UNCHANGED <<lock, pc, step, stop, thread, timedOut>>

\* The invoker's loop looks at the stop event and then waits for an event, which it
\* takes out of the queue even if the stop event was set meanwhile.
InvokerStops(d) ==
  /\ thread[d]["invoker"] = "idle"
  /\ stop[d]
  /\ SetThread(d, "invoker", "dead")
  /\ UNCHANGED <<lock, pc, step, stop, queued, handlers, timedOut>>

InvokerTakes(d) ==
  /\ thread[d]["invoker"] = "idle"
  /\ queued[d] > 0
  /\ queued' = [queued EXCEPT ![d] = @ - 1]
  /\ SetThread(d, "invoker", "busy")
  /\ UNCHANGED <<lock, pc, step, stop, handlers, timedOut>>

\* The invoker returns or raises an Exception; only a SystemExit ends the thread.
InvokerReturns(d) ==
  /\ thread[d]["invoker"] = "busy"
  /\ \/ SetThread(d, "invoker", IF stop[d] THEN "dead" ELSE "idle")
     \/ SetThread(d, "invoker", "quit")
  /\ UNCHANGED <<lock, pc, step, stop, queued, handlers, timedOut>>

-----------------------------------------------------------------------------
MainStep(d) ==
  \/ StartLocked(d) \/ StartRefused(d) \/ StartWorker(d) \/ BindFails(d) \/ Started(d)
  \/ StopJoined(d) \/ StopTimesOut(d) \/ StopServer(d) \/ Stopped(d)

WorkerStep(d) ==
  \/ \E w \in Workers : LoopWakes(d, w) \/ LoopRoundEnds(d, w) \/ LoopDies(d, w)
  \/ PollerEnqueues(d) \/ RequestAccepted(d) \/ RequestAnswered(d)
  \/ InvokerStops(d) \/ InvokerTakes(d) \/ InvokerReturns(d)

Next == \E d \in Daemons : MainStep(d) \/ Signal(d) \/ Exit(d) \/ Kill(d) \/ WorkerStep(d)

Spec == Init /\ [][Next]_vars

\* The main thread keeps going and an idle thread notices the stop event.  Nothing is
\* assumed of the calls that make a thread busy, nor that a signal ever comes.
Fairness ==
  \A d \in Daemons :
    /\ WF_vars(MainStep(d))
    /\ WF_vars(InvokerStops(d))
    /\ \A w \in Workers : WF_vars(stop[d] /\ LoopWakes(d, w))

FairSpec == Spec /\ Fairness

-----------------------------------------------------------------------------
Places == {"init", "starting", "running", "stopping", "stopped", "refused", "failed"}

\* The variables have their types; the queue and the handlers keep their bounds.
TypeOK ==
  /\ lock \in Daemons \cup {Nobody}
  /\ pc \in [Daemons -> Places]
  /\ step \in [Daemons -> 1..5]
  /\ stop \in [Daemons -> BOOLEAN]
  /\ thread \in [Daemons -> [AllWorkers -> {"off", "idle", "busy", "dead", "quit"}]]
  /\ queued \in [Daemons -> 0..MaxQueue]
  /\ handlers \in [Daemons -> 0..MaxHandlers]
  /\ timedOut \in [Daemons -> BOOLEAN]

\* The lock covers the work: whatever fails to bind, is killed or is shut down, a
\* daemon has a live thread only while it holds the lock - or after a shutdown that
\* gave up waiting for the thread.  So two daemons never work side by side otherwise.
LockCoversWork ==
  \A d \in Daemons : (\E w \in Workers : Alive(d, w)) => lock = d \/ timedOut[d]

\* "No event is sitting in the queue with nobody servicing it": from the first event
\* a producer can enqueue until the stop event, the consumer's thread is there - unless
\* the operator's own invoker ended it.
QueueServiced ==
  \A d \in Daemons :
    (~stop[d] /\ (queued[d] > 0 \/ Working(d)))
      => Alive(d, "invoker") \/ thread[d]["invoker"] = "quit"

\* A shutdown ends, also when a worker hangs in a call for ever.
ShutdownEnds ==
  \A d \in Daemons : pc[d] = "stopping" ~> pc[d] # "stopping"
=============================================================================
