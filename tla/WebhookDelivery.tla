--------------------------- MODULE WebhookDelivery ---------------------------
(***************************************************************************)
(* Mode "webhook" end to end: the platform's deliveries, the threads of    *)
(* do_POST (daemon/webhook_receiver.py), the queue and the AgentInvoker,   *)
(* together with the recovery worker of WebhookRecovery, whose platform    *)
(* this module gives a reason for every answered and every failed          *)
(* delivery.                                                               *)
(*                                                                         *)
(* The platform attempts an event until it is answered 200.  It does not   *)
(* wait for ever: an attempt it has given up is a failed delivery, while   *)
(* the thread that handles it runs on and may meet the next attempt.  The  *)
(* dedup window is larger than the set of events.                          *)
(***************************************************************************)
EXTENDS WebhookRecovery, SequencesExt

CONSTANTS Events,         \* direct messages the webhook is to deliver
          MaxSize,        \* queue_maxsize
          MaxThreads      \* bound: requests handled at a time

ASSUME DeliveryAssumption == MaxSize \in Nat \ {0} /\ MaxThreads \in Nat

VARIABLES requests,       \* what the handler threads work at
          queue, seen,    \* the message queue and its dedup window
          ended,          \* the invoker thread has ended
          acked,          \* history: events the platform was answered 200 for
          rejected,       \* history: events dropped on a full queue
          dispatched      \* history: how often the invoker was called with each event

buffer   == <<queue, seen, rejected>>
receiver == <<requests, buffer, ended, acked, dispatched>>
allVars  == <<vars, receiver>>

Threads == 1..MaxThreads
Places  == {"received", "putting", "undoing", "answering"}
Request == [thread : Threads, event : Events, at : Places, open : BOOLEAN]

DeliveryInit ==
  /\ Init
  /\ requests = {}
  /\ queue = <<>> /\ seen = {} /\ ended = FALSE
  /\ acked = {} /\ rejected = {}
  /\ dispatched = [e \in Events |-> 0]

-----------------------------------------------------------------------------
\* How the platform takes the end of an attempt; a webhook that is disabled or gone
\* meanwhile counts nothing.
Success == DeliveryAnswered \/ (~(exists /\ active) /\ UNCHANGED vars)
Failure == DeliveryFails \/ (~(exists /\ active) /\ UNCHANGED vars)

Undelivered(e) == e \notin acked /\ \A r \in requests : r.event = e => ~r.open
Free           == Threads \ {r.thread : r \in requests}

\* The platform attempts an event and a handler thread has the request - until stop()
\* closes the socket, which does not join the handler threads;
Attempt(e) ==
  /\ exists /\ active /\ ~stop
  /\ Undelivered(e)
  /\ Free # {}
  /\ requests' = requests \cup
       {[thread |-> CHOOSE t \in Free : TRUE, event |-> e, at |-> "received", open |-> TRUE]}
  /\ UNCHANGED <<vars, buffer, ended, acked, dispatched>>

\* or the receiver, its host or the proxy before it is down.
Refused ==
  /\ \E e \in Events : Undelivered(e)
  /\ DeliveryFails
  /\ UNCHANGED receiver

\* The platform gives up waiting, or the answer is lost on its way.
TimeOut(r) ==
  /\ r.open
  /\ Failure
  /\ requests' = (requests \ {r}) \cup {[r EXCEPT !.open = FALSE]}
  /\ UNCHANGED <<buffer, ended, acked, dispatched>>

\* do_POST turns the request away: 404 for another path, 411, 401 for a signature
\* made with another secret, 400.
Reject(r) ==
  /\ r.at = "received"
  /\ IF r.open THEN Failure ELSE UNCHANGED vars
  /\ requests' = requests \ {r}
  /\ UNCHANGED <<buffer, ended, acked, dispatched>>

KnownWhileQueued(e) == e \in ToSet(queue)       \* mutant: only what is still queued
Known(e) == e \in seen

Becomes(r, place) == requests' = (requests \ {r}) \cup {[r EXCEPT !.at = place]}

\* The request is verified and parsed and MessageQueue.enqueue() called with its event:
\* a known one is dropped, another recorded before it is put.
Admit(r) ==
  /\ r.at = "received"
  /\ IF Known(r.event)
       THEN Becomes(r, "answering") /\ UNCHANGED seen
       ELSE Becomes(r, "putting") /\ seen' = seen \cup {r.event}
  /\ UNCHANGED <<vars, queue, rejected, ended, acked, dispatched>>

\* Mutant: the bound is not looked at.
PutUnbounded(r) ==
  /\ r.at = "putting"
  /\ Becomes(r, "answering") /\ queue' = Append(queue, r.event)
  /\ UNCHANGED <<vars, seen, rejected, ended, acked, dispatched>>

\* Mutant: room is made by losing the oldest.
PutLosing(r) ==
  /\ r.at = "putting"
  /\ Becomes(r, "answering")
  /\ queue' = Append(IF Len(queue) < MaxSize THEN queue ELSE Tail(queue), r.event)
  /\ UNCHANGED <<vars, seen, rejected, ended, acked, dispatched>>

\* put_nowait(), without the lock;
Put(r) ==
  /\ r.at = "putting"
  /\ IF Len(queue) < MaxSize
       THEN Becomes(r, "answering") /\ queue' = Append(queue, r.event)
       ELSE Becomes(r, "undoing") /\ UNCHANGED queue
  /\ UNCHANGED <<vars, seen, rejected, ended, acked, dispatched>>

\* Mutant: an event dropped on a full queue stays recorded.
UndoForgotten(r) ==
  /\ r.at = "undoing"
  /\ Becomes(r, "answering")
  /\ UNCHANGED <<vars, buffer, ended, acked, dispatched>>

\* after queue.Full the record is taken back and the event counted in dropped_full.
Undo(r) ==
  /\ r.at = "undoing"
  /\ Becomes(r, "answering")
  /\ seen' = seen \ {r.event}
  /\ rejected' = rejected \cup {r.event}
  /\ UNCHANGED <<vars, queue, ended, acked, dispatched>>

\* The answer is 200, whatever became of the event.
Answer(r) ==
  /\ r.at = "answering"
  /\ IF r.open THEN Success /\ acked' = acked \cup {r.event}
               ELSE UNCHANGED <<vars, acked>>
  /\ requests' = requests \ {r}
  /\ UNCHANGED <<buffer, ended, dispatched>>

-----------------------------------------------------------------------------
\* The invoker thread takes the next event and calls the invoker.
Dispatch ==
  /\ ~ended
  /\ queue # <<>>
  /\ dispatched' = [dispatched EXCEPT ![Head(queue)] = @ + 1]
  /\ queue' = Tail(queue)
  /\ UNCHANGED <<vars, requests, seen, rejected, ended, acked>>

\* Mutant: the loop ends when a dequeue() has timed out.
InvokerEndsIdle ==
  /\ ~ended
  /\ queue = <<>>
  /\ ended' = TRUE
  /\ UNCHANGED <<vars, requests, buffer, acked, dispatched>>

\* Its loop ends on the stop event, with whatever is queued.
InvokerEnds ==
  /\ stop /\ ~ended
  /\ ended' = TRUE
  /\ UNCHANGED <<vars, requests, buffer, acked, dispatched>>

WorkerStep   == Round \/ Listed \/ ListFails \/ Updated \/ UpdateFails
OperatorStep == ReEnable \/ Delete \/ Stop

DeliveryNext ==
  \/ \E e \in Events : Attempt(e)
  \/ Refused
  \/ \E r \in requests : TimeOut(r) \/ Reject(r) \/ Admit(r) \/ Put(r) \/ Undo(r) \/ Answer(r)
  \/ Dispatch \/ InvokerEnds
  \/ (WorkerStep \/ OperatorStep) /\ UNCHANGED receiver

\* To the worker's fairness is added that the invoker's thread runs.
DeliverySpec ==
  DeliveryInit /\ [][DeliveryNext]_allVars /\ Fairness /\ WF_allVars(Dispatch)

-----------------------------------------------------------------------------
\* The variables have their types; the queue keeps its bound.
DeliveryTypeOK ==
  /\ TypeOK
  /\ requests \subseteq Request /\ \A r, o \in requests : r.thread = o.thread => r = o
  /\ queue \in Seq(Events) /\ Len(queue) <= MaxSize
  /\ seen \subseteq Events /\ rejected \subseteq Events /\ acked \subseteq Events
  /\ ended \in BOOLEAN
  /\ dispatched \in [Events -> Nat]

\* A delivery that timed out is attempted again while the thread of the first attempt
\* is still on its way to the queue: the agent sees the event once all the same.
DispatchedOnce == \A e \in Events : dispatched[e] <= 1

\* 200 is the last the platform hears of an event: a direct message it was answered
\* for was dispatched, is queued, or was counted in dropped_full - or another thread,
\* for which this one took it for known, has it in enqueue() and may still drop it.
AckedIsSettled ==
  \A e \in acked :
    \/ dispatched[e] > 0 \/ e \in ToSet(queue) \cup rejected
    \/ \E r \in requests : r.event = e /\ r.at \in {"putting", "undoing"}

\* From the platform to the invoker the daemon is the channel the queue promises to be,
\* one that never forgets: each event comes once and in the order of acceptance, however
\* many attempts were made of it and whichever of them met a full queue.
Channel == INSTANCE DedupChannel WITH
             Keys <- Events, Capacity <- MaxSize, channel <- queue, received <- dispatched,
             forgets <- [e \in Events |-> 0],
             sent <- [e \in Events |-> dispatched[e] + IF e \in ToSet(queue) THEN 1 ELSE 0]

DeliversAsChannel == Channel!Spec

\* What the queue accepted reaches the invoker, also from a thread that outlives its
\* request or the server: only a shutdown leaves events behind.
AcceptedIsServed ==
  \A e \in Events : e \in ToSet(queue) ~> (dispatched[e] > 0 \/ stop)
=============================================================================
