---------------------------- MODULE WebhookProofs ----------------------------
(***************************************************************************)
(* Proofs about WebhookRecovery and WebhookDelivery for any set of events, *)
(* any number of handler threads and any sizes.                            *)
(***************************************************************************)
EXTENDS WebhookDelivery, SequenceTheorems, TLAPS

-----------------------------------------------------------------------------
(***************************************************************************)
(* The recovery worker.  What makes RecoveriesEarned inductive is that a   *)
(* disabled webhook, and an update that is under way, each have a decision *)
(* of the platform behind them that no recovery has answered yet.          *)
(***************************************************************************)
Owing == (~active \/ pc = "updating") => recoveries < disables

RecoveryInd == TypeOK /\ RecoveriesEarned /\ Owing

LEMMA RecoveryInit == Init => RecoveryInd
<1>. SUFFICES ASSUME Init
              PROVE  RecoveryInd
  OBVIOUS
<1>1. exists = TRUE /\ active \in BOOLEAN /\ stop = FALSE /\ pc = "idle" /\ recoveries = 0
  BY DEF Init
<1>2. failures \in {0, Threshold} /\ disables \in {0, 1}
  BY DEF Init
<1>3. ~active => disables = 1
  BY DEF Init
<1>4. TypeOK /\ RecoveriesEarned
  <2>1. failures \in 0..Threshold /\ recoveries \in Nat /\ disables \in Nat
    BY <1>1, <1>2, RecoveryAssumption
  <2>2. RecoveriesEarned
    BY <1>1, <1>2 DEF RecoveriesEarned
  <2>3. QED BY <1>1, <2>1, <2>2, Zenon DEF TypeOK
<1>5. Owing
  BY <1>1, <1>3 DEF Owing
<1>6. QED BY <1>4, <1>5 DEF RecoveryInd

LEMMA RecoveryNext == RecoveryInd /\ [Next]_vars => RecoveryInd'
<1>. SUFFICES ASSUME RecoveryInd, [Next]_vars
              PROVE  RecoveryInd'
  OBVIOUS
<1>. USE RecoveryAssumption DEF RecoveryInd, TypeOK, RecoveriesEarned, Owing, Goto
<1>1. CASE DeliveryAnswered BY <1>1 DEF DeliveryAnswered
<1>2. CASE DeliveryFails
  <2>1. /\ failures' \in 0..Threshold /\ active' \in BOOLEAN
        /\ disables' \in Nat /\ disables' >= disables
        /\ ~active' => disables' = disables + 1
    BY <1>2 DEF DeliveryFails
  <2>2. UNCHANGED <<exists, stop, pc, recoveries>>
    BY <1>2 DEF DeliveryFails
  <2>3. QED BY <2>1, <2>2
<1>3. CASE ReEnable         BY <1>3 DEF ReEnable
<1>4. CASE Delete           BY <1>4 DEF Delete
<1>5. CASE Stop             BY <1>5 DEF Stop, platform
<1>6. CASE Round            BY <1>6 DEF Round, platform
<1>7. CASE Listed           BY <1>7 DEF Listed, platform
<1>8. CASE ListFails        BY <1>8 DEF ListFails, platform
<1>9. CASE Updated          BY <1>9 DEF Updated
<1>10. CASE UpdateFails
  <2>1. pc = "updating" /\ pc' = "idle" /\ UNCHANGED <<stop, recoveries>>
    BY <1>10 DEF UpdateFails
  <2>2. CASE UNCHANGED platform
    BY <2>1, <2>2 DEF platform
  <2>3. CASE /\ active' = TRUE /\ failures' \in {0, failures}
             /\ UNCHANGED <<exists, disables>>
    BY <2>1, <2>3
  <2>4. QED BY <1>10, <2>2, <2>3 DEF UpdateFails
<1>11. CASE UNCHANGED vars  BY <1>11 DEF vars, platform
<1>12. QED
  BY <1>1, <1>2, <1>3, <1>4, <1>5, <1>6, <1>7, <1>8, <1>9, <1>10, <1>11 DEF Next

LEMMA RecoveryInvariant == Spec => []RecoveryInd
BY RecoveryInit, RecoveryNext, PTL DEF Spec

-----------------------------------------------------------------------------
(***************************************************************************)
(* The composition.  To the worker, receiver and queue are the platform's  *)
(* answered and failed deliveries and nothing else.                        *)
(***************************************************************************)
LEMMA DeliveryStepIsRecoveryStep == [DeliveryNext]_allVars => [Next]_vars
<1>. SUFFICES ASSUME [DeliveryNext]_allVars
              PROVE  [Next]_vars
  OBVIOUS
<1>1. ASSUME NEW e \in Events, Attempt(e)  PROVE  UNCHANGED vars
  BY <1>1 DEF Attempt
<1>2. CASE Refused
  BY <1>2 DEF Refused, Next
<1>3. ASSUME NEW r \in requests, TimeOut(r) \/ Reject(r) \/ Admit(r) \/ Put(r) \/ Undo(r) \/ Answer(r)
      PROVE  DeliveryAnswered \/ DeliveryFails \/ UNCHANGED vars
  BY <1>3 DEF TimeOut, Reject, Admit, Put, Undo, Answer, Success, Failure
<1>4. CASE Dispatch \/ InvokerEnds
  BY <1>4 DEF Dispatch, InvokerEnds
<1>5. CASE WorkerStep \/ OperatorStep
  BY <1>5 DEF WorkerStep, OperatorStep, Next
<1>6. CASE UNCHANGED allVars
  BY <1>6 DEF allVars
<1>7. QED BY <1>1, <1>2, <1>3, <1>4, <1>5, <1>6 DEF DeliveryNext, Next

\* The daemon in mode "webhook" with its receiver, queue and invoker implements the
\* recovery worker's specification (webhook_receiver.py:96-142, 199-236).
THEOREM DeliveryImplementsRecovery == DeliverySpec => Spec
<1>1. DeliveryInit => Init
  BY DEF DeliveryInit
<1>2. QED BY <1>1, DeliveryStepIsRecoveryStep, PTL DEF DeliverySpec, Spec

\* The worker takes back no more decisions than the platform made, whatever the
\* receiver answers (webhook_receiver.py:199-231).
THEOREM RecoveriesAreEarned == DeliverySpec => []RecoveriesEarned
<1>1. RecoveryInd => RecoveriesEarned
  BY DEF RecoveryInd
<1>2. QED BY <1>1, RecoveryInvariant, DeliveryImplementsRecovery, PTL

-----------------------------------------------------------------------------
(***************************************************************************)
(* The way of an event.  A recorded event is in the hands of one thread    *)
(* that is inside enqueue(), or queued, once, or was dispatched, and never *)
(* two of these; so is one whose request is about to be answered, unless   *)
(* it was dropped on a full queue.                                         *)
(***************************************************************************)
Queued(e)   == \E i \in 1..Len(queue) : queue[i] = e
Underway(r) == r.at \in {"putting", "undoing"}
Held(e)     == \E r \in requests : Underway(r) /\ r.event = e
Settled(e)  == dispatched[e] > 0 \/ Queued(e) \/ e \in rejected

ReceiverTypes ==
  /\ requests \subseteq Request /\ \A r, o \in requests : r.thread = o.thread => r = o
  /\ queue \in Seq(Events) /\ Len(queue) <= MaxSize
  /\ seen \subseteq Events /\ rejected \subseteq Events /\ acked \subseteq Events
  /\ ended \in BOOLEAN
  /\ dispatched \in [Events -> Nat]

HeldOnce ==
  /\ \A r, o \in requests : Underway(r) /\ Underway(o) /\ r.event = o.event => r = o
  /\ \A e \in Events : Held(e) => ~Queued(e) /\ dispatched[e] = 0

QueuedOnce ==
  /\ \A i, j \in 1..Len(queue) : queue[i] = queue[j] => i = j
  /\ \A e \in Events : Queued(e) => dispatched[e] = 0

Recorded ==
  \A e \in Events : e \in seen <=> (Held(e) \/ Queued(e) \/ dispatched[e] > 0)

AnsweredIsSettled ==
  /\ \A r \in requests : r.at = "answering" => Settled(r.event) \/ Held(r.event)
  /\ \A e \in acked : Settled(e) \/ Held(e)

DeliveryInd ==
  ReceiverTypes /\ HeldOnce /\ QueuedOnce /\ DispatchedOnce /\ Recorded /\ AnsweredIsSettled

LEMMA DeliveryIndInit == DeliveryInit => DeliveryInd
<1>. SUFFICES ASSUME DeliveryInit
              PROVE  DeliveryInd
  OBVIOUS
<1>1. queue = <<>> /\ Len(queue) = 0 /\ queue \in Seq(Events)
  BY DEF DeliveryInit
<1>2. \A e \in Events : ~Queued(e) /\ ~Held(e) /\ dispatched[e] = 0
  BY <1>1 DEF DeliveryInit, Queued, Held
<1>3. ReceiverTypes
  <2>1. requests = {} /\ seen = {} /\ rejected = {} /\ acked = {} /\ ended = FALSE
    BY DEF DeliveryInit
  <2>2. dispatched \in [Events -> Nat]
    BY DEF DeliveryInit
  <2>3. Len(queue) <= MaxSize
    BY <1>1, DeliveryAssumption
  <2>4. QED BY <1>1, <2>1, <2>2, <2>3, Zenon DEF ReceiverTypes
<1>4. HeldOnce /\ QueuedOnce /\ DispatchedOnce /\ Recorded
  BY <1>1, <1>2 DEF DeliveryInit, HeldOnce, QueuedOnce, DispatchedOnce, Recorded
<1>5. AnsweredIsSettled
  BY DEF DeliveryInit, AnsweredIsSettled
<1>6. QED BY <1>3, <1>4, <1>5 DEF DeliveryInd

-----------------------------------------------------------------------------
\* A thread goes on with its request: what it means for the events that are held.
LEMMA RequestMoves ==
  ASSUME ReceiverTypes, NEW r \in requests, NEW n \in Request,
         n.thread = r.thread, n.event = r.event, requests' = (requests \ {r}) \cup {n}
  PROVE  /\ requests' \subseteq Request
         /\ \A q, o \in requests' : q.thread = o.thread => q = o
         /\ \A e \in Events :
              Held(e)' <=> \/ \E q \in requests \ {r} : Underway(q) /\ q.event = e
                           \/ Underway(n) /\ e = r.event
<1>1. requests' \subseteq Request /\ \A q, o \in requests' : q.thread = o.thread => q = o
  BY DEF ReceiverTypes
<1>2. QED BY <1>1 DEF Held, Underway

\* Steps that leave queue, window, counts and what is held alone keep what is said of
\* them.
LEMMA BufferKept ==
  ASSUME DeliveryInd, UNCHANGED <<buffer, dispatched>>, \A e \in Events : Held(e)' <=> Held(e)
  PROVE  /\ QueuedOnce' /\ DispatchedOnce' /\ Recorded'
         /\ \A e \in Events : Held(e)' => ~Queued(e)' /\ dispatched'[e] = 0
         /\ \A e \in Events : Settled(e)' = Settled(e)
BY DEF DeliveryInd, HeldOnce, QueuedOnce, DispatchedOnce, Recorded, Queued, Settled, buffer

\* put_nowait() with room: the event is queued behind the others.
LEMMA PutQueues ==
  ASSUME ReceiverTypes, QueuedOnce, NEW e \in Events, ~Queued(e), dispatched[e] = 0,
         Len(queue) < MaxSize, queue' = Append(queue, e), dispatched' = dispatched
  PROVE  /\ queue' \in Seq(Events) /\ Len(queue') <= MaxSize
         /\ \A o \in Events : Queued(o)' <=> Queued(o) \/ o = e
         /\ QueuedOnce'
<1>1. /\ queue' \in Seq(Events) /\ Len(queue') = Len(queue) + 1
      /\ \A i \in 1..Len(queue) : queue'[i] = queue[i]
      /\ queue'[Len(queue) + 1] = e
      /\ Len(queue) \in Nat
  BY DEF ReceiverTypes
<1>2. \A o \in Events : Queued(o)' <=> Queued(o) \/ o = e
  BY <1>1 DEF Queued
<1>3. ASSUME NEW i \in 1..Len(queue'), NEW j \in 1..Len(queue'), queue'[i] = queue'[j]
      PROVE  i = j
  BY <1>1, <1>3 DEF QueuedOnce, Queued
<1>4. QED BY <1>1, <1>2, <1>3, DeliveryAssumption DEF QueuedOnce

\* The invoker takes the oldest: nothing else leaves the queue.
LEMMA DispatchTakes ==
  ASSUME DeliveryInd, Dispatch
  PROVE  LET h == Head(queue)
         IN  /\ h \in Events /\ Queued(h) /\ dispatched[h] = 0
             /\ queue' \in Seq(Events) /\ Len(queue') <= MaxSize
             /\ \A e \in Events : Queued(e)' <=> Queued(e) /\ e # h
             /\ \A e \in Events : dispatched'[e] = IF e = h THEN 1 ELSE dispatched[e]
             /\ dispatched' \in [Events -> Nat]
             /\ \A i, j \in 1..Len(queue') : queue'[i] = queue'[j] => i = j
<1>. USE DeliveryAssumption DEF DeliveryInd
<1>. DEFINE h == Head(queue)
<1>1. /\ queue # <<>> /\ queue' = Tail(queue)
      /\ dispatched' = [dispatched EXCEPT ![h] = @ + 1]
  BY DEF Dispatch
<1>2. /\ queue \in Seq(Events) /\ Len(queue) \in Nat \ {0} /\ Len(queue) <= MaxSize
      /\ h = queue[1] /\ h \in Events
      /\ queue' \in Seq(Events) /\ Len(queue') = Len(queue) - 1
      /\ \A i \in 1..(Len(queue) - 1) : queue'[i] = queue[i + 1]
  BY <1>1, EmptySeq, HeadTailProperties DEF ReceiverTypes
<1>3. Queued(h) /\ dispatched[h] = 0
  BY <1>2 DEF Queued, QueuedOnce
<1>4. \A e \in Events : Queued(e)' <=> Queued(e) /\ e # h
  <2>1. ASSUME NEW e \in Events, Queued(e)'  PROVE  Queued(e) /\ e # h
    <3>1. PICK i \in 1..(Len(queue) - 1) : queue[i + 1] = e
      BY <1>2, <2>1 DEF Queued
    <3>2. i + 1 \in 1..Len(queue) /\ i + 1 # 1 /\ 1 \in 1..Len(queue)
      BY <1>2
    <3>3. QED BY <1>2, <3>1, <3>2 DEF Queued, QueuedOnce
  <2>2. ASSUME NEW e \in Events, Queued(e), e # h  PROVE  Queued(e)'
    <3>1. PICK i \in 1..Len(queue) : queue[i] = e
      BY <2>2 DEF Queued
    <3>2. i - 1 \in 1..(Len(queue) - 1) /\ (i - 1) + 1 = i
      BY <1>2, <2>2, <3>1
    <3>3. queue'[i - 1] = e
      BY <1>2, <3>1, <3>2
    <3>4. QED BY <1>2, <3>2, <3>3 DEF Queued
  <2>3. QED BY <2>1, <2>2
<1>5. \A e \in Events : dispatched'[e] = IF e = h THEN 1 ELSE dispatched[e]
  BY <1>1, <1>2, <1>3 DEF ReceiverTypes
<1>6. dispatched' \in [Events -> Nat]
  BY <1>1, <1>2 DEF ReceiverTypes
<1>7. ASSUME NEW i \in 1..Len(queue'), NEW j \in 1..Len(queue'), queue'[i] = queue'[j]
      PROVE  i = j
  <2>1. i + 1 \in 1..Len(queue) /\ j + 1 \in 1..Len(queue)
    BY <1>2
  <2>2. queue[i + 1] = queue[j + 1]
    BY <1>2, <1>7
  <2>3. i + 1 = j + 1
    BY <2>1, <2>2 DEF QueuedOnce
  <2>4. QED BY <2>3
<1>8. Len(queue') <= MaxSize
  BY <1>2
<1>9. QED BY <1>2, <1>3, <1>4, <1>5, <1>6, <1>7, <1>8

-----------------------------------------------------------------------------
\* A thread that goes on, ends or is turned away without entering or leaving enqueue().
LEMMA AttemptKeeps == ASSUME DeliveryInd, NEW e \in Events, Attempt(e)  PROVE DeliveryInd'
<1>. USE DEF DeliveryInd
<1>. DEFINE t == CHOOSE t \in Free : TRUE
            new == [thread |-> t, event |-> e, at |-> "received", open |-> TRUE]
<1>1. t \in Free
  BY DEF Attempt
<1>2. requests' = requests \cup {new} /\ UNCHANGED <<buffer, dispatched, ended, acked>>
  BY DEF Attempt
<1>3. new \in Request /\ \A r \in requests : r.thread # new.thread
  BY <1>1 DEF Free, Request, Places
<1>4. new.at = "received"
  OBVIOUS
<1>. HIDE DEF new
<1>5. \A o \in Events : Held(o)' <=> Held(o)
  BY <1>2, <1>4 DEF Held, Underway
<1>6. ReceiverTypes'
  BY <1>2, <1>3 DEF ReceiverTypes, buffer
<1>7. HeldOnce'
  BY <1>2, <1>4, <1>5, BufferKept DEF HeldOnce, Underway
<1>8. AnsweredIsSettled'
  BY <1>2, <1>4, <1>5, BufferKept DEF AnsweredIsSettled, ReceiverTypes, Request
<1>9. QED BY <1>2, <1>5, <1>6, <1>7, <1>8, BufferKept

LEMMA TimeOutKeeps == ASSUME DeliveryInd, NEW r \in requests, TimeOut(r)  PROVE DeliveryInd'
<1>. USE DEF DeliveryInd
<1>. DEFINE n == [r EXCEPT !.open = FALSE]
<1>1. requests' = (requests \ {r}) \cup {n} /\ UNCHANGED <<buffer, dispatched, ended, acked>>
  BY DEF TimeOut
<1>2. /\ r \in Request /\ n \in Request
      /\ n.thread = r.thread /\ n.event = r.event /\ n.at = r.at
  BY DEF ReceiverTypes, Request
<1>. HIDE DEF n
<1>3. /\ requests' \subseteq Request
      /\ \A q, o \in requests' : q.thread = o.thread => q = o
  BY <1>1, <1>2, RequestMoves
<1>4. \A o \in Events : Held(o)' <=> Held(o)
  BY <1>1, <1>2 DEF Held, Underway
<1>5. ReceiverTypes'
  BY <1>1, <1>3 DEF ReceiverTypes, buffer
<1>6. HeldOnce'
  BY <1>1, <1>2, <1>4, BufferKept DEF HeldOnce, Underway
<1>7. AnsweredIsSettled'
  BY <1>1, <1>2, <1>4, BufferKept DEF AnsweredIsSettled, ReceiverTypes, Request
<1>8. QED BY <1>1, <1>4, <1>5, <1>6, <1>7, BufferKept

LEMMA EndKeeps ==
  ASSUME DeliveryInd, NEW r \in requests, Reject(r) \/ Answer(r)  PROVE DeliveryInd'
<1>. USE DEF DeliveryInd
<1>1. /\ requests' = requests \ {r} /\ ~Underway(r)
      /\ UNCHANGED <<buffer, dispatched, ended>>
      /\ acked' = acked \/ (acked' = acked \cup {r.event} /\ r.at = "answering")
  BY DEF Reject, Answer, Underway
<1>2. r.event \in Events
  BY DEF ReceiverTypes, Request
<1>3. \A o \in Events : Held(o)' <=> Held(o)
  BY <1>1 DEF Held, Underway
<1>4. ReceiverTypes'
  BY <1>1, <1>2 DEF ReceiverTypes, buffer
<1>5. HeldOnce'
  BY <1>1, <1>3, BufferKept DEF HeldOnce, Underway
<1>6. AnsweredIsSettled'
  BY <1>1, <1>2, <1>3, BufferKept DEF AnsweredIsSettled, ReceiverTypes, Request
<1>7. QED BY <1>1, <1>3, <1>4, <1>5, <1>6, BufferKept

-----------------------------------------------------------------------------
\* enqueue(): an event that is known is settled, or held by another thread; one that is
\* not becomes held by this one.
LEMMA AdmitKeeps == ASSUME DeliveryInd, NEW r \in requests, Admit(r)  PROVE DeliveryInd'
<1>. USE DEF DeliveryInd
<1>1. /\ r \in Request /\ r.event \in Events /\ r.at = "received" /\ ~Underway(r)
      /\ UNCHANGED <<queue, rejected, ended, acked, dispatched>>
  BY DEF Admit, Underway, ReceiverTypes, Request
<1>2. CASE Known(r.event)
  <2>. DEFINE n == [r EXCEPT !.at = "answering"]
  <2>1. requests' = (requests \ {r}) \cup {n} /\ UNCHANGED seen
    BY <1>2 DEF Admit, Becomes
  <2>2. n \in Request /\ n.thread = r.thread /\ n.event = r.event /\ n.at = "answering"
    BY <1>1 DEF Request, Places
  <2>. HIDE DEF n
  <2>3. /\ requests' \subseteq Request
        /\ \A q, o \in requests' : q.thread = o.thread => q = o
    BY <2>1, <2>2, RequestMoves
  <2>4. \A o \in Events : Held(o)' <=> Held(o)
    BY <1>1, <2>1, <2>2 DEF Held, Underway
  <2>5. UNCHANGED <<buffer, dispatched>>
    BY <1>1, <2>1 DEF buffer
  <2>6. ReceiverTypes'
    BY <1>1, <2>1, <2>3 DEF ReceiverTypes
  <2>7. HeldOnce'
    BY <2>1, <2>2, <2>4, <2>5, BufferKept DEF HeldOnce, Underway
  <2>8. Settled(r.event) \/ Held(r.event)
    BY <1>1, <1>2 DEF Known, Recorded, Settled
  <2>9. AnsweredIsSettled'
    BY <1>1, <2>1, <2>2, <2>4, <2>5, <2>8, BufferKept DEF AnsweredIsSettled, ReceiverTypes, Request
  <2>10. QED BY <2>4, <2>5, <2>6, <2>7, <2>9, BufferKept
<1>3. CASE ~Known(r.event)
  <2>. DEFINE n == [r EXCEPT !.at = "putting"]
  <2>1. requests' = (requests \ {r}) \cup {n} /\ seen' = seen \cup {r.event}
    BY <1>3 DEF Admit, Becomes
  <2>2. n \in Request /\ n.thread = r.thread /\ n.event = r.event /\ n.at = "putting"
    BY <1>1 DEF Request, Places
  <2>. HIDE DEF n
  <2>3. /\ requests' \subseteq Request
        /\ \A q, o \in requests' : q.thread = o.thread => q = o
    BY <2>1, <2>2, RequestMoves
  <2>4. \A o \in Events : Held(o)' <=> Held(o) \/ o = r.event
    BY <1>1, <2>1, <2>2 DEF Held, Underway
  <2>5. ~Held(r.event) /\ ~Queued(r.event) /\ dispatched[r.event] = 0
    BY <1>1, <1>3 DEF Known, Recorded, ReceiverTypes
  <2>6. \A o \in Events : (Queued(o)' <=> Queued(o)) /\ (Settled(o)' <=> Settled(o))
    BY <1>1 DEF Queued, Settled
  <2>7. ReceiverTypes'
    BY <1>1, <2>1, <2>3 DEF ReceiverTypes
  <2>8. HeldOnce'
    <3>1. \A q, o \in requests' : Underway(q) /\ Underway(o) /\ q.event = o.event => q = o
      BY <2>1, <2>2, <2>5 DEF HeldOnce, Held, Underway
    <3>2. QED BY <1>1, <2>4, <2>5, <2>6, <3>1 DEF HeldOnce, Underway
  <2>9. QueuedOnce' /\ DispatchedOnce' /\ Recorded'
    BY <1>1, <2>1, <2>4, <2>6 DEF QueuedOnce, DispatchedOnce, Recorded
  <2>10. AnsweredIsSettled'
    BY <1>1, <2>1, <2>2, <2>4, <2>6 DEF AnsweredIsSettled, ReceiverTypes, Request
  <2>11. QED BY <2>7, <2>8, <2>9, <2>10
<1>4. QED BY <1>2, <1>3

\* The one thread that holds an event queues it, or lets go of it.
LEMMA HolderIsAlone ==
  ASSUME DeliveryInd, NEW r \in requests, Underway(r)
  PROVE  /\ r \in Request /\ r.event \in Events
         /\ ~Queued(r.event) /\ dispatched[r.event] = 0
         /\ \A q \in requests \ {r} : Underway(q) => q.event # r.event
<1>1. r \in Request /\ r.event \in Events
  BY DEF DeliveryInd, ReceiverTypes, Request
<1>2. Held(r.event)
  BY DEF Held
<1>3. QED BY <1>1, <1>2 DEF DeliveryInd, HeldOnce

LEMMA PutKeeps == ASSUME DeliveryInd, NEW r \in requests, Put(r)  PROVE DeliveryInd'
<1>. USE DEF DeliveryInd
<1>1. r.at = "putting" /\ Underway(r) /\ UNCHANGED <<seen, rejected, ended, acked, dispatched>>
  BY DEF Put, Underway
<1>2. /\ r \in Request /\ r.event \in Events
      /\ ~Queued(r.event) /\ dispatched[r.event] = 0
      /\ \A q \in requests \ {r} : Underway(q) => q.event # r.event
  BY <1>1, HolderIsAlone
<1>3. CASE Len(queue) < MaxSize
  <2>. DEFINE n == [r EXCEPT !.at = "answering"]
  <2>1. requests' = (requests \ {r}) \cup {n} /\ queue' = Append(queue, r.event)
    BY <1>3 DEF Put, Becomes
  <2>2. n \in Request /\ n.thread = r.thread /\ n.event = r.event /\ n.at = "answering"
    BY <1>2 DEF Request, Places
  <2>. HIDE DEF n
  <2>3. /\ requests' \subseteq Request
        /\ \A q, o \in requests' : q.thread = o.thread => q = o
    BY <2>1, <2>2, RequestMoves
  <2>4. \A o \in Events : Held(o)' <=> Held(o) /\ o # r.event
    BY <1>1, <1>2, <2>1, <2>2 DEF Held, Underway
  <2>5. /\ queue' \in Seq(Events) /\ Len(queue') <= MaxSize
        /\ \A o \in Events : Queued(o)' <=> Queued(o) \/ o = r.event
        /\ QueuedOnce'
    BY <1>1, <1>2, <1>3, <2>1, PutQueues
  <2>6. Held(r.event)
    BY <1>1 DEF Held
  <2>7. ReceiverTypes'
    BY <1>1, <2>3, <2>5 DEF ReceiverTypes
  <2>8. HeldOnce'
    BY <1>1, <2>1, <2>2, <2>4, <2>5 DEF HeldOnce, Underway
  <2>9. DispatchedOnce' /\ Recorded'
    BY <1>1, <1>2, <2>4, <2>5, <2>6 DEF DispatchedOnce, Recorded
  <2>10. \A o \in Events : Settled(o) \/ Held(o) => Settled(o)' \/ Held(o)'
    BY <1>1, <2>4, <2>5 DEF Settled
  <2>11. Settled(r.event)'
    BY <1>2, <2>5 DEF Settled
  <2>12. AnsweredIsSettled'
    BY <1>1, <1>2, <2>1, <2>2, <2>10, <2>11 DEF AnsweredIsSettled, ReceiverTypes, Request
  <2>13. QED BY <2>5, <2>7, <2>8, <2>9, <2>12
<1>4. CASE ~(Len(queue) < MaxSize)
  <2>. DEFINE n == [r EXCEPT !.at = "undoing"]
  <2>1. requests' = (requests \ {r}) \cup {n} /\ UNCHANGED queue
    BY <1>4 DEF Put, Becomes
  <2>2. n \in Request /\ n.thread = r.thread /\ n.event = r.event /\ n.at = "undoing"
    BY <1>2 DEF Request, Places
  <2>. HIDE DEF n
  <2>3. /\ requests' \subseteq Request
        /\ \A q, o \in requests' : q.thread = o.thread => q = o
    BY <2>1, <2>2, RequestMoves
  <2>4. \A o \in Events : Held(o)' <=> Held(o)
    BY <1>1, <1>2, <2>1, <2>2 DEF Held, Underway
  <2>5. UNCHANGED <<buffer, dispatched>>
    BY <1>1, <2>1 DEF buffer
  <2>6. ReceiverTypes'
    BY <1>1, <2>1, <2>3 DEF ReceiverTypes
  <2>7. HeldOnce'
    <3>1. \A q, o \in requests' : Underway(q) /\ Underway(o) /\ q.event = o.event => q = o
      BY <1>2, <2>1, <2>2 DEF HeldOnce, Underway
    <3>2. QED BY <2>4, <2>5, <3>1, BufferKept DEF HeldOnce, Underway
  <2>8. AnsweredIsSettled'
    BY <1>1, <2>1, <2>2, <2>4, <2>5, BufferKept DEF AnsweredIsSettled, ReceiverTypes, Request
  <2>9. QED BY <2>4, <2>5, <2>6, <2>7, <2>8, BufferKept
<1>5. QED BY <1>3, <1>4

LEMMA UndoKeeps == ASSUME DeliveryInd, NEW r \in requests, Undo(r)  PROVE DeliveryInd'
<1>. USE DEF DeliveryInd
<1>. DEFINE n == [r EXCEPT !.at = "answering"]
<1>1. /\ r.at = "undoing" /\ Underway(r) /\ UNCHANGED <<queue, ended, acked, dispatched>>
      /\ seen' = seen \ {r.event} /\ rejected' = rejected \cup {r.event}
      /\ requests' = (requests \ {r}) \cup {n}
  BY DEF Undo, Becomes, Underway
<1>2. /\ r \in Request /\ r.event \in Events
      /\ ~Queued(r.event) /\ dispatched[r.event] = 0
      /\ \A q \in requests \ {r} : Underway(q) => q.event # r.event
  BY <1>1, HolderIsAlone
<1>3. n \in Request /\ n.thread = r.thread /\ n.event = r.event /\ n.at = "answering"
  BY <1>2 DEF Request, Places
<1>. HIDE DEF n
<1>4. /\ requests' \subseteq Request
      /\ \A q, o \in requests' : q.thread = o.thread => q = o
  BY <1>1, <1>3, RequestMoves
<1>5. \A o \in Events : Held(o)' <=> Held(o) /\ o # r.event
  BY <1>1, <1>2, <1>3 DEF Held, Underway
<1>6. \A o \in Events : Queued(o)' <=> Queued(o)
  BY <1>1 DEF Queued
<1>7. ReceiverTypes'
  BY <1>1, <1>2, <1>4 DEF ReceiverTypes
<1>8. HeldOnce'
  BY <1>1, <1>3, <1>5, <1>6 DEF HeldOnce, Underway
<1>9. QueuedOnce' /\ DispatchedOnce'
  BY <1>1, <1>6 DEF QueuedOnce, DispatchedOnce
<1>10. Recorded'
  BY <1>1, <1>2, <1>5, <1>6 DEF Recorded
<1>11. /\ Settled(r.event)'
       /\ \A o \in Events : Settled(o) \/ Held(o) => Settled(o)' \/ Held(o)'
  BY <1>1, <1>2, <1>5, <1>6 DEF Settled
<1>12. AnsweredIsSettled'
  BY <1>1, <1>2, <1>3, <1>11 DEF AnsweredIsSettled, ReceiverTypes, Request
<1>13. QED BY <1>7, <1>8, <1>9, <1>10, <1>12

LEMMA DispatchKeeps == ASSUME DeliveryInd, Dispatch  PROVE DeliveryInd'
<1>. DEFINE h == Head(queue)
<1>1. /\ h \in Events /\ Queued(h) /\ dispatched[h] = 0
      /\ queue' \in Seq(Events) /\ Len(queue') <= MaxSize
      /\ \A e \in Events : Queued(e)' <=> Queued(e) /\ e # h
      /\ \A e \in Events : dispatched'[e] = IF e = h THEN 1 ELSE dispatched[e]
      /\ dispatched' \in [Events -> Nat]
      /\ \A i, j \in 1..Len(queue') : queue'[i] = queue'[j] => i = j
  BY DispatchTakes
<1>2. UNCHANGED <<requests, seen, rejected, ended, acked>>
  BY DEF Dispatch
<1>. USE DEF DeliveryInd
<1>. HIDE DEF h
<1>3. \A e \in Events : Held(e)' <=> Held(e)
  BY <1>2 DEF Held
<1>4. ReceiverTypes'
  BY <1>1, <1>2 DEF ReceiverTypes
<1>5. HeldOnce'
  BY <1>1, <1>2, <1>3 DEF HeldOnce, Underway
<1>6. QueuedOnce' /\ DispatchedOnce'
  BY <1>1 DEF QueuedOnce, DispatchedOnce
<1>7. Recorded'
  BY <1>1, <1>2, <1>3 DEF Recorded
<1>8. \A e \in Events : Settled(e) => Settled(e)'
  BY <1>1, <1>2 DEF Settled
<1>9. AnsweredIsSettled'
  BY <1>2, <1>3, <1>8 DEF AnsweredIsSettled, ReceiverTypes, Request
<1>10. QED BY <1>4, <1>5, <1>6, <1>7, <1>9

LEMMA DeliveryIndNext == DeliveryInd /\ [DeliveryNext]_allVars => DeliveryInd'
<1>. SUFFICES ASSUME DeliveryInd, [DeliveryNext]_allVars
              PROVE  DeliveryInd'
  OBVIOUS
<1>1. CASE UNCHANGED <<requests, buffer, acked, dispatched>> /\ ended' \in BOOLEAN
  <2>. USE DEF DeliveryInd
  <2>1. \A e \in Events : Held(e)' <=> Held(e)
    BY <1>1 DEF Held
  <2>2. ReceiverTypes'
    BY <1>1 DEF ReceiverTypes, buffer
  <2>3. HeldOnce' /\ AnsweredIsSettled'
    BY <1>1, <2>1, BufferKept DEF HeldOnce, AnsweredIsSettled, ReceiverTypes, Request, Underway
  <2>4. QED BY <1>1, <2>1, <2>2, <2>3, BufferKept
<1>2. CASE UNCHANGED receiver
  BY <1>1, <1>2 DEF receiver, DeliveryInd, ReceiverTypes
<1>3. CASE InvokerEnds
  BY <1>1, <1>3 DEF InvokerEnds
<1>4. QED
  BY <1>2, <1>3, AttemptKeeps, TimeOutKeeps, EndKeeps, AdmitKeeps, PutKeeps, UndoKeeps, DispatchKeeps
     DEF DeliveryNext, Refused, allVars

LEMMA DeliveryInvariant == DeliverySpec => []DeliveryInd
BY DeliveryIndInit, DeliveryIndNext, PTL DEF DeliverySpec

\* Every variable keeps its type, the queue its bound and each thread its one request
\* (webhook_receiver.py:96-142).
THEOREM DeliveryTypeCorrect == DeliverySpec => []DeliveryTypeOK
<1>1. RecoveryInd /\ DeliveryInd => DeliveryTypeOK
  BY DEF RecoveryInd, DeliveryInd, ReceiverTypes, DeliveryTypeOK
<1>2. QED BY <1>1, RecoveryInvariant, DeliveryImplementsRecovery, DeliveryInvariant, PTL

\* However many threads handle an event and however late: it is dispatched once
\* (webhook_receiver.py:126-142, message_queue.py:49-76).
THEOREM DispatchesOnce == DeliverySpec => []DispatchedOnce
<1>1. DeliveryInd => DispatchedOnce
  BY DEF DeliveryInd
<1>2. QED BY <1>1, DeliveryInvariant, PTL

\* What was answered 200 was dispatched, is queued or was counted as dropped, or is
\* inside enqueue() of another thread (webhook_receiver.py:126-142).
THEOREM AckedAreSettled == DeliverySpec => []AckedIsSettled
<1>1. DeliveryInd => AckedIsSettled
  BY DEF DeliveryInd, ReceiverTypes, AnsweredIsSettled, Settled, Queued, Held, Underway,
         AckedIsSettled, ToSet
<1>2. QED BY <1>1, DeliveryInvariant, PTL

\* From the platform to the invoker mode "webhook" is the queue's promise, with nothing
\* ever forgotten: in order of acceptance and once each (webhook_receiver.py:96-142,
\* message_queue.py:42-85).
THEOREM DeliveryImplementsChannel == DeliverySpec => DeliversAsChannel
<1>. DEFINE Sent == [e \in Events |-> dispatched[e] + IF e \in ToSet(queue) THEN 1 ELSE 0]
<1>1. DeliveryInit => Channel!Init
  <2>. SUFFICES ASSUME DeliveryInit PROVE Channel!Init
    OBVIOUS
  <2>1. queue = <<>> /\ dispatched = [e \in Events |-> 0] /\ ToSet(queue) = {}
    BY DEF DeliveryInit, ToSet
  <2>2. Sent = [e \in Events |-> 0]
    BY <2>1
  <2>3. QED BY <2>1, <2>2 DEF Channel!Init
<1>2. DeliveryInd /\ [DeliveryNext]_allVars => [Channel!Next]_(Channel!vars)
  <2>. SUFFICES ASSUME DeliveryInd, [DeliveryNext]_allVars
                PROVE  [Channel!Next]_(Channel!vars)
    OBVIOUS
  <2>1. \A e \in Events : e \in ToSet(queue) <=> Queued(e)
    BY DEF DeliveryInd, ReceiverTypes, Queued, ToSet
  <2>2. CASE UNCHANGED <<queue, dispatched>>
    BY <2>2 DEF Channel!vars
  <2>3. ASSUME NEW r \in requests, Put(r), Len(queue) < MaxSize
        PROVE  Channel!Send(r.event)
    <3>1. /\ Underway(r) /\ queue' = Append(queue, r.event) /\ dispatched' = dispatched
      BY <2>3 DEF Put, Underway
    <3>2. r.event \in Events /\ ~Queued(r.event) /\ dispatched[r.event] = 0
      BY <3>1, HolderIsAlone
    <3>3. /\ queue' \in Seq(Events)
          /\ \A o \in Events : Queued(o)' <=> Queued(o) \/ o = r.event
      BY <2>3, <3>1, <3>2, PutQueues DEF DeliveryInd
    <3>4. \A o \in Events : o \in ToSet(queue') <=> o \in ToSet(queue) \/ o = r.event
      BY <2>1, <3>3 DEF Queued, ToSet
    <3>5. Sent[r.event] = 0 /\ Sent' = [Sent EXCEPT ![r.event] = @ + 1]
      BY <2>1, <3>1, <3>2, <3>4
    <3>6. QED BY <2>3, <3>1, <3>2, <3>5 DEF Channel!Send
  <2>4. CASE Dispatch
    <3>. DEFINE h == Head(queue)
    <3>1. /\ h \in Events /\ Queued(h) /\ dispatched[h] = 0
          /\ queue' \in Seq(Events)
          /\ \A e \in Events : Queued(e)' <=> Queued(e) /\ e # h
          /\ \A e \in Events : dispatched'[e] = IF e = h THEN 1 ELSE dispatched[e]
      BY <2>4, DispatchTakes
    <3>2. \A e \in Events : e \in ToSet(queue') <=> e \in ToSet(queue) /\ e # h
      BY <2>1, <3>1 DEF Queued, ToSet
    <3>3. Sent' = Sent
      BY <2>1, <3>1, <3>2
    <3>4. queue # <<>> /\ queue' = Tail(queue) /\ dispatched' = [dispatched EXCEPT ![h] = @ + 1]
      BY <2>4 DEF Dispatch
    <3>5. Channel!Receive
      BY <3>3, <3>4 DEF Channel!Receive
    <3>6. QED BY <3>5 DEF Channel!Next
  <2>5. ASSUME NEW r \in requests, Put(r)
        PROVE  UNCHANGED <<queue, dispatched>> \/ Len(queue) < MaxSize
    BY <2>5 DEF Put
  <2>6. ASSUME NEW r \in requests, Put(r)  PROVE r.event \in Events
    BY DEF DeliveryInd, ReceiverTypes, Request
  <2>7. ASSUME NEW r \in requests, TimeOut(r) \/ Reject(r) \/ Admit(r) \/ Undo(r) \/ Answer(r)
        PROVE  UNCHANGED <<queue, dispatched>>
    BY <2>7 DEF TimeOut, Reject, Admit, Undo, Answer, buffer
  <2>8. (\E e \in Events : Attempt(e)) \/ Refused \/ InvokerEnds \/ UNCHANGED receiver
        \/ UNCHANGED allVars => UNCHANGED <<queue, dispatched>>
    BY DEF Attempt, Refused, InvokerEnds, receiver, allVars, buffer
  <2>9. QED
    BY <2>2, <2>3, <2>4, <2>5, <2>6, <2>7, <2>8 DEF DeliveryNext, Channel!Next
<1>3. QED BY <1>1, <1>2, DeliveryInvariant, PTL DEF DeliverySpec, DeliversAsChannel, Channel!Spec
=============================================================================
