---------------------------- MODULE MessageQueue ----------------------------
(***************************************************************************)
(* The bounded, deduplicating queue between the daemon's producers (the    *)
(* poller thread and the webhook handler threads) and its single consumer  *)
(* (the AgentInvoker thread): daemon/message_queue.py.                     *)
(*                                                                         *)
(* An event is abstracted to its dedup_key.  enqueue() takes the lock,     *)
(* records the key in the window and RELEASES the lock before it calls     *)
(* put_nowait(); on queue.Full it takes the lock again to undo the record. *)
(* Those are three separate steps here, so that another thread can run     *)
(* between any two of them.                                                *)
(***************************************************************************)
EXTENDS Integers, FiniteSets, SequencesExt

CONSTANTS Producers,    \* threads that call enqueue()
          Keys,         \* dedup keys
          MaxSize,      \* queue_maxsize
          Window,       \* dedup_window
          MaxOffers,    \* bound: number of calls of enqueue() in a behaviour
          NoKey         \* the producer has no call in progress

ASSUME QueueAssumption == /\ IsFiniteSet(Producers)
                          /\ MaxSize \in Nat \ {0}
                          /\ Window \in Nat \ {0}
                          /\ MaxOffers \in Nat
                          /\ NoKey \notin Keys

VARIABLES queue,        \* _q
          seenOrder,    \* _seen_order, oldest record first
          seenSet,      \* _seen_set
          pc,           \* where each producer stands in enqueue()
          event,        \* the key of the event each producer is enqueueing
          droppedDup,   \* _dropped_dup
          droppedFull,  \* _dropped_full
          offers,       \* history: calls of enqueue() so far
          accepted,     \* history: copies of each key put in the queue
          evictions,    \* history: times the window pushed each key out
          delivered     \* history: copies of each key handed to the consumer

window  == <<seenOrder, seenSet>>
ledger  == <<offers, accepted, evictions, delivered>>
vars    == <<queue, window, pc, event, droppedDup, droppedFull, ledger>>

-----------------------------------------------------------------------------
Init ==
  /\ queue = <<>>
  /\ seenOrder = <<>>
  /\ seenSet = {}
  /\ pc = [p \in Producers |-> "idle"]
  /\ event = [p \in Producers |-> NoKey]
  /\ droppedDup = 0
  /\ droppedFull = 0
  /\ offers = 0
  /\ accepted = [k \in Keys |-> 0]
  /\ evictions = [k \in Keys |-> 0]
  /\ delivered = [k \in Keys |-> 0]

\* A call of enqueue() by an idle producer, at the point where it takes the lock.
Call(p) ==
  /\ pc[p] = "idle"
  /\ offers < MaxOffers
  /\ offers' = offers + 1

\* The key is in the window: the call returns False.
DropDup(p, k) ==
  /\ Call(p)
  /\ k \in seenSet
  /\ droppedDup' = droppedDup + 1
  /\ UNCHANGED <<queue, window, pc, event, droppedFull, accepted, evictions, delivered>>

\* The key is new: it is recorded, pushing the oldest record out of a full
\* window, and the lock is released with the event not yet in the queue.
WindowFullTooLate == Len(seenOrder) > Window    \* mutant: off by one

WindowFull == Len(seenOrder) = Window

\* Mutant: the record falls off the deque and stays in the set.
RecordLeavesKey(k) ==
  /\ seenOrder' = Append(IF WindowFull THEN Tail(seenOrder) ELSE seenOrder, k)
  /\ seenSet' = seenSet \cup {k}
  /\ UNCHANGED evictions

Record(k) ==
  IF WindowFull
    THEN /\ seenOrder' = Append(Tail(seenOrder), k)
         /\ seenSet' = (seenSet \ {Head(seenOrder)}) \cup {k}
         /\ evictions' = [evictions EXCEPT ![Head(seenOrder)] = @ + 1]
    ELSE /\ seenOrder' = Append(seenOrder, k)
         /\ seenSet' = seenSet \cup {k}
         /\ UNCHANGED evictions

Admit(p, k) ==
  /\ Call(p)
  /\ k \notin seenSet
  /\ Record(k)
  /\ pc' = [pc EXCEPT ![p] = "put"]
  /\ event' = [event EXCEPT ![p] = k]
  /\ UNCHANGED <<queue, droppedDup, droppedFull, accepted, delivered>>

\* Mutant: the admission is undone in a `finally`, so also after a success.
PutAcceptedUndone(p) ==
  /\ pc[p] = "put"
  /\ Len(queue) < MaxSize
  /\ queue' = Append(queue, event[p])
  /\ accepted' = [accepted EXCEPT ![event[p]] = @ + 1]
  /\ seenSet' = seenSet \ {event[p]}
  /\ seenOrder' = RemoveFirst(seenOrder, event[p])
  /\ pc' = [pc EXCEPT ![p] = "idle"]
  /\ event' = [event EXCEPT ![p] = NoKey]
  /\ UNCHANGED <<droppedDup, droppedFull, offers, evictions, delivered>>

\* Mutant: a deque with a maxlen for a queue, which makes room by losing the oldest.
PutAcceptedLosing(p) ==
  /\ pc[p] = "put"
  /\ queue' = Append(IF Len(queue) < MaxSize THEN queue ELSE Tail(queue), event[p])
  /\ accepted' = [accepted EXCEPT ![event[p]] = @ + 1]
  /\ pc' = [pc EXCEPT ![p] = "idle"]
  /\ event' = [event EXCEPT ![p] = NoKey]
  /\ UNCHANGED <<window, droppedDup, droppedFull, offers, evictions, delivered>>

\* put_nowait() finds room: the call returns True.
PutAccepted(p) ==
  /\ pc[p] = "put"
  /\ Len(queue) < MaxSize
  /\ queue' = Append(queue, event[p])
  /\ accepted' = [accepted EXCEPT ![event[p]] = @ + 1]
  /\ pc' = [pc EXCEPT ![p] = "idle"]
  /\ event' = [event EXCEPT ![p] = NoKey]
  /\ UNCHANGED <<window, droppedDup, droppedFull, offers, evictions, delivered>>

\* put_nowait() raises queue.Full; the lock is not held yet.
PutFull(p) ==
  /\ pc[p] = "put"
  /\ Len(queue) >= MaxSize
  /\ pc' = [pc EXCEPT ![p] = "rollback"]
  /\ UNCHANGED <<queue, window, event, droppedDup, droppedFull, ledger>>

\* Mutant: the admission of a rejected event is not undone.
RollbackForgotten(p) ==
  /\ pc[p] = "rollback"
  /\ droppedFull' = droppedFull + 1
  /\ pc' = [pc EXCEPT ![p] = "idle"]
  /\ event' = [event EXCEPT ![p] = NoKey]
  /\ UNCHANGED <<queue, window, droppedDup, ledger>>

\* The admission is undone under the lock (deque.remove() of an absent key is
\* suppressed): the call returns False.
Rollback(p) ==
  /\ pc[p] = "rollback"
  /\ seenSet' = seenSet \ {event[p]}
  /\ seenOrder' = RemoveFirst(seenOrder, event[p])
  /\ droppedFull' = droppedFull + 1
  /\ pc' = [pc EXCEPT ![p] = "idle"]
  /\ event' = [event EXCEPT ![p] = NoKey]
  /\ UNCHANGED <<queue, droppedDup, ledger>>

\* Mutant: a LifoQueue.
DequeueNewest ==
  /\ queue # <<>>
  /\ delivered' = [delivered EXCEPT ![Last(queue)] = @ + 1]
  /\ queue' = Front(queue)
  /\ UNCHANGED <<window, pc, event, droppedDup, droppedFull, offers, accepted, evictions>>

\* dequeue() returns the oldest event, or None when its timeout expires on an
\* empty queue.
Dequeue ==
  /\ queue # <<>>
  /\ delivered' = [delivered EXCEPT ![Head(queue)] = @ + 1]
  /\ queue' = Tail(queue)
  /\ UNCHANGED <<window, pc, event, droppedDup, droppedFull, offers, accepted, evictions>>

DequeueEmpty ==
  /\ queue = <<>>
  /\ UNCHANGED vars

Next ==
  \/ \E p \in Producers, k \in Keys : DropDup(p, k) \/ Admit(p, k)
  \/ \E p \in Producers : PutAccepted(p) \/ PutFull(p) \/ Rollback(p)
  \/ Dequeue
  \/ DequeueEmpty

Spec == Init /\ [][Next]_vars

\* The threads the process owns keep running; nobody is obliged to call enqueue().
Fairness ==
  /\ WF_vars(Dequeue)
  /\ \A p \in Producers : WF_vars(PutAccepted(p) \/ PutFull(p) \/ Rollback(p))

FairSpec == Spec /\ Fairness

-----------------------------------------------------------------------------
InFlight(k) == {p \in Producers : pc[p] # "idle" /\ event[p] = k}

\* The variables have their types; the queue and the window never outgrow their bounds.
TypeOK ==
  /\ queue \in Seq(Keys)
  /\ Len(queue) <= MaxSize
  /\ seenOrder \in Seq(Keys)
  /\ Len(seenOrder) <= Window
  /\ seenSet \subseteq Keys
  /\ pc \in [Producers -> {"idle", "put", "rollback"}]
  /\ event \in [Producers -> Keys \cup {NoKey}]
  /\ \A p \in Producers : pc[p] # "idle" => event[p] \in Keys
  /\ droppedDup \in Nat
  /\ droppedFull \in Nat
  /\ offers \in Nat
  /\ accepted \in [Keys -> Nat]
  /\ evictions \in [Keys -> Nat]
  /\ delivered \in [Keys -> Nat]

\* The deque and the set that enqueue() updates separately (admission, eviction
\* and rollback each touch both) always hold the same keys, each of them once.
WindowInSync ==
  /\ seenSet = ToSet(seenOrder)
  /\ \A i, j \in 1..Len(seenOrder) : seenOrder[i] = seenOrder[j] => i = j

\* The dedup promise with its price: however the threads interleave, every copy
\* of a key beyond the first - queued, or about to be - was paid for by the window
\* having pushed that key out.  An undone admission never buys a second copy.
OneCopyPerEviction ==
  \A k \in Keys :
    accepted[k] + Cardinality(InFlight(k))
      <= evictions[k] + (IF k \in seenSet THEN 1 ELSE 0)

\* A rejected event leaves no trace: once its call has ended, a key is in the
\* window only if a copy of it was really queued, so that a later retry of an
\* event dropped on a full queue is not mistaken for a duplicate.
NoPhantomRecord ==
  \A k \in seenSet : accepted[k] > 0 \/ InFlight(k) # {}

\* With a window as large as the set of keys in play the queue takes each event
\* at most once, whatever is rejected and retried in between.
AtMostOnceWithinWindow ==
  Cardinality(Keys) <= Window => \A k \in Keys : accepted[k] <= 1

\* The window forgets a key only under the pressure of events that got through:
\* calls rejected on a full queue push records out of the window too before they
\* undo their own, yet all but one record per producer stand for accepted events.
ForgettingIsEarned ==
  [][\A k \in Keys :
       evictions'[k] # evictions[k] =>
         Cardinality({j \in seenSet \ {k} : accepted[j] > 0})
           >= Window - Cardinality(Producers)]_vars

\* Every queued copy reaches the consumer.
EveryCopyDelivered ==
  \A k \in Keys : \A n \in 1..MaxOffers : accepted[k] >= n ~> delivered[k] >= n

-----------------------------------------------------------------------------
\* What is promised to the rest of the daemon, stated without threads or window.
Channel == INSTANCE DedupChannel WITH
             Capacity <- MaxSize,
             channel <- queue, sent <- accepted, forgets <- evictions, received <- delivered

\* The queue implements the deduplicating channel: put_nowait() is the send, the
\* eviction inside an admission is the forgetting, the consumer keeps receiving.
ImplementsChannel == Channel!FairSpec
=============================================================================
