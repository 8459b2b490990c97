---------------------------- MODULE PollerProofs ----------------------------
(***************************************************************************)
(* Proofs about NotificationPoller for any peers and display names, any    *)
(* sizes, any number of messages and crashes.                              *)
(***************************************************************************)
EXTENDS NotificationPoller, SequenceTheorems, WellFoundedInduction, TLAPS

-----------------------------------------------------------------------------
\* A nonempty set of naturals below a bound has a greatest element.
LEMMA MaxIsGreatest ==
  ASSUME NEW b \in Nat, NEW S, S \subseteq 0..b, S # {}
  PROVE  Max(S) \in S /\ \A x \in S : x <= Max(S)
<1>. DEFINE T == {n \in Nat : \A x \in S : x <= n}
<1>1. b \in T /\ T \subseteq Nat
  OBVIOUS
<1>2. PICK n \in T : \A m \in T : ~(<<m, n>> \in OpToRel(<, Nat))
  BY <1>1, NatLessThanWellFounded, WFMin
<1>3. \A m \in T : ~(m < n)
  BY <1>2 DEF OpToRel
<1>4. n \in S
  <2>1. SUFFICES ASSUME n \notin S  PROVE FALSE
    OBVIOUS
  <2>2. \A x \in S : x \in Nat /\ x < n
    BY <2>1
  <2>3. PICK y \in S : TRUE
    OBVIOUS
  <2>4. n \in Nat /\ n - 1 \in Nat /\ \A x \in S : x <= n - 1
    BY <2>2, <2>3
  <2>5. n - 1 \in T /\ n - 1 < n
    BY <2>4
  <2>6. QED BY <1>3, <2>5
<1>5. \A x \in S : n >= x
  OBVIOUS
<1>6. QED BY <1>4, <1>5 DEF Max

-----------------------------------------------------------------------------
(***************************************************************************)
(* What the steps do to queue and window.                                  *)
(***************************************************************************)
LEMMA Lengths == TypeOK => Len(queue) \in Nat /\ Len(posted) \in Nat
BY LenProperties DEF TypeOK

LEMMA EnqueueEffect ==
  ASSUME TypeOK, NEW e \in Keys, Enqueue(e)
  PROVE  /\ queue' \in Seq(Keys) /\ Len(queue') <= MaxSize
         /\ seen' \subseteq Keys /\ rejected' \subseteq Keys
         /\ seen \subseteq seen' /\ rejected \subseteq rejected'
         /\ e \in seen' \cup rejected'
         /\ \/ queue' = queue /\ seen' = seen
            \/ /\ e \notin seen /\ seen' = seen \cup {e}
               /\ Len(queue') = Len(queue) + 1
               /\ queue'[Len(queue) + 1] = e
               /\ \A i \in 1..Len(queue) : queue'[i] = queue[i]
<1>. /\ queue \in Seq(Keys) /\ Len(queue) \in Nat /\ Len(queue) <= MaxSize
     /\ seen \subseteq Keys /\ rejected \subseteq Keys
  BY Lengths DEF TypeOK
<1>. USE PollerAssumption
<1>1. CASE Known(e) /\ UNCHANGED buffer
  BY <1>1 DEF Known, buffer
<1>2. CASE ~Known(e) /\ Room /\ queue' = Append(queue, e) /\ seen' = seen \cup {e} /\ UNCHANGED rejected
  <2>1. /\ queue' \in Seq(Keys) /\ Len(queue') = Len(queue) + 1
        /\ queue'[Len(queue) + 1] = e
        /\ \A i \in 1..Len(queue) : queue'[i] = queue[i]
    BY <1>2, AppendProperties
  <2>2. QED BY <1>2, <2>1 DEF Known, Room
<1>3. CASE ~Known(e) /\ ~Room /\ rejected' = rejected \cup {e} /\ UNCHANGED <<queue, seen>>
  BY <1>3
<1>4. QED BY <1>1, <1>2, <1>3 DEF Enqueue

LEMMA DispatchEffect ==
  ASSUME TypeOK, Dispatch
  PROVE  /\ queue' \in Seq(Keys) /\ Len(queue) \in Nat \ {0} /\ Len(queue') = Len(queue) - 1
         /\ queue[1] \in Keys
         /\ \A i \in 1..Len(queue') : queue'[i] = queue[i + 1]
         /\ invoked' = [invoked EXCEPT ![queue[1]] = @ + 1]
<1>1. queue \in Seq(Keys) /\ queue # <<>>
  BY DEF TypeOK, Dispatch
<1>2. Len(queue) \in Nat \ {0} /\ Head(queue) = queue[1] /\ queue[1] \in Keys
  BY <1>1, EmptySeq, HeadTailProperties
<1>3. /\ Tail(queue) \in Seq(Keys) /\ Len(Tail(queue)) = Len(queue) - 1
      /\ \A i \in 1..Len(Tail(queue)) : Tail(queue)[i] = queue[i + 1]
  BY <1>1, HeadTailProperties
<1>4. QED BY <1>2, <1>3 DEF Dispatch

\* A message that is posted is new; what is known of the others stays.
LEMMA PostEffect ==
  ASSUME TypeOK, NEW p \in Peers, NEW own \in BOOLEAN, Post(p, own)
  PROVE  /\ posted' \in Seq([peer : Peers, own : BOOLEAN])
         /\ Len(posted') = Len(posted) + 1 /\ Len(posted') <= MaxMessages
         /\ \A n \in Posted : posted'[n] = posted[n]
         /\ posted'[Len(posted) + 1] = [peer |-> p, own |-> own]
<1>. DEFINE M == [peer : Peers, own : BOOLEAN]
            m == [peer |-> p, own |-> own]
<1>1. posted \in Seq(M) /\ m \in M /\ Len(posted) \in Nat
  BY Lengths DEF TypeOK
<1>2. posted' = Append(posted, m) /\ Len(posted) < MaxMessages
  BY DEF Post
<1>. HIDE DEF M, m
<1>3. /\ posted' \in Seq(M) /\ Len(posted') = Len(posted) + 1
      /\ \A n \in 1..Len(posted) : posted'[n] = posted[n]
      /\ posted'[Len(posted) + 1] = m
  BY <1>1, <1>2, AppendProperties
<1>4. QED BY <1>1, <1>2, <1>3, PollerAssumption DEF Posted, M, m

\* tail(h) moves the watermark of h to the newest row, and only that.
LEMMA TailEffect ==
  ASSUME TypeOK, NEW h \in Peers
  PROVE  /\ Moved(h, Rows(h)) \in [Peers -> 0..Len(posted)]
         /\ \A p \in Peers : p # h => Moved(h, Rows(h))[p] = watermark[p]
         /\ Moved(h, Rows(h))[h] \in Rows(h) \cup {watermark[h]}
         /\ \A n \in Rows(h) \cup {watermark[h]} : n <= Moved(h, Rows(h))[h]
<1>. Len(posted) \in Nat /\ watermark \in [Peers -> 0..Len(posted)]
  BY Lengths DEF TypeOK
<1>. DEFINE S == Rows(h) \cup {watermark[h]}
<1>1. Len(posted) \in Nat /\ S \subseteq 0..Len(posted) /\ S # {}
  BY DEF Rows, Posted
<1>2. Max(S) \in S /\ \A x \in S : x <= Max(S)
  BY <1>1, MaxIsGreatest
<1>3. Moved(h, Rows(h)) = [watermark EXCEPT ![h] = Max(S)]
  BY DEF Moved
<1>. HIDE DEF S
<1>4. Moved(h, Rows(h)) \in [Peers -> 0..Len(posted)]
  BY <1>1, <1>2, <1>3
<1>5. /\ \A p \in Peers : p # h => Moved(h, Rows(h))[p] = watermark[p]
      /\ Moved(h, Rows(h))[h] = Max(S)
  BY <1>3
<1>6. QED BY <1>2, <1>4, <1>5 DEF S

-----------------------------------------------------------------------------
LEMMA InitTypeOK == Init => TypeOK
<1>. SUFFICES ASSUME Init
              PROVE  TypeOK
  OBVIOUS
<1>1. posted = <<>> /\ Len(posted) = 0 /\ posted \in Seq([peer : Peers, own : BOOLEAN])
  BY DEF Init
<1>2. queue = <<>> /\ Len(queue) = 0 /\ queue \in Seq(Keys)
  BY DEF Init
<1>3. QED BY <1>1, <1>2, PollerAssumption DEF Init, TypeOK, NoWatermark, NothingInvoked

\* The types of what the platform keeps only refer to what has been posted.
PlatformTypes ==
  /\ posted \in Seq([peer : Peers, own : BOOLEAN]) /\ Len(posted) <= MaxMessages
  /\ unread \subseteq Inbound /\ readMsgs \subseteq Posted

PollerTypes ==
  /\ watermark \in [Peers -> 0..Len(posted)]
  /\ self \in {"unset", "known", ""}
  /\ items \subseteq Inbound
  /\ batch \subseteq Keys

BufferTypes ==
  /\ queue \in Seq(Keys) /\ Len(queue) <= MaxSize
  /\ seen \subseteq Keys /\ rejected \subseteq Keys
  /\ invoked \in [Keys -> Nat]
  /\ crashes \in 0..MaxCrashes

LEMMA TypeOKParts == TypeOK <=> PlatformTypes /\ PollerTypes /\ BufferTypes
BY DEF TypeOK, PlatformTypes, PollerTypes, BufferTypes

LEMMA SamePosted ==
  ASSUME UNCHANGED posted
  PROVE  UNCHANGED <<Posted, Inbound>> /\ \A n \in Messages : UNCHANGED PeerOf(n)
BY DEF Posted, Inbound, PeerOf

LEMMA PostedAreMessages == TypeOK => Posted \subseteq Messages /\ Inbound \subseteq Posted
<1>. SUFFICES ASSUME TypeOK  PROVE Posted \subseteq Messages /\ Inbound \subseteq Posted
  OBVIOUS
<1>1. Len(posted) \in Nat /\ Len(posted) <= MaxMessages /\ MaxMessages \in Nat
  BY Lengths, PollerAssumption DEF TypeOK
<1>2. QED BY <1>1 DEF Posted, Inbound, Messages

LEMMA PeersOfPosted == TypeOK => \A n \in Posted : PeerOf(n) \in Peers /\ n \in Nat /\ n > 0
<1>. SUFFICES ASSUME TypeOK, NEW n \in Posted
              PROVE  PeerOf(n) \in Peers /\ n \in Nat /\ n > 0
  OBVIOUS
<1>. DEFINE M == [peer : Peers, own : BOOLEAN]
<1>1. posted \in Seq(M) /\ Len(posted) \in Nat
  BY Lengths DEF TypeOK
<1>2. n \in 1..Len(posted)
  BY DEF Posted
<1>3. posted[n] \in M
  <2>. HIDE DEF M
  <2>1. QED BY <1>1, <1>2, LenProperties
<1>4. QED BY <1>1, <1>2, <1>3 DEF PeerOf

\* A daemon that starts has tailed nothing.
LEMMA NothingTailed == TypeOK => \A n \in Posted : ~(n <= NoWatermark[PeerOf(n)])
<1>. SUFFICES ASSUME TypeOK, NEW n \in Posted
              PROVE  ~(n <= NoWatermark[PeerOf(n)])
  OBVIOUS
<1>1. PeerOf(n) \in Peers /\ n \in Nat /\ n > 0
  BY PeersOfPosted
<1>2. NoWatermark[PeerOf(n)] = 0
  BY <1>1 DEF NoWatermark
<1>3. QED BY <1>1, <1>2

LEMMA NextTypeOK == TypeOK /\ [Next]_vars => TypeOK'
<1>. SUFFICES ASSUME TypeOK, [Next]_vars
              PROVE  PlatformTypes' /\ PollerTypes' /\ BufferTypes'
  BY TypeOKParts DEF TypeOK, PlatformTypes, PollerTypes, BufferTypes
<1>0. PlatformTypes /\ PollerTypes /\ BufferTypes
  BY TypeOKParts
<1>. USE <1>0
<1>. DEFINE Goal == PlatformTypes' /\ PollerTypes' /\ BufferTypes'
<1>1. ASSUME NEW p \in Peers, NEW own \in BOOLEAN, Post(p, own)  PROVE Goal
  <2>1. Len(posted) \in Nat /\ Len(posted') = Len(posted) + 1
    BY <1>1, Lengths, PostEffect
  <2>2. Posted \subseteq Posted' /\ Len(posted) + 1 \in Posted'
    BY <2>1 DEF Posted
  <2>3. Inbound \subseteq Inbound'
    BY <1>1, <2>2, PostEffect DEF Inbound
  <2>4. ~own => Len(posted) + 1 \in Inbound'
    <3>1. posted'[Len(posted) + 1] = [peer |-> p, own |-> own]
      BY <1>1, PostEffect
    <3>2. posted'[Len(posted) + 1].own = own
      BY <3>1
    <3>3. QED BY <2>2, <3>2 DEF Inbound
  <2>5. PlatformTypes'
    BY <1>1, <2>2, <2>3, <2>4, PostEffect DEF Post, PlatformTypes
  <2>6. UNCHANGED <<poller, buffer, invoked, crashes>>
    BY <1>1 DEF Post
  <2>7. watermark' \in [Peers -> 0..Len(posted')]
    <3>1. watermark' = watermark /\ watermark \in [Peers -> 0..Len(posted)]
      BY <2>6 DEF poller, PollerTypes
    <3>2. 0..Len(posted) \subseteq 0..Len(posted')
      BY <2>1
    <3>3. QED BY <3>1, <3>2
  <2>8. PollerTypes' /\ BufferTypes'
    BY <2>3, <2>6, <2>7 DEF poller, buffer, PollerTypes, BufferTypes
  <2>9. QED BY <2>5, <2>8
<1>2. ASSUME UNCHANGED posted, unread' \subseteq Inbound, readMsgs' \subseteq Posted
      PROVE  PlatformTypes'
  BY <1>2, SamePosted DEF PlatformTypes
<1>3. ASSUME UNCHANGED <<posted, poller>>
      PROVE  PollerTypes'
  BY <1>3, SamePosted DEF poller, PollerTypes
<1>4. ASSUME UNCHANGED <<buffer, invoked, crashes>>
      PROVE  BufferTypes'
  BY <1>4 DEF buffer, BufferTypes
<1>5. UNCHANGED platform => PlatformTypes'
  BY <1>2 DEF platform, PlatformTypes
<1>6. ASSUME NEW n \in Messages, ReadMessage(n) \/ ReadNotification(n)  PROVE Goal
  <2>1. unread' \subseteq Inbound /\ readMsgs' \subseteq Posted
    BY <1>6 DEF ReadMessage, ReadNotification, PlatformTypes
  <2>2. UNCHANGED <<posted, poller, buffer, invoked, crashes>>
    BY <1>6 DEF ReadMessage, ReadNotification
  <2>3. QED BY <1>2, <1>3, <1>4, <2>1, <2>2
<1>7. CASE PollNothing \/ UNCHANGED vars
  <2>1. UNCHANGED <<platform, poller, buffer, invoked, crashes>>
    BY <1>7 DEF PollNothing, vars
  <2>2. QED BY <1>3, <1>4, <1>5, <2>1 DEF platform
<1>8. ASSUME UNCHANGED <<platform, buffer, invoked, crashes>>,
             items' \subseteq items \cup unread, batch' \subseteq Keys,
             watermark' \in [Peers -> 0..Len(posted)], self' \in {"unset", "known", ""}
      PROVE  Goal
  <2>1. PollerTypes'
    BY <1>8, SamePosted DEF platform, PollerTypes, PlatformTypes
  <2>2. QED BY <1>4, <1>5, <1>8, <2>1
<1>9. CASE Unread
  BY <1>8, <1>9 DEF Unread, PollerTypes
<1>10. ASSUME NEW h \in Peers, TailEvents(h)  PROVE Goal
  <2>1. \A n \in Posted : <<"msg", n>> \in Keys
    BY PostedAreMessages DEF Keys
  <2>2. batch' \subseteq Keys
    BY <1>10, <2>1 DEF TailEvents, Rows
  <2>3. watermark' \in [Peers -> 0..Len(posted)]
    BY <1>10, TailEffect DEF TailEvents
  <2>4. self' \in {"unset", "known", ""} /\ items' \subseteq items
    BY <1>10 DEF TailEvents, PollerTypes
  <2>5. UNCHANGED <<platform, buffer, invoked, crashes>>
    BY <1>10 DEF TailEvents
  <2>6. QED BY <1>8, <2>2, <2>3, <2>4, <2>5
<1>11. ASSUME NEW ds \in SUBSET Range(Display), Fallback(ds)  PROVE Goal
  <2>1. \A n \in items : <<"ntf", n>> \in Keys
    BY PostedAreMessages DEF Keys, PollerTypes
  <2>2. batch' \subseteq Keys /\ items' \subseteq items
    BY <1>11, <2>1 DEF Fallback, Group
  <2>3. UNCHANGED <<platform, watermark, self, buffer, invoked, crashes>>
    BY <1>11 DEF Fallback
  <2>4. QED BY <1>8, <2>2, <2>3 DEF PollerTypes
<1>12. ASSUME NEW e \in Keys, Enqueue(e), UNCHANGED <<invoked, crashes>>
       PROVE  BufferTypes'
  BY <1>12, EnqueueEffect DEF BufferTypes
<1>13. CASE EnqueueNext
  <2>1. PICK e \in batch : Enqueue(e) /\ batch' = batch \ {e}
    BY <1>13 DEF EnqueueNext
  <2>2. UNCHANGED <<platform, watermark, self, items, invoked, crashes>>
    BY <1>13 DEF EnqueueNext
  <2>3. e \in Keys
    BY DEF PollerTypes
  <2>4. PollerTypes'
    BY <2>1, <2>2, SamePosted DEF platform, PollerTypes
  <2>5. QED BY <1>5, <1>12, <2>1, <2>2, <2>3, <2>4
<1>14. ASSUME NEW n \in Messages, Webhook(n)  PROVE Goal
  <2>1. <<"ntf", n>> \in Keys
    BY DEF Keys
  <2>2. Enqueue(<<"ntf", n>>) /\ UNCHANGED <<platform, poller, invoked, crashes>>
    BY <1>14 DEF Webhook
  <2>3. QED BY <1>3, <1>5, <1>12, <2>1, <2>2 DEF platform
<1>15. CASE Dispatch
  <2>1. UNCHANGED <<platform, poller, seen, rejected, crashes>>
    BY <1>15 DEF Dispatch
  <2>2. invoked' \in [Keys -> Nat]
    BY <1>15, DispatchEffect DEF BufferTypes
  <2>3. BufferTypes'
    BY <1>15, <2>1, <2>2, DispatchEffect, PollerAssumption DEF BufferTypes
  <2>4. QED BY <1>3, <1>5, <2>1, <2>3 DEF platform
<1>16. CASE Crash
  <2>1. queue' = <<>> /\ seen' = {} /\ rejected' = {} /\ UNCHANGED platform
    BY <1>16 DEF Crash
  <2>2. queue' \in Seq(Keys) /\ Len(queue') = 0 /\ invoked' \in [Keys -> Nat]
    BY <1>16, <2>1 DEF Crash, NothingInvoked
  <2>3. crashes' \in 0..MaxCrashes
    BY <1>16, PollerAssumption DEF Crash, BufferTypes
  <2>4. BufferTypes'
    BY <2>1, <2>2, <2>3, PollerAssumption DEF BufferTypes
  <2>5. watermark' \in [Peers -> 0..Len(posted)]
    BY <1>16 DEF Crash, NoWatermark, PlatformTypes
  <2>6. PollerTypes'
    BY <1>16, <2>1, <2>5, SamePosted DEF Crash, platform, PollerTypes
  <2>7. QED BY <1>5, <2>1, <2>4, <2>6
<1>17. QED
  BY <1>1, <1>6, <1>7, <1>9, <1>10, <1>11, <1>13, <1>14, <1>15, <1>16 DEF Next, PollStep

\* Every variable keeps its type, the queue its bound
\* (notification_poller.py:63-267, message_queue.py:42-83).
THEOREM TypeCorrect == Spec => []TypeOK
BY InitTypeOK, NextTypeOK, PTL DEF Spec

-----------------------------------------------------------------------------
(***************************************************************************)
(* OncePerIdentity.  What waits in the queue is recorded and waits once;   *)
(* what waits or is not recorded has not been dispatched in this life.     *)
(***************************************************************************)
Slots     == 1..Len(queue)
Queued(e) == \E i \in Slots : queue[i] = e

QueuedOnce == \A i, j \in Slots : queue[i] = queue[j] => i = j
Recorded   == \A i \in Slots : queue[i] \in seen
Unspent    == \A e \in Keys : (e \notin seen \/ Queued(e)) => invoked[e] = 0

Once == QueuedOnce /\ Recorded /\ Unspent /\ OncePerIdentity

LEMMA EnqueueKeepsOnce ==
  ASSUME TypeOK, Once, NEW e \in Keys, Enqueue(e), UNCHANGED invoked
  PROVE  Once'
<1>1. Len(queue) \in Nat
  BY Lengths
<1>2. CASE queue' = queue /\ seen' = seen
  BY <1>2 DEF Once, QueuedOnce, Recorded, Unspent, OncePerIdentity, Queued, Slots
<1>3. CASE /\ e \notin seen /\ seen' = seen \cup {e}
           /\ Len(queue') = Len(queue) + 1
           /\ queue'[Len(queue) + 1] = e
           /\ \A i \in 1..Len(queue) : queue'[i] = queue[i]
  <2>1. \A i \in Slots' : i \in Slots \/ i = Len(queue) + 1
    BY <1>1, <1>3 DEF Slots
  <2>2. \A i \in Slots : queue'[i] = queue[i] /\ queue[i] # e
    BY <1>3 DEF Slots, Once, Recorded
  <2>3. QueuedOnce' /\ Recorded'
    BY <1>3, <2>1, <2>2 DEF Once, QueuedOnce, Recorded
  <2>4. ASSUME NEW f \in Keys, f \notin seen' \/ Queued(f)'  PROVE f \notin seen \/ Queued(f)
    BY <1>3, <2>1, <2>2, <2>4 DEF Queued
  <2>5. Unspent' /\ OncePerIdentity'
    BY <2>4 DEF Once, Unspent, OncePerIdentity
  <2>6. QED BY <2>3, <2>5 DEF Once
<1>4. QED BY <1>2, <1>3, EnqueueEffect

LEMMA DispatchKeepsOnce ==
  ASSUME TypeOK, Once, Dispatch
  PROVE  Once'
<1>. DEFINE e == queue[1]
<1>1. /\ Len(queue) \in Nat \ {0} /\ Len(queue') = Len(queue) - 1 /\ e \in Keys
      /\ \A i \in 1..Len(queue') : queue'[i] = queue[i + 1]
      /\ invoked' = [invoked EXCEPT ![e] = @ + 1]
      /\ UNCHANGED seen
  BY DispatchEffect DEF Dispatch
<1>2. invoked \in [Keys -> Nat]
  BY TypeOKParts DEF BufferTypes
<1>3. \A i \in Slots' : i \in Nat /\ i + 1 \in Slots /\ queue'[i] = queue[i + 1]
  BY <1>1 DEF Slots
<1>4. 1 \in Slots /\ \A i \in Slots' : queue'[i] # e
  <2>1. 1 \in Slots
    BY <1>1 DEF Slots
  <2>2. \A i \in Slots' : i + 1 # 1
    BY <1>1 DEF Slots
  <2>3. QED BY <1>3, <2>1, <2>2 DEF Once, QueuedOnce
<1>5. QueuedOnce' /\ Recorded'
  BY <1>1, <1>3 DEF Once, QueuedOnce, Recorded
<1>6. invoked[e] = 0 /\ e \in seen
  BY <1>1, <1>4 DEF Once, Unspent, Recorded, Queued
<1>7. \A f \in Keys : f # e => invoked'[f] = invoked[f]
  BY <1>1, <1>2
<1>8. invoked'[e] = invoked[e] + 1
  BY <1>1, <1>2
<1>9. OncePerIdentity'
  BY <1>1, <1>2, <1>6, <1>7, <1>8 DEF Once, OncePerIdentity
<1>10. ASSUME NEW f \in Keys, f \notin seen' \/ Queued(f)'
       PROVE  f # e /\ (f \notin seen \/ Queued(f))
  BY <1>1, <1>3, <1>4, <1>6, <1>10 DEF Queued
<1>11. Unspent'
  BY <1>1, <1>7, <1>10 DEF Once, Unspent
<1>12. QED BY <1>5, <1>9, <1>11 DEF Once

LEMMA NextOnce == TypeOK /\ Once /\ [Next]_vars => Once'
<1>. SUFFICES ASSUME TypeOK, Once, [Next]_vars
              PROVE  Once'
  OBVIOUS
<1>1. ASSUME UNCHANGED <<buffer, invoked>>
      PROVE  Once'
  BY <1>1 DEF buffer, Once, QueuedOnce, Recorded, Unspent, OncePerIdentity, Queued, Slots
<1>2. CASE EnqueueNext
  <2>1. PICK e \in batch : Enqueue(e)
    BY <1>2 DEF EnqueueNext
  <2>2. e \in Keys /\ UNCHANGED invoked
    BY <1>2 DEF EnqueueNext, TypeOK
  <2>3. QED BY <2>1, <2>2, EnqueueKeepsOnce
<1>3. ASSUME NEW n \in Messages, Webhook(n)  PROVE Once'
  <2>1. <<"ntf", n>> \in Keys
    BY DEF Keys
  <2>2. Enqueue(<<"ntf", n>>) /\ UNCHANGED invoked
    BY <1>3 DEF Webhook
  <2>3. QED BY <2>1, <2>2, EnqueueKeepsOnce
<1>4. CASE Dispatch
  BY <1>4, DispatchKeepsOnce
<1>5. CASE Crash
  <2>1. queue' = <<>> /\ invoked' = NothingInvoked
    BY <1>5 DEF Crash
  <2>2. Slots' = {}
    BY <2>1 DEF Slots
  <2>3. \A e \in Keys : invoked'[e] = 0
    BY <2>1 DEF NothingInvoked
  <2>4. QED
    BY <2>2, <2>3 DEF Once, QueuedOnce, Recorded, Unspent, OncePerIdentity, Queued
<1>6. CASE \/ \E p \in Peers, own \in BOOLEAN : Post(p, own)
           \/ \E n \in Messages : ReadMessage(n) \/ ReadNotification(n)
           \/ Unread \/ PollNothing \/ UNCHANGED vars
           \/ \E h \in Peers : TailEvents(h)
           \/ \E ds \in SUBSET Range(Display) : Fallback(ds)
  <2>1. UNCHANGED <<buffer, invoked>>
    BY <1>6 DEF Post, ReadMessage, ReadNotification, Unread, PollNothing, TailEvents,
                Fallback, vars
  <2>2. QED BY <1>1, <2>1
<1>7. QED BY <1>2, <1>3, <1>4, <1>5, <1>6 DEF Next, PollStep

LEMMA OnceInvariant == Spec => []Once
<1>1. Init => Once
  <2>1. SUFFICES ASSUME Init  PROVE Once
    OBVIOUS
  <2>2. queue = <<>> /\ invoked = NothingInvoked
    BY <2>1 DEF Init
  <2>3. Slots = {} /\ \A e \in Keys : invoked[e] = 0
    BY <2>2 DEF Slots, NothingInvoked
  <2>4. QED BY <2>2, <2>3 DEF Once, QueuedOnce, Recorded, Unspent, OncePerIdentity, Queued
<1>2. QED BY <1>1, TypeCorrect, NextOnce, PTL DEF Spec

\* However often and by whatever route an identity of a message arrives, it is
\* dispatched once per life of the daemon (message_queue.py:49-65,
\* notification_poller.py:187-191, webhook_receiver.py:136).
THEOREM DispatchedOncePerLife == Spec => []OncePerIdentity
<1>1. Once => OncePerIdentity
  BY DEF Once
<1>2. QED BY <1>1, OnceInvariant, PTL

-----------------------------------------------------------------------------
(***************************************************************************)
(* TailedIsSettled and OwnOnlyAfterMeFailed.  Both hold step by step: only *)
(* tail() moves a watermark or puts a row into the batch, and an enqueue   *)
(* takes one event out of the batch into the window or the dropped.        *)
(***************************************************************************)
\* A message of our own gets past the poller only in a life whose me() has failed.
OwnOnlyAfterMeFailed ==
  (\E n \in Posted : posted[n].own /\ <<"msg", n>> \in batch \cup seen) => self = ""

\* What a message has that waits under its message id, or was queued under it: a
\* watermark at or above it.
Covered ==
  \A n \in Messages : <<"msg", n>> \in batch \cup seen =>
    n \in Posted /\ n <= watermark[PeerOf(n)]

Settled == TailedIsSettled /\ OwnOnlyAfterMeFailed /\ Covered

\* Posting leaves the earlier messages what they were.
LEMMA PostKeepsSettled ==
  ASSUME TypeOK, Settled, NEW p \in Peers, NEW own \in BOOLEAN, Post(p, own)
  PROVE  Settled'
<1>1. /\ Len(posted) \in Nat /\ Len(posted') = Len(posted) + 1
      /\ \A n \in Posted : posted'[n] = posted[n]
      /\ posted'[Len(posted) + 1] = [peer |-> p, own |-> own]
      /\ Len(posted) < MaxMessages /\ MaxMessages \in Nat
  BY PostEffect, Lengths, PollerAssumption DEF Post
<1>2. UNCHANGED <<watermark, batch, seen, rejected, self, readMsgs>>
  BY DEF Post, poller, buffer
<1>3. /\ \A n \in Posted' : n \in Posted \/ n = Len(posted) + 1
      /\ \A n \in Posted : n \in Posted' /\ PeerOf(n)' = PeerOf(n)
  BY <1>1 DEF Posted, PeerOf
<1>4. posted'[Len(posted) + 1].peer = p /\ watermark[p] \in 0..Len(posted)
  <2>1. posted'[Len(posted) + 1].peer = p
    BY <1>1
  <2>2. QED BY <2>1 DEF TypeOK
<1>5. TailedIsSettled'
  <2>1. SUFFICES ASSUME NEW n \in Inbound', n <= watermark[PeerOf(n)']
                 PROVE  n \in readMsgs \/ <<"msg", n>> \in batch \cup seen \cup rejected
    BY <1>2 DEF TailedIsSettled
  <2>2. CASE n = Len(posted) + 1
    <3>1. PeerOf(n)' = p
      BY <1>4, <2>2 DEF PeerOf
    <3>2. QED BY <1>1, <1>4, <2>1, <2>2, <3>1
  <2>3. CASE n \in Posted
    <3>1. n \in Inbound /\ n <= watermark[PeerOf(n)]
      BY <1>1, <1>3, <2>1, <2>3 DEF Inbound
    <3>2. QED BY <3>1 DEF Settled, TailedIsSettled
  <2>4. QED BY <1>3, <2>2, <2>3 DEF Inbound
<1>6. Len(posted) + 1 \in Messages
  BY <1>1 DEF Messages
<1>7. <<"msg", Len(posted) + 1>> \notin batch \cup seen
  BY <1>1, <1>6 DEF Settled, Covered, Posted
<1>8. OwnOnlyAfterMeFailed' /\ Covered'
  BY <1>1, <1>2, <1>3, <1>7 DEF Settled, OwnOnlyAfterMeFailed, Covered
<1>9. QED BY <1>5, <1>8 DEF Settled

\* The rows of tail(h) that are not read and not known to be ours make the batch.
LEMMA TailKeepsSettled ==
  ASSUME TypeOK, Settled, NEW h \in Peers, TailEvents(h)
  PROVE  Settled'
<1>1. /\ batch = {} /\ UNCHANGED <<posted, readMsgs, seen, rejected>>
      /\ watermark' = Moved(h, Rows(h))
      /\ batch' = {<<"msg", n>> : n \in {r \in Rows(h) \ readMsgs : NotOwn(r, self')}}
      /\ self' \in IF self = "unset" THEN {"known", ""} ELSE {self}
  BY DEF TailEvents, platform, buffer
<1>2. UNCHANGED <<Posted, Inbound>> /\ \A n \in Posted : PeerOf(n)' = PeerOf(n) /\ n \in Messages
  BY <1>1, SamePosted, PostedAreMessages
<1>3. watermark \in [Peers -> 0..Len(posted)] /\ Len(posted) \in Nat
  BY Lengths DEF TypeOK
<1>4. \A n \in Posted : PeerOf(n) \in Peers /\ n \in Nat
  BY PeersOfPosted
<1>5. /\ \A p \in Peers : p # h => watermark'[p] = watermark[p]
      /\ watermark'[h] >= watermark[h]
      /\ \A n \in Rows(h) : n <= watermark'[h]
  BY <1>1, TailEffect
<1>6. TailedIsSettled'
  <2>1. SUFFICES ASSUME NEW n \in Inbound, n <= watermark'[PeerOf(n)], n \notin readMsgs
                 PROVE  <<"msg", n>> \in batch' \cup seen \cup rejected
    BY <1>1, <1>2, PostedAreMessages DEF TailedIsSettled
  <2>2. n \in Posted /\ ~posted[n].own
    BY DEF Inbound
  <2>3. CASE n <= watermark[PeerOf(n)]
    BY <1>1, <2>1, <2>3 DEF Settled, TailedIsSettled
  <2>4. CASE ~(n <= watermark[PeerOf(n)])
    <3>1. PeerOf(n) = h
      BY <1>4, <1>5, <2>1, <2>2, <2>4
    <3>2. n \in Rows(h)
      BY <1>3, <1>4, <2>2, <2>4, <3>1 DEF Rows
    <3>3. NotOwn(n, self')
      BY <2>2 DEF NotOwn
    <3>4. QED BY <1>1, <2>1, <3>2, <3>3
  <2>5. QED BY <2>3, <2>4
<1>7. \A n \in Messages : <<"msg", n>> \in batch' =>
        n \in Rows(h) /\ NotOwn(n, self')
  BY <1>1
<1>8. Covered'
  <2>1. SUFFICES ASSUME NEW n \in Messages, <<"msg", n>> \in batch' \cup seen
                 PROVE  n \in Posted /\ n <= watermark'[PeerOf(n)]
    BY <1>1, <1>2 DEF Covered
  <2>2. CASE <<"msg", n>> \in batch'
    BY <1>5, <1>7, <2>2 DEF Rows
  <2>3. CASE <<"msg", n>> \in seen
    <3>1. n \in Posted /\ n <= watermark[PeerOf(n)]
      BY <2>3 DEF Settled, Covered
    <3>2. PeerOf(n) \in Peers /\ n \in Nat
      BY <1>4, <3>1
    <3>3. watermark[PeerOf(n)] \in Nat /\ watermark'[PeerOf(n)] \in Nat
      <4>1. watermark' \in [Peers -> 0..Len(posted)]
        BY <1>1, TailEffect
      <4>2. QED BY <1>3, <3>2, <4>1
    <3>4. watermark[PeerOf(n)] <= watermark'[PeerOf(n)]
      BY <1>5, <3>2, <3>3
    <3>5. QED BY <3>1, <3>2, <3>3, <3>4
  <2>4. QED BY <2>1, <2>2, <2>3
<1>9. OwnOnlyAfterMeFailed'
  <2>1. SUFFICES ASSUME NEW n \in Posted, posted[n].own, <<"msg", n>> \in batch' \cup seen
                 PROVE  self' = ""
    BY <1>1, <1>2 DEF OwnOnlyAfterMeFailed
  <2>2. CASE <<"msg", n>> \in seen
    <3>1. self = ""
      BY <2>1, <2>2 DEF Settled, OwnOnlyAfterMeFailed
    <3>2. QED BY <1>1, <3>1
  <2>3. CASE <<"msg", n>> \in batch'
    <3>1. self' # "known"
      BY <1>2, <1>7, <2>1, <2>3 DEF NotOwn
    <3>2. self \in {"unset", "known", ""}
      BY DEF TypeOK
    <3>3. QED BY <1>1, <3>1, <3>2
  <2>4. QED BY <2>1, <2>2, <2>3
<1>10. QED BY <1>6, <1>8, <1>9 DEF Settled

LEMMA NextSettled == TypeOK /\ Settled /\ [Next]_vars => Settled'
<1>. SUFFICES ASSUME TypeOK, Settled, [Next]_vars
              PROVE  Settled'
  OBVIOUS
<1>. USE DEF Settled, TailedIsSettled, OwnOnlyAfterMeFailed, Covered
\* Whatever leaves the watermarks alone, only reads messages, and lets rows of tail()
\* go from the batch into the window or the dropped keeps what is settled.
<1>1. ASSUME UNCHANGED <<posted, watermark, self>>, readMsgs \subseteq readMsgs',
             seen \subseteq seen', rejected \subseteq rejected',
             \A n \in Messages :
               /\ <<"msg", n>> \in batch => <<"msg", n>> \in batch' \cup seen' \cup rejected'
               /\ <<"msg", n>> \in batch' \cup seen' => <<"msg", n>> \in batch \cup seen
      PROVE  Settled'
  <2>1. UNCHANGED <<Posted, Inbound>> /\ \A n \in Messages : PeerOf(n)' = PeerOf(n)
    BY <1>1, SamePosted
  <2>2. Posted \subseteq Messages /\ Inbound \subseteq Posted
    BY PostedAreMessages
  <2>3. TailedIsSettled'
    BY <1>1, <2>1, <2>2
  <2>4. OwnOnlyAfterMeFailed' /\ Covered'
    BY <1>1, <2>1, <2>2
  <2>5. QED BY <2>3, <2>4
<1>2. ASSUME NEW p \in Peers, NEW own \in BOOLEAN, Post(p, own)  PROVE Settled'
  BY <1>2, PostKeepsSettled
<1>3. ASSUME NEW h \in Peers, TailEvents(h)  PROVE Settled'
  BY <1>3, TailKeepsSettled
<1>4. CASE \/ \E n \in Messages : ReadMessage(n) \/ ReadNotification(n)
           \/ Unread \/ PollNothing \/ Dispatch \/ UNCHANGED vars
  <2>1. UNCHANGED <<posted, watermark, self, batch, seen, rejected>> /\ readMsgs \subseteq readMsgs'
    BY <1>4 DEF ReadMessage, ReadNotification, Unread, PollNothing, Dispatch, vars, platform,
                poller, buffer
  <2>2. QED BY <1>1, <2>1
<1>5. ASSUME NEW ds \in SUBSET Range(Display), Fallback(ds)  PROVE Settled'
  <2>1. UNCHANGED <<posted, readMsgs, watermark, self, seen, rejected>> /\ batch = {}
    BY <1>5 DEF Fallback, platform, buffer
  <2>2. \A n \in Messages : <<"msg", n>> \notin batch'
    BY <1>5 DEF Fallback
  <2>3. QED BY <1>1, <2>1, <2>2
<1>6. CASE EnqueueNext
  <2>1. PICK e \in batch : Enqueue(e) /\ batch' = batch \ {e}
    BY <1>6 DEF EnqueueNext
  <2>2. UNCHANGED <<posted, readMsgs, watermark, self>> /\ e \in Keys
    BY <1>6 DEF EnqueueNext, platform, TypeOK
  <2>3. /\ seen \subseteq seen' /\ rejected \subseteq rejected' /\ e \in seen' \cup rejected'
        /\ seen' = seen \/ seen' = seen \cup {e}
    BY <2>1, <2>2, EnqueueEffect
  <2>4. QED BY <1>1, <2>1, <2>2, <2>3
<1>7. ASSUME NEW n \in Messages, Webhook(n)  PROVE Settled'
  <2>1. /\ Enqueue(<<"ntf", n>>) /\ <<"ntf", n>> \in Keys
        /\ UNCHANGED <<posted, readMsgs, watermark, self, batch>>
    BY <1>7 DEF Webhook, platform, poller, Keys
  <2>2. /\ seen \subseteq seen' /\ rejected \subseteq rejected'
        /\ seen' = seen \/ seen' = seen \cup {<<"ntf", n>>}
    BY <2>1, EnqueueEffect
  <2>3. QED BY <1>1, <2>1, <2>2
<1>8. CASE Crash
  <2>1. batch' = {} /\ seen' = {} /\ UNCHANGED <<posted, readMsgs>> /\ watermark' = NoWatermark
    BY <1>8 DEF Crash, platform
  <2>2. UNCHANGED <<Posted, Inbound>> /\ \A n \in Messages : PeerOf(n)' = PeerOf(n)
    BY <2>1, SamePosted
  <2>3. \A n \in Posted : ~(n <= NoWatermark[PeerOf(n)])
    BY NothingTailed
  <2>4. TailedIsSettled'
    BY <2>1, <2>2, <2>3, PostedAreMessages
  <2>5. OwnOnlyAfterMeFailed' /\ Covered'
    BY <2>1
  <2>6. QED BY <2>4, <2>5
<1>9. QED BY <1>2, <1>3, <1>4, <1>5, <1>6, <1>7, <1>8 DEF Next, PollStep

LEMMA SettledInvariant == Spec => []Settled
<1>1. Init => Settled
  BY DEF Init, Settled, TailedIsSettled, OwnOnlyAfterMeFailed, Covered, Posted, Inbound
<1>2. QED BY <1>1, TypeCorrect, NextSettled, PTL DEF Spec

\* Every inbound message below the watermark was read, waits, was accepted or was
\* counted as dropped (notification_poller.py:235-260, message_queue.py:42-76).
THEOREM TailedAreSettled == Spec => []TailedIsSettled
<1>1. Settled => TailedIsSettled
  BY DEF Settled
<1>2. QED BY <1>1, SettledInvariant, PTL

\* A message of ours passes only in a life whose me() failed
\* (notification_poller.py:193-249).
THEOREM OwnOnlyAfterFailure == Spec => []OwnOnlyAfterMeFailed
<1>1. Settled => OwnOnlyAfterMeFailed
  BY DEF Settled
<1>2. QED BY <1>1, SettledInvariant, PTL

-----------------------------------------------------------------------------
(***************************************************************************)
(* PeerOrder.  In a life of the daemon the tailed messages of a peer       *)
(* move through three places - the batch, the queue, the invoker - and     *)
(* whatever is further on is older; tail() refills the batch from above    *)
(* the watermark, where nothing of the peer has been.                      *)
(***************************************************************************)
SamePeer(m, n) == m \in Posted /\ n \in Posted /\ PeerOf(m) = PeerOf(n)

Invoked(n) == invoked[<<"msg", n>>] > 0
Waits(n)   == <<"msg", n>> \in batch

InvokedRecorded == \A e \in Keys : invoked[e] > 0 => e \in seen

Ordered ==
  \A m, n \in Messages : SamePeer(m, n) =>
    /\ Invoked(m) /\ Queued(<<"msg", n>>) => m < n
    /\ (Invoked(m) \/ Queued(<<"msg", m>>)) /\ Waits(n) => m < n
    /\ \A i, j \in Slots :
         j < i /\ queue[j] = <<"msg", m>> /\ queue[i] = <<"msg", n>> => m < n

InOrder == InvokedRecorded /\ Ordered

\* Nothing that can be ordered wrongly comes into being.
LEMMA OrderedKept ==
  ASSUME TypeOK, Ordered, UNCHANGED <<queue, invoked>>,
         \A m, n \in Messages : SamePeer(m, n)' /\ (Waits(n)' \/ Queued(<<"msg", n>>)) =>
                                  SamePeer(m, n) \/ ~(Invoked(m) \/ Queued(<<"msg", m>>)),
         \A n \in Messages : Waits(n)' => Waits(n)
  PROVE  Ordered'
<1>1. \A m, n \in Messages, i, j \in Slots : queue[i] = <<"msg", n>> => Queued(<<"msg", n>>)
  BY DEF Queued
<1>2. QED BY <1>1 DEF Ordered, Invoked, Queued, Slots

\* A row appended to the queue is newer than what is there, and older than what waits.
LEMMA EnqueueKeepsOrder ==
  ASSUME TypeOK, Ordered, UNCHANGED <<posted, invoked>>,
         NEW e \in Keys, Enqueue(e),
         batch' \subseteq batch,
         \A n \in Messages : e = <<"msg", n>> =>
            /\ Waits(n)
            /\ \A m \in Messages : Waits(m)' => n < m
  PROVE  Ordered'
<1>1. Len(queue) \in Nat
  BY Lengths
<1>2. \A m, n \in Messages : /\ SamePeer(m, n)' <=> SamePeer(m, n)
                             /\ Invoked(m)' <=> Invoked(m)
                             /\ Waits(m)' => Waits(m)
  BY SamePosted DEF SamePeer, Invoked, Waits
<1>3. CASE queue' = queue
  BY <1>2, <1>3 DEF Ordered, Queued, Slots
<1>4. CASE /\ Len(queue') = Len(queue) + 1
           /\ queue'[Len(queue) + 1] = e
           /\ \A i \in 1..Len(queue) : queue'[i] = queue[i]
  <2>1. \A i \in Slots' : i \in Slots \/ i = Len(queue) + 1
    BY <1>1, <1>4 DEF Slots
  <2>2. \A f \in Keys : Queued(f)' => Queued(f) \/ f = e
    BY <1>4, <2>1 DEF Queued, Slots
  <2>3. \A n \in Messages : <<"msg", n>> \in Keys /\ n \in Nat
    BY DEF Keys, Messages
  <2>4. ASSUME NEW m \in Messages, NEW n \in Messages, SamePeer(m, n),
               Invoked(m), Queued(<<"msg", n>>)'
        PROVE  m < n
    BY <2>2, <2>3, <2>4 DEF Ordered
  <2>5. ASSUME NEW m \in Messages, NEW n \in Messages, SamePeer(m, n),
               Invoked(m) \/ Queued(<<"msg", m>>)', Waits(n)'
        PROVE  m < n
    BY <1>2, <2>2, <2>3, <2>5 DEF Ordered
  <2>6. ASSUME NEW m \in Messages, NEW n \in Messages, SamePeer(m, n),
               NEW i \in Slots', NEW j \in Slots', j < i,
               queue'[j] = <<"msg", m>>, queue'[i] = <<"msg", n>>
        PROVE  m < n
    <3>1. j \in Slots /\ queue[j] = <<"msg", m>>
      BY <1>1, <1>4, <2>1, <2>6 DEF Slots
    <3>2. CASE i \in Slots
      BY <1>4, <2>6, <3>1, <3>2 DEF Ordered, Slots
    <3>3. CASE i = Len(queue) + 1
      BY <1>4, <2>6, <3>1, <3>3 DEF Ordered, Queued
    <3>4. QED BY <2>1, <3>2, <3>3
  <2>7. QED BY <1>2, <2>4, <2>5, <2>6 DEF Ordered
<1>5. QED BY <1>3, <1>4, EnqueueEffect

LEMMA DispatchKeepsOrder ==
  ASSUME TypeOK, Once, Ordered, Dispatch
  PROVE  Ordered'
<1>. DEFINE e == queue[1]
<1>1. /\ Len(queue) \in Nat \ {0} /\ Len(queue') = Len(queue) - 1 /\ e \in Keys
      /\ \A i \in 1..Len(queue') : queue'[i] = queue[i + 1]
      /\ invoked' = [invoked EXCEPT ![e] = @ + 1]
      /\ UNCHANGED <<posted, batch>>
  BY DispatchEffect DEF Dispatch, platform, poller
<1>2. \A m, n \in Messages : (SamePeer(m, n)' <=> SamePeer(m, n)) /\ (Waits(m)' <=> Waits(m))
  BY <1>1, SamePosted DEF SamePeer, Waits
<1>3. \A i \in Slots' : i \in Nat /\ i + 1 \in Slots /\ 1 < i + 1 /\ queue'[i] = queue[i + 1]
  BY <1>1 DEF Slots
<1>4. 1 \in Slots
  BY <1>1 DEF Slots
<1>5. \A m \in Messages : Invoked(m)' => Invoked(m) \/ e = <<"msg", m>>
  <2>1. invoked \in [Keys -> Nat] /\ \A m \in Messages : <<"msg", m>> \in Keys
    BY DEF TypeOK, Keys
  <2>2. \A f \in Keys : f # e => invoked'[f] = invoked[f]
    BY <1>1, <2>1
  <2>3. QED BY <2>1, <2>2 DEF Invoked
<1>6. \A m \in Messages : Queued(<<"msg", m>>)' => Queued(<<"msg", m>>)
  BY <1>3 DEF Queued
<1>7. \A m \in Messages : e = <<"msg", m>> => Queued(<<"msg", m>>)
  BY <1>4 DEF Queued
<1>8. ASSUME NEW m \in Messages, NEW n \in Messages, SamePeer(m, n),
             Invoked(m)', Queued(<<"msg", n>>)'
      PROVE  m < n
  <2>1. CASE Invoked(m)
    BY <1>6, <1>8, <2>1 DEF Ordered
  <2>2. CASE e = <<"msg", m>>
    BY <1>3, <1>4, <1>8, <2>2 DEF Ordered, Queued
  <2>3. QED BY <1>5, <1>8, <2>1, <2>2
<1>9. ASSUME NEW m \in Messages, NEW n \in Messages, SamePeer(m, n),
             Invoked(m)' \/ Queued(<<"msg", m>>)', Waits(n)
      PROVE  m < n
  BY <1>5, <1>6, <1>7, <1>9 DEF Ordered
<1>10. ASSUME NEW m \in Messages, NEW n \in Messages, SamePeer(m, n),
              NEW i \in Slots', NEW j \in Slots', j < i,
              queue'[j] = <<"msg", m>>, queue'[i] = <<"msg", n>>
       PROVE  m < n
  <2>1. j + 1 < i + 1 /\ j + 1 \in Slots /\ i + 1 \in Slots
    BY <1>3, <1>10
  <2>2. QED BY <1>3, <1>10, <2>1 DEF Ordered
<1>11. QED BY <1>2, <1>8, <1>9, <1>10 DEF Ordered

\* The rows tail() returns are newer than all it returned before.
LEMMA TailKeepsOrder ==
  ASSUME TypeOK, Covered, Once, InvokedRecorded, Ordered, NEW h \in Peers, TailEvents(h)
  PROVE  Ordered'
<1>1. UNCHANGED <<posted, queue, invoked>>
  BY DEF TailEvents, platform, buffer
<1>2. \A m, n \in Messages : (SamePeer(m, n)' <=> SamePeer(m, n)) /\ (Invoked(m)' <=> Invoked(m))
  BY <1>1, SamePosted DEF SamePeer, Invoked
<1>3. \A n \in Messages : Waits(n)' => n \in Rows(h)
  BY DEF TailEvents, Waits
<1>4. ASSUME NEW m \in Messages, NEW n \in Messages, SamePeer(m, n),
             Invoked(m) \/ Queued(<<"msg", m>>), Waits(n)'
      PROVE  m < n
  <2>1. <<"msg", m>> \in Keys
    BY DEF Keys
  <2>2. <<"msg", m>> \in seen
    BY <1>4, <2>1 DEF InvokedRecorded, Invoked, Once, Recorded, Queued
  <2>3. m <= watermark[PeerOf(m)]
    BY <2>2 DEF Covered
  <2>4. PeerOf(m) = h /\ n > watermark[h]
    BY <1>3, <1>4 DEF Rows, SamePeer
  <2>5. watermark[h] \in Nat /\ m \in Nat /\ n \in Nat
    <3>1. watermark \in [Peers -> 0..Len(posted)] /\ Len(posted) \in Nat
      BY Lengths DEF TypeOK
    <3>2. QED BY <3>1, PollerAssumption DEF Messages
  <2>6. QED BY <2>3, <2>4, <2>5
<1>5. QED BY <1>1, <1>2, <1>4 DEF Ordered, Queued, Slots

LEMMA NextInOrder ==
  TypeOK /\ Once /\ Covered /\ InOrder /\ [Next]_vars => InOrder'
<1>. SUFFICES ASSUME TypeOK, Once, Covered, InOrder, [Next]_vars
              PROVE  InvokedRecorded' /\ Ordered'
  BY DEF InOrder
<1>1. CASE Crash
  <2>1. queue' = <<>> /\ batch' = {} /\ invoked' = NothingInvoked
    BY <1>1 DEF Crash
  <2>2. Slots' = {} /\ \A e \in Keys : invoked'[e] = 0
    BY <2>1 DEF Slots, NothingInvoked
  <2>3. InvokedRecorded' /\ \A n \in Messages : ~Invoked(n)'
    BY <2>2 DEF InvokedRecorded, Invoked, Keys
  <2>4. QED BY <2>1, <2>2, <2>3 DEF Ordered, Queued, Waits
<1>3. InvokedRecorded /\ Ordered
  BY DEF InOrder
<1>4. ASSUME UNCHANGED <<seen, invoked>>  PROVE InvokedRecorded'
  BY <1>3, <1>4 DEF InvokedRecorded
<1>5. ASSUME UNCHANGED <<posted, batch, queue, invoked>>  PROVE Ordered'
  BY <1>3, <1>5, SamePosted DEF Ordered, SamePeer, Invoked, Waits, Queued, Slots
<1>6. ASSUME NEW p \in Peers, NEW own \in BOOLEAN, Post(p, own)
      PROVE  InvokedRecorded' /\ Ordered'
  <2>1. UNCHANGED <<batch, queue, seen, invoked>>
    BY <1>6 DEF Post, poller, buffer
  <2>2. \A n \in Messages : <<"msg", n>> \in batch \cup seen => n \in Posted
    BY DEF Covered
  <2>3. \A n \in Messages : Waits(n) \/ Queued(<<"msg", n>>) \/ Invoked(n) =>
                             <<"msg", n>> \in batch \cup seen
    BY <1>3 DEF Waits, Queued, Invoked, Once, Recorded, InvokedRecorded, Keys
  <2>4. \A n \in Posted : PeerOf(n)' = PeerOf(n)
    BY <1>6, PostEffect DEF PeerOf
  <2>5. \A n \in Messages : Waits(n)' <=> Waits(n)
    BY <2>1 DEF Waits
  <2>6. \A m, n \in Messages : SamePeer(m, n)' /\ m \in Posted /\ n \in Posted => SamePeer(m, n)
    BY <2>4 DEF SamePeer
  <2>7. Ordered'
    BY <1>3, <2>1, <2>2, <2>3, <2>5, <2>6, OrderedKept
  <2>8. QED BY <1>4, <2>1, <2>7
<1>7. ASSUME NEW h \in Peers, TailEvents(h)  PROVE InvokedRecorded' /\ Ordered'
  <2>1. UNCHANGED <<seen, invoked>>
    BY <1>7 DEF TailEvents, buffer
  <2>2. QED BY <1>3, <1>4, <1>7, <2>1, TailKeepsOrder
<1>8. ASSUME NEW ds \in SUBSET Range(Display), Fallback(ds)
      PROVE  InvokedRecorded' /\ Ordered'
  <2>1. UNCHANGED <<posted, queue, seen, invoked>> /\ \A n \in Messages : ~Waits(n)'
    BY <1>8 DEF Fallback, platform, buffer, Waits
  <2>2. \A m, n \in Messages : SamePeer(m, n)' <=> SamePeer(m, n)
    BY <2>1, SamePosted DEF SamePeer
  <2>3. QED BY <1>3, <1>4, <2>1, <2>2, OrderedKept
<1>9. CASE EnqueueNext
  <2>1. PICK e \in batch : OldestFirst(e) /\ Enqueue(e) /\ batch' = batch \ {e}
    BY <1>9 DEF EnqueueNext
  <2>2. e \in Keys /\ UNCHANGED <<posted, invoked>>
    BY <1>9 DEF EnqueueNext, TypeOK, platform
  <2>3. \A n \in Messages : e = <<"msg", n>> =>
          /\ Waits(n)
          /\ \A m \in Messages : Waits(m)' => n < m
    BY <2>1 DEF OldestFirst, Waits, Messages
  <2>4. Ordered'
    BY <1>3, <2>1, <2>2, <2>3, EnqueueKeepsOrder
  <2>5. InvokedRecorded'
    BY <1>3, <2>1, <2>2, EnqueueEffect DEF InvokedRecorded
  <2>6. QED BY <2>4, <2>5
<1>10. ASSUME NEW n \in Messages, Webhook(n)  PROVE InvokedRecorded' /\ Ordered'
  <2>1. /\ Enqueue(<<"ntf", n>>) /\ <<"ntf", n>> \in Keys
        /\ UNCHANGED <<posted, batch, invoked>>
    BY <1>10 DEF Webhook, platform, poller, Keys
  <2>2. InvokedRecorded'
    BY <1>3, <2>1, EnqueueEffect DEF InvokedRecorded
  <2>3. Ordered'
    BY <1>3, <2>1, EnqueueKeepsOrder
  <2>4. QED BY <2>2, <2>3
<1>11. CASE Dispatch
  <2>1. Ordered'
    BY <1>3, <1>11, DispatchKeepsOrder
  <2>2. /\ invoked' = [invoked EXCEPT ![queue[1]] = @ + 1] /\ seen' = seen
        /\ queue[1] \in Keys /\ 1 \in Slots
    BY <1>11, DispatchEffect DEF Dispatch, Slots
  <2>3. queue[1] \in seen /\ invoked \in [Keys -> Nat]
    BY <2>2 DEF Once, Recorded, TypeOK
  <2>4. InvokedRecorded'
    BY <1>3, <2>2, <2>3 DEF InvokedRecorded
  <2>5. QED BY <2>1, <2>4
<1>12. CASE \/ \E n \in Messages : ReadMessage(n) \/ ReadNotification(n)
            \/ Unread \/ PollNothing \/ UNCHANGED vars
  <2>1. UNCHANGED <<posted, batch, queue, seen, invoked>>
    BY <1>12 DEF ReadMessage, ReadNotification, Unread, PollNothing, vars, platform, poller, buffer
  <2>2. QED BY <1>4, <1>5, <2>1
<1>13. QED
  BY <1>1, <1>6, <1>7, <1>8, <1>9, <1>10, <1>11, <1>12 DEF Next, PollStep

LEMMA InOrderInvariant == Spec => []InOrder
<1>1. Init => InOrder
  <2>1. SUFFICES ASSUME Init  PROVE InvokedRecorded /\ Ordered
    BY DEF InOrder
  <2>2. queue = <<>> /\ batch = {} /\ invoked = NothingInvoked
    BY <2>1 DEF Init
  <2>3. Slots = {} /\ \A e \in Keys : invoked[e] = 0
    BY <2>2 DEF Slots, NothingInvoked
  <2>4. InvokedRecorded /\ \A n \in Messages : ~Invoked(n)
    BY <2>3 DEF InvokedRecorded, Invoked, Keys
  <2>5. QED BY <2>2, <2>3, <2>4 DEF Ordered, Queued, Waits
<1>2. Settled => Covered
  BY DEF Settled
<1>3. QED
  BY <1>1, <1>2, TypeCorrect, OnceInvariant, SettledInvariant, NextInOrder, PTL DEF Spec

\* The tailed messages of a peer stay in order from tail() to the invoker, whatever is
\* dropped on the way or parsed beside them (notification_poller.py:187-260,
\* message_queue.py:63-83).
THEOREM PeersInOrder == Spec => []PeerOrder
<1>1. TypeOK /\ InOrder => PeerOrder
  <2>1. SUFFICES ASSUME TypeOK, InOrder, NEW p \in Peers,
                        NEW i \in 1..Len(queue), NEW n \in Tailed(p), queue[i] = <<"msg", n>>,
                        NEW m \in Tailed(p)
                 PROVE  /\ invoked[<<"msg", m>>] > 0 => m < n
                        /\ <<"msg", m>> \in batch => n < m
                        /\ \A j \in 1..(i - 1) : queue[j] = <<"msg", m>> => m < n
    BY DEF PeerOrder
  <2>2. m \in Messages /\ n \in Messages /\ SamePeer(m, n) /\ SamePeer(n, m)
    BY <2>1, PostedAreMessages DEF Tailed, SamePeer
  <2>3. i \in Slots /\ Queued(<<"msg", n>>)
    BY <2>1 DEF Slots, Queued
  <2>4. \A j \in 1..(i - 1) : j \in Slots /\ j < i
    BY <2>1, Lengths DEF Slots
  <2>5. Ordered
    BY <2>1 DEF InOrder
  <2>6. QED BY <2>1, <2>2, <2>3, <2>4, <2>5 DEF Ordered, Invoked, Waits
<1>2. QED BY <1>1, TypeCorrect, InOrderInvariant, PTL
=============================================================================
