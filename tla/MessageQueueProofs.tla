------------------------- MODULE MessageQueueProofs -------------------------
(***************************************************************************)
(* Proofs about MessageQueue for any number of producer threads, any set   *)
(* of keys and any sizes of queue and window.                              *)
(***************************************************************************)
EXTENDS MessageQueue, SequenceTheorems, FiniteSetTheorems, TLAPS

-----------------------------------------------------------------------------
\* Removing a key from a deque that holds every key at most once: the rest keeps
\* its order and nothing else is lost.
LEMMA RemoveFirstProperties ==
  ASSUME NEW S, NEW s \in Seq(S), NEW k,
         \A i, j \in 1..Len(s) : s[i] = s[j] => i = j
  PROVE  LET t == RemoveFirst(s, k)
         IN  /\ t \in Seq(S)
             /\ Len(t) <= Len(s)
             /\ ToSet(t) = ToSet(s) \ {k}
             /\ \A i, j \in 1..Len(t) : t[i] = t[j] => i = j
<1>1. CASE ~ \E i \in 1..Len(s) : s[i] = k
  BY <1>1 DEF RemoveFirst, ToSet
<1>2. CASE \E i \in 1..Len(s) : s[i] = k
  <2>1. PICK n \in 1..Len(s) : s[n] = k
    BY <1>2
  <2>2. SelectInSeq(s, LAMBDA v : v = k) = n
    BY <2>1 DEF SelectInSeq, Min
  <2>. DEFINE front == SubSeq(s, 1, n - 1)
              back  == SubSeq(s, n + 1, Len(s))
              t     == front \o back
  <2>3. RemoveFirst(s, k) = t
    BY <1>2, <2>2 DEF RemoveFirst, RemoveAt
  <2>4. /\ front \in Seq(S)
        /\ Len(front) = n - 1
        /\ \A i \in 1..(n - 1) : front[i] = s[i]
    BY SubSeqProperties
  <2>5. /\ back \in Seq(S)
        /\ Len(back) = Len(s) - n
        /\ \A i \in 1..(Len(s) - n) : back[i] = s[n + i]
    BY SubSeqProperties
  <2>. HIDE DEF front, back
  <2>6. /\ t \in Seq(S)
        /\ Len(t) = Len(s) - 1
        /\ \A i \in 1..(Len(s) - 1) : t[i] = IF i <= n - 1 THEN front[i] ELSE back[i - (n - 1)]
    BY <2>4, <2>5, ConcatProperties
  <2>. HIDE DEF t
  <2>7. ASSUME NEW i \in 1..(Len(s) - 1)  PROVE  t[i] = IF i < n THEN s[i] ELSE s[i + 1]
    <3>1. CASE i < n
      BY <2>4, <2>6, <3>1
    <3>2. CASE ~(i < n)
      <4>1. i - (n - 1) \in 1..(Len(s) - n) /\ n + (i - (n - 1)) = i + 1
        BY <3>2
      <4>2. QED BY <2>5, <2>6, <3>2, <4>1
    <3>3. QED BY <3>1, <3>2
  <2>8. ToSet(t) = ToSet(s) \ {k}
    <3>1. ASSUME NEW i \in 1..(Len(s) - 1)  PROVE  t[i] \in ToSet(s) \ {k}
      BY <2>1, <2>7 DEF ToSet
    <3>2. ASSUME NEW i \in 1..Len(s), s[i] # k
          PROVE  \E j \in 1..(Len(s) - 1) : t[j] = s[i]
      <4>1. CASE i < n
        BY <4>1, <2>7
      <4>2. CASE i > n
        <5>1. i - 1 \in 1..(Len(s) - 1) /\ ~(i - 1 < n)
          BY <4>2
        <5>2. t[i - 1] = s[i]
          BY <5>1, <2>7
        <5>3. QED BY <5>1, <5>2
      <4>3. QED BY <2>1, <3>2, <4>1, <4>2
    <3>3. DOMAIN t = 1..(Len(s) - 1) /\ DOMAIN s = 1..Len(s)
      BY <2>6, LenProperties
    <3>4. ToSet(t) \subseteq ToSet(s) \ {k}
      BY <3>1, <3>3 DEF ToSet
    <3>5. ToSet(s) \ {k} \subseteq ToSet(t)
      BY <3>2, <3>3 DEF ToSet
    <3>6. QED BY <3>4, <3>5
  <2>9. ASSUME NEW i \in 1..Len(t), NEW j \in 1..Len(t), t[i] = t[j]  PROVE  i = j
    <3>1. i \in 1..(Len(s) - 1) /\ j \in 1..(Len(s) - 1)
      BY <2>6
    <3>2. DEFINE at(m) == IF m < n THEN m ELSE m + 1
    <3>3. at(i) \in 1..Len(s) /\ at(j) \in 1..Len(s) /\ t[i] = s[at(i)] /\ t[j] = s[at(j)]
      BY <2>7, <3>1
    <3>4. at(i) = at(j)
      BY <2>9, <3>3
    <3>5. QED BY <3>1, <3>4
  <2>10. Len(t) <= Len(s)
    BY <2>6
  <2>11. QED BY <2>3, <2>6, <2>8, <2>9, <2>10
<1>3. QED BY <1>1, <1>2

\* Appending a new key to a deque without repetitions.
LEMMA AppendNew ==
  ASSUME NEW S, NEW s \in Seq(S), NEW k \in S \ ToSet(s),
         \A i, j \in 1..Len(s) : s[i] = s[j] => i = j
  PROVE  /\ Append(s, k) \in Seq(S)
         /\ Len(Append(s, k)) = Len(s) + 1
         /\ ToSet(Append(s, k)) = ToSet(s) \cup {k}
         /\ \A i, j \in 1..Len(Append(s, k)) : Append(s, k)[i] = Append(s, k)[j] => i = j
<1>1. /\ Append(s, k) \in Seq(S)
      /\ Len(Append(s, k)) = Len(s) + 1
      /\ \A i \in 1..(Len(s) + 1) : Append(s, k)[i] = IF i = Len(s) + 1 THEN k ELSE s[i]
  OBVIOUS
<1>2. \A i \in 1..Len(s) : s[i] # k
  BY DEF ToSet
<1>3. QED BY <1>1, <1>2 DEF ToSet

\* Dropping the oldest key of a deque without repetitions.
LEMMA TailOfDistinct ==
  ASSUME NEW S, NEW s \in Seq(S), s # <<>>,
         \A i, j \in 1..Len(s) : s[i] = s[j] => i = j
  PROVE  /\ Head(s) \in S
         /\ Tail(s) \in Seq(S)
         /\ Len(Tail(s)) = Len(s) - 1
         /\ ToSet(Tail(s)) = ToSet(s) \ {Head(s)}
         /\ \A i, j \in 1..Len(Tail(s)) : Tail(s)[i] = Tail(s)[j] => i = j
<1>1. /\ Head(s) = s[1] /\ Head(s) \in S
      /\ Tail(s) \in Seq(S)
      /\ Len(Tail(s)) = Len(s) - 1
      /\ \A i \in 1..(Len(s) - 1) : Tail(s)[i] = s[i + 1]
  BY HeadTailProperties
<1>2. ASSUME NEW i \in 1..Len(s), s[i] # Head(s)
      PROVE  i - 1 \in 1..Len(Tail(s)) /\ Tail(s)[i - 1] = s[i]
  <2>1. i # 1
    BY <1>1, <1>2
  <2>2. QED BY <1>1, <2>1
<1>3. \A i \in 1..Len(Tail(s)) : Tail(s)[i] \in ToSet(s) \ {Head(s)}
  BY <1>1 DEF ToSet
<1>4. ToSet(Tail(s)) \subseteq ToSet(s) \ {Head(s)}
  BY <1>1, <1>3, LenProperties DEF ToSet
<1>5. ToSet(s) \ {Head(s)} \subseteq ToSet(Tail(s))
  <2>1. SUFFICES ASSUME NEW x \in ToSet(s), x # Head(s)
                 PROVE  x \in ToSet(Tail(s))
    OBVIOUS
  <2>2. PICK i \in 1..Len(s) : s[i] = x
    BY LenProperties DEF ToSet
  <2>3. i - 1 \in DOMAIN Tail(s) /\ Tail(s)[i - 1] = x
    BY <1>1, <1>2, <2>1, <2>2, LenProperties
  <2>4. QED BY <2>3 DEF ToSet
<1>6. \A i, j \in 1..Len(Tail(s)) : Tail(s)[i] = Tail(s)[j] => i = j
  BY <1>1
<1>7. QED BY <1>1, <1>4, <1>5, <1>6

-----------------------------------------------------------------------------
\* An admission keeps the window typed, bounded, in sync and free of repetitions,
\* whether or not it pushes a record out.
LEMMA RecordKeepsWindow ==
  ASSUME TypeOK, WindowInSync, NEW k \in Keys, k \notin seenSet, Record(k)
  PROVE  /\ seenOrder' \in Seq(Keys)
         /\ Len(seenOrder') <= Window
         /\ seenSet' \subseteq Keys
         /\ evictions' \in [Keys -> Nat]
         /\ WindowInSync'
<1>. USE QueueAssumption
<1>1. /\ seenOrder \in Seq(Keys)
      /\ Len(seenOrder) <= Window
      /\ evictions \in [Keys -> Nat]
      /\ seenSet \subseteq Keys
      /\ seenSet = ToSet(seenOrder)
      /\ \A i, j \in 1..Len(seenOrder) : seenOrder[i] = seenOrder[j] => i = j
  BY DEF TypeOK, WindowInSync
<1>2. CASE WindowFull
  <2>1. seenOrder # <<>>
    BY <1>1, <1>2 DEF WindowFull
  <2>2. /\ Head(seenOrder) \in Keys
        /\ Tail(seenOrder) \in Seq(Keys)
        /\ Len(Tail(seenOrder)) = Len(seenOrder) - 1
        /\ ToSet(Tail(seenOrder)) = seenSet \ {Head(seenOrder)}
        /\ \A i, j \in 1..Len(Tail(seenOrder)) : Tail(seenOrder)[i] = Tail(seenOrder)[j] => i = j
    BY <1>1, <2>1, TailOfDistinct
  <2>3. /\ seenOrder' = Append(Tail(seenOrder), k)
        /\ seenSet' = (seenSet \ {Head(seenOrder)}) \cup {k}
        /\ evictions' = [evictions EXCEPT ![Head(seenOrder)] = @ + 1]
    BY <1>2 DEF Record
  <2>4. k \in Keys \ ToSet(Tail(seenOrder))
    BY <2>2
  <2>5. /\ seenOrder' \in Seq(Keys)
        /\ Len(seenOrder') = Len(seenOrder)
        /\ ToSet(seenOrder') = seenSet'
        /\ \A i, j \in 1..Len(seenOrder') : seenOrder'[i] = seenOrder'[j] => i = j
    <3>. DEFINE tail == Tail(seenOrder)
    <3>1. /\ tail \in Seq(Keys)
          /\ Len(tail) = Len(seenOrder) - 1
          /\ k \in Keys \ ToSet(tail)
          /\ \A i, j \in 1..Len(tail) : tail[i] = tail[j] => i = j
      BY <2>2, <2>4
    <3>2. seenOrder' = Append(tail, k) /\ seenSet' = ToSet(tail) \cup {k}
      BY <2>2, <2>3
    <3>. HIDE DEF tail
    <3>3. /\ Append(tail, k) \in Seq(Keys)
          /\ Len(Append(tail, k)) = Len(tail) + 1
          /\ ToSet(Append(tail, k)) = ToSet(tail) \cup {k}
          /\ \A i, j \in 1..Len(Append(tail, k)) :
               Append(tail, k)[i] = Append(tail, k)[j] => i = j
      BY <3>1, AppendNew
    <3>4. Len(seenOrder) \in Nat
      BY <1>1, LenProperties
    <3>5. QED BY <3>1, <3>2, <3>3, <3>4
  <2>6. evictions' \in [Keys -> Nat]
    BY <1>1, <2>2, <2>3
  <2>7. QED BY <1>1, <2>2, <2>3, <2>5, <2>6 DEF WindowInSync
<1>3. CASE ~WindowFull
  <2>1. /\ seenOrder' = Append(seenOrder, k)
        /\ seenSet' = seenSet \cup {k}
        /\ evictions' = evictions
    BY <1>3 DEF Record
  <2>2. /\ seenOrder' \in Seq(Keys)
        /\ Len(seenOrder') = Len(seenOrder) + 1
        /\ ToSet(seenOrder') = seenSet'
        /\ \A i, j \in 1..Len(seenOrder') : seenOrder'[i] = seenOrder'[j] => i = j
    BY <1>1, <2>1, AppendNew
  <2>3. Len(seenOrder') <= Window
    BY <1>1, <1>3, <2>2 DEF WindowFull
  <2>4. QED BY <1>1, <2>1, <2>2, <2>3 DEF WindowInSync
<1>4. QED BY <1>2, <1>3

\* So does undoing one.
LEMMA RollbackKeepsWindow ==
  ASSUME TypeOK, WindowInSync, NEW p \in Producers, Rollback(p)
  PROVE  /\ seenOrder' \in Seq(Keys)
         /\ Len(seenOrder') <= Window
         /\ seenSet' \subseteq Keys
         /\ WindowInSync'
<1>1. /\ seenOrder \in Seq(Keys)
      /\ Len(seenOrder) <= Window
      /\ seenSet \subseteq Keys
      /\ seenSet = ToSet(seenOrder)
      /\ \A i, j \in 1..Len(seenOrder) : seenOrder[i] = seenOrder[j] => i = j
  BY DEF TypeOK, WindowInSync
<1>2. /\ seenOrder' = RemoveFirst(seenOrder, event[p])
      /\ seenSet' = seenSet \ {event[p]}
  BY DEF Rollback
<1>3. /\ seenOrder' \in Seq(Keys)
      /\ Len(seenOrder') <= Len(seenOrder)
      /\ ToSet(seenOrder') = ToSet(seenOrder) \ {event[p]}
      /\ \A i, j \in 1..Len(seenOrder') : seenOrder'[i] = seenOrder'[j] => i = j
  BY <1>1, <1>2, RemoveFirstProperties
<1>4. Len(seenOrder') <= Window
  BY <1>1, <1>3, QueueAssumption
<1>5. QED BY <1>1, <1>2, <1>3, <1>4 DEF WindowInSync

-----------------------------------------------------------------------------
TypedWindow == TypeOK /\ WindowInSync

\* Types and the agreement of deque and set hold of a new queue
LEMMA InitTypedWindow == Init => TypedWindow
BY QueueAssumption DEF Init, TypedWindow, TypeOK, WindowInSync, ToSet

\* and are kept by every step: together they are inductive.
LEMMA NextTypedWindow == TypedWindow /\ [Next]_vars => TypedWindow'
<1>. SUFFICES ASSUME TypeOK, WindowInSync, [Next]_vars
              PROVE  TypedWindow'
  BY DEF TypedWindow
<1>. USE QueueAssumption
<1>1. ASSUME NEW p \in Producers, NEW k \in Keys, DropDup(p, k)
      PROVE  TypedWindow'
  BY <1>1 DEF DropDup, Call, TypedWindow, TypeOK, WindowInSync, window
<1>2. ASSUME NEW p \in Producers, NEW k \in Keys, Admit(p, k)
      PROVE  TypedWindow'
  <2>1. /\ seenOrder' \in Seq(Keys)
        /\ Len(seenOrder') <= Window
        /\ seenSet' \subseteq Keys
        /\ evictions' \in [Keys -> Nat]
        /\ WindowInSync'
    BY <1>2, RecordKeepsWindow DEF Admit
  <2>2. QED BY <1>2, <2>1 DEF Admit, Call, TypedWindow, TypeOK
<1>3. ASSUME NEW p \in Producers, PutAccepted(p)
      PROVE  TypedWindow'
  <2>1. event[p] \in Keys
    BY <1>3 DEF PutAccepted, TypeOK
  <2>2. queue' \in Seq(Keys) /\ Len(queue') <= MaxSize
    BY <1>3, <2>1 DEF PutAccepted, TypeOK
  <2>3. QED BY <1>3, <2>1, <2>2 DEF PutAccepted, TypedWindow, TypeOK, WindowInSync, window
<1>4. ASSUME NEW p \in Producers, PutFull(p)
      PROVE  TypedWindow'
  BY <1>4 DEF PutFull, TypedWindow, TypeOK, WindowInSync, window, ledger
<1>5. ASSUME NEW p \in Producers, Rollback(p)
      PROVE  TypedWindow'
  <2>1. /\ seenOrder' \in Seq(Keys)
        /\ Len(seenOrder') <= Window
        /\ seenSet' \subseteq Keys
        /\ WindowInSync'
    BY <1>5, RollbackKeepsWindow
  <2>2. QED BY <1>5, <2>1 DEF Rollback, TypedWindow, TypeOK, ledger
<1>6. CASE Dequeue
  <2>1. /\ Head(queue) \in Keys
        /\ queue' \in Seq(Keys)
        /\ Len(queue') <= MaxSize
    BY <1>6, HeadTailProperties DEF Dequeue, TypeOK
  <2>2. delivered' \in [Keys -> Nat]
    BY <1>6, <2>1 DEF Dequeue, TypeOK
  <2>3. QED BY <1>6, <2>1, <2>2 DEF Dequeue, TypedWindow, TypeOK, WindowInSync, window
<1>7. CASE UNCHANGED vars
  BY <1>7 DEF vars, window, ledger, TypedWindow, TypeOK, WindowInSync
<1>8. QED
  BY <1>1, <1>2, <1>3, <1>4, <1>5, <1>6, <1>7 DEF Next, DequeueEmpty

\* Types, and the bounds of queue and window (message_queue.py:35-36).
THEOREM TypeCorrect == Spec => []TypeOK
<1>1. Spec => []TypedWindow
  BY InitTypedWindow, NextTypedWindow, PTL DEF Spec
<1>2. TypedWindow => TypeOK
  BY DEF TypedWindow
<1>3. QED BY <1>1, <1>2, PTL

\* The deque and the set of the window never drift apart (message_queue.py:49-62, 71-74).
THEOREM WindowStaysInSync == Spec => []WindowInSync
<1>1. Spec => []TypedWindow
  BY InitTypedWindow, NextTypedWindow, PTL DEF Spec
<1>2. TypedWindow => WindowInSync
  BY DEF TypedWindow
<1>3. QED BY <1>1, <1>2, PTL

-----------------------------------------------------------------------------
\* What each step of enqueue() does to the set of calls in flight for a key.
\* Only finitely many calls are in flight.
LEMMA InFlightFinite ==
  ASSUME NEW k
  PROVE  /\ IsFiniteSet(InFlight(k)) /\ Cardinality(InFlight(k)) \in Nat
         /\ IsFiniteSet(InFlight(k)') /\ Cardinality(InFlight(k)') \in Nat
<1>1. InFlight(k) \in SUBSET Producers /\ InFlight(k)' \in SUBSET Producers
  BY DEF InFlight
<1>2. QED BY <1>1, FS_Subset, FS_CardinalityType, QueueAssumption

\* An admission adds one call in flight for its key and none for another.
LEMMA AdmitInFlight ==
  ASSUME TypeOK, NEW p \in Producers, NEW k \in Keys, Admit(p, k), NEW j \in Keys
  PROVE  Cardinality(InFlight(j)') = Cardinality(InFlight(j)) + (IF j = k THEN 1 ELSE 0)
<1>1. /\ pc[p] = "idle"
      /\ pc' = [pc EXCEPT ![p] = "put"]
      /\ event' = [event EXCEPT ![p] = k]
      /\ pc \in [Producers -> {"idle", "put", "rollback"}]
      /\ event \in [Producers -> Keys \cup {NoKey}]
  BY DEF Admit, Call, TypeOK
<1>2. CASE j = k
  <2>1. InFlight(j)' = InFlight(j) \cup {p} /\ p \notin InFlight(j)
    BY <1>1, <1>2 DEF InFlight
  <2>2. QED BY <1>2, <2>1, InFlightFinite, FS_AddElement
<1>3. CASE j # k
  <2>1. InFlight(j)' = InFlight(j)
    BY <1>1, <1>3 DEF InFlight
  <2>2. QED BY <1>3, <2>1, InFlightFinite
<1>4. QED BY <1>2, <1>3

\* A call that returns is in flight no more.
LEMMA ReturnInFlight ==
  ASSUME TypeOK, NEW p \in Producers, pc[p] # "idle", NEW j \in Keys,
         pc' = [pc EXCEPT ![p] = "idle"], event' = [event EXCEPT ![p] = NoKey]
  PROVE  Cardinality(InFlight(j)') = Cardinality(InFlight(j)) - (IF j = event[p] THEN 1 ELSE 0)
<1>1. /\ pc \in [Producers -> {"idle", "put", "rollback"}]
      /\ event \in [Producers -> Keys \cup {NoKey}]
  BY DEF TypeOK
<1>2. CASE j = event[p]
  <2>1. InFlight(j)' = InFlight(j) \ {p} /\ p \in InFlight(j)
    BY <1>1, <1>2 DEF InFlight
  <2>2. QED BY <1>2, <2>1, InFlightFinite, FS_RemoveElement
<1>3. CASE j # event[p]
  <2>1. InFlight(j)' = InFlight(j)
    BY <1>1, <1>3 DEF InFlight
  <2>2. QED BY <1>3, <2>1, InFlightFinite
<1>4. QED BY <1>2, <1>3

\* A step that moves nobody in or out of enqueue() changes no set of calls in flight.
LEMMA UnchangedInFlight ==
  ASSUME TypeOK, NEW j \in Keys,
         \/ UNCHANGED <<pc, event>>
         \/ \E p \in Producers : PutFull(p)
  PROVE  InFlight(j)' = InFlight(j)
<1>1. CASE UNCHANGED <<pc, event>>
  BY <1>1 DEF InFlight
<1>2. CASE \E p \in Producers : PutFull(p)
  BY <1>2 DEF PutFull, InFlight, TypeOK
<1>3. QED BY <1>1, <1>2

-----------------------------------------------------------------------------
\* The balance of OneCopyPerEviction for one key.
Copies(k) == accepted[k] + Cardinality(InFlight(k))
Credit(k) == evictions[k] + (IF k \in seenSet THEN 1 ELSE 0)

\* No step makes more copies of a key, queued or in flight, than its evictions and its
\* record in the window account for.
LEMMA BalanceStep ==
  ASSUME TypedWindow, OneCopyPerEviction, [Next]_vars, NEW j \in Keys
  PROVE  Copies(j)' <= Credit(j)'
<1>. USE QueueAssumption
<1>1. /\ TypeOK /\ WindowInSync /\ TypeOK'
      /\ accepted[j] \in Nat /\ evictions[j] \in Nat
      /\ Cardinality(InFlight(j)) \in Nat
      /\ Copies(j) <= Credit(j)
  BY NextTypedWindow, InFlightFinite DEF TypedWindow, TypeOK, OneCopyPerEviction, Copies, Credit
<1>2. ASSUME NEW p \in Producers, NEW k \in Keys, DropDup(p, k)
      PROVE  Copies(j)' <= Credit(j)'
  <2>1. InFlight(j)' = InFlight(j)
    BY <1>1, <1>2, UnchangedInFlight DEF DropDup
  <2>2. QED BY <1>1, <1>2, <2>1 DEF DropDup, Copies, Credit, window
<1>3. ASSUME NEW p \in Producers, NEW k \in Keys, Admit(p, k)
      PROVE  Copies(j)' <= Credit(j)'
  <2>1. /\ accepted' = accepted
        /\ k \notin seenSet
        /\ Record(k)
        /\ evictions \in [Keys -> Nat]
        /\ seenSet = ToSet(seenOrder)
        /\ seenOrder \in Seq(Keys)
    BY <1>1, <1>3 DEF Admit, TypeOK, WindowInSync
  <2>2. Cardinality(InFlight(j)') = Cardinality(InFlight(j)) + (IF j = k THEN 1 ELSE 0)
    BY <1>1, <1>3, AdmitInFlight
  <2>3. CASE WindowFull
    <3>1. Head(seenOrder) \in Keys /\ Head(seenOrder) \in seenSet
      <4>1. seenOrder # <<>>
        BY <2>1, <2>3 DEF WindowFull
      <4>2. 1 \in DOMAIN seenOrder /\ Head(seenOrder) = seenOrder[1]
        BY <2>1, <4>1
      <4>3. QED BY <2>1, <4>1, <4>2, HeadTailProperties DEF ToSet
    <3>2. /\ seenSet' = (seenSet \ {Head(seenOrder)}) \cup {k}
          /\ evictions' = [evictions EXCEPT ![Head(seenOrder)] = @ + 1]
      BY <2>1, <2>3 DEF Record
    <3>3. QED BY <1>1, <2>1, <2>2, <3>1, <3>2 DEF Copies, Credit
  <2>4. CASE ~WindowFull
    <3>1. seenSet' = seenSet \cup {k} /\ evictions' = evictions
      BY <2>1, <2>4 DEF Record
    <3>2. QED BY <1>1, <2>1, <2>2, <3>1 DEF Copies, Credit
  <2>5. QED BY <2>3, <2>4
<1>4. ASSUME NEW p \in Producers, PutAccepted(p)
      PROVE  Copies(j)' <= Credit(j)'
  <2>1. Cardinality(InFlight(j)') = Cardinality(InFlight(j)) - (IF j = event[p] THEN 1 ELSE 0)
    BY <1>1, <1>4, ReturnInFlight DEF PutAccepted
  <2>2. accepted'[j] = accepted[j] + (IF j = event[p] THEN 1 ELSE 0)
    BY <1>1, <1>4 DEF PutAccepted, TypeOK
  <2>3. UNCHANGED <<seenSet, evictions>>
    BY <1>4 DEF PutAccepted, window
  <2>4. QED BY <1>1, <2>1, <2>2, <2>3 DEF Copies, Credit
<1>5. ASSUME NEW p \in Producers, PutFull(p)
      PROVE  Copies(j)' <= Credit(j)'
  <2>1. InFlight(j)' = InFlight(j)
    BY <1>1, <1>5, UnchangedInFlight
  <2>2. QED BY <1>1, <1>5, <2>1 DEF PutFull, Copies, Credit, window, ledger
<1>6. ASSUME NEW p \in Producers, Rollback(p)
      PROVE  Copies(j)' <= Credit(j)'
  <2>1. Cardinality(InFlight(j)') = Cardinality(InFlight(j)) - (IF j = event[p] THEN 1 ELSE 0)
    BY <1>1, <1>6, ReturnInFlight DEF Rollback
  <2>2. UNCHANGED <<accepted, evictions>> /\ seenSet' = seenSet \ {event[p]}
    BY <1>6 DEF Rollback, ledger
  <2>3. QED BY <1>1, <2>1, <2>2 DEF Copies, Credit
<1>7. CASE Dequeue
  <2>1. InFlight(j)' = InFlight(j)
    BY <1>1, <1>7, UnchangedInFlight DEF Dequeue
  <2>2. QED BY <1>1, <1>7, <2>1 DEF Dequeue, Copies, Credit, window
<1>8. CASE UNCHANGED vars
  <2>1. InFlight(j)' = InFlight(j)
    BY <1>1, <1>8, UnchangedInFlight DEF vars
  <2>2. QED BY <1>1, <1>8, <2>1 DEF vars, Copies, Credit, window, ledger
<1>9. QED
  BY <1>2, <1>3, <1>4, <1>5, <1>6, <1>7, <1>8 DEF Next, DequeueEmpty

\* A new queue holds no copy of any key.
LEMMA InitBalance == Init => OneCopyPerEviction
<1>1. SUFFICES ASSUME Init, NEW k \in Keys
               PROVE  accepted[k] + Cardinality(InFlight(k))
                        <= evictions[k] + (IF k \in seenSet THEN 1 ELSE 0)
  BY DEF OneCopyPerEviction
<1>2. InFlight(k) = {}
  BY <1>1 DEF Init, InFlight
<1>3. QED BY <1>1, <1>2, FS_EmptySet DEF Init

\* However the producers interleave, each further copy of an event was paid for by
\* an eviction of its key (message_queue.py:42-76).
THEOREM DedupHolds == Spec => []OneCopyPerEviction
<1>. DEFINE Ind == TypedWindow /\ OneCopyPerEviction
<1>1. Init => Ind
  BY InitTypedWindow, InitBalance
<1>2. Ind /\ [Next]_vars => Ind'
  <2>1. SUFFICES ASSUME TypedWindow, OneCopyPerEviction, [Next]_vars
                 PROVE  OneCopyPerEviction'
    BY NextTypedWindow
  <2>2. QED BY <2>1, BalanceStep DEF OneCopyPerEviction, Copies, Credit
<1>3. Ind => OneCopyPerEviction
  OBVIOUS
<1>4. QED BY <1>1, <1>2, <1>3, PTL DEF Spec

-----------------------------------------------------------------------------
\* No step leaves a record without a queued copy or a call in flight.
LEMMA PhantomStep ==
  ASSUME TypedWindow, NoPhantomRecord, [Next]_vars, NEW j \in seenSet'
  PROVE  accepted'[j] > 0 \/ InFlight(j)' # {}
<1>. USE QueueAssumption
<1>1. /\ TypeOK /\ j \in Keys /\ seenSet \subseteq Keys
      /\ accepted \in [Keys -> Nat]
      /\ pc \in [Producers -> {"idle", "put", "rollback"}]
      /\ event \in [Producers -> Keys \cup {NoKey}]
  BY NextTypedWindow DEF TypedWindow, TypeOK
<1>2. ASSUME j \in seenSet  PROVE  accepted[j] > 0 \/ InFlight(j) # {}
  BY <1>2 DEF NoPhantomRecord
<1>3. ASSUME NEW p \in Producers, NEW k \in Keys, DropDup(p, k)
      PROVE  accepted'[j] > 0 \/ InFlight(j)' # {}
  BY <1>1, <1>2, <1>3, UnchangedInFlight DEF DropDup, window
<1>4. ASSUME NEW p \in Producers, NEW k \in Keys, Admit(p, k)
      PROVE  accepted'[j] > 0 \/ InFlight(j)' # {}
  <2>1. InFlight(j) \subseteq InFlight(j)'
    BY <1>1, <1>4 DEF Admit, Call, InFlight
  <2>2. p \in InFlight(k)'
    BY <1>1, <1>4 DEF Admit, InFlight
  <2>3. j = k \/ j \in seenSet
    BY <1>4 DEF Admit, Record
  <2>4. accepted' = accepted
    BY <1>4 DEF Admit
  <2>5. QED BY <1>2, <2>1, <2>2, <2>3, <2>4
<1>5. ASSUME NEW p \in Producers, PutAccepted(p)
      PROVE  accepted'[j] > 0 \/ InFlight(j)' # {}
  <2>1. j \in seenSet /\ event[p] \in Keys
    BY <1>1, <1>5 DEF PutAccepted, window, TypeOK
  <2>2. CASE j = event[p]
    BY <1>1, <1>5, <2>2 DEF PutAccepted
  <2>3. CASE j # event[p]
    <3>1. InFlight(j)' = InFlight(j) /\ accepted'[j] = accepted[j]
      BY <1>1, <1>5, <2>1, <2>3 DEF PutAccepted, InFlight
    <3>2. QED BY <1>2, <2>1, <3>1
  <2>4. QED BY <2>2, <2>3
<1>6. ASSUME NEW p \in Producers, PutFull(p)
      PROVE  accepted'[j] > 0 \/ InFlight(j)' # {}
  BY <1>1, <1>2, <1>6, UnchangedInFlight DEF PutFull, window, ledger
<1>7. ASSUME NEW p \in Producers, Rollback(p)
      PROVE  accepted'[j] > 0 \/ InFlight(j)' # {}
  <2>1. j \in seenSet /\ j # event[p] /\ accepted' = accepted
    BY <1>7 DEF Rollback, ledger
  <2>2. InFlight(j)' = InFlight(j)
    BY <1>1, <1>7, <2>1 DEF Rollback, InFlight
  <2>3. QED BY <1>2, <2>1, <2>2
<1>8. CASE Dequeue
  BY <1>1, <1>2, <1>8, UnchangedInFlight DEF Dequeue, window
<1>9. CASE UNCHANGED vars
  BY <1>1, <1>2, <1>9, UnchangedInFlight DEF vars, window, ledger
<1>10. QED
  BY <1>3, <1>4, <1>5, <1>6, <1>7, <1>8, <1>9 DEF Next, DequeueEmpty

\* The invariant that rules out records without a copy, over whole behaviours.
LEMMA PhantomInductive ==
  /\ Init => TypedWindow /\ NoPhantomRecord
  /\ TypedWindow /\ NoPhantomRecord /\ [Next]_vars => (TypedWindow /\ NoPhantomRecord)'
<1>1. Init => NoPhantomRecord
  BY DEF Init, NoPhantomRecord
<1>2. ASSUME TypedWindow, NoPhantomRecord, [Next]_vars  PROVE  NoPhantomRecord'
  BY <1>2, PhantomStep DEF NoPhantomRecord
<1>3. QED BY <1>1, <1>2, InitTypedWindow, NextTypedWindow

\* An event rejected on a full queue can be offered again: no record outlives its
\* call without a queued copy (message_queue.py:66-76).
THEOREM RejectionLeavesNoRecord == Spec => []NoPhantomRecord
<1>1. Spec => [](TypedWindow /\ NoPhantomRecord)
  BY PhantomInductive, PTL DEF Spec
<1>2. QED BY <1>1, PTL

-----------------------------------------------------------------------------
\* A window of distinct keys holds as many keys as records.
LEMMA WindowCardinality ==
  ASSUME TypedWindow
  PROVE  IsFiniteSet(seenSet) /\ Cardinality(seenSet) = Len(seenOrder)
<1>1. /\ seenOrder \in Seq(Keys)
      /\ seenSet = ToSet(seenOrder)
      /\ \A i, j \in 1..Len(seenOrder) : seenOrder[i] = seenOrder[j] => i = j
  BY DEF TypedWindow, TypeOK, WindowInSync
<1>2. Len(seenOrder) \in Nat /\ DOMAIN seenOrder = 1..Len(seenOrder)
  BY <1>1, LenProperties
<1>3. seenOrder \in Bijection(1..Len(seenOrder), seenSet)
  <2>1. seenOrder \in [1..Len(seenOrder) -> seenSet]
    BY <1>1, <1>2, LenProperties DEF ToSet
  <2>2. seenOrder \in Injection(1..Len(seenOrder), seenSet)
    BY <1>1, <2>1 DEF Injection, IsInjective
  <2>3. seenOrder \in Surjection(1..Len(seenOrder), seenSet)
    BY <1>1, <1>2, <2>1 DEF Surjection, ToSet
  <2>4. QED BY <2>2, <2>3 DEF Bijection
<1>4. IsFiniteSet(1..Len(seenOrder)) /\ Cardinality(1..Len(seenOrder)) = Len(seenOrder)
  <2>. DEFINE n == Len(seenOrder)
  <2>1. n \in Nat
    BY <1>2
  <2>. HIDE DEF n
  <2>2. IsFiniteSet(1..n) /\ Cardinality(1..n) = n
    BY <2>1, FS_Interval
  <2>3. QED BY <2>2 DEF n
<1>5. QED BY <1>3, <1>4, FS_Bijection DEF ExistsBijection

\* A step that pushes a key out starts from a full window and pushes out its oldest.
LEMMA EvictionStep ==
  ASSUME TypedWindow, [Next]_vars, NEW k \in Keys, evictions'[k] # evictions[k]
  PROVE  /\ \E p \in Producers : pc[p] = "idle"
         /\ Len(seenOrder) = Window
         /\ k \in seenSet
         /\ \E j \in Keys : j \notin seenSet
<1>1. /\ seenOrder \in Seq(Keys)
      /\ seenSet = ToSet(seenOrder)
      /\ evictions \in [Keys -> Nat]
  BY DEF TypedWindow, TypeOK, WindowInSync
<1>2. PICK p \in Producers, j \in Keys : Admit(p, j)
  BY DEF Next, vars, ledger, DropDup, PutAccepted, PutFull, Rollback, Dequeue, DequeueEmpty
<1>3. WindowFull
  BY <1>2 DEF Admit, Record
<1>4. evictions' = [evictions EXCEPT ![Head(seenOrder)] = @ + 1]
  BY <1>2, <1>3 DEF Admit, Record
<1>5. k = Head(seenOrder)
  BY <1>1, <1>4
<1>6. k \in seenSet
  <2>1. seenOrder # <<>>
    BY <1>1, <1>3, QueueAssumption DEF WindowFull
  <2>2. 1 \in DOMAIN seenOrder /\ Head(seenOrder) = seenOrder[1]
    BY <1>1, <2>1
  <2>3. QED BY <1>1, <1>5, <2>2 DEF ToSet
<1>7. QED BY <1>2, <1>3, <1>6 DEF Admit, Call, WindowFull

\* Of the other keys in a full window, all but one for each producer were accepted.
LEMMA EarnedStep ==
  ASSUME TypedWindow, NoPhantomRecord, [Next]_vars,
         NEW k \in Keys, evictions'[k] # evictions[k]
  PROVE  Cardinality({j \in seenSet \ {k} : accepted[j] > 0})
           >= Window - Cardinality(Producers)
<1>. USE QueueAssumption
<1>. DEFINE others  == seenSet \ {k}
            settled == {j \in others : accepted[j] > 0}
            pending == others \ settled
<1>1. PICK p \in Producers : pc[p] = "idle"
  BY EvictionStep
<1>2. IsFiniteSet(others) /\ Cardinality(others) = Window - 1
  <2>1. k \in seenSet /\ IsFiniteSet(seenSet) /\ Cardinality(seenSet) = Window
    BY EvictionStep, WindowCardinality
  <2>2. QED BY <2>1, FS_RemoveElement
<1>3. \A j \in pending : InFlight(j) # {}
  BY DEF NoPhantomRecord
<1>4. IsFiniteSet(Producers \ {p}) /\ Cardinality(Producers \ {p}) = Cardinality(Producers) - 1
  BY <1>1, FS_RemoveElement
<1>5. IsFiniteSet(pending) /\ Cardinality(pending) <= Cardinality(Producers \ {p})
  <2>. DEFINE owner == [j \in pending |-> CHOOSE q \in Producers : q \in InFlight(j)]
  <2>1. \A j \in pending : /\ owner[j] \in Producers
                           /\ event[owner[j]] = j
                           /\ pc[owner[j]] # "idle"
    BY <1>3 DEF InFlight
  <2>2. owner \in [pending -> Producers \ {p}]
    BY <1>1, <2>1
  <2>3. owner \in Injection(pending, Producers \ {p})
    BY <2>1, <2>2 DEF Injection, IsInjective
  <2>4. QED BY <1>4, <2>3, FS_Injection
<1>6. IsFiniteSet(settled) /\ Cardinality(settled) = Cardinality(others) - Cardinality(pending)
  <2>1. settled = others \ pending /\ others \cap pending = pending
    OBVIOUS
  <2>. HIDE DEF others, settled, pending
  <2>2. /\ IsFiniteSet(others \ pending)
        /\ Cardinality(others \ pending) = Cardinality(others) - Cardinality(others \cap pending)
    BY <1>2, FS_Difference
  <2>3. QED BY <2>1, <2>2
<1>7. /\ Cardinality(pending) \in Nat /\ Cardinality(settled) \in Nat
      /\ Cardinality(Producers) \in Nat
  BY <1>5, <1>6, FS_CardinalityType
<1>8. QED BY <1>2, <1>4, <1>5, <1>6, <1>7

\* Rejected calls cannot wipe the window: what it forgets was displaced by accepted
\* events, but for one record per producer (message_queue.py:55-62).
THEOREM ForgettingEarned == Spec => ForgettingIsEarned
<1>1. TypedWindow /\ NoPhantomRecord /\ [Next]_vars =>
        [\A k \in Keys : evictions'[k] # evictions[k] =>
           Cardinality({j \in seenSet \ {k} : accepted[j] > 0})
             >= Window - Cardinality(Producers)]_vars
  BY EarnedStep
<1>2. QED BY <1>1, PhantomInductive, PTL DEF Spec, ForgettingIsEarned

-----------------------------------------------------------------------------
\* While every key fits in the window nothing is ever pushed out of it.
NothingForgotten == \A k \in Keys : evictions[k] = 0

\* In a window that has room for every key, no step forgets one.
LEMMA LargeWindowStep ==
  ASSUME IsFiniteSet(Keys), Cardinality(Keys) <= Window,
         TypedWindow, NothingForgotten, [Next]_vars
  PROVE  NothingForgotten'
<1>1. SUFFICES ASSUME NEW k \in Keys, evictions'[k] # evictions[k]
               PROVE  FALSE
  BY DEF NothingForgotten
<1>2. seenSet \in SUBSET Keys /\ seenSet # Keys /\ Cardinality(seenSet) = Window
  BY <1>1, EvictionStep, WindowCardinality DEF TypedWindow, TypeOK
<1>3. Cardinality(seenSet) <= Cardinality(Keys) /\ Cardinality(seenSet) # Cardinality(Keys)
  BY <1>2, FS_Subset
<1>4. Cardinality(Keys) \in Nat /\ Window \in Nat
  BY FS_CardinalityType, QueueAssumption
<1>5. QED BY <1>2, <1>3, <1>4

\* With a window as large as the set of keys every event is queued at most once
\* (message_queue.py:1-14).
THEOREM AtMostOnce ==
  ASSUME IsFiniteSet(Keys)
  PROVE  Spec => []AtMostOnceWithinWindow
<1>1. CASE Cardinality(Keys) <= Window
  <2>1. Init => NothingForgotten
    BY DEF Init, NothingForgotten
  <2>2. TypedWindow /\ NothingForgotten /\ [Next]_vars => NothingForgotten'
    BY <1>1, LargeWindowStep
  <2>3. Spec => [](TypedWindow /\ NothingForgotten)
    BY <2>1, <2>2, InitTypedWindow, NextTypedWindow, PTL DEF Spec
  <2>4. TypedWindow /\ NothingForgotten /\ OneCopyPerEviction => AtMostOnceWithinWindow
    <3>1. SUFFICES ASSUME TypedWindow, NothingForgotten, OneCopyPerEviction, NEW k \in Keys
                   PROVE  accepted[k] <= 1
      BY DEF AtMostOnceWithinWindow
    <3>2. /\ accepted[k] \in Nat
          /\ Cardinality(InFlight(k)) \in Nat
          /\ evictions[k] = 0
          /\ accepted[k] + Cardinality(InFlight(k))
               <= evictions[k] + (IF k \in seenSet THEN 1 ELSE 0)
      BY <3>1, InFlightFinite DEF TypedWindow, TypeOK, NothingForgotten, OneCopyPerEviction
    <3>3. QED BY <3>2
  <2>5. QED BY <2>3, <2>4, DedupHolds, PTL
<1>2. CASE ~(Cardinality(Keys) <= Window)
  <2>1. AtMostOnceWithinWindow
    BY <1>2 DEF AtMostOnceWithinWindow
  <2>2. QED BY <2>1, PTL
<1>3. QED BY <1>1, <1>2

-----------------------------------------------------------------------------
\* Every step of the queue is a step of the deduplicating channel, or none.
LEMMA ChannelStep ==
  ASSUME TypedWindow, OneCopyPerEviction, [Next]_vars
  PROVE  [Channel!Next]_(Channel!vars)
<1>. USE QueueAssumption DEF Channel!Next, Channel!vars
<1>1. TypeOK
  BY DEF TypedWindow
<1>2. ASSUME NEW p \in Producers, NEW k \in Keys, DropDup(p, k)
      PROVE  [Channel!Next]_(Channel!vars)
  BY <1>2 DEF DropDup
<1>3. ASSUME NEW p \in Producers, NEW k \in Keys, Admit(p, k)
      PROVE  [Channel!Next]_(Channel!vars)
  <2>1. CASE WindowFull
    <3>1. Head(seenOrder) \in Keys
      BY <1>1, <2>1, HeadTailProperties DEF WindowFull, TypeOK
    <3>2. Channel!Forget(Head(seenOrder))
      BY <1>3, <2>1 DEF Admit, Record, Channel!Forget
    <3>3. QED BY <3>1, <3>2
  <2>2. CASE ~WindowFull
    BY <1>3, <2>2 DEF Admit, Record
  <2>3. QED BY <2>1, <2>2
<1>4. ASSUME NEW p \in Producers, PutAccepted(p)
      PROVE  [Channel!Next]_(Channel!vars)
  <2>1. event[p] \in Keys /\ p \in InFlight(event[p])
    BY <1>1, <1>4 DEF PutAccepted, TypeOK, InFlight
  <2>2. Cardinality(InFlight(event[p])) >= 1
    BY <2>1, InFlightFinite, FS_EmptySet
  <2>3. accepted[event[p]] <= evictions[event[p]]
    <3>1. /\ accepted[event[p]] \in Nat /\ evictions[event[p]] \in Nat
          /\ Cardinality(InFlight(event[p])) \in Nat
          /\ accepted[event[p]] + Cardinality(InFlight(event[p]))
               <= evictions[event[p]] + (IF event[p] \in seenSet THEN 1 ELSE 0)
      BY <1>1, <2>1, InFlightFinite DEF TypeOK, OneCopyPerEviction
    <3>2. QED BY <2>2, <3>1
  <2>4. Channel!Send(event[p])
    BY <1>4, <2>3 DEF PutAccepted, Channel!Send
  <2>5. QED BY <2>1, <2>4
<1>5. ASSUME NEW p \in Producers, PutFull(p)
      PROVE  [Channel!Next]_(Channel!vars)
  BY <1>5 DEF PutFull, ledger
<1>6. ASSUME NEW p \in Producers, Rollback(p)
      PROVE  [Channel!Next]_(Channel!vars)
  BY <1>6 DEF Rollback, ledger
<1>7. CASE Dequeue
  <2>1. Channel!Receive
    BY <1>7 DEF Dequeue, Channel!Receive
  <2>2. QED BY <2>1
<1>8. CASE UNCHANGED vars
  BY <1>8 DEF vars, ledger
<1>9. QED
  BY <1>2, <1>3, <1>4, <1>5, <1>6, <1>7, <1>8 DEF Next, DequeueEmpty

\* The queue refines the channel (message_queue.py:42-83).
THEOREM QueueImplementsChannel == Spec => Channel!Spec
<1>1. Init => Channel!Init
  BY DEF Init, Channel!Init
<1>2. TypedWindow /\ OneCopyPerEviction /\ [Next]_vars => [Channel!Next]_(Channel!vars)
  BY ChannelStep
<1>3. Spec => []TypedWindow
  BY InitTypedWindow, NextTypedWindow, PTL DEF Spec
<1>4. QED
  BY <1>1, <1>2, <1>3, DedupHolds, PTL DEF Spec, Channel!Spec
=============================================================================
