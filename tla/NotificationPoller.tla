------------------------- MODULE NotificationPoller -------------------------
(***************************************************************************)
(* The inbound path of the daemon: the poller (notification_poller.py),    *)
(* the webhook handler (webhook_receiver.py), the queue between them and   *)
(* the AgentInvoker (agent_invoker.py), against the Colony platform.       *)
(*                                                                         *)
(* A message is known by its number n in the order of posting.  It reaches *)
(* the daemon under two identities: as a notification (unread(), webhook), *)
(* whose event has dedup key <<"ntf", n>>, and as a row of tail(), whose   *)
(* event has dedup key <<"msg", n>> (events.py).                           *)
(*                                                                         *)
(* The API calls of a poll are separate steps, and so is each enqueue():   *)
(* new messages, webhook deliveries, the consumer and a crash come between *)
(* them.  enqueue() itself is one step here - MessageQueue has its         *)
(* interleavings - and the dedup window is larger than the set of keys.    *)
(* Mode "poll", mode "webhook" and a client without tail() are the         *)
(* behaviours in which no webhook comes, or unread() or tail() only fails. *)
(***************************************************************************)
EXTENDS Integers, FiniteSetsExt, SequencesExt

CONSTANTS Peers,          \* usernames of the other side of a conversation
          Display,        \* the display name of each peer
          MaxSize,        \* queue_maxsize
          Limit,          \* poll_limit: notifications per unread() call
          MaxMessages,    \* bound: messages posted in a behaviour
          MaxCrashes      \* bound: crashes of the daemon

ASSUME PollerAssumption == /\ DOMAIN Display = Peers
                           /\ MaxSize \in Nat \ {0}
                           /\ Limit \in Nat \ {0}
                           /\ MaxMessages \in Nat /\ MaxCrashes \in Nat

VARIABLES
  \* the platform
  posted,     \* the messages, in order: peer, and whether we sent it ourselves
  unread,     \* messages whose notification is unread
  readMsgs,   \* messages whose is_read is set
  \* the poller
  watermark,  \* _watermarks: newest message of each peer seen by tail()
  self,       \* _self_handle: "unset", "known", or "" after a failed me()
  items,      \* notifications of the running poll not handled yet
  batch,      \* events of the current peer not enqueued yet
  \* the queue and its consumer
  queue, seen,
  \* histories of the daemon's present life
  invoked,    \* how often the invoker was called with each event
  rejected,   \* events dropped on a full queue
  crashes     \* crashes of the daemon

platform == <<posted, unread, readMsgs>>
poller   == <<watermark, self, items, batch>>
buffer   == <<queue, seen, rejected>>
vars     == <<platform, poller, buffer, invoked, crashes>>

Messages  == 1..MaxMessages
Posted    == 1..Len(posted)
Inbound   == {n \in Posted : ~posted[n].own}
PeerOf(n) == posted[n].peer
Keys      == {"msg", "ntf"} \X Messages

-----------------------------------------------------------------------------
\* What a daemon knows of the conversations when it starts, and has done.
NoWatermark    == [p \in Peers |-> 0]
NothingInvoked == [e \in Keys |-> 0]

Init ==
  /\ posted = <<>> /\ unread = {} /\ readMsgs = {}
  /\ watermark = NoWatermark /\ self = "unset"
  /\ items = {} /\ batch = {}
  /\ queue = <<>> /\ seen = {}
  /\ invoked = NothingInvoked /\ rejected = {}
  /\ crashes = 0

\* A message is posted: by the peer, with a notification for us, or by ourselves.
Post(p, own) ==
  /\ Len(posted) < MaxMessages
  /\ posted' = Append(posted, [peer |-> p, own |-> own])
  /\ unread' = IF own THEN unread ELSE unread \cup {Len(posted) + 1}
  /\ UNCHANGED <<readMsgs, poller, buffer, invoked, crashes>>

\* A message, or its notification, is marked read by whoever reads it.
ReadMessage(n) ==
  /\ n \in Posted \ readMsgs
  /\ readMsgs' = readMsgs \cup {n}
  /\ UNCHANGED <<posted, unread, poller, buffer, invoked, crashes>>

ReadNotification(n) ==
  /\ n \in unread
  /\ unread' = unread \ {n}
  /\ UNCHANGED <<posted, readMsgs, poller, buffer, invoked, crashes>>

-----------------------------------------------------------------------------
\* What enqueue() knows: the keys in the window, and the room in the queue.
KnownWhileQueued(e) == e \in ToSet(queue)       \* mutant: only what is still queued
Known(e) == e \in seen

RoomOffByOne == Len(queue) <= MaxSize           \* mutant
Room == Len(queue) < MaxSize

\* Mutant: an event rejected on a full queue stays recorded.
EnqueueRecording(e) ==
  \/ Known(e) /\ UNCHANGED buffer
  \/ /\ ~Known(e)
     /\ seen' = seen \cup {e}
     /\ IF Room
          THEN queue' = Append(queue, e) /\ UNCHANGED rejected
          ELSE rejected' = rejected \cup {e} /\ UNCHANGED queue

\* MessageQueue.enqueue(): a known key is dropped, a new one is queued, or
\* rejected on a full queue without being recorded.
Enqueue(e) ==
  \/ Known(e) /\ UNCHANGED buffer
  \/ /\ ~Known(e) /\ Room
     /\ queue' = Append(queue, e)
     /\ seen' = seen \cup {e}
     /\ UNCHANGED rejected
  \/ /\ ~Known(e) /\ ~Room
     /\ rejected' = rejected \cup {e}
     /\ UNCHANGED <<queue, seen>>

Idle == items = {} /\ batch = {}

\* A poll begins: unread() returns at most Limit notifications.
Unread ==
  /\ Idle
  /\ unread # {}
  /\ \E got \in SUBSET unread :
       /\ Cardinality(got) = Min({Limit, Cardinality(unread)})
       /\ items' = got
  /\ UNCHANGED <<platform, watermark, self, batch, buffer, invoked, crashes>>

\* unread() raises or returns nothing: the poll is over.
PollNothing ==
  /\ Idle
  /\ UNCHANGED vars

\* The notifications of this poll that carry one of the display names ds.  contacts()
\* attributes a display name to one username that bears it - of several, the last
\* listed - or to none, when the peer is not listed or contacts() raised.
Group(ds) == {n \in items : Display[PeerOf(n)] \in ds}

\* The rows tail(h) returns, and the watermark after them: the newest row's id.
Rows(h) == {n \in Posted : PeerOf(n) = h /\ n > watermark[h]}

MovedForAll(h, rows) == [p \in Peers |-> Max(rows \cup {watermark[p]})]   \* mutant: not per peer
Moved(h, rows) == [watermark EXCEPT ![h] = Max(rows \cup {@})]

\* A row is inbound: as far as our handle me, just looked up, tells.
NotOwn(n, me) == ~(me = "known" /\ posted[n].own)

\* The notifications are attributed to h and tail(h) succeeds: the watermark moves
\* over every row returned, our own handle is looked up unless an earlier answer - or
\* failure - is cached, and the rows that are inbound and unread make the batch.
TailEvents(h) ==
  /\ batch = {}
  /\ Group({Display[h]}) # {}
  /\ watermark' = Moved(h, Rows(h))
  /\ self' \in IF self = "unset" THEN {"known", ""} ELSE {self}
  /\ batch' = {<<"msg", n>> : n \in {r \in Rows(h) \ readMsgs : NotOwn(r, self')}}
  /\ items' = items \ Group({Display[h]})
  /\ UNCHANGED <<platform, buffer, invoked, crashes>>

\* tail() is missing or fails for the username of a display name, or several display
\* names are unresolved and share a group: the events parsed from the notifications
\* make the batch.
Fallback(ds) ==
  /\ batch = {}
  /\ Group(ds) # {}
  /\ batch' = {<<"ntf", n>> : n \in Group(ds)}
  /\ items' = items \ Group(ds)
  /\ UNCHANGED <<platform, watermark, self, buffer, invoked, crashes>>

\* Rows of tail() wait in the order they were posted.
NewestFirst(e) == e[1] = "msg" => \A f \in batch : e[2] >= f[2]     \* mutant
OldestFirst(e) == e[1] = "msg" => \A f \in batch : e[2] <= f[2]

\* The batch is enqueued one event at a time: rows of tail() oldest first, parsed
\* events in whatever order unread() listed them.
EnqueueNext ==
  /\ \E e \in batch :
       /\ OldestFirst(e)
       /\ Enqueue(e)
       /\ batch' = batch \ {e}
  /\ UNCHANGED <<platform, watermark, self, items, invoked, crashes>>

-----------------------------------------------------------------------------
\* do_POST with a signed notification: enqueued, and acknowledged whatever
\* enqueue() answered.  The platform may deliver the same one again.
Webhook(n) ==
  /\ n \in Inbound
  /\ Enqueue(<<"ntf", n>>)
  /\ UNCHANGED <<platform, poller, invoked, crashes>>

\* The invoker thread dequeues the next event and calls the invoker, which may
\* take long, return or raise: the event is gone from the queue either way.
Dispatch ==
  /\ queue # <<>>
  /\ invoked' = [invoked EXCEPT ![Head(queue)] = @ + 1]
  /\ queue' = Tail(queue)
  /\ UNCHANGED <<platform, poller, seen, rejected, crashes>>

\* The process dies and is started again: nothing it knew is persisted.
Crash ==
  /\ crashes < MaxCrashes
  /\ crashes' = crashes + 1
  /\ watermark' = NoWatermark /\ self' = "unset"
  /\ items' = {} /\ batch' = {}
  /\ queue' = <<>> /\ seen' = {}
  /\ invoked' = NothingInvoked /\ rejected' = {}
  /\ UNCHANGED platform

PollStep ==
  \/ \E h \in Peers : TailEvents(h)
  \/ \E ds \in SUBSET Range(Display) : Fallback(ds)
  \/ EnqueueNext

Next ==
  \/ \E p \in Peers, own \in BOOLEAN : Post(p, own)
  \/ \E n \in Messages : ReadMessage(n) \/ ReadNotification(n)
  \/ Unread \/ PollNothing \/ PollStep
  \/ \E n \in Messages : Webhook(n)
  \/ Dispatch
  \/ Crash

Spec == Init /\ [][Next]_vars

\* The threads run, and unread() does not fail for ever.  Nothing is assumed of
\* the other API calls, of the peers, of the platform's webhooks.
Fairness == WF_vars(Unread) /\ WF_vars(PollStep) /\ WF_vars(Dispatch)

FairSpec == Spec /\ Fairness

-----------------------------------------------------------------------------
\* The variables have their types; the queue keeps its bound.
TypeOK ==
  /\ posted \in Seq([peer : Peers, own : BOOLEAN]) /\ Len(posted) <= MaxMessages
  /\ unread \subseteq Inbound /\ readMsgs \subseteq Posted
  /\ watermark \in [Peers -> 0..Len(posted)]
  /\ self \in {"unset", "known", ""}
  /\ items \subseteq Inbound
  /\ batch \subseteq Keys
  /\ queue \in Seq(Keys) /\ Len(queue) <= MaxSize
  /\ seen \subseteq Keys
  /\ invoked \in [Keys -> Nat]
  /\ rejected \subseteq Keys
  /\ crashes \in 0..MaxCrashes

\* An identity of a message is dispatched once in a life of the daemon, however often
\* unread() lists it, webhooks repeat it or the two race, and however little is left of
\* it in the queue.
OncePerIdentity ==
  \A e \in Keys : invoked[e] <= 1

\* Moving the watermark before anything is enqueued loses nothing silently: every
\* inbound message at or below the watermark was already read, is about to be
\* offered to the queue, was accepted by it, or is counted in dropped_full.
TailedIsSettled ==
  \A n \in Inbound : n <= watermark[PeerOf(n)] =>
    n \in readMsgs \/ <<"msg", n>> \in batch \cup seen \cup rejected

Tailed(p) == {n \in Posted : PeerOf(n) = p}

\* "Preserves ordering within a session": the tailed messages of a peer go through
\* poller, queue and invoker in the order they were posted, whatever was dropped.
PeerOrder ==
  \A p \in Peers : \A i \in 1..Len(queue) : \A n \in Tailed(p) :
    queue[i] = <<"msg", n>> =>
      \A m \in Tailed(p) :
        /\ invoked[<<"msg", m>>] > 0 => m < n
        /\ <<"msg", m>> \in batch => n < m
        /\ \A j \in 1..(i - 1) : queue[j] = <<"msg", m>> => m < n

\* Once the unread notifications fit in one unread(), a message whose notification stays
\* unread reaches the agent: through failures of tail(), polls cut off by the limit,
\* crashes that lose watermarks, window and queue, and queue-full drops - of a parsed
\* event, which the next poll retries, but not of a row of tail(), which is below the
\* watermark.
Reached(n) ==
  \/ n \notin unread \/ n \in readMsgs
  \/ invoked[<<"msg", n>>] > 0 \/ invoked[<<"ntf", n>>] > 0

UnreadReachesAgent ==
  <>[](Cardinality(unread) <= Limit) =>
    \A n \in Messages : n \in unread ~> Reached(n) \/ <<"msg", n>> \in rejected

\* What message_queue.py undoes the record of a dropped event for ("a future re-attempt
\* can succeed") and the poller's docstring repeats ("strictly more robust, never
\* less"): a drop on the full queue is not final.
DroppedIsRetried ==
  \A n \in Messages : n \in unread ~> Reached(n)

\* What README.md, CHANGELOG.md and the examples say of mode "both": the same message
\* arriving by two ticks or two channels collapses into one dispatch.
OncePerMessage ==
  \A n \in Messages : invoked[<<"msg", n>>] + invoked[<<"ntf", n>>] <= 1

\* "Own username, cached after the first successful lookup" (notification_poller.py:194):
\* a failed lookup is not cached, so a message of our own is taken for an inbound one
\* at most by the poll whose lookup fails.
OwnOnlyAtFailedLookup ==
  [][(\E n \in Posted : posted[n].own /\ <<"msg", n>> \in batch' \ batch) => self = "unset"]_vars
=============================================================================
