# Verification of colony-chat-hermes

TLA+ models of `src/colony_chat_hermes`, model-checked with TLC, with the core results
proved with TLAPS for every value of the constants. Paths below are relative to
`src/colony_chat_hermes/`, those of `examples/` to `src/`.

## 1. The system

The plugin gives a Hermes agent a Colony account. A foreground **daemon** brings inbound
direct messages to the agent; one-shot **commands** keep the account's credentials; a set
of **tools** lets the agent send.

```
 Colony platform ──unread/contacts/tail/me──> NotificationPoller ─┐
       │                                                          ├─> MessageQueue ─> AgentInvoker ─> agent
       └──signed POST──> WebhookReceiver (handler threads) ───────┘
       └──list/update──> WebhookAutoRecovery           LeaderLock (one daemon per host)
 Orchestrator: starts and joins all of these     doctor: probes the lock, judges .env
 register / logout / webhook setup / webhook delete ──> .env, SOUL.md, platform
 .env ──EnvironmentFile= or a shell that sourced it──> daemon, doctor, the commands
```

| Component | State | Operations | Interacts with | What is hard | What makes it correct |
|---|---|---|---|---|---|
| `daemon/message_queue.py` | bounded queue, dedup window (deque and set), two drop counters | `enqueue`, `dequeue` | poller and handler threads put, invoker takes | the lock is released between recording a key and `put_nowait`; eviction and rollback race | window in sync; a second copy only after an eviction; a rejected event can be retried; accepted events arrive in order |
| `daemon/notification_poller.py` | watermark per peer, cached own handle | `poll_once`, start/stop | platform (4 calls per poll), queue | watermark moves before anything is enqueued; fallback by display name; partial failures; restart loses everything | nothing is lost silently; one dispatch per identity; order per peer; own messages dropped |
| `daemon/events.py` | – | two constructors, `dedup_key` | poller, receiver | one message has two identities | same identity, same key |
| `daemon/webhook_receiver.py` `WebhookReceiver` | server and its counters | `do_POST`, start/stop | platform, queue | unjoined handler threads; attempts that time out while their thread runs on; acknowledges what the queue dropped | one dispatch per event; what was answered 200 is settled, what was accepted is served |
| … `WebhookAutoRecovery` | `_recoveries` | `check_once`, start/stop | platform | stale list, lost answers | a disabled webhook becomes active again; never more recoveries than disablings |
| `daemon/agent_invoker.py` | thread, counters | `_loop`, `dispatch_one` | queue, operator's code | invoker hangs, raises, exits | the consumer outlives errors |
| `daemon/orchestrator.py` | stop event, workers, lock | `start`, `stop`, `run_until_signal` | all of the above | partial start, joins that give up, restart | threads only under the lock; consumer before producer; shutdown ends |
| `leader_lock.py` | open file, kernel flock | `acquire`, `release` | daemons and `doctor` of the host | open and flock are two calls; file deleted in between; crash | one leader; the pid names it |
| `doctor.py` | – | one probe that takes the lock, read-only checks | lock, files, platform | the probe is an acquisition; it judges by its own environment and cannot see the secret | what it calls ok works |
| `wizard.py`, `webhook_cli.py`, `cli.py` (logout), `soul_anchor.py` | `.env`, `SOUL.md`; accounts and webhooks on the platform | register, logout, webhook setup / delete | each other, through files without a lock | read–truncate–write, crashes between two files and between platform and file | id and secret match; SOUL.md never precedes the key; foreign lines survive |
| `cli.py` (daemon) | – | configures the client and the orchestrator | environment, flags, `.env` | environment and file change at different times | the daemon is who `SOUL.md` says, with a webhook that is its account's and that it can verify |
| `examples/python_invoker_example.py` | database, `seen_handles` | factory, callable | invoker's thread, platform | two threads, one connection; restarts | every event leaves its audit row |
| `tools/`, `__init__.py`, `_register.py` | – | validate, one client call | platform | nothing concurrent or stateful of ours | not modelled |

The hazards of this code, each at its line with the properties aimed at it, are in
`PROJECT.json` under `hazards`.

## 2. Modules

| Module | Models | Composed with |
|---|---|---|
| `MessageQueue` | `daemon/message_queue.py` | implements `DedupChannel` |
| `DedupChannel` | the promise of the queue to the rest of the daemon, without threads or window | – |
| `LeaderLock` | `leader_lock.py`, the probe of `doctor.py` | abstracted to one variable in `Orchestrator` |
| `NotificationPoller` | poller, event identities, webhook handler, queue, invoker, against the platform | `enqueue` as one step |
| `Orchestrator` | `daemon/orchestrator.py` and the life of every worker thread | – |
| `WebhookRecovery` | `WebhookAutoRecovery` against a platform whose deliveries succeed or fail for no reason given | thread life in `Orchestrator` |
| `WebhookDelivery` | mode "webhook" end to end: attempts of the platform, `do_POST`, the steps of `enqueue()`, invoker | extends and implements `WebhookRecovery`, to which it gives the reasons; implements `DedupChannel` |
| `CredentialFiles` | what `.env` and `SOUL.md` hold, and what each command makes of it; no state | – |
| `Credentials` | register, logout, webhook setup and delete, the shells they run in | extends `CredentialFiles` |
| `DaemonConfig` | what daemon and doctor make of environment and `.env` | extends `Credentials` |
| `ExampleInvoker` | `examples/python_invoker_example.py` in the daemon | – |
| `MC…` | TLC instances with symmetry or a function of constants | |
| `MessageQueueProofs`, `LeaderLockProofs`, `OrchestratorProofs`, `PollerProofs`, `WebhookProofs` | theorems and proofs | |
| `CredentialFilesProofs`, `CredentialsProofs`, `DaemonConfigProofs` | lemmas about files; theorems about the commands; about daemon and doctor beside them | each extends the one before |

Definitions named `…TooLate`, `…Forgotten` and the like, marked *Mutant*, are
deliberately broken variants of the definition that follows them. They are used by no
specification; substituted for the original they violate the property listed with them in
`PROJECT.json`.

### State and actions against the code

**MessageQueue.** An event is its `dedup_key`. `queue`, `seenOrder`, `seenSet`,
`droppedDup`, `droppedFull` are the fields of the class; `pc`, `event` say where each
producer thread stands. `enqueue()` is three steps: the first critical section
(`DropDup`, or `Admit`, which records the key and may evict the oldest record),
`put_nowait()` outside of it (`PutAccepted`, `PutFull`), and the second critical section
that undoes the record (`Rollback`). `accepted`, `evictions`, `delivered` are histories.

**LeaderLock.** A file is a number, `path` the file the path names now, so that a deleted
and re-created lock file is a new one. `Open`, `FlockGranted`/`FlockBusy`, `Truncate`,
`WritePid`, `Release` are the calls of `acquire()`/`release()`; `DiagnosticFails` is the
swallowed `OSError`; `Crash` and `Unlink` are external.

**NotificationPoller.** A message is its number, with two identities, `<<"ntf", n>>`
(unread, webhook) and `<<"msg", n>>` (tail). `Unread`, `TailEvents` or `Fallback` per
group of notifications, and one `EnqueueNext` per event are the steps of `poll_once()`;
posts, reads, webhooks, the consumer and a restart come between them. `TailEvents` moves
the watermark, caches the own handle and filters, in the order of the code. `contacts()`
needs no variable: it attributes a display name to some peer that bears it, or to none.

**Orchestrator.** `pc`/`step` walk the main thread through `StartOrder` and `StopOrder`;
`thread[d][w]` is off, idle (waiting where the stop event wakes it), busy (inside a call
that may outlast a join), dead, or quit (ended by the operator's invoker). `BindFails`
leaves `start()` with the lock held and threads running; `StopTimesOut` is a join that
gives up after five seconds; `LoopDies` is a poller or recovery thread ended by a payload
that breaks the platform's schema. An object that was stopped may be started again, with its
stop event still set.

**WebhookRecovery.** `Round`, `Listed`/`ListFails`, `Updated`/`UpdateFails` are the calls
of one `check_once()`; `UpdateFails` may have taken effect on the platform.
`DeliveryAnswered` and `DeliveryFails` (which disables after `Threshold` failures in a
row), `ReEnable`, `Delete` are the environment.

**WebhookDelivery.** A request is a handler thread at work on an event; `open` says
whether the platform still waits for its answer. `Attempt` starts one, `Refused` is an
attempt that reaches no receiver, `TimeOut` closes the platform's side while the thread
runs on. `Reject` stands for the early returns of `do_POST` (404, 411, 401, 400),
`Admit`, `Put` and `Undo` for the critical section, the `put_nowait()` and the rollback of
the `enqueue()` it makes, during which other handler threads run, and `Answer` for its last
statement. Each end of an attempt is a
`DeliveryAnswered` or a `DeliveryFails` of `WebhookRecovery`, or nothing if the webhook is
disabled or gone meanwhile; all other steps leave that module's variables alone.

**Credentials.** A command is a process with the list of steps it still has to take
(`Program`): API calls and, per file, `read`, `truncate`, `write`, since `write_text()`
opens with truncation before it writes. `SetEnvVar` (replaces the first definition and
drops the rest), `SetEnvVars` (replaces the last) and `ReadEnvVar` (returns the first)
are the three ways the code treats `.env`; `Upsert` and `Clear` those of `SOUL.md`.
`EndEarly` at the steps of `EndsAt` is a kill, an interrupt, or the exception of the
present call; an API call whose answer is lost is one that took effect followed by
`EndEarly`. A file is a sequence; the filters (`Without`, `Clear`, the lines `SetEnvVar`
drops) are `Keep(s, S)`, what stands at the positions `S` in the order of `s`, a definition
without recursion. `shell` is the environment a command finds: `Source` is the operator who runs
`set -a; . .env`, and `ResolveApiKey` prefers what is there to the file. Initial states
(`Situations`) are new files; an account with its webhook; a second account whose `.env`
still names the webhook of the first; and a `.env` merged by hand with two definitions of
the webhook.

**DaemonConfig.** The daemon is started by systemd, which reads `.env` into the environment
(`StartUnit`, `examples/systemd/colony-chat-hermes.service`), or by the operator in one of
the shells the commands run in (`StartInShell`), with what that shell has sourced at some
time - nothing, an older `.env`, the present one - and what he gives before the command or
with flags: `Given` is a key, or the secret, the id or both of one webhook, which `Over`
puts before the environment as `cli.py:210-211` does. `Configure` is `_cmd_daemon` up to
the orchestrator's constructor, with the reads it makes and the exits it takes.
`WebhookCheck` is what `run_doctor()` reports of the webhook in a shell. A webhook has an
owner, and both look among their own account's.

Three histories say what the properties excuse. `fresh`: no command has run since the
daemon's start. `half`: the operator gave half a webhook on the command line. `apart`: the
last write of `.env` left the key of one account beside the webhook of another, which
`register` does when a webhook is left over and `webhook setup` when its shell, or an
earlier definition in the file, knows another key (`WriteEnv`).

**ExampleInvoker.** `MakeInvoker` is the factory on the main thread; `Take` and `Insert`
are an invocation on the invoker's thread. `opener` is the thread that owns the connection,
which is all there is to model of `sqlite3`. What follows a row that landed, the reply, is
left out.

## 3. Runs

| Run | Bounds | Shows |
|---|---|---|
| `message_queue` | 2 threads, 4 keys, queue 2, window 3, 5 calls | types and bounds, `WindowInSync`, `OneCopyPerEviction`, `NoPhantomRecord`, `ForgettingIsEarned`; under fairness `EveryCopyDelivered` and the refinement `ImplementsChannel` |
| `leader_lock` | 3 daemons, 2 doctors, 1 deletion, symmetric | `LeadersBoundedByUnlinks`, `PidNamesHolder` |
| `leader_lock_unlink` (violation) | 2 daemons, 1 doctor, 1 deletion | two leaders after the file is deleted |
| `poller` | 2 peers, 2 messages, queue 2, limit 1, 1 crash | `OncePerIdentity`, `TailedIsSettled`, `PeerOrder`; under fairness `UnreadReachesAgent` |
| `poller_own` (violation) | 1 peer, 2 messages | own messages pass in polls after a failed `me()` |
| `poller_tail_full` (violation) | 1 peer, 2 messages, queue 1 | a tailed row dropped on a full queue is never offered again |
| `poller_identities` (violation) | 1 peer, 1 message, queue 2 | one message dispatched under both identities |
| `orchestrator` | 2 daemons, invoker, poller and server, queue 1, 1 request | `LockCoversWork`, `QueueServiced`; under fairness `ShutdownEnds` |
| `webhook_delivery` | 2 events, queue 1, 2 handler threads, threshold 2, 1 disabling | `RecoveriesEarned`, `DispatchedOnce`, `AckedIsSettled`, the refinement `DeliversAsChannel`; under fairness `EnabledAgain`, `FlowResumes`, `AcceptedIsServed` |
| `daemon_config` | 2 processes, 2 commands from 4 situations, symmetric; a daemon started by systemd or in one of 2 shells | `PairConsistent`, `SoulAfterKey`, `ForeignKept`, `FilesAgree`, `DoctorTellsTruth`, `DaemonKeepsPair`, `DaemonSpeaksForSoul` |
| `credentials_key` (violation) | 1 process, interrupts in API calls only | the key lost by an interrupt in `me()` |
| `example_invoker` (violation) | 3 messages, 3 events | no event leaves an audit row |

**Why the bounds are enough.** Queue: four keys exceed a window of three, two threads
are the fewest that interleave inside `enqueue()`, and five calls fill the queue, fill the
window, evict and retry. Lock: three daemons and one deletion give two leaders and a third
contender. Poller: a queue of two holds both messages of a peer, so that an order is
there to be kept (a consumer that takes the newest violates `PeerOrder`), and is full when
each of the four identities has its turn; a limit of one cuts off a poll of two; two peers
have watermarks that could be confused; one crash, which may come anywhere, gives two lives
(watermarks that outlived it would violate `UnreadReachesAgent`). Orchestrator: two daemons suffice for one to lead while another is refused; the
recovery worker, which differs from the poller only in enqueueing nothing, is left out of
the run's `Workers` (the theorem covers it). Webhook delivery: two events and a queue of one fill it; two threads let a retry overtake
the attempt that timed out, or find its event recorded while it is still in `enqueue()`;
with a threshold of two failures in a row are counted and both threads' attempts can time
out, and one disabling, or a webhook found disabled at the start, is what a recovery too
many would have to come after (the theorems cover any number). With a queue of one its order is trivial there: it is the
run `message_queue` and the theorem that speak of the order.
Commands: two, from situations earlier commands lead to, give every overlap of two
and every pair one after the other; what a third could see is again one of the situations,
or a file torn by one of the two.

The runs `webhook_delivery`, `daemon_config`, `credentials_key` and `example_invoker` do
not check for deadlock: a deleted webhook, a stopped daemon or the last of the bounded
commands or events is where the system really stops. All other runs check for it.

**Fairness.** Threads the process owns run (weak fairness of their next step). Of calls
that may fail we assume as little as each property needs: nothing for `tail()`, `me()`,
`contacts()` and webhooks in the poller, whose fallback is there for that, and only that
`unread()` is answered eventually; nothing for the calls that make a worker busy in
`ShutdownEnds`; and for the recovery worker that a call repeated for ever succeeds at some
time (strong fairness of `Listed`, `Updated`), which its loop justifies by retrying every
round. In `webhook_delivery` the invoker's thread runs besides, and nothing is asked of
attempts and answers. Nothing is assumed of the platform, the operator or the agent.
`UnreadReachesAgent` claims a delivery only if from some time on the unread notifications
fit in one `unread()`: while there are more, which ones are listed is the platform's
choice.

### What the violations say

They are listed in `PROJECT.json` under `findings`, each with the sentence it
contradicts.

1. Deleting the lock file lets a second daemon lead.
2. The tail path loses a message that meets a full queue, where the parse path retries.
3. Mode "both" may dispatch a message twice, under its two identities.
4. A failed `me()` is cached as our handle for the poller's life, and our own messages
   pass from then on.
5. `register` calls `me()` before it writes the key it was given.
6. The example's database connection is opened on the main thread and used on the
   invoker's: no event leaves its row, none is replied to.

Seen while modelling, and not made runs:

- Poller: two peers of one display name suppress each other's fallback (the runs give each
  its own).
- Receiver: a 200 may precede the loss of the event. A thread that finds the event
  recorded answers at once, while the thread that recorded it may yet find the queue full
  and drop it: the last disjunct of `AckedIsSettled`.
- Queue: the window evicts by admission, although it is called an LRU; `dropped_dup` may
  count a call that raced a rejected one.
- Lock: the probe of `doctor`, "safe to run at any time", rewrites the lock file and turns
  away a daemon that starts meanwhile.
- Shutdown: a join that gives up releases the lock with the worker alive; what is queued
  stays there, although the service file gives "the queue 10s to drain"; a stopped
  `Orchestrator` started again ends its workers at once, the stop event being still set.
- `.env`: the CLI reads the first definition of a key and `webhook setup` replaces the
  last, as systemd and a shell read it, so that after a merge by hand `webhook delete` of
  the current webhook does not clear it. `unsubscribe` whose answer is lost leaves an id no
  later `delete` clears. `logout` and a second `register` keep the webhook of the previous
  account. A shell that sourced `.env` still has the key after a `logout`, and a `webhook
  setup` there writes the webhook of one account beside the key of another; `doctor`
  reports it (`DoctorTellsTruth`), and a daemon started from that `.env` verifies deliveries
  of a webhook it cannot recover (`apart`).
- Daemon: `webhook setup` ends with "Now start the daemon: `colony-chat-hermes daemon --mode
  both`" (`webhook_cli.py:141-142`), and `examples/mode_a_webhook.md` says so too. In a shell
  that has not sourced `.env` that is exit code 2, since the key is looked up in `.env` but
  secret and id are not (`cli.py:210-211`).
- Flags: `--webhook-secret` alone, in a shell that knows another webhook's id, gives a
  daemon that verifies one webhook and recovers the other (`half`).
- `doctor` runs the factory of a Python invoker, with what it opens, in a check that is
  otherwise read-only.
- Example: `seen_handles` is read before the leader lock is held.

## 4. Proofs

All proofs assume only the named `ASSUME`s of the modules: finite sets of threads and
processes where they are counted, positive sizes, `Nobody`/`NoKey` outside of the sets; two theorems, `OneLeaderWithoutUnlink` and
`KeyKeptUninterrupted`, state the assumption they need.

**MessageQueueProofs.** `TypeOK /\ WindowInSync` (`TypedWindow`) is inductive: neither is
alone, since an eviction removes `Head(seenOrder)` from the set and only the agreement of
both, without repetitions, makes that the same key. On it rest `DedupHolds` (copies queued
or in flight never exceed evictions plus the present record: each step of `enqueue()`
moves one unit between the two sides, `BalanceStep`), `RejectionLeavesNoRecord`,
`ForgettingEarned` (of a full window all records but those of calls in flight stand for
accepted events; a count of cardinalities, `EarnedStep`), `AtMostOnce` (with a window as
large as the set of keys nothing is forgotten) and `QueueImplementsChannel`, the safety
part of the refinement, step by step (`ChannelStep`).

**LeaderLockProofs.** The inductive invariant adds to the types that files are numbered in
order of creation and at most one more than deletions exist (`FilesCounted`), that who
stands behind `flock` owns the file it has open (`HoldersOwn`), and that who has signed
holds (`SignedHold`). Leaders then inject into files, which gives `ElectionHolds`; without
deletions it is `OneLeaderWithoutUnlink`, the promise of the docstring under the
assumption it needs.

**OrchestratorProofs.** Invariant: a main thread between start and stop holds the lock; at
rest every thread is dead or a join has given up; and in the middle of `stop()` this is
already so of the workers it has passed (`StoppedSoFar`). The last part needs that
`StopOrder` names every worker (`StopOrderCovers`) and that no worker revives itself
(`WorkersReviveNothing`). `WorkIsCovered` follows. `QueueIsServiced` needs of `Serviced`
what the property itself does not mention: requests under way, which may enqueue when the
server is gone, and the moment between the start of the consumer and that of the first
producer. Its steps are that work is only made out of work (`WorkersLoadTheLoaded`) and
that nothing but the stop event or its own invoker ends the consumer
(`WorkersKeepInvoker`).

**PollerProofs.** The histories begin anew with each life of the daemon. Three invariants,
one on the other. `Once`: what is queued is recorded and queued once, and what is queued or
not recorded was not dispatched in this life (`Unspent`), hence `DispatchedOncePerLife`.
`Settled`: `TailedIsSettled` and `OwnOnlyAfterMeFailed` (an own message passes only in a
life whose `me()` failed: what is left of the promise that `poller_own` refutes), which hold
step by step, and that a row waiting or recorded is at or below its peer's watermark
(`Covered`). `InOrder`, for `PeersInOrder`: of one peer's rows those at the invoker are
older than those queued, and both older than those waiting; `tail()` refills the batch from
above the watermark, where by `Covered` nothing of the peer has been (`TailKeepsOrder`), and
`enqueue` takes the oldest (`EnqueueKeepsOrder`).

**WebhookProofs.** `DeliveryImplementsRecovery`: every step of the composition is one of
`WebhookRecovery` or leaves its variables alone (`DeliveryStepIsRecoveryStep`), so that
what is proved of the recovery worker alone holds behind the real receiver.
`RecoveriesAreEarned` needs `Owing`: a webhook that is disabled, and an update that is
under way, each have a disabling behind them that no recovery has answered - the
operator's own `ReEnable` and a lost answer only make the worker owe more. `DispatchesOnce`
and `AckedAreSettled` rest on `DeliveryInd`: a recorded event is with one thread inside
`enqueue()` (`HeldOnce`), or queued, once (`QueuedOnce`), or dispatched, never two of these,
and no other is recorded (`Recorded`); and the event of a thread about to answer is settled
or with another thread (`AnsweredIsSettled`), whether or not the platform still waits. Each
of the three ways out of `enqueue()` keeps this only because no second thread holds the
event (`HolderIsAlone`). `DeliveryImplementsChannel` follows: `Put` with room is the
channel's `Send`, `Dispatch` its `Receive`, all else a stutter, and nothing is forgotten.
The window is taken as large as the set of events; what a smaller one costs is
`OneCopyPerEviction`.

**CredentialFilesProofs.** `Keep` is a sequence whose elements are those at the kept
positions, in their order (`KeepEnumerates`), since every rank up to their number is taken
once (`NthExists`, `RankProperties`). From it: what each rewrite leaves defined, how often, and with which first and last
value.

**CredentialsProofs.** A command is where it stands in its program: `Place` counts so that
0 is the first step on `.env` and 3 the first on `SOUL.md`, in all four programs, and
`PlaceTable` and `Movements` say what each action does to it. The inductive invariant is
`Sound`: types; every version of `.env`, in the file *and in the copy a command holds*,
defines the key once at most, by an account there is, and id and secret in pairs
(`FilesGood`, `WellFormed`); no shell has sourced half of a pair (`ShellsGood`). The copies
are why it is needed: a command may write what it read before another's whole life, so that
what is true of the file must be true of every copy, and of the truncated file.
`TypeCorrect` and `PairAlwaysConsistent` are parts of it. On it rest three more, each with
what a command half-way must hold:

- `SoulNeverAhead`: the copy of `SOUL.md` names only accounts whose key was written, and a
  `register` that has reached `SOUL.md` has written its own (`SoulBehind`);
- `ForeignAlwaysKept`: a copy read from a file that was whole has what is foreign in it,
  and a file without it is truncated by a command about to write it (`ForeignCopied`);
- `FilesAlwaysAgree`: without overlaps the one command that runs holds exactly the rest of
  the story (`HalfWay`): the key it will write, the identity it has still to write or
  clear, the webhook it subscribed or deleted.

`KeyKeptUninterrupted` is the wizard's headline under the assumption it needs, that no
command ends in `me()` or in a rewrite; without it the run `credentials_key` refutes it.

**DaemonConfigProofs.** `DaemonKeepsCredentials`: the daemon changes nothing of the
commands', so all of the above holds beside it. `DoctorAlwaysTellsTruth` needs no more than
`Sound`: since shells and files hold pairs, finding the id is finding the secret.
`DaemonTypeCorrect` and `DaemonAlwaysKeepsPair` need that the daemon's environment has what
accounts and webhooks there are, and halves of webhooks only where they were given
(`DaemonEnv`, in `DaemonGood`): `Sourced` keeps a pair because `.env` does, `Over` because
what is given has both or is `half`. `DaemonAlwaysSpeaksForSoul` has two arguments. While no
command has run since the daemon's start, the environment it started with is still what
`.env` gives (`FreshGood`), and that agrees with `SOUL.md` by the story of `Undisturbed`. And
unless `apart` the webhook `.env` names is its account's own (`Owned`): at every rest, and
half-way as far as the one command that runs has come (`AllOwned`) - before the write of
`.env` the old file is still the truth, `setup` holds a webhook that is its account's, and
`delete` may have removed the one the file names only if it goes on to clear it. One lemma
per kind of step keeps it (`AllOwnedCalls`, `AllOwnedRewrites`, `AllOwnedWriteEnv`).

**Model-checked only.** All liveness (`EveryCopyDelivered`, the fairness part of
`ImplementsChannel`, `UnreadReachesAgent`, `ShutdownEnds`, `EnabledAgain`, `FlowResumes`,
`AcceptedIsServed`), which TLAPS does not reach. Every safety property the passing runs
check is a theorem.

## 5. Not modelled

- Contents of messages, texts, rendering, argument parsing, and what makes `do_POST`
  reject a request; the verification of signatures is a choice between right and wrong.
- `tools/` and the registration shims: each tool validates its arguments and makes one
  call, and keeps nothing.
- `status`, `send`, `webhook list`, the checks of `doctor` other than lock, key and
  webhook: one call or one read, nothing changed. `feed` runs the poller and queue modelled
  above.
- The shell and HTTP invokers of `daemon/agent_invoker.py` beyond what their caller sees:
  they return, raise, or take their time.
- Payloads of the platform that break its schema, other than as the end of the thread that
  meets them.
- Marker matching in a malformed `SOUL.md`; blocks are whole in `Credentials`.
- The lost updates of `_received`, a counter of the receiver nothing depends on.
- A webhook the platform disabled, in `DaemonConfig`: recovery is `WebhookDelivery`'s.
- A daemon without a leader lock, and hosts without `flock` (the module does not import
  there).

## 6. Plan

Done: queue, lock, poller, orchestrator, credentials; the recovery worker composed with
the receiver and the steps of `enqueue()`; the daemon's and the doctor's configuration; the
example invoker; the proofs of every safety property of the passing runs. The single lock
variable of `Orchestrator` is what `OneLeaderWithoutUnlink` leaves of `LeaderLock`.

Next, in this order:

1. `NotificationPoller` with the steps of `enqueue()` in place of one. What one step leaves
   out there is a call that finds a notification recorded while the thread that recorded it
   is refused: it is dropped where the model has it dropped on the full queue or queued. The
   keys of tailed rows come from the poller's thread alone, so that this cannot meet them.
2. `SOUL.md` with its markers, and what becomes of a malformed one.
