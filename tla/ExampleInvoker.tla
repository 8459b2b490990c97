--------------------------- MODULE ExampleInvoker ---------------------------
(***************************************************************************)
(* The Python invoker that comes as an example                             *)
(* (examples/python_invoker_example.py), as the daemon runs it.  The       *)
(* factory make_invoker() runs where load_invoker() is called: on the main *)
(* thread.  The callable it returns runs on the AgentInvoker's thread, and *)
(* what it raises ends in dispatch_one().  A connection of sqlite3 lets    *)
(* only the thread use it that opened it; from another one every call      *)
(* raises ProgrammingError, which is no IntegrityError.                    *)
(*                                                                         *)
(* The reply that follows a row that landed is left out: it changes        *)
(* neither the table nor what ends an invocation.                          *)
(***************************************************************************)
EXTENDS Integers, Sequences

CONSTANTS Messages,       \* notification ids
          MaxEvents       \* bound: events the daemon receives

VARIABLES alive,          \* the daemon runs
          opener,         \* the thread that opened the connection
          queue,          \* events waiting for the invoker's thread
          at,             \* the invocation under way: at most one message
          rows,           \* the table inbound: it outlives the daemon
          events,         \* history: events received
          returned        \* history: messages whose invocation has ended

vars == <<alive, opener, queue, at, rows, events, returned>>

Init ==
  /\ alive = FALSE /\ opener = "none"
  /\ queue = <<>> /\ at = {}
  /\ rows = {}
  /\ events = 0 /\ returned = {}

\* load_invoker(): the database is opened.
MakeInvoker ==
  /\ ~alive
  /\ alive' = TRUE
  /\ opener' = "main"
  /\ UNCHANGED <<queue, at, rows, events, returned>>

\* Poller or receiver queue an event; one that was queued before has come again after
\* a restart, or when the dedup window had forgotten it.
Receive(m) ==
  /\ alive
  /\ events < MaxEvents
  /\ events' = events + 1
  /\ queue' = Append(queue, m)
  /\ UNCHANGED <<alive, opener, at, rows, returned>>

Take ==
  /\ alive /\ at = {} /\ queue # <<>>
  /\ at' = {Head(queue)}
  /\ queue' = Tail(queue)
  /\ UNCHANGED <<alive, opener, rows, events, returned>>

\* The INSERT, on the invoker's thread: the row lands, or is there already, if the
\* thread may use the connection.
Insert(m) ==
  /\ m \in at
  /\ rows' = IF opener = "invoker" THEN rows \cup {m} ELSE rows
  /\ at' = {}
  /\ returned' = returned \cup {m}
  /\ UNCHANGED <<alive, opener, queue, events>>

\* The daemon ends or dies; the queue is in memory.
End ==
  /\ alive
  /\ alive' = FALSE /\ opener' = "none"
  /\ queue' = <<>> /\ at' = {}
  /\ UNCHANGED <<rows, events, returned>>

Next ==
  \/ MakeInvoker \/ Take \/ End
  \/ \E m \in Messages : Receive(m) \/ Insert(m)

Spec == Init /\ [][Next]_vars

-----------------------------------------------------------------------------
\* What the module says of itself: an event's audit row is written - an invocation
\* that has ended without one was the repetition of one that wrote it.
AuditRowLands == returned \subseteq rows
=============================================================================
