----------------------------- MODULE Credentials -----------------------------
(***************************************************************************)
(* The commands that keep an operator's credentials: register (wizard.py), *)
(* logout (cli.py), webhook setup and webhook delete (webhook_cli.py).     *)
(* Each is a process of its own; they share two files, .env and SOUL.md,   *)
(* with no lock between them, and the accounts and webhooks of the         *)
(* platform; each runs in a shell, whose environment may hold what .env    *)
(* defined when the operator sourced it.                                   *)
(*                                                                         *)
(* A file is the sequence of what it holds: lines of .env, blocks of       *)
(* SOUL.md.  A command rewrites it in three steps - read_text(), then      *)
(* write_text(), which truncates on open and only then writes - and may    *)
(* end between any two: killed, interrupted, or by the exception of the    *)
(* call it is at.  An API call whose answer is lost is one that took       *)
(* effect and whose command ends at its next step.                         *)
(*                                                                         *)
(* The n-th account stands for its handle and its api_key, the n-th        *)
(* webhook for its id and the secret generated for it.                     *)
(***************************************************************************)
EXTENDS CredentialFiles

CONSTANTS Procs,          \* command processes that may run at a time
          EndsAt,         \* the steps at which a command may end early
          MaxCommands     \* bound: commands run

ASSUME CredentialsAssumption == MaxCommands \in Nat

VARIABLES file,         \* file["env"], file["soul"]
          accounts,     \* the platform: number of accounts
          hooks,        \* the platform: the webhooks that exist
          subscribed,   \* the platform: number of webhooks ever subscribed
          proc,         \* the command of each process, and where it stands
          shell,        \* the environment of the shell each process runs in
          commands,     \* history: commands started
          received,     \* history: accounts whose key reached the wizard
          persisted,    \* history: accounts whose key was written to .env
          torn,         \* history: per file, truncated contents were left or read
          disturbed     \* history: commands overlapped, or one ended half-way

platform == <<accounts, hooks, subscribed>>
history  == <<commands, received, persisted, torn, disturbed>>
vars     == <<file, platform, proc, shell, history>>

-----------------------------------------------------------------------------
(***************************************************************************)
(* The commands as the steps they still have to take: <<operation, object>>*)
(***************************************************************************)
Api(call)  == <<<<call, "api">>>>
Rewrite(f) == <<<<"read", f>>, <<"truncate", f>>, <<"write", f>>>>

\* Mutant: the identity block is written before the key.
ProgramSoulFirst ==
  [register |-> Api("mint") \o Api("me") \o Rewrite("soul") \o Rewrite("env"),
   logout   |-> Rewrite("env") \o Rewrite("soul"),
   setup    |-> Api("client") \o Api("subscribe") \o Rewrite("env"),
   delete   |-> Api("client") \o Api("unsubscribe") \o <<<<"check", "env">>>> \o Rewrite("env")]

Program ==
  [register |-> Api("mint") \o Api("me") \o Rewrite("env") \o Rewrite("soul"),
   logout   |-> Rewrite("env") \o Rewrite("soul"),
   setup    |-> Api("client") \o Api("subscribe") \o Rewrite("env"),
   delete   |-> Api("client") \o Api("unsubscribe") \o <<<<"check", "env">>>> \o Rewrite("env")]

Idle == [cmd |-> "none", todo |-> <<>>, account |-> None, hook |-> None, copy |-> <<>>]
Running(c) == proc[c].cmd # "none"
At(c, op)  == Running(c) /\ Head(proc[c].todo)[1] = op
Target(c)  == Head(proc[c].todo)[2]

\* What the operator may start from, with the owners of the webhooks: nothing; an
\* account with a webhook; a second account whose .env still names the webhook of the
\* first; an account whose .env was merged by hand and defines two webhooks.
Situations ==
  {[env |-> <<Line("OTHER", None)>>, soul |-> <<Foreign>>, owners |-> <<>>, accounts |-> 0],
   [env |-> <<Line("API_KEY", 1), Line("OTHER", None), Line("SECRET", 1), Line("ID", 1)>>,
    soul |-> <<Foreign, 1>>, owners |-> <<1>>, accounts |-> 1],
   [env |-> <<Line("OTHER", None), Line("SECRET", 1), Line("ID", 1), Line("API_KEY", 2)>>,
    soul |-> <<2, Foreign>>, owners |-> <<1>>, accounts |-> 2],
   [env |-> <<Line("API_KEY", 1), Line("SECRET", 1), Line("ID", 1), Line("OTHER", None),
              Line("SECRET", 2), Line("ID", 2)>>,
    soul |-> <<1, Foreign>>, owners |-> <<1, 1>>, accounts |-> 1]}

Init ==
  /\ \E s \in Situations :
       /\ file = [env |-> s.env, soul |-> s.soul]
       /\ accounts = s.accounts
       /\ subscribed = Len(s.owners)
       /\ hooks = {[id |-> n, owner |-> s.owners[n]] : n \in 1..subscribed}
  /\ proc = [c \in Procs |-> Idle]
  /\ shell = [c \in Procs |-> NoEnv]
  /\ commands = 0
  /\ received = 1..accounts
  /\ persisted = 1..accounts
  /\ torn = [f \in {"env", "soul"} |-> FALSE]
  /\ disturbed = FALSE

\* The command goes on after its present step, as p; with nothing left to do it ends.
Proceed(c, p) == proc' = [proc EXCEPT ![c] = IF Len(p.todo) = 1 THEN Idle
                                             ELSE [p EXCEPT !.todo = Tail(@)]]
Skip(c, n)    == LET p == proc[c]
                 IN proc' = [proc EXCEPT ![c] = IF Len(p.todo) = n THEN Idle
                                                ELSE [p EXCEPT !.todo = SubSeq(@, n + 1, Len(@))]]

\* The operator sources .env.
Source(c) ==
  /\ ~Running(c)
  /\ shell' = [shell EXCEPT ![c] = Sourced(@, file["env"])]
  /\ UNCHANGED <<file, platform, proc, history>>

\* The operator runs a command; webhook delete takes any id there ever was.
Start(c, cmd) ==
  /\ ~Running(c)
  /\ commands < MaxCommands
  /\ commands' = commands + 1
  /\ disturbed' = (disturbed \/ \E o \in Procs : Running(o))
  /\ \E n \in IF cmd = "delete" THEN 1..subscribed ELSE {None} :
       proc' = [proc EXCEPT ![c] = [Idle EXCEPT !.cmd = cmd, !.todo = Program[cmd], !.hook = n]]
  /\ UNCHANGED <<file, platform, received, persisted, torn, shell>>

\* register: the account exists and the wizard holds its key;
Mint(c) ==
  /\ At(c, "mint")
  /\ accounts' = accounts + 1
  /\ received' = received \cup {accounts + 1}
  /\ Proceed(c, [proc[c] EXCEPT !.account = accounts + 1])
  /\ UNCHANGED <<file, hooks, subscribed, commands, persisted, torn, disturbed, shell>>

\* then it asks for the user id, whatever comes of that.
Me(c) ==
  /\ At(c, "me")
  /\ Proceed(c, proc[c])
  /\ UNCHANGED <<file, platform, history, shell>>

\* setup, delete: the client of the key found; without one the command is over.
Client(c) ==
  /\ At(c, "client")
  /\ LET a == ResolveApiKey(shell[c], file["env"])
     IN IF a = None THEN proc' = [proc EXCEPT ![c] = Idle]
                    ELSE Proceed(c, [proc[c] EXCEPT !.account = a])
  /\ UNCHANGED <<file, platform, history, shell>>

Subscribe(c) ==
  /\ At(c, "subscribe")
  /\ subscribed' = subscribed + 1
  /\ hooks' = hooks \cup {[id |-> subscribed + 1, owner |-> proc[c].account]}
  /\ Proceed(c, [proc[c] EXCEPT !.hook = subscribed + 1])
  /\ UNCHANGED <<file, accounts, history, shell>>

\* The platform knows the webhook only to its owner; otherwise the command is over.
Unsubscribe(c) ==
  /\ At(c, "unsubscribe")
  /\ LET h == [id |-> proc[c].hook, owner |-> proc[c].account]
     IN IF h \in hooks THEN hooks' = hooks \ {h} /\ Proceed(c, proc[c])
                       ELSE UNCHANGED hooks /\ proc' = [proc EXCEPT ![c] = Idle]
  /\ UNCHANGED <<file, accounts, subscribed, history, shell>>

\* Mutant: the persisted id is not looked at, and never cleared.
CheckNothing(c) ==
  /\ At(c, "check")
  /\ proc' = [proc EXCEPT ![c] = Idle]
  /\ UNCHANGED <<file, platform, history, shell>>

\* delete: .env is rewritten only if it names the deleted webhook.
Check(c) ==
  /\ At(c, "check")
  /\ IF ReadEnvVar(file["env"], "ID") = proc[c].hook THEN Proceed(c, proc[c])
                                                     ELSE proc' = [proc EXCEPT ![c] = Idle]
  /\ UNCHANGED <<file, platform, history, shell>>

-----------------------------------------------------------------------------
\* What the command makes of the contents it read.
Edited(c, f) ==
  LET p == proc[c]
  IN CASE p.cmd = "register" /\ f = "env"  -> SetEnvVar(p.copy, "API_KEY", p.account)
       [] p.cmd = "register" /\ f = "soul" -> Upsert(p.copy, p.account)
       [] p.cmd = "logout"   /\ f = "env"  -> Without(p.copy, {"API_KEY"})
       [] p.cmd = "logout"   /\ f = "soul" -> Clear(p.copy)
       [] p.cmd = "setup"                  -> SetEnvVars(p.copy, p.hook)
       [] p.cmd = "delete"                 -> Without(p.copy, {"SECRET", "ID"})

\* logout writes only a file it has something to remove from.
NothingToClear(c, f) ==
  /\ proc[c].cmd = "logout"
  /\ IF f = "env" THEN Defs(file[f], "API_KEY") = {} ELSE Claims(file[f]) = {}

BeingWritten(f) == \E c \in Procs : At(c, "write") /\ Target(c) = f

Read(c) ==
  /\ At(c, "read")
  /\ LET f == Target(c)
     IN /\ torn' = [torn EXCEPT ![f] = @ \/ BeingWritten(f)]
        /\ IF NothingToClear(c, f) THEN Skip(c, 3)
                                   ELSE Proceed(c, [proc[c] EXCEPT !.copy = file[f]])
  /\ UNCHANGED <<file, platform, commands, received, persisted, disturbed, shell>>

Truncate(c) ==
  /\ At(c, "truncate")
  /\ file' = [file EXCEPT ![Target(c)] = <<>>]
  /\ Proceed(c, proc[c])
  /\ UNCHANGED <<platform, history, shell>>

Write(c) ==
  /\ At(c, "write")
  /\ file' = [file EXCEPT ![Target(c)] = Edited(c, Target(c))]
  /\ persisted' = persisted \cup (IF proc[c].cmd = "register" /\ Target(c) = "env"
                                    THEN {proc[c].account} ELSE {})
  /\ Proceed(c, [proc[c] EXCEPT !.copy = <<>>])
  /\ UNCHANGED <<platform, commands, received, torn, disturbed, shell>>

\* The command ends early.  In the middle of write_text() it leaves the file
\* truncated; outside of the calls of the API it has done half of its work.
EndEarly(c) ==
  /\ Running(c)
  /\ \E op \in EndsAt : At(c, op)
  /\ torn' = IF At(c, "write") THEN [torn EXCEPT ![Target(c)] = TRUE] ELSE torn
  /\ disturbed' = (disturbed \/ Target(c) # "api")
  /\ proc' = [proc EXCEPT ![c] = Idle]
  /\ UNCHANGED <<file, platform, commands, received, persisted, shell>>

Next ==
  \E c \in Procs :
    \/ Source(c) \/ \E cmd \in DOMAIN Program : Start(c, cmd)
    \/ Mint(c) \/ Me(c) \/ Client(c) \/ Subscribe(c) \/ Unsubscribe(c) \/ Check(c)
    \/ Read(c) \/ Truncate(c) \/ Write(c)
    \/ EndEarly(c)

Spec == Init /\ [][Next]_vars

-----------------------------------------------------------------------------
Contents(f) == IF f = "env" THEN Seq([key : EnvKeys \cup {"OTHER"}, val : Nat]) ELSE Seq(Nat)

\* The variables have their types, and the commands never define the key twice.
TypeOK ==
  /\ DOMAIN file = {"env", "soul"}
  /\ \A f \in {"env", "soul"} : file[f] \in Contents(f)
  /\ Cardinality(Defs(file["env"], "API_KEY")) <= 1
  /\ accounts \in Nat /\ subscribed \in Nat /\ commands \in Nat
  /\ hooks \subseteq [id : 1..subscribed, owner : 1..accounts]
  /\ \A c \in Procs : Running(c) => proc[c].todo # <<>>
  /\ shell \in [Procs -> [EnvKeys -> Nat]]
  /\ received \subseteq 1..accounts /\ persisted \subseteq 1..accounts
  /\ torn \in [{"env", "soul"} -> BOOLEAN] /\ disturbed \in BOOLEAN

\* The webhook id and the secret that .env holds were made for each other, read as
\* the CLI reads the file or as systemd does: the daemon never verifies deliveries
\* of one webhook with the secret of another, whichever commands raced or died.
PairConsistent ==
  /\ ReadEnvVar(file["env"], "ID") = ReadEnvVar(file["env"], "SECRET")
  /\ LastWins(file["env"], "ID") = LastWins(file["env"], "SECRET")

\* SOUL.md never claims an identity whose key was not written to .env first.
SoulAfterKey == Claims(file["soul"]) \subseteq persisted

\* What the operator and other plugins keep in the two files survives: racing
\* commands may overwrite each other's lines, but a foreign line is lost only to a
\* command that died in write_text() or read a file another had just truncated.
ForeignKept ==
  \A f \in {"env", "soul"} :
    torn[f] \/ BeingWritten(f)
      \/ IF f = "env" THEN Defs(file[f], "OTHER") # {} ELSE \E i \in DOMAIN file[f] : file[f][i] = Foreign

\* Between commands that ran one at a time to their end, or to a failed call of the
\* API, the two files and the platform tell one story: the key and the identity
\* block are of the same account, and the webhook of .env exists.
FilesAgree ==
  ~disturbed /\ (\A c \in Procs : ~Running(c)) =>
    /\ Claims(file["soul"]) = {ReadEnvVar(file["env"], "API_KEY")} \ {None}
    /\ LET n == ReadEnvVar(file["env"], "ID")
       IN n # None => \E h \in hooks : h.id = n

\* The headline of the wizard: a key it was given is in .env before anything else
\* is done that can fail.
KeyNeverLost ==
  \A a \in received : a \in persisted \/ \E c \in Procs : proc[c].account = a
=============================================================================
