---------------------------- MODULE DaemonConfig ----------------------------
(***************************************************************************)
(* What the credentials of module Credentials are for: the daemon          *)
(* (_cmd_daemon in cli.py, Orchestrator.__init__) and the doctor           *)
(* (doctor.py).  Both find the api_key in their environment or else in     *)
(* .env, and the webhook's secret and id in their environment only.  The   *)
(* environment is systemd's, who reads EnvironmentFile= as it starts the   *)
(* unit, or that of a shell, with what .env defined when the operator      *)
(* sourced it and what he gives on the command line - and the commands go  *)
(* on rewriting .env.                                                      *)
(*                                                                         *)
(* The daemon is one of mode "both" or "webhook"; of mode "poll" it would  *)
(* need no more than the key.                                              *)
(***************************************************************************)
EXTENDS Credentials

VARIABLES daemon,       \* the daemon's process: where it stands, its environment and its
                        \* client's account; history: the operator gave half a webhook on
                        \* the command line; no command ran since the start
          apart         \* history: .env was left with the key of one account and the
                        \* webhook of another

configVars == <<vars, daemon, apart>>

Hook(id, account) == [id |-> id, owner |-> account]

Off == [at |-> "off", env |-> NoEnv, account |-> None, half |-> FALSE, fresh |-> FALSE]

DaemonInit ==
  /\ Init
  /\ daemon = Off
  /\ apart = LET ls == file["env"]
             IN ReadEnvVar(ls, "ID") # None
                  /\ Hook(ReadEnvVar(ls, "ID"), ReadEnvVar(ls, "API_KEY")) \notin hooks

Started(env, half) ==
  daemon' = [Off EXCEPT !.at = "exec", !.env = env, !.half = half,
                        !.fresh = \A c \in Procs : ~Running(c)]

\* systemd starts the unit, or starts it again after a failure.
StartUnit ==
  /\ daemon.at = "off"
  /\ Started(Sourced(NoEnv, file["env"]), FALSE)
  /\ UNCHANGED <<vars, apart>>

\* What the operator gives on the command line, in variables before the command or with
\* --webhook-secret and --webhook-id, goes before what the shell has: the key of an
\* account, or secret and id of a webhook, or only one of these.
Given ==
  {[NoEnv EXCEPT !["API_KEY"] = a] : a \in 0..accounts}
    \cup UNION {{[NoEnv EXCEPT !["SECRET"] = s, !["ID"] = i] : s, i \in {None, n}} : n \in 1..subscribed}
Half(g) == (g["SECRET"] = None) # (g["ID"] = None)
Over(g, env) == [k \in EnvKeys |-> IF g[k] # None THEN g[k] ELSE env[k]]

\* The operator starts the daemon in a shell.
StartInShell(c) ==
  /\ daemon.at = "off"
  /\ ~Running(c)
  /\ \E g \in Given : Started(Over(g, shell[c]), Half(g))
  /\ UNCHANGED <<vars, apart>>

\* The client is built and the orchestrator: no key is exit code 1, no secret 2.
Configures(env, ls) == ResolveApiKey(env, ls) # None /\ env["SECRET"] # None

Configure ==
  /\ daemon.at = "exec"
  /\ daemon' = IF Configures(daemon.env, file["env"])
                 THEN [daemon EXCEPT !.at = "up",
                                     !.account = ResolveApiKey(daemon.env, file["env"])]
                 ELSE Off
  /\ UNCHANGED <<vars, apart>>

\* It is stopped, or dies.
StopDaemon ==
  /\ daemon.at # "off"
  /\ daemon' = Off
  /\ UNCHANGED <<vars, apart>>

\* The write of .env in which two accounts may meet: register puts its new key beside
\* a webhook that is left over, setup its new webhook beside the key of an account
\* other than its shell's - or behind an earlier definition.
WriteEnv(c) ==
  /\ Write(c) /\ Target(c) = "env"
  /\ LET ls == file'["env"]
         p  == proc[c]
     IN apart' = CASE p.cmd = "register" -> ReadEnvVar(ls, "ID") # None
                   [] p.cmd = "setup"    -> \/ ReadEnvVar(ls, "ID") # p.hook
                                            \/ ReadEnvVar(ls, "API_KEY") # p.account
                   [] p.cmd = "delete"   -> FALSE
                   [] p.cmd = "logout"   -> apart

CommandStep ==
  /\ \/ \E c \in Procs : WriteEnv(c)
     \/ /\ Next
        /\ ~\E c \in Procs : Write(c) /\ Target(c) = "env"
        /\ UNCHANGED apart
  /\ daemon' = [daemon EXCEPT !.fresh = @ /\ commands' = commands]

DaemonNext ==
  \/ StartUnit \/ \E c \in Procs : StartInShell(c)
  \/ Configure \/ StopDaemon
  \/ CommandStep

DaemonSpec == DaemonInit /\ [][DaemonNext]_configVars

-----------------------------------------------------------------------------
\* Mutant: an id that is not listed is not reported.
WebhookCheckUnlisted(env, ls) ==
  CASE ResolveApiKey(env, ls) = None -> "skipped"
    [] ResolveApiKey(env, ls) # None ->
         CASE env["SECRET"] = None /\ env["ID"] = None -> "omitted"
           [] env["SECRET"] = None /\ env["ID"] # None -> "fail"
           [] env["SECRET"] # None                     -> "ok"

\* run_doctor(), as far as the webhook is concerned.  The platform has disabled none
\* (it would be a "warn" in place of "ok"; see WebhookDelivery for that).
WebhookCheck(env, ls) ==
  CASE ResolveApiKey(env, ls) = None -> "skipped"
    [] ResolveApiKey(env, ls) # None ->
         CASE env["SECRET"] = None /\ env["ID"] = None -> "omitted"
           [] env["SECRET"] = None /\ env["ID"] # None -> "fail"
           [] env["SECRET"] # None /\ env["ID"] = None -> "warn"
           [] env["SECRET"] # None /\ env["ID"] # None ->
                IF Hook(env["ID"], ResolveApiKey(env, ls)) \in hooks THEN "ok" ELSE "fail"

-----------------------------------------------------------------------------
\* The variables have their types; a daemon that is up has a key and a secret.
DaemonTypeOK ==
  /\ TypeOK
  /\ daemon \in [at : {"off", "exec", "up"}, env : [EnvKeys -> Nat], account : 0..accounts,
                 half : BOOLEAN, fresh : BOOLEAN]
  /\ apart \in BOOLEAN
  /\ daemon.at = "up" => daemon.account # None /\ daemon.env["SECRET"] # None

\* The doctor has no way to look at the secret, and is right all the same: in a shell
\* where it finds the webhook in order, the daemon comes up, verifies deliveries with
\* the secret that was made for that webhook and can recover it - and in no other,
\* whatever the shell has sourced and whichever commands raced or died since.
DoctorTellsTruth ==
  \A c \in Procs :
    LET env == shell[c]
    IN WebhookCheck(env, file["env"]) = "ok" <=>
         /\ Configures(env, file["env"])
         /\ env["SECRET"] = env["ID"]
         /\ Hook(env["ID"], ResolveApiKey(env, file["env"])) \in hooks

\* A daemon never verifies the deliveries of one webhook and recovers another, however
\* old its environment is and however .env was rewritten, by commands that raced or
\* died, before it was sourced: unless the operator himself gave it half a webhook.
DaemonKeepsPair ==
  daemon.at = "up" /\ ~daemon.half => daemon.env["ID"] = daemon.env["SECRET"]

\* Unless commands overlapped or died, a daemon that was started since the last of
\* them, by systemd or in a shell that knows nothing else than .env says, is who
\* SOUL.md says the agent is.  A webhook it was given the id of is its account's, and
\* the secret that webhook's - unless .env was left with two accounts, or defines the
\* webhook twice (webhook delete looks at the first definition, systemd at the last).
UpToDate(env, ls) == \A k \in EnvKeys : env[k] \in {None, LastWins(ls, k)}

DaemonSpeaksForSoul ==
  daemon.at = "up" /\ daemon.fresh /\ ~disturbed /\ UpToDate(daemon.env, file["env"]) =>
    /\ Claims(file["soul"]) = {daemon.account}
    /\ daemon.env["ID"] # None /\ ~apart /\ Cardinality(Defs(file["env"], "ID")) <= 1 =>
         /\ Hook(daemon.env["ID"], daemon.account) \in hooks
         /\ daemon.env["SECRET"] = daemon.env["ID"]
=============================================================================
