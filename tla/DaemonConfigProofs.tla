------------------------- MODULE DaemonConfigProofs -------------------------
(***************************************************************************)
(* Proofs about DaemonConfig: what the daemon and the doctor make of the   *)
(* credentials, on the proofs about the commands that keep those.          *)
(***************************************************************************)
EXTENDS DaemonConfig, CredentialsProofs

\* The daemon changes nothing of what the commands keep: with it, the system is still
\* one of module Credentials.
LEMMA CommandsAsBefore == CommandStep => Next
BY DEF CommandStep, WriteEnv, Next

LEMMA DaemonStep == [DaemonNext]_configVars => [Next]_vars
BY CommandsAsBefore DEF DaemonNext, configVars, StartUnit, StartInShell, Configure, StopDaemon

THEOREM DaemonKeepsCredentials == DaemonSpec => Spec
<1>1. DaemonInit => Init
  BY DEF DaemonInit
<1>2. QED BY <1>1, DaemonStep, PTL DEF DaemonSpec, Spec

-----------------------------------------------------------------------------
\* What a daemon that is up holds is of the environment it was started with.
DaemonEnv(env, half) ==
  /\ env \in [EnvKeys -> Nat] /\ env["API_KEY"] \in 0..accounts
  /\ half \in BOOLEAN
  /\ ~half => env["SECRET"] = env["ID"]

DaemonGood ==
  /\ daemon \in [at : {"off", "exec", "up"}, env : [EnvKeys -> Nat], account : 0..accounts,
                 half : BOOLEAN, fresh : BOOLEAN]
  /\ apart \in BOOLEAN
  /\ daemon.at = "up" => daemon.account # None /\ daemon.env["SECRET"] # None
  /\ DaemonEnv(daemon.env, daemon.half)

LEMMA SourcedGood ==
  ASSUME NEW a \in Nat, NEW ls, EnvGood(ls, a)
  PROVE  LET e == Sourced(NoEnv, ls)
         IN  /\ e \in [EnvKeys -> Nat] /\ e["API_KEY"] \in 0..a
             /\ e["API_KEY"] = LastWins(ls, "API_KEY")
             /\ e["SECRET"] = LastWins(ls, "SECRET") /\ e["ID"] = LastWins(ls, "ID")
<1>1. ls \in Lines /\ Keyed(ls, a)
  BY DEF EnvGood
<1>2. (\A k : LastWins(ls, k) \in Nat) /\ LastWins(ls, "API_KEY") \in 0..a
  BY <1>1, ValuesRead
<1>3. \A k : Defs(ls, k) = {} => LastWins(ls, k) = None
  BY DEF LastWins
<1>4. Sourced(NoEnv, ls) = [k \in EnvKeys |-> LastWins(ls, k)]
  BY <1>3 DEF Sourced, NoEnv
<1>5. QED BY <1>2, <1>4 DEF EnvKeys

\* What the operator gives is of one account, or of one webhook.
LEMMA GivenGood ==
  ASSUME accounts \in Nat, subscribed \in Nat, NEW g \in Given
  PROVE  /\ g \in [EnvKeys -> Nat] /\ g["API_KEY"] \in 0..accounts
         /\ g["SECRET"] # None /\ g["ID"] # None => g["SECRET"] = g["ID"]
<1>. USE DEF None, EnvKeys, NoEnv
<1>1. CASE \E a \in 0..accounts : g = [NoEnv EXCEPT !["API_KEY"] = a]
  BY <1>1
<1>2. CASE \E n \in 1..subscribed : \E s, i \in {None, n} : g = [NoEnv EXCEPT !["SECRET"] = s, !["ID"] = i]
  BY <1>2
<1>3. QED BY <1>1, <1>2 DEF Given

LEMMA OverGood ==
  ASSUME Sound, NEW c \in Procs, NEW g \in Given
  PROVE  DaemonEnv(Over(g, shell[c]), Half(g))
<1>. DEFINE e == shell[c]
            o == Over(g, e)
<1>1. /\ accounts \in Nat /\ subscribed \in Nat
      /\ e \in [EnvKeys -> Nat] /\ e["API_KEY"] \in 0..accounts /\ e["SECRET"] = e["ID"]
  BY DEF Sound, Typed, ShellsGood
<1>2. /\ g \in [EnvKeys -> Nat] /\ g["API_KEY"] \in 0..accounts
      /\ g["SECRET"] # None /\ g["ID"] # None => g["SECRET"] = g["ID"]
  BY <1>1, GivenGood
<1>. HIDE DEF e
<1>3. /\ o \in [EnvKeys -> Nat]
      /\ \A k \in EnvKeys : o[k] = IF g[k] # None THEN g[k] ELSE e[k]
  BY <1>1, <1>2 DEF Over
<1>4. Half(g) \in BOOLEAN
  BY DEF Half
<1>. HIDE DEF o
<1>5. o["API_KEY"] \in 0..accounts
  BY <1>1, <1>2, <1>3 DEF EnvKeys
<1>6. ASSUME ~Half(g)  PROVE o["SECRET"] = o["ID"]
  BY <1>1, <1>2, <1>3, <1>6 DEF Half, EnvKeys
<1>7. QED BY <1>3, <1>4, <1>5, <1>6 DEF DaemonEnv, o, e

LEMMA KeyResolved ==
  ASSUME Sound, NEW env, env["API_KEY"] \in 0..accounts
  PROVE  ResolveApiKey(env, file["env"]) \in 0..accounts
<1>1. file["env"] \in Lines /\ Keyed(file["env"], accounts) /\ accounts \in Nat
  BY DEF Sound, FilesGood, EnvGood, Typed
<1>2. ReadEnvVar(file["env"], "API_KEY") \in 0..accounts
  BY <1>1, ValuesRead
<1>3. QED BY <1>2 DEF ResolveApiKey

-----------------------------------------------------------------------------
\* No command takes an account away.
LEMMA AccountsStay ==
  ASSUME Sound, [Next]_vars
  PROVE  accounts \in Nat /\ accounts' \in Nat /\ accounts <= accounts'
<1>1. accounts \in Nat
  BY DEF Sound, Typed
<1>2. CASE UNCHANGED vars
  BY <1>1, <1>2 DEF vars, platform
<1>3. CASE Next
  <2>1. accounts' = accounts \/ accounts' = accounts + 1
    BY <1>3 DEF Next, Source, Start, Mint, Me, Client, Subscribe, Unsubscribe, Check, Read,
                Truncate, Write, EndEarly, platform
  <2>2. QED BY <1>1, <2>1
<1>4. QED BY <1>2, <1>3

LEMMA DaemonGoodInit == DaemonInit /\ Sound => DaemonGood
<1>1. NoEnv \in [EnvKeys -> Nat] /\ NoEnv["API_KEY"] = 0 /\ NoEnv["SECRET"] = NoEnv["ID"]
  BY DEF NoEnv, None, EnvKeys
<1>2. QED BY <1>1 DEF DaemonInit, DaemonGood, DaemonEnv, Off, None, Sound, Typed

\* A daemon that starts has taken an environment, and nothing else yet.
LEMMA StartedGood ==
  ASSUME Sound, NEW e, NEW half, DaemonEnv(e, half), Started(e, half), UNCHANGED <<vars, apart>>, DaemonGood
  PROVE  /\ DaemonGood'
         /\ daemon'.at = "exec" /\ daemon'.env = e
         /\ daemon'.fresh <=> \A c \in Procs : ~Running(c)
<1>. DEFINE b == \A c \in Procs : ~Running(c)
<1>1. b \in BOOLEAN
  OBVIOUS
<1>2. accounts' = accounts /\ accounts \in Nat /\ apart' = apart /\ apart \in BOOLEAN
  BY DEF vars, platform, Sound, Typed, DaemonGood
<1>3. e \in [EnvKeys -> Nat] /\ half \in BOOLEAN
  BY DEF DaemonEnv
<1>4. daemon' = [at |-> "exec", env |-> e, account |-> 0, half |-> half, fresh |-> b]
  BY DEF Started, Off, None
<1>. HIDE DEF b
<1>5. /\ daemon' \in [at : {"off", "exec", "up"}, env : [EnvKeys -> Nat], account : 0..accounts,
                      half : BOOLEAN, fresh : BOOLEAN]
      /\ daemon'.at = "exec" /\ daemon'.env = e /\ daemon'.half = half /\ daemon'.fresh = b
  BY <1>1, <1>2, <1>3, <1>4
<1>6. DaemonEnv(e, half)'
  BY <1>2 DEF DaemonEnv
<1>7. QED BY <1>2, <1>5, <1>6 DEF DaemonGood, DaemonEnv, b

LEMMA DaemonGoodNext == Sound /\ DaemonGood /\ [DaemonNext]_configVars => DaemonGood'
<1>. SUFFICES ASSUME Sound, DaemonGood, [DaemonNext]_configVars PROVE DaemonGood'
  OBVIOUS
<1>1. accounts \in Nat /\ EnvGood(file["env"], accounts)
  BY DEF Sound, Typed, FilesGood
<1>2. ASSUME accounts' = accounts, apart' = apart, daemon' = Off
      PROVE  DaemonGood'
  <2>1. NoEnv \in [EnvKeys -> Nat] /\ NoEnv["API_KEY"] = 0 /\ NoEnv["SECRET"] = NoEnv["ID"]
    BY DEF NoEnv, None, EnvKeys
  <2>2. QED BY <1>1, <1>2, <2>1 DEF DaemonGood, DaemonEnv, Off, None
<1>3. CASE UNCHANGED configVars
  BY <1>3 DEF configVars, vars, platform, DaemonGood, DaemonEnv
<1>4. CASE StartUnit
  <2>. DEFINE e == Sourced(NoEnv, file["env"])
  <2>1. /\ e \in [EnvKeys -> Nat] /\ e["API_KEY"] \in 0..accounts
        /\ e["SECRET"] = LastWins(file["env"], "SECRET") /\ e["ID"] = LastWins(file["env"], "ID")
    BY <1>1, SourcedGood
  <2>2. Started(e, FALSE) /\ UNCHANGED <<vars, apart>>
    BY <1>4 DEF StartUnit
  <2>. HIDE DEF e
  <2>3. e["SECRET"] = e["ID"]
    BY <1>1, <2>1 DEF EnvGood, Paired
  <2>4. DaemonEnv(e, FALSE)
    BY <2>1, <2>3 DEF DaemonEnv
  <2>5. QED BY <2>2, <2>4, StartedGood
<1>5. ASSUME NEW c \in Procs, StartInShell(c)  PROVE DaemonGood'
  <2>1. PICK g \in Given : Started(Over(g, shell[c]), Half(g))
    BY <1>5 DEF StartInShell
  <2>2. DaemonEnv(Over(g, shell[c]), Half(g)) /\ UNCHANGED <<vars, apart>>
    BY <1>5, OverGood DEF StartInShell
  <2>3. QED BY <2>1, <2>2, StartedGood
<1>6. CASE Configure
  <2>. DEFINE e == daemon.env
              a == ResolveApiKey(e, file["env"])
  <2>1. accounts' = accounts /\ apart' = apart
    BY <1>6 DEF Configure, vars, platform
  <2>2. CASE Configures(e, file["env"])
    <3>1. a \in 0..accounts /\ a # None /\ e["SECRET"] # None
      BY <2>2, KeyResolved DEF DaemonGood, DaemonEnv, Configures
    <3>2. daemon' = [daemon EXCEPT !.at = "up", !.account = a]
      BY <1>6, <2>2 DEF Configure
    <3>. HIDE DEF a
    <3>3. QED BY <1>1, <2>1, <3>1, <3>2 DEF DaemonGood, DaemonEnv
  <2>3. CASE ~Configures(e, file["env"])
    <3>1. daemon' = Off
      BY <1>6, <2>3 DEF Configure
    <3>2. QED BY <1>2, <2>1, <3>1
  <2>4. QED BY <2>2, <2>3
<1>7. CASE StopDaemon
  BY <1>2, <1>7 DEF StopDaemon, vars, platform
<1>8. CASE CommandStep
  <2>1. accounts' \in Nat /\ accounts <= accounts'
    BY <1>8, CommandsAsBefore, AccountsStay
  <2>2. \A v \in 0..accounts : v \in 0..accounts'
    BY <1>1, <2>1
  <2>3. daemon' = [daemon EXCEPT !.fresh = daemon.fresh /\ commands' = commands]
    BY <1>8 DEF CommandStep
  <2>4. (daemon.fresh /\ commands' = commands) \in BOOLEAN
    OBVIOUS
  <2>5. /\ daemon' \in [at : {"off", "exec", "up"}, env : [EnvKeys -> Nat], account : 0..accounts',
                        half : BOOLEAN, fresh : BOOLEAN]
        /\ daemon'.at = daemon.at /\ daemon'.env = daemon.env /\ daemon'.half = daemon.half
        /\ daemon'.account = daemon.account
    BY <1>1, <2>2, <2>3, <2>4 DEF DaemonGood
  <2>6. DaemonEnv(daemon.env, daemon.half)'
    BY <2>2, <2>5 DEF DaemonGood, DaemonEnv
  <2>7. apart' \in BOOLEAN
    <3>1. CASE \E c \in Procs : WriteEnv(c)
      <4>1. PICK c \in Procs : WriteEnv(c)
        BY <3>1
      <4>2. proc[c].cmd \in Commands
        BY <4>1, Standing DEF WriteEnv, Write, At, Sound
      <4>3. QED BY <4>1, <4>2 DEF WriteEnv, Commands, DaemonGood
    <3>2. CASE UNCHANGED apart
      BY <3>2 DEF DaemonGood
    <3>3. QED BY <1>8, <3>1, <3>2 DEF CommandStep
  <2>8. QED BY <2>5, <2>6, <2>7 DEF DaemonGood
<1>9. QED BY <1>3, <1>4, <1>5, <1>6, <1>7, <1>8 DEF DaemonNext

LEMMA DaemonSound == DaemonSpec => [](Sound /\ DaemonGood)
<1>1. DaemonInit => Sound /\ DaemonGood
  BY SoundInit, DaemonGoodInit DEF DaemonInit
<1>2. Sound /\ DaemonGood /\ [DaemonNext]_configVars => Sound' /\ DaemonGood'
  BY SoundNext, DaemonStep, DaemonGoodNext
<1>3. QED BY <1>1, <1>2, PTL DEF DaemonSpec

\* The daemon's variables have their types, and a daemon that is up has an account the
\* platform knows and a secret, whatever became of .env since.
THEOREM DaemonTypeCorrect == DaemonSpec => []DaemonTypeOK
<1>1. DaemonSpec => []TypeOK
  BY DaemonKeepsCredentials, TypeCorrect, PTL
<1>2. TypeOK /\ DaemonGood => DaemonTypeOK
  BY DEF DaemonGood, DaemonTypeOK
<1>3. QED BY <1>1, <1>2, DaemonSound, PTL

\* No daemon verifies one webhook's deliveries and recovers another, whichever way it
\* was started (cli.py:210-211), unless it was given half a webhook.
THEOREM DaemonAlwaysKeepsPair == DaemonSpec => []DaemonKeepsPair
<1>1. DaemonGood => DaemonKeepsPair
  BY DEF DaemonGood, DaemonEnv, DaemonKeepsPair
<1>2. QED BY <1>1, DaemonSound, PTL

\* The doctor finds the webhook in order in a shell exactly if a daemon started there
\* comes up and verifies with the secret of that webhook.
THEOREM DoctorAlwaysTellsTruth == DaemonSpec => []DoctorTellsTruth
<1>1. Sound => DoctorTellsTruth
  <2>. SUFFICES ASSUME Sound, NEW c \in Procs
                PROVE  LET env == shell[c]
                       IN WebhookCheck(env, file["env"]) = "ok" <=>
                            /\ Configures(env, file["env"])
                            /\ env["SECRET"] = env["ID"]
                            /\ Hook(env["ID"], ResolveApiKey(env, file["env"])) \in hooks
    BY DEF DoctorTellsTruth
  <2>. DEFINE env == shell[c]
              a == ResolveApiKey(env, file["env"])
  <2>1. env["SECRET"] = env["ID"]
    BY DEF Sound, ShellsGood
  <2>. HIDE DEF env, a
  <2>2. WebhookCheck(env, file["env"]) = "ok" <=>
          a # None /\ env["SECRET"] # None /\ env["ID"] # None /\ Hook(env["ID"], a) \in hooks
    BY DEF WebhookCheck, a
  <2>3. QED BY <2>1, <2>2 DEF Configures, env, a
<1>2. QED BY <1>1, DaemonSound, PTL

-----------------------------------------------------------------------------
\* A daemon no command ran since the start of: nobody has rewritten .env since.
FreshGood ==
  daemon.fresh /\ daemon.at # "off" =>
    /\ \A c \in Procs : ~Running(c)
    /\ daemon.at = "up" => daemon.account = ResolveApiKey(daemon.env, file["env"])

LEMMA FreshGoodNext == DaemonGood /\ Sound /\ FreshGood /\ [DaemonNext]_configVars => FreshGood'
<1>. SUFFICES ASSUME DaemonGood, Sound, FreshGood, [DaemonNext]_configVars,
                     daemon'.fresh, daemon'.at # "off"
              PROVE  /\ \A c \in Procs : ~Running(c)'
                     /\ daemon'.at = "up" => daemon'.account = ResolveApiKey(daemon'.env, file'["env"])
  BY DEF FreshGood
<1>1. CASE UNCHANGED configVars
  BY <1>1 DEF configVars, vars, FreshGood, Running
<1>2. ASSUME NEW e, NEW half, DaemonEnv(e, half), Started(e, half), UNCHANGED <<vars, apart>>
      PROVE  (\A c \in Procs : ~Running(c)') /\ daemon'.at # "up"
  <2>1. daemon'.at = "exec" /\ (daemon'.fresh <=> \A c \in Procs : ~Running(c))
    BY <1>2, StartedGood
  <2>2. QED BY <1>2, <2>1 DEF vars, Running
<1>3. CASE StartUnit
  <2>. DEFINE e == Sourced(NoEnv, file["env"])
  <2>1. /\ e \in [EnvKeys -> Nat] /\ e["API_KEY"] \in 0..accounts
        /\ e["SECRET"] = LastWins(file["env"], "SECRET") /\ e["ID"] = LastWins(file["env"], "ID")
        /\ Paired(file["env"])
    BY SourcedGood DEF Sound, Typed, FilesGood, EnvGood
  <2>2. Started(e, FALSE) /\ UNCHANGED <<vars, apart>>
    BY <1>3 DEF StartUnit
  <2>. HIDE DEF e
  <2>3. DaemonEnv(e, FALSE)
    BY <2>1 DEF DaemonEnv, Paired
  <2>4. QED BY <1>2, <2>2, <2>3
<1>4. ASSUME NEW c \in Procs, StartInShell(c)
      PROVE  (\A d \in Procs : ~Running(d)') /\ daemon'.at # "up"
  <2>1. PICK g \in Given : Started(Over(g, shell[c]), Half(g))
    BY <1>4 DEF StartInShell
  <2>2. DaemonEnv(Over(g, shell[c]), Half(g)) /\ UNCHANGED <<vars, apart>>
    BY <1>4, OverGood DEF StartInShell
  <2>3. QED BY <1>2, <2>1, <2>2
<1>5. CASE Configure
  <2>. DEFINE a == ResolveApiKey(daemon.env, file["env"])
  <2>1. /\ daemon.at = "exec" /\ file' = file /\ proc' = proc
        /\ daemon' = [daemon EXCEPT !.at = "up", !.account = a] \/ daemon' = Off
    BY <1>5 DEF Configure, vars
  <2>. HIDE DEF a
  <2>2. daemon' = [daemon EXCEPT !.at = "up", !.account = a]
    BY <2>1 DEF Off
  <2>3. daemon'.account = a /\ daemon'.env = daemon.env /\ daemon'.fresh = daemon.fresh
    BY <2>2 DEF DaemonGood
  <2>4. QED BY <2>1, <2>3 DEF FreshGood, Running, a
<1>6. CASE StopDaemon
  BY <1>6 DEF StopDaemon, Off
<1>7. CASE CommandStep
  <2>1. daemon' = [daemon EXCEPT !.fresh = daemon.fresh /\ commands' = commands] /\ Next
    BY <1>7, CommandsAsBefore DEF CommandStep
  <2>2. /\ daemon'.at = daemon.at /\ daemon'.env = daemon.env /\ daemon'.account = daemon.account
        /\ daemon.fresh /\ commands' = commands
    BY <2>1 DEF DaemonGood
  <2>3. \A c \in Procs : ~Running(c)
    BY <2>2 DEF FreshGood
  <2>4. \E c \in Procs : Source(c)
    <3>1. commands \in Nat
      BY DEF Sound, Typed
    <3>2. ASSUME NEW c \in Procs, NEW cmd \in DOMAIN Program, Start(c, cmd)
          PROVE  FALSE
      <4>1. commands' = commands + 1
        BY <3>2 DEF Start
      <4>2. QED BY <2>2, <3>1, <4>1
    <3>3. \A c \in Procs : ~(Mint(c) \/ Me(c) \/ Client(c) \/ Subscribe(c) \/ Unsubscribe(c) \/ Check(c)
                             \/ Read(c) \/ Truncate(c) \/ Write(c) \/ EndEarly(c))
      BY <2>3 DEF Mint, Me, Client, Subscribe, Unsubscribe, Check, Read, Truncate, Write, EndEarly, At
    <3>4. QED BY <2>1, <3>2, <3>3 DEF Next
  <2>5. file' = file /\ proc' = proc
    BY <2>4 DEF Source
  <2>6. QED BY <2>2, <2>3, <2>5 DEF FreshGood, Running
<1>8. QED BY <1>1, <1>3, <1>4, <1>5, <1>6, <1>7 DEF DaemonNext

\* A key that .env defines at most once is the same to all its readers.
LEMMA SingleReadAlike ==
  ASSUME NEW ls \in Lines, NEW k, Single(ls, k)
  PROVE  LastWins(ls, k) = ReadEnvVar(ls, k)
<1>1. CASE Defs(ls, k) = {}
  BY <1>1 DEF LastWins, ReadEnvVar
<1>2. CASE Defs(ls, k) # {}
  <2>1. First(ls, k) = Latest(ls, k)
    BY <1>2, FirstAndLatest DEF Single
  <2>2. QED BY <1>2, <2>1 DEF LastWins, ReadEnvVar
<1>3. QED BY <1>1, <1>2

LEMMA AtMostOneSingle ==
  ASSUME NEW ls \in Lines, NEW k, Cardinality(Defs(ls, k)) <= 1
  PROVE  Single(ls, k)
<1>. DEFINE D == Defs(ls, k)
<1>1. IsFiniteSet(D) /\ Cardinality(D) \in Nat
  <2>1. Len(ls) \in Nat /\ D \subseteq 1..Len(ls)
    BY LinesProperties
  <2>2. IsFiniteSet(1..Len(ls))
    BY <2>1, FS_Interval
  <2>. HIDE DEF D
  <2>3. QED BY <2>1, <2>2, FS_Subset, FS_CardinalityType
<1>. SUFFICES ASSUME D # {} PROVE Single(ls, k)
  BY DEF Single
<1>2. Cardinality(D) <= 1
  OBVIOUS
<1>. HIDE DEF D
<1>3. Cardinality(D) # 0
  BY <1>1, FS_EmptySet
<1>4. Cardinality(D) = 1
  BY <1>1, <1>2, <1>3
<1>5. \E x : D = {x}
  BY <1>1, <1>4, FS_Singleton
<1>6. QED BY <1>5 DEF Single, D

-----------------------------------------------------------------------------
(***************************************************************************)
(* Whose webhook .env names.  While nothing was disturbed and .env was not *)
(* left with two accounts, its webhook is its account's at every rest, and *)
(* what there is of that while a command runs alone.                       *)
(***************************************************************************)
Owned(env, hs, a) ==
  ~a /\ ReadEnvVar(env, "ID") # None /\ ReadEnvVar(env, "API_KEY") # None =>
    Hook(ReadEnvVar(env, "ID"), ReadEnvVar(env, "API_KEY")) \in hs

\* The webhook that is being deleted is gone before .env is rewritten.
Leaving(p, env) == p.cmd = "delete" /\ Place(p) = -1 /\ ReadEnvVar(env, "ID") = p.hook

OwnedHalfWay(p, env, hs, a) ==
  /\ p.cmd = "setup" /\ Place(p) >= 0 => Hook(p.hook, p.account) \in hs
  /\ Place(p) \in {0, 1, 2} \/ Leaving(p, env) \/ Owned(env, hs, a)

AllOwned ==
  ~disturbed =>
    /\ (\A c \in Procs : ~Running(c)) => Owned(file["env"], hooks, apart)
    /\ \A c \in Procs : Running(c) => OwnedHalfWay(proc[c], file["env"], hooks, apart)

LEMMA AllOwnedInit == DaemonInit => AllOwned
<1>1. Init => \A c \in Procs : ~Running(c)
  BY IdleType DEF Init, Running
<1>2. QED BY <1>1 DEF DaemonInit, AllOwned, Owned

\* While nothing was disturbed a command that runs is alone.
LEMMA AllOwnedKept ==
  ASSUME Undisturbed, ~disturbed, NEW c \in Procs, Running(c), OnlyMoves(c),
         IF proc'[c].cmd = "none" THEN Owned(file'["env"], hooks', apart')
                                  ELSE OwnedHalfWay(proc'[c], file'["env"], hooks', apart')
  PROVE  AllOwned'
<1>1. \A d \in Procs : d # c => ~Running(d)
  BY DEF Undisturbed
<1>2. \A d \in Procs : Running(d)' => d = c
  BY <1>1 DEF OnlyMoves, Running
<1>3. Running(c)' <=> proc'[c].cmd # "none"
  BY DEF Running
<1>4. QED BY <1>2, <1>3 DEF AllOwned

\* The calls of the API, and what ends there.
LEMMA AllOwnedCalls ==
  ASSUME Sound, Undisturbed, AllOwned, UNCHANGED apart, ~disturbed', NEW c \in Procs,
         Mint(c) \/ Me(c) \/ Client(c) \/ Subscribe(c) \/ Unsubscribe(c) \/ Check(c) \/ EndEarly(c)
  PROVE  AllOwned'
<1>. DEFINE p == proc[c]
            q == proc'[c]
            env == file["env"]
<1>1. file' = file /\ ~disturbed /\ Running(c)
  <2>1. CASE Mint(c) \/ Me(c) \/ Client(c)
    BY <2>1 DEF Mint, Me, Client, At, history
  <2>2. CASE Subscribe(c) \/ Unsubscribe(c) \/ Check(c)
    BY <2>2 DEF Subscribe, Unsubscribe, Check, At, history
  <2>3. CASE EndEarly(c)
    BY <2>3 DEF EndEarly
  <2>4. QED BY <2>1, <2>2, <2>3
<1>2. OwnedHalfWay(p, env, hooks, apart)
  BY <1>1 DEF AllOwned
<1>3. CASE Mint(c) \/ Me(c) \/ Client(c)
  <2>1. hooks' = hooks
    BY <1>3 DEF Mint, Me, Client, platform
  <2>2. /\ OnlyMoves(c)
        /\ q.cmd = p.cmd \/ q.cmd = "none"
        /\ q.cmd # "none" => Place(q) = Place(p) + 1
        /\ \/ p.cmd = "register" /\ Place(p) \in {-2, -1}
           \/ p.cmd = "setup" /\ Place(p) = -2
           \/ p.cmd = "delete" /\ Place(p) = -3
    BY <1>3, Movements, IdleType DEF Goes, Ends
  <2>. HIDE DEF p, q, env
  <2>3. Owned(env, hooks, apart)
    BY <1>2, <2>2 DEF OwnedHalfWay, Leaving
  <2>4. q.cmd # "none" => OwnedHalfWay(q, env, hooks, apart)
    BY <2>2, <2>3 DEF OwnedHalfWay
  <2>5. QED BY <1>1, <2>1, <2>2, <2>3, <2>4, AllOwnedKept DEF q, env
<1>4. CASE Subscribe(c)
  <2>. DEFINE h == Hook(subscribed + 1, p.account)
  <2>1. hooks' = hooks \cup {h}
    BY <1>4 DEF Subscribe, Hook
  <2>2. /\ OnlyMoves(c) /\ q.cmd = "setup" /\ Place(q) = 0
        /\ q.hook = subscribed + 1 /\ q.account = p.account
    BY <1>4, Movements DEF Goes
  <2>3. h \in hooks' /\ h = Hook(q.hook, q.account)
    BY <2>1, <2>2
  <2>. HIDE DEF p, q, env, h
  <2>4. OwnedHalfWay(q, env, hooks', apart)
    BY <2>2, <2>3 DEF OwnedHalfWay
  <2>5. QED BY <1>1, <2>2, <2>4, AllOwnedKept DEF q, env
<1>5. CASE Unsubscribe(c)
  <2>. DEFINE h == Hook(p.hook, p.account)
  <2>1. hooks' \in {hooks, hooks \ {h}}
    BY <1>5 DEF Unsubscribe, Hook
  <2>2. /\ OnlyMoves(c) /\ p.cmd = "delete" /\ Place(p) = -2
        /\ \/ q.cmd = "none" /\ hooks' = hooks
           \/ q.cmd = "delete" /\ Place(q) = -1 /\ q.hook = p.hook
    BY <1>5, Movements, IdleType DEF Goes, Ends
  <2>3. \A n, a : Hook(n, a) = h => n = p.hook
    BY DEF Hook
  <2>. HIDE DEF p, q, env, h
  <2>4. Owned(env, hooks, apart)
    BY <1>2, <2>2 DEF OwnedHalfWay, Leaving
  <2>5. ReadEnvVar(env, "ID") = p.hook \/ Owned(env, hooks', apart)
    BY <2>1, <2>3, <2>4 DEF Owned
  <2>6. q.cmd = "delete" => OwnedHalfWay(q, env, hooks', apart)
    BY <2>2, <2>5 DEF OwnedHalfWay, Leaving
  <2>7. QED BY <1>1, <2>2, <2>4, <2>6, AllOwnedKept DEF q, env
<1>6. CASE Check(c)
  <2>1. hooks' = hooks
    BY <1>6 DEF Check, platform
  <2>2. /\ OnlyMoves(c) /\ p.cmd = "delete" /\ Place(p) = -1
        /\ \/ q.cmd = "none" /\ ReadEnvVar(env, "ID") # p.hook
           \/ q.cmd = "delete" /\ Place(q) = 0
    BY <1>6, Movements, IdleType DEF Goes, Ends
  <2>. HIDE DEF p, q, env
  <2>3. q.cmd = "none" => Owned(env, hooks, apart)
    BY <1>2, <2>2 DEF OwnedHalfWay, Leaving
  <2>4. q.cmd = "delete" => OwnedHalfWay(q, env, hooks, apart)
    BY <2>2 DEF OwnedHalfWay
  <2>5. QED BY <1>1, <2>1, <2>2, <2>3, <2>4, AllOwnedKept DEF q, env
<1>7. CASE EndEarly(c)
  <2>1. hooks' = hooks /\ Target(c) = "api"
    BY <1>7 DEF EndEarly, platform
  <2>2. OnlyMoves(c) /\ q.cmd = "none"
    BY <1>7, Movements, IdleType DEF Ends
  <2>3. Place(p) \in Int /\ Place(p) < 0 /\ ~(p.cmd = "delete" /\ Place(p) = -1)
    BY <1>1, <2>1, Standing DEF Sound
  <2>. HIDE DEF p, q, env
  <2>4. Owned(env, hooks, apart)
    BY <1>2, <2>3 DEF OwnedHalfWay, Leaving
  <2>5. QED BY <1>1, <2>1, <2>2, <2>4, AllOwnedKept DEF q, env
<1>8. QED BY <1>3, <1>4, <1>5, <1>6, <1>7

\* The rewrite of a file, but for the write of .env.
LEMMA AllOwnedRewrites ==
  ASSUME Sound, Undisturbed, AllOwned, UNCHANGED apart, ~disturbed', NEW c \in Procs,
         Read(c) \/ Truncate(c) \/ (Write(c) /\ Target(c) # "env")
  PROVE  AllOwned'
<1>. DEFINE p == proc[c]
            q == proc'[c]
            env == file["env"]
<1>1. hooks' = hooks /\ ~disturbed /\ Running(c)
  BY DEF Read, Truncate, Write, At, platform, history
<1>2. OwnedHalfWay(p, env, hooks, apart)
  BY <1>1 DEF AllOwned
<1>3. CASE Read(c)
  <2>1. file' = file
    BY <1>3 DEF Read
  <2>2. \/ /\ Place(p) = 0 /\ p.cmd = "logout" /\ Goes(c, 3, p.account, p.hook, p.copy)
           /\ Defs(env, "API_KEY") = {}
        \/ Place(p) = 3 /\ Ends(c)
        \/ Place(p) = 0 /\ Goes(c, 1, p.account, p.hook, env)
        \/ Place(p) = 3 /\ Goes(c, 1, p.account, p.hook, file["soul"])
    <3>1. \/ Place(p) = 0 /\ Target(c) = "env"
          \/ Place(p) = 3 /\ Target(c) = "soul"
      BY <1>3, Movements
    <3>2. NothingToClear(c, "env") => Defs(env, "API_KEY") = {}
      BY DEF NothingToClear
    <3>3. CASE Place(p) = 0 /\ Target(c) = "env"
      BY <1>3, <3>2, <3>3, Movements
    <3>4. CASE Place(p) = 3 /\ Target(c) = "soul"
      BY <1>3, <3>4, Movements
    <3>5. QED BY <3>1, <3>3, <3>4
  <2>3. OnlyMoves(c) /\ q.cmd \in {p.cmd, "none"}
    BY <2>2, IdleType DEF Goes, Ends
  <2>4. \/ q.cmd = p.cmd /\ Place(q) = 1 /\ q.hook = p.hook /\ q.account = p.account /\ Place(p) = 0
        \/ q.cmd = p.cmd /\ p.cmd = "logout" /\ Place(q) = 3 /\ Defs(env, "API_KEY") = {}
        \/ q.cmd = p.cmd /\ Place(q) = 4 /\ q.hook = p.hook /\ q.account = p.account /\ Place(p) = 3
        \/ q.cmd = "none" /\ Place(p) = 3
    BY <2>2, IdleType DEF Goes, Ends
  <2>5. Defs(env, "API_KEY") = {} => Owned(env, hooks, apart)
    BY DEF Owned, ReadEnvVar
  <2>. HIDE DEF p, q, env
  <2>6. IF q.cmd = "none" THEN Owned(env, hooks, apart) ELSE OwnedHalfWay(q, env, hooks, apart)
    <3>1. CASE Place(p) = 0 /\ Place(q) = 1 /\ q.cmd = p.cmd /\ q.hook = p.hook /\ q.account = p.account
      <4>1. q.cmd = "setup" => Hook(q.hook, q.account) \in hooks
        BY <1>2, <3>1 DEF OwnedHalfWay
      <4>2. \/ q.cmd # "none" /\ OwnedHalfWay(q, env, hooks, apart)
            \/ q.cmd = "none" /\ Owned(env, hooks, apart)
        BY <1>1, <3>1, <4>1 DEF OwnedHalfWay, Leaving, Running, p
      <4>3. QED BY <4>2
    <3>2. CASE Place(p) = 3
      <4>1. Owned(env, hooks, apart)
        BY <1>2, <3>2 DEF OwnedHalfWay, Leaving
      <4>2. q.cmd = "setup" /\ q.cmd = p.cmd => Hook(p.hook, p.account) \in hooks
        BY <1>2, <3>2 DEF OwnedHalfWay
      <4>3. q.cmd = "setup" => Hook(q.hook, q.account) \in hooks
        BY <2>4, <3>2, <4>2
      <4>4. QED BY <4>1, <4>3 DEF OwnedHalfWay
    <3>3. CASE q.cmd = p.cmd /\ p.cmd = "logout" /\ Defs(env, "API_KEY") = {}
      BY <2>5, <3>3 DEF OwnedHalfWay
    <3>4. QED BY <2>4, <3>1, <3>2, <3>3
  <2>7. QED BY <1>1, <2>1, <2>3, <2>6, AllOwnedKept DEF q, env
<1>4. CASE Truncate(c)
  <2>1. /\ file' = [file EXCEPT ![Target(c)] = <<>>]
        /\ (Place(p) = 1 /\ Target(c) = "env") \/ (Place(p) = 4 /\ Target(c) = "soul")
        /\ OnlyMoves(c) /\ q.cmd = p.cmd /\ q.cmd # "none" /\ Place(q) = Place(p) + 1
        /\ q.hook = p.hook /\ q.account = p.account
    <3>1. file' = [file EXCEPT ![Target(c)] = <<>>]
      BY <1>4 DEF Truncate
    <3>2. /\ (Place(p) = 1 /\ Target(c) = "env") \/ (Place(p) = 4 /\ Target(c) = "soul")
          /\ Goes(c, 1, p.account, p.hook, p.copy)
      BY <1>4, Movements
    <3>3. QED BY <1>1, <3>1, <3>2 DEF Goes, Running
  <2>2. Target(c) = "soul" => file'["env"] = env
    BY <2>1 DEF Sound, Typed
  <2>. HIDE DEF p, q, env
  <2>3. OwnedHalfWay(q, file'["env"], hooks, apart)
    BY <1>2, <2>1, <2>2 DEF OwnedHalfWay, Leaving
  <2>4. QED BY <1>1, <2>1, <2>3, AllOwnedKept DEF q
<1>5. CASE Write(c) /\ Target(c) # "env"
  <2>1. Place(p) = 5 /\ Target(c) = "soul" /\ OnlyMoves(c) /\ q.cmd = "none"
    BY <1>5, Movements, IdleType DEF Ends
  <2>2. file'["env"] = env
    BY <1>5, <2>1 DEF Write, Sound, Typed
  <2>. HIDE DEF p, q, env
  <2>3. Owned(env, hooks, apart)
    BY <1>2, <2>1 DEF OwnedHalfWay, Leaving
  <2>4. QED BY <1>1, <2>1, <2>2, <2>3, AllOwnedKept DEF q, env
<1>6. QED BY <1>3, <1>4, <1>5

LEMMA AllOwnedWriteEnv ==
  ASSUME Sound, Undisturbed, AllOwned, ~disturbed', NEW c \in Procs, WriteEnv(c)
  PROVE  AllOwned'
<1>. DEFINE p == proc[c]
            q == proc'[c]
            t == Edited(c, "env")
<1>1. hooks' = hooks /\ ~disturbed /\ Running(c) /\ Target(c) = "env" /\ file'["env"] = t
  BY DEF WriteEnv, Write, At, platform, history, Sound, Typed
<1>2. OwnedHalfWay(p, file["env"], hooks, apart)
  BY <1>1 DEF AllOwned
<1>3. /\ Place(p) = 2 /\ OnlyMoves(c) /\ p.cmd \in Commands
      /\ q.cmd = "none" \/ (q.cmd \in {"register", "logout"} /\ Place(q) = 3)
  <2>1. Place(p) = 2 /\ p.cmd \in Commands
    BY <1>1, Movements, Standing DEF WriteEnv, Sound
  <2>2. Ends(c) \/ (p.cmd \in {"register", "logout"} /\ Goes(c, 1, p.account, p.hook, <<>>))
    BY <2>1, Movements DEF WriteEnv
  <2>3. QED BY <2>1, <2>2, IdleType DEF Goes, Ends
<1>4. /\ p.cmd = "logout" => ReadEnvVar(t, "API_KEY") = None
      /\ p.cmd = "delete" => ReadEnvVar(t, "ID") = None
  BY <1>1, <1>3, EditedEnv DEF Sound, ProcsGood
<1>5. /\ p.cmd = "register" => apart' = (ReadEnvVar(t, "ID") # None)
      /\ p.cmd = "setup" => apart' = (ReadEnvVar(t, "ID") # p.hook \/ ReadEnvVar(t, "API_KEY") # p.account)
  BY <1>1 DEF WriteEnv
<1>. HIDE DEF p, q, t
<1>6. Owned(t, hooks, apart')
  <2>1. p.cmd = "setup" => Hook(p.hook, p.account) \in hooks
    BY <1>2, <1>3 DEF OwnedHalfWay
  <2>2. CASE p.cmd = "register"
    BY <1>5, <2>2 DEF Owned
  <2>3. CASE p.cmd = "setup"
    BY <1>5, <2>1, <2>3 DEF Owned
  <2>4. CASE p.cmd \in {"logout", "delete"}
    BY <1>4, <2>4 DEF Owned
  <2>5. QED BY <1>3, <2>2, <2>3, <2>4 DEF Commands
<1>7. q.cmd # "none" => OwnedHalfWay(q, t, hooks, apart')
  BY <1>3, <1>6 DEF OwnedHalfWay
<1>8. QED BY <1>1, <1>3, <1>6, <1>7, AllOwnedKept DEF q

LEMMA AllOwnedNext == Sound /\ Undisturbed /\ AllOwned /\ [DaemonNext]_configVars => AllOwned'
<1>. SUFFICES ASSUME Sound, Undisturbed, AllOwned, [DaemonNext]_configVars, ~disturbed' PROVE AllOwned'
  BY DEF AllOwned
<1>1. CASE UNCHANGED <<vars, apart>>
  BY <1>1 DEF vars, platform, history, AllOwned, Running
<1>2. ASSUME NEW c \in Procs, WriteEnv(c)
      PROVE  AllOwned'
  BY <1>2, AllOwnedWriteEnv
<1>3. ASSUME Next, UNCHANGED apart, \A c \in Procs : ~(Write(c) /\ Target(c) = "env")
      PROVE  AllOwned'
  <2>1. ASSUME NEW c \in Procs, Source(c)
        PROVE  AllOwned'
    BY <1>3, <2>1 DEF Source, history, platform, AllOwned, Running
  <2>2. ASSUME NEW c \in Procs, NEW cmd \in DOMAIN Program, Start(c, cmd)
        PROVE  AllOwned'
    <3>. DEFINE q == proc'[c]
    <3>1. /\ file' = file /\ hooks' = hooks /\ ~disturbed /\ \A d \in Procs : ~Running(d)
      BY <2>2 DEF Start, platform
    <3>2. /\ OnlyMoves(c) /\ q.cmd = cmd /\ cmd \in Commands
          /\ cmd = "delete" => Place(q) = -3
          /\ cmd \in {"register", "setup"} => Place(q) = -2
          /\ cmd = "logout" => Place(q) = 0
      BY <2>2, StartsOnProgram DEF Sound
    <3>3. Owned(file["env"], hooks, apart)
      BY <3>1 DEF AllOwned
    <3>4. q.cmd = "setup" => Place(q) = -2
      BY <3>2
    <3>5. \A d \in Procs : Running(d)' => d = c
      BY <3>1, <3>2 DEF OnlyMoves, Running
    <3>6. Running(c)'
      BY <3>2 DEF Running, Commands, q
    <3>. HIDE DEF q
    <3>7. OwnedHalfWay(q, file["env"], hooks, apart)
      BY <3>3, <3>4 DEF OwnedHalfWay
    <3>8. QED BY <1>3, <3>1, <3>5, <3>6, <3>7 DEF AllOwned, q
  <2>3. ASSUME NEW c \in Procs,
               Mint(c) \/ Me(c) \/ Client(c) \/ Subscribe(c) \/ Unsubscribe(c) \/ Check(c) \/ EndEarly(c)
        PROVE  AllOwned'
    BY <1>3, <2>3, AllOwnedCalls
  <2>4. ASSUME NEW c \in Procs, Read(c) \/ Truncate(c) \/ Write(c)
        PROVE  AllOwned'
    BY <1>3, <2>4, AllOwnedRewrites
  <2>5. QED BY <1>3, <2>1, <2>2, <2>3, <2>4 DEF Next
<1>4. QED
  BY <1>1, <1>2, <1>3 DEF DaemonNext, configVars, StartUnit, StartInShell, Configure, StopDaemon, CommandStep

-----------------------------------------------------------------------------
LEMMA FreshSpeaks == Sound /\ Undisturbed /\ DaemonGood /\ FreshGood /\ AllOwned => DaemonSpeaksForSoul
<1>. SUFFICES ASSUME Sound, Undisturbed, DaemonGood, FreshGood, AllOwned,
                     daemon.at = "up", daemon.fresh, ~disturbed, UpToDate(daemon.env, file["env"])
              PROVE  /\ Claims(file["soul"]) = {daemon.account}
                     /\ daemon.env["ID"] # None /\ ~apart /\ Cardinality(Defs(file["env"], "ID")) <= 1 =>
                          /\ Hook(daemon.env["ID"], daemon.account) \in hooks
                          /\ daemon.env["SECRET"] = daemon.env["ID"]
  BY DEF DaemonSpeaksForSoul
<1>. DEFINE ls == file["env"]
            e == daemon.env
<1>1. /\ accounts \in Nat /\ ls \in Lines /\ Single(ls, "API_KEY") /\ Paired(ls)
  BY DEF Sound, Typed, FilesGood, EnvGood, Keyed
<1>2. /\ \A c \in Procs : ~Running(c)
      /\ daemon.account = ResolveApiKey(e, ls)
      /\ daemon.account # None /\ e["SECRET"] # None
  BY DEF FreshGood, DaemonGood
<1>3. KeyMatches(ls, file["soul"]) /\ Owned(ls, hooks, apart)
  BY <1>2 DEF Undisturbed, AllOwned
<1>4. \A k \in EnvKeys : e[k] \in {None, LastWins(ls, k)}
  BY DEF UpToDate
<1>. HIDE DEF ls, e
<1>5. LastWins(ls, "API_KEY") = ReadEnvVar(ls, "API_KEY")
  BY <1>1, SingleReadAlike
<1>6. daemon.account = ReadEnvVar(ls, "API_KEY")
  BY <1>2, <1>4, <1>5 DEF ResolveApiKey, EnvKeys
<1>7. Claims(file["soul"]) = {daemon.account}
  BY <1>2, <1>3, <1>6 DEF KeyMatches
<1>8. ASSUME e["ID"] # None, ~apart, Cardinality(Defs(ls, "ID")) <= 1
      PROVE  Hook(e["ID"], daemon.account) \in hooks /\ e["SECRET"] = e["ID"]
  <2>1. LastWins(ls, "ID") = ReadEnvVar(ls, "ID")
    BY <1>1, <1>8, AtMostOneSingle, SingleReadAlike
  <2>2. e["ID"] = LastWins(ls, "ID") /\ e["SECRET"] = LastWins(ls, "SECRET")
    BY <1>2, <1>4, <1>8 DEF EnvKeys
  <2>3. e["SECRET"] = e["ID"]
    BY <1>1, <2>2 DEF Paired
  <2>4. QED BY <1>2, <1>3, <1>6, <1>8, <2>1, <2>2, <2>3 DEF Owned
<1>9. QED BY <1>7, <1>8 DEF ls, e

\* A daemon started since the last command, when none was disturbed, by systemd
\* (colony-chat-hermes.service) or in a shell that is up to date (cli.py:185-211), is
\* who SOUL.md says the agent is; the webhook it was given the id of is its account's
\* own, unless a register or a setup left .env with two accounts.
THEOREM DaemonAlwaysSpeaksForSoul == DaemonSpec => []DaemonSpeaksForSoul
<1>1. DaemonInit => Undisturbed /\ FreshGood /\ AllOwned
  BY UndisturbedInit, AllOwnedInit DEF DaemonInit, FreshGood, Off
<1>2. Sound /\ Undisturbed /\ DaemonGood /\ FreshGood /\ AllOwned /\ [DaemonNext]_configVars
        => Undisturbed' /\ FreshGood' /\ AllOwned'
  BY DaemonStep, UndisturbedNext, FreshGoodNext, AllOwnedNext
<1>3. QED BY <1>1, <1>2, FreshSpeaks, DaemonSound, PTL DEF DaemonSpec
=============================================================================
