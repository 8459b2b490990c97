------------------------- MODULE CredentialsProofs -------------------------
(***************************************************************************)
(* Proofs about Credentials, for any processes, any number of commands and *)
(* any steps they may end at.                                              *)
(***************************************************************************)
EXTENDS Credentials, CredentialFilesProofs

Commands == {"register", "logout", "setup", "delete"}
Steps    == {"mint", "me", "client", "subscribe", "unsubscribe", "check", "read", "truncate", "write"}

ProcType ==
  [cmd : Commands \cup {"none"}, todo : Seq(Steps \X {"api", "env", "soul"}),
   account : Nat, hook : Nat, copy : Lines \cup Seq(Nat)]

\* Where a command stands: .env is rewritten at 0, 1 and 2, SOUL.md at 3, 4 and 5.
Final(cmd) == IF cmd \in {"register", "logout"} THEN 5 ELSE 2
Place(p)   == Final(p.cmd) + 1 - Len(p.todo)

\* What it still has to do is the rest of its program.
OnProgram(p) ==
  LET prog == Program[p.cmd]
  IN  /\ p.cmd \in Commands
      /\ Len(p.todo) \in 1..Len(prog)
      /\ \A i \in 1..Len(p.todo) : p.todo[i] = prog[Len(prog) - Len(p.todo) + i]

-----------------------------------------------------------------------------
\* What holds of every version of .env, in the file or read from it: the key is
\* defined once, by an account there is, and the webhook's id and secret together.
Keyed(ls, a) ==
  /\ Single(ls, "API_KEY")
  /\ \A i \in DOMAIN ls : ls[i].key = "API_KEY" => ls[i].val \in 1..a

EnvGood(ls, a) == ls \in Lines /\ Keyed(ls, a) /\ Paired(ls)

\* What a running command holds, with a accounts and s webhooks on the platform.
WellFormed(p, a, s) ==
  /\ OnProgram(p)
  /\ p.cmd \in {"register", "setup"} /\ Place(p) >= -1 => p.account \in 1..a
  /\ p.cmd = "delete" /\ Place(p) >= -2 => p.account \in 1..a
  /\ p.cmd = "setup" /\ Place(p) >= 0 => p.hook \in 1..s
  /\ p.cmd = "delete" => p.hook \in 1..s
  /\ Place(p) \in {1, 2} => EnvGood(p.copy, a)
  /\ Place(p) \in {4, 5} => p.copy \in Seq(Nat)

Typed ==
  /\ file \in [{"env", "soul"} -> Lines \cup Seq(Nat)] /\ file["soul"] \in Seq(Nat)
  /\ accounts \in Nat /\ subscribed \in Nat /\ commands \in Nat
  /\ hooks \subseteq [id : 1..subscribed, owner : 1..accounts]
  /\ proc \in [Procs -> ProcType]
  /\ shell \in [Procs -> [EnvKeys -> Nat]]
  /\ received \subseteq 1..accounts /\ persisted \subseteq 1..accounts
  /\ torn \in [{"env", "soul"} -> BOOLEAN] /\ disturbed \in BOOLEAN

FilesGood == EnvGood(file["env"], accounts)
ProcsGood == \A c \in Procs : Running(c) => WellFormed(proc[c], accounts, subscribed)
ShellsGood ==
  \A c \in Procs : shell[c]["API_KEY"] \in 0..accounts /\ shell[c]["SECRET"] = shell[c]["ID"]

Sound == Typed /\ FilesGood /\ ProcsGood /\ ShellsGood

\* The identity is not ahead of the key, nor on its way to be, with the keys of
\* accounts A written.
KeyFirst(p, A) ==
  /\ Place(p) \in {4, 5} => Claims(p.copy) \subseteq A
  /\ p.cmd = "register" /\ Place(p) >= 3 => p.account \in A

SoulBehind == SoulAfterKey /\ \A c \in Procs : Running(c) => KeyFirst(proc[c], persisted)

\* A copy read from a file that was whole has what is foreign in it.
HasForeign(f, ls) ==
  IF f = "env" THEN Defs(ls, "OTHER") # {} ELSE \E i \in DOMAIN ls : ls[i] = Foreign

CopyHas(p, t) ==
  /\ Place(p) \in {1, 2} /\ ~t["env"]  => HasForeign("env", p.copy)
  /\ Place(p) \in {4, 5} /\ ~t["soul"] => HasForeign("soul", p.copy)

Writing(p, f) == p.cmd # "none" /\ Place(p) = IF f = "env" THEN 2 ELSE 5

ForeignCopied ==
  /\ \A f \in {"env", "soul"} :
       torn[f] \/ (\E c \in Procs : Writing(proc[c], f)) \/ HasForeign(f, file[f])
  /\ \A c \in Procs : Running(c) => CopyHas(proc[c], torn)

\* One story of the two files and the platform,
KeyMatches(env, soul) == Claims(soul) = {ReadEnvVar(env, "API_KEY")} \ {None}
HookListed(env, hs) ==
  ReadEnvVar(env, "ID") # None => \E h \in hs : h.id = ReadEnvVar(env, "ID")

\* and what there is of it in the middle of a command that runs alone.
HalfWay(p, env, soul, hs) ==
  LET e == IF Place(p) = 2 THEN p.copy ELSE env
  IN  /\ Place(p) = 1 => p.copy = env
      /\ Place(p) <= 2 => KeyMatches(e, soul)
      /\ p.cmd # "delete" \/ Place(p) <= -2 => HookListed(e, hs)
      /\ p.cmd = "delete" /\ Place(p) = -1 => ReadEnvVar(e, "ID") = p.hook \/ HookListed(e, hs)
      /\ p.cmd = "setup" /\ Place(p) >= 0 => \E h \in hs : h.id = p.hook
      /\ p.cmd = "register" /\ Place(p) >= 3 => ReadEnvVar(env, "API_KEY") = p.account
      /\ p.cmd = "logout" /\ Place(p) >= 3 => ReadEnvVar(env, "API_KEY") = None

Undisturbed ==
  ~disturbed =>
    /\ \A c, d \in Procs : Running(c) /\ Running(d) => c = d
    /\ (\A c \in Procs : ~Running(c)) =>
         KeyMatches(file["env"], file["soul"]) /\ HookListed(file["env"], hooks)
    /\ \A c \in Procs : Running(c) => HalfWay(proc[c], file["env"], file["soul"], hooks)

-----------------------------------------------------------------------------
\* The four programs, step by step.
LEMMA ProgramSteps ==
  /\ DOMAIN Program = Commands
  /\ Len(Program["register"]) = 8 /\ Len(Program["logout"]) = 6
  /\ Len(Program["setup"]) = 5 /\ Len(Program["delete"]) = 6
  /\ Program["register"][1] = <<"mint", "api">>
  /\ Program["register"][2] = <<"me", "api">>
  /\ Program["register"][3] = <<"read", "env">>
  /\ Program["register"][4] = <<"truncate", "env">>
  /\ Program["register"][5] = <<"write", "env">>
  /\ Program["register"][6] = <<"read", "soul">>
  /\ Program["register"][7] = <<"truncate", "soul">>
  /\ Program["register"][8] = <<"write", "soul">>
  /\ Program["logout"][1] = <<"read", "env">>
  /\ Program["logout"][2] = <<"truncate", "env">>
  /\ Program["logout"][3] = <<"write", "env">>
  /\ Program["logout"][4] = <<"read", "soul">>
  /\ Program["logout"][5] = <<"truncate", "soul">>
  /\ Program["logout"][6] = <<"write", "soul">>
  /\ Program["setup"][1] = <<"client", "api">>
  /\ Program["setup"][2] = <<"subscribe", "api">>
  /\ Program["setup"][3] = <<"read", "env">>
  /\ Program["setup"][4] = <<"truncate", "env">>
  /\ Program["setup"][5] = <<"write", "env">>
  /\ Program["delete"][1] = <<"client", "api">>
  /\ Program["delete"][2] = <<"unsubscribe", "api">>
  /\ Program["delete"][3] = <<"check", "env">>
  /\ Program["delete"][4] = <<"read", "env">>
  /\ Program["delete"][5] = <<"truncate", "env">>
  /\ Program["delete"][6] = <<"write", "env">>
<1>1. DOMAIN Program = Commands
  BY DEF Program, Commands
<1>2. /\ Len(Program["register"]) = 8 /\ Len(Program["logout"]) = 6
      /\ Len(Program["setup"]) = 5 /\ Len(Program["delete"]) = 6
  BY DEF Program, Api, Rewrite
<1>3. /\ Program["register"][1] = <<"mint", "api">>
      /\ Program["register"][2] = <<"me", "api">>
      /\ Program["register"][3] = <<"read", "env">>
      /\ Program["register"][4] = <<"truncate", "env">>
  BY DEF Program, Api, Rewrite
<1>4. /\ Program["register"][5] = <<"write", "env">>
      /\ Program["register"][6] = <<"read", "soul">>
      /\ Program["register"][7] = <<"truncate", "soul">>
      /\ Program["register"][8] = <<"write", "soul">>
  BY DEF Program, Api, Rewrite
<1>5. /\ Program["logout"][1] = <<"read", "env">>
      /\ Program["logout"][2] = <<"truncate", "env">>
      /\ Program["logout"][3] = <<"write", "env">>
      /\ Program["logout"][4] = <<"read", "soul">>
      /\ Program["logout"][5] = <<"truncate", "soul">>
      /\ Program["logout"][6] = <<"write", "soul">>
  BY DEF Program, Api, Rewrite
<1>6. /\ Program["setup"][1] = <<"client", "api">>
      /\ Program["setup"][2] = <<"subscribe", "api">>
      /\ Program["setup"][3] = <<"read", "env">>
      /\ Program["setup"][4] = <<"truncate", "env">>
      /\ Program["setup"][5] = <<"write", "env">>
  BY DEF Program, Api, Rewrite
<1>7. /\ Program["delete"][1] = <<"client", "api">>
      /\ Program["delete"][2] = <<"unsubscribe", "api">>
      /\ Program["delete"][3] = <<"check", "env">>
      /\ Program["delete"][4] = <<"read", "env">>
      /\ Program["delete"][5] = <<"truncate", "env">>
      /\ Program["delete"][6] = <<"write", "env">>
  BY DEF Program, Api, Rewrite
<1>8. QED BY <1>1, <1>2, <1>3, <1>4, <1>5, <1>6, <1>7

\* The step a command is at, by its place.
LEMMA PlaceTable ==
  ASSUME NEW p \in ProcType, OnProgram(p)
  PROVE  LET op  == Head(p.todo)[1]
             obj == Head(p.todo)[2]
         IN  /\ Place(p) \in Int /\ Place(p) \in -3..Final(p.cmd)
             /\ p.cmd \in {"register", "setup"} => Place(p) >= -2
             /\ p.cmd = "logout" => Place(p) >= 0
             /\ op = "mint" <=> p.cmd = "register" /\ Place(p) = -2
             /\ op = "me"   <=> p.cmd = "register" /\ Place(p) = -1
             /\ op = "client" <=> \/ p.cmd = "setup" /\ Place(p) = -2
                                  \/ p.cmd = "delete" /\ Place(p) = -3
             /\ op = "subscribe"   <=> p.cmd = "setup" /\ Place(p) = -1
             /\ op = "unsubscribe" <=> p.cmd = "delete" /\ Place(p) = -2
             /\ op = "check"       <=> p.cmd = "delete" /\ Place(p) = -1
             /\ op = "read"     <=> Place(p) \in {0, 3}
             /\ op = "truncate" <=> Place(p) \in {1, 4}
             /\ op = "write"    <=> Place(p) \in {2, 5}
             /\ Place(p) \in 0..2 => obj = "env"
             /\ Place(p) \in 3..5 => obj = "soul"
             /\ obj = "api" <=> Place(p) < 0 /\ op # "check"
<1>. DEFINE prog == Program[p.cmd]
            n == Len(prog) - Len(p.todo) + 1
<1>1. p.cmd \in Commands /\ Len(p.todo) \in 1..Len(prog)
  BY DEF OnProgram
<1>2. p.todo \in Seq(Steps \X {"api", "env", "soul"}) /\ Len(p.todo) \in Nat
  BY LenProperties DEF ProcType
<1>3. Head(p.todo) = p.todo[1]
  BY <1>1, <1>2, ProgramSteps, HeadTailProperties DEF Commands
<1>4. Head(p.todo) = prog[n]
  <2>1. 1 \in 1..Len(p.todo)
    BY <1>1, <1>2
  <2>2. QED BY <1>3, <2>1 DEF OnProgram
<1>5. CASE p.cmd = "register"
  <2>1. Len(prog) = 8 /\ prog = Program["register"] /\ Final(p.cmd) = 5
    BY <1>5, ProgramSteps DEF Final
  <2>. HIDE DEF prog
  <2>2. Place(p) = n - 3 /\ n \in 1..8
    <3>. DEFINE m == Len(p.todo)
    <3>1. m \in 1..8 /\ n = 8 - m + 1 /\ Place(p) = 5 + 1 - m
      BY <1>1, <2>1 DEF Place
    <3>. HIDE DEF n, m
    <3>2. QED BY <3>1
  <2>. HIDE DEF n
  <2>3. n \in {1, 2, 3, 4, 5, 6, 7, 8}
    BY <2>2
  <2>4. Head(p.todo) = Program["register"][n]
    BY <1>4, <2>1
  <2>5. QED BY <1>5, <2>1, <2>2, <2>3, <2>4, ProgramSteps
<1>6. CASE p.cmd = "logout"
  <2>1. Len(prog) = 6 /\ prog = Program["logout"] /\ Final(p.cmd) = 5
    BY <1>6, ProgramSteps DEF Final
  <2>. HIDE DEF prog
  <2>2. Place(p) = n - 1 /\ n \in 1..6
    <3>. DEFINE m == Len(p.todo)
    <3>1. m \in 1..6 /\ n = 6 - m + 1 /\ Place(p) = 5 + 1 - m
      BY <1>1, <2>1 DEF Place
    <3>. HIDE DEF n, m
    <3>2. QED BY <3>1
  <2>. HIDE DEF n
  <2>3. n \in {1, 2, 3, 4, 5, 6}
    BY <2>2
  <2>4. Head(p.todo) = Program["logout"][n]
    BY <1>4, <2>1
  <2>5. QED BY <1>6, <2>1, <2>2, <2>3, <2>4, ProgramSteps
<1>7. CASE p.cmd = "setup"
  <2>1. Len(prog) = 5 /\ prog = Program["setup"] /\ Final(p.cmd) = 2
    BY <1>7, ProgramSteps DEF Final
  <2>. HIDE DEF prog
  <2>2. Place(p) = n - 3 /\ n \in 1..5
    <3>. DEFINE m == Len(p.todo)
    <3>1. m \in 1..5 /\ n = 5 - m + 1 /\ Place(p) = 2 + 1 - m
      BY <1>1, <2>1 DEF Place
    <3>. HIDE DEF n, m
    <3>2. QED BY <3>1
  <2>. HIDE DEF n
  <2>3. n \in {1, 2, 3, 4, 5}
    BY <2>2
  <2>4. Head(p.todo) = Program["setup"][n]
    BY <1>4, <2>1
  <2>5. QED BY <1>7, <2>1, <2>2, <2>3, <2>4, ProgramSteps
<1>8. CASE p.cmd = "delete"
  <2>1. Len(prog) = 6 /\ prog = Program["delete"] /\ Final(p.cmd) = 2
    BY <1>8, ProgramSteps DEF Final
  <2>. HIDE DEF prog
  <2>2. Place(p) = n - 4 /\ n \in 1..6
    <3>. DEFINE m == Len(p.todo)
    <3>1. m \in 1..6 /\ n = 6 - m + 1 /\ Place(p) = 2 + 1 - m
      BY <1>1, <2>1 DEF Place
    <3>. HIDE DEF n, m
    <3>2. QED BY <3>1
  <2>. HIDE DEF n
  <2>3. n \in {1, 2, 3, 4, 5, 6}
    BY <2>2
  <2>4. Head(p.todo) = Program["delete"][n]
    BY <1>4, <2>1
  <2>5. QED BY <1>8, <2>1, <2>2, <2>3, <2>4, ProgramSteps
<1>9. QED BY <1>1, <1>5, <1>6, <1>7, <1>8 DEF Commands

-----------------------------------------------------------------------------
\* A command goes on: what is left to do is n steps shorter, the rest is kept.
Onward(p, q, n) ==
  /\ q \in ProcType /\ OnProgram(q) /\ q.cmd = p.cmd /\ q.cmd # "none"
  /\ Place(q) = Place(p) + n
  /\ q.account = p.account /\ q.hook = p.hook /\ q.copy = p.copy

LEMMA IdleType == Idle \in ProcType /\ Idle.cmd = "none"
<1>1. <<>> \in Seq(Steps \X {"api", "env", "soul"}) /\ <<>> \in Seq(Nat)
  OBVIOUS
<1>2. QED BY <1>1 DEF Idle, ProcType, None

LEMMA ShortenTodo ==
  ASSUME NEW p \in ProcType, OnProgram(p), NEW n \in 1..3, Len(p.todo) > n
  PROVE  Onward(p, [p EXCEPT !.todo = SubSeq(@, n + 1, Len(@))], n)
<1>. DEFINE t == p.todo
            u == SubSeq(t, n + 1, Len(t))
            q == [p EXCEPT !.todo = u]
            T == Steps \X {"api", "env", "soul"}
            m == Len(t)
<1>1. t \in Seq(T) /\ m \in Nat
  BY LenProperties DEF ProcType
<1>2. /\ u \in Seq(T) /\ Len(u) = m - n
      /\ \A i \in 1..(m - n) : u[i] = t[n + i]
  <2>1. n + 1 \in 1..(m + 1) /\ m \in 0..m
    BY <1>1
  <2>. HIDE DEF T, t, m
  <2>2. /\ SubSeq(t, n + 1, m) \in Seq(T)
        /\ Len(SubSeq(t, n + 1, m)) = IF n + 1 <= m THEN m - (n + 1) + 1 ELSE 0
        /\ \A i \in 1..(m - (n + 1) + 1) : SubSeq(t, n + 1, m)[i] = t[(n + 1) + i - 1]
    BY <1>1, <2>1, SubSeqProperties DEF m
  <2>3. /\ n + 1 <= m /\ m - (n + 1) + 1 = m - n
        /\ \A i \in 1..(m - n) : (n + 1) + i - 1 = n + i
    BY <1>1 DEF m, t
  <2>4. u = SubSeq(t, n + 1, m)
    BY DEF m
  <2>. HIDE DEF u
  <2>5. QED BY <2>2, <2>3, <2>4
<1>3. /\ q.cmd = p.cmd /\ q.todo = u /\ q.account = p.account /\ q.hook = p.hook
      /\ q.copy = p.copy /\ q \in ProcType
  <2>. HIDE DEF u
  <2>1. QED BY <1>2 DEF ProcType
<1>4. p.cmd \in Commands /\ m \in 1..Len(Program[p.cmd])
      /\ \A i \in 1..m : t[i] = Program[p.cmd][Len(Program[p.cmd]) - m + i]
  BY DEF OnProgram
<1>. DEFINE l == Len(Program[p.cmd])
<1>5. l \in Nat
  BY <1>4, ProgramSteps DEF Commands
<1>6. OnProgram(q)
  <2>. HIDE DEF u, q, t, m, l
  <2>1. \A i \in 1..(m - n) : n + i \in 1..m /\ u[i] = t[n + i]
    BY <1>1, <1>2
  <2>2. \A i \in 1..(m - n) : u[i] = Program[p.cmd][l - m + (n + i)]
    BY <1>4, <2>1 DEF l
  <2>3. \A i \in 1..(m - n) : l - m + (n + i) = l - (m - n) + i
    BY <1>1, <1>5
  <2>4. m - n \in 1..l
    BY <1>1, <1>4, <1>5 DEF m, t, l
  <2>5. \A i \in 1..(m - n) : u[i] = Program[p.cmd][l - (m - n) + i]
    BY <2>2, <2>3
  <2>6. Len(q.todo) = m - n /\ q.todo = u /\ q.cmd = p.cmd
    BY <1>2, <1>3
  <2>7. QED BY <1>4, <2>4, <2>5, <2>6 DEF OnProgram, l
<1>7. Place(q) = Place(p) + n
  <2>1. Final(p.cmd) \in Int
    BY DEF Final
  <2>2. Place(q) = Final(p.cmd) + 1 - (m - n) /\ Place(p) = Final(p.cmd) + 1 - m
    BY <1>2, <1>3 DEF Place
  <2>. HIDE DEF m
  <2>3. QED BY <1>1, <2>1, <2>2
<1>8. QED BY <1>3, <1>4, <1>6, <1>7 DEF Onward, Commands

\* How a step of c changes the processes: it has gone n steps on, or is over.
OnlyMoves(c)   == proc' \in [Procs -> ProcType] /\ \A d \in Procs : d # c => proc'[d] = proc[d]
Ends(c)        == OnlyMoves(c) /\ proc'[c] = Idle
Moves(c, p, n) ==
  /\ OnlyMoves(c)
  /\ IF Place(p) + n = Final(p.cmd) + 1 THEN proc'[c] = Idle ELSE Onward(p, proc'[c], n)

LEMMA IdleEnds ==
  ASSUME NEW c \in Procs, proc \in [Procs -> ProcType], proc' = [proc EXCEPT ![c] = Idle]
  PROVE  Ends(c)
BY IdleType DEF Ends, OnlyMoves

LEMMA TodoLeft ==
  ASSUME NEW p \in ProcType, OnProgram(p), NEW n \in Nat
  PROVE  Len(p.todo) \in Nat \ {0} /\ (Len(p.todo) = n <=> Place(p) + n = Final(p.cmd) + 1)
<1>. DEFINE m == Len(p.todo)
<1>1. m \in Nat \ {0}
  <2>1. p.cmd \in Commands /\ m \in 1..Len(Program[p.cmd])
    BY DEF OnProgram
  <2>2. Len(Program[p.cmd]) \in Nat
    BY <2>1, ProgramSteps DEF Commands
  <2>. HIDE DEF m
  <2>3. QED BY <2>1, <2>2
<1>2. Final(p.cmd) \in Int /\ Place(p) = Final(p.cmd) + 1 - m
  BY DEF Final, Place
<1>. HIDE DEF m
<1>3. m = n <=> Place(p) + n = Final(p.cmd) + 1
  BY <1>1, <1>2
<1>4. QED BY <1>1, <1>3 DEF m

LEMMA ProceedMoves ==
  ASSUME NEW c \in Procs, NEW p \in ProcType, OnProgram(p), proc \in [Procs -> ProcType],
         Proceed(c, p)
  PROVE  Moves(c, p, 1)
<1>. DEFINE q == [p EXCEPT !.todo = Tail(@)]
<1>1. Len(p.todo) \in Nat \ {0} /\ (Len(p.todo) = 1 <=> Place(p) + 1 = Final(p.cmd) + 1)
  BY TodoLeft
<1>2. CASE Len(p.todo) = 1
  <2>1. proc' = [proc EXCEPT ![c] = Idle]
    BY <1>2 DEF Proceed
  <2>2. QED BY <1>1, <1>2, <2>1, IdleType DEF Moves, OnlyMoves
<1>3. CASE Len(p.todo) # 1
  <2>1. Tail(p.todo) = SubSeq(p.todo, 1 + 1, Len(p.todo))
    BY <1>1 DEF ProcType
  <2>2. Onward(p, q, 1)
    <3>. DEFINE m == Len(p.todo)
    <3>0. m \in Nat \ {0} /\ m # 1
      BY <1>1, <1>3
    <3>. HIDE DEF m
    <3>1. m > 1 /\ 1 \in 1..3
      BY <3>0
    <3>2. Onward(p, [p EXCEPT !.todo = SubSeq(@, 1 + 1, Len(@))], 1)
      BY <3>1, ShortenTodo, Zenon DEF m
    <3>3. QED BY <2>1, <3>2
  <2>3. proc' = [proc EXCEPT ![c] = q]
    BY <1>3 DEF Proceed
  <2>4. q \in ProcType
    BY <2>2 DEF Onward
  <2>. HIDE DEF q
  <2>5. QED BY <1>1, <1>3, <2>2, <2>3, <2>4 DEF Moves, OnlyMoves
<1>4. QED BY <1>2, <1>3

LEMMA SkipMoves ==
  ASSUME NEW c \in Procs, proc \in [Procs -> ProcType], OnProgram(proc[c]),
         Len(proc[c].todo) >= 3, Skip(c, 3)
  PROVE  Moves(c, proc[c], 3)
<1>. DEFINE p == proc[c]
            q == [p EXCEPT !.todo = SubSeq(@, 3 + 1, Len(@))]
<1>1. Len(p.todo) \in Nat \ {0} /\ (Len(p.todo) = 3 <=> Place(p) + 3 = Final(p.cmd) + 1)
  BY TodoLeft
<1>2. CASE Len(p.todo) = 3
  <2>1. proc' = [proc EXCEPT ![c] = Idle]
    BY <1>2 DEF Skip
  <2>2. QED BY <1>1, <1>2, <2>1, IdleType DEF Moves, OnlyMoves
<1>3. CASE Len(p.todo) # 3
  <2>1. Onward(p, q, 3)
    <3>. DEFINE m == Len(p.todo)
    <3>1. p \in ProcType /\ m >= 3 /\ m \in Nat /\ m # 3
      BY <1>1, <1>3
    <3>. HIDE DEF m
    <3>2. m > 3 /\ 3 \in 1..3
      BY <3>1
    <3>3. QED BY <3>1, <3>2, ShortenTodo, Zenon DEF m
  <2>2. proc' = [proc EXCEPT ![c] = q]
    <3>1. proc' = [proc EXCEPT ![c] = IF Len(p.todo) = 3 THEN Idle ELSE q]
      BY DEF Skip
    <3>2. QED BY <1>3, <3>1
  <2>3. q \in ProcType
    BY <2>1 DEF Onward
  <2>. HIDE DEF q
  <2>4. QED BY <1>1, <1>3, <2>1, <2>2, <2>3 DEF Moves, OnlyMoves
<1>4. QED BY <1>2, <1>3

-----------------------------------------------------------------------------
\* What is good stays good when accounts and webhooks are added.
LEMMA EnvGoodMonotone ==
  ASSUME NEW a \in Nat, NEW b \in Nat, a <= b, NEW ls, EnvGood(ls, a)
  PROVE  EnvGood(ls, b)
<1>1. \A v \in 1..a : v \in 1..b
  OBVIOUS
<1>2. QED BY <1>1 DEF EnvGood, Keyed

LEMMA WellFormedMonotone ==
  ASSUME NEW a \in Nat, NEW b \in Nat, a <= b, NEW r \in Nat, NEW s \in Nat, r <= s,
         NEW p, WellFormed(p, a, r)
  PROVE  WellFormed(p, b, s)
<1>1. (\A v \in 1..a : v \in 1..b) /\ \A v \in 1..r : v \in 1..s
  OBVIOUS
<1>2. EnvGood(p.copy, a) => EnvGood(p.copy, b)
  BY EnvGoodMonotone
<1>3. QED BY <1>1, <1>2 DEF WellFormed

LEMMA ProcsStayGood ==
  ASSUME Typed, ProcsGood, NEW c \in Procs, OnlyMoves(c),
         accounts' \in Nat, accounts <= accounts',
         subscribed' \in Nat, subscribed <= subscribed',
         proc'[c].cmd # "none" => WellFormed(proc'[c], accounts', subscribed')
  PROVE  ProcsGood'
<1>. SUFFICES ASSUME NEW d \in Procs, proc'[d].cmd # "none"
              PROVE  WellFormed(proc'[d], accounts', subscribed')
  BY DEF ProcsGood, Running
<1>1. CASE d = c
  BY <1>1
<1>2. CASE d # c
  <2>1. proc'[d] = proc[d]
    BY <1>2 DEF OnlyMoves
  <2>2. WellFormed(proc[d], accounts, subscribed)
    BY <2>1 DEF ProcsGood, Running
  <2>3. QED BY <2>1, <2>2, WellFormedMonotone DEF Typed
<1>3. QED BY <1>1, <1>2

-----------------------------------------------------------------------------
\* What a command makes of the .env it read: no new definition of the key but its
\* own account's, the pair still a pair, and what it does not edit left alone.
LEMMA EditedEnv ==
  ASSUME Typed, NEW c \in Procs, WellFormed(proc[c], accounts, subscribed), Place(proc[c]) = 2
  PROVE  LET p == proc[c]
             t == Edited(c, "env")
         IN  /\ EnvGood(t, accounts) /\ Alike(p.copy, t, "OTHER")
             /\ p.cmd \in {"register", "logout"} => Alike(p.copy, t, "ID")
             /\ p.cmd = "register" => ReadEnvVar(t, "API_KEY") = p.account
             /\ p.cmd = "logout"   => ReadEnvVar(t, "API_KEY") = None
             /\ p.cmd \in {"setup", "delete"} => Alike(p.copy, t, "API_KEY")
             /\ p.cmd = "setup"  => ReadEnvVar(t, "ID") \in {p.hook, ReadEnvVar(p.copy, "ID")}
             /\ p.cmd = "delete" => ReadEnvVar(t, "ID") = None
<1>. DEFINE p == proc[c]
            t == Edited(c, "env")
            ls == p.copy
<1>1. /\ p.cmd \in Commands
      /\ ls \in Lines /\ Keyed(ls, accounts) /\ Paired(ls) /\ accounts \in Nat
      /\ p.cmd \in {"register", "setup"} => p.account \in 1..accounts
      /\ p.cmd = "setup" => p.hook \in 1..subscribed
      /\ p.account \in Nat /\ p.hook \in Nat
  BY DEF WellFormed, OnProgram, EnvGood, Typed, ProcType
<1>2. "API_KEY" \in EnvKeys /\ "SECRET" \in EnvKeys /\ "ID" \in EnvKeys
  BY DEF EnvKeys
<1>3. CASE p.cmd = "register"
  <2>1. t = SetEnvVar(ls, "API_KEY", p.account)
    BY <1>3 DEF Edited
  <2>2. /\ t \in Lines /\ Single(t, "API_KEY") /\ ReadEnvVar(t, "API_KEY") = p.account
        /\ \A n \in DOMAIN t : t[n] = Line("API_KEY", p.account) \/ \E i \in DOMAIN ls : t[n] = ls[i]
        /\ \A q : q # "API_KEY" => Alike(ls, t, q)
    <3>. DEFINE a == p.account
    <3>1. ls \in Lines /\ a \in Nat /\ t = SetEnvVar(ls, "API_KEY", a)
      BY <1>1, <2>1
    <3>. HIDE DEF t, ls, a
    <3>2. QED BY <1>2, <3>1, SetEnvVarProperties DEF a
  <2>3. Keyed(t, accounts)
    <3>. HIDE DEF t, ls, p
    <3>1. QED BY <1>1, <1>3, <2>2 DEF Keyed, Line
  <2>4. Paired(t)
    BY <1>1, <2>2, AlikeKeepsPaired
  <2>. HIDE DEF t, ls
  <2>5. QED BY <1>3, <2>2, <2>3, <2>4 DEF EnvGood, t, ls
<1>4. CASE p.cmd = "logout"
  <2>1. t = Without(ls, {"API_KEY"})
    BY <1>4 DEF Edited
  <2>2. /\ t \in Lines /\ Defs(t, "API_KEY") = {}
        /\ \A q : q # "API_KEY" => Alike(ls, t, q)
    BY <1>1, <2>1, WithoutProperties
  <2>3. Keyed(t, accounts) /\ ReadEnvVar(t, "API_KEY") = None
    BY <2>2 DEF Keyed, Single, Defs, ReadEnvVar
  <2>4. Paired(t)
    BY <1>1, <2>2, AlikeKeepsPaired
  <2>. HIDE DEF t, ls
  <2>5. QED BY <1>4, <2>2, <2>3, <2>4 DEF EnvGood, t, ls
<1>5. CASE p.cmd = "setup"
  <2>1. t = SetEnvVars(ls, p.hook)
    BY <1>5 DEF Edited
  <2>2. /\ t \in Lines /\ Paired(t)
        /\ \A n \in DOMAIN t : \/ t[n] \in {Line("SECRET", p.hook), Line("ID", p.hook)}
                               \/ \E i \in DOMAIN ls : t[n] = ls[i]
        /\ ReadEnvVar(t, "ID") \in {p.hook, ReadEnvVar(ls, "ID")}
        /\ \A q : q \notin {"SECRET", "ID"} => Alike(ls, t, q)
    <3>. DEFINE h == p.hook
    <3>1. ls \in Lines /\ Paired(ls) /\ h \in Nat /\ t = SetEnvVars(ls, h)
      BY <1>1, <2>1
    <3>. HIDE DEF t, ls, h
    <3>2. QED BY <3>1, SetEnvVarsProperties DEF h
  <2>3. Keyed(t, accounts)
    <3>. HIDE DEF t, ls, p
    <3>1. Single(t, "API_KEY")
      BY <1>1, <2>2 DEF Alike, Keyed
    <3>2. QED BY <1>1, <2>2, <3>1 DEF Keyed, Line
  <2>. HIDE DEF t, ls
  <2>4. QED BY <1>5, <2>2, <2>3 DEF EnvGood, t, ls
<1>6. CASE p.cmd = "delete"
  <2>1. t = Without(ls, {"SECRET", "ID"})
    BY <1>6 DEF Edited
  <2>2. /\ t \in Lines /\ Defs(t, "SECRET") = {} /\ Defs(t, "ID") = {}
        /\ \A n \in DOMAIN t : \E i \in DOMAIN ls : t[n] = ls[i]
        /\ \A q : q \notin {"SECRET", "ID"} => Alike(ls, t, q)
    BY <1>1, <2>1, WithoutProperties
  <2>3. Keyed(t, accounts)
    <3>. HIDE DEF t, ls, p
    <3>1. Single(t, "API_KEY")
      BY <1>1, <2>2 DEF Alike, Keyed
    <3>2. QED BY <1>1, <2>2, <3>1 DEF Keyed
  <2>4. Paired(t) /\ ReadEnvVar(t, "ID") = None
    BY <2>2 DEF Paired, Single, ReadEnvVar, LastWins
  <2>. HIDE DEF t, ls
  <2>5. QED BY <1>6, <2>2, <2>3, <2>4 DEF EnvGood, t, ls
<1>7. QED BY <1>1, <1>3, <1>4, <1>5, <1>6 DEF Commands

\* And what it makes of the SOUL.md it read.
LEMMA EditedSoul ==
  ASSUME Typed, NEW c \in Procs, WellFormed(proc[c], accounts, subscribed), Place(proc[c]) = 5
  PROVE  LET p == proc[c]
             t == Edited(c, "soul")
         IN  /\ t \in Seq(Nat) /\ p.cmd \in {"register", "logout"}
             /\ p.cmd = "register" => Claims(t) = {p.account}
             /\ p.cmd = "logout" => Claims(t) = {}
             /\ (\E i \in DOMAIN p.copy : p.copy[i] = Foreign) => \E i \in DOMAIN t : t[i] = Foreign
<1>. DEFINE p == proc[c]
            t == Edited(c, "soul")
            bs == p.copy
<1>1. /\ p \in ProcType /\ OnProgram(p) /\ bs \in Seq(Nat) /\ accounts \in Nat
      /\ p.cmd = "register" => p.account \in 1..accounts
  BY DEF WellFormed, Typed
<1>2. p.cmd \in {"register", "logout"}
  BY <1>1, PlaceTable DEF Final, Typed
<1>3. CASE p.cmd = "register"
  <2>1. t = Upsert(bs, p.account)
    BY <1>3 DEF Edited
  <2>2. p.account \in Nat /\ p.account # Foreign
    BY <1>1, <1>3 DEF Foreign
  <2>. DEFINE a == p.account
  <2>. HIDE DEF a, t, bs
  <2>3. /\ t \in Seq(Nat) /\ Claims(t) = {a}
        /\ (\E i \in DOMAIN bs : bs[i] = Foreign) => \E i \in DOMAIN t : t[i] = Foreign
    BY <1>1, <2>1, <2>2, UpsertProperties DEF a
  <2>4. p.cmd # "logout"
    BY <1>3
  <2>5. QED BY <1>2, <2>3, <2>4 DEF a, t, bs
<1>4. CASE p.cmd = "logout"
  <2>1. t = Clear(bs)
    BY <1>4 DEF Edited
  <2>2. QED BY <1>1, <1>4, <2>1, ClearProperties
<1>5. QED BY <1>2, <1>3, <1>4

-----------------------------------------------------------------------------
\* The values read from a file; a file that is empty, as a truncated one is.
LEMMA ValuesRead ==
  ASSUME NEW ls \in Lines
  PROVE  /\ \A k : ReadEnvVar(ls, k) \in Nat /\ LastWins(ls, k) \in Nat
         /\ \A a \in Nat : Keyed(ls, a) => /\ ReadEnvVar(ls, "API_KEY") \in 0..a
                                           /\ LastWins(ls, "API_KEY") \in 0..a
<1>. USE DEF None
<1>1. \A k : \A i \in Defs(ls, k) : i \in DOMAIN ls /\ ls[i].key = k /\ ls[i].val \in Nat
  BY LinesProperties
<1>2. \A k : Defs(ls, k) # {} => First(ls, k) \in Defs(ls, k) /\ Latest(ls, k) \in Defs(ls, k)
  BY FirstAndLatest
<1>3. \A k : ReadEnvVar(ls, k) \in Nat /\ LastWins(ls, k) \in Nat
  BY <1>1, <1>2 DEF ReadEnvVar, LastWins
<1>4. ASSUME NEW a \in Nat, Keyed(ls, a)
      PROVE  ReadEnvVar(ls, "API_KEY") \in 0..a /\ LastWins(ls, "API_KEY") \in 0..a
  <2>1. \A i \in Defs(ls, "API_KEY") : ls[i].val \in 0..a
    BY <1>1, <1>4 DEF Keyed
  <2>2. QED BY <1>2, <2>1, <1>4 DEF ReadEnvVar, LastWins
<1>5. QED BY <1>3, <1>4

LEMMA EmptyGood ==
  ASSUME NEW a \in Nat
  PROVE  EnvGood(<<>>, a) /\ <<>> \in Lines /\ <<>> \in Seq(Nat) /\ Claims(<<>>) = {}
<1>1. <<>> \in Lines /\ <<>> \in Seq(Nat) /\ DOMAIN <<>> = {}
  BY DEF Lines
<1>2. \A k : Defs(<<>>, k) = {}
  BY <1>1 DEF Defs
<1>3. QED BY <1>1, <1>2 DEF EnvGood, Keyed, Paired, Single, ReadEnvVar, LastWins, Claims

\* A command that has learned something stands where it stood.
LEMMA StandsStill ==
  ASSUME NEW p, OnProgram(p), NEW q, q.cmd = p.cmd, q.todo = p.todo
  PROVE  OnProgram(q) /\ Place(q) = Place(p)
BY DEF OnProgram, Place

\* Where a running command stands, by the operation it is at.
LEMMA Standing ==
  ASSUME Typed, ProcsGood, NEW c \in Procs, Running(c)
  PROVE  LET p == proc[c]
             o == Place(p)
         IN  /\ p \in ProcType /\ OnProgram(p) /\ WellFormed(p, accounts, subscribed)
             /\ p.cmd \in Commands
             /\ o \in Int /\ o \in -3..Final(p.cmd)
             /\ p.cmd \in {"register", "setup"} => o >= -2
             /\ p.cmd = "logout" => o >= 0
             /\ At(c, "mint") <=> p.cmd = "register" /\ o = -2
             /\ At(c, "me") <=> p.cmd = "register" /\ o = -1
             /\ At(c, "client") <=> (p.cmd = "setup" /\ o = -2) \/ (p.cmd = "delete" /\ o = -3)
             /\ At(c, "subscribe") <=> p.cmd = "setup" /\ o = -1
             /\ At(c, "unsubscribe") <=> p.cmd = "delete" /\ o = -2
             /\ At(c, "check") <=> p.cmd = "delete" /\ o = -1
             /\ At(c, "read") <=> o \in {0, 3}
             /\ At(c, "truncate") <=> o \in {1, 4}
             /\ At(c, "write") <=> o \in {2, 5}
             /\ o \in 0..2 => Target(c) = "env"
             /\ o \in 3..5 => Target(c) = "soul"
             /\ Target(c) = "api" <=> o < 0 /\ ~At(c, "check")
<1>1. proc[c] \in ProcType /\ OnProgram(proc[c]) /\ WellFormed(proc[c], accounts, subscribed)
  BY DEF Typed, ProcsGood, WellFormed
<1>2. proc[c].cmd \in Commands
  BY <1>1 DEF OnProgram
<1>3. QED BY <1>1, <1>2, PlaceTable DEF At, Target

\* What is read of a key, by the positions of its definitions.
LEMMA DefinedAt ==
  ASSUME NEW ls \in Lines, NEW k
  PROVE  /\ Defs(ls, k) = {} => Single(ls, k) /\ ReadEnvVar(ls, k) = None /\ LastWins(ls, k) = None
         /\ \A i, j \in Nat : i <= j /\ Defs(ls, k) = {i, j} =>
              /\ Single(ls, k) <=> i = j
              /\ ReadEnvVar(ls, k) = ls[i].val /\ LastWins(ls, k) = ls[j].val
<1>1. Defs(ls, k) = {} => Single(ls, k) /\ ReadEnvVar(ls, k) = None /\ LastWins(ls, k) = None
  BY DEF Single, ReadEnvVar, LastWins
<1>2. ASSUME NEW i \in Nat, NEW j \in Nat, i <= j, Defs(ls, k) = {i, j}
      PROVE  /\ Single(ls, k) <=> i = j
             /\ ReadEnvVar(ls, k) = ls[i].val /\ LastWins(ls, k) = ls[j].val
  <2>1. First(ls, k) = i /\ Latest(ls, k) = j
    BY <1>2, FirstUnique
  <2>2. QED BY <1>2, <2>1 DEF Single, ReadEnvVar, LastWins
<1>3. QED BY <1>1, <1>2

LEMMA SituationsGood ==
  ASSUME NEW s \in Situations
  PROVE  /\ s.accounts \in Nat /\ s.soul \in Seq(Nat) /\ Len(s.owners) \in Nat
         /\ \A n \in 1..Len(s.owners) : s.owners[n] \in 1..s.accounts
         /\ EnvGood(s.env, s.accounts)
         /\ Claims(s.soul) \subseteq 1..s.accounts
         /\ Defs(s.env, "OTHER") # {} /\ \E i \in DOMAIN s.soul : s.soul[i] = Foreign
         /\ KeyMatches(s.env, s.soul)
         /\ ReadEnvVar(s.env, "ID") \in 0..Len(s.owners)
<1>. USE DEF None, Foreign
<1>. DEFINE ls == s.env
<1>. DEFINE Is(env, soul, owners, n) == s.env = env /\ s.soul = soul /\ s.owners = owners /\ s.accounts = n
            Empty   == Is(<<Line("OTHER", None)>>, <<Foreign>>, <<>>, 0)
            Set     == Is(<<Line("API_KEY", 1), Line("OTHER", None), Line("SECRET", 1), Line("ID", 1)>>,
                          <<Foreign, 1>>, <<1>>, 1)
            Second  == Is(<<Line("OTHER", None), Line("SECRET", 1), Line("ID", 1), Line("API_KEY", 2)>>,
                          <<2, Foreign>>, <<1>>, 2)
            Merged  == Is(<<Line("API_KEY", 1), Line("SECRET", 1), Line("ID", 1), Line("OTHER", None),
                            Line("SECRET", 2), Line("ID", 2)>>, <<1, Foreign>>, <<1, 1>>, 1)
<1>2. CASE Empty
  <2>1. s.env = <<Line("OTHER", None)>> /\ s.soul = <<0>> /\ s.owners = <<>> /\ s.accounts = 0
    BY <1>2
  <2>2. Len(ls) = 1 /\ ls[1] = Line("OTHER", 0) /\ Claims(s.soul) = {}
    BY <2>1 DEF Claims
  <2>3. ls \in Lines
    BY <2>1 DEF Lines, Line, EnvKeys
  <2>. HIDE DEF ls
  <2>4. DOMAIN ls = {1} /\ ls[1].key = "OTHER"
    BY <2>2, <2>3, LinesProperties DEF Line
  <2>5. /\ Defs(ls, "API_KEY") = {} /\ Defs(ls, "ID") = {} /\ Defs(ls, "SECRET") = {}
        /\ Defs(ls, "OTHER") = {1}
    BY <2>4 DEF Defs
  <2>6. Paired(ls) /\ Keyed(ls, 0) /\ KeyMatches(ls, s.soul) /\ ReadEnvVar(ls, "ID") = 0
    BY <2>2, <2>3, <2>4, <2>5, DefinedAt DEF Paired, Keyed, KeyMatches
  <2>7. s.soul \in Seq(Nat) /\ Len(s.owners) = 0 /\ s.soul[1] = 0 /\ 1 \in DOMAIN s.soul
    BY <2>1
  <2>8. QED BY <2>1, <2>2, <2>3, <2>5, <2>6, <2>7 DEF EnvGood, ls
<1>3. CASE Set
  <2>1. /\ s.env = <<Line("API_KEY", 1), Line("OTHER", 0), Line("SECRET", 1), Line("ID", 1)>>
        /\ s.soul = <<0, 1>> /\ s.owners = <<1>> /\ s.accounts = 1
    BY <1>3
  <2>2. Len(ls) = 4 /\ ls[1] = Line("API_KEY", 1) /\ ls[2] = Line("OTHER", 0)
        /\ ls[3] = Line("SECRET", 1) /\ ls[4] = Line("ID", 1)
    BY <2>1
  <2>3. Claims(s.soul) = {1}
    BY <2>1 DEF Claims
  <2>4. ls \in Lines
    BY <2>1 DEF Lines, Line, EnvKeys
  <2>. HIDE DEF ls
  <2>5. DOMAIN ls = {1, 2, 3, 4} /\ ls[1].key = "API_KEY" /\ ls[2].key = "OTHER"
        /\ ls[3].key = "SECRET" /\ ls[4].key = "ID" /\ ls[1].val = 1 /\ ls[3].val = 1 /\ ls[4].val = 1
    BY <2>2, <2>4, LinesProperties DEF Line
  <2>6. /\ Defs(ls, "API_KEY") = {1, 1} /\ Defs(ls, "ID") = {4, 4} /\ Defs(ls, "SECRET") = {3, 3}
        /\ Defs(ls, "OTHER") = {2}
    BY <2>5 DEF Defs
  <2>7. /\ Single(ls, "API_KEY") /\ Single(ls, "ID") /\ Single(ls, "SECRET")
        /\ ReadEnvVar(ls, "API_KEY") = 1 /\ ReadEnvVar(ls, "ID") = 1 /\ ReadEnvVar(ls, "SECRET") = 1
        /\ LastWins(ls, "ID") = 1 /\ LastWins(ls, "SECRET") = 1
    BY <2>4, <2>5, <2>6, DefinedAt
  <2>8. Paired(ls) /\ Keyed(ls, 1) /\ KeyMatches(ls, s.soul)
    BY <2>3, <2>5, <2>6, <2>7 DEF Paired, Keyed, KeyMatches
  <2>9. /\ s.soul \in Seq(Nat) /\ s.soul[1] = 0 /\ 1 \in DOMAIN s.soul
        /\ Len(s.owners) = 1 /\ s.owners[1] = 1
    BY <2>1
  <2>10. QED BY <2>1, <2>3, <2>4, <2>6, <2>7, <2>8, <2>9 DEF EnvGood, ls
<1>4. CASE Second
  <2>1. /\ s.env = <<Line("OTHER", None), Line("SECRET", 1), Line("ID", 1), Line("API_KEY", 2)>>
        /\ s.soul = <<2, 0>> /\ s.owners = <<1>> /\ s.accounts = 2
    BY <1>4
  <2>2. Len(ls) = 4 /\ ls[4] = Line("API_KEY", 2) /\ ls[1] = Line("OTHER", 0)
        /\ ls[2] = Line("SECRET", 1) /\ ls[3] = Line("ID", 1)
    BY <2>1
  <2>3. Claims(s.soul) = {2}
    BY <2>1 DEF Claims
  <2>4. ls \in Lines
    BY <2>1 DEF Lines, Line, EnvKeys
  <2>. HIDE DEF ls
  <2>5. DOMAIN ls = {1, 2, 3, 4} /\ ls[4].key = "API_KEY" /\ ls[1].key = "OTHER"
        /\ ls[2].key = "SECRET" /\ ls[3].key = "ID" /\ ls[4].val = 2 /\ ls[2].val = 1 /\ ls[3].val = 1
    BY <2>2, <2>4, LinesProperties DEF Line
  <2>6. /\ Defs(ls, "API_KEY") = {4, 4} /\ Defs(ls, "ID") = {3, 3} /\ Defs(ls, "SECRET") = {2, 2}
        /\ Defs(ls, "OTHER") = {1}
    BY <2>5 DEF Defs
  <2>7. /\ Single(ls, "API_KEY") /\ Single(ls, "ID") /\ Single(ls, "SECRET")
        /\ ReadEnvVar(ls, "API_KEY") = 2 /\ ReadEnvVar(ls, "ID") = 1 /\ ReadEnvVar(ls, "SECRET") = 1
        /\ LastWins(ls, "ID") = 1 /\ LastWins(ls, "SECRET") = 1
    BY <2>4, <2>5, <2>6, DefinedAt
  <2>8. Paired(ls) /\ Keyed(ls, 2) /\ KeyMatches(ls, s.soul)
    BY <2>3, <2>5, <2>6, <2>7 DEF Paired, Keyed, KeyMatches
  <2>9. /\ s.soul \in Seq(Nat) /\ s.soul[2] = 0 /\ 2 \in DOMAIN s.soul
        /\ Len(s.owners) = 1 /\ s.owners[1] = 1
    BY <2>1
  <2>10. QED BY <2>1, <2>3, <2>4, <2>6, <2>7, <2>8, <2>9 DEF EnvGood, ls
<1>5. CASE Merged
  <2>1. /\ s.env = <<Line("API_KEY", 1), Line("SECRET", 1), Line("ID", 1), Line("OTHER", None),
                     Line("SECRET", 2), Line("ID", 2)>>
        /\ s.soul = <<1, 0>> /\ s.owners = <<1, 1>> /\ s.accounts = 1
    BY <1>5
  <2>2. Len(ls) = 6 /\ ls[1] = Line("API_KEY", 1) /\ ls[4] = Line("OTHER", 0)
        /\ ls[2] = Line("SECRET", 1) /\ ls[3] = Line("ID", 1)
        /\ ls[5] = Line("SECRET", 2) /\ ls[6] = Line("ID", 2)
    BY <2>1
  <2>3. Claims(s.soul) = {1}
    BY <2>1 DEF Claims
  <2>4. ls \in Lines
    BY <2>1 DEF Lines, Line, EnvKeys
  <2>. HIDE DEF ls
  <2>5. DOMAIN ls = {1, 2, 3, 4, 5, 6} /\ ls[1].key = "API_KEY" /\ ls[4].key = "OTHER"
        /\ ls[2].key = "SECRET" /\ ls[3].key = "ID" /\ ls[5].key = "SECRET" /\ ls[6].key = "ID"
        /\ ls[1].val = 1 /\ ls[2].val = 1 /\ ls[3].val = 1 /\ ls[5].val = 2 /\ ls[6].val = 2
    BY <2>2, <2>4, LinesProperties DEF Line
  <2>6. /\ Defs(ls, "API_KEY") = {1, 1} /\ Defs(ls, "ID") = {3, 6} /\ Defs(ls, "SECRET") = {2, 5}
        /\ Defs(ls, "OTHER") = {4}
    BY <2>5 DEF Defs
  <2>7. /\ Single(ls, "API_KEY") /\ ~Single(ls, "ID") /\ ~Single(ls, "SECRET")
        /\ ReadEnvVar(ls, "API_KEY") = 1 /\ ReadEnvVar(ls, "ID") = 1 /\ ReadEnvVar(ls, "SECRET") = 1
        /\ LastWins(ls, "ID") = 2 /\ LastWins(ls, "SECRET") = 2
    BY <2>4, <2>5, <2>6, DefinedAt
  <2>8. Paired(ls) /\ Keyed(ls, 1) /\ KeyMatches(ls, s.soul)
    BY <2>3, <2>5, <2>6, <2>7 DEF Paired, Keyed, KeyMatches
  <2>9. /\ s.soul \in Seq(Nat) /\ s.soul[2] = 0 /\ 2 \in DOMAIN s.soul
        /\ Len(s.owners) = 2 /\ s.owners[1] = 1 /\ s.owners[2] = 1
    BY <2>1
  <2>10. QED BY <2>1, <2>3, <2>4, <2>6, <2>7, <2>8, <2>9 DEF EnvGood, ls
<1>6. Empty \/ Set \/ Second \/ Merged
  BY DEF Situations
<1>7. QED BY <1>2, <1>3, <1>4, <1>5, <1>6

-----------------------------------------------------------------------------
\* The command of c goes n steps on, and then holds account a, webhook h and copy x.
Goes(c, n, a, h, x) ==
  /\ OnlyMoves(c)
  /\ LET q == proc'[c]
     IN  /\ q \in ProcType /\ OnProgram(q) /\ q.cmd = proc[c].cmd /\ q.cmd # "none"
         /\ Place(q) = Place(proc[c]) + n
         /\ q.account = a /\ q.hook = h /\ q.copy = x

LEMMA MovesGoes ==
  ASSUME NEW c \in Procs, NEW p, NEW n \in Nat, Moves(c, p, n),
         p.cmd = proc[c].cmd, Place(p) = Place(proc[c]), Place(p) \in Int
  PROVE  IF Place(proc[c]) + n = Final(proc[c].cmd) + 1 THEN Ends(c)
                                                        ELSE Goes(c, n, p.account, p.hook, p.copy)
BY DEF Moves, Onward, Ends, Goes

LEMMA GoesOn ==
  ASSUME Typed, ProcsGood, NEW c \in Procs, Running(c),
         NEW p \in ProcType, OnProgram(p), Place(p) = Place(proc[c]), p.cmd = proc[c].cmd,
         Proceed(c, p)
  PROVE  IF Place(proc[c]) = Final(proc[c].cmd) THEN Ends(c)
                                                ELSE Goes(c, 1, p.account, p.hook, p.copy)
<1>1. Moves(c, p, 1)
  BY ProceedMoves DEF Typed
<1>2. Place(p) \in Int /\ Final(p.cmd) \in Int
  BY Standing DEF Final
<1>3. QED BY <1>1, <1>2, MovesGoes

LEMMA ProceedGoes ==
  ASSUME Typed, ProcsGood, NEW c \in Procs, Running(c)
  PROVE  LET p == proc[c]
             g(a, h, x) == IF Place(p) = Final(p.cmd) THEN Ends(c) ELSE Goes(c, 1, a, h, x)
         IN  /\ Proceed(c, p) => g(p.account, p.hook, p.copy)
             /\ \A v \in Nat : /\ Proceed(c, [p EXCEPT !.account = v]) => g(v, p.hook, p.copy)
                               /\ Proceed(c, [p EXCEPT !.hook = v]) => g(p.account, v, p.copy)
             /\ \A x \in Lines \cup Seq(Nat) :
                  Proceed(c, [p EXCEPT !.copy = x]) => g(p.account, p.hook, x)
<1>. DEFINE p == proc[c]
<1>1. p \in ProcType /\ OnProgram(p)
  BY Standing
<1>2. ASSUME Proceed(c, p)
      PROVE  IF Place(p) = Final(p.cmd) THEN Ends(c) ELSE Goes(c, 1, p.account, p.hook, p.copy)
  BY <1>1, <1>2, GoesOn
<1>3. ASSUME NEW v \in Nat, Proceed(c, [p EXCEPT !.account = v])
      PROVE  IF Place(p) = Final(p.cmd) THEN Ends(c) ELSE Goes(c, 1, v, p.hook, p.copy)
  <2>. DEFINE q == [p EXCEPT !.account = v]
  <2>1. /\ q.account = v /\ q.hook = p.hook /\ q.copy = p.copy
        /\ q \in ProcType /\ q.cmd = p.cmd /\ q.todo = p.todo
    BY <1>1 DEF ProcType
  <2>. HIDE DEF q
  <2>2. OnProgram(q) /\ Place(q) = Place(p)
    BY <1>1, <2>1, StandsStill
  <2>3. Proceed(c, q)
    BY <1>3 DEF q
  <2>4. QED BY <2>1, <2>2, <2>3, GoesOn
<1>4. ASSUME NEW v \in Nat, Proceed(c, [p EXCEPT !.hook = v])
      PROVE  IF Place(p) = Final(p.cmd) THEN Ends(c) ELSE Goes(c, 1, p.account, v, p.copy)
  <2>. DEFINE q == [p EXCEPT !.hook = v]
  <2>1. /\ q.account = p.account /\ q.hook = v /\ q.copy = p.copy
        /\ q \in ProcType /\ q.cmd = p.cmd /\ q.todo = p.todo
    BY <1>1 DEF ProcType
  <2>. HIDE DEF q
  <2>2. OnProgram(q) /\ Place(q) = Place(p)
    BY <1>1, <2>1, StandsStill
  <2>3. Proceed(c, q)
    BY <1>4 DEF q
  <2>4. QED BY <2>1, <2>2, <2>3, GoesOn
<1>5. ASSUME NEW x \in Lines \cup Seq(Nat), Proceed(c, [p EXCEPT !.copy = x])
      PROVE  IF Place(p) = Final(p.cmd) THEN Ends(c) ELSE Goes(c, 1, p.account, p.hook, x)
  <2>. DEFINE q == [p EXCEPT !.copy = x]
  <2>1. /\ q.account = p.account /\ q.hook = p.hook /\ q.copy = x
        /\ q \in ProcType /\ q.cmd = p.cmd /\ q.todo = p.todo
    BY <1>1 DEF ProcType
  <2>. HIDE DEF q
  <2>2. OnProgram(q) /\ Place(q) = Place(p)
    BY <1>1, <2>1, StandsStill
  <2>3. Proceed(c, q)
    BY <1>5 DEF q
  <2>4. QED BY <2>1, <2>2, <2>3, GoesOn
<1>6. QED BY <1>2, <1>3, <1>4, <1>5

\* What each action does to the processes.
LEMMA Movements ==
  ASSUME Sound, NEW c \in Procs
  PROVE  LET p == proc[c]
             o == Place(p)
             a == ResolveApiKey(shell[c], file["env"])
             On(n) == Goes(c, n, p.account, p.hook, p.copy)
         IN  /\ Mint(c) => /\ p.cmd = "register" /\ o = -2
                           /\ Goes(c, 1, accounts + 1, p.hook, p.copy)
             /\ Me(c) => p.cmd = "register" /\ o = -1 /\ On(1)
             /\ Client(c) => /\ (p.cmd = "setup" /\ o = -2) \/ (p.cmd = "delete" /\ o = -3)
                             /\ Ends(c) \/ (a \in 1..accounts /\ Goes(c, 1, a, p.hook, p.copy))
             /\ Subscribe(c) => /\ p.cmd = "setup" /\ o = -1
                                /\ Goes(c, 1, p.account, subscribed + 1, p.copy)
             /\ Unsubscribe(c) => /\ p.cmd = "delete" /\ o = -2
                                  /\ (Ends(c) /\ hooks' = hooks) \/ On(1)
             /\ Check(c) => /\ p.cmd = "delete" /\ o = -1
                            /\ \/ Ends(c) /\ ReadEnvVar(file["env"], "ID") # p.hook
                               \/ On(1) /\ ReadEnvVar(file["env"], "ID") = p.hook
             /\ Read(c) => /\ (o = 0 /\ Target(c) = "env") \/ (o = 3 /\ Target(c) = "soul")
                           /\ \/ /\ NothingToClear(c, Target(c)) /\ p.cmd = "logout"
                                 /\ (o = 0 /\ On(3)) \/ (o = 3 /\ Ends(c))
                              \/ /\ ~NothingToClear(c, Target(c))
                                 /\ Goes(c, 1, p.account, p.hook, file[Target(c)])
             /\ Truncate(c) => /\ (o = 1 /\ Target(c) = "env") \/ (o = 4 /\ Target(c) = "soul")
                               /\ On(1)
             /\ Write(c) => /\ (o = 2 /\ Target(c) = "env") \/ (o = 5 /\ Target(c) = "soul")
                            /\ \/ Ends(c) /\ (o = 5 \/ p.cmd \in {"setup", "delete"})
                               \/ /\ o = 2 /\ p.cmd \in {"register", "logout"}
                                  /\ Goes(c, 1, p.account, p.hook, <<>>)
             /\ EndEarly(c) => Running(c) /\ Ends(c)
<1>. DEFINE p == proc[c]
            o == Place(p)
            a == ResolveApiKey(shell[c], file["env"])
            On(n) == Goes(c, n, p.account, p.hook, p.copy)
<1>0. Typed /\ FilesGood /\ ProcsGood /\ ShellsGood
  BY DEF Sound
<1>1. EndEarly(c) => Running(c) /\ Ends(c)
  BY <1>0, IdleEnds DEF EndEarly, Typed
<1>. SUFFICES ASSUME Running(c)
              PROVE  /\ Mint(c) => /\ p.cmd = "register" /\ o = -2
                                   /\ Goes(c, 1, accounts + 1, p.hook, p.copy)
                     /\ Me(c) => p.cmd = "register" /\ o = -1 /\ On(1)
                     /\ Client(c) => /\ (p.cmd = "setup" /\ o = -2) \/ (p.cmd = "delete" /\ o = -3)
                                     /\ Ends(c) \/ (a \in 1..accounts /\ Goes(c, 1, a, p.hook, p.copy))
                     /\ Subscribe(c) => /\ p.cmd = "setup" /\ o = -1
                                        /\ Goes(c, 1, p.account, subscribed + 1, p.copy)
                     /\ Unsubscribe(c) => /\ p.cmd = "delete" /\ o = -2
                                          /\ (Ends(c) /\ hooks' = hooks) \/ On(1)
                     /\ Check(c) => /\ p.cmd = "delete" /\ o = -1
                                    /\ \/ Ends(c) /\ ReadEnvVar(file["env"], "ID") # p.hook
                                       \/ On(1) /\ ReadEnvVar(file["env"], "ID") = p.hook
                     /\ Read(c) => /\ (o = 0 /\ Target(c) = "env") \/ (o = 3 /\ Target(c) = "soul")
                                   /\ \/ /\ NothingToClear(c, Target(c)) /\ p.cmd = "logout"
                                         /\ (o = 0 /\ On(3)) \/ (o = 3 /\ Ends(c))
                                      \/ /\ ~NothingToClear(c, Target(c))
                                         /\ Goes(c, 1, p.account, p.hook, file[Target(c)])
                     /\ Truncate(c) => /\ (o = 1 /\ Target(c) = "env") \/ (o = 4 /\ Target(c) = "soul")
                                       /\ On(1)
                     /\ Write(c) => /\ (o = 2 /\ Target(c) = "env") \/ (o = 5 /\ Target(c) = "soul")
                                    /\ \/ Ends(c) /\ (o = 5 \/ p.cmd \in {"setup", "delete"})
                                       \/ /\ o = 2 /\ p.cmd \in {"register", "logout"}
                                          /\ Goes(c, 1, p.account, p.hook, <<>>)
  BY <1>1 DEF Mint, Me, Client, Subscribe, Unsubscribe, Check, Read, Truncate, Write, At
<1>2. /\ p \in ProcType /\ OnProgram(p) /\ p.cmd \in Commands
      /\ accounts \in Nat /\ subscribed \in Nat /\ file["soul"] \in Seq(Nat) /\ file["env"] \in Lines
  BY <1>0, Standing DEF Typed, FilesGood, EnvGood
<1>. DEFINE fin == o = Final(p.cmd)
<1>13. /\ Proceed(c, p) /\ ~fin => On(1)
       /\ \A v \in Nat : /\ Proceed(c, [p EXCEPT !.account = v]) /\ ~fin => Goes(c, 1, v, p.hook, p.copy)
                         /\ Proceed(c, [p EXCEPT !.hook = v]) /\ ~fin => Goes(c, 1, p.account, v, p.copy)
       /\ \A x \in Lines \cup Seq(Nat) :
            Proceed(c, [p EXCEPT !.copy = x]) =>
              /\ fin => Ends(c)
              /\ ~fin => Goes(c, 1, p.account, p.hook, x)
  BY <1>0, ProceedGoes
<1>3. Mint(c) => /\ p.cmd = "register" /\ o = -2
                 /\ Goes(c, 1, accounts + 1, p.hook, p.copy)
  <2>1. HAVE Mint(c)
  <2>2. p.cmd = "register" /\ o = -2
    BY <1>0, <2>1, Standing DEF Mint
  <2>3. accounts + 1 \in Nat /\ Proceed(c, [p EXCEPT !.account = accounts + 1])
    BY <1>2, <2>1 DEF Mint
  <2>4. ~fin
    BY <2>2 DEF Final
  <2>. HIDE DEF fin
  <2>5. QED BY <1>13, <2>2, <2>3, <2>4
<1>4. Me(c) => p.cmd = "register" /\ o = -1 /\ On(1)
  <2>1. HAVE Me(c)
  <2>2. p.cmd = "register" /\ o = -1
    BY <1>0, <2>1, Standing DEF Me
  <2>3. QED BY <1>13, <2>1, <2>2 DEF Final, Me
<1>5. Client(c) => /\ (p.cmd = "setup" /\ o = -2) \/ (p.cmd = "delete" /\ o = -3)
                   /\ Ends(c) \/ (a \in 1..accounts /\ Goes(c, 1, a, p.hook, p.copy))
  <2>1. HAVE Client(c)
  <2>2. (p.cmd = "setup" /\ o = -2) \/ (p.cmd = "delete" /\ o = -3)
    BY <1>0, <2>1, Standing DEF Client
  <2>3. a \in 0..accounts
    <3>1. ReadEnvVar(file["env"], "API_KEY") \in 0..accounts /\ shell[c]["API_KEY"] \in 0..accounts
      BY <1>0, <1>2, ValuesRead DEF FilesGood, EnvGood, ShellsGood
    <3>2. QED BY <3>1 DEF ResolveApiKey
  <2>4. CASE a = None
    BY <1>0, <2>1, <2>2, <2>4, IdleEnds DEF Client, Typed
  <2>5. CASE a # None
    <3>1. a \in 1..accounts /\ a \in Nat
      BY <1>2, <2>3, <2>5 DEF None
    <3>2. Proceed(c, [p EXCEPT !.account = a])
      BY <2>1, <2>5 DEF Client
    <3>. HIDE DEF a
    <3>3. o # Final(p.cmd)
      BY <2>2 DEF Final
    <3>4. QED BY <1>13, <2>2, <3>1, <3>2, <3>3
  <2>6. QED BY <2>4, <2>5
<1>6. Subscribe(c) => /\ p.cmd = "setup" /\ o = -1
                      /\ Goes(c, 1, p.account, subscribed + 1, p.copy)
  <2>1. HAVE Subscribe(c)
  <2>2. p.cmd = "setup" /\ o = -1
    BY <1>0, <2>1, Standing DEF Subscribe
  <2>3. subscribed + 1 \in Nat /\ Proceed(c, [p EXCEPT !.hook = subscribed + 1])
    BY <1>2, <2>1 DEF Subscribe
  <2>4. ~fin
    BY <2>2 DEF Final
  <2>. HIDE DEF fin
  <2>5. QED BY <1>13, <2>2, <2>3, <2>4
<1>7. Unsubscribe(c) => /\ p.cmd = "delete" /\ o = -2
                        /\ (Ends(c) /\ hooks' = hooks) \/ On(1)
  <2>1. HAVE Unsubscribe(c)
  <2>2. p.cmd = "delete" /\ o = -2
    BY <1>0, <2>1, Standing DEF Unsubscribe
  <2>3. \/ Proceed(c, p)
        \/ hooks' = hooks /\ proc' = [proc EXCEPT ![c] = Idle]
    BY <2>1 DEF Unsubscribe
  <2>4. ~fin
    BY <2>2 DEF Final
  <2>5. proc' = [proc EXCEPT ![c] = Idle] => Ends(c)
    BY <1>0, IdleEnds DEF Typed
  <2>. HIDE DEF fin
  <2>6. QED BY <1>13, <2>2, <2>3, <2>4, <2>5
<1>8. Check(c) => /\ p.cmd = "delete" /\ o = -1
                  /\ \/ Ends(c) /\ ReadEnvVar(file["env"], "ID") # p.hook
                     \/ On(1) /\ ReadEnvVar(file["env"], "ID") = p.hook
  <2>1. HAVE Check(c)
  <2>2. p.cmd = "delete" /\ o = -1
    BY <1>0, <2>1, Standing DEF Check
  <2>3. IF ReadEnvVar(file["env"], "ID") = p.hook THEN Proceed(c, p)
                                                 ELSE proc' = [proc EXCEPT ![c] = Idle]
    BY <2>1 DEF Check
  <2>4. ~fin
    BY <2>2 DEF Final
  <2>5. proc' = [proc EXCEPT ![c] = Idle] => Ends(c)
    BY <1>0, IdleEnds DEF Typed
  <2>. HIDE DEF fin
  <2>6. QED BY <1>13, <2>2, <2>3, <2>4, <2>5
<1>9. Truncate(c) => /\ (o = 1 /\ Target(c) = "env") \/ (o = 4 /\ Target(c) = "soul")
                     /\ On(1)
  <2>1. HAVE Truncate(c)
  <2>2. (o = 1 /\ Target(c) = "env") \/ (o = 4 /\ Target(c) = "soul")
    BY <1>0, <2>1, Standing DEF Truncate
  <2>3. o # Final(p.cmd) /\ Proceed(c, p)
    BY <2>1, <2>2 DEF Final, Truncate
  <2>4. QED BY <1>13, <2>2, <2>3
<1>10. Write(c) => /\ (o = 2 /\ Target(c) = "env") \/ (o = 5 /\ Target(c) = "soul")
                   /\ \/ Ends(c) /\ (o = 5 \/ p.cmd \in {"setup", "delete"})
                      \/ /\ o = 2 /\ p.cmd \in {"register", "logout"}
                         /\ Goes(c, 1, p.account, p.hook, <<>>)
  <2>1. HAVE Write(c)
  <2>2. (o = 2 /\ Target(c) = "env") \/ (o = 5 /\ Target(c) = "soul")
    BY <1>0, <2>1, Standing DEF Write
  <2>3. <<>> \in Lines \cup Seq(Nat) /\ Proceed(c, [p EXCEPT !.copy = <<>>])
    BY <2>1, EmptyGood, <1>2 DEF Write
  <2>4. IF o = Final(p.cmd) THEN Ends(c) ELSE Goes(c, 1, p.account, p.hook, <<>>)
    BY <1>13, <2>3
  <2>5. o \in -3..Final(p.cmd)
    BY <1>0, Standing
  <2>6. QED BY <1>2, <2>2, <2>4, <2>5 DEF Final, Commands
<1>11. Read(c) => /\ (o = 0 /\ Target(c) = "env") \/ (o = 3 /\ Target(c) = "soul")
                  /\ \/ /\ NothingToClear(c, Target(c)) /\ p.cmd = "logout"
                        /\ (o = 0 /\ On(3)) \/ (o = 3 /\ Ends(c))
                     \/ /\ ~NothingToClear(c, Target(c))
                        /\ Goes(c, 1, p.account, p.hook, file[Target(c)])
  <2>1. HAVE Read(c)
  <2>2. (o = 0 /\ Target(c) = "env") \/ (o = 3 /\ Target(c) = "soul")
    BY <1>0, <2>1, Standing DEF Read
  <2>3. CASE NothingToClear(c, Target(c))
    <3>1. p.cmd = "logout" /\ Skip(c, 3) /\ Final(p.cmd) = 5
      BY <2>1, <2>3 DEF Read, NothingToClear, Final
    <3>2. Len(p.todo) >= 3
      <4>1. Len(p.todo) \in Nat /\ o = Final(p.cmd) + 1 - Len(p.todo)
        BY <1>2, TodoLeft DEF Place
      <4>. DEFINE m == Len(p.todo)
      <4>. HIDE DEF m, o
      <4>2. m \in Nat /\ o = 5 + 1 - m
        BY <3>1, <4>1 DEF m
      <4>3. m >= 3
        BY <2>2, <4>2
      <4>4. QED BY <4>3 DEF m
    <3>3. Moves(c, p, 3)
      BY <1>0, <1>2, <3>1, <3>2, SkipMoves DEF Typed
    <3>4. IF o + 3 = 5 + 1 THEN Ends(c) ELSE On(3)
      BY <2>2, <3>1, <3>3, MovesGoes
    <3>5. QED BY <2>2, <2>3, <3>1, <3>4
  <2>4. CASE ~NothingToClear(c, Target(c))
    <3>1. Proceed(c, [p EXCEPT !.copy = file[Target(c)]])
      BY <2>1, <2>4 DEF Read
    <3>2. file[Target(c)] \in Lines \cup Seq(Nat)
      BY <1>2, <2>2
    <3>3. o # Final(p.cmd)
      BY <2>2 DEF Final
    <3>4. QED BY <1>13, <2>2, <2>4, <3>1, <3>2, <3>3
  <2>5. QED BY <2>3, <2>4
<1>12. QED BY <1>3, <1>4, <1>5, <1>6, <1>7, <1>8, <1>9, <1>10, <1>11

-----------------------------------------------------------------------------
\* The inductive invariant: the types, and that every version of .env is good, the
\* one in the file and those the commands have read, whatever raced or died.
LEMMA SoundInit == Init => Sound
<1>. SUFFICES ASSUME Init PROVE Sound
  OBVIOUS
<1>1. PICK s \in Situations :
        /\ file = [env |-> s.env, soul |-> s.soul]
        /\ accounts = s.accounts
        /\ subscribed = Len(s.owners)
        /\ hooks = {[id |-> n, owner |-> s.owners[n]] : n \in 1..subscribed}
  BY DEF Init
<1>2. /\ s.accounts \in Nat /\ s.soul \in Seq(Nat) /\ Len(s.owners) \in Nat
      /\ \A n \in 1..Len(s.owners) : s.owners[n] \in 1..s.accounts
      /\ EnvGood(s.env, s.accounts) /\ s.env \in Lines
  BY SituationsGood DEF EnvGood
<1>3. hooks \subseteq [id : 1..subscribed, owner : 1..accounts]
  BY <1>1, <1>2
<1>4. file \in [{"env", "soul"} -> Lines \cup Seq(Nat)] /\ file["soul"] \in Seq(Nat) /\ file["env"] = s.env
  BY <1>1, <1>2
<1>5. /\ proc = [c \in Procs |-> Idle] /\ shell = [c \in Procs |-> NoEnv]
      /\ commands = 0 /\ received = 1..accounts /\ persisted = 1..accounts
      /\ torn = [f \in {"env", "soul"} |-> FALSE] /\ disturbed = FALSE
  BY DEF Init
<1>6. Typed
  <2>1. NoEnv \in [EnvKeys -> Nat]
    BY DEF NoEnv, None
  <2>2. QED BY <1>1, <1>2, <1>3, <1>4, <1>5, <2>1, IdleType DEF Typed
<1>7. FilesGood /\ ProcsGood
  BY <1>1, <1>2, <1>4, <1>5, IdleType DEF FilesGood, ProcsGood, Running
<1>8. ShellsGood
  BY <1>1, <1>2, <1>5 DEF ShellsGood, NoEnv, EnvKeys, None
<1>9. QED BY <1>6, <1>7, <1>8 DEF Sound

LEMMA SoundKept ==
  ASSUME Sound, NEW c \in Procs, Typed', OnlyMoves(c),
         accounts <= accounts', subscribed <= subscribed', shell' = shell,
         EnvGood(file'["env"], accounts'),
         proc'[c].cmd # "none" => WellFormed(proc'[c], accounts', subscribed')
  PROVE  Sound'
<1>1. Typed /\ ProcsGood /\ ShellsGood /\ accounts \in Nat /\ accounts' \in Nat /\ subscribed' \in Nat
  BY DEF Sound, Typed
<1>2. ProcsGood'
  BY <1>1, ProcsStayGood
<1>3. ShellsGood'
  BY <1>1 DEF ShellsGood
<1>4. QED BY <1>2, <1>3 DEF Sound, FilesGood

\* A command is over, or goes on with what it held, and all else stays.
LEMMA SoundIdle ==
  ASSUME Sound, NEW c \in Procs, Ends(c),
         UNCHANGED <<file, accounts, subscribed, shell, commands, received, persisted>>,
         hooks' \subseteq hooks, disturbed' \in BOOLEAN,
         torn' \in [{"env", "soul"} -> BOOLEAN]
  PROVE  Sound'
<1>1. OnlyMoves(c) /\ proc'[c].cmd = "none"
  BY IdleType DEF Ends
<1>2. Typed'
  BY <1>1 DEF Sound, Typed, OnlyMoves
<1>3. accounts <= accounts' /\ subscribed <= subscribed' /\ EnvGood(file'["env"], accounts')
  BY DEF Sound, Typed, FilesGood
<1>4. QED BY <1>1, <1>2, <1>3, SoundKept

LEMMA SoundOn ==
  ASSUME Sound, NEW c \in Procs, NEW n, NEW a, NEW h, NEW x, Goes(c, n, a, h, x),
         UNCHANGED <<file, accounts, subscribed, shell, commands, received, persisted, disturbed>>,
         hooks' \subseteq hooks, torn' \in [{"env", "soul"} -> BOOLEAN],
         WellFormed(proc'[c], accounts, subscribed)
  PROVE  Sound'
<1>1. OnlyMoves(c)
  BY DEF Goes
<1>2. Typed'
  BY <1>1 DEF Sound, Typed, OnlyMoves
<1>3. accounts <= accounts' /\ subscribed <= subscribed' /\ EnvGood(file'["env"], accounts')
  BY DEF Sound, Typed, FilesGood
<1>4. QED BY <1>1, <1>2, <1>3, SoundKept

LEMMA SoundSource ==
  ASSUME Sound, NEW c \in Procs, Source(c)
  PROVE  Sound'
<1>. DEFINE ls == file["env"]
<1>1. /\ Typed /\ FilesGood /\ ShellsGood /\ accounts \in Nat
      /\ ls \in Lines /\ Keyed(ls, accounts) /\ Paired(ls)
  BY DEF Sound, Typed, FilesGood, EnvGood
<1>2. /\ UNCHANGED <<file, platform, proc, history>>
      /\ shell' = [shell EXCEPT ![c] = Sourced(@, ls)]
  BY DEF Source
<1>3. /\ Sourced(shell[c], ls) \in [EnvKeys -> Nat]
      /\ Sourced(shell[c], ls)["API_KEY"] \in 0..accounts
      /\ Sourced(shell[c], ls)["SECRET"] = Sourced(shell[c], ls)["ID"]
  <2>1. /\ shell[c] \in [EnvKeys -> Nat] /\ shell[c]["API_KEY"] \in 0..accounts
        /\ shell[c]["SECRET"] = shell[c]["ID"]
    BY <1>1 DEF Typed, ShellsGood
  <2>2. /\ \A k : LastWins(ls, k) \in Nat
        /\ LastWins(ls, "API_KEY") \in 0..accounts
    BY <1>1, ValuesRead
  <2>3. "API_KEY" \in EnvKeys /\ "SECRET" \in EnvKeys /\ "ID" \in EnvKeys
    BY DEF EnvKeys
  <2>. HIDE DEF ls
  <2>4. QED BY <1>1, <2>1, <2>2, <2>3 DEF Sourced, Paired
<1>4. Typed'
  BY <1>1, <1>2, <1>3 DEF Typed, platform, history
<1>5. ShellsGood'
  BY <1>1, <1>2, <1>3 DEF ShellsGood, Typed, platform
<1>6. FilesGood' /\ ProcsGood'
  BY <1>2 DEF Sound, FilesGood, ProcsGood, Running, platform
<1>7. QED BY <1>4, <1>5, <1>6 DEF Sound

\* A command starts with its whole program before it.
LEMMA StartsOnProgram ==
  ASSUME Typed, NEW c \in Procs, NEW cmd \in DOMAIN Program, Start(c, cmd)
  PROVE  /\ OnlyMoves(c) /\ OnProgram(proc'[c]) /\ proc'[c].cmd = cmd /\ cmd \in Commands
         /\ proc'[c].copy = <<>>
         /\ cmd = "delete" => proc'[c].hook \in 1..subscribed /\ Place(proc'[c]) = -3
         /\ cmd \in {"register", "setup"} => Place(proc'[c]) = -2
         /\ cmd = "logout" => Place(proc'[c]) = 0
<1>. DEFINE prog == Program[cmd]
<1>1. cmd \in Commands /\ Len(prog) \in Nat \ {0}
  BY ProgramSteps DEF Commands
<1>2. prog \in Seq(Steps \X {"api", "env", "soul"})
  <2>. DEFINE T == Steps \X {"api", "env", "soul"}
  <2>1. \A call \in Steps : Api(call) \in Seq(T)
    BY DEF Api
  <2>2. \A f \in {"env", "soul"} : Rewrite(f) \in Seq(T)
    <3>1. \A f \in {"env", "soul"} : <<"read", f>> \in T /\ <<"truncate", f>> \in T /\ <<"write", f>> \in T
      BY DEF Steps
    <3>. HIDE DEF T
    <3>2. QED BY <3>1 DEF Rewrite
  <2>3. <<<<"check", "env">>>> \in Seq(T)
    BY DEF Steps
  <2>4. {"mint", "me", "client", "subscribe", "unsubscribe"} \subseteq Steps
    BY DEF Steps
  <2>. HIDE DEF T
  <2>5. \A s, t \in Seq(T) : s \o t \in Seq(T)
    BY ConcatProperties
  <2>. DEFINE m1 == Api("mint") \o Api("me")
              m2 == m1 \o Rewrite("env")
              m3 == m2 \o Rewrite("soul")
              l1 == Rewrite("env") \o Rewrite("soul")
              s1 == Api("client") \o Api("subscribe")
              s2 == s1 \o Rewrite("env")
              d1 == Api("client") \o Api("unsubscribe")
              d2 == d1 \o <<<<"check", "env">>>>
              d3 == d2 \o Rewrite("env")
  <2>6. /\ Api("mint") \in Seq(T) /\ Api("me") \in Seq(T) /\ Api("client") \in Seq(T)
        /\ Api("subscribe") \in Seq(T) /\ Api("unsubscribe") \in Seq(T)
        /\ Rewrite("env") \in Seq(T) /\ Rewrite("soul") \in Seq(T)
    BY <2>1, <2>2, <2>4
  <2>7. m1 \in Seq(T) /\ l1 \in Seq(T) /\ s1 \in Seq(T) /\ d1 \in Seq(T)
    BY <2>5, <2>6
  <2>8. m2 \in Seq(T) /\ s2 \in Seq(T) /\ d2 \in Seq(T)
    <3>. HIDE DEF m1, s1, d1
    <3>1. QED BY <2>3, <2>5, <2>6, <2>7
  <2>9. m3 \in Seq(T) /\ d3 \in Seq(T)
    <3>. HIDE DEF m2, d2
    <3>1. QED BY <2>5, <2>6, <2>8
  <2>10. /\ Program["register"] = m3 /\ Program["logout"] = l1
         /\ Program["setup"] = s2 /\ Program["delete"] = d3
    BY DEF Program
  <2>. HIDE DEF m1, m2, m3, l1, s1, s2, d1, d2, d3
  <2>11. QED BY <1>1, <2>7, <2>8, <2>9, <2>10 DEF Commands, T
<1>3. PICK n \in IF cmd = "delete" THEN 1..subscribed ELSE {None} :
        proc' = [proc EXCEPT ![c] = [Idle EXCEPT !.cmd = cmd, !.todo = prog, !.hook = n]]
  BY DEF Start
<1>. DEFINE q == [Idle EXCEPT !.cmd = cmd, !.todo = prog, !.hook = n]
<1>4. n \in Nat
  BY <1>3 DEF Typed, None
<1>5. /\ q.cmd = cmd /\ q.todo = prog /\ q.hook = n /\ q.copy = <<>>
      /\ q \in ProcType
  BY <1>1, <1>2, <1>4, IdleType DEF Idle, ProcType
<1>6. OnProgram(q)
  <2>1. \A i \in 1..Len(prog) : Len(prog) - Len(prog) + i = i
    BY <1>1
  <2>2. Len(prog) \in 1..Len(prog)
    BY <1>1
  <2>. HIDE DEF q
  <2>3. QED BY <1>1, <1>5, <2>1, <2>2 DEF OnProgram
<1>7. /\ cmd = "delete" => Place(q) = -3
      /\ cmd \in {"register", "setup"} => Place(q) = -2
      /\ cmd = "logout" => Place(q) = 0
  <2>. HIDE DEF q
  <2>1. QED BY <1>5, ProgramSteps DEF Place, Final
<1>8. proc' \in [Procs -> ProcType] /\ proc'[c] = q /\ \A d \in Procs : d # c => proc'[d] = proc[d]
  <2>. HIDE DEF q
  <2>1. proc' = [proc EXCEPT ![c] = q]
    BY <1>3 DEF q
  <2>2. QED BY <1>5, <2>1 DEF Typed
<1>. HIDE DEF q
<1>9. QED BY <1>1, <1>3, <1>5, <1>6, <1>7, <1>8 DEF OnlyMoves

LEMMA SoundStart ==
  ASSUME Sound, NEW c \in Procs, NEW cmd \in DOMAIN Program, Start(c, cmd)
  PROVE  Sound'
<1>1. Typed /\ FilesGood
  BY DEF Sound
<1>2. /\ OnlyMoves(c) /\ OnProgram(proc'[c]) /\ proc'[c].cmd = cmd /\ cmd \in Commands
      /\ proc'[c].copy = <<>>
      /\ cmd = "delete" => proc'[c].hook \in 1..subscribed /\ Place(proc'[c]) = -3
      /\ cmd \in {"register", "setup"} => Place(proc'[c]) = -2
      /\ cmd = "logout" => Place(proc'[c]) = 0
  BY <1>1, StartsOnProgram
<1>3. /\ UNCHANGED <<file, platform, received, persisted, torn, shell>>
      /\ commands' = commands + 1 /\ disturbed' \in BOOLEAN
  BY <1>1 DEF Start, Typed
<1>4. Typed'
  BY <1>1, <1>2, <1>3 DEF Typed, OnlyMoves, platform
<1>5. WellFormed(proc'[c], accounts', subscribed')
  <2>. DEFINE q == proc'[c]
              o == Place(q)
  <2>1. \/ cmd = "delete" /\ o = -3
        \/ cmd \in {"register", "setup"} /\ o = -2
        \/ cmd = "logout" /\ o = 0
    BY <1>2 DEF Commands
  <2>2. accounts' = accounts /\ subscribed' = subscribed
    BY <1>3 DEF platform
  <2>3. /\ o \notin {1, 2, 4, 5}
        /\ q.cmd \in {"register", "setup"} => ~(o >= -1) /\ ~(o >= 0)
        /\ q.cmd = "delete" => ~(o >= -2)
        /\ q.cmd = "logout" => q.cmd \notin {"register", "setup", "delete"}
    BY <1>2, <2>1
  <2>. HIDE DEF q, o
  <2>4. WellFormed(q, accounts, subscribed)
    BY <1>2, <2>1, <2>3 DEF WellFormed, q, o
  <2>5. QED BY <2>2, <2>4 DEF q
<1>6. /\ accounts <= accounts' /\ subscribed <= subscribed' /\ shell' = shell
      /\ EnvGood(file'["env"], accounts')
  BY <1>1, <1>3 DEF Typed, FilesGood, platform
<1>7. QED BY <1>2, <1>4, <1>5, <1>6, SoundKept

LEMMA SoundMint ==
  ASSUME Sound, NEW c \in Procs, Mint(c)
  PROVE  Sound'
<1>. DEFINE p == proc[c]
            q == proc'[c]
<1>1. Typed /\ FilesGood /\ ProcsGood /\ accounts \in Nat /\ Running(c)
  BY DEF Sound, Typed, Mint, At
<1>2. p.cmd = "register" /\ Place(p) = -2 /\ Goes(c, 1, accounts + 1, p.hook, p.copy)
  BY Movements
<1>3. /\ UNCHANGED <<file, hooks, subscribed, commands, persisted, torn, disturbed, shell>>
      /\ accounts' = accounts + 1 /\ received' = received \cup {accounts + 1}
  BY DEF Mint
<1>4. OnlyMoves(c) /\ OnProgram(q) /\ q.cmd = "register" /\ Place(q) = -1 /\ q.account = accounts + 1
  BY <1>2 DEF Goes
<1>5. Typed'
  <2>1. accounts' \in Nat /\ \A v \in 1..accounts : v \in 1..accounts'
    BY <1>1, <1>3
  <2>2. accounts + 1 \in 1..accounts'
    BY <1>1, <1>3
  <2>3. received' \subseteq 1..accounts' /\ persisted' \subseteq 1..accounts'
    BY <1>1, <1>3, <2>1, <2>2 DEF Typed
  <2>4. hooks' \subseteq [id : 1..subscribed', owner : 1..accounts']
    BY <1>1, <1>3, <2>1 DEF Typed
  <2>5. QED BY <1>1, <1>3, <1>4, <2>1, <2>3, <2>4 DEF Typed, OnlyMoves
<1>6. WellFormed(q, accounts', subscribed')
  <2>1. q.account \in 1..accounts'
    BY <1>1, <1>3, <1>4
  <2>. HIDE DEF q
  <2>2. QED BY <1>4, <2>1 DEF WellFormed
<1>7. accounts <= accounts' /\ subscribed <= subscribed' /\ EnvGood(file'["env"], accounts')
  <2>1. accounts <= accounts' /\ accounts' \in Nat /\ subscribed <= subscribed'
    BY <1>1, <1>3 DEF Typed
  <2>2. QED BY <1>1, <1>3, <2>1, EnvGoodMonotone DEF FilesGood
<1>8. QED BY <1>3, <1>4, <1>5, <1>6, <1>7, SoundKept

LEMMA SoundSubscribe ==
  ASSUME Sound, NEW c \in Procs, Subscribe(c)
  PROVE  Sound'
<1>. DEFINE p == proc[c]
            q == proc'[c]
<1>1. /\ Typed /\ FilesGood /\ ProcsGood /\ accounts \in Nat /\ subscribed \in Nat /\ Running(c)
      /\ WellFormed(p, accounts, subscribed)
  BY DEF Sound, Typed, Subscribe, At, ProcsGood
<1>2. p.cmd = "setup" /\ Place(p) = -1 /\ Goes(c, 1, p.account, subscribed + 1, p.copy)
  BY Movements
<1>3. /\ UNCHANGED <<file, accounts, history, shell>> /\ subscribed' = subscribed + 1
      /\ hooks' = hooks \cup {[id |-> subscribed + 1, owner |-> p.account]}
  BY DEF Subscribe
<1>4. /\ OnlyMoves(c) /\ OnProgram(q) /\ q.cmd = "setup" /\ Place(q) = 0
      /\ q.account = p.account /\ q.hook = subscribed + 1
  BY <1>2 DEF Goes
<1>5. p.account \in 1..accounts
  BY <1>1, <1>2 DEF WellFormed
<1>6. Typed'
  <2>1. subscribed' \in Nat /\ subscribed + 1 \in 1..subscribed' /\ \A v \in 1..subscribed : v \in 1..subscribed'
    BY <1>1, <1>3
  <2>2. hooks' \subseteq [id : 1..subscribed', owner : 1..accounts']
    BY <1>1, <1>3, <1>5, <2>1 DEF Typed
  <2>3. QED BY <1>1, <1>3, <1>4, <2>1, <2>2 DEF Typed, OnlyMoves, history
<1>7. WellFormed(q, accounts', subscribed')
  <2>1. q.account \in 1..accounts' /\ q.hook \in 1..subscribed'
    BY <1>1, <1>3, <1>4, <1>5
  <2>. HIDE DEF q
  <2>2. QED BY <1>4, <2>1 DEF WellFormed
<1>8. accounts <= accounts' /\ subscribed <= subscribed' /\ EnvGood(file'["env"], accounts')
  BY <1>1, <1>3 DEF FilesGood
<1>9. QED BY <1>3, <1>4, <1>6, <1>7, <1>8, SoundKept

\* me, client, unsubscribe, check: the files, the accounts and the environments stay.
LEMMA SoundCalls ==
  ASSUME Sound, NEW c \in Procs, Me(c) \/ Client(c) \/ Unsubscribe(c) \/ Check(c)
  PROVE  Sound'
<1>. DEFINE p == proc[c]
            q == proc'[c]
            a == ResolveApiKey(shell[c], file["env"])
<1>1. Typed /\ ProcsGood /\ Running(c) /\ WellFormed(p, accounts, subscribed)
  BY DEF Sound, Typed, Me, Client, Unsubscribe, Check, At, ProcsGood
<1>2. /\ UNCHANGED <<file, accounts, subscribed, shell, commands, received, persisted, disturbed>>
      /\ UNCHANGED torn /\ hooks' \subseteq hooks
  BY DEF Me, Client, Unsubscribe, Check, platform, history
<1>3. \/ p.cmd = "register" /\ Place(p) = -1 /\ Goes(c, 1, p.account, p.hook, p.copy)
      \/ /\ p.cmd = "setup" /\ Place(p) = -2
         /\ Ends(c) \/ (a \in 1..accounts /\ Goes(c, 1, a, p.hook, p.copy))
      \/ /\ p.cmd = "delete" /\ Place(p) = -3
         /\ Ends(c) \/ (a \in 1..accounts /\ Goes(c, 1, a, p.hook, p.copy))
      \/ /\ p.cmd = "delete" /\ Place(p) \in {-2, -1}
         /\ Ends(c) \/ Goes(c, 1, p.account, p.hook, p.copy)
  <2>. HIDE DEF p, a
  <2>1. QED BY Movements DEF p, a
<1>4. torn' \in [{"env", "soul"} -> BOOLEAN] /\ disturbed' \in BOOLEAN
  BY <1>1, <1>2 DEF Typed
<1>5. CASE Ends(c)
  BY <1>2, <1>4, <1>5, SoundIdle
<1>6. CASE ~Ends(c)
  <2>1. PICK b : /\ Goes(c, 1, b, p.hook, p.copy)
                 /\ \/ b = p.account /\ p.cmd = "register" /\ Place(p) = -1
                    \/ b = p.account /\ p.cmd = "delete" /\ Place(p) \in {-2, -1}
                    \/ b \in 1..accounts /\ p.cmd = "setup" /\ Place(p) = -2
                    \/ b \in 1..accounts /\ p.cmd = "delete" /\ Place(p) = -3
    BY <1>3, <1>6
  <2>2. /\ OnProgram(q) /\ q.cmd = p.cmd /\ Place(q) = Place(p) + 1
        /\ q.account = b /\ q.hook = p.hook
    BY <2>1 DEF Goes
  <2>3. b \in 1..accounts /\ (q.cmd = "delete" => q.hook \in 1..subscribed)
    BY <1>1, <2>1, <2>2 DEF WellFormed
  <2>4. WellFormed(q, accounts, subscribed)
    <3>1. /\ Place(q) \notin {1, 2, 4, 5} /\ (q.cmd = "setup" => ~(Place(q) >= 0))
          /\ q.cmd \in {"register", "setup", "delete"}
      BY <2>1, <2>2
    <3>. HIDE DEF q
    <3>2. QED BY <2>2, <2>3, <3>1 DEF WellFormed
  <2>5. QED BY <1>2, <1>4, <2>1, <2>4, SoundOn
<1>7. QED BY <1>5, <1>6

LEMMA SoundRead ==
  ASSUME Sound, NEW c \in Procs, Read(c)
  PROVE  Sound'
<1>. DEFINE p == proc[c]
            q == proc'[c]
            f == Target(c)
<1>1. /\ Typed /\ FilesGood /\ ProcsGood /\ Running(c) /\ WellFormed(p, accounts, subscribed)
      /\ EnvGood(file["env"], accounts) /\ file["soul"] \in Seq(Nat)
  BY DEF Sound, Typed, Read, At, ProcsGood, FilesGood
<1>2. /\ UNCHANGED <<file, platform, commands, received, persisted, disturbed, shell>>
      /\ torn' = [torn EXCEPT ![f] = @ \/ BeingWritten(f)]
  BY DEF Read
<1>3. /\ (Place(p) = 0 /\ f = "env") \/ (Place(p) = 3 /\ f = "soul")
      /\ \/ p.cmd = "logout" /\ Place(p) = 0 /\ Goes(c, 3, p.account, p.hook, p.copy)
         \/ Ends(c)
         \/ Goes(c, 1, p.account, p.hook, file[f])
  <2>. HIDE DEF p, f
  <2>1. QED BY Movements DEF p, f
<1>4. /\ torn' \in [{"env", "soul"} -> BOOLEAN] /\ disturbed' \in BOOLEAN
      /\ UNCHANGED <<file, accounts, subscribed, shell, commands, received, persisted, disturbed>>
      /\ hooks' \subseteq hooks
  BY <1>1, <1>2 DEF Typed, platform
<1>5. CASE Ends(c)
  BY <1>4, <1>5, SoundIdle
<1>6. CASE p.cmd = "logout" /\ Place(p) = 0 /\ Goes(c, 3, p.account, p.hook, p.copy)
  <2>1. OnProgram(q) /\ q.cmd = "logout" /\ Place(q) = 3
    BY <1>6 DEF Goes
  <2>2. WellFormed(q, accounts, subscribed)
    <3>. HIDE DEF q
    <3>1. QED BY <2>1 DEF WellFormed
  <2>3. QED BY <1>4, <1>6, <2>2, SoundOn
<1>7. CASE Goes(c, 1, p.account, p.hook, file[f])
  <2>1. /\ OnProgram(q) /\ q.cmd = p.cmd /\ Place(q) = Place(p) + 1
        /\ q.account = p.account /\ q.hook = p.hook /\ q.copy = file[f]
    BY <1>7 DEF Goes
  <2>2. \/ Place(p) = 0 /\ Place(q) = 1 /\ EnvGood(q.copy, accounts)
        \/ Place(p) = 3 /\ Place(q) = 4 /\ q.copy \in Seq(Nat)
    BY <1>1, <1>3, <2>1
  <2>3. WellFormed(q, accounts, subscribed)
    <3>. HIDE DEF p, q, f
    <3>1. QED BY <1>1, <2>1, <2>2 DEF WellFormed
  <2>4. QED BY <1>4, <1>7, <2>3, SoundOn
<1>8. QED BY <1>3, <1>5, <1>6, <1>7

LEMMA SoundTruncate ==
  ASSUME Sound, NEW c \in Procs, Truncate(c)
  PROVE  Sound'
<1>. DEFINE p == proc[c]
            q == proc'[c]
            f == Target(c)
<1>1. /\ Typed /\ FilesGood /\ ProcsGood /\ Running(c) /\ WellFormed(p, accounts, subscribed)
      /\ accounts \in Nat
  BY DEF Sound, Typed, Truncate, At, ProcsGood
<1>2. UNCHANGED <<platform, history, shell>> /\ file' = [file EXCEPT ![f] = <<>>]
  BY DEF Truncate
<1>3. /\ (Place(p) = 1 /\ f = "env") \/ (Place(p) = 4 /\ f = "soul")
      /\ Goes(c, 1, p.account, p.hook, p.copy)
  <2>. HIDE DEF p, f
  <2>1. QED BY Movements DEF p, f
<1>4. /\ OnlyMoves(c) /\ OnProgram(q) /\ q.cmd = p.cmd /\ Place(q) = Place(p) + 1
      /\ q.account = p.account /\ q.hook = p.hook /\ q.copy = p.copy
  BY <1>3 DEF Goes
<1>5. /\ file' \in [{"env", "soul"} -> Lines \cup Seq(Nat)]
      /\ file'["soul"] \in Seq(Nat) /\ EnvGood(file'["env"], accounts)
  BY <1>1, <1>2, <1>3, EmptyGood DEF Typed, FilesGood
<1>6. Typed'
  BY <1>1, <1>2, <1>4, <1>5 DEF Typed, OnlyMoves, platform, history
<1>7. /\ accounts <= accounts' /\ subscribed <= subscribed' /\ EnvGood(file'["env"], accounts')
      /\ accounts' = accounts /\ subscribed' = subscribed /\ shell' = shell
  BY <1>1, <1>2, <1>5 DEF platform, Typed
<1>8. WellFormed(q, accounts, subscribed)
  <2>1. (Place(p) = 1 /\ Place(q) = 2) \/ (Place(p) = 4 /\ Place(q) = 5)
    BY <1>3, <1>4
  <2>. HIDE DEF p, q
  <2>2. QED BY <1>1, <1>4, <2>1 DEF WellFormed
<1>9. QED BY <1>4, <1>6, <1>7, <1>8, SoundKept

LEMMA SoundWrite ==
  ASSUME Sound, NEW c \in Procs, Write(c)
  PROVE  Sound'
<1>. DEFINE p == proc[c]
            q == proc'[c]
            f == Target(c)
<1>1. /\ Typed /\ FilesGood /\ ProcsGood /\ Running(c) /\ WellFormed(p, accounts, subscribed)
      /\ accounts \in Nat
  BY DEF Sound, Typed, Write, At, ProcsGood
<1>2. /\ UNCHANGED <<platform, commands, received, torn, disturbed, shell>>
      /\ file' = [file EXCEPT ![f] = Edited(c, f)]
      /\ persisted' = persisted \cup (IF p.cmd = "register" /\ f = "env" THEN {p.account} ELSE {})
  BY DEF Write
<1>3. /\ (Place(p) = 2 /\ f = "env") \/ (Place(p) = 5 /\ f = "soul")
      /\ \/ Ends(c)
         \/ Place(p) = 2 /\ p.cmd \in {"register", "logout"} /\ Goes(c, 1, p.account, p.hook, <<>>)
  <2>. HIDE DEF p, f
  <2>1. QED BY Movements DEF p, f
<1>4. /\ f = "env" => EnvGood(Edited(c, f), accounts) /\ Edited(c, f) \in Lines
      /\ f = "soul" => Edited(c, f) \in Seq(Nat)
  BY <1>1, <1>3, EditedEnv, EditedSoul DEF EnvGood
<1>5. /\ file' \in [{"env", "soul"} -> Lines \cup Seq(Nat)]
      /\ file'["soul"] \in Seq(Nat) /\ EnvGood(file'["env"], accounts)
  <2>. HIDE DEF f
  <2>1. QED BY <1>1, <1>2, <1>3, <1>4 DEF Typed, FilesGood
<1>6. OnlyMoves(c)
  BY <1>3 DEF Ends, Goes
<1>7. persisted' \subseteq 1..accounts
  <2>1. p.cmd = "register" /\ f = "env" => p.account \in 1..accounts
    BY <1>1, <1>3 DEF WellFormed
  <2>. HIDE DEF p, f
  <2>2. QED BY <1>1, <1>2, <2>1 DEF Typed
<1>8. Typed'
  BY <1>1, <1>2, <1>5, <1>6, <1>7 DEF Typed, OnlyMoves, platform
<1>9. /\ accounts <= accounts' /\ subscribed <= subscribed' /\ EnvGood(file'["env"], accounts')
      /\ accounts' = accounts /\ subscribed' = subscribed /\ shell' = shell
  BY <1>1, <1>2, <1>5 DEF platform, Typed
<1>10. q.cmd # "none" => WellFormed(q, accounts, subscribed)
  <2>1. CASE Ends(c)
    BY <2>1, IdleType DEF Ends
  <2>2. CASE Place(p) = 2 /\ p.cmd \in {"register", "logout"} /\ Goes(c, 1, p.account, p.hook, <<>>)
    <3>1. /\ OnProgram(q) /\ q.cmd = p.cmd /\ Place(q) = 3 /\ q.account = p.account
      BY <2>2 DEF Goes
    <3>. HIDE DEF p, q
    <3>2. QED BY <1>1, <2>2, <3>1 DEF WellFormed
  <2>3. QED BY <1>3, <2>1, <2>2
<1>11. QED BY <1>6, <1>8, <1>9, <1>10, SoundKept

LEMMA SoundEndEarly ==
  ASSUME Sound, NEW c \in Procs, EndEarly(c)
  PROVE  Sound'
<1>1. Ends(c)
  BY Movements
<1>2. /\ UNCHANGED <<file, platform, commands, received, persisted, shell>>
      /\ torn' = IF At(c, "write") THEN [torn EXCEPT ![Target(c)] = TRUE] ELSE torn
      /\ disturbed' = (disturbed \/ Target(c) # "api")
  BY DEF EndEarly
<1>3. torn' \in [{"env", "soul"} -> BOOLEAN] /\ disturbed' \in BOOLEAN
  BY <1>2 DEF Sound, Typed
<1>4. UNCHANGED <<file, accounts, subscribed, shell, commands, received, persisted>> /\ hooks' = hooks
  BY <1>2 DEF platform
<1>5. QED BY <1>1, <1>3, <1>4, SoundIdle

LEMMA SoundNext == Sound /\ [Next]_vars => Sound'
<1>. SUFFICES ASSUME Sound, [Next]_vars PROVE Sound'
  OBVIOUS
<1>1. CASE UNCHANGED vars
  BY <1>1 DEF vars, platform, history, Sound, Typed, FilesGood, ProcsGood, ShellsGood, Running
<1>2. ASSUME NEW c \in Procs,
             \/ Source(c) \/ \E cmd \in DOMAIN Program : Start(c, cmd)
             \/ Mint(c) \/ Me(c) \/ Client(c) \/ Subscribe(c) \/ Unsubscribe(c) \/ Check(c)
             \/ Read(c) \/ Truncate(c) \/ Write(c)
             \/ EndEarly(c)
      PROVE  Sound'
  BY <1>2, SoundSource, SoundStart, SoundMint, SoundSubscribe, SoundCalls, SoundRead,
     SoundTruncate, SoundWrite, SoundEndEarly
<1>3. QED BY <1>1, <1>2 DEF Next

LEMMA SoundAlways == Spec => []Sound
BY SoundInit, SoundNext, PTL DEF Spec

-----------------------------------------------------------------------------
\* Every state the commands can reach has its types, and .env the key at most once.
THEOREM TypeCorrect == Spec => []TypeOK
<1>1. Sound => TypeOK
  <2>. SUFFICES ASSUME Sound PROVE TypeOK
    OBVIOUS
  <2>. DEFINE D == Defs(file["env"], "API_KEY")
  <2>1. Typed /\ file["env"] \in Lines /\ Single(file["env"], "API_KEY") /\ ProcsGood
    BY DEF Sound, FilesGood, EnvGood, Keyed
  <2>2. Cardinality(D) <= 1
    <3>1. CASE D = {}
      BY <3>1, FS_EmptySet
    <3>2. CASE D # {}
      <4>1. PICK i \in D : D = {i}
        BY <2>1, <3>2 DEF Single
      <4>. HIDE DEF D
      <4>2. Cardinality({i}) = 1
        BY FS_Singleton
      <4>3. QED BY <4>1, <4>2
    <3>3. QED BY <3>1, <3>2
  <2>3. \A c \in Procs : Running(c) => proc[c].todo # <<>>
    <3>1. TAKE c \in Procs
    <3>2. HAVE Running(c)
    <3>3. proc[c] \in ProcType /\ OnProgram(proc[c])
      BY <2>1, <3>2, Standing
    <3>4. Len(proc[c].todo) # 0
      BY <3>3, TodoLeft
    <3>5. QED BY <3>4
  <2>4. \A f \in {"env", "soul"} : file[f] \in Contents(f)
    BY <2>1 DEF Typed, Contents, Lines
  <2>5. QED BY <2>1, <2>2, <2>3, <2>4 DEF TypeOK, Typed
<1>2. QED BY <1>1, SoundAlways, PTL

\* The webhook id and the secret of .env were made for each other, whichever commands
\* raced on the file or died in the middle of it.
THEOREM PairAlwaysConsistent == Spec => []PairConsistent
<1>1. Sound => PairConsistent
  BY DEF Sound, FilesGood, EnvGood, Paired, PairConsistent
<1>2. QED BY <1>1, SoundAlways, PTL

-----------------------------------------------------------------------------
LEMMA SoulBehindInit == Init => SoulBehind
<1>. SUFFICES ASSUME Init PROVE SoulBehind
  OBVIOUS
<1>1. PICK s \in Situations : file = [env |-> s.env, soul |-> s.soul] /\ accounts = s.accounts
  BY DEF Init
<1>2. Claims(s.soul) \subseteq 1..s.accounts
  BY SituationsGood
<1>3. persisted = 1..accounts /\ proc = [c \in Procs |-> Idle]
  BY DEF Init
<1>4. file["soul"] = s.soul
  BY <1>1
<1>5. QED BY <1>1, <1>2, <1>3, <1>4, IdleType DEF SoulBehind, SoulAfterKey, Running

\* The commands but c stay behind with theirs; c has to be looked at.
LEMMA SoulBehindKept ==
  ASSUME SoulBehind, NEW c \in Procs, OnlyMoves(c), persisted \subseteq persisted',
         Claims(file'["soul"]) \subseteq persisted',
         proc'[c].cmd # "none" => KeyFirst(proc'[c], persisted')
  PROVE  SoulBehind'
<1>1. \A d \in Procs : Running(d)' => KeyFirst(proc'[d], persisted')
  <2>1. TAKE d \in Procs
  <2>2. CASE d = c
    BY <2>2 DEF Running
  <2>3. CASE d # c
    BY <2>3 DEF SoulBehind, OnlyMoves, Running, KeyFirst
  <2>4. QED BY <2>2, <2>3
<1>2. QED BY <1>1 DEF SoulBehind, SoulAfterKey

LEMMA SoulBehindNext == Sound /\ SoulBehind /\ [Next]_vars => SoulBehind'
<1>. SUFFICES ASSUME Sound, SoulBehind, [Next]_vars PROVE SoulBehind'
  OBVIOUS
<1>0. Typed /\ ProcsGood /\ SoulAfterKey
  BY DEF Sound, SoulBehind
<1>1. CASE UNCHANGED vars
  BY <1>1 DEF vars, platform, history, SoulBehind, SoulAfterKey, Running
<1>2. ASSUME NEW c \in Procs, Source(c)
      PROVE  SoulBehind'
  BY <1>2 DEF Source, history, SoulBehind, SoulAfterKey, Running
<1>3. ASSUME NEW c \in Procs, NEW cmd \in DOMAIN Program, Start(c, cmd)
      PROVE  SoulBehind'
  <2>1. OnlyMoves(c) /\ (Place(proc'[c]) \in {-3, -2, 0})
    BY <1>0, <1>3, StartsOnProgram DEF Commands
  <2>2. KeyFirst(proc'[c], persisted')
    BY <2>1 DEF KeyFirst
  <2>3. file' = file /\ persisted' = persisted
    BY <1>3 DEF Start
  <2>4. QED BY <1>0, <2>1, <2>2, <2>3, SoulBehindKept DEF SoulAfterKey
<1>4. ASSUME NEW c \in Procs,
             Mint(c) \/ Me(c) \/ Client(c) \/ Subscribe(c) \/ Unsubscribe(c) \/ Check(c)
      PROVE  SoulBehind'
  <2>1. file' = file /\ persisted' = persisted
    BY <1>4 DEF Mint, Me, Client, Subscribe, Unsubscribe, Check, history
  <2>2. OnlyMoves(c) /\ (proc'[c].cmd # "none" => Place(proc'[c]) \in {-2, -1, 0})
    BY <1>4, Movements, IdleType DEF Goes, Ends
  <2>3. proc'[c].cmd # "none" => KeyFirst(proc'[c], persisted')
    BY <2>2 DEF KeyFirst
  <2>4. QED BY <1>0, <2>1, <2>2, <2>3, SoulBehindKept DEF SoulAfterKey
<1>5. ASSUME NEW c \in Procs, EndEarly(c)
      PROVE  SoulBehind'
  <2>1. OnlyMoves(c) /\ proc'[c].cmd = "none"
    BY <1>5, Movements, IdleType DEF Ends
  <2>2. file' = file /\ persisted' = persisted
    BY <1>5 DEF EndEarly
  <2>3. QED BY <1>0, <2>1, <2>2, SoulBehindKept DEF SoulAfterKey
<1>6. ASSUME NEW c \in Procs, Read(c)
      PROVE  SoulBehind'
  <2>. DEFINE p == proc[c]
              q == proc'[c]
  <2>1. file' = file /\ persisted' = persisted /\ Running(c) /\ KeyFirst(p, persisted)
    BY <1>6 DEF Read, At, SoulBehind
  <2>2. CASE Ends(c)
    BY <1>0, <2>1, <2>2, IdleType, SoulBehindKept DEF SoulAfterKey, Ends
  <2>3. CASE p.cmd = "logout" /\ Place(p) = 0 /\ Goes(c, 3, p.account, p.hook, p.copy)
    <3>1. OnlyMoves(c) /\ Place(q) = 3 /\ q.cmd = "logout"
      BY <2>3 DEF Goes
    <3>2. KeyFirst(q, persisted')
      BY <3>1 DEF KeyFirst
    <3>3. QED BY <1>0, <2>1, <3>1, <3>2, SoulBehindKept DEF SoulAfterKey
  <2>4. CASE Place(p) = 0 /\ Goes(c, 1, p.account, p.hook, file["env"])
    <3>1. OnlyMoves(c) /\ Place(q) = 1
      BY <2>4 DEF Goes
    <3>2. KeyFirst(q, persisted')
      BY <3>1 DEF KeyFirst
    <3>3. QED BY <1>0, <2>1, <3>1, <3>2, SoulBehindKept DEF SoulAfterKey
  <2>5. CASE Place(p) = 3 /\ Goes(c, 1, p.account, p.hook, file["soul"])
    <3>1. OnlyMoves(c) /\ Place(q) = 4 /\ q.copy = file["soul"] /\ q.cmd = p.cmd /\ q.account = p.account
      BY <2>5 DEF Goes
    <3>2. KeyFirst(q, persisted')
      BY <1>0, <2>1, <2>5, <3>1 DEF KeyFirst, SoulAfterKey
    <3>3. QED BY <1>0, <2>1, <3>1, <3>2, SoulBehindKept DEF SoulAfterKey
  <2>6. QED BY <1>6, <2>2, <2>3, <2>4, <2>5, Movements
<1>7. ASSUME NEW c \in Procs, Truncate(c)
      PROVE  SoulBehind'
  <2>. DEFINE p == proc[c]
              q == proc'[c]
  <2>1. /\ persisted' = persisted /\ Running(c) /\ KeyFirst(p, persisted)
        /\ file' = [file EXCEPT ![Target(c)] = <<>>]
    BY <1>7 DEF Truncate, At, SoulBehind, history
  <2>2. /\ (Place(p) = 1 /\ Target(c) = "env") \/ (Place(p) = 4 /\ Target(c) = "soul")
        /\ Goes(c, 1, p.account, p.hook, p.copy)
    BY <1>7, Movements
  <2>3. OnlyMoves(c) /\ Place(q) = Place(p) + 1 /\ q.cmd = p.cmd /\ q.account = p.account /\ q.copy = p.copy
    BY <2>2 DEF Goes
  <2>4. KeyFirst(q, persisted')
    BY <2>1, <2>2, <2>3 DEF KeyFirst
  <2>5. file'["soul"] = file["soul"] \/ file'["soul"] = <<>>
    BY <1>0, <2>1, <2>2 DEF Typed
  <2>6. Claims(file'["soul"]) \subseteq persisted'
    BY <1>0, <2>1, <2>5, EmptyGood DEF SoulAfterKey, Typed
  <2>7. QED BY <2>1, <2>3, <2>4, <2>6, SoulBehindKept
<1>8. ASSUME NEW c \in Procs, Write(c)
      PROVE  SoulBehind'
  <2>. DEFINE p == proc[c]
              q == proc'[c]
  <2>1. /\ Running(c) /\ KeyFirst(p, persisted) /\ WellFormed(p, accounts, subscribed)
        /\ file' = [file EXCEPT ![Target(c)] = Edited(c, Target(c))]
        /\ persisted' = persisted \cup (IF p.cmd = "register" /\ Target(c) = "env" THEN {p.account} ELSE {})
    BY <1>0, <1>8 DEF Write, At, SoulBehind, ProcsGood
  <2>2. /\ (Place(p) = 2 /\ Target(c) = "env") \/ (Place(p) = 5 /\ Target(c) = "soul")
        /\ \/ Ends(c)
           \/ Place(p) = 2 /\ Goes(c, 1, p.account, p.hook, <<>>)
    BY <1>8, Movements
  <2>3. OnlyMoves(c) /\ (q.cmd # "none" => KeyFirst(q, persisted'))
    <3>1. CASE Ends(c)
      BY <3>1, IdleType DEF Ends
    <3>2. CASE Place(p) = 2 /\ Goes(c, 1, p.account, p.hook, <<>>)
      <4>1. OnlyMoves(c) /\ Place(q) = 3 /\ q.cmd = p.cmd /\ q.account = p.account
        BY <3>2 DEF Goes
      <4>2. p.cmd = "register" => p.account \in persisted'
        BY <2>1, <2>2, <3>2
      <4>3. QED BY <4>1, <4>2 DEF KeyFirst
    <3>3. QED BY <2>2, <3>1, <3>2
  <2>4. Claims(file'["soul"]) \subseteq persisted'
    <3>1. CASE Target(c) = "env"
      <4>1. file'["soul"] = file["soul"]
        BY <1>0, <2>1, <3>1 DEF Typed
      <4>2. QED BY <1>0, <2>1, <4>1 DEF SoulAfterKey
    <3>2. CASE Place(p) = 5 /\ Target(c) = "soul"
      <4>1. file'["soul"] = Edited(c, "soul")
        BY <1>0, <2>1, <3>2 DEF Typed
      <4>2. Claims(Edited(c, "soul")) \subseteq (IF p.cmd = "register" THEN {p.account} ELSE {})
        BY <1>0, <2>1, <3>2, EditedSoul
      <4>3. p.cmd = "register" => p.account \in persisted
        BY <2>1, <3>2 DEF KeyFirst
      <4>4. QED BY <2>1, <4>1, <4>2, <4>3
    <3>3. QED BY <2>2, <3>1, <3>2
  <2>5. QED BY <2>1, <2>3, <2>4, SoulBehindKept
<1>9. QED BY <1>1, <1>2, <1>3, <1>4, <1>5, <1>6, <1>7, <1>8 DEF Next

\* SOUL.md claims no account whose key was not written to .env before: not by a
\* command that raced with another, nor by one whose predecessor died.
THEOREM SoulNeverAhead == Spec => []SoulAfterKey
<1>1. Init => Sound /\ SoulBehind
  BY SoundInit, SoulBehindInit
<1>2. Sound /\ SoulBehind /\ [Next]_vars => Sound' /\ SoulBehind'
  BY SoundNext, SoulBehindNext
<1>3. SoulBehind => SoulAfterKey
  BY DEF SoulBehind
<1>4. QED BY <1>1, <1>2, <1>3, PTL DEF Spec

-----------------------------------------------------------------------------
\* A file is being written by a command whose next step is the write of it.
LEMMA BeingWrittenAt ==
  ASSUME Sound
  PROVE  \A f \in {"env", "soul"} : BeingWritten(f) <=> \E c \in Procs : Writing(proc[c], f)
<1>1. ASSUME NEW f \in {"env", "soul"}, NEW c \in Procs
      PROVE  At(c, "write") /\ Target(c) = f <=> Writing(proc[c], f)
  <2>1. CASE ~Running(c)
    BY <2>1 DEF At, Writing, Running
  <2>2. CASE Running(c)
    <3>. DEFINE o == Place(proc[c])
    <3>1. /\ At(c, "write") <=> o \in {2, 5}
          /\ o \in 0..2 => Target(c) = "env"
          /\ o \in 3..5 => Target(c) = "soul"
      BY <2>2, Standing DEF Sound
    <3>2. QED BY <2>2, <3>1 DEF Writing, Running
  <2>3. QED BY <2>1, <2>2
<1>2. QED BY <1>1 DEF BeingWritten

LEMMA ForeignCopiedInit == Init => ForeignCopied
<1>. SUFFICES ASSUME Init PROVE ForeignCopied
  OBVIOUS
<1>1. PICK s \in Situations : file = [env |-> s.env, soul |-> s.soul]
  BY DEF Init
<1>2. HasForeign("env", s.env) /\ HasForeign("soul", s.soul)
  BY SituationsGood DEF HasForeign
<1>3. file["env"] = s.env /\ file["soul"] = s.soul
  BY <1>1
<1>4. \A c \in Procs : ~Running(c)
  BY IdleType DEF Init, Running
<1>5. QED BY <1>2, <1>3, <1>4 DEF ForeignCopied

LEMMA ForeignCopiedKept ==
  ASSUME Sound, ForeignCopied, NEW c \in Procs, OnlyMoves(c),
         torn' \in [{"env", "soul"} -> BOOLEAN],
         \A f \in {"env", "soul"} :
           /\ torn[f] => torn'[f]
           /\ \/ torn'[f] \/ Writing(proc'[c], f) \/ HasForeign(f, file'[f])
              \/ file'[f] = file[f] /\ ~Writing(proc[c], f),
         proc'[c].cmd # "none" => CopyHas(proc'[c], torn')
  PROVE  ForeignCopied'
<1>1. torn \in [{"env", "soul"} -> BOOLEAN]
  BY DEF Sound, Typed
<1>2. ASSUME NEW f \in {"env", "soul"}
      PROVE  torn'[f] \/ (\E d \in Procs : Writing(proc'[d], f)) \/ HasForeign(f, file'[f])
  <2>1. CASE file'[f] = file[f] /\ ~Writing(proc[c], f)
    <3>1. CASE \E d \in Procs : Writing(proc[d], f)
      <4>1. PICK d \in Procs : Writing(proc[d], f)
        BY <3>1
      <4>2. proc'[d] = proc[d]
        BY <2>1, <4>1 DEF OnlyMoves
      <4>3. QED BY <4>1, <4>2
    <3>2. CASE torn[f] \/ HasForeign(f, file[f])
      BY <2>1, <3>2
    <3>3. QED BY <3>1, <3>2 DEF ForeignCopied
  <2>2. QED BY <2>1
<1>3. ASSUME NEW d \in Procs, proc'[d].cmd # "none"
      PROVE  CopyHas(proc'[d], torn')
  <2>1. CASE d = c
    BY <1>3, <2>1
  <2>2. CASE d # c
    <3>1. proc'[d] = proc[d] /\ CopyHas(proc[d], torn)
      BY <1>3, <2>2 DEF ForeignCopied, OnlyMoves, Running
    <3>2. QED BY <3>1 DEF CopyHas
  <2>3. QED BY <2>1, <2>2
<1>4. QED BY <1>2, <1>3 DEF ForeignCopied, Running

LEMMA ForeignCopiedNext == Sound /\ ForeignCopied /\ [Next]_vars => ForeignCopied'
<1>. SUFFICES ASSUME Sound, ForeignCopied, [Next]_vars PROVE ForeignCopied'
  OBVIOUS
<1>0. /\ Typed /\ ProcsGood /\ torn \in [{"env", "soul"} -> BOOLEAN]
      /\ \A f \in {"env", "soul"} : torn[f] \in BOOLEAN
  BY DEF Sound, Typed
<1>1. CASE UNCHANGED vars
  BY <1>1 DEF vars, platform, history, ForeignCopied, Running
<1>2. ASSUME NEW c \in Procs, Source(c)
      PROVE  ForeignCopied'
  BY <1>2 DEF Source, history, ForeignCopied, Running
<1>3. ASSUME NEW c \in Procs, NEW cmd \in DOMAIN Program, Start(c, cmd)
      PROVE  ForeignCopied'
  <2>1. OnlyMoves(c) /\ (Place(proc'[c]) \in {-3, -2, 0})
    BY <1>0, <1>3, StartsOnProgram DEF Commands
  <2>2. CopyHas(proc'[c], torn')
    BY <2>1 DEF CopyHas
  <2>3. file' = file /\ torn' = torn /\ \A f : ~Writing(proc[c], f)
    BY <1>3 DEF Start, Running, Writing
  <2>4. QED BY <1>0, <2>1, <2>2, <2>3, ForeignCopiedKept
<1>4. ASSUME NEW c \in Procs,
             Mint(c) \/ Me(c) \/ Client(c) \/ Subscribe(c) \/ Unsubscribe(c) \/ Check(c)
      PROVE  ForeignCopied'
  <2>1. file' = file /\ torn' = torn
    BY <1>4 DEF Mint, Me, Client, Subscribe, Unsubscribe, Check, history
  <2>2. /\ OnlyMoves(c) /\ (proc'[c].cmd # "none" => Place(proc'[c]) \in {-2, -1, 0})
        /\ Place(proc[c]) \in {-3, -2, -1}
    BY <1>4, Movements, IdleType DEF Goes, Ends
  <2>3. proc'[c].cmd # "none" => CopyHas(proc'[c], torn')
    BY <2>2 DEF CopyHas
  <2>4. \A f : ~Writing(proc[c], f)
    BY <2>2 DEF Writing
  <2>5. QED BY <1>0, <2>1, <2>2, <2>3, <2>4, ForeignCopiedKept
<1>5. ASSUME NEW c \in Procs, EndEarly(c)
      PROVE  ForeignCopied'
  <2>1. OnlyMoves(c) /\ proc'[c].cmd = "none" /\ Running(c)
    BY <1>5, Movements, IdleType DEF Ends
  <2>2. file' = file /\ torn' = IF At(c, "write") THEN [torn EXCEPT ![Target(c)] = TRUE] ELSE torn
    BY <1>5 DEF EndEarly
  <2>. DEFINE o == Place(proc[c])
  <2>3. /\ At(c, "write") <=> o \in {2, 5}
        /\ o \in 0..2 => Target(c) = "env"
        /\ o \in 3..5 => Target(c) = "soul"
    BY <1>0, <2>1, Standing
  <2>. HIDE DEF o
  <2>4. /\ torn' \in [{"env", "soul"} -> BOOLEAN]
        /\ \A f \in {"env", "soul"} :
             (torn[f] => torn'[f]) /\ (torn'[f] \/ ~Writing(proc[c], f))
    <3>1. CASE o = 2
      BY <1>0, <2>2, <2>3, <3>1 DEF Writing, o
    <3>2. CASE o = 5
      BY <1>0, <2>2, <2>3, <3>2 DEF Writing, o
    <3>3. CASE o \notin {2, 5}
      BY <1>0, <2>2, <2>3, <3>3 DEF Writing, o
    <3>4. QED BY <3>1, <3>2, <3>3
  <2>5. QED BY <2>1, <2>2, <2>4, ForeignCopiedKept
<1>6. ASSUME NEW c \in Procs, Read(c)
      PROVE  ForeignCopied'
  <2>. DEFINE p == proc[c]
              q == proc'[c]
              f == Target(c)
  <2>1. /\ file' = file /\ Running(c)
        /\ torn' = [torn EXCEPT ![f] = @ \/ BeingWritten(f)]
    BY <1>6 DEF Read, At
  <2>2. /\ (Place(p) = 0 /\ f = "env") \/ (Place(p) = 3 /\ f = "soul")
        /\ \/ Ends(c)
           \/ Place(p) = 0 /\ Goes(c, 3, p.account, p.hook, p.copy)
           \/ Goes(c, 1, p.account, p.hook, file[f])
    BY <1>6, Movements
  <2>3. /\ OnlyMoves(c) /\ q.cmd # "none" =>
             \/ Place(q) = 3
             \/ q.copy = file[f] /\ ((Place(q) = 1 /\ f = "env") \/ (Place(q) = 4 /\ f = "soul"))
        /\ OnlyMoves(c)
    BY <2>2, IdleType DEF Goes, Ends
  <2>4. /\ torn' \in [{"env", "soul"} -> BOOLEAN]
        /\ \A g \in {"env", "soul"} : (torn[g] => torn'[g]) /\ ~Writing(p, g)
    <3>1. f \in {"env", "soul"}
      BY <2>2
    <3>. HIDE DEF f
    <3>2. torn' \in [{"env", "soul"} -> BOOLEAN] /\ \A g \in {"env", "soul"} : torn[g] => torn'[g]
      BY <1>0, <2>1, <3>1 DEF BeingWritten
    <3>3. QED BY <2>2, <3>2 DEF Writing
  <2>5. ~torn'[f] => HasForeign(f, file[f])
    <3>1. f \in {"env", "soul"}
      BY <2>2
    <3>. HIDE DEF f
    <3>2. ~torn'[f] => ~torn[f] /\ ~BeingWritten(f)
      BY <1>0, <2>1, <3>1 DEF BeingWritten
    <3>3. QED BY <3>1, <3>2, BeingWrittenAt DEF ForeignCopied
  <2>6. q.cmd # "none" => CopyHas(q, torn')
    <3>. HIDE DEF p, q, f
    <3>1. QED BY <2>3, <2>5 DEF CopyHas
  <2>7. QED BY <2>1, <2>3, <2>4, <2>6, ForeignCopiedKept
<1>7. ASSUME NEW c \in Procs, Truncate(c)
      PROVE  ForeignCopied'
  <2>. DEFINE p == proc[c]
              q == proc'[c]
              f == Target(c)
  <2>1. /\ torn' = torn /\ Running(c) /\ CopyHas(p, torn)
        /\ file' = [file EXCEPT ![f] = <<>>]
    BY <1>7 DEF Truncate, At, ForeignCopied, history
  <2>2. /\ (Place(p) = 1 /\ f = "env") \/ (Place(p) = 4 /\ f = "soul")
        /\ Goes(c, 1, p.account, p.hook, p.copy)
    BY <1>7, Movements
  <2>3. OnlyMoves(c) /\ Place(q) = Place(p) + 1 /\ q.cmd # "none" /\ q.copy = p.copy
    BY <2>2 DEF Goes
  <2>4. CopyHas(q, torn')
    BY <2>1, <2>2, <2>3 DEF CopyHas
  <2>5. Writing(q, f) /\ \A g \in {"env", "soul"} : g # f => file'[g] = file[g] /\ ~Writing(p, g)
    <3>1. Writing(q, f) /\ \A g \in {"env", "soul"} : ~Writing(p, g)
      BY <2>2, <2>3 DEF Writing
    <3>2. \A g \in {"env", "soul"} : g # f => file'[g] = file[g]
      BY <1>0, <2>1 DEF Typed
    <3>3. QED BY <3>1, <3>2
  <2>. HIDE DEF p, q, f
  <2>6. QED BY <1>0, <2>1, <2>3, <2>4, <2>5, ForeignCopiedKept DEF p, q
<1>8. ASSUME NEW c \in Procs, Write(c)
      PROVE  ForeignCopied'
  <2>. DEFINE p == proc[c]
              q == proc'[c]
              f == Target(c)
  <2>1. /\ Running(c) /\ torn' = torn /\ CopyHas(p, torn) /\ WellFormed(p, accounts, subscribed)
        /\ file' = [file EXCEPT ![f] = Edited(c, f)]
    BY <1>0, <1>8 DEF Write, At, ForeignCopied, ProcsGood
  <2>2. /\ (Place(p) = 2 /\ f = "env") \/ (Place(p) = 5 /\ f = "soul")
        /\ \/ Ends(c)
           \/ Place(p) = 2 /\ Goes(c, 1, p.account, p.hook, <<>>)
    BY <1>8, Movements
  <2>3. OnlyMoves(c) /\ (q.cmd # "none" => Place(q) = 3)
    BY <2>2, IdleType DEF Goes, Ends
  <2>4. q.cmd # "none" => CopyHas(q, torn')
    BY <2>3 DEF CopyHas
  <2>5. torn[f] \/ HasForeign(f, Edited(c, f))
    <3>1. CASE Place(p) = 2 /\ f = "env"
      <4>1. Alike(p.copy, Edited(c, "env"), "OTHER")
        BY <1>0, <2>1, <3>1, EditedEnv
      <4>2. torn["env"] \/ HasForeign("env", p.copy)
        BY <2>1, <3>1 DEF CopyHas
      <4>3. QED BY <3>1, <4>1, <4>2 DEF HasForeign, Alike
    <3>2. CASE Place(p) = 5 /\ f = "soul"
      <4>1. (\E i \in DOMAIN p.copy : p.copy[i] = Foreign) =>
              \E i \in DOMAIN Edited(c, "soul") : Edited(c, "soul")[i] = Foreign
        BY <1>0, <2>1, <3>2, EditedSoul
      <4>2. torn["soul"] \/ HasForeign("soul", p.copy)
        BY <2>1, <3>2 DEF CopyHas
      <4>3. QED BY <3>2, <4>1, <4>2 DEF HasForeign
    <3>3. QED BY <2>2, <3>1, <3>2
  <2>6. file'[f] = Edited(c, f) /\ \A g \in {"env", "soul"} : g # f => file'[g] = file[g] /\ ~Writing(p, g)
    <3>1. \A g \in {"env", "soul"} : g # f => ~Writing(p, g)
      BY <2>2 DEF Writing
    <3>2. f \in {"env", "soul"}
      BY <2>2
    <3>. HIDE DEF f
    <3>3. file'[f] = Edited(c, f) /\ \A g \in {"env", "soul"} : g # f => file'[g] = file[g]
      BY <1>0, <2>1, <3>2 DEF Typed
    <3>4. QED BY <3>1, <3>3
  <2>. HIDE DEF p, q, f
  <2>7. QED BY <1>0, <2>1, <2>3, <2>4, <2>5, <2>6, ForeignCopiedKept DEF p, q
<1>9. QED BY <1>1, <1>2, <1>3, <1>4, <1>5, <1>6, <1>7, <1>8 DEF Next

\* The operator's lines and the blocks of other plugins survive, except in a file that
\* is being written, was left truncated or was read while it was.
THEOREM ForeignAlwaysKept == Spec => []ForeignKept
<1>1. Init => Sound /\ ForeignCopied
  BY SoundInit, ForeignCopiedInit
<1>2. Sound /\ ForeignCopied /\ [Next]_vars => Sound' /\ ForeignCopied'
  BY SoundNext, ForeignCopiedNext
<1>3. Sound /\ ForeignCopied => ForeignKept
  BY BeingWrittenAt DEF ForeignCopied, ForeignKept, HasForeign
<1>4. QED BY <1>1, <1>2, <1>3, PTL DEF Spec

-----------------------------------------------------------------------------
LEMMA UndisturbedInit == Init => Undisturbed
<1>. SUFFICES ASSUME Init PROVE Undisturbed
  OBVIOUS
<1>1. PICK s \in Situations :
        /\ file = [env |-> s.env, soul |-> s.soul]
        /\ subscribed = Len(s.owners)
        /\ hooks = {[id |-> n, owner |-> s.owners[n]] : n \in 1..subscribed}
  BY DEF Init
<1>2. KeyMatches(s.env, s.soul) /\ ReadEnvVar(s.env, "ID") \in 0..Len(s.owners) /\ Len(s.owners) \in Nat
  BY SituationsGood
<1>3. file["env"] = s.env /\ file["soul"] = s.soul
  BY <1>1
<1>4. HookListed(s.env, hooks)
  <2>. DEFINE n == ReadEnvVar(s.env, "ID")
  <2>1. n # None => n \in 1..subscribed
    BY <1>1, <1>2 DEF None
  <2>2. ASSUME n \in 1..subscribed
        PROVE  \E h \in hooks : h.id = n
    <3>1. [id |-> n, owner |-> s.owners[n]] \in hooks
      BY <1>1, <2>2
    <3>. HIDE DEF n
    <3>2. QED BY <3>1
  <2>3. QED BY <2>1, <2>2 DEF HookListed
<1>5. \A c \in Procs : ~Running(c)
  BY IdleType DEF Init, Running
<1>6. QED BY <1>2, <1>3, <1>4, <1>5 DEF Undisturbed

\* While nothing was disturbed a command that runs is alone.
LEMMA UndisturbedKept ==
  ASSUME Undisturbed, ~disturbed, NEW c \in Procs, Running(c), OnlyMoves(c),
         IF proc'[c].cmd = "none"
           THEN KeyMatches(file'["env"], file'["soul"]) /\ HookListed(file'["env"], hooks')
           ELSE HalfWay(proc'[c], file'["env"], file'["soul"], hooks')
  PROVE  Undisturbed'
<1>1. \A d \in Procs : d # c => ~Running(d)
  BY DEF Undisturbed
<1>2. \A d \in Procs : d # c => ~Running(d)'
  BY <1>1 DEF OnlyMoves, Running
<1>3. Running(c)' <=> proc'[c].cmd # "none"
  BY DEF Running
<1>4. \A d \in Procs : Running(d)' => d = c
  BY <1>2
<1>5. QED BY <1>3, <1>4 DEF Undisturbed

LEMMA HookListedMore ==
  ASSUME NEW env, NEW s, NEW t, HookListed(env, s), s \subseteq t
  PROVE  HookListed(env, t)
BY DEF HookListed

LEMMA UndisturbedNext == Sound /\ Undisturbed /\ [Next]_vars => Undisturbed'
<1>. SUFFICES ASSUME Sound, Undisturbed, [Next]_vars, ~disturbed' PROVE Undisturbed'
  BY DEF Undisturbed
<1>0. Typed /\ ProcsGood
  BY DEF Sound
<1>1. CASE UNCHANGED vars
  BY <1>1 DEF vars, platform, history, Undisturbed, Running
<1>2. ASSUME NEW c \in Procs, Source(c)
      PROVE  Undisturbed'
  BY <1>2 DEF Source, history, platform, Undisturbed, Running
<1>3. ASSUME NEW c \in Procs, NEW cmd \in DOMAIN Program, Start(c, cmd)
      PROVE  Undisturbed'
  <2>. DEFINE q == proc'[c]
  <2>1. /\ file' = file /\ hooks' = hooks /\ ~disturbed /\ \A d \in Procs : ~Running(d)
    BY <1>3 DEF Start, platform
  <2>2. /\ OnlyMoves(c) /\ q.cmd = cmd /\ cmd \in Commands
        /\ cmd = "delete" => Place(q) = -3
        /\ cmd \in {"register", "setup"} => Place(q) = -2
        /\ cmd = "logout" => Place(q) = 0
    BY <1>0, <1>3, StartsOnProgram
  <2>3. KeyMatches(file["env"], file["soul"]) /\ HookListed(file["env"], hooks)
    BY <2>1 DEF Undisturbed
  <2>4. Place(q) \in {-3, -2, 0} /\ (q.cmd = "delete" => Place(q) = -3) /\ (q.cmd = "setup" => Place(q) = -2)
    BY <2>2 DEF Commands
  <2>. HIDE DEF q
  <2>5. HalfWay(q, file["env"], file["soul"], hooks)
    BY <2>3, <2>4 DEF HalfWay
  <2>6. \A d \in Procs : Running(d)' => d = c
    BY <2>1, <2>2 DEF OnlyMoves, Running
  <2>7. Running(c)'
    BY <2>2 DEF Running, Commands, q
  <2>8. QED BY <2>1, <2>5, <2>6, <2>7 DEF Undisturbed, q
\* The steps of a command that runs, alone.
<1>4. ASSUME NEW c \in Procs, Running(c), ~disturbed
      PROVE  /\ WellFormed(proc[c], accounts, subscribed)
             /\ HalfWay(proc[c], file["env"], file["soul"], hooks)
  BY <1>4 DEF Sound, ProcsGood, Undisturbed
<1>5. ASSUME NEW c \in Procs, Mint(c) \/ Me(c) \/ Client(c)
      PROVE  Undisturbed'
  <2>. DEFINE p == proc[c]
              q == proc'[c]
              env == file["env"]
  <2>1. file' = file /\ hooks' = hooks /\ ~disturbed /\ Running(c)
    BY <1>5 DEF Mint, Me, Client, At, platform, history
  <2>2. /\ OnlyMoves(c)
        /\ q.cmd = p.cmd \/ q.cmd = "none"
        /\ q.cmd # "none" => Place(q) = Place(p) + 1
        /\ \/ p.cmd = "register" /\ Place(p) \in {-2, -1}
           \/ p.cmd = "setup" /\ Place(p) = -2
           \/ p.cmd = "delete" /\ Place(p) = -3
    BY <1>5, Movements, IdleType DEF Goes, Ends
  <2>. HIDE DEF p, q, env
  <2>3. KeyMatches(env, file["soul"]) /\ HookListed(env, hooks)
    BY <1>4, <2>1, <2>2 DEF HalfWay, p, env
  <2>4. q.cmd # "none" => HalfWay(q, env, file["soul"], hooks)
    BY <2>2, <2>3 DEF HalfWay
  <2>5. QED BY <2>1, <2>2, <2>3, <2>4, UndisturbedKept DEF q, env
<1>6. ASSUME NEW c \in Procs, Subscribe(c)
      PROVE  Undisturbed'
  <2>. DEFINE p == proc[c]
              q == proc'[c]
              env == file["env"]
              h == [id |-> subscribed + 1, owner |-> p.account]
  <2>1. file' = file /\ hooks' = hooks \cup {h} /\ ~disturbed /\ Running(c)
    BY <1>6 DEF Subscribe, At, history
  <2>2. /\ OnlyMoves(c) /\ q.cmd = "setup" /\ Place(q) = 0 /\ q.hook = subscribed + 1
        /\ p.cmd = "setup" /\ Place(p) = -1
    BY <1>6, Movements DEF Goes
  <2>3. h.id = subscribed + 1
    OBVIOUS
  <2>. HIDE DEF p, q, env, h
  <2>4. KeyMatches(env, file["soul"]) /\ HookListed(env, hooks)
    BY <1>4, <2>1, <2>2 DEF HalfWay, p, env
  <2>5. HookListed(env, hooks') /\ \E g \in hooks' : g.id = q.hook
    BY <2>1, <2>2, <2>3, <2>4 DEF HookListed
  <2>6. HalfWay(q, env, file["soul"], hooks')
    BY <2>2, <2>4, <2>5 DEF HalfWay
  <2>7. QED BY <2>1, <2>2, <2>6, UndisturbedKept DEF q, env
<1>7. ASSUME NEW c \in Procs, Unsubscribe(c)
      PROVE  Undisturbed'
  <2>. DEFINE p == proc[c]
              q == proc'[c]
              env == file["env"]
              h == [id |-> p.hook, owner |-> p.account]
  <2>1. file' = file /\ hooks' \in {hooks, hooks \ {h}} /\ ~disturbed /\ Running(c)
    BY <1>7 DEF Unsubscribe, At, history
  <2>2. /\ OnlyMoves(c) /\ p.cmd = "delete" /\ Place(p) = -2
        /\ \/ q.cmd = "none" /\ hooks' = hooks
           \/ q.cmd = "delete" /\ Place(q) = -1 /\ q.hook = p.hook
    BY <1>7, Movements, IdleType DEF Goes, Ends
  <2>3. h.id = p.hook
    OBVIOUS
  <2>. HIDE DEF p, q, env, h
  <2>4. KeyMatches(env, file["soul"]) /\ HookListed(env, hooks)
    BY <1>4, <2>1, <2>2 DEF HalfWay, p, env
  <2>5. ReadEnvVar(env, "ID") = p.hook \/ HookListed(env, hooks')
    BY <2>1, <2>3, <2>4 DEF HookListed
  <2>6. q.cmd = "delete" => HalfWay(q, env, file["soul"], hooks')
    BY <2>2, <2>4, <2>5 DEF HalfWay
  <2>7. QED BY <2>1, <2>2, <2>4, <2>6, UndisturbedKept DEF q, env
<1>8. ASSUME NEW c \in Procs, Check(c)
      PROVE  Undisturbed'
  <2>. DEFINE p == proc[c]
              q == proc'[c]
              env == file["env"]
  <2>1. file' = file /\ hooks' = hooks /\ ~disturbed /\ Running(c)
    BY <1>8 DEF Check, At, platform, history
  <2>2. /\ OnlyMoves(c) /\ p.cmd = "delete" /\ Place(p) = -1
        /\ \/ q.cmd = "none" /\ ReadEnvVar(env, "ID") # p.hook
           \/ q.cmd = "delete" /\ Place(q) = 0
    BY <1>8, Movements, IdleType DEF Goes, Ends
  <2>. HIDE DEF p, q, env
  <2>3. KeyMatches(env, file["soul"]) /\ (ReadEnvVar(env, "ID") = p.hook \/ HookListed(env, hooks))
    BY <1>4, <2>1, <2>2 DEF HalfWay, p, env
  <2>4. q.cmd = "delete" => HalfWay(q, env, file["soul"], hooks)
    BY <2>2, <2>3 DEF HalfWay
  <2>5. QED BY <2>1, <2>2, <2>3, <2>4, UndisturbedKept DEF q, env
<1>9. ASSUME NEW c \in Procs, EndEarly(c)
      PROVE  Undisturbed'
  <2>. DEFINE p == proc[c]
              env == file["env"]
  <2>1. /\ file' = file /\ hooks' = hooks /\ ~disturbed /\ Running(c) /\ Target(c) = "api"
    BY <1>9 DEF EndEarly, platform
  <2>2. OnlyMoves(c) /\ proc'[c].cmd = "none"
    BY <1>9, Movements, IdleType DEF Ends
  <2>3. Place(p) \in Int /\ Place(p) < 0 /\ ~(p.cmd = "delete" /\ Place(p) = -1)
    BY <1>0, <2>1, Standing
  <2>. HIDE DEF p, env
  <2>4. KeyMatches(env, file["soul"]) /\ HookListed(env, hooks)
    BY <1>4, <2>1, <2>3 DEF HalfWay, p, env
  <2>5. QED BY <2>1, <2>2, <2>4, UndisturbedKept DEF env
<1>10. ASSUME NEW c \in Procs, Read(c)
       PROVE  Undisturbed'
  <2>. DEFINE p == proc[c]
              q == proc'[c]
              env == file["env"]
              soul == file["soul"]
  <2>1. file' = file /\ hooks' = hooks /\ ~disturbed /\ Running(c)
    BY <1>10 DEF Read, At, platform
  <2>2. HalfWay(p, env, soul, hooks)
    BY <1>4, <2>1
  <2>3. \/ /\ Place(p) = 0 /\ p.cmd = "logout" /\ Goes(c, 3, p.account, p.hook, p.copy)
           /\ Defs(env, "API_KEY") = {}
        \/ Place(p) = 3 /\ p.cmd = "logout" /\ Ends(c) /\ Claims(soul) = {}
        \/ Place(p) = 0 /\ Goes(c, 1, p.account, p.hook, env)
        \/ Place(p) = 3 /\ Goes(c, 1, p.account, p.hook, soul)
    <3>. DEFINE f == Target(c)
    <3>1. /\ (Place(p) = 0 /\ f = "env") \/ (Place(p) = 3 /\ f = "soul")
          /\ \/ /\ NothingToClear(c, f) /\ p.cmd = "logout"
                /\ \/ Place(p) = 0 /\ Goes(c, 3, p.account, p.hook, p.copy)
                   \/ Place(p) = 3 /\ Ends(c)
             \/ Goes(c, 1, p.account, p.hook, file[f])
      BY <1>10, Movements
    <3>2. /\ NothingToClear(c, "env") => Defs(env, "API_KEY") = {}
          /\ NothingToClear(c, "soul") => Claims(soul) = {}
      BY DEF NothingToClear
    <3>. HIDE DEF p, f
    <3>3. QED BY <3>1, <3>2
  <2>4. CASE /\ Place(p) = 0 /\ p.cmd = "logout" /\ Goes(c, 3, p.account, p.hook, p.copy)
             /\ Defs(env, "API_KEY") = {}
    <3>1. OnlyMoves(c) /\ q.cmd = "logout" /\ Place(q) = 3
      BY <2>4 DEF Goes
    <3>2. ReadEnvVar(env, "API_KEY") = None
      BY <2>4 DEF ReadEnvVar
    <3>. HIDE DEF p, q, env, soul
    <3>3. HalfWay(q, env, soul, hooks)
      BY <2>2, <2>4, <3>1, <3>2 DEF HalfWay
    <3>4. QED BY <2>1, <3>1, <3>3, UndisturbedKept DEF q, env, soul
  <2>5. CASE Place(p) = 3 /\ p.cmd = "logout" /\ Ends(c) /\ Claims(soul) = {}
    <3>1. OnlyMoves(c) /\ q.cmd = "none"
      BY <2>5, IdleType DEF Ends
    <3>. HIDE DEF p, q, env, soul
    <3>2. KeyMatches(env, soul) /\ HookListed(env, hooks)
      BY <2>2, <2>5 DEF HalfWay, KeyMatches
    <3>3. QED BY <2>1, <3>1, <3>2, UndisturbedKept DEF q, env, soul
  <2>6. CASE Place(p) = 0 /\ Goes(c, 1, p.account, p.hook, env)
    <3>1. OnlyMoves(c) /\ q.cmd = p.cmd /\ q.cmd # "none" /\ Place(q) = 1 /\ q.hook = p.hook /\ q.copy = env
      BY <2>6 DEF Goes
    <3>. HIDE DEF p, q, env, soul
    <3>2. HalfWay(q, env, soul, hooks)
      BY <2>2, <2>6, <3>1 DEF HalfWay
    <3>3. QED BY <2>1, <3>1, <3>2, UndisturbedKept DEF q, env, soul
  <2>7. CASE Place(p) = 3 /\ Goes(c, 1, p.account, p.hook, soul)
    <3>1. /\ OnlyMoves(c) /\ q.cmd = p.cmd /\ q.cmd # "none" /\ Place(q) = 4
          /\ q.hook = p.hook /\ q.account = p.account
      BY <2>7 DEF Goes
    <3>. HIDE DEF p, q, env, soul
    <3>2. HalfWay(q, env, soul, hooks)
      BY <2>2, <2>7, <3>1 DEF HalfWay
    <3>3. QED BY <2>1, <3>1, <3>2, UndisturbedKept DEF q, env, soul
  <2>8. QED BY <2>3, <2>4, <2>5, <2>6, <2>7
<1>11. ASSUME NEW c \in Procs, Truncate(c)
       PROVE  Undisturbed'
  <2>. DEFINE p == proc[c]
              q == proc'[c]
              env == file["env"]
              soul == file["soul"]
              f == Target(c)
  <2>1. hooks' = hooks /\ ~disturbed /\ Running(c) /\ file' = [file EXCEPT ![f] = <<>>]
    BY <1>11 DEF Truncate, At, platform, history
  <2>2. HalfWay(p, env, soul, hooks)
    BY <1>4, <2>1
  <2>3. /\ (Place(p) = 1 /\ f = "env") \/ (Place(p) = 4 /\ f = "soul")
        /\ Goes(c, 1, p.account, p.hook, p.copy)
    BY <1>11, Movements
  <2>4. /\ OnlyMoves(c) /\ q.cmd = p.cmd /\ q.cmd # "none" /\ Place(q) = Place(p) + 1
        /\ q.hook = p.hook /\ q.account = p.account /\ q.copy = p.copy
    BY <2>3 DEF Goes
  <2>5. /\ f = "env" => file'["env"] = <<>> /\ file'["soul"] = soul
        /\ f = "soul" => file'["soul"] = <<>> /\ file'["env"] = env
    BY <1>0, <2>1 DEF Typed
  <2>. HIDE DEF p, q, env, soul, f
  <2>6. HalfWay(q, file'["env"], file'["soul"], hooks)
    <3>1. CASE Place(p) = 1 /\ f = "env"
      BY <2>2, <2>4, <2>5, <3>1 DEF HalfWay
    <3>2. CASE Place(p) = 4 /\ f = "soul"
      BY <2>2, <2>4, <2>5, <3>2 DEF HalfWay
    <3>3. QED BY <2>3, <3>1, <3>2
  <2>7. QED BY <2>1, <2>4, <2>6, UndisturbedKept DEF q
<1>12. ASSUME NEW c \in Procs, Write(c)
       PROVE  Undisturbed'
  <2>. DEFINE p == proc[c]
              q == proc'[c]
              env == file["env"]
              soul == file["soul"]
              f == Target(c)
              t == Edited(c, f)
  <2>1. hooks' = hooks /\ ~disturbed /\ Running(c) /\ file' = [file EXCEPT ![f] = t]
    BY <1>12 DEF Write, At, platform
  <2>2. HalfWay(p, env, soul, hooks) /\ WellFormed(p, accounts, subscribed)
    BY <1>4, <2>1
  <2>3. /\ (Place(p) = 2 /\ f = "env") \/ (Place(p) = 5 /\ f = "soul")
        /\ \/ Ends(c) /\ (Place(p) = 5 \/ p.cmd \in {"setup", "delete"})
           \/ Place(p) = 2 /\ p.cmd \in {"register", "logout"} /\ Goes(c, 1, p.account, p.hook, <<>>)
    BY <1>12, Movements
  <2>4. /\ OnlyMoves(c)
        /\ \/ q.cmd = "none" /\ (Place(p) = 5 \/ p.cmd \in {"setup", "delete"})
           \/ /\ Place(p) = 2 /\ p.cmd \in {"register", "logout"}
              /\ q.cmd = p.cmd /\ q.cmd # "none" /\ Place(q) = 3 /\ q.account = p.account
    BY <2>3, IdleType DEF Goes, Ends
  <2>5. CASE Place(p) = 2 /\ f = "env"
    <3>1. file'["env"] = t /\ file'["soul"] = soul
      BY <1>0, <2>1, <2>5 DEF Typed
    <3>2. /\ p.cmd \in {"register", "logout"} => Alike(p.copy, t, "ID")
          /\ p.cmd = "register" => ReadEnvVar(t, "API_KEY") = p.account
          /\ p.cmd = "logout"   => ReadEnvVar(t, "API_KEY") = None
          /\ p.cmd \in {"setup", "delete"} => Alike(p.copy, t, "API_KEY")
          /\ p.cmd = "setup"  => ReadEnvVar(t, "ID") \in {p.hook, ReadEnvVar(p.copy, "ID")}
          /\ p.cmd = "delete" => ReadEnvVar(t, "ID") = None
      BY <1>0, <2>2, <2>5, EditedEnv
    <3>. HIDE DEF p, q, env, soul, f, t
    <3>3. CASE q.cmd = "none"
      <4>1. p.cmd \in {"setup", "delete"}
        BY <2>4, <2>5, <3>3
      <4>2. KeyMatches(p.copy, soul) /\ (p.cmd = "setup" => HookListed(p.copy, hooks) /\ \E h \in hooks : h.id = p.hook)
        BY <2>2, <2>5 DEF HalfWay
      <4>3. KeyMatches(t, soul)
        BY <3>2, <4>1, <4>2 DEF KeyMatches, Alike
      <4>4. HookListed(t, hooks)
        BY <3>2, <4>1, <4>2 DEF HookListed
      <4>5. QED BY <2>1, <2>4, <3>1, <3>3, <4>3, <4>4, UndisturbedKept DEF q, p
    <3>4. CASE q.cmd # "none"
      <4>1. HookListed(p.copy, hooks)
        BY <2>2, <2>4, <2>5, <3>4 DEF HalfWay
      <4>2. HookListed(t, hooks)
        BY <2>4, <3>2, <3>4, <4>1 DEF HookListed, Alike
      <4>3. HalfWay(q, t, soul, hooks)
        BY <2>4, <3>2, <3>4, <4>2 DEF HalfWay
      <4>4. QED BY <2>1, <2>4, <3>1, <3>4, <4>3, UndisturbedKept DEF q
    <3>5. QED BY <3>3, <3>4
  <2>6. CASE Place(p) = 5 /\ f = "soul"
    <3>1. file'["soul"] = t /\ file'["env"] = env
      BY <1>0, <2>1, <2>6 DEF Typed
    <3>2. /\ p.cmd \in {"register", "logout"}
          /\ p.cmd = "register" => Claims(t) = {p.account}
          /\ p.cmd = "logout" => Claims(t) = {}
      BY <1>0, <2>2, <2>6, EditedSoul
    <3>3. p.cmd = "register" => p.account # None
      BY <1>0, <2>2, <2>6 DEF WellFormed, None, Typed
    <3>. HIDE DEF p, q, env, soul, f, t
    <3>4. /\ p.cmd = "register" => ReadEnvVar(env, "API_KEY") = p.account
          /\ p.cmd = "logout" => ReadEnvVar(env, "API_KEY") = None
          /\ HookListed(env, hooks)
      BY <2>2, <2>6, <3>2 DEF HalfWay
    <3>5. KeyMatches(env, t)
      BY <3>2, <3>3, <3>4 DEF KeyMatches
    <3>6. q.cmd = "none"
      BY <2>4, <2>6
    <3>7. QED BY <2>1, <2>4, <3>1, <3>4, <3>5, <3>6, UndisturbedKept DEF q
  <2>7. QED BY <2>3, <2>5, <2>6
<1>13. QED BY <1>1, <1>2, <1>3, <1>5, <1>6, <1>7, <1>8, <1>9, <1>10, <1>11, <1>12 DEF Next

\* Commands that ran one at a time to their end leave two files and a platform that
\* tell one story.
THEOREM FilesAlwaysAgree == Spec => []FilesAgree
<1>1. Init => Sound /\ Undisturbed
  BY SoundInit, UndisturbedInit
<1>2. Sound /\ Undisturbed /\ [Next]_vars => Sound' /\ Undisturbed'
  BY SoundNext, UndisturbedNext
<1>3. Undisturbed => FilesAgree
  BY DEF Undisturbed, FilesAgree, KeyMatches, HookListed
<1>4. QED BY <1>1, <1>2, <1>3, PTL DEF Spec

-----------------------------------------------------------------------------
(***************************************************************************)
(* What the wizard's headline needs.  A key that was received is in .env,  *)
(* or the wizard that received it is still on its way there.               *)
(***************************************************************************)
OnItsWay(p, a) == p.cmd = "register" /\ Place(p) \in {-1, 0, 1, 2} /\ p.account = a

KeysHeld == \A a \in received : a \in persisted \/ \E c \in Procs : OnItsWay(proc[c], a)

\* A step of c loses a key only if c itself had it.
LEMMA KeysHeldKept ==
  ASSUME KeysHeld, NEW c \in Procs, OnlyMoves(c), received' = received, persisted \subseteq persisted',
         \A a \in received : OnItsWay(proc[c], a) => a \in persisted' \/ OnItsWay(proc'[c], a)
  PROVE  KeysHeld'
<1>. SUFFICES ASSUME NEW a \in received, a \notin persisted'
              PROVE  \E d \in Procs : OnItsWay(proc'[d], a)
  BY DEF KeysHeld, OnItsWay
<1>1. PICK d \in Procs : OnItsWay(proc[d], a)
  BY DEF KeysHeld
<1>2. CASE d = c
  BY <1>1, <1>2
<1>3. CASE d # c
  BY <1>1, <1>3 DEF OnlyMoves
<1>4. QED BY <1>2, <1>3

LEMMA KeysHeldNext ==
  ASSUME EndsAt \cap {"me", "read", "truncate", "write"} = {}
  PROVE  Sound /\ KeysHeld /\ [Next]_vars => KeysHeld'
<1>. SUFFICES ASSUME Sound, KeysHeld, [Next]_vars PROVE KeysHeld'
  OBVIOUS
<1>0. Typed /\ ProcsGood
  BY DEF Sound
<1>1. CASE UNCHANGED vars
  BY <1>1 DEF vars, history, KeysHeld, OnItsWay
<1>2. ASSUME NEW c \in Procs, Source(c)
      PROVE  KeysHeld'
  BY <1>2 DEF Source, history, KeysHeld, OnItsWay
<1>3. ASSUME NEW c \in Procs, NEW cmd \in DOMAIN Program, Start(c, cmd)
      PROVE  KeysHeld'
  <2>1. OnlyMoves(c)
    BY <1>0, <1>3, StartsOnProgram
  <2>2. received' = received /\ persisted' = persisted /\ proc[c].cmd = "none"
    BY <1>3 DEF Start, Running
  <2>3. QED BY <2>1, <2>2, KeysHeldKept DEF OnItsWay
<1>4. ASSUME NEW c \in Procs, Mint(c)
      PROVE  KeysHeld'
  <2>1. /\ proc[c].cmd = "register" /\ Place(proc[c]) = -2
        /\ Goes(c, 1, accounts + 1, proc[c].hook, proc[c].copy)
    BY <1>4, Movements
  <2>2. received' = received \cup {accounts + 1} /\ persisted' = persisted
    BY <1>4 DEF Mint
  <2>3. OnlyMoves(c) /\ OnItsWay(proc'[c], accounts + 1)
    BY <2>1 DEF Goes, OnItsWay
  <2>4. ASSUME NEW a \in received, a \notin persisted
        PROVE  \E d \in Procs : OnItsWay(proc'[d], a)
    <3>1. PICK d \in Procs : OnItsWay(proc[d], a)
      BY <2>4 DEF KeysHeld
    <3>2. d # c
      BY <2>1, <3>1 DEF OnItsWay
    <3>3. QED BY <2>3, <3>1, <3>2 DEF OnlyMoves
  <2>5. QED BY <2>2, <2>3, <2>4 DEF KeysHeld, OnItsWay
<1>5. ASSUME NEW c \in Procs, Me(c)
      PROVE  KeysHeld'
  <2>1. /\ proc[c].cmd = "register" /\ Place(proc[c]) = -1
        /\ Goes(c, 1, proc[c].account, proc[c].hook, proc[c].copy)
    BY <1>5, Movements
  <2>2. received' = received /\ persisted' = persisted
    BY <1>5 DEF Me, history
  <2>3. \A a \in received : OnItsWay(proc[c], a) => OnItsWay(proc'[c], a)
    BY <2>1 DEF Goes, OnItsWay
  <2>4. OnlyMoves(c)
    BY <2>1 DEF Goes
  <2>5. QED BY <2>2, <2>3, <2>4, KeysHeldKept
<1>6. ASSUME NEW c \in Procs, Client(c) \/ Subscribe(c) \/ Unsubscribe(c) \/ Check(c)
      PROVE  KeysHeld'
  <2>1. proc[c].cmd \in {"setup", "delete"} /\ OnlyMoves(c)
    BY <1>6, Movements DEF Goes, Ends
  <2>2. received' = received /\ persisted' = persisted
    BY <1>6 DEF Client, Subscribe, Unsubscribe, Check, history
  <2>3. QED BY <2>1, <2>2, KeysHeldKept DEF OnItsWay
<1>7. ASSUME NEW c \in Procs, Read(c) \/ Truncate(c)
      PROVE  KeysHeld'
  <2>. DEFINE p == proc[c]
              o == Place(p)
  <2>1. \/ o \in {3, 4}
        \/ p.cmd = "logout"
        \/ \E x : o \in {0, 1} /\ Goes(c, 1, p.account, p.hook, x)
    <3>1. CASE Read(c)
      BY <3>1, Movements
    <3>2. CASE Truncate(c)
      BY <3>2, Movements
    <3>3. QED BY <1>7, <3>1, <3>2
  <2>2. OnlyMoves(c)
    BY <1>7, Movements DEF Goes, Ends
  <2>3. received' = received /\ persisted' = persisted
    BY <1>7 DEF Read, Truncate, history
  <2>4. \A a \in received : OnItsWay(p, a) => OnItsWay(proc'[c], a)
    BY <2>1 DEF Goes, OnItsWay
  <2>5. QED BY <2>2, <2>3, <2>4, KeysHeldKept
<1>8. ASSUME NEW c \in Procs, Write(c)
      PROVE  KeysHeld'
  <2>. DEFINE p == proc[c]
              o == Place(p)
  <2>1. OnlyMoves(c) /\ ((o = 2 /\ Target(c) = "env") \/ o = 5)
    BY <1>8, Movements DEF Goes, Ends
  <2>2. /\ received' = received
        /\ persisted' = persisted \cup (IF p.cmd = "register" /\ Target(c) = "env" THEN {p.account} ELSE {})
    BY <1>8 DEF Write
  <2>3. \A a \in received : OnItsWay(p, a) => a \in persisted'
    BY <2>1, <2>2 DEF OnItsWay
  <2>4. QED BY <2>1, <2>2, <2>3, KeysHeldKept
<1>9. ASSUME NEW c \in Procs, EndEarly(c)
      PROVE  KeysHeld'
  <2>1. OnlyMoves(c) /\ Running(c)
    BY <1>9, Movements DEF Ends
  <2>2. PICK op \in EndsAt : At(c, op)
    BY <1>9 DEF EndEarly
  <2>3. ~At(c, "me") /\ ~At(c, "read") /\ ~At(c, "truncate") /\ ~At(c, "write")
    BY <2>2 DEF At
  <2>4. \A a \in received : ~OnItsWay(proc[c], a)
    BY <1>0, <2>1, <2>3, Standing DEF OnItsWay
  <2>5. received' = received /\ persisted' = persisted
    BY <1>9 DEF EndEarly
  <2>6. QED BY <2>1, <2>4, <2>5, KeysHeldKept
<1>10. QED BY <1>1, <1>2, <1>3, <1>4, <1>5, <1>6, <1>7, <1>8, <1>9 DEF Next

\* "The wizard writes the .env BEFORE ... doing anything else that could fail" is what
\* keeps the key - as long as nothing ends the wizard in me(), and in the rewrite itself:
\* whatever else dies, and whichever commands race, a key that was received is in .env
\* or on its way there (wizard.py:140-205).
THEOREM KeyKeptUninterrupted ==
  ASSUME EndsAt \cap {"me", "read", "truncate", "write"} = {}
  PROVE  Spec => []KeyNeverLost
<1>1. Init => Sound /\ KeysHeld
  BY SoundInit DEF Init, KeysHeld
<1>2. Sound /\ KeysHeld /\ [Next]_vars => Sound' /\ KeysHeld'
  BY SoundNext, KeysHeldNext
<1>3. KeysHeld => KeyNeverLost
  BY DEF KeysHeld, OnItsWay, KeyNeverLost
<1>4. QED BY <1>1, <1>2, <1>3, PTL DEF Spec
=============================================================================
