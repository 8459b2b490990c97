-------------------------- MODULE CredentialFiles --------------------------
(***************************************************************************)
(* What the commands of module Credentials do to the contents of the two   *)
(* files they share.  A file is the sequence of what it holds: the lines   *)
(* of .env, the blocks of SOUL.md.                                         *)
(***************************************************************************)
EXTENDS Integers, FiniteSets, Sequences

\* What stands at the positions S of s, in the order of s.
Rank(S, i) == Cardinality({j \in S : j <= i})
Keep(s, S) == [n \in 1..Cardinality(S) |-> s[CHOOSE i \in S : Rank(S, i) = n]]

-----------------------------------------------------------------------------
(***************************************************************************)
(* .env: lines key=value.  "OTHER" is a line of the operator's.            *)
(***************************************************************************)
EnvKeys == {"API_KEY", "SECRET", "ID"}
Line(k, v) == [key |-> k, val |-> v]
None == 0

Defs(ls, k)   == {i \in DOMAIN ls : ls[i].key = k}
First(ls, k)  == CHOOSE i \in Defs(ls, k) : \A j \in Defs(ls, k) : i <= j
Latest(ls, k) == CHOOSE i \in Defs(ls, k) : \A j \in Defs(ls, k) : i >= j

\* _read_env_var(): the first definition.
ReadEnvVar(ls, k) == IF Defs(ls, k) = {} THEN None ELSE ls[First(ls, k)].val

\* What a shell, or systemd's EnvironmentFile=, makes of the file.
LastWins(ls, k) == IF Defs(ls, k) = {} THEN None ELSE ls[Latest(ls, k)].val

\* `set -a; . .env`: what the file does not define stays as it was.
NoEnv == [k \in EnvKeys |-> None]
Sourced(env, ls) == [k \in EnvKeys |-> IF Defs(ls, k) = {} THEN env[k] ELSE LastWins(ls, k)]

\* _resolve_api_key(): the environment goes before the file.
ResolveApiKey(env, ls) ==
  IF env["API_KEY"] # None THEN env["API_KEY"] ELSE ReadEnvVar(ls, "API_KEY")

Without(ls, ks) == Keep(ls, {i \in DOMAIN ls : ls[i].key \notin ks})

\* Mutant: the key is appended, whether it is there or not.
SetEnvVarAppending(ls, k, v) == Append(ls, Line(k, v))

\* Mutant: the file is written anew with the one line.
SetEnvVarAlone(ls, k, v) == <<Line(k, v)>>

\* _set_env_var() replaces the first definition and drops the others.
SetEnvVar(ls, k, v) ==
  IF Defs(ls, k) = {}
    THEN Append(ls, Line(k, v))
    ELSE Keep([ls EXCEPT ![First(ls, k)] = Line(k, v)],
              DOMAIN ls \ (Defs(ls, k) \ {First(ls, k)}))

\* _set_env_vars() replaces the last definition, for each of its keys.
ReplaceLast(ls, k, v) ==
  IF Defs(ls, k) = {} THEN Append(ls, Line(k, v))
                      ELSE [ls EXCEPT ![Latest(ls, k)] = Line(k, v)]

\* Mutant: a secret that is already there is kept.
SetEnvVarsKeepSecret(ls, n) ==
  ReplaceLast(IF Defs(ls, "SECRET") = {} THEN ReplaceLast(ls, "SECRET", n) ELSE ls, "ID", n)

SetEnvVars(ls, n) == ReplaceLast(ReplaceLast(ls, "SECRET", n), "ID", n)

(***************************************************************************)
(* SOUL.md: a number is our block, for that account; Foreign is a block of *)
(* another plugin.                                                         *)
(***************************************************************************)
Foreign == 0
Claims(bs) == {bs[i] : i \in DOMAIN bs} \ {Foreign}

\* Mutant: a block that is already there is not replaced.
UpsertAppending(bs, a) == Append(bs, a)

Upsert(bs, a) ==
  IF Claims(bs) = {} THEN Append(bs, a)
                     ELSE [i \in DOMAIN bs |-> IF bs[i] = Foreign THEN Foreign ELSE a]
Clear(bs) == Keep(bs, {i \in DOMAIN bs : bs[i] = Foreign})
=============================================================================
