----------------------- MODULE CredentialFilesProofs -----------------------
(***************************************************************************)
(* What the operators of CredentialFiles do to files of any length.  There *)
(* is no induction here: that a filter keeps the order of what it keeps    *)
(* follows from the least number principle.                                *)
(***************************************************************************)
EXTENDS CredentialFiles, SequenceTheorems, FiniteSetTheorems, WellFoundedInduction, TLAPS

\* A nonempty set of naturals has a least element,
LEMMA LeastExists ==
  ASSUME NEW S, S \subseteq Nat, S # {}
  PROVE  \E x \in S : \A y \in S : x <= y
<1>1. PICK x \in S : \A y \in S : ~(<<y, x>> \in OpToRel(<, Nat))
  BY NatLessThanWellFounded, WFMin
<1>2. \A y \in S : ~(y < x)
  BY <1>1 DEF OpToRel
<1>3. QED BY <1>2

\* and a greatest one, if it is bounded.
LEMMA GreatestExists ==
  ASSUME NEW b \in Nat, NEW S, S \subseteq 0..b, S # {}
  PROVE  \E x \in S : \A y \in S : x >= y
<1>. DEFINE T == {n \in Nat : b - n \in S}
<1>1. PICK z \in S : TRUE
  OBVIOUS
<1>2. b - z \in T
  BY <1>1
<1>3. PICK n \in T : \A m \in T : n <= m
  BY <1>2, LeastExists
<1>4. \A y \in S : b - y \in T
  OBVIOUS
<1>5. QED BY <1>3, <1>4

-----------------------------------------------------------------------------
\* How the elements of a set of positions are counted.
LEMMA RankProperties ==
  ASSUME NEW l \in Nat, NEW S, \A j \in S : j \in 1..l
  PROVE  /\ IsFiniteSet(S) /\ Cardinality(S) \in Nat
         /\ \A i \in Nat : Rank(S, i) \in 0..Cardinality(S)
         /\ Rank(S, 0) = 0 /\ Rank(S, l) = Cardinality(S)
         /\ \A i \in Nat : Rank(S, i + 1) = Rank(S, i) + (IF i + 1 \in S THEN 1 ELSE 0)
         /\ \A i \in Nat, j \in S : i < j => Rank(S, i) < Rank(S, j)
<1>0. (\A j \in S : j \in Nat) /\ (\A j \in S : 1 <= j /\ j <= l)
  OBVIOUS
<1>1. IsFiniteSet(S) /\ Cardinality(S) \in Nat
  <2>1. IsFiniteSet(1..l)
    BY FS_Interval
  <2>2. QED BY <2>1, FS_Subset, FS_CardinalityType
<1>. DEFINE Below(i) == {j \in S : j <= i}
<1>2. \A i \in Nat : /\ IsFiniteSet(Below(i)) /\ Cardinality(Below(i)) \in Nat
                     /\ Cardinality(Below(i)) <= Cardinality(S)
  <2>1. \A i \in Nat : Below(i) \subseteq S
    OBVIOUS
  <2>2. QED BY <1>1, <2>1, FS_Subset, FS_CardinalityType
<1>3. Below(0) = {} /\ Below(l) = S
  BY <1>0
<1>4. ASSUME NEW i \in Nat
      PROVE  Cardinality(Below(i + 1)) = Cardinality(Below(i)) + (IF i + 1 \in S THEN 1 ELSE 0)
  <2>1. CASE i + 1 \in S
    <3>1. Below(i + 1) = Below(i) \cup {i + 1} /\ i + 1 \notin Below(i)
      BY <1>0, <2>1
    <3>. HIDE DEF Below
    <3>2. Cardinality(Below(i + 1)) = Cardinality(Below(i)) + 1
      BY <1>2, <3>1, FS_AddElement
    <3>3. QED BY <2>1, <3>2
  <2>2. CASE i + 1 \notin S
    <3>1. Below(i + 1) = Below(i)
      BY <1>0, <2>2
    <3>. HIDE DEF Below
    <3>2. QED BY <1>2, <2>2, <3>1
  <2>3. QED BY <2>1, <2>2
<1>5. ASSUME NEW i \in Nat, NEW j \in S, i < j
      PROVE  Cardinality(Below(i)) < Cardinality(Below(j))
  <2>1. Below(i) \cup {j} \subseteq Below(j) /\ j \notin Below(i)
    BY <1>0, <1>5
  <2>2. j \in Nat
    BY <1>0
  <2>. HIDE DEF Below
  <2>3. Cardinality(Below(i) \cup {j}) = Cardinality(Below(i)) + 1
    BY <1>2, <2>1, FS_AddElement
  <2>4. Cardinality(Below(i) \cup {j}) <= Cardinality(Below(j))
    BY <1>2, <2>1, <2>2, FS_Subset
  <2>5. QED BY <1>2, <2>2, <2>3, <2>4
<1>6. \A i : Rank(S, i) = Cardinality(Below(i))
  BY DEF Rank
<1>7. Cardinality(Below(0)) = 0 /\ Cardinality(Below(l)) = Cardinality(S)
  BY <1>3, FS_EmptySet
<1>. HIDE DEF Below
<1>8. \A i \in Nat : Rank(S, i) \in 0..Cardinality(S)
  BY <1>1, <1>2, <1>6
<1>9. \A i \in Nat : Rank(S, i + 1) = Rank(S, i) + (IF i + 1 \in S THEN 1 ELSE 0)
  BY <1>4, <1>6
<1>10. \A i \in Nat, j \in S : i < j => Rank(S, i) < Rank(S, j)
  BY <1>5, <1>6
<1>11. Rank(S, 0) = 0 /\ Rank(S, l) = Cardinality(S)
  BY <1>6, <1>7
<1>12. QED BY <1>1, <1>8, <1>9, <1>10, <1>11

\* There is an n-th position.
LEMMA NthExists ==
  ASSUME NEW l \in Nat, NEW S, \A j \in S : j \in 1..l, NEW n \in 1..Cardinality(S)
  PROVE  \E i \in S : Rank(S, i) = n
<1>. DEFINE T == {i \in Nat : Rank(S, i) >= n}
<1>0. /\ Cardinality(S) \in Nat /\ \A i \in Nat : Rank(S, i) \in Nat
      /\ Rank(S, 0) = 0 /\ Rank(S, l) = Cardinality(S)
  BY RankProperties
<1>1. l \in T /\ T \subseteq Nat
  BY <1>0
<1>2. PICK i \in T : \A j \in T : i <= j
  BY <1>1, LeastExists
<1>3. i # 0
  BY <1>0
<1>4. i - 1 \in Nat /\ i - 1 \notin T
  BY <1>2, <1>3
<1>5. Rank(S, i - 1) < n
  BY <1>0, <1>4
<1>6. Rank(S, (i - 1) + 1) = Rank(S, i - 1) + (IF (i - 1) + 1 \in S THEN 1 ELSE 0)
  BY <1>4, RankProperties
<1>7. (i - 1) + 1 = i /\ Rank(S, i) >= n
  OBVIOUS
<1>8. QED BY <1>0, <1>4, <1>5, <1>6, <1>7

\* Keep() enumerates the positions in their order.
Enumeration(S) == [n \in 1..Cardinality(S) |-> CHOOSE i \in S : Rank(S, i) = n]

LEMMA KeepEnumerates ==
  ASSUME NEW A, NEW s \in Seq(A), NEW S, S \subseteq DOMAIN s
  PROVE  LET e == Enumeration(S)
             t == Keep(s, S)
         IN  /\ t \in Seq(A) /\ DOMAIN t = 1..Cardinality(S) /\ Cardinality(S) \in Nat
             /\ e \in [DOMAIN t -> S]
             /\ \A n \in DOMAIN t : t[n] = s[e[n]]
             /\ \A m, n \in DOMAIN t : m < n <=> e[m] < e[n]
             /\ \A i \in S : \E n \in DOMAIN t : e[n] = i
<1>. DEFINE e == Enumeration(S)
            t == Keep(s, S)
            c == Cardinality(S)
<1>1. DOMAIN s = 1..Len(s) /\ Len(s) \in Nat /\ \A i \in DOMAIN s : s[i] \in A
  BY LenProperties, ElementOfSeq
<1>2. (\A j \in S : j \in 1..Len(s)) /\ c \in Nat
  BY <1>1, RankProperties
<1>3. \A n \in 1..c : e[n] \in S /\ Rank(S, e[n]) = n
  BY <1>1, <1>2, NthExists DEF Enumeration
<1>4. \A n \in 1..c : t[n] = s[e[n]]
  BY DEF Keep, Enumeration
<1>5. DOMAIN t = 1..c
  BY DEF Keep
<1>6. t \in Seq(A)
  <2>1. \A n \in 1..c : t[n] \in A
    BY <1>1, <1>3, <1>4
  <2>2. t = [n \in 1..c |-> t[n]]
    BY DEF Keep
  <2>. HIDE DEF t, c
  <2>3. QED BY <1>2, <2>1, <2>2, IsASeq
<1>7. ASSUME NEW m \in 1..c, NEW n \in 1..c
      PROVE  m < n <=> e[m] < e[n]
  <2>1. e[m] \in S /\ e[n] \in S /\ e[m] \in Nat /\ e[n] \in Nat
    BY <1>2, <1>3
  <2>2. \A i, j \in S : i < j => Rank(S, i) < Rank(S, j)
    BY <1>1, <1>2, RankProperties
  <2>3. e[m] = e[n] => m = n
    BY <1>3
  <2>. HIDE DEF e, c
  <2>4. QED BY <1>2, <1>3, <2>1, <2>2, <2>3
<1>8. ASSUME NEW i \in S
      PROVE  \E n \in 1..c : e[n] = i
  <2>1. i \in 1..Len(s) /\ i \in Nat /\ i - 1 \in Nat
    BY <1>2
  <2>2. /\ \A k \in Nat : Rank(S, k) \in 0..c
        /\ \A k \in Nat, j \in S : k < j => Rank(S, k) < Rank(S, j)
    BY <1>1, <1>2, RankProperties
  <2>3. Rank(S, i) \in 1..c
    <3>. HIDE DEF e, t, c
    <3>1. Rank(S, i - 1) \in 0..c /\ Rank(S, i) \in 0..c
      BY <2>1, <2>2
    <3>2. i - 1 < i
      BY <2>1
    <3>3. Rank(S, i - 1) < Rank(S, i)
      BY <2>1, <2>2, <3>2
    <3>4. QED BY <1>2, <3>1, <3>3
  <2>4. e[Rank(S, i)] \in S /\ Rank(S, e[Rank(S, i)]) = Rank(S, i)
    BY <1>3, <2>3
  <2>5. \A j \in S : j < i \/ i < j => Rank(S, j) # Rank(S, i)
    <3>1. \A j \in S : Rank(S, j) \in Nat /\ j \in Nat
      BY <1>1, <1>2, RankProperties
    <3>2. \A j, k \in S : j < k => Rank(S, j) < Rank(S, k)
      BY <1>1, <1>2, RankProperties
    <3>3. QED BY <3>1, <3>2
  <2>6. e[Rank(S, i)] = i
    <3>1. e[Rank(S, i)] \in Nat
      BY <1>2, <2>4
    <3>. HIDE DEF e
    <3>2. QED BY <2>1, <2>4, <2>5, <3>1
  <2>7. QED BY <2>3, <2>6
<1>9. e \in [DOMAIN t -> S]
  BY <1>3, <1>5 DEF Enumeration
<1>. HIDE DEF e, t, c
<1>10. QED BY <1>2, <1>4, <1>5, <1>6, <1>7, <1>8, <1>9 DEF e, t, c

-----------------------------------------------------------------------------
\* .env: what its readers can tell of a key.
Lines == Seq([key : EnvKeys \cup {"OTHER"}, val : Nat])

Single(ls, k) == \A i, j \in Defs(ls, k) : i = j

Alike(s, t, k) ==
  /\ Defs(s, k) = {} <=> Defs(t, k) = {}
  /\ Single(s, k) <=> Single(t, k)
  /\ ReadEnvVar(s, k) = ReadEnvVar(t, k)
  /\ LastWins(s, k) = LastWins(t, k)

\* Positions and elements of a file.
LEMMA LinesProperties ==
  ASSUME NEW ls \in Lines
  PROVE  /\ Len(ls) \in Nat /\ DOMAIN ls = 1..Len(ls)
         /\ \A i \in DOMAIN ls : /\ ls[i] \in [key : EnvKeys \cup {"OTHER"}, val : Nat]
                                 /\ ls[i].val \in Nat
         /\ \A k : \A i \in Defs(ls, k) : i \in DOMAIN ls /\ i \in Nat /\ ls[i].key = k
<1>1. Len(ls) \in Nat /\ DOMAIN ls = 1..Len(ls)
  BY LenProperties DEF Lines
<1>2. \A i \in DOMAIN ls : ls[i] \in [key : EnvKeys \cup {"OTHER"}, val : Nat]
  BY <1>1, ElementOfSeq DEF Lines
<1>3. QED BY <1>1, <1>2 DEF Defs

\* First() and Latest() are what their names say.
LEMMA FirstAndLatest ==
  ASSUME NEW ls \in Lines, NEW k, Defs(ls, k) # {}
  PROVE  /\ First(ls, k) \in Defs(ls, k) /\ \A j \in Defs(ls, k) : First(ls, k) <= j
         /\ Latest(ls, k) \in Defs(ls, k) /\ \A j \in Defs(ls, k) : Latest(ls, k) >= j
<1>1. Defs(ls, k) \subseteq Nat /\ Defs(ls, k) \subseteq 0..Len(ls) /\ Len(ls) \in Nat
  BY LinesProperties
<1>2. \E i \in Defs(ls, k) : \A j \in Defs(ls, k) : i <= j
  BY <1>1, LeastExists
<1>3. \E i \in Defs(ls, k) : \A j \in Defs(ls, k) : i >= j
  BY <1>1, GreatestExists
<1>4. QED BY <1>2, <1>3 DEF First, Latest

LEMMA FirstUnique ==
  ASSUME NEW ls \in Lines, NEW k, NEW i \in Defs(ls, k)
  PROVE  /\ (\A j \in Defs(ls, k) : i <= j) => First(ls, k) = i
         /\ (\A j \in Defs(ls, k) : i >= j) => Latest(ls, k) = i
<1>1. \A j \in Defs(ls, k) : j \in Nat
  BY LinesProperties
<1>2. /\ First(ls, k) \in Defs(ls, k) /\ \A j \in Defs(ls, k) : First(ls, k) <= j
      /\ Latest(ls, k) \in Defs(ls, k) /\ \A j \in Defs(ls, k) : Latest(ls, k) >= j
  BY FirstAndLatest
<1>3. QED BY <1>1, <1>2

\* Two files tell the same of a key if its definitions in the one are those in the
\* other, in the same order.
LEMMA SameDefinitionsAlike ==
  ASSUME NEW s \in Lines, NEW t \in Lines, NEW k,
         NEW f \in [Defs(t, k) -> Defs(s, k)],
         \A i \in Defs(s, k) : \E n \in Defs(t, k) : f[n] = i,
         \A m, n \in Defs(t, k) : m < n <=> f[m] < f[n],
         \A n \in Defs(t, k) : t[n] = s[f[n]]
  PROVE  Alike(s, t, k)
<1>1. Defs(s, k) = {} <=> Defs(t, k) = {}
  OBVIOUS
<1>2. (\A i \in Defs(s, k) : i \in Nat) /\ (\A n \in Defs(t, k) : n \in Nat)
  BY LinesProperties
<1>3. \A n \in Defs(t, k) : f[n] \in Defs(s, k) /\ f[n] \in Nat
  BY <1>2
<1>4. \A m, n \in Defs(t, k) : m = n <=> f[m] = f[n]
  BY <1>2, <1>3
<1>5. Single(s, k) <=> Single(t, k)
  BY <1>3, <1>4 DEF Single
<1>6. ASSUME Defs(t, k) # {}
      PROVE  First(s, k) = f[First(t, k)] /\ Latest(s, k) = f[Latest(t, k)]
  <2>1. /\ First(t, k) \in Defs(t, k) /\ \A j \in Defs(t, k) : First(t, k) <= j
        /\ Latest(t, k) \in Defs(t, k) /\ \A j \in Defs(t, k) : Latest(t, k) >= j
    BY <1>6, FirstAndLatest
  <2>2. ASSUME NEW i \in Defs(s, k)
        PROVE  f[First(t, k)] <= i /\ f[Latest(t, k)] >= i
    <3>1. PICK n \in Defs(t, k) : f[n] = i
      OBVIOUS
    <3>2. ~(n < First(t, k)) /\ ~(Latest(t, k) < n)
      BY <1>2, <2>1, <3>1
    <3>3. ~(f[n] < f[First(t, k)]) /\ ~(f[Latest(t, k)] < f[n])
      BY <2>1, <3>1, <3>2
    <3>4. QED BY <1>3, <2>1, <3>1, <3>3
  <2>3. QED BY <1>3, <2>1, <2>2, FirstUnique
<1>7. ASSUME Defs(t, k) # {}
      PROVE  s[First(s, k)] = t[First(t, k)] /\ s[Latest(s, k)] = t[Latest(t, k)]
  BY <1>6, <1>7, FirstAndLatest
<1>8. ReadEnvVar(s, k) = ReadEnvVar(t, k) /\ LastWins(s, k) = LastWins(t, k)
  BY <1>1, <1>7 DEF ReadEnvVar, LastWins
<1>9. QED BY <1>1, <1>5, <1>8 DEF Alike

\* A filter that drops no definition of a key changes nothing about it, one that
\* drops all of them leaves none.
LEMMA KeepDefinitions ==
  ASSUME NEW s \in Lines, NEW S, S \subseteq DOMAIN s
  PROVE  /\ Keep(s, S) \in Lines
         /\ \A n \in DOMAIN Keep(s, S) : \E i \in S : Keep(s, S)[n] = s[i]
         /\ \A k : Defs(s, k) \subseteq S => Alike(s, Keep(s, S), k)
         /\ \A k : Defs(s, k) \cap S = {} => Defs(Keep(s, S), k) = {}
<1>. DEFINE t == Keep(s, S)
            e == Enumeration(S)
<1>1. /\ t \in Lines
      /\ e \in [DOMAIN t -> S]
      /\ \A n \in DOMAIN t : t[n] = s[e[n]]
      /\ \A m, n \in DOMAIN t : m < n <=> e[m] < e[n]
      /\ \A i \in S : \E n \in DOMAIN t : e[n] = i
  BY KeepEnumerates DEF Lines
<1>. HIDE DEF t, e
<1>2. ASSUME NEW k, Defs(s, k) \subseteq S
      PROVE  Alike(s, t, k)
  <2>. DEFINE f == [n \in Defs(t, k) |-> e[n]]
  <2>1. \A n \in DOMAIN t : n \in Defs(t, k) <=> e[n] \in Defs(s, k)
    BY <1>1 DEF Defs
  <2>2. \A n \in Defs(t, k) : n \in DOMAIN t
    BY DEF Defs
  <2>3. f \in [Defs(t, k) -> Defs(s, k)]
    BY <2>1, <2>2
  <2>4. \A i \in Defs(s, k) : \E n \in Defs(t, k) : f[n] = i
    BY <1>1, <1>2, <2>1
  <2>5. \A m, n \in Defs(t, k) : m < n <=> f[m] < f[n]
    BY <1>1, <2>2
  <2>6. \A n \in Defs(t, k) : t[n] = s[f[n]]
    BY <1>1, <2>2
  <2>. HIDE DEF f
  <2>7. QED BY <1>1, <2>3, <2>4, <2>5, <2>6, SameDefinitionsAlike
<1>3. ASSUME NEW k, Defs(s, k) \cap S = {}
      PROVE  Defs(t, k) = {}
  BY <1>1, <1>3 DEF Defs
<1>4. \A n \in DOMAIN t : \E i \in S : t[n] = s[i]
  BY <1>1
<1>5. QED BY <1>1, <1>2, <1>3, <1>4 DEF t

-----------------------------------------------------------------------------
\* What each way of writing .env makes of the key it is about, and that it leaves all
\* others as they are.
LEMMA AppendLine ==
  ASSUME NEW ls \in Lines, NEW k \in EnvKeys, NEW v \in Nat, Defs(ls, k) = {}
  PROVE  LET t == Append(ls, Line(k, v))
         IN  /\ t \in Lines
             /\ \A n \in DOMAIN t : t[n] = Line(k, v) \/ \E i \in DOMAIN ls : t[n] = ls[i]
             /\ Defs(t, k) # {} /\ Single(t, k)
             /\ ReadEnvVar(t, k) = v /\ LastWins(t, k) = v
             /\ \A q : q # k => Alike(ls, t, q)
<1>. DEFINE t == Append(ls, Line(k, v))
            l == Len(ls) + 1
<1>1. Line(k, v) \in [key : EnvKeys \cup {"OTHER"}, val : Nat] /\ Line(k, v).key = k /\ Line(k, v).val = v
  BY DEF Line
<1>2. /\ t \in Lines /\ DOMAIN t = 1..l /\ t[l] = Line(k, v)
      /\ \A i \in DOMAIN ls : i \in DOMAIN t /\ i # l /\ t[i] = ls[i]
      /\ \A i \in DOMAIN t : i = l \/ i \in DOMAIN ls
      /\ l \in DOMAIN t
  <2>1. /\ t \in Lines /\ Len(t) = l /\ t[l] = Line(k, v)
        /\ \A i \in 1..Len(ls) : t[i] = ls[i]
    BY <1>1, AppendProperties DEF Lines
  <2>2. DOMAIN t = 1..Len(t) /\ DOMAIN ls = 1..Len(ls) /\ Len(ls) \in Nat
    BY <2>1, LinesProperties
  <2>. HIDE DEF t
  <2>3. QED BY <2>1, <2>2
<1>. HIDE DEF t, l
<1>3. Defs(t, k) = {l}
  BY <1>1, <1>2 DEF Defs
<1>4. First(t, k) = l /\ Latest(t, k) = l
  BY <1>2, <1>3, FirstAndLatest
<1>5. ASSUME NEW q, q # k
      PROVE  Alike(ls, t, q)
  <2>1. Defs(t, q) = Defs(ls, q)
    BY <1>1, <1>2, <1>5 DEF Defs
  <2>. DEFINE f == [n \in Defs(t, q) |-> n]
  <2>2. \A n \in Defs(t, q) : t[n] = ls[f[n]]
    BY <1>2, <2>1 DEF Defs
  <2>3. f \in [Defs(t, q) -> Defs(ls, q)]
    BY <2>1
  <2>4. QED BY <1>2, <2>1, <2>2, <2>3, SameDefinitionsAlike
<1>6. QED BY <1>1, <1>2, <1>3, <1>4, <1>5 DEF Single, ReadEnvVar, LastWins, t

LEMMA ReplaceLine ==
  ASSUME NEW ls \in Lines, NEW k \in EnvKeys, NEW v \in Nat, NEW p \in Defs(ls, k)
  PROVE  LET t == [ls EXCEPT ![p] = Line(k, v)]
         IN  /\ t \in Lines /\ DOMAIN t = DOMAIN ls
             /\ t[p] = Line(k, v) /\ \A i \in DOMAIN ls : i # p => t[i] = ls[i]
             /\ Defs(t, k) = Defs(ls, k)
             /\ \A q : q # k => Alike(ls, t, q)
<1>. DEFINE t == [ls EXCEPT ![p] = Line(k, v)]
<1>1. Line(k, v) \in [key : EnvKeys \cup {"OTHER"}, val : Nat] /\ Line(k, v).key = k
  BY DEF Line
<1>2. p \in DOMAIN ls /\ ls[p].key = k
  BY LinesProperties
<1>3. /\ t \in Lines /\ DOMAIN t = DOMAIN ls
      /\ t[p] = Line(k, v) /\ \A i \in DOMAIN ls : i # p => t[i] = ls[i]
  <2>1. DOMAIN ls = 1..Len(ls)
    BY LinesProperties
  <2>2. t \in Lines
    BY <1>1, <1>2, <2>1, ExceptSeq DEF Lines
  <2>3. QED BY <1>2, <2>2
<1>. HIDE DEF t
<1>4. Defs(t, k) = Defs(ls, k)
  BY <1>1, <1>2, <1>3 DEF Defs
<1>5. ASSUME NEW q, q # k
      PROVE  Alike(ls, t, q)
  <2>1. Defs(t, q) = Defs(ls, q)
    BY <1>1, <1>2, <1>3, <1>5 DEF Defs
  <2>. DEFINE f == [n \in Defs(t, q) |-> n]
  <2>2. \A n \in Defs(t, q) : t[n] = ls[f[n]]
    BY <1>2, <1>3, <1>5, <2>1 DEF Defs
  <2>3. f \in [Defs(t, q) -> Defs(ls, q)]
    BY <2>1
  <2>4. QED BY <1>3, <2>1, <2>2, <2>3, SameDefinitionsAlike
<1>6. QED BY <1>3, <1>4, <1>5 DEF t

LEMMA ReplaceLastProperties ==
  ASSUME NEW ls \in Lines, NEW k \in EnvKeys, NEW v \in Nat
  PROVE  LET t == ReplaceLast(ls, k, v)
         IN  /\ t \in Lines
             /\ \A n \in DOMAIN t : t[n] = Line(k, v) \/ \E i \in DOMAIN ls : t[n] = ls[i]
             /\ Defs(t, k) # {}
             /\ Single(t, k) <=> Single(ls, k)
             /\ LastWins(t, k) = v
             /\ ReadEnvVar(t, k) = IF Single(ls, k) THEN v ELSE ReadEnvVar(ls, k)
             /\ \A q : q # k => Alike(ls, t, q)
<1>1. CASE Defs(ls, k) = {}
  BY <1>1, AppendLine DEF ReplaceLast, Single
<1>2. CASE Defs(ls, k) # {}
  <2>. DEFINE p == Latest(ls, k)
              t == [ls EXCEPT ![p] = Line(k, v)]
  <2>1. /\ p \in Defs(ls, k) /\ \A j \in Defs(ls, k) : p >= j
        /\ First(ls, k) \in Defs(ls, k) /\ \A j \in Defs(ls, k) : First(ls, k) <= j
    BY <1>2, FirstAndLatest
  <2>2. /\ t \in Lines /\ DOMAIN t = DOMAIN ls
        /\ t[p] = Line(k, v) /\ \A i \in DOMAIN ls : i # p => t[i] = ls[i]
        /\ Defs(t, k) = Defs(ls, k)
        /\ \A q : q # k => Alike(ls, t, q)
    BY <2>1, ReplaceLine
  <2>3. ReplaceLast(ls, k, v) = t
    BY <1>2 DEF ReplaceLast
  <2>. HIDE DEF t, p
  <2>4. Latest(t, k) = p /\ First(t, k) = First(ls, k)
    BY <2>1, <2>2, FirstUnique
  <2>5. Line(k, v).val = v
    BY DEF Line
  <2>6. Single(ls, k) <=> First(ls, k) = p
    <3>1. \A j \in Defs(ls, k) : j \in Nat
      BY LinesProperties
    <3>2. QED BY <2>1, <3>1 DEF Single
  <2>7. First(ls, k) \in DOMAIN ls
    BY <2>1, LinesProperties
  <2>8. LastWins(t, k) = v
    BY <1>2, <2>2, <2>4, <2>5 DEF LastWins
  <2>9. ReadEnvVar(t, k) = IF Single(ls, k) THEN v ELSE ReadEnvVar(ls, k)
    BY <1>2, <2>2, <2>4, <2>5, <2>6, <2>7 DEF ReadEnvVar
  <2>10. Single(t, k) <=> Single(ls, k)
    BY <2>2 DEF Single
  <2>11. \A n \in DOMAIN t : t[n] = Line(k, v) \/ \E i \in DOMAIN ls : t[n] = ls[i]
    BY <2>2
  <2>12. QED BY <1>2, <2>2, <2>3, <2>8, <2>9, <2>10, <2>11
<1>3. QED BY <1>1, <1>2

LEMMA SetEnvVarProperties ==
  ASSUME NEW ls \in Lines, NEW k \in EnvKeys, NEW v \in Nat
  PROVE  LET t == SetEnvVar(ls, k, v)
         IN  /\ t \in Lines
             /\ \A n \in DOMAIN t : t[n] = Line(k, v) \/ \E i \in DOMAIN ls : t[n] = ls[i]
             /\ Defs(t, k) # {} /\ Single(t, k)
             /\ ReadEnvVar(t, k) = v /\ LastWins(t, k) = v
             /\ \A q : q # k => Alike(ls, t, q)
<1>1. CASE Defs(ls, k) = {}
  BY <1>1, AppendLine DEF SetEnvVar
<1>2. CASE Defs(ls, k) # {}
  <2>. DEFINE p == First(ls, k)
              u == [ls EXCEPT ![p] = Line(k, v)]
              S == DOMAIN ls \ (Defs(ls, k) \ {p})
              t == Keep(u, S)
              e == Enumeration(S)
  <2>1. p \in Defs(ls, k)
    BY <1>2, FirstAndLatest
  <2>2. /\ u \in Lines /\ DOMAIN u = DOMAIN ls
        /\ u[p] = Line(k, v) /\ \A i \in DOMAIN ls : i # p => u[i] = ls[i]
        /\ Defs(u, k) = Defs(ls, k)
        /\ \A q : q # k => Alike(ls, u, q)
    BY <2>1, ReplaceLine
  <2>3. SetEnvVar(ls, k, v) = t
    BY <1>2 DEF SetEnvVar
  <2>4. S \subseteq DOMAIN u /\ p \in S /\ \A i \in S : i \in Defs(u, k) <=> i = p
    BY <2>1, <2>2, LinesProperties
  <2>. HIDE DEF u, p, S
  <2>5. /\ t \in Lines
        /\ \A n \in DOMAIN t : \E i \in S : t[n] = u[i]
        /\ \A q : Defs(u, q) \subseteq S => Alike(u, t, q)
    BY <2>2, <2>4, KeepDefinitions
  <2>6. /\ e \in [DOMAIN t -> S]
        /\ \A n \in DOMAIN t : t[n] = u[e[n]]
        /\ \A m, n \in DOMAIN t : m < n <=> e[m] < e[n]
        /\ \A i \in S : \E n \in DOMAIN t : e[n] = i
    <3>1. u \in Seq([key : EnvKeys \cup {"OTHER"}, val : Nat]) /\ S \subseteq DOMAIN u
      BY <2>2, <2>4 DEF Lines
    <3>2. QED BY <3>1, KeepEnumerates
  <2>. HIDE DEF t, e
  <2>7. ASSUME NEW q, q # k
        PROVE  Alike(ls, t, q)
    <3>1. Defs(u, q) \subseteq S
      BY <2>2, <2>7 DEF Defs, S
    <3>2. Alike(u, t, q) /\ Alike(ls, u, q)
      BY <2>2, <2>5, <2>7, <3>1
    <3>3. QED BY <3>2 DEF Alike
  <2>8. PICK m \in DOMAIN t : e[m] = p
    BY <2>4, <2>6
  <2>9. \A n \in DOMAIN t : e[n] = p => n = m
    <3>1. \A n \in DOMAIN t : n \in Nat
      BY <2>5, LinesProperties
    <3>2. p \in Nat
      BY <2>1, LinesProperties
    <3>3. QED BY <2>6, <2>8, <3>1, <3>2
  <2>10. Defs(t, k) = {m}
    BY <2>2, <2>4, <2>6, <2>8, <2>9 DEF Defs
  <2>11. t[m] = Line(k, v) /\ Line(k, v).val = v
    BY <2>2, <2>6, <2>8 DEF Line
  <2>12. First(t, k) = m /\ Latest(t, k) = m
    BY <2>5, <2>10, FirstAndLatest
  <2>13. \A n \in DOMAIN t : t[n] = Line(k, v) \/ \E i \in DOMAIN ls : t[n] = ls[i]
    <3>1. \A i \in S : i \in DOMAIN ls
      BY <2>2, <2>4
    <3>2. QED BY <2>2, <2>5, <3>1
  <2>14. QED BY <2>3, <2>5, <2>7, <2>10, <2>11, <2>12, <2>13 DEF Single, ReadEnvVar, LastWins
<1>3. QED BY <1>1, <1>2

LEMMA WithoutProperties ==
  ASSUME NEW ls \in Lines, NEW K
  PROVE  LET t == Without(ls, K)
         IN  /\ t \in Lines
             /\ \A n \in DOMAIN t : \E i \in DOMAIN ls : t[n] = ls[i]
             /\ \A k \in K : Defs(t, k) = {}
             /\ \A q : q \notin K => Alike(ls, t, q)
<1>. DEFINE S == {i \in DOMAIN ls : ls[i].key \notin K}
<1>1. S \subseteq DOMAIN ls
  OBVIOUS
<1>2. \A k \in K : Defs(ls, k) \cap S = {}
  BY DEF Defs
<1>3. \A q : q \notin K => Defs(ls, q) \subseteq S
  BY DEF Defs
<1>4. Without(ls, K) = Keep(ls, S)
  BY DEF Without
<1>. HIDE DEF S
<1>5. QED BY <1>1, <1>2, <1>3, <1>4, KeepDefinitions

-----------------------------------------------------------------------------
\* The webhook's secret and id are defined side by side.
Paired(ls) ==
  /\ Defs(ls, "ID") = {} <=> Defs(ls, "SECRET") = {}
  /\ Single(ls, "ID") <=> Single(ls, "SECRET")
  /\ ReadEnvVar(ls, "ID") = ReadEnvVar(ls, "SECRET")
  /\ LastWins(ls, "ID") = LastWins(ls, "SECRET")

LEMMA AlikeKeepsPaired ==
  ASSUME NEW s, NEW t, Alike(s, t, "ID"), Alike(s, t, "SECRET"), Paired(s)
  PROVE  Paired(t)
BY DEF Alike, Paired

LEMMA SetEnvVarsProperties ==
  ASSUME NEW ls \in Lines, NEW v \in Nat
  PROVE  LET t == SetEnvVars(ls, v)
         IN  /\ t \in Lines
             /\ \A n \in DOMAIN t : \/ t[n] \in {Line("SECRET", v), Line("ID", v)}
                                    \/ \E i \in DOMAIN ls : t[n] = ls[i]
             /\ Paired(ls) => Paired(t)
             /\ ReadEnvVar(t, "ID") \in {v, ReadEnvVar(ls, "ID")}
             /\ \A q : q \notin {"SECRET", "ID"} => Alike(ls, t, q)
<1>. DEFINE u == ReplaceLast(ls, "SECRET", v)
            t == ReplaceLast(u, "ID", v)
<1>1. SetEnvVars(ls, v) = t
  BY DEF SetEnvVars
<1>2. "SECRET" \in EnvKeys /\ "ID" \in EnvKeys
  BY DEF EnvKeys
<1>3. /\ u \in Lines
      /\ \A n \in DOMAIN u : u[n] = Line("SECRET", v) \/ \E i \in DOMAIN ls : u[n] = ls[i]
      /\ Defs(u, "SECRET") # {}
      /\ Single(u, "SECRET") <=> Single(ls, "SECRET")
      /\ LastWins(u, "SECRET") = v
      /\ ReadEnvVar(u, "SECRET") = IF Single(ls, "SECRET") THEN v ELSE ReadEnvVar(ls, "SECRET")
      /\ \A q : q # "SECRET" => Alike(ls, u, q)
  BY <1>2, ReplaceLastProperties
<1>. HIDE DEF u
<1>4. /\ t \in Lines
      /\ \A n \in DOMAIN t : t[n] = Line("ID", v) \/ \E i \in DOMAIN u : t[n] = u[i]
      /\ Defs(t, "ID") # {}
      /\ Single(t, "ID") <=> Single(u, "ID")
      /\ LastWins(t, "ID") = v
      /\ ReadEnvVar(t, "ID") = IF Single(u, "ID") THEN v ELSE ReadEnvVar(u, "ID")
      /\ \A q : q # "ID" => Alike(u, t, q)
  BY <1>2, <1>3, ReplaceLastProperties
<1>. HIDE DEF t
<1>5. Alike(ls, u, "ID") /\ Alike(u, t, "SECRET")
  BY <1>3, <1>4
<1>6. ASSUME Paired(ls)
      PROVE  Paired(t)
  <2>1. Single(u, "ID") <=> Single(u, "SECRET")
    BY <1>3, <1>5, <1>6 DEF Alike, Paired
  <2>2. Single(t, "ID") <=> Single(t, "SECRET")
    BY <1>4, <1>5, <2>1 DEF Alike
  <2>3. ReadEnvVar(u, "ID") = ReadEnvVar(ls, "SECRET")
    BY <1>5, <1>6 DEF Alike, Paired
  <2>4. Single(u, "ID") <=> Single(ls, "SECRET")
    BY <1>3, <2>1
  <2>5. ReadEnvVar(t, "ID") = ReadEnvVar(u, "SECRET")
    BY <1>3, <1>4, <2>3, <2>4
  <2>6. /\ Defs(t, "SECRET") # {} /\ LastWins(t, "SECRET") = v
        /\ ReadEnvVar(t, "SECRET") = ReadEnvVar(u, "SECRET")
    BY <1>3, <1>5 DEF Alike
  <2>7. QED BY <1>4, <2>2, <2>5, <2>6 DEF Paired
<1>7. ReadEnvVar(t, "ID") \in {v, ReadEnvVar(ls, "ID")}
  BY <1>4, <1>5 DEF Alike
<1>8. ASSUME NEW q, q \notin {"SECRET", "ID"}
      PROVE  Alike(ls, t, q)
  <2>1. Alike(ls, u, q) /\ Alike(u, t, q)
    BY <1>3, <1>4, <1>8
  <2>2. QED BY <2>1 DEF Alike
<1>9. \A n \in DOMAIN t : \/ t[n] \in {Line("SECRET", v), Line("ID", v)}
                         \/ \E i \in DOMAIN ls : t[n] = ls[i]
  BY <1>3, <1>4
<1>10. QED BY <1>1, <1>4, <1>6, <1>7, <1>8, <1>9

-----------------------------------------------------------------------------
\* SOUL.md: after upsert() all claims are for the account, after clear() there are
\* none; both keep the blocks of others.
LEMMA UpsertProperties ==
  ASSUME NEW bs \in Seq(Nat), NEW a \in Nat, a # Foreign
  PROVE  LET t == Upsert(bs, a)
         IN  /\ t \in Seq(Nat) /\ Claims(t) = {a}
             /\ (\E i \in DOMAIN bs : bs[i] = Foreign) => \E i \in DOMAIN t : t[i] = Foreign
<1>. DEFINE l == Len(bs)
<1>1. l \in Nat /\ DOMAIN bs = 1..l /\ \A i \in DOMAIN bs : bs[i] \in Nat
  BY LenProperties, ElementOfSeq
<1>2. CASE Claims(bs) = {}
  <2>. DEFINE t == Append(bs, a)
  <2>1. /\ t \in Seq(Nat) /\ Len(t) = l + 1 /\ t[l + 1] = a
        /\ \A i \in 1..l : t[i] = bs[i]
    BY AppendProperties
  <2>2. DOMAIN t = 1..(l + 1)
    BY <2>1, LenProperties
  <2>3. \A i \in 1..l : bs[i] = Foreign
    BY <1>1, <1>2 DEF Claims
  <2>. HIDE DEF t, l
  <2>4. Claims(t) = {a}
    BY <1>1, <2>1, <2>2, <2>3 DEF Claims
  <2>5. (\E i \in DOMAIN bs : bs[i] = Foreign) => \E i \in DOMAIN t : t[i] = Foreign
    BY <1>1, <2>1, <2>2
  <2>6. QED BY <1>2, <2>1, <2>4, <2>5 DEF t, Upsert
<1>3. CASE Claims(bs) # {}
  <2>. DEFINE t == [i \in DOMAIN bs |-> IF bs[i] = Foreign THEN Foreign ELSE a]
  <2>1. Upsert(bs, a) = t
    BY <1>3 DEF Upsert
  <2>2. t \in Seq(Nat)
    BY <1>1, IsASeq DEF Foreign
  <2>3. PICK j \in DOMAIN bs : bs[j] # Foreign
    BY <1>3 DEF Claims
  <2>4. Claims(t) = {a}
    BY <2>3 DEF Claims
  <2>5. (\E i \in DOMAIN bs : bs[i] = Foreign) => \E i \in DOMAIN t : t[i] = Foreign
    OBVIOUS
  <2>6. QED BY <2>1, <2>2, <2>4, <2>5
<1>4. QED BY <1>2, <1>3

LEMMA ClearProperties ==
  ASSUME NEW bs \in Seq(Nat)
  PROVE  LET t == Clear(bs)
         IN  /\ t \in Seq(Nat) /\ Claims(t) = {}
             /\ (\E i \in DOMAIN bs : bs[i] = Foreign) => \E i \in DOMAIN t : t[i] = Foreign
<1>. DEFINE S == {i \in DOMAIN bs : bs[i] = Foreign}
            t == Keep(bs, S)
            e == Enumeration(S)
<1>1. /\ t \in Seq(Nat) /\ e \in [DOMAIN t -> S]
      /\ \A n \in DOMAIN t : t[n] = bs[e[n]]
      /\ \A i \in S : \E n \in DOMAIN t : e[n] = i
  <2>1. S \subseteq DOMAIN bs
    OBVIOUS
  <2>. HIDE DEF S
  <2>2. QED BY <2>1, KeepEnumerates
<1>. HIDE DEF t, e
<1>2. \A n \in DOMAIN t : t[n] = Foreign
  BY <1>1
<1>3. Claims(t) = {}
  BY <1>2 DEF Claims
<1>4. (\E i \in DOMAIN bs : bs[i] = Foreign) => \E i \in DOMAIN t : t[i] = Foreign
  BY <1>1, <1>2
<1>5. QED BY <1>1, <1>3, <1>4 DEF t, Clear
=============================================================================
