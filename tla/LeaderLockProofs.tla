-------------------------- MODULE LeaderLockProofs --------------------------
(***************************************************************************)
(* Proofs about LeaderLock for any daemons, any doctors and any number of  *)
(* deletions of the lock file.                                             *)
(***************************************************************************)
EXTENDS LeaderLock, FiniteSetTheorems, TLAPS

\* The path names one of the files created so far, and a file is created only when
\* the path was deleted.
FilesCounted ==
  /\ files = unlinks + (IF path = NoFile THEN 0 ELSE 1)
  /\ path # NoFile => path \in 1..files

\* A process past open() has one of those files open, and one past flock() owns it.
HoldersOwn ==
  /\ \A p \in Procs : pc[p] \in Holding \cup {"flock"} => fd[p] \in 1..files
  /\ \A p \in Procs : pc[p] \in Holding => owner[fd[p]] = p

SignedHold ==
  \A p \in signed : pc[p] = "holding" /\ pid[fd[p]] = p

Ind == TypeOK /\ FilesCounted /\ HoldersOwn /\ SignedHold

\* The inductive invariant holds before any process starts
LEMMA InitInd == Init => Ind
BY LockAssumption
   DEF Init, Ind, TypeOK, FilesCounted, HoldersOwn, SignedHold, States, Holding, Files, NoFile

\* and every step of every process keeps it.
LEMMA NextInd == Ind /\ [Next]_vars => Ind'
<1>. SUFFICES ASSUME TypeOK, FilesCounted, HoldersOwn, SignedHold, [Next]_vars
              PROVE  Ind'
  BY DEF Ind
<1>. USE LockAssumption, NobodyAssumption DEF NoFile
<1>1. \A p \in Procs : p # Nobody
  OBVIOUS
<1>2. ASSUME NEW p \in Procs, pc[p] \in {"idle", "refused"},
             pc' = [pc EXCEPT ![p] = "open"],
             UNCHANGED <<path, files, owner, pid, fd, unlinks, signed>>
      PROVE  Ind'
  BY <1>2 DEF Ind, TypeOK, FilesCounted, HoldersOwn, SignedHold, States, Holding
<1>3. ASSUME NEW p \in Procs, Open(p)  PROVE  Ind'
  <2>1. /\ path' \in Files /\ path' \in 1..files'
        /\ files' \in Nat /\ files <= files'
        /\ FilesCounted'
    BY <1>3 DEF Open, TypeOK, FilesCounted, Files
  <2>2. TypeOK'
    BY <1>3, <2>1 DEF Open, TypeOK, States
  <2>3. HoldersOwn'
    BY <1>3, <2>1 DEF Open, TypeOK, HoldersOwn, Holding
  <2>4. SignedHold'
    BY <1>3 DEF Open, TypeOK, SignedHold
  <2>5. QED BY <2>1, <2>2, <2>3, <2>4 DEF Ind
<1>4. ASSUME NEW p \in Procs, FlockGranted(p)  PROVE  Ind'
  <2>1. fd[p] \in 1..files /\ fd[p] \in {NoFile} \cup Files
    BY <1>4 DEF FlockGranted, HoldersOwn, TypeOK
  <2>2. fd[p] \in Files
    BY <2>1
  <2>3. TypeOK' /\ FilesCounted'
    BY <1>4, <2>2 DEF FlockGranted, TypeOK, FilesCounted, States, Holding
  <2>4. HoldersOwn'
    BY <1>1, <1>4, <2>1, <2>2 DEF FlockGranted, TypeOK, HoldersOwn, Holding
  <2>5. SignedHold'
    BY <1>4 DEF FlockGranted, TypeOK, SignedHold
  <2>6. QED BY <2>3, <2>4, <2>5 DEF Ind
<1>5. ASSUME NEW p \in Procs, FlockBusy(p)  PROVE  Ind'
  <2>1. TypeOK' /\ FilesCounted'
    BY <1>5 DEF FlockBusy, TypeOK, FilesCounted, States
  <2>2. HoldersOwn'
    BY <1>5 DEF FlockBusy, TypeOK, HoldersOwn, Holding
  <2>3. SignedHold'
    BY <1>5 DEF FlockBusy, TypeOK, SignedHold
  <2>4. QED BY <2>1, <2>2, <2>3 DEF Ind
<1>6. ASSUME NEW p \in Procs, Truncate(p)  PROVE  Ind'
  <2>1. TypeOK' /\ FilesCounted' /\ HoldersOwn'
    BY <1>6 DEF Truncate, TypeOK, FilesCounted, HoldersOwn, States, Holding
  <2>2. \A q \in signed : q \in Procs /\ q # p /\ owner[fd[q]] = q /\ owner[fd[p]] = p
    BY <1>6 DEF Truncate, TypeOK, HoldersOwn, SignedHold, Holding
  <2>3. SignedHold'
    BY <1>6, <2>2 DEF Truncate, TypeOK, SignedHold
  <2>4. QED BY <2>1, <2>3 DEF Ind
<1>7. ASSUME NEW p \in Procs, WritePid(p)  PROVE  Ind'
  <2>1. fd[p] \in Files
    BY <1>7 DEF WritePid, TypeOK, HoldersOwn, Holding
  <2>2. TypeOK' /\ FilesCounted' /\ HoldersOwn'
    BY <1>7, <2>1 DEF WritePid, TypeOK, FilesCounted, HoldersOwn, States, Holding
  <2>3. \A q \in signed : q \in Procs /\ q # p /\ owner[fd[q]] = q /\ owner[fd[p]] = p
    BY <1>7 DEF WritePid, TypeOK, HoldersOwn, SignedHold, Holding
  <2>4. SignedHold'
    BY <1>7, <2>1, <2>3 DEF WritePid, TypeOK, SignedHold
  <2>5. QED BY <2>2, <2>4 DEF Ind
<1>8. ASSUME NEW p \in Procs, DiagnosticFails(p)  PROVE  Ind'
  BY <1>8 DEF DiagnosticFails, Ind, TypeOK, FilesCounted, HoldersOwn, SignedHold, States, Holding
<1>9. ASSUME NEW p \in Procs, GiveUp(p)  PROVE  Ind'
  <2>1. TypeOK' /\ FilesCounted'
    BY <1>9 DEF GiveUp, TypeOK, FilesCounted, States
  <2>2. HoldersOwn'
    <3>1. ASSUME NEW q \in Procs, pc'[q] \in Holding \cup {"flock"}
          PROVE  fd'[q] \in 1..files' /\ (pc'[q] \in Holding => owner'[fd'[q]] = q)
      <4>1. q # p /\ pc[q] \in Holding \cup {"flock"} /\ fd'[q] = fd[q] /\ pc'[q] = pc[q]
        BY <1>9, <3>1 DEF GiveUp, TypeOK, Holding
      <4>2. fd[q] \in 1..files /\ fd[q] \in Files /\ files' = files
        BY <1>9, <4>1 DEF HoldersOwn, TypeOK, GiveUp
      <4>3. ASSUME pc[q] \in Holding  PROVE  owner'[fd[q]] = q
        BY <1>9, <4>1, <4>2, <4>3 DEF HoldersOwn, GiveUp
      <4>4. QED BY <4>1, <4>2, <4>3
    <3>2. QED BY <3>1 DEF HoldersOwn
  <2>3. SignedHold'
    BY <1>9 DEF GiveUp, TypeOK, SignedHold
  <2>4. QED BY <2>1, <2>2, <2>3 DEF Ind
<1>10. CASE Unlink
  BY <1>10 DEF Unlink, Ind, TypeOK, FilesCounted, HoldersOwn, SignedHold, Holding
<1>11. CASE UNCHANGED vars
  BY <1>11 DEF vars, Ind, TypeOK, FilesCounted, HoldersOwn, SignedHold, Holding
<1>12. ASSUME NEW p \in Procs, DaemonStart(p) \/ DoctorStart(p)  PROVE  Ind'
  BY <1>2, <1>12 DEF DaemonStart, DoctorStart
<1>13. QED
  BY <1>3, <1>4, <1>5, <1>6, <1>7, <1>8, <1>9, <1>10, <1>11, <1>12
     DEF Next, Step, Release, Crash, Procs

\* The inductive invariant of the lock (leader_lock.py:87-137): who holds what.
THEOREM LockInvariant == Spec => []Ind
BY InitInd, NextInd, PTL DEF Spec

\* Every variable of the lock keeps its type (leader_lock.py:87-137).
THEOREM TypeCorrect == Spec => []TypeOK
<1>1. Ind => TypeOK
  BY DEF Ind
<1>2. QED BY <1>1, LockInvariant, PTL

-----------------------------------------------------------------------------
\* Leaders own distinct files, and there is one file more than deletions at most.
LEMMA LeadersCounted == Ind => LeadersBoundedByUnlinks
<1>1. SUFFICES ASSUME Ind
               PROVE  Cardinality(Leaders) <= 1 + unlinks
  BY DEF LeadersBoundedByUnlinks
<1>2. /\ files \in Nat /\ unlinks \in Nat
      /\ files <= 1 + unlinks
  BY <1>1, LockAssumption DEF Ind, TypeOK, FilesCounted
<1>3. IsFiniteSet(Leaders) /\ Cardinality(Leaders) \in Nat
  BY LockAssumption, FS_Subset, FS_CardinalityType DEF Leaders
<1>. DEFINE lockedBy == [d \in Leaders |-> fd[d]]
<1>4. \A d \in Leaders : fd[d] \in 1..files /\ owner[fd[d]] = d
  BY <1>1 DEF Ind, HoldersOwn, Leaders, Procs
<1>5. lockedBy \in Injection(Leaders, 1..files)
  BY <1>4 DEF Injection, IsInjective
<1>6. IsFiniteSet(1..files) /\ Cardinality(1..files) = files
  BY <1>2, FS_Interval
<1>7. Cardinality(Leaders) <= files
  BY <1>5, <1>6, FS_Injection
<1>8. QED BY <1>2, <1>3, <1>7

\* The election holds up to deletions of the lock file (leader_lock.py:87-137).
THEOREM ElectionHolds == Spec => []LeadersBoundedByUnlinks
BY LockInvariant, LeadersCounted, PTL

\* While nobody deletes the lock file there is one leader at most: the promise of
\* the docstrings of leader_lock.py and orchestrator.py under that assumption.
THEOREM OneLeaderWithoutUnlink ==
  ASSUME MaxUnlinks = 0
  PROVE  Spec => []MutualExclusion
<1>1. Ind => MutualExclusion
  BY LeadersCounted DEF Ind, TypeOK, LeadersBoundedByUnlinks, MutualExclusion
<1>2. QED BY <1>1, LockInvariant, PTL

\* A pid, once written, names the holder until the holder lets go (leader_lock.py:115-125).
THEOREM PidTrustworthy == Spec => []PidNamesHolder
<1>1. Ind => PidNamesHolder
  BY DEF Ind, TypeOK, HoldersOwn, SignedHold, PidNamesHolder, Holding
<1>2. QED BY <1>1, LockInvariant, PTL
=============================================================================
