----------------------------- MODULE LeaderLock -----------------------------
(***************************************************************************)
(* The flock-based leader election of leader_lock.py, as the daemon uses   *)
(* it (Orchestrator.start/stop) and as `doctor` probes it                  *)
(* (_check_leader_lock in doctor.py).                                      *)
(*                                                                         *)
(* Each process owns one LeaderLock object.  acquire() opens the lock      *)
(* file, tries flock(LOCK_EX | LOCK_NB) and then truncates the file and    *)
(* writes its pid; other processes run between any two of these calls, a   *)
(* process may die at any point (the kernel then drops its lock), and the  *)
(* file may be deleted while it is held.  The kernel locks the FILE, the   *)
(* processes meet at the PATH: both are state here.                        *)
(***************************************************************************)
EXTENDS Integers, FiniteSets

CONSTANTS Daemons, Doctors,   \* processes of the two kinds
          MaxUnlinks          \* bound: deletions of the lock file

Procs == Daemons \cup Doctors

ASSUME LockAssumption == /\ IsFiniteSet(Daemons)
                         /\ Daemons \cap Doctors = {}
                         /\ MaxUnlinks \in Nat

\* Files are numbered in the order they are created at the path: a new one only
\* when the path was deleted.
Files  == 1..(MaxUnlinks + 1)
NoFile == 0                   \* the path does not exist; no file is open
Nobody == "nobody"            \* no process holds the lock; no pid in the file

ASSUME NobodyAssumption == Nobody \notin Procs

VARIABLES path,      \* the file the lock path names
          files,     \* how many files were created at the path
          owner,     \* the process that holds the kernel's lock on each file
          pid,       \* the pid written in each file
          pc,        \* where each process stands
          fd,        \* the file each process has open
          unlinks,   \* deletions so far
          signed     \* history: the processes whose pid reached the file they hold

vars == <<path, files, owner, pid, pc, fd, unlinks, signed>>

\* The steps of acquire() that run with the lock held, and the state after it.
Holding == {"truncate", "write", "holding"}

Leaders == {d \in Daemons : pc[d] \in Holding}

-----------------------------------------------------------------------------
Init ==
  /\ path = NoFile
  /\ files = 0
  /\ owner = [f \in Files |-> Nobody]
  /\ pid = [f \in Files |-> Nobody]
  /\ pc = [p \in Procs |-> "idle"]
  /\ fd = [p \in Procs |-> NoFile]
  /\ unlinks = 0
  /\ signed = {}

\* A daemon calls acquire(); so does one that was turned away and is started again.
DaemonStart(d) ==
  /\ pc[d] \in {"idle", "refused"}
  /\ pc' = [pc EXCEPT ![d] = "open"]
  /\ UNCHANGED <<path, files, owner, pid, fd, unlinks, signed>>

\* `doctor` probes the lock, but only if the lock file exists.
DoctorStart(d) ==
  /\ pc[d] = "idle"
  /\ path # NoFile
  /\ pc' = [pc EXCEPT ![d] = "open"]
  /\ UNCHANGED <<path, files, owner, pid, fd, unlinks, signed>>

\* Mutant: the file is replaced by a new one on every start.
OpenFresh(p) ==
  /\ pc[p] = "open"
  /\ files' = files + 1
  /\ path' = files + 1
  /\ fd' = [fd EXCEPT ![p] = path']
  /\ pc' = [pc EXCEPT ![p] = "flock"]
  /\ UNCHANGED <<owner, pid, unlinks, signed>>

\* Mutant: open(lock_path, "w+b"), which truncates before the lock is held.
OpenTruncating(p) ==
  /\ pc[p] = "open"
  /\ IF path = NoFile
       THEN /\ files' = files + 1
            /\ path' = files + 1
       ELSE UNCHANGED <<files, path>>
  /\ pid' = [pid EXCEPT ![path'] = Nobody]
  /\ fd' = [fd EXCEPT ![p] = path']
  /\ pc' = [pc EXCEPT ![p] = "flock"]
  /\ UNCHANGED <<owner, unlinks, signed>>

\* open(lock_path, "a+b"): creates the file if need be and does not truncate it.
Open(p) ==
  /\ pc[p] = "open"
  /\ IF path = NoFile
       THEN /\ files' = files + 1
            /\ path' = files + 1
       ELSE UNCHANGED <<files, path>>
  /\ fd' = [fd EXCEPT ![p] = path']
  /\ pc' = [pc EXCEPT ![p] = "flock"]
  /\ UNCHANGED <<owner, pid, unlinks, signed>>

\* Mutant: LOCK_SH in place of LOCK_EX.
FlockShared(p) ==
  /\ pc[p] = "flock"
  /\ owner' = [owner EXCEPT ![fd[p]] = p]
  /\ pc' = [pc EXCEPT ![p] = "truncate"]
  /\ UNCHANGED <<path, files, pid, fd, unlinks, signed>>

\* flock() succeeds on a file nobody has locked.
FlockGranted(p) ==
  /\ pc[p] = "flock"
  /\ owner[fd[p]] = Nobody
  /\ owner' = [owner EXCEPT ![fd[p]] = p]
  /\ pc' = [pc EXCEPT ![p] = "truncate"]
  /\ UNCHANGED <<path, files, pid, fd, unlinks, signed>>

\* LeaderLockBusy: a daemon gives up with a RuntimeError, `doctor` reports a
\* running daemon.
FlockBusy(p) ==
  /\ pc[p] = "flock"
  /\ owner[fd[p]] # Nobody
  /\ fd' = [fd EXCEPT ![p] = NoFile]
  /\ pc' = [pc EXCEPT ![p] = IF p \in Daemons THEN "refused" ELSE "idle"]
  /\ UNCHANGED <<path, files, owner, pid, unlinks, signed>>

Truncate(p) ==
  /\ pc[p] = "truncate"
  /\ pid' = [pid EXCEPT ![fd[p]] = Nobody]
  /\ pc' = [pc EXCEPT ![p] = "write"]
  /\ UNCHANGED <<path, files, owner, fd, unlinks, signed>>

WritePid(p) ==
  /\ pc[p] = "write"
  /\ pid' = [pid EXCEPT ![fd[p]] = p]
  /\ pc' = [pc EXCEPT ![p] = "holding"]
  /\ signed' = signed \cup {p}
  /\ UNCHANGED <<path, files, owner, fd, unlinks>>

\* An OSError while truncating or writing does not invalidate the lock.
DiagnosticFails(p) ==
  /\ pc[p] \in {"truncate", "write"}
  /\ pc' = [pc EXCEPT ![p] = "holding"]
  /\ UNCHANGED <<path, files, owner, pid, fd, unlinks, signed>>

\* The kernel's lock goes with the process's open file.
GiveUp(p) ==
  /\ owner' = [f \in Files |-> IF owner[f] = p THEN Nobody ELSE owner[f]]
  /\ fd' = [fd EXCEPT ![p] = NoFile]
  /\ pc' = [pc EXCEPT ![p] = "idle"]
  /\ signed' = signed \ {p}
  /\ UNCHANGED <<path, files, pid, unlinks>>

Release(p) == pc[p] = "holding" /\ GiveUp(p)

Crash(p) == pc[p] \notin {"idle", "refused"} /\ GiveUp(p)

\* Somebody deletes the lock file.
Unlink ==
  /\ path # NoFile
  /\ unlinks < MaxUnlinks
  /\ path' = NoFile
  /\ unlinks' = unlinks + 1
  /\ UNCHANGED <<files, owner, pid, pc, fd, signed>>

Step(p) ==
  \/ Open(p) \/ FlockGranted(p) \/ FlockBusy(p)
  \/ Truncate(p) \/ WritePid(p) \/ DiagnosticFails(p)
  \/ Release(p) \/ Crash(p)

Next ==
  \/ \E d \in Daemons : DaemonStart(d)
  \/ \E d \in Doctors : DoctorStart(d)
  \/ \E p \in Procs : Step(p)
  \/ Unlink

Spec == Init /\ [][Next]_vars

-----------------------------------------------------------------------------
States == {"idle", "open", "flock", "refused"} \cup Holding

\* The variables have their types.
TypeOK ==
  /\ path \in {NoFile} \cup Files
  /\ files \in Nat
  /\ owner \in [Files -> Procs \cup {Nobody}]
  /\ pid \in [Files -> Procs \cup {Nobody}]
  /\ pc \in [Procs -> States]
  /\ fd \in [Procs -> {NoFile} \cup Files]
  /\ unlinks \in 0..MaxUnlinks
  /\ signed \subseteq Procs

\* The election at the PATH: each deletion of the lock file can let one more
\* daemon in beside those that lead, and nothing else can - no crash, no failed
\* attempt, no probe by `doctor`.  Without deletions there is one leader at most.
LeadersBoundedByUnlinks == Cardinality(Leaders) <= 1 + unlinks

\* The diagnostic pid is trustworthy while it matters: from the moment a holder has
\* written its pid until it lets go, nobody else - a process that fails to get the
\* lock, a predecessor's late write, a probe - changes what the file says.
PidNamesHolder == \A p \in signed : owner[fd[p]] = p /\ pid[fd[p]] = p

\* What the docstring of LeaderLock says of the lock file: "Deleting the file while
\* a process holds the lock leaks the file but does not break the lock".
MutualExclusion == Cardinality(Leaders) <= 1
=============================================================================
