---------------------------- MODULE PidLockProofs ----------------------------
(***************************************************************************)
(* The lock file, for any number of processes and files: the lock is       *)
(* exclusive and its file names its holder unless a terminating process    *)
(* unlinks a file that another process has open.                           *)
(***************************************************************************)
EXTENDS PidLock, TLAPS

\* What each location says about the process's own descriptor and lock.
Descriptors ==
  \A p \in Process :
    /\ pc[p] \in {"opened", "locked", "release", "unlocked"} => file_descriptor[p] # 0
    /\ pc[p] \in {"down", "main", "closed"} => file_descriptor[p] = 0
    /\ pc[p] \in {"locked", "release"} => holds[p]
    /\ holds[p] => pc[p] \in {"locked", "running", "release"}
    /\ pc[p] = "running" => (holds[p] <=> file_descriptor[p] # 0)

\* Every open lock file is the one that the path names.
OpenAtPath == \A p \in Process : file_descriptor[p] \in {0, path}

NamesHolder ==
  \A p \in Process : pc[p] = "running" /\ holds[p] => pid[path] = p

IInv ==
  /\ TypeOK
  /\ Descriptors
  /\ ~raced => OpenAtPath /\ SingleHolder /\ NamesHolder

\* The invariant holds initially.
LEMMA InitIInv == Init => IInv
<1> SUFFICES ASSUME Init PROVE IInv
  OBVIOUS
<1>1. TypeOK
  <2>1. pc \in [Process -> Location] /\ orphaned \in SUBSET File
    BY DEF Init, Location
  <2>2. created \in 0..MaxFile /\ path \in File \cup {0}
    BY PidLockAssumption DEF Init
  <2>3. /\ file_descriptor \in [Process -> File \cup {0}]
        /\ pid \in [File -> Process \cup {NoProcess}]
    BY DEF Init
  <2>4. /\ holds \in [Process -> BOOLEAN]
        /\ child \in [Process -> BOOLEAN]
        /\ raced \in BOOLEAN
    BY DEF Init
  <2> QED
    BY <2>1, <2>2, <2>3, <2>4 DEF TypeOK
<1>2. Descriptors
  BY DEF Init, Descriptors
<1>3. OpenAtPath /\ SingleHolder /\ NamesHolder
  BY DEF Init, OpenAtPath, SingleHolder, NamesHolder
<1> QED
  BY <1>1, <1>2, <1>3 DEF IInv

\* A holder has the lock file open.
LEMMA HolderHasFile ==
  ASSUME IInv, NEW p \in Process, holds[p]
  PROVE  file_descriptor[p] # 0
BY DEF IInv, TypeOK, Descriptors

\* Opening the lock file: the descriptor is the file the path names, new or old.
LEMMA OpenStep ==
  ASSUME IInv, NEW p \in Process, open_lock_file(p)
  PROVE  IInv'
<1> USE PidLockAssumption
<1>1. TypeOK'
  BY DEF IInv, TypeOK, open_lock_file, Goto, File, Location
<1>2. path' # 0
  BY DEF IInv, TypeOK, open_lock_file, File
<1>3. Descriptors'
  BY <1>2 DEF IInv, TypeOK, Descriptors, open_lock_file, Goto
<1>4. CASE ~raced
  <2>1. OpenAtPath'
    BY <1>4 DEF IInv, TypeOK, OpenAtPath, open_lock_file
  <2>2. SingleHolder'
    BY <1>4 DEF IInv, SingleHolder, open_lock_file
  <2>3. NamesHolder'
    <3> SUFFICES ASSUME NEW q \in Process, pc'[q] = "running", holds[q]
                 PROVE  pid[path'] = q
      BY DEF NamesHolder, open_lock_file
    <3>1. q # p /\ pc[q] = "running"
      BY DEF open_lock_file, Goto, IInv, TypeOK
    <3>2. path # 0
      BY <1>4, HolderHasFile DEF IInv, OpenAtPath
    <3> QED
      BY <1>4, <3>1, <3>2 DEF IInv, NamesHolder, open_lock_file
  <2> QED
    BY <1>1, <1>3, <2>1, <2>2, <2>3 DEF IInv
<1>5. CASE raced
  BY <1>1, <1>3, <1>5 DEF IInv, open_lock_file
<1> QED
  BY <1>4, <1>5 DEF IInv, TypeOK

\* A lock is granted only on a file that nobody has locked; all open files are one.
LEMMA FlockStep ==
  ASSUME IInv, NEW p \in Process, flock(p)
  PROVE  IInv'
<1>1. CASE Lockable(file_descriptor[p]) /\ pc' = [pc EXCEPT ![p] = "locked"]
  <2> pc[p] = "opened" /\ file_descriptor[p] # 0 /\ UNCHANGED <<file_descriptor, path, pid, raced>>
    BY <1>1 DEF flock, Goto, IInv, Descriptors
  <2> holds' = [holds EXCEPT ![p] = TRUE]
    BY <1>1 DEF flock
  <2>1. TypeOK'
    BY <1>1 DEF IInv, TypeOK, flock, Location
  <2>2. Descriptors'
    BY <1>1 DEF IInv, TypeOK, Descriptors
  <2>3. CASE ~raced
    <3>1. \A q \in Process : ~holds[q]
      BY <1>1, <2>3, HolderHasFile DEF Lockable, IInv, OpenAtPath
    <3>2. OpenAtPath' /\ SingleHolder' /\ NamesHolder'
      BY <1>1, <2>3, <3>1 DEF IInv, TypeOK, OpenAtPath, SingleHolder, NamesHolder
    <3> QED
      BY <2>1, <2>2, <3>2 DEF IInv
  <2> QED
    BY <2>1, <2>2, <2>3 DEF IInv, TypeOK
<1>2. CASE file_descriptor' = [file_descriptor EXCEPT ![p] = 0]
           /\ pc[p] = "opened" /\ pc' = [pc EXCEPT ![p] = "running"]
           /\ UNCHANGED <<holds, child, path, created, pid, raced, orphaned>>
  <2>1. TypeOK'
    BY <1>2 DEF IInv, TypeOK, Location
  <2>2. ~holds[p]
    BY <1>2 DEF IInv, Descriptors
  <2>3. Descriptors'
    BY <1>2, <2>2 DEF IInv, TypeOK, Descriptors
  <2>4. ~raced => OpenAtPath' /\ SingleHolder' /\ NamesHolder'
    BY <1>2, <2>2 DEF IInv, TypeOK, OpenAtPath, SingleHolder, NamesHolder
  <2> QED
    BY <1>2, <2>1, <2>3, <2>4 DEF IInv
<1> QED
  BY <1>1, <1>2 DEF flock, Goto

\* The holder alone writes its number.
LEMMA WriteStep ==
  ASSUME IInv, NEW p \in Process, write_pid_to_file(p)
  PROVE  IInv'
<1> USE DEF write_pid_to_file, Goto
<1>1. TypeOK'
  BY DEF IInv, TypeOK, Descriptors, File, Location
<1>2. Descriptors'
  BY DEF IInv, TypeOK, Descriptors
<1>3. ~raced => OpenAtPath' /\ SingleHolder'
  BY DEF IInv, OpenAtPath, SingleHolder
<1>4. ASSUME ~raced PROVE NamesHolder'
  <2> SUFFICES ASSUME NEW q \in Process, holds[q]
               PROVE  pid'[path] = q
    BY DEF NamesHolder
  <2>1. holds[p] /\ file_descriptor[p] # 0
    BY DEF IInv, Descriptors
  <2>2. q = p
    BY <1>4, <2>1 DEF IInv, SingleHolder
  <2>3. path = file_descriptor[p] /\ path \in File
    BY <1>4, <2>1 DEF IInv, TypeOK, OpenAtPath
  <2> QED
    BY <2>2, <2>3 DEF IInv, TypeOK
<1> QED
  BY <1>1, <1>2, <1>3, <1>4 DEF IInv

\* A crash gives up descriptor and lock together.
LEMMA CrashStep ==
  ASSUME IInv, NEW p \in Process, Crash(p)
  PROVE  IInv'
<1> USE DEF Crash
<1>1. holds[p] => file_descriptor[p] \in File
  BY HolderHasFile DEF IInv, TypeOK
<1>2. TypeOK'
  BY <1>1 DEF IInv, TypeOK, Location
<1>3. Descriptors'
  BY DEF IInv, TypeOK, Descriptors
<1>4. ~raced => OpenAtPath' /\ SingleHolder' /\ NamesHolder'
  BY DEF IInv, TypeOK, OpenAtPath, SingleHolder, NamesHolder
<1> QED
  BY <1>2, <1>3, <1>4 DEF IInv

\* The steps of release() before unlink() give up lock and descriptor in order.
LEMMA ReleaseStep ==
  ASSUME IInv, NEW p \in Process, release(p) \/ unlock(p) \/ close(p)
  PROVE  IInv'
<1>1. CASE release(p)
  <2> USE <1>1 DEF release
  <2>1. TypeOK' /\ Descriptors'
    BY DEF IInv, TypeOK, Descriptors, Location
  <2>2. ~raced => OpenAtPath' /\ SingleHolder' /\ NamesHolder'
    BY DEF IInv, TypeOK, OpenAtPath, SingleHolder, NamesHolder
  <2> QED
    BY <2>1, <2>2 DEF IInv
<1>2. CASE unlock(p)
  <2> USE <1>2 DEF unlock, Goto
  <2>1. TypeOK' /\ Descriptors'
    BY DEF IInv, TypeOK, Descriptors, Location
  <2>2. ~raced => OpenAtPath' /\ SingleHolder' /\ NamesHolder'
    BY DEF IInv, TypeOK, OpenAtPath, SingleHolder, NamesHolder
  <2> QED
    BY <2>1, <2>2 DEF IInv
<1>3. CASE close(p)
  <2> USE <1>3 DEF close, Goto
  <2>1. TypeOK' /\ Descriptors'
    BY DEF IInv, TypeOK, Descriptors, Location
  <2>2. ~raced => OpenAtPath' /\ SingleHolder' /\ NamesHolder'
    BY DEF IInv, TypeOK, OpenAtPath, SingleHolder, NamesHolder
  <2> QED
    BY <2>1, <2>2 DEF IInv
<1> QED
  BY <1>1, <1>2, <1>3

\* An unlink that is not a race leaves no process with an open lock file.
LEMMA UnlinkStep ==
  ASSUME IInv, NEW p \in Process, unlink(p)
  PROVE  IInv'
<1> USE DEF unlink, Goto
<1>1. TypeOK'
  BY DEF IInv, TypeOK, Location
<1>2. Descriptors'
  BY DEF IInv, TypeOK, Descriptors
<1>3. ASSUME ~raced' PROVE OpenAtPath' /\ SingleHolder' /\ NamesHolder'
  <2>1. \A q \in Process : file_descriptor[q] = 0
    BY <1>3
  <2>2. \A q \in Process : ~holds[q]
    BY <2>1, HolderHasFile
  <2> QED
    BY <2>1, <2>2 DEF OpenAtPath, SingleHolder, NamesHolder
<1> QED
  BY <1>1, <1>2, <1>3 DEF IInv

\* Steps that move neither the lock file nor any lock.
LEMMA OtherStep ==
  ASSUME IInv,
         \/ \E p \in Process :
              Start(p) \/ open_fails(p) \/ SpawnChild(p) \/ ChildExits(p)
         \/ \E i \in File : OrphanExits(i)
         \/ UNCHANGED vars
  PROVE  IInv'
<1>1. ASSUME NEW p \in Process, Start(p) \/ open_fails(p) PROVE IInv'
  <2>1. /\ pc[p] \in {"down", "main"}
        /\ pc' \in {[pc EXCEPT ![p] = "main"], [pc EXCEPT ![p] = "running"]}
        /\ UNCHANGED <<file_descriptor, holds, child, path, created, pid, raced, orphaned>>
    BY <1>1 DEF Start, daemonize, foreground, open_fails, Goto
  <2>2. file_descriptor[p] = 0 /\ ~holds[p]
    BY <2>1 DEF IInv, Descriptors
  <2>3. TypeOK' /\ Descriptors'
    BY <2>1, <2>2 DEF IInv, TypeOK, Descriptors, Location
  <2>4. ~raced => OpenAtPath' /\ SingleHolder' /\ NamesHolder'
    BY <2>1, <2>2 DEF IInv, TypeOK, OpenAtPath, SingleHolder, NamesHolder
  <2> QED
    BY <2>1, <2>3, <2>4 DEF IInv
<1>2. ASSUME NEW p \in Process, SpawnChild(p) \/ ChildExits(p) PROVE IInv'
  <2>1. /\ UNCHANGED <<pc, file_descriptor, holds, path, created, pid, raced, orphaned>>
        /\ child' \in [Process -> BOOLEAN]
    BY <1>2 DEF SpawnChild, ChildExits, IInv, TypeOK
  <2> QED
    BY <2>1 DEF IInv, TypeOK, Descriptors, OpenAtPath, SingleHolder, NamesHolder
<1>3. ASSUME NEW i \in File, OrphanExits(i) PROVE IInv'
  <2>1. UNCHANGED <<pc, file_descriptor, holds, child, path, created, pid, raced>>
        /\ orphaned' = orphaned \ {i}
    BY <1>3 DEF OrphanExits
  <2> QED
    BY <2>1 DEF IInv, TypeOK, Descriptors, OpenAtPath, SingleHolder, NamesHolder
<1>4. CASE UNCHANGED vars
  BY <1>4 DEF vars, IInv, TypeOK, Descriptors, OpenAtPath, SingleHolder, NamesHolder
<1> QED
  BY <1>1, <1>2, <1>3, <1>4

\* The inductive invariant: while no unlink has raced, at most one file is
\* open, it is the one at the path, and one process at most holds its lock.
THEOREM LockInvariant == Spec => []IInv
<1>1. IInv /\ [Next]_vars => IInv'
  BY OpenStep, FlockStep, WriteStep, CrashStep, ReleaseStep, UnlinkStep, OtherStep
  DEF Next, Acquire, Release
<1> QED
  BY InitIInv, <1>1, PTL DEF Spec

\* The lock of the daemon is exclusive unless an unlink races with an open.
THEOREM LockIsExclusive == Spec => []ExclusiveUnlessRaced
<1>1. IInv => ExclusiveUnlessRaced
  BY DEF IInv, ExclusiveUnlessRaced
<1> QED
  BY LockInvariant, <1>1, PTL

\* The lock file names the daemon that holds it, under the same condition.
THEOREM PidFileIsRight == Spec => []PidFileNamesHolder
<1>1. IInv => PidFileNamesHolder
  BY DEF IInv, TypeOK, Descriptors, OpenAtPath, NamesHolder, PidFileNamesHolder
<1> QED
  BY LockInvariant, <1>1, PTL
=============================================================================
