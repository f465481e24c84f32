------------------------------- MODULE PidLock -------------------------------
(***************************************************************************)
(* The lock file of the daemon (class PidLock and its use in main): several *)
(* processes open, lock, unlock and unlink one path, each system call a    *)
(* step of its own, and any of them may crash.                             *)
(*                                                                         *)
(* A file is a number; 0 stands for no file.  An flock belongs to the open *)
(* file, which a background child of a shell command inherits (the file is *)
(* opened without O_CLOEXEC): such a child keeps the lock of a daemon that *)
(* crashes.                                                                *)
(***************************************************************************)
EXTENDS Naturals

CONSTANTS
  Process,
  NoProcess,   \* what an empty lock file names
  MaxFile      \* bound: lock files created

ASSUME PidLockAssumption == NoProcess \notin Process /\ MaxFile \in Nat

VARIABLES
  pc,               \* per process, see Location
  file_descriptor,  \* per process: the file it has open, or 0
  holds,            \* per process: its open file carries the flock
  child,            \* per process: a background child shares its open file
  path,             \* the file that lock_path names, or 0
  created,          \* files created so far
  pid,              \* per file: the process that it names
  raced,            \* history: a file was unlinked while a process had it open
  orphaned          \* files whose flock a child of a crashed process keeps

vars == <<pc, file_descriptor, holds, child, path, created, pid, raced,
          orphaned>>

File == 1..MaxFile
Location == {"down", "main", "opened", "locked", "running", "release",
             "unlocked", "closed"}

Init ==
  /\ pc = [p \in Process |-> "down"]
  /\ file_descriptor = [p \in Process |-> 0]
  /\ holds = [p \in Process |-> FALSE]
  /\ child = [p \in Process |-> FALSE]
  /\ path = 0 /\ created = 0 /\ raced = FALSE
  /\ pid = [i \in File |-> NoProcess]
  /\ orphaned = {}

Goto(p, from, to) == pc[p] = from /\ pc' = [pc EXCEPT ![p] = to]

\* p is the process that is left of daemonize(); whatever of it failed, main
\* goes on.
daemonize(p) ==
  /\ Goto(p, "down", "main")
  /\ UNCHANGED <<file_descriptor, holds, child, path, created, pid, raced, orphaned>>

\* With the option -d neither daemonize() nor acquire() is called.
foreground(p) ==
  /\ Goto(p, "down", "running")
  /\ UNCHANGED <<file_descriptor, holds, child, path, created, pid, raced, orphaned>>

Start(p) == daemonize(p) \/ foreground(p)

-----------------------------------------------------------------------------
(* acquire()                                                               *)

\* open() fails, and main goes on.
open_fails(p) ==
  /\ Goto(p, "main", "running")
  /\ UNCHANGED <<file_descriptor, holds, child, path, created, pid, raced, orphaned>>

\* open(O_CREAT): the file that is there, or a new one.
open_lock_file(p) ==
  /\ Goto(p, "main", "opened")
  /\ \/ /\ path # 0
        /\ UNCHANGED <<path, created>>
     \/ /\ path = 0 /\ created < MaxFile
        /\ created' = created + 1
        /\ path' = created'
  /\ file_descriptor' = [file_descriptor EXCEPT ![p] = path']
  /\ UNCHANGED <<holds, child, pid, raced, orphaned>>

\* MUTANT: the lock is taken with LOCK_SH.
Lockable_shared(i) == i # 0

\* flock(LOCK_EX | LOCK_NB) succeeds.
Lockable(i) ==
  /\ i \notin orphaned
  /\ \A q \in Process : file_descriptor[q] = i => ~holds[q]

\* MUTANT: the process writes its number before it knows whether it may.
flock_after_write(p) ==
  /\ pc[p] = "opened"
  /\ pid' = [pid EXCEPT ![file_descriptor[p]] = p]
  /\ IF Lockable(file_descriptor[p])
       THEN /\ pc' = [pc EXCEPT ![p] = "locked"]
            /\ holds' = [holds EXCEPT ![p] = TRUE]
            /\ UNCHANGED file_descriptor
       ELSE /\ pc' = [pc EXCEPT ![p] = "running"]
            /\ file_descriptor' = [file_descriptor EXCEPT ![p] = 0]
            /\ UNCHANGED holds
  /\ UNCHANGED <<child, path, created, raced, orphaned>>

\* A process that is refused closes the file; main ignores the result of
\* acquire() and goes on without the lock.
flock(p) ==
  \/ /\ Goto(p, "opened", "locked")
     /\ Lockable(file_descriptor[p])
     /\ holds' = [holds EXCEPT ![p] = TRUE]
     /\ UNCHANGED <<file_descriptor, child, path, created, pid, raced, orphaned>>
  \/ /\ Goto(p, "opened", "running")
     /\ ~Lockable(file_descriptor[p])
     /\ file_descriptor' = [file_descriptor EXCEPT ![p] = 0]
     /\ UNCHANGED <<holds, child, path, created, pid, raced, orphaned>>

write_pid_to_file(p) ==
  /\ Goto(p, "locked", "running")
  /\ pid' = [pid EXCEPT ![file_descriptor[p]] = p]
  /\ UNCHANGED <<file_descriptor, holds, child, path, created, raced, orphaned>>

-----------------------------------------------------------------------------
(* The daemon runs, starts background children, and may crash at any time. *)

SpawnChild(p) ==
  /\ pc[p] = "running"
  /\ child' = [child EXCEPT ![p] = TRUE]
  /\ UNCHANGED <<pc, file_descriptor, holds, path, created, pid, raced, orphaned>>

ChildExits(p) ==
  /\ child[p]
  /\ child' = [child EXCEPT ![p] = FALSE]
  /\ UNCHANGED <<pc, file_descriptor, holds, path, created, pid, raced, orphaned>>

\* The kernel closes the file of a dead process; a child keeps it open.
Crash(p) ==
  /\ pc[p] # "down"
  /\ pc' = [pc EXCEPT ![p] = "down"]
  /\ file_descriptor' = [file_descriptor EXCEPT ![p] = 0]
  /\ holds' = [holds EXCEPT ![p] = FALSE]
  /\ child' = [child EXCEPT ![p] = FALSE]
  /\ orphaned' = IF holds[p] /\ child[p]
                   THEN orphaned \cup {file_descriptor[p]}
                   ELSE orphaned
  /\ UNCHANGED <<path, created, pid, raced>>

OrphanExits(i) ==
  /\ i \in orphaned
  /\ orphaned' = orphaned \ {i}
  /\ UNCHANGED <<pc, file_descriptor, holds, child, path, created, pid, raced>>

-----------------------------------------------------------------------------
(* release(), from the destructor when main returns.                       *)

\* A process without the lock has nothing to release.
release(p) ==
  /\ pc[p] = "running"
  /\ pc' = [pc EXCEPT ![p] = IF file_descriptor[p] = 0 THEN "down" ELSE "release"]
  /\ UNCHANGED <<file_descriptor, holds, child, path, created, pid, raced, orphaned>>

unlock(p) ==
  /\ Goto(p, "release", "unlocked")
  /\ holds' = [holds EXCEPT ![p] = FALSE]
  /\ UNCHANGED <<file_descriptor, child, path, created, pid, raced, orphaned>>

close(p) ==
  /\ Goto(p, "unlocked", "closed")
  /\ file_descriptor' = [file_descriptor EXCEPT ![p] = 0]
  /\ UNCHANGED <<holds, child, path, created, pid, raced, orphaned>>

\* unlink() removes whatever file the path names by now.
unlink(p) ==
  /\ Goto(p, "closed", "down")
  /\ path' = 0
  /\ raced' = (raced \/ \E q \in Process : file_descriptor[q] # 0)
  /\ UNCHANGED <<file_descriptor, holds, child, created, pid, orphaned>>

-----------------------------------------------------------------------------
Acquire(p) == open_fails(p) \/ open_lock_file(p) \/ flock(p) \/ write_pid_to_file(p)
Release(p) == release(p) \/ unlock(p) \/ close(p) \/ unlink(p)

Next ==
  \/ \E p \in Process :
       \/ Start(p) \/ Acquire(p) \/ Release(p)
       \/ SpawnChild(p) \/ ChildExits(p) \/ Crash(p)
  \/ \E i \in File : OrphanExits(i)

Spec == Init /\ [][Next]_vars

-----------------------------------------------------------------------------
TypeOK ==
  /\ pc \in [Process -> Location]
  /\ file_descriptor \in [Process -> File \cup {0}]
  /\ holds \in [Process -> BOOLEAN]
  /\ child \in [Process -> BOOLEAN]
  /\ path \in File \cup {0} /\ created \in 0..MaxFile /\ raced \in BOOLEAN
  /\ pid \in [File -> Process \cup {NoProcess}]
  /\ orphaned \in SUBSET File

\* PidLock "prevents concurrent daemon instances": at most one process holds
\* the lock.
SingleHolder ==
  \A p, q \in Process : holds[p] /\ holds[q] => p = q

\* One window breaks the lock, see SingleHolder.  As long as no terminating
\* process unlinks a file that another one has open, the lock is exclusive,
\* whatever crashes, orphaned children and refused contenders there were.
ExclusiveUnlessRaced == ~raced => SingleHolder

\* Under the same condition the path leads to the lock and to the number of
\* its holder, so that kill $(cat launchpad.pid) reaches the daemon.
PidFileNamesHolder ==
  ~raced => \A p \in Process : pc[p] = "running" /\ holds[p] =>
    path = file_descriptor[p] /\ path # 0 /\ pid[path] = p
=============================================================================
