---------------------------- MODULE PresenceLock ----------------------------
(* The single-instance lock of `arelis --core` and of the desktop window:     *)
(* class PresenceLock of src/arelis/presence/lock.py.                         *)
(*                                                                            *)
(* acquire() and release() are sequences of system calls, and processes       *)
(* interleave between any two of them.  On Windows (Nt) a named kernel mutex  *)
(* is opened first and closed last; on POSIX the only guard is an flock on    *)
(* the inode the path names when it is opened, and release() unlinks the      *)
(* path.  A crash makes the operating system close every handle.              *)
(*                                                                            *)
(* The file lock is not taken to be perfect: the comment in acquire() says    *)
(* that msvcrt's 1-byte lock "can occasionally double-admit", which is why    *)
(* the mutex exists (MayDoubleAdmit).                                         *)
EXTENDS FiniteSets

CONSTANTS
  Proc,    \* processes, each with one PresenceLock object on the same path
  Inode,   \* identities of lock files; enough of them that one is always free
  Nt,      \* TRUE for os.name == "nt"
  MayFallBack,  \* TRUE if the code around the mutex may raise
  MayDoubleAdmit,  \* TRUE if the Windows byte lock may admit two processes
  None     \* no process, no inode

ASSUME PresenceLockAssumption ==
  /\ None \notin Proc
  /\ None \notin Inode
  /\ Nt \in BOOLEAN
  /\ MayFallBack \in BOOLEAN
  /\ MayDoubleAdmit \in BOOLEAN

VARIABLES
  pc,        \* the step of acquire() or release() a process is about to run
  handle,    \* processes with an open handle on the named mutex
  path,      \* the inode the lock path names, or None
  fd,        \* the inode each process has open, or None
  flock,     \* the processes the lock of each inode has admitted
  sidecar,   \* the process named by the .pid neighbour, or None
  doubled    \* history: processes the byte lock admitted beside another one

vars == <<pc, handle, path, fd, flock, sidecar, doubled>>

Steps == {"idle", "mutex", "losing", "open", "lock", "write",
          "held", "unlock", "unlink", "unlink_pid", "close"}

TypeOK ==
  /\ pc \in [Proc -> Steps]
  /\ handle \subseteq Proc
  /\ path \in Inode \cup {None}
  /\ fd \in [Proc -> Inode \cup {None}]
  /\ flock \in [Inode -> SUBSET Proc]
  /\ sidecar \in Proc \cup {None}
  /\ doubled \subseteq Proc

Init ==
  /\ pc = [p \in Proc |-> "idle"]
  /\ handle = {}
  /\ path \in {None} \cup Inode          \* a crashed holder may have left a file
  /\ fd = [p \in Proc |-> None]
  /\ flock = [i \in Inode |-> {}]
  /\ sidecar \in {None} \cup Proc        \* and its sidecar
  /\ doubled = {}

Goto(p, s) == pc' = [pc EXCEPT ![p] = s]

-----------------------------------------------------------------------------
(* acquire() *)

Begin(p) ==
  /\ pc[p] = "idle"
  /\ Goto(p, IF Nt THEN "mutex" ELSE "open")
  /\ UNCHANGED <<handle, path, fd, flock, sidecar, doubled>>

\* Mutant of CreateMutex: ERROR_ALREADY_EXISTS is not looked at.
CreateMutexUnchecked(p) ==
  /\ pc[p] = "mutex"
  /\ handle' = handle \cup {p}
  /\ Goto(p, "open")
  /\ UNCHANGED <<path, fd, flock, sidecar, doubled>>

\* CreateMutexW creates the object when no handle on it is open anywhere;
\* otherwise it opens the existing one and reports ERROR_ALREADY_EXISTS.
CreateMutex(p) ==
  /\ pc[p] = "mutex"
  /\ handle' = handle \cup {p}
  /\ Goto(p, IF handle = {} THEN "open" ELSE "losing")
  /\ UNCHANGED <<path, fd, flock, sidecar, doubled>>

\* CreateMutexW returned no handle at all: acquire() answers False.
MutexRefused(p) ==
  /\ pc[p] = "mutex"
  /\ Goto(p, "idle")
  /\ UNCHANGED <<handle, path, fd, flock, sidecar, doubled>>

\* Anything raised around the mutex is swallowed: the file alone must do.
MutexRaises(p) ==
  /\ MayFallBack
  /\ pc[p] = "mutex"
  /\ Goto(p, "open")
  /\ UNCHANGED <<handle, path, fd, flock, sidecar, doubled>>

CloseLosing(p) ==
  /\ pc[p] = "losing"
  /\ handle' = handle \ {p}
  /\ Goto(p, "idle")
  /\ UNCHANGED <<path, fd, flock, sidecar, doubled>>

\* open(path, "a+") opens the file the path names, or creates one.
FreeInode(i) == i # path /\ \A q \in Proc : fd[q] # i

OpenFile(p) ==
  /\ pc[p] = "open"
  /\ \E i \in Inode :
       /\ IF path = None THEN FreeInode(i) ELSE i = path
       /\ path' = i
       /\ fd' = [fd EXCEPT ![p] = i]
  /\ Goto(p, "lock")
  /\ UNCHANGED <<handle, flock, sidecar, doubled>>

\* Mutant of LockFile: the answer of the file lock is not looked at.
LockFileUnchecked(p) ==
  /\ pc[p] = "lock"
  /\ flock' = [flock EXCEPT ![fd[p]] = @ \cup {p}]
  /\ Goto(p, "write")
  /\ UNCHANGED <<handle, path, fd, sidecar, doubled>>

\* The non-blocking lock of the open file: flock(LOCK_EX | LOCK_NB), or
\* msvcrt.locking.  A loser closes its file and then its mutex.
LockFile(p) ==
  /\ pc[p] = "lock"
  /\ flock[fd[p]] = {}
  /\ flock' = [flock EXCEPT ![fd[p]] = {p}]
  /\ Goto(p, "write")
  /\ UNCHANGED <<handle, path, fd, sidecar, doubled>>

\* msvcrt's byte lock lets a second process through.
DoubleAdmit(p) ==
  /\ Nt /\ MayDoubleAdmit
  /\ pc[p] = "lock"
  /\ flock[fd[p]] # {}
  /\ flock' = [flock EXCEPT ![fd[p]] = @ \cup {p}]
  /\ doubled' = doubled \cup {p}
  /\ Goto(p, "write")
  /\ UNCHANGED <<handle, path, fd, sidecar>>

LockBusy(p) ==
  /\ pc[p] = "lock"
  /\ flock[fd[p]] # {}
  /\ fd' = [fd EXCEPT ![p] = None]
  /\ handle' = handle \ {p}
  /\ Goto(p, "idle")
  /\ UNCHANGED <<path, flock, sidecar, doubled>>

\* The pid goes to the locked file and to the sidecar; acquire() answers True.
WritePid(p) ==
  /\ pc[p] = "write"
  /\ sidecar' = p
  /\ Goto(p, "held")
  /\ UNCHANGED <<handle, path, fd, flock, doubled>>

-----------------------------------------------------------------------------
(* release() *)

BeginRelease(p) ==
  /\ pc[p] = "held"
  /\ Goto(p, "unlock")
  /\ UNCHANGED <<handle, path, fd, flock, sidecar, doubled>>

\* LOCK_UN and close().
Unlock(p) ==
  /\ pc[p] = "unlock"
  /\ flock' = [flock EXCEPT ![fd[p]] = @ \ {p}]
  /\ fd' = [fd EXCEPT ![p] = None]
  /\ doubled' = doubled \ {p}
  /\ Goto(p, "unlink")
  /\ UNCHANGED <<handle, path, sidecar>>

\* The path is unlinked, whatever file it names by now.  Windows refuses to
\* delete a file another process has open, and the OSError is swallowed.
Unlink(p) ==
  /\ pc[p] = "unlink"
  /\ path' = IF Nt /\ path # None /\ \E q \in Proc : fd[q] = path
             THEN path ELSE None
  /\ Goto(p, "unlink_pid")
  /\ UNCHANGED <<handle, fd, flock, sidecar, doubled>>

UnlinkPid(p) ==
  /\ pc[p] = "unlink_pid"
  /\ sidecar' = None
  /\ Goto(p, IF Nt THEN "close" ELSE "idle")
  /\ UNCHANGED <<handle, path, fd, flock, doubled>>

CloseMutex(p) ==
  /\ pc[p] = "close"
  /\ handle' = handle \ {p}
  /\ Goto(p, "idle")
  /\ UNCHANGED <<path, fd, flock, sidecar, doubled>>

\* The process dies anywhere: the system closes its handles and drops its
\* locks, and nothing removes the lock file or the sidecar.
Crash(p) ==
  /\ pc[p] # "idle"
  /\ handle' = handle \ {p}
  /\ fd' = [fd EXCEPT ![p] = None]
  /\ flock' = [i \in Inode |-> flock[i] \ {p}]
  /\ doubled' = doubled \ {p}
  /\ Goto(p, "idle")
  /\ UNCHANGED <<path, sidecar>>

Acquire(p) == \/ Begin(p) \/ CreateMutex(p) \/ MutexRefused(p) \/ MutexRaises(p)
              \/ CloseLosing(p) \/ OpenFile(p) \/ LockFile(p)
              \/ DoubleAdmit(p) \/ LockBusy(p) \/ WritePid(p)

Release(p) == \/ BeginRelease(p) \/ Unlock(p) \/ Unlink(p) \/ UnlinkPid(p)
              \/ CloseMutex(p)

Next == \E p \in Proc : Acquire(p) \/ Release(p) \/ Crash(p)

Spec == Init /\ [][Next]_vars

-----------------------------------------------------------------------------
(* Properties *)

\* acquire() has answered True and release() has not begun.
Held(p) == pc[p] = "held"

\* Two processes both believe they own the lock (two cores on one port, two
\* windows) only if the byte lock itself admitted one of them beside the other,
\* and never if both have the named mutex: no crash, and no file unlinked and
\* made again between the calls of another process, gives the lock away twice.
MutualExclusion ==
  \A p, q \in Proc : Held(p) /\ Held(q) /\ p # q
     => /\ p \in doubled \/ q \in doubled
        /\ p \notin handle \/ q \notin handle

\* lock_file_pid() of a second launch decides from the sidecar whether the
\* holder is dead and the lock may be taken over.  The sidecar of a holder that
\* has the mutex is changed under it only by a process that runs without: one
\* that has the mutex has tidied up before the next one gets through acquire().
SidecarSpared ==
  [][ \A p \in Proc : Held(p) /\ Held(p)' /\ p \in handle /\ sidecar' # sidecar
        => \E q \in Proc : pc[q] \in {"write", "unlink_pid"} /\ q \notin handle ]_vars

\* From the byte lock of the file to its release, by a process that has the
\* named mutex.
Owning(p) == p \in handle /\ pc[p] \in {"write", "held", "unlock"}

LockOwner == IF \E p \in Proc : Owning(p) THEN CHOOSE p \in Proc : Owning(p)
             ELSE None

Atomic == INSTANCE AtomicLock WITH owner <- LockOwner

\* Among the processes that have the named mutex the Windows lock is an atomic
\* lock: one of them takes it only while none of them owns it, whatever the file
\* lock answers and whatever a process that fell back to the file alone does.
AtomicSpec == Atomic!Spec
=============================================================================
