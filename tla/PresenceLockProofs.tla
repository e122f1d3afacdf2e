------------------------- MODULE PresenceLockProofs -------------------------
(* For any number of processes and lock files: on Windows the processes that *)
(* have the named mutex share an atomic lock, whatever the file lock answers, *)
(* and one without it gets in beside another only if the byte lock itself     *)
(* admits the two.  On POSIX neither is provable: release() may unlink a file *)
(* another process has just opened.                                           *)
EXTENDS PresenceLock, TLAPS

USE PresenceLockAssumption

LEMMA TypeStep == TypeOK /\ [Next]_vars => TypeOK'
<1> SUFFICES ASSUME TypeOK, [Next]_vars PROVE TypeOK'
  OBVIOUS
<1> USE DEF TypeOK, Steps, Goto
<1>1. ASSUME NEW p \in Proc, Acquire(p) PROVE TypeOK'
  <2>1. CASE Begin(p)           BY <2>1 DEF Begin
  <2>2. CASE CreateMutex(p)     BY <2>2 DEF CreateMutex
  <2>3. CASE MutexRefused(p)    BY <2>3 DEF MutexRefused
  <2>4. CASE MutexRaises(p)     BY <2>4 DEF MutexRaises
  <2>5. CASE CloseLosing(p)     BY <2>5 DEF CloseLosing
  <2>6. CASE OpenFile(p)        BY <2>6 DEF OpenFile
  <2>7. CASE LockFile(p)        BY <2>7 DEF LockFile
  <2>8. CASE DoubleAdmit(p)     BY <2>8 DEF DoubleAdmit
  <2>9. CASE LockBusy(p)        BY <2>9 DEF LockBusy
  <2>10. CASE WritePid(p)       BY <2>10 DEF WritePid
  <2>11. QED BY <1>1, <2>1, <2>2, <2>3, <2>4, <2>5, <2>6, <2>7, <2>8, <2>9,
             <2>10 DEF Acquire
<1>2. ASSUME NEW p \in Proc, Release(p) PROVE TypeOK'
  <2>1. CASE BeginRelease(p)    BY <2>1 DEF BeginRelease
  <2>2. CASE Unlock(p)          BY <2>2 DEF Unlock
  <2>3. CASE Unlink(p)          BY <2>3 DEF Unlink
  <2>4. CASE UnlinkPid(p)       BY <2>4 DEF UnlinkPid
  <2>5. CASE CloseMutex(p)      BY <2>5 DEF CloseMutex
  <2>6. QED BY <1>2, <2>1, <2>2, <2>3, <2>4, <2>5 DEF Release
<1>3. ASSUME NEW p \in Proc, Crash(p) PROVE TypeOK'
  BY <1>3 DEF Crash
<1>4. CASE UNCHANGED vars
  BY <1>4 DEF vars
<1>5. QED BY <1>1, <1>2, <1>3, <1>4 DEF Next

(* Types hold on every platform. *)
THEOREM TypeCorrect == Spec => []TypeOK
<1>1. Init => TypeOK
  BY DEF Init, TypeOK, Steps
<1>2. QED BY <1>1, TypeStep, PTL DEF Spec

-----------------------------------------------------------------------------
(* The byte lock *)

\* A file is open exactly between open() and close().
OpenSteps == {"lock", "write", "held", "unlock"}
FdMatchesStep == \A p \in Proc : fd[p] # None <=> pc[p] \in OpenSteps

\* On Windows an open file keeps its name, because nobody can delete it.
OpenIsNamed == \A p \in Proc : fd[p] # None => fd[p] = path

\* From the lock to the unlock the file's lock counts this process among those
\* it admitted; of two it admitted, one came in beside the other.
Locked(p) == pc[p] \in {"write", "held", "unlock"}
LockIsMine ==
  /\ \A p \in Proc : Locked(p) => p \in flock[fd[p]]
  /\ \A p, q \in Proc : Locked(p) /\ Locked(q) /\ p # q
       => p \in doubled \/ q \in doubled

FileInv == TypeOK /\ FdMatchesStep /\ OpenIsNamed /\ LockIsMine

LEMMA FileInvInit == Init => FileInv
BY DEF Init, FileInv, TypeOK, Steps, FdMatchesStep, OpenIsNamed, LockIsMine,
       OpenSteps, Locked

LEMMA FileInvStep == ASSUME Nt, FileInv, [Next]_vars PROVE FileInv'
<1>. TypeOK'
  BY TypeStep DEF FileInv
<1> USE DEF FileInv, TypeOK, Steps, Goto, FdMatchesStep, OpenIsNamed,
            LockIsMine, Locked, OpenSteps
<1>1. ASSUME NEW p \in Proc, Acquire(p) PROVE FileInv'
  <2>1. CASE Begin(p)           BY <2>1 DEF Begin
  <2>2. CASE CreateMutex(p)     BY <2>2 DEF CreateMutex
  <2>3. CASE MutexRefused(p)    BY <2>3 DEF MutexRefused
  <2>4. CASE MutexRaises(p)     BY <2>4 DEF MutexRaises
  <2>5. CASE CloseLosing(p)     BY <2>5 DEF CloseLosing
  <2>6. CASE OpenFile(p)
    <3>1. PICK i \in Inode : /\ IF path = None THEN FreeInode(i) ELSE i = path
                             /\ path' = i
                             /\ fd' = [fd EXCEPT ![p] = i]
      BY <2>6 DEF OpenFile
    <3>2. FdMatchesStep'
      BY <2>6, <3>1 DEF OpenFile
    <3>3. OpenIsNamed'
      <4>1. CASE path = None
        BY <4>1, <3>1
      <4>2. CASE path # None
        BY <4>2, <3>1
      <4>3. QED BY <4>1, <4>2
    <3>4. LockIsMine'
      BY <2>6, <3>1 DEF OpenFile
    <3>5. QED BY <3>2, <3>3, <3>4
  <2>7. CASE LockFile(p)        BY <2>7 DEF LockFile
  <2>8. CASE DoubleAdmit(p)     BY <2>8 DEF DoubleAdmit
  <2>9. CASE LockBusy(p)        BY <2>9 DEF LockBusy
  <2>10. CASE WritePid(p)       BY <2>10 DEF WritePid
  <2>11. QED BY <1>1, <2>1, <2>2, <2>3, <2>4, <2>5, <2>6, <2>7, <2>8, <2>9,
             <2>10 DEF Acquire
<1>2. ASSUME NEW p \in Proc, Release(p) PROVE FileInv'
  <2>1. CASE BeginRelease(p)    BY <2>1 DEF BeginRelease
  <2>2. CASE Unlock(p)          BY <2>2 DEF Unlock
  <2>3. CASE Unlink(p)          BY <2>3 DEF Unlink
  <2>4. CASE UnlinkPid(p)       BY <2>4 DEF UnlinkPid
  <2>5. CASE CloseMutex(p)      BY <2>5 DEF CloseMutex
  <2>6. QED BY <1>2, <2>1, <2>2, <2>3, <2>4, <2>5 DEF Release
<1>3. ASSUME NEW p \in Proc, Crash(p) PROVE FileInv'
  BY <1>3 DEF Crash
<1>4. CASE UNCHANGED vars
  BY <1>4 DEF vars
<1>5. QED BY <1>1, <1>2, <1>3, <1>4 DEF Next

-----------------------------------------------------------------------------
(* The named mutex *)

\* The steps of a call that has got past the mutex.
Inside(p) == pc[p] \in {"open", "lock", "write", "held", "unlock", "unlink",
                        "unlink_pid", "close"}

\* Of the processes inside at most one has a handle on the mutex, and a process
\* outside has one only while it is about to close it.
OneHandle ==
  /\ \A p \in handle : Inside(p) \/ pc[p] = "losing"
  /\ \A p, q \in handle : Inside(p) /\ Inside(q) => p = q

MutexInv == TypeOK /\ OneHandle

LEMMA MutexInvInit == Init => MutexInv
BY DEF Init, MutexInv, TypeOK, Steps, OneHandle

LEMMA MutexInvStep == ASSUME Nt, MutexInv, [Next]_vars PROVE MutexInv'
<1>. TypeOK'
  BY TypeStep DEF MutexInv
<1> USE DEF MutexInv, TypeOK, Steps, Goto, OneHandle, Inside
<1>1. ASSUME NEW p \in Proc, Acquire(p) PROVE MutexInv'
  <2>1. CASE Begin(p)           BY <2>1 DEF Begin
  <2>2. CASE CreateMutex(p)     BY <2>2 DEF CreateMutex
  <2>3. CASE MutexRefused(p)    BY <2>3 DEF MutexRefused
  <2>4. CASE MutexRaises(p)     BY <2>4 DEF MutexRaises
  <2>5. CASE CloseLosing(p)     BY <2>5 DEF CloseLosing
  <2>6. CASE OpenFile(p)        BY <2>6 DEF OpenFile
  <2>7. CASE LockFile(p)        BY <2>7 DEF LockFile
  <2>8. CASE DoubleAdmit(p)     BY <2>8 DEF DoubleAdmit
  <2>9. CASE LockBusy(p)        BY <2>9 DEF LockBusy
  <2>10. CASE WritePid(p)       BY <2>10 DEF WritePid
  <2>11. QED BY <1>1, <2>1, <2>2, <2>3, <2>4, <2>5, <2>6, <2>7, <2>8, <2>9,
             <2>10 DEF Acquire
<1>2. ASSUME NEW p \in Proc, Release(p) PROVE MutexInv'
  <2>1. CASE BeginRelease(p)    BY <2>1 DEF BeginRelease
  <2>2. CASE Unlock(p)          BY <2>2 DEF Unlock
  <2>3. CASE Unlink(p)          BY <2>3 DEF Unlink
  <2>4. CASE UnlinkPid(p)       BY <2>4 DEF UnlinkPid
  <2>5. CASE CloseMutex(p)      BY <2>5 DEF CloseMutex
  <2>6. QED BY <1>2, <2>1, <2>2, <2>3, <2>4, <2>5 DEF Release
<1>3. ASSUME NEW p \in Proc, Crash(p) PROVE MutexInv'
  BY <1>3 DEF Crash
<1>4. CASE UNCHANGED vars
  BY <1>4 DEF vars
<1>5. QED BY <1>1, <1>2, <1>3, <1>4 DEF Next

(* On Windows two processes both hold the lock only if the byte lock admitted *)
(* one of them beside the other and not both have the mutex.  Nothing else    *)
(* does it: release() cannot unlink a file that is open, and no crash or      *)
(* second launch loses the lock of a process that runs.                       *)
THEOREM WindowsMutualExclusion == ASSUME Nt PROVE Spec => []MutualExclusion
<1>1. FileInv /\ MutexInv => MutualExclusion
  BY DEF FileInv, MutexInv, TypeOK, OneHandle, Inside, LockIsMine, Locked,
         MutualExclusion, Held
<1>2. FileInv /\ [Next]_vars => FileInv'
  BY FileInvStep
<1>3. MutexInv /\ [Next]_vars => MutexInv'
  BY MutexInvStep
<1>4. QED BY <1>1, <1>2, <1>3, FileInvInit, MutexInvInit, PTL DEF Spec

-----------------------------------------------------------------------------
(* The abstract lock *)

LEMMA NoOwner == ASSUME \A p \in Proc : ~Owning(p) PROVE LockOwner = None
BY DEF LockOwner

LEMMA OneOwner ==
  ASSUME MutexInv, NEW p \in Proc, NEW q \in Proc, Owning(p), Owning(q)
  PROVE  p = q
BY DEF MutexInv, OneHandle, Inside, Owning

LEMMA TheOwner ==
  ASSUME MutexInv, NEW p \in Proc, Owning(p) PROVE LockOwner = p
BY OneOwner DEF LockOwner

(* Nobody owns the lock when a process with the mutex gets to the file.       *)
LEMMA AtTheFileNoOwner ==
  ASSUME MutexInv, NEW p \in Proc, p \in handle, pc[p] = "lock"
  PROVE  \A q \in Proc : ~Owning(q)
BY DEF MutexInv, OneHandle, Inside, Owning

(* Among the processes that have the mutex the Windows lock is an atomic      *)
(* lock, double admission and fallbacks of others included: every step of     *)
(* every call takes it while it is free, gives it up, or changes no owner.    *)
THEOREM WindowsImplementsAtomic == ASSUME Nt PROVE Spec => AtomicSpec
<1>1. Init => Atomic!Init
  BY NoOwner DEF Init, Atomic!Init, Owning
<1>2. ASSUME MutexInv, [Next]_vars PROVE [Atomic!Next]_LockOwner
  <2>1. MutexInv'
    BY <1>2, MutexInvStep
  <2>2. ASSUME \A p \in Proc : Owning(p)' <=> Owning(p)
        PROVE  LockOwner' = LockOwner
    BY <2>2 DEF LockOwner
  <2>3. ASSUME NEW p \in Proc, Owning(p), ~Owning(p)',
               \A q \in Proc \ {p} : Owning(q)' <=> Owning(q)
        PROVE  Atomic!Next
    <3>1. \A q \in Proc : ~Owning(q)'
      BY <2>3, <1>2, OneOwner
    <3>2. LockOwner = p /\ LockOwner' = None
      BY <2>3, <3>1, <1>2, TheOwner DEF LockOwner
    <3>3. QED BY <3>2 DEF Atomic!Next, Atomic!Release
  <2>4. ASSUME NEW p \in Proc, Acquire(p) PROVE [Atomic!Next]_LockOwner
    <3>1. CASE LockFile(p) \/ DoubleAdmit(p)
      <4>1. CASE p \in handle
        <5>1. LockOwner = None
          BY <3>1, <4>1, <1>2, AtTheFileNoOwner, NoOwner DEF LockFile, DoubleAdmit
        <5>2. Owning(p)'
          BY <3>1, <4>1, <1>2 DEF LockFile, DoubleAdmit, Owning, Goto, MutexInv,
             TypeOK
        <5>3. \A q \in Proc : Owning(q)' => q = p
          BY <5>2, <2>1 DEF MutexInv, OneHandle, Inside, Owning
        <5>4. LockOwner' = p
          BY <5>2, <5>3 DEF LockOwner
        <5>5. QED BY <5>1, <5>4 DEF Atomic!Next, Atomic!Acquire
      <4>2. CASE p \notin handle
        <5>1. \A q \in Proc : Owning(q)' <=> Owning(q)
          BY <3>1, <4>2, <1>2 DEF LockFile, DoubleAdmit, Owning, Goto, MutexInv,
             TypeOK
        <5>2. QED BY <5>1, <2>2
      <4>3. QED BY <4>1, <4>2
    <3>2. CASE \/ Begin(p) \/ CreateMutex(p) \/ MutexRefused(p)
               \/ MutexRaises(p) \/ CloseLosing(p) \/ OpenFile(p)
               \/ LockBusy(p) \/ WritePid(p)
      <4>1. \A q \in Proc : Owning(q)' <=> Owning(q)
        BY <3>2, <1>2 DEF Begin, CreateMutex, MutexRefused, MutexRaises,
           CloseLosing, OpenFile, LockBusy, WritePid, Owning, Goto, MutexInv,
           TypeOK
      <4>2. QED BY <4>1, <2>2
    <3>3. QED BY <2>4, <3>1, <3>2 DEF Acquire
  <2>5. ASSUME NEW p \in Proc, Release(p) PROVE [Atomic!Next]_LockOwner
    <3>1. CASE BeginRelease(p) \/ Unlink(p) \/ UnlinkPid(p) \/ CloseMutex(p)
      <4>1. \A q \in Proc : Owning(q)' <=> Owning(q)
        BY <3>1, <1>2 DEF BeginRelease, Unlink, UnlinkPid, CloseMutex, Owning,
           Goto, MutexInv, TypeOK
      <4>2. QED BY <4>1, <2>2
    <3>2. CASE Unlock(p)
      <4>1. ~Owning(p)' /\ \A q \in Proc \ {p} : Owning(q)' <=> Owning(q)
        BY <3>2, <1>2 DEF Unlock, Owning, Goto, MutexInv, TypeOK
      <4>2. CASE Owning(p)
        BY <4>1, <4>2, <2>3
      <4>3. CASE ~Owning(p)
        BY <4>1, <4>3, <2>2
      <4>4. QED BY <4>2, <4>3
    <3>3. QED BY <2>5, <3>1, <3>2 DEF Release
  <2>6. ASSUME NEW p \in Proc, Crash(p) PROVE [Atomic!Next]_LockOwner
    <3>1. ~Owning(p)' /\ \A q \in Proc \ {p} : Owning(q)' <=> Owning(q)
      BY <2>6, <1>2 DEF Crash, Owning, Goto, MutexInv, TypeOK
    <3>2. CASE Owning(p)
      BY <3>1, <3>2, <2>3
    <3>3. CASE ~Owning(p)
      BY <3>1, <3>3, <2>2
    <3>4. QED BY <3>2, <3>3
  <2>7. CASE UNCHANGED vars
    BY <2>7, <2>2 DEF vars, Owning
  <2>8. QED BY <1>2, <2>4, <2>5, <2>6, <2>7 DEF Next
<1>3. MutexInv /\ [Next]_vars => MutexInv'
  BY MutexInvStep
<1>4. QED BY <1>1, <1>2, <1>3, MutexInvInit, PTL
          DEF Spec, AtomicSpec, Atomic!Spec

-----------------------------------------------------------------------------
(* The sidecar *)

(* The sidecar of a holder that has the mutex is changed under it only by a   *)
(* process that runs without one: the pid a second launch reads is never      *)
(* pulled away by a predecessor that had the mutex and is still tidying up.   *)
THEOREM WindowsSidecar == ASSUME Nt PROVE Spec => SidecarSpared
<1>1. MutexInv /\ [Next]_vars => MutexInv'
  BY MutexInvStep
<1> DEFINE Spared == \A p \in Proc :
             Held(p) /\ Held(p)' /\ p \in handle /\ sidecar' # sidecar
               => \E q \in Proc : pc[q] \in {"write", "unlink_pid"} /\ q \notin handle
<1>2. MutexInv /\ [Next]_vars => [Spared]_vars
  <2> SUFFICES ASSUME MutexInv, Next,
                      NEW p \in Proc, Held(p), Held(p)', p \in handle,
                      sidecar' # sidecar
               PROVE  \E q \in Proc : pc[q] \in {"write", "unlink_pid"} /\ q \notin handle
    OBVIOUS
  <2>1. PICK r \in Proc : WritePid(r) \/ UnlinkPid(r)
    BY DEF Next, Acquire, Release, Begin, CreateMutex, MutexRefused,
       MutexRaises, CloseLosing, OpenFile, LockFile, DoubleAdmit, LockBusy,
       BeginRelease, Unlock, Unlink, CloseMutex, Crash
  <2>2. pc[r] \in {"write", "unlink_pid"} /\ r # p
    BY <2>1 DEF WritePid, UnlinkPid, Held
  <2>3. r \notin handle
    BY <2>2 DEF MutexInv, OneHandle, Inside, Held
  <2>4. QED BY <2>2, <2>3
<1>3. QED BY <1>1, <1>2, MutexInvInit, PTL DEF Spec, SidecarSpared
=============================================================================
