----------------------------- MODULE AtomicLock -----------------------------
(* What a single-instance lock promises: at most one process owns it, a      *)
(* process takes it only while nobody owns it, and only its owner, or the     *)
(* death of its owner, gives it up.  PresenceLock is shown to implement it.   *)
CONSTANTS Proc, None

VARIABLE owner   \* the process that owns the lock, or None

Init == owner = None

Acquire(p) == owner = None /\ owner' = p

Release(p) == owner = p /\ owner' = None

Next == \E p \in Proc : Acquire(p) \/ Release(p)

Spec == Init /\ [][Next]_owner
=============================================================================
