------------------------------ MODULE OwnedLock ------------------------------
(***************************************************************************)
(* The three Lua scripts of infrastructure/redis/locks.py, as functions of *)
(* the value stored under the lock's key.  A key holds Free (it is absent),*)
(* the token of its owner or the marker Completed.  Redis runs a script    *)
(* atomically; its client may send it twice when the answer is lost.       *)
(***************************************************************************)
CONSTANTS Free, Completed

\* Mutant: plain SET NX, which refuses the owner's own replay.
AcquiredNX(current, token) == current = Free

\* _ACQUIRE_LOCK_SCRIPT: the replay of one's own request succeeds.
Acquired(current, token) == current \in {Free, token}
AfterAcquire(current, token) == IF current = Free THEN token ELSE current

\* Mutant: DEL without comparing the token.
AfterReleaseAny(current, token) == Free

\* _RELEASE_LOCK_SCRIPT: only the owner's lock is removed.
AfterRelease(current, token) == IF current = token THEN Free ELSE current

\* Mutant: the finished request deletes its lock and leaves no marker.
AfterCompleteFree(current, token) == IF current = token THEN Free ELSE current

\* _COMPLETE_LOCK_SCRIPT: only the owner's lock becomes the marker.
AfterComplete(current, token) == IF current = token THEN Completed ELSE current
==============================================================================
