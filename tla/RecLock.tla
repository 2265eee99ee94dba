------------------------------ MODULE RecLock ------------------------------
(***************************************************************************)
(* What a recursive lock promises its callers, whatever the way it blocks  *)
(* and wakes them: at any time one thread at most holds it, only the       *)
(* holder enters again, and the lock becomes free when the holder has left *)
(* as often as it entered.  RecMutex implements it; the notification model *)
(* relies on it for Coin's two internal recursive locks.                   *)
(***************************************************************************)
EXTENDS Naturals

CONSTANTS Threads, NoThread

VARIABLES holder, depth

Init == holder = NoThread /\ depth = 0

Enter(t) ==
    /\ holder \in {NoThread, t}
    /\ holder' = t
    /\ depth' = depth + 1

Leave(t) ==
    /\ holder = t
    /\ depth' = depth - 1
    /\ holder' = IF depth = 1 THEN NoThread ELSE t

Next == \E t \in Threads : Enter(t) \/ Leave(t)

Spec == Init /\ [][Next]_<<holder, depth>>
=============================================================================
