---------------------------- MODULE LockService ----------------------------
(***************************************************************************)
(* What the credential lock promises: at most one client holds it, and a   *)
(* lock whose holder died stays taken, whatever its age, until an operator *)
(* retires it.  FileLock implements this with an exclusively created file; *)
(* Credentials is built on the promise alone.                              *)
(***************************************************************************)
CONSTANTS Clients, Free, Abandoned   \* three different kinds of value

VARIABLE holder

Init == holder = Free

Acquire(c) == holder = Free /\ holder' = c

Release(c) == holder = c /\ holder' = Free

(* The holder crashes, or its lock file cannot be removed. *)
Abandon(c) == holder = c /\ holder' = Abandoned

(* An operator removes the lock of a dead holder. *)
Retire == holder = Abandoned /\ holder' = Free

Next == \/ \E c \in Clients : Acquire(c) \/ Release(c) \/ Abandon(c)
        \/ Retire

Spec == Init /\ [][Next]_holder
=============================================================================
