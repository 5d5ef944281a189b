------------------------------ MODULE MCFutex ------------------------------
(* Instances of Futex for model checking. *)
EXTENDS Futex, TLC

CONSTANTS t1, t2, t3, a1, a2

\* Thread t1 was created with CLONE_CHILD_CLEARTID at a1.
MCCtid == [t \in Threads |-> IF t = t1 THEN a1 ELSE NoAddr]

\* t1 waits with a timeout and exits, t2 waits, t3 wakes and moves those that
\* wait and is one that comes to the table between their steps.
MCCommands == t1 :> {"timed_wait", "exit"} @@ t2 :> {"wait"} @@ t3 :> {"wake", "requeue"}
=============================================================================
