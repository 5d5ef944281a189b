----------------------------- MODULE MCSignals -----------------------------
(* Instances of Signals for TLC. *)
EXTENDS Signals

CONSTANTS t1, t2, SIGUSR1, SIGCONT

TwoThreads == {t1, t2}
ThreeSignals == {SIGKILL, SIGUSR1, SIGCONT}
DefaultActions == [sig \in ThreeSignals |-> IF sig = SIGCONT THEN "continue" ELSE "terminate"]
AllMasked == {{SIGKILL, SIGUSR1}}
=============================================================================
