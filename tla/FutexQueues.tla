---------------------------- MODULE FutexQueues -----------------------------
(* What the futexes of a process promise, whatever the table of queues and  *)
(* its guards look like: every address has one queue of places, oldest      *)
(* first.  A thread takes a place at the address of its call when it goes   *)
(* to sleep, a wake takes the oldest place away and releases its thread if  *)
(* it sleeps, a requeue moves the oldest places of its first address behind *)
(* those of its second, keeping their order, and a timeout gives up the     *)
(* places of the thread at the address of its call.                         *)
EXTENDS Integers, Sequences

CONSTANTS Threads, Addrs, NoAddr

VARIABLES
  waiting,  \* waiting[a]: the threads that have the places at a, oldest first
  asleep,   \* the threads that sleep
  at, at2   \* the addresses of a thread's call, or NoAddr

queueVars == <<waiting, asleep, at, at2>>

Init ==
  /\ waiting = [a \in Addrs |-> << >>]
  /\ asleep = {}
  /\ at = [t \in Threads |-> NoAddr] /\ at2 = [t \in Threads |-> NoAddr]

\* A thread that is awake begins a call on a, with b as a second address,
\* or ends one, when both are NoAddr.
Turn(t, a, b) ==
  /\ t \notin asleep
  /\ at' = [at EXCEPT ![t] = a] /\ at2' = [at2 EXCEPT ![t] = b]
  /\ UNCHANGED <<waiting, asleep>>

Sleep(t) ==
  /\ t \notin asleep /\ at[t] \in Addrs
  /\ asleep' = asleep \cup {t}
  /\ waiting' = [waiting EXCEPT ![at[t]] = Append(@, t)]
  /\ UNCHANGED <<at, at2>>

Wake(t) ==
  /\ at[t] \in Addrs /\ waiting[at[t]] # << >>
  /\ asleep' = asleep \ {Head(waiting[at[t]])}
  /\ waiting' = [waiting EXCEPT ![at[t]] = Tail(@)]
  /\ UNCHANGED <<at, at2>>

\* The first k places of the first address go to the end of the second.
Requeue(t) ==
  /\ at[t] \in Addrs /\ at2[t] \in Addrs
  /\ \E k \in 0 .. Len(waiting[at[t]]) :
        waiting' = [[waiting EXCEPT ![at[t]] = SubSeq(@, k + 1, Len(@))]
                       EXCEPT ![at2[t]] = @ \o SubSeq(waiting[at[t]], 1, k)]
  /\ UNCHANGED <<asleep, at, at2>>

\* w is s without the places of t.
Without(s, t, w) ==
  \E f \in [1 .. Len(w) -> DOMAIN s] :
     /\ \A i, j \in DOMAIN f : i < j => f[i] < f[j]
     /\ {f[j] : j \in DOMAIN f} = {i \in DOMAIN s : s[i] # t}
     /\ w = [j \in DOMAIN f |-> s[f[j]]]

TimeOut(t) ==
  /\ t \in asleep /\ at[t] \in Addrs
  /\ asleep' = asleep \ {t}
  /\ Without(waiting[at[t]], t, waiting'[at[t]])
  /\ waiting' = [waiting EXCEPT ![at[t]] = waiting'[at[t]]]
  /\ UNCHANGED <<at, at2>>

Next ==
  \/ \E t \in Threads, a, b \in Addrs \cup {NoAddr} : Turn(t, a, b)
  \/ \E t \in Threads : Sleep(t) \/ Wake(t) \/ Requeue(t) \/ TimeOut(t)

Spec == Init /\ [][Next]_queueVars
=============================================================================
