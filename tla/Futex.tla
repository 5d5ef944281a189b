------------------------------- MODULE Futex -------------------------------
(***************************************************************************)
(* The futexes of one process: the table of wait queues with its guards    *)
(* (core/src/futex.rs), sys_futex (api/src/imp/futex.rs) and the           *)
(* clear_child_tid part of do_exit (api/src/imp/task/exit.rs).             *)
(*                                                                         *)
(* A queue is an index into queues; the table and the guards hold          *)
(* references (Arc) to queues.  A step is what happens under the lock of   *)
(* the table or of one queue, or one access to a user word.                *)
(*                                                                         *)
(* A place in a queue is taken by a thread when it goes to sleep and given *)
(* up by a notification, or by a timeout if it is still in the queue where *)
(* the thread went to sleep.                                               *)
(***************************************************************************)
EXTENDS Integers, FiniteSets, Sequences

CONSTANTS Threads, Addrs,
          Ctid,       \* Ctid[t]: the clear_child_tid of t, or NoAddr
          NoAddr,
          Words,      \* values a word may have; 0 and 1 are among them
          Counts,     \* how many threads WAKE and REQUEUE ask to wake
          Moves,      \* how many threads REQUEUE asks to move
          Commands,   \* Commands[t]: the calls thread t makes
          MaxStale    \* bound: places a thread that is awake has when it calls WAIT

ASSUME FutexAssumption ==
    /\ NoAddr \notin Addrs
    /\ Ctid \in [Threads -> Addrs \cup {NoAddr}]
    /\ {0, 1} \subseteq Words /\ Words \subseteq Nat
    /\ Counts \subseteq Nat /\ Moves \subseteq Nat /\ MaxStale \in Nat
    /\ Commands \in [Threads -> SUBSET {"wait", "timed_wait", "wake", "requeue", "exit"}]

VARIABLES mem,      \* user words
          table,    \* FutexTable: address -> queue, 0 when there is no entry
          queues,   \* the wait queues, oldest place first
          guard,    \* guard[t]: the queue of t's WaitQueueGuard wq, or 0
          guard2,   \* the same for wq2 of REQUEUE
          pc, cmd,
          addr, addr2, \* the addresses (keys) of the call
          left,     \* notifications the call may still make
          value2,   \* how many threads REQUEUE may move
          timed,    \* threads whose WAIT has a timeout
          strayed   \* threads whose place was moved before their timeout (history)
vars == << mem, table, queues, guard, guard2, pc, cmd, addr, addr2, left,
           value2, timed, strayed >>
call == << cmd, addr, addr2, left, value2, timed >>

QueueIds == 1 .. Len(queues)
Places == UNION {{q} \X DOMAIN queues[q] : q \in QueueIds}
InQueue(t, q) == \E i \in DOMAIN queues[q] : queues[q][i] = t
Goto(t, label) == pc' = [pc EXCEPT ![t] = label]

Init ==
    /\ mem \in [Addrs -> {1}]
    /\ table = [a \in Addrs |-> 0]
    /\ queues = << >>
    /\ guard = [t \in Threads |-> 0] /\ guard2 = guard
    /\ pc = [t \in Threads |-> "user"] /\ cmd = [t \in Threads |-> "none"]
    /\ addr = [t \in Threads |-> NoAddr] /\ addr2 = addr
    /\ left = [t \in Threads |-> 0] /\ value2 = left
    /\ timed = {} /\ strayed = {}
-----------------------------------------------------------------------------
(* FutexTable *)

\* get_or_insert(a) for a guard variable g of thread t.
get_or_insert(a, t, g) ==
    IF table[a] # 0
    THEN g' = [g EXCEPT ![t] = table[a]] /\ UNCHANGED << table, queues >>
    ELSE /\ queues' = Append(queues, << >>)
         /\ table' = [table EXCEPT ![a] = Len(queues) + 1]
         /\ g' = [g EXCEPT ![t] = Len(queues) + 1]

\* What Arc::strong_count(q) counts: the entry of the table and the live guards.
strong_refs(q) ==
    {<< "entry", a >> : a \in {b \in Addrs : table[b] = q}}
        \cup {<< "wq", t >> : t \in {u \in Threads : guard[u] = q}}
        \cup {<< "wq2", t >> : t \in {u \in Threads : guard2[u] = q}}

\* Mutant: the clean-up does not look at the other references.
drop_empty(q, key) ==
    table' = IF queues[q] = << >> THEN [table EXCEPT ![key] = 0] ELSE table

\* WaitQueueGuard::drop, before the field itself is dropped.
drop(q, key) ==
    table' = IF (\E r \in strong_refs(q) : strong_refs(q) = {r}) /\ queues[q] = << >>
             THEN [table EXCEPT ![key] = 0] ELSE table

(* axtask::WaitQueue, from how the kernel uses it. *)

\* The oldest place is given up; its thread goes on if it sleeps.
notify_one(q) ==
    /\ queues' = [queues EXCEPT ![q] = Tail(@)]
    /\ pc' = IF pc[Head(queues[q])] = "asleep" THEN [pc EXCEPT ![Head(queues[q])] = "drop"] ELSE pc

\* f lists the places of s that t has not, in their order.
Others(f, s, t) ==
    /\ \A i, j \in DOMAIN f : i < j => f[i] < f[j]
    /\ {f[j] : j \in DOMAIN f} = {i \in DOMAIN s : s[i] # t}

\* All places of t in the queue q are given up.
retain(q, t) ==
    \E n \in 0 .. Len(queues[q]) : \E f \in [1 .. n -> DOMAIN queues[q]] :
        /\ Others(f, queues[q], t)
        /\ queues' = [queues EXCEPT ![q] = [j \in 1 .. n |-> @[f[j]]]]

Least(a, b) == IF a < b THEN a ELSE b

requeue(q, n, q2) ==
    LET k == Least(n, Len(queues[q]))
    IN  queues' = [[queues EXCEPT ![q] = SubSeq(@, k + 1, Len(@))]
                      EXCEPT ![q2] = @ \o SubSeq(queues[q], 1, k)]
-----------------------------------------------------------------------------
(* FUTEX_WAIT *)

\* The word is compared first; a different value returns EAGAIN at once.
WaitCheck(t, a, v, hasTimeout) ==
    /\ (IF hasTimeout THEN "timed_wait" ELSE "wait") \in Commands[t]
    /\ pc[t] = "user" /\ mem[a] = v
    /\ Cardinality({p \in Places : queues[p[1]][p[2]] = t}) <= MaxStale
    /\ cmd' = [cmd EXCEPT ![t] = "wait"]
    /\ addr' = [addr EXCEPT ![t] = a]
    /\ timed' = IF hasTimeout THEN timed \cup {t} ELSE timed
    /\ Goto(t, "wait_get")
    /\ UNCHANGED << mem, table, queues, guard, guard2, addr2, left, value2, strayed >>

WaitGet(t) ==
    /\ pc[t] = "wait_get"
    /\ get_or_insert(addr[t], t, guard)
    /\ Goto(t, "wait_sleep")
    /\ UNCHANGED << mem, guard2, call, strayed >>

\* The timeout cannot be read: the call returns EFAULT.
WaitRefused(t) ==
    /\ pc[t] = "wait_sleep" /\ t \in timed
    /\ Goto(t, "drop")
    /\ UNCHANGED << mem, table, queues, guard, guard2, call, strayed >>

WaitSleep(t) ==
    /\ pc[t] = "wait_sleep"
    /\ queues' = [queues EXCEPT ![guard[t]] = Append(@, t)]
    /\ Goto(t, "asleep")
    /\ UNCHANGED << mem, table, guard, guard2, call, strayed >>

\* Mutant: the thread goes on while it is still queued.
Timeout_queued(t) ==
    /\ pc[t] = "asleep" /\ t \in timed
    /\ Goto(t, "drop")
    /\ UNCHANGED << mem, table, queues, guard, guard2, call, strayed >>

\* Mutant: the timeout is obeyed only when the word has changed.
Timeout_changed(t) ==
    /\ pc[t] = "asleep" /\ t \in timed /\ mem[addr[t]] # 1
    /\ retain(guard[t], t)
    /\ strayed' = IF InQueue(t, guard[t]) THEN strayed ELSE strayed \cup {t}
    /\ Goto(t, "drop")
    /\ UNCHANGED << mem, table, guard, guard2, call >>

\* wait_timeout gives up: axtask looks for the thread in the queue where it went
\* to sleep, and not in one that a REQUEUE has moved it to.
Timeout(t) ==
    /\ pc[t] = "asleep" /\ t \in timed
    /\ retain(guard[t], t)
    /\ strayed' = IF InQueue(t, guard[t]) THEN strayed ELSE strayed \cup {t}
    /\ Goto(t, "drop")
    /\ UNCHANGED << mem, table, guard, guard2, call >>
-----------------------------------------------------------------------------
(* FUTEX_WAKE; without an entry in the table it returns 0 at once *)

WakeGet(t, a, n) ==
    /\ "wake" \in Commands[t] /\ pc[t] = "user" /\ table[a] # 0
    /\ guard' = [guard EXCEPT ![t] = table[a]]
    /\ cmd' = [cmd EXCEPT ![t] = "wake"]
    /\ addr' = [addr EXCEPT ![t] = a]
    /\ left' = [left EXCEPT ![t] = n]
    /\ Goto(t, "notify")
    /\ UNCHANGED << mem, table, queues, guard2, addr2, value2, timed, strayed >>

\* One turn of the notify_one loop of WAKE, REQUEUE and do_exit.
Notify(t) ==
    /\ pc[t] = "notify" /\ left[t] > 0 /\ queues[guard[t]] # << >>
    /\ notify_one(guard[t])
    /\ left' = [left EXCEPT ![t] = @ - 1]
    /\ UNCHANGED << mem, table, guard, guard2, cmd, addr, addr2, value2, timed, strayed >>

\* The loop is over: all notified, or the queue was found empty.
NotifyEnd(t) ==
    /\ pc[t] = "notify" /\ (left[t] = 0 \/ queues[guard[t]] = << >>)
    /\ Goto(t, IF cmd[t] = "requeue" /\ left[t] = 0 THEN "requeue_move" ELSE "drop")
    /\ UNCHANGED << mem, table, queues, guard, guard2, call, strayed >>

(* FUTEX_REQUEUE, and FUTEX_CMP_REQUEUE once the word was found to match *)

RequeueGet(t, a, a2, n, n2) ==
    /\ "requeue" \in Commands[t] /\ pc[t] = "user"
    /\ guard' = [guard EXCEPT ![t] = table[a]]
    /\ cmd' = [cmd EXCEPT ![t] = "requeue"]
    /\ addr' = [addr EXCEPT ![t] = a] /\ addr2' = [addr2 EXCEPT ![t] = a2]
    /\ left' = [left EXCEPT ![t] = n] /\ value2' = [value2 EXCEPT ![t] = n2]
    /\ Goto(t, "requeue_get2")
    /\ UNCHANGED << mem, table, queues, guard2, timed, strayed >>

RequeueGet2(t) ==
    /\ pc[t] = "requeue_get2"
    /\ get_or_insert(addr2[t], t, guard2)
    /\ Goto(t, IF guard[t] = 0 THEN "drop2" ELSE "notify")
    /\ UNCHANGED << mem, guard, call, strayed >>

\* Mutant: the two queues are swapped.
RequeueMove_swapped(t) ==
    /\ pc[t] = "requeue_move"
    /\ requeue(guard2[t], value2[t], guard[t])
    /\ Goto(t, "drop")
    /\ UNCHANGED << mem, table, guard, guard2, call, strayed >>

RequeueMove(t) ==
    /\ pc[t] = "requeue_move"
    /\ requeue(guard[t], value2[t], guard2[t])
    /\ Goto(t, "drop")
    /\ UNCHANGED << mem, table, guard, guard2, call, strayed >>
-----------------------------------------------------------------------------
(* do_exit: clear_child_tid *)

ExitClear(t) ==
    /\ "exit" \in Commands[t] /\ pc[t] = "user" /\ Ctid[t] # NoAddr
    /\ mem' = [mem EXCEPT ![Ctid[t]] = 0]
    /\ cmd' = [cmd EXCEPT ![t] = "exit"]
    /\ addr' = [addr EXCEPT ![t] = Ctid[t]]
    /\ left' = [left EXCEPT ![t] = 1]
    /\ Goto(t, "exit_get")
    /\ UNCHANGED << table, queues, guard, guard2, addr2, value2, timed, strayed >>

\* Mutant: no wake-up.
ExitGet_silent(t) ==
    /\ pc[t] = "exit_get"
    /\ Goto(t, "exited")
    /\ UNCHANGED << mem, table, queues, guard, guard2, call, strayed >>

ExitGet(t) ==
    /\ pc[t] = "exit_get"
    /\ guard' = [guard EXCEPT ![t] = table[addr[t]]]
    /\ Goto(t, IF table[addr[t]] = 0 THEN "exited" ELSE "notify")
    /\ UNCHANGED << mem, table, queues, guard2, call, strayed >>
-----------------------------------------------------------------------------
(* The guards go out of scope, wq first *)

EndCall(t) ==
    /\ Goto(t, IF cmd[t] = "exit" THEN "exited" ELSE "user")
    /\ cmd' = [cmd EXCEPT ![t] = "none"]
    /\ addr' = [addr EXCEPT ![t] = NoAddr] /\ addr2' = [addr2 EXCEPT ![t] = NoAddr]
    /\ left' = [left EXCEPT ![t] = 0] /\ value2' = [value2 EXCEPT ![t] = 0]
    /\ timed' = timed \ {t}

Drop(t) ==
    /\ pc[t] = "drop"
    /\ drop(guard[t], addr[t])
    /\ guard' = [guard EXCEPT ![t] = 0]
    /\ IF cmd[t] = "requeue" THEN Goto(t, "drop2") /\ UNCHANGED call ELSE EndCall(t)
    /\ UNCHANGED << mem, queues, guard2, strayed >>

Drop2(t) ==
    /\ pc[t] = "drop2"
    /\ drop(guard2[t], addr2[t])
    /\ guard2' = [guard2 EXCEPT ![t] = 0]
    /\ EndCall(t)
    /\ UNCHANGED << mem, queues, guard, strayed >>
-----------------------------------------------------------------------------
KernelStep(t) ==
    \/ WaitGet(t) \/ WaitRefused(t) \/ WaitSleep(t) \/ Timeout(t) \/ Notify(t) \/ NotifyEnd(t)
    \/ RequeueGet2(t) \/ RequeueMove(t) \/ ExitGet(t) \/ Drop(t) \/ Drop2(t)

UserCall(t) ==
    \/ \E a \in Addrs, v \in Words, b \in BOOLEAN : WaitCheck(t, a, v, b)
    \/ \E a \in Addrs, n \in Counts : WakeGet(t, a, n)
    \/ \E a, a2 \in Addrs, n \in Counts, n2 \in Moves : RequeueGet(t, a, a2, n, n2)
    \/ ExitClear(t)

Next == \E t \in Threads : KernelStep(t) \/ UserCall(t)

\* A thread in the kernel runs on, and the timer of a timed wait fires.
FairSpec == Init /\ [][Next]_vars /\ \A t \in Threads : WF_vars(KernelStep(t))
Spec == Init /\ [][Next]_vars
-----------------------------------------------------------------------------
(* Properties *)

Pcs == {"user", "wait_get", "wait_sleep", "asleep", "notify", "requeue_get2",
        "requeue_move", "drop", "drop2", "exit_get", "exited"}

\* Every variable has the shape its declaration comment says; the table and
\* the guards refer to queues that exist.
TypeOK ==
    /\ mem \in [Addrs -> Words]
    /\ queues \in Seq(Seq(Threads))
    /\ table \in [Addrs -> 0 .. Len(queues)]
    /\ guard \in [Threads -> 0 .. Len(queues)]
    /\ guard2 \in [Threads -> 0 .. Len(queues)]
    /\ pc \in [Threads -> Pcs]
    /\ cmd \in [Threads -> {"none", "wait", "wake", "requeue", "exit"}]
    /\ addr \in [Threads -> Addrs \cup {NoAddr}]
    /\ addr2 \in [Threads -> Addrs \cup {NoAddr}]
    /\ left \in [Threads -> Nat] /\ value2 \in [Threads -> Nat]
    /\ timed \in SUBSET Threads /\ strayed \in SUBSET Threads

\* A guard keeps the entry of its address in the table: the queue a thread
\* looked up stays the one every later futex call on that address looks up,
\* so dropping one guard never detaches the queue another thread uses.  Two
\* addresses never share a queue, so a wake on one never releases a thread
\* that waits at the other.
GuardsKeepEntry ==
    /\ TypeOK
    /\ \A t \in Threads :
        /\ guard[t] # 0 => addr[t] \in Addrs /\ table[addr[t]] = guard[t]
        /\ guard2[t] # 0 => addr2[t] \in Addrs /\ table[addr2[t]] = guard2[t]
    /\ \A a, b \in Addrs : a # b /\ table[a] # 0 => table[a] # table[b]

\* A wake can reach every sleeping thread: it has a place in a queue that is in
\* the table.  It has one place only, and a thread that is awake has none, so that
\* no notification is spent on it, unless a REQUEUE has moved its place before a
\* timeout: then it keeps the place it was moved to.
SleepersReachable ==
    \A t \in Threads :
        /\ pc[t] = "asleep" => \E q \in QueueIds : InQueue(t, q) /\ \E a \in Addrs : table[a] = q
        /\ t \notin strayed =>
             /\ pc[t] # "asleep" => \A q \in QueueIds : ~InQueue(t, q)
             /\ \A q, r \in QueueIds : \A i \in DOMAIN queues[q], j \in DOMAIN queues[r] :
                   queues[q][i] = t /\ queues[r][j] = t => q = r /\ i = j

\* Every notification that FUTEX_WAKE counts releases a sleeper.  It does not hold:
\* a thread in strayed may be awake when its place is given up.
NotificationsRelease ==
    [][\A t \in Threads : Notify(t) => pc[Head(queues[guard[t]])] = "asleep"]_vars

\* The places at each address, and the sleepers.
Waiting == [a \in Addrs |-> IF table[a] = 0 THEN << >> ELSE queues[table[a]]]
Sleeping == {t \in Threads : pc[t] = "asleep"}

Queues == INSTANCE FutexQueues WITH
    waiting <- Waiting, asleep <- Sleeping, at <- addr, at2 <- addr2

\* The table of reference-counted queues, looked up in one step and used in
\* later ones, is one first-in first-out queue per address: every WAIT sleeps
\* at the end of the queue of its address, every notification goes to the
\* oldest place there, REQUEUE moves the oldest ones in their order, to the end
\* of the same queue when its addresses are one, and a timeout gives up the
\* thread's places at the address of its call, in any interleaving with the
\* lookups and the drops of other guards.
ImplementsQueues == Queues!Spec

\* A wait with a timeout comes back, notified or not, moved or not.
TimedWaitReturns == \A t \in Threads : (t \in timed) ~> (t \notin timed)

SleepsFirst(t, a) == pc[t] = "asleep" /\ Waiting[a] # << >> /\ Head(Waiting[a]) = t

\* A thread that sleeps and is first in the queue of an exiting thread's
\* clear_child_tid when do_exit looks the queue up does not stay so: it is
\* released, or a REQUEUE moved it on before the notification.
ExitWakesSleeper ==
    \A t \in Threads, a \in {Ctid[u] : u \in Threads} \ {NoAddr} :
        (SleepsFirst(t, a) /\ \E u \in Threads : pc[u] = "exit_get" /\ addr[u] = a)
        ~> ~SleepsFirst(t, a)

\* A thread that waits for the word at another thread's clear_child_tid to
\* change is released when that thread exits.
JoinReturns ==
    \A t, u \in Threads :
        (cmd[t] = "wait" /\ Ctid[u] # NoAddr /\ addr[t] = Ctid[u] /\ pc[u] = "exited")
        ~> (cmd[t] # "wait")
=============================================================================
