------------------------------ MODULE Signals ------------------------------
(***************************************************************************)
(* Signals of the threads of one process: the signal system calls          *)
(* (api/src/imp/signal.rs), check_signals and the send functions           *)
(* (api/src/signal.rs), and the wait queue on which sigsuspend and         *)
(* sigtimedwait sleep (WaitQueueWrapper in core/src/task.rs).              *)
(*                                                                         *)
(* Pending sets, frames and dequeueing belong to the axsignal library      *)
(* (external): one dequeue is one step.  A pending signal is pending once; *)
(* which of several pending signals is dequeued first is left open.        *)
(***************************************************************************)
EXTENDS Integers, Sequences, FiniteSets, Functions

CONSTANTS Threads, Signals, SIGKILL,
          Defaults,      \* Defaults[sig]: what sig does by default
          Dispositions,  \* what programs pass to sigaction
          Masks,         \* masks programs pass to sigprocmask and sigtimedwait
          SuspendMasks,  \* and to sigsuspend
          MaxSent        \* bound on the number of signals sent

ASSUME SignalAssumption ==
    /\ SIGKILL \in Signals
    /\ Defaults \in [Signals -> {"terminate", "ignore", "continue"}]
    /\ Defaults[SIGKILL] = "terminate"
    /\ Dispositions \subseteq {"default", "ignore", "handler"}
    /\ Masks \subseteq SUBSET Signals /\ SuspendMasks \subseteq SUBSET Signals
    /\ MaxSent \in Nat

VARIABLES actions,           \* what each signal does to the process
          blocked, pending,  \* of each thread
          shared_pending,    \* pending for the process
          wq,                \* threads asleep in wait_signal or wait_timeout
          frames,            \* frames[t]: [sig, mask] of the handlers t is in
          pc, old_blocked,
          set,               \* set[t]: what sigtimedwait waits for
          exited,            \* the process is being terminated
          sent,
          umask,             \* the mask t last set outside of handlers
          astray             \* threads that a continue took out of sigsuspend since
vars == << actions, blocked, pending, shared_pending, wq, frames, pc, old_blocked, set,
           exited, sent, umask, astray >>

Init ==
    /\ actions = Defaults
    /\ blocked = [t \in Threads |-> {}] /\ pending = blocked
    /\ shared_pending = {}
    /\ wq = << >>
    /\ frames = [t \in Threads |-> << >>]
    /\ pc = [t \in Threads |-> "user"]
    /\ old_blocked = [t \in Threads |-> {}] /\ set = old_blocked
    /\ exited = FALSE /\ sent = 0
    /\ umask = [t \in Threads |-> {}] /\ astray = {}

\* t runs the program, outside of handlers.
Main(t) == pc[t] = "user" /\ frames[t] = << >> /\ ~exited

Goto(t, l) == pc' = [pc EXCEPT ![t] = l]
-----------------------------------------------------------------------------
\* WaitQueue::notify_one (external) wakes the thread that has slept longest.
notify_one ==
    IF wq = << >> THEN UNCHANGED << wq, pc >>
    ELSE /\ wq' = Tail(wq)
         /\ Goto(Head(wq), CASE pc[Head(wq)] = "s_sleep" -> "s_check"
                             [] pc[Head(wq)] = "w_sleep" -> "w_check"
                             [] OTHER -> pc[Head(wq)])

send_signal_process(sig) ==
    /\ ~exited /\ sent < MaxSent /\ sent' = sent + 1
    /\ shared_pending' = shared_pending \cup {sig}
    /\ notify_one
    /\ UNCHANGED << actions, blocked, pending, frames, old_blocked, set, exited, umask, astray >>

send_signal_thread(t, sig) ==
    /\ ~exited /\ sent < MaxSent /\ sent' = sent + 1
    /\ pending' = [pending EXCEPT ![t] = @ \cup {sig}]
    /\ notify_one
    /\ UNCHANGED << actions, blocked, shared_pending, frames, old_blocked, set, exited, umask, astray >>

\* sys_kill by any process, as this process sees it: it is the target, or one
\* of the group or of all.
sys_kill(sig) == send_signal_process(sig)

\* sys_tkill and sys_tgkill
sys_tkill(t, sig) == send_signal_thread(t, sig)

\* A queued signal carries a code that its sender chose, and is refused (EPERM)
\* if the code is one that only the kernel, kill and tkill may give to another
\* process; otherwise it is sent as above.
sys_rt_sigqueueinfo(sig) == send_signal_process(sig)
sys_rt_tgsigqueueinfo(t, sig) == send_signal_thread(t, sig)

\* The library takes sig from the pending signals of t or of the process.
dequeue_signal(t, sig) ==
    \/ /\ sig \in pending[t]
       /\ pending' = [pending EXCEPT ![t] = @ \ {sig}]
       /\ UNCHANGED shared_pending
    \/ /\ sig \in shared_pending \ pending[t]
       /\ shared_pending' = shared_pending \ {sig}
       /\ UNCHANGED pending

Deliverable(t) == (pending[t] \cup shared_pending) \ blocked[t]

\* Mutant: the signal is not blocked.
PushFrame_open(t, sig, restore) ==
    /\ frames' = [frames EXCEPT ![t] = Append(@, [sig |-> sig, mask |-> restore])]
    /\ blocked' = [blocked EXCEPT ![t] = @]

\* A handler's frame: the signal is blocked while the handler runs, and the
\* frame remembers the mask that sigreturn restores.
PushFrame(t, sig, restore) ==
    /\ frames' = [frames EXCEPT ![t] = Append(@, [sig |-> sig, mask |-> restore])]
    /\ blocked' = [blocked EXCEPT ![t] = @ \cup {sig}]

\* check_signals, one dequeued signal: an ignored one is dropped and the check
\* goes on; otherwise it returns TRUE and the thread is in user mode again or
\* in do_exit.  Default stop and core dump terminate, too.  To continue, which
\* is not implemented, installs no frame and does not look at restore.
check_signals(t, restore) ==
    /\ \E sig \in Deliverable(t) :
          /\ dequeue_signal(t, sig)
          /\ CASE actions[sig] = "ignore" -> UNCHANGED << blocked, frames, pc, exited, astray >>
               [] actions[sig] = "terminate" ->
                     exited' = TRUE /\ Goto(t, "exit") /\ UNCHANGED << blocked, frames, astray >>
               [] actions[sig] = "continue" ->
                     /\ Goto(t, "user") /\ UNCHANGED << blocked, frames, exited >>
                     /\ astray' = astray \cup (IF pc[t] = "s_check" THEN {t} ELSE {})
               [] actions[sig] = "handler" ->
                     PushFrame(t, sig, restore) /\ Goto(t, "user") /\ UNCHANGED << exited, astray >>
    /\ UNCHANGED << actions, wq, old_blocked, set, sent, umask >>

\* post_trap_callback, at the end of a trap from user mode.
PostTrap(t) == pc[t] = "user" /\ ~exited /\ check_signals(t, blocked[t])
-----------------------------------------------------------------------------
\* No signal is taken out of the mask, not even SIGKILL.
sys_rt_sigprocmask(t, how, s) ==
    /\ Main(t)
    /\ blocked' = [blocked EXCEPT ![t] = CASE how = "SIG_BLOCK" -> @ \cup s
                                           [] how = "SIG_UNBLOCK" -> @ \ s
                                           [] how = "SIG_SETMASK" -> s]
    /\ umask' = [umask EXCEPT ![t] = blocked'[t]] /\ astray' = astray \ {t}
    /\ UNCHANGED << actions, pending, shared_pending, wq, frames, pc, old_blocked, set, exited, sent >>

\* sys_rt_sigaction refuses SIGKILL.
sys_rt_sigaction(t, sig, act) ==
    /\ Main(t) /\ sig # SIGKILL
    /\ actions' = [actions EXCEPT ![sig] = IF act = "default" THEN Defaults[sig] ELSE act]
    /\ UNCHANGED << blocked, pending, shared_pending, wq, frames, pc, old_blocked, set, exited, sent, umask, astray >>

\* sys_rt_sigreturn, at the end of a handler.
sys_rt_sigreturn(t) ==
    /\ pc[t] = "user" /\ ~exited /\ frames[t] # << >>
    /\ blocked' = [blocked EXCEPT ![t] = frames[t][Len(frames[t])].mask]
    /\ frames' = [frames EXCEPT ![t] = SubSeq(@, 1, Len(@) - 1)]
    /\ UNCHANGED << actions, pending, shared_pending, wq, pc, old_blocked, set, exited, sent, umask, astray >>

\* Mutant: SIGKILL stays in the mask.
SuspendBegin_all(t, s) ==
    /\ Main(t)
    /\ old_blocked' = [old_blocked EXCEPT ![t] = blocked[t]]
    /\ blocked' = [blocked EXCEPT ![t] = s]
    /\ Goto(t, "s_check")
    /\ UNCHANGED << actions, pending, shared_pending, wq, frames, set, exited, sent, umask, astray >>

\* sys_rt_sigsuspend: the mask is replaced; then signals are checked, and
\* while there is none to act on the thread sleeps.
SuspendBegin(t, s) ==
    /\ Main(t)
    /\ old_blocked' = [old_blocked EXCEPT ![t] = blocked[t]]
    /\ blocked' = [blocked EXCEPT ![t] = s \ {SIGKILL}]
    /\ Goto(t, "s_check")
    /\ UNCHANGED << actions, pending, shared_pending, wq, frames, set, exited, sent, umask, astray >>

\* Mutant: the old mask is not passed on.
SuspendCheck_none(t) ==
    /\ pc[t] = "s_check" /\ ~exited
    /\ \/ check_signals(t, blocked[t])
       \/ /\ Deliverable(t) = {} /\ Goto(t, "s_wait")
          /\ UNCHANGED << actions, blocked, pending, shared_pending, wq, frames, old_blocked,
                          set, exited, sent, umask, astray >>

SuspendCheck(t) ==
    /\ pc[t] = "s_check" /\ ~exited
    /\ \/ check_signals(t, old_blocked[t])
       \/ /\ Deliverable(t) = {} /\ Goto(t, "s_wait")
          /\ UNCHANGED << actions, blocked, pending, shared_pending, wq, frames, old_blocked,
                          set, exited, sent, umask, astray >>

\* wait_signal
SuspendSleep(t) ==
    /\ pc[t] = "s_wait" /\ ~exited
    /\ wq' = Append(wq, t) /\ Goto(t, "s_sleep")
    /\ UNCHANGED << actions, blocked, pending, shared_pending, frames, old_blocked, set, exited, sent, umask, astray >>

\* sys_rt_sigtimedwait; wait_timeout (external) waits for blocked signals.
WaitBegin(t, s) ==
    /\ Main(t)
    /\ set' = [set EXCEPT ![t] = s \cap blocked[t]]
    /\ Goto(t, "w_check")
    /\ UNCHANGED << actions, blocked, pending, shared_pending, wq, frames, old_blocked, exited, sent, umask, astray >>

WaitCheck(t) ==
    /\ pc[t] = "w_check" /\ ~exited
    /\ \/ \E sig \in set[t] : dequeue_signal(t, sig) /\ Goto(t, "user")
       \/ /\ set[t] \cap (pending[t] \cup shared_pending) = {} /\ Goto(t, "w_wait")
          /\ UNCHANGED << pending, shared_pending >>
    /\ UNCHANGED << actions, blocked, wq, frames, old_blocked, set, exited, sent, umask, astray >>

WaitSleep(t) ==
    /\ pc[t] = "w_wait" /\ ~exited
    /\ wq' = Append(wq, t) /\ Goto(t, "w_sleep")
    /\ UNCHANGED << actions, blocked, pending, shared_pending, frames, old_blocked, set, exited, sent, umask, astray >>

\* WaitQueue::wait_timeout (external) takes a thread that wakes up by itself out
\* of the queue.
Leave(t) == \E i \in 1..Len(wq) : wq[i] = t /\ wq' = SubSeq(wq, 1, i - 1) \o SubSeq(wq, i + 1, Len(wq))

\* Mutant: the wait starts again.
WaitTimeout_again(t) ==
    /\ pc[t] = "w_sleep" /\ ~exited
    /\ Leave(t) /\ Goto(t, "w_check")
    /\ UNCHANGED << actions, blocked, pending, shared_pending, frames, old_blocked, set, exited, sent, umask, astray >>

\* Mutant: the thread stays in the queue.
WaitTimeout_queued(t) ==
    /\ pc[t] = "w_sleep" /\ ~exited
    /\ UNCHANGED wq /\ Goto(t, "user")
    /\ UNCHANGED << actions, blocked, pending, shared_pending, frames, old_blocked, set, exited, sent, umask, astray >>

\* The timeout passes: EAGAIN.
WaitTimeout(t) ==
    /\ pc[t] = "w_sleep" /\ ~exited
    /\ Leave(t) /\ Goto(t, "user")
    /\ UNCHANGED << actions, blocked, pending, shared_pending, frames, old_blocked, set, exited, sent, umask, astray >>
-----------------------------------------------------------------------------
Next ==
    \/ \E sig \in Signals : sys_kill(sig) \/ sys_rt_sigqueueinfo(sig)
    \/ \E t \in Threads : PostTrap(t)
    \/ \E t \in Threads, sig \in Signals : sys_tkill(t, sig) \/ sys_rt_tgsigqueueinfo(t, sig)
    \/ \E t \in Threads, how \in {"SIG_BLOCK", "SIG_UNBLOCK", "SIG_SETMASK"}, s \in Masks :
          sys_rt_sigprocmask(t, how, s)
    \/ \E t \in Threads, sig \in Signals, act \in Dispositions : sys_rt_sigaction(t, sig, act)
    \/ \E t \in Threads : sys_rt_sigreturn(t)
    \/ \E t \in Threads, s \in SuspendMasks : SuspendBegin(t, s)
    \/ \E t \in Threads : SuspendCheck(t)
    \/ \E t \in Threads : SuspendSleep(t)
    \/ \E t \in Threads, s \in Masks : WaitBegin(t, s)
    \/ \E t \in Threads : WaitCheck(t)
    \/ \E t \in Threads : WaitSleep(t)
    \/ \E t \in Threads : WaitTimeout(t)

Spec == Init /\ [][Next]_vars

\* Every return to user mode runs post_trap_callback, hence strong fairness;
\* inside the kernel a thread goes on, and timeouts pass.
Fairness ==
    \A t \in Threads :
        /\ SF_vars(PostTrap(t))
        /\ WF_vars(SuspendCheck(t)) /\ WF_vars(SuspendSleep(t))
        /\ WF_vars(WaitCheck(t)) /\ WF_vars(WaitSleep(t)) /\ WF_vars(WaitTimeout(t))
FairSpec == Spec /\ Fairness
-----------------------------------------------------------------------------
Suspended(t) == pc[t] \in {"s_check", "s_wait", "s_sleep"}

\* Type correctness; sys_rt_sigaction never changes what SIGKILL does.
TypeOK ==
    /\ actions \in [Signals -> {"terminate", "ignore", "continue", "handler"}]
    /\ actions[SIGKILL] = "terminate"
    /\ blocked \in [Threads -> SUBSET Signals] /\ pending \in [Threads -> SUBSET Signals]
    /\ shared_pending \in SUBSET Signals
    /\ wq \in Seq(Threads)
    /\ frames \in [Threads -> Seq([sig : Signals, mask : SUBSET Signals])]
    /\ pc \in [Threads -> {"user", "s_check", "s_wait", "s_sleep", "w_check", "w_wait", "w_sleep", "exit"}]
    /\ old_blocked \in [Threads -> SUBSET Signals] /\ set \in [Threads -> SUBSET Signals]
    /\ exited \in BOOLEAN /\ sent \in 0..MaxSent
    /\ umask \in [Threads -> SUBSET Signals] /\ astray \subseteq Threads

\* Once its handlers have returned, the program runs under the mask it set
\* last: sigreturn undoes the handlers' and sigsuspend's changes in any nesting
\* (restore_blocked of check_signals, old_blocked of sys_rt_sigsuspend).  Only
\* a signal that continues, taken in sigsuspend, leaves another mask behind,
\* and only until the program sets its mask again.
MaskRestored == \A t \in Threads : Main(t) /\ t \notin astray => blocked[t] = umask[t]

\* The mask comes back from sigsuspend whatever ended it.
SuspendRestores == \A t \in Threads : Main(t) => blocked[t] = umask[t]

\* A handler is not entered again for its own signal before it returns, however
\* often the signal is sent and whatever other handlers run in between.
NoRecursion ==
    \A t \in Threads : \A i, j \in 1..Len(frames[t]) : i # j => frames[t][i].sig # frames[t][j].sig

\* The process's queue holds each sleeping thread once and no other, so that
\* notify_one does not spend the wakeup of a signal on a thread that left.
SleepersQueued ==
    /\ TypeOK
    /\ \A t \in Threads : t \in Range(wq) <=> pc[t] \in {"s_sleep", "w_sleep"}
    /\ IsInjective(wq)

\* t looks for signals in sigtimedwait with a timeout, or in sigsuspend with one
\* pending for it that it does not mask, where no signal can be ignored.
Due(t) ==
    \/ pc[t] = "w_check"
    \/ /\ pc[t] = "s_check" /\ pending[t] \ blocked[t] # {}
       /\ "ignore" \notin Dispositions \cup Range(Defaults)

\* Both waits come back or the process ends, whatever signals arrive for the
\* process's other threads meanwhile.
WaitsReturn == \A t \in Threads : Due(t) ~> (pc[t] = "user" \/ exited)

\* SIGKILL sent to the process ends it if some thread runs the program, also
\* if the thread is about to call sigsuspend with every signal masked, unless a
\* thread blocks SIGKILL by sigprocmask: then nobody need take it, or that
\* thread may take it from the others by sigtimedwait.
KillEnds ==
    \A t \in Threads : (SIGKILL \in shared_pending /\ pc[t] = "user")
        ~> (exited \/ \E u \in Threads : SIGKILL \in umask[u])

\* A signal the suspended thread does not mask and that has a handler or
\* terminates gets it out of sigsuspend.
SuspendReturns ==
    \A t \in Threads :
        (Suspended(t) /\ \E sig \in Deliverable(t) : actions[sig] \in {"terminate", "handler"})
            ~> ~Suspended(t) \/ exited
=============================================================================
