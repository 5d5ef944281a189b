---------------------------- MODULE ProcessLife ----------------------------
(***************************************************************************)
(* Processes and threads from creation to reaping: sys_clone and sys_fork  *)
(* (api/src/imp/task/clone.rs), do_exit (exit.rs), sys_waitpid (wait.rs),  *)
(* SIGKILL from sys_kill, sys_tkill and sys_tgkill (api/src/imp/signal.rs) *)
(* to what the tables of core/src/task.rs find, and its delivery on return *)
(* to user mode (api/src/signal.rs).                                       *)
(*                                                                         *)
(* The kernel is built with SMP, so every thread is an actor and a step is *)
(* what runs under one lock of axprocess or axtask.  A task id is never    *)
(* used twice; a process has the id of its first thread.  Process 0 is the *)
(* init process of src/main.rs: it has no threads and no ProcessData.      *)
(*                                                                         *)
(* clear_child_tid and FD_TABLE.clear() are the parts of do_exit modelled  *)
(* by modules Futex and FdTable.  No system call changes a process group,  *)
(* so all processes are in one group and WaitPid::Pgid is Any.  A call     *)
(* that blocks elsewhere (a futex, nanosleep, a pipe) is BlockingCall; no  *)
(* program here names SIGKILL in the set of sigtimedwait (module Signals). *)
(***************************************************************************)
EXTENDS Integers, FiniteSets

CONSTANTS MaxTid,      \* task ids are 1..MaxTid (bound)
          FirstThreads,\* threads of process 1 in the first state
          CallSets,    \* sets of calls; the programs use one of them
          ExitCodes,   \* arguments of sys_exit and sys_exit_group
          WaitOptions, \* option words passed to sys_waitpid
          KillPids     \* arguments of sys_kill

Tids == 1 .. MaxTid
InitProc == 0
Procs == {InitProc} \cup Tids
AnyChild == -1
SIGKILLed == 128 + 9

ASSUME LifeAssumption ==
    /\ MaxTid \in Nat \ {0}
    /\ FirstThreads \in 1 .. MaxTid
    /\ \A c \in CallSets : c \subseteq {"thread", "fork", "clone", "parent", "exit", "wait", "kill", "tkill",
                                     "mask", "block"}
    /\ ExitCodes \subseteq Nat
    /\ KillPids \subseteq Tids \cup {0, -1}
    /\ WaitOptions \subseteq SUBSET {"WNOHANG", "WNOWAIT", "WALL", "WCLONE"}

VARIABLES
    next,      \* next task id
    proc,      \* proc[t]: the process of thread t
    threads,   \* threads[p]: the thread group
    parent, children,
    zombies,   \* processes whose is_zombie is set
    clones,    \* processes for which is_clone_child() holds
    exit_code, \* exit_code[p], of the thread group
    group_exited, \* processes whose group_exited flag is set
    reaped,    \* reaped[p]: waitpid calls that freed p
    killed,    \* threads with SIGKILL pending
    masked,    \* threads that block SIGKILL
    shot,      \* processes with SIGKILL pending
    sigchld,   \* processes with SIGCHLD pending
    child_exit_wq, \* child_exit_wq[p]: sleeping threads
    pc,        \* where each thread is
    other,     \* local: the process named parent (clone, exit)
    kid,       \* local: the task id a clone is creating
    args,      \* local: exit code and group flag, options and children
    calls      \* the calls in use; never changes
vars == << next, proc, threads, parent, children, zombies, clones, exit_code,
           group_exited, reaped, killed, masked, shot, sigchld, child_exit_wq, pc, other,
           kid, args, calls >>
tree == << parent, children, zombies >>
group == << threads, exit_code, group_exited >>

NoArgs == [code |-> 0, group |-> FALSE, opts |-> {}, kids |-> {}]
ExitPcs == {"exit_thread", "exit_process", "exit_parent", "exit_notify",
            "exit_again", "exit_group", "exit_flag", "exit_kill"}
WaitPcs == {"wait_check", "wait_sleep", "asleep"}
BuildPcs == {"clone_process", "clone_other"}
ClonePcs == BuildPcs \cup {"clone_thread"}

Goto(t, label) == pc' = [pc EXCEPT ![t] = label]

\* run_user_app has built process 1; its first FirstThreads threads are there.
Init ==
    /\ next = FirstThreads + 1
    /\ proc = [t \in Tids |-> IF t <= FirstThreads THEN 1 ELSE InitProc]
    /\ threads = [p \in Procs |-> IF p = 1 THEN 1 .. FirstThreads ELSE {}]
    /\ parent = [p \in Procs |-> InitProc]
    /\ children = [p \in Procs |-> IF p = InitProc THEN {1} ELSE {}]
    /\ zombies = {} /\ clones = {} /\ group_exited = {}
    /\ exit_code = [p \in Procs |-> 0]
    /\ reaped = [p \in Procs |-> 0]
    /\ killed = {} /\ masked = {} /\ shot = {} /\ sigchld = {} /\ calls \in CallSets
    /\ child_exit_wq = [p \in Procs |-> {}]
    /\ pc = [t \in Tids |-> IF t <= FirstThreads THEN "user" ELSE "none"]
    /\ other = [t \in Tids |-> InitProc]
    /\ kid = [t \in Tids |-> InitProc]
    /\ args = [t \in Tids |-> NoArgs]
-----------------------------------------------------------------------------
(* axprocess, from how the kernel uses it. *)

\* Mutant: the code is overwritten although the group has exited.
Thread_exit_always(t, p) ==
    /\ threads' = [threads EXCEPT ![p] = @ \ {t}]
    /\ exit_code' = [exit_code EXCEPT ![p] = args[t].code]

\* Thread::exit(code): leave the group; the code is kept unless the group exits.
Thread_exit(t, p) ==
    /\ threads' = [threads EXCEPT ![p] = @ \ {t}]
    /\ exit_code' = IF p \in group_exited THEN exit_code
                    ELSE [exit_code EXCEPT ![p] = args[t].code]

\* Mutant: the children stay with the zombie.
Process_exit_no_reparent(p) ==
    /\ zombies' = zombies \cup {p}
    /\ UNCHANGED << parent, children >>

\* Mutant: init lists the children, which still name the old parent.
Process_exit_half(p) ==
    /\ zombies' = zombies \cup {p}
    /\ children' = [children EXCEPT ![p] = {}, ![InitProc] = @ \cup children[p]]
    /\ UNCHANGED parent

\* Process::exit(): become a zombie and hand the children to init.
Process_exit(p) ==
    /\ zombies' = zombies \cup {p}
    /\ parent' = [c \in Procs |-> IF c \in children[p] THEN InitProc ELSE parent[c]]
    /\ children' = [children EXCEPT ![p] = {},
                                    ![InitProc] = @ \cup children[p]]

\* Process::free(): leave the parent's set of children.
Process_free(c) == children' = [children EXCEPT ![parent[c]] = @ \ {c}]

\* ProcessBuilder::build() for child c of process p.
Process_build(c, p) ==
    /\ parent' = [parent EXCEPT ![c] = p]
    /\ children' = [children EXCEPT ![p] = @ \cup {c}]
-----------------------------------------------------------------------------
(* sys_clone *)

\* The task id is taken and, for CLONE_PARENT, the parent is looked up.  Of the
\* exit signal it matters whether it is SIGCHLD.
CloneBegin(t, kind) ==
    /\ kind \in calls /\ pc[t] = "user" /\ next \in Tids
    /\ next' = next + 1
    /\ kid' = [kid EXCEPT ![t] = next]
    /\ other' = [other EXCEPT ![t] = IF kind = "parent" THEN parent[proc[t]] ELSE proc[t]]
    /\ Goto(t, CASE kind = "thread" -> "clone_thread" [] kind = "clone" -> "clone_other"
                 [] OTHER -> "clone_process")
    /\ UNCHANGED << calls, masked, shot, proc, tree, group, clones, reaped, killed, sigchld,
                    child_exit_wq, args >>

\* The address space cannot be cloned: nothing was built.
CloneFail(t) ==
    /\ pc[t] \in BuildPcs
    /\ Goto(t, "user")
    /\ kid' = [kid EXCEPT ![t] = InitProc]
    /\ other' = [other EXCEPT ![t] = InitProc]
    /\ UNCHANGED << next, calls, masked, shot, proc, tree, group, clones, reaped, killed, sigchld,
                    child_exit_wq, args >>

\* The new process joins the tree before it has a thread.
CloneProcess(t) ==
    /\ pc[t] \in BuildPcs
    /\ Process_build(kid[t], other[t])
    /\ clones' = IF pc[t] = "clone_other" THEN clones \cup {kid[t]} ELSE clones
    /\ other' = [other EXCEPT ![t] = kid[t]]
    /\ Goto(t, "clone_thread")
    /\ UNCHANGED << next, calls, masked, shot, proc, zombies, group, reaped, killed, sigchld,
                    child_exit_wq, kid, args >>

\* new_thread, add_thread_to_table and spawn_task.  A new ThreadData blocks no
\* signal.
CloneThread(t) ==
    /\ pc[t] = "clone_thread"
    /\ threads' = [threads EXCEPT ![other[t]] = @ \cup {kid[t]}]
    /\ proc' = [proc EXCEPT ![kid[t]] = other[t]]
    /\ pc' = [pc EXCEPT ![t] = "user", ![kid[t]] = "user"]
    /\ kid' = [kid EXCEPT ![t] = InitProc]
    /\ other' = [other EXCEPT ![t] = InitProc]
    /\ UNCHANGED << next, calls, masked, shot, tree, exit_code, group_exited, clones, reaped, killed,
                    sigchld, child_exit_wq, args >>
-----------------------------------------------------------------------------
(* do_exit *)

StartExit(t, code, isGroup) ==
    /\ pc[t] = "user"
    /\ args' = [args EXCEPT ![t].code = code, ![t].group = isGroup]
    /\ Goto(t, "exit_thread")
    /\ UNCHANGED << next, calls, masked, proc, tree, group, clones, reaped, sigchld,
                    child_exit_wq, other, kid >>

sys_exit(t) == "exit" \in calls /\ \E c \in ExitCodes : StartExit(t, c * 256, FALSE) /\ UNCHANGED << killed, shot >>
sys_exit_group(t) == "exit" \in calls /\ \E c \in ExitCodes : StartExit(t, c * 256, TRUE) /\ UNCHANGED << killed, shot >>

\* Mutant: only the signals of the thread are looked at.
check_signals_thread(t) ==
    /\ t \in killed \ masked /\ StartExit(t, SIGKILLed, TRUE)
    /\ killed' = killed \ {t} /\ UNCHANGED shot

\* check_signals on the way back to user mode takes SIGKILL from the pending
\* signals of the thread or, once for all threads, of the process, unless the
\* thread blocks it.
check_signals(t) ==
    /\ t \in killed \/ proc[t] \in shot
    /\ t \notin masked
    /\ StartExit(t, SIGKILLed, TRUE)
    /\ killed' = killed \ {t}
    /\ shot' = IF t \in killed THEN shot ELSE shot \ {proc[t]}

\* Mutant: the size of the group is tested as if t had left it before.
ExitThread_early(t) ==
    /\ pc[t] = "exit_thread"
    /\ Thread_exit(t, proc[t])
    /\ Goto(t, IF Cardinality(threads[proc[t]]) <= 2 THEN "exit_process" ELSE "exit_group")
    /\ UNCHANGED << next, calls, masked, shot, proc, tree, group_exited, clones, reaped, killed,
                    sigchld, child_exit_wq, other, kid, args >>

\* One thread of the group, the last, goes on to end the process.
ExitThread(t) ==
    /\ pc[t] = "exit_thread"
    /\ Thread_exit(t, proc[t])
    /\ Goto(t, IF threads[proc[t]] = {t} THEN "exit_process" ELSE "exit_group")
    /\ UNCHANGED << next, calls, masked, shot, proc, tree, group_exited, clones, reaped, killed,
                    sigchld, child_exit_wq, other, kid, args >>

ExitProcess(t) ==
    /\ pc[t] = "exit_process"
    /\ Process_exit(proc[t])
    /\ Goto(t, "exit_parent")
    /\ UNCHANGED << next, calls, masked, shot, proc, group, clones, reaped, killed, sigchld,
                    child_exit_wq, other, kid, args >>

\* process.parent() and the exit signal; init has no data and takes none.
ExitParent(t) ==
    LET p == parent[proc[t]] IN
    /\ pc[t] = "exit_parent"
    /\ other' = [other EXCEPT ![t] = p]
    /\ sigchld' = IF proc[t] \in clones \/ p = InitProc THEN sigchld
                  ELSE sigchld \cup {p}
    /\ Goto(t, "exit_notify")
    /\ UNCHANGED << next, calls, masked, shot, proc, tree, group, clones, reaped, killed,
                    child_exit_wq, kid, args >>

\* child_exit_wq.notify_all of the parent that was looked up.
ExitNotify(t) ==
    LET woken == child_exit_wq[other[t]] IN
    /\ pc[t] = "exit_notify"
    /\ child_exit_wq' = [child_exit_wq EXCEPT ![other[t]] = {}]
    /\ pc' = [u \in Tids |-> IF u = t THEN "exit_again"
                             ELSE IF u \in woken THEN "wait_check" ELSE pc[u]]
    /\ other' = [other EXCEPT ![t] = InitProc]
    /\ UNCHANGED << next, calls, masked, shot, proc, tree, group, clones, reaped, killed, sigchld,
                    kid, args >>

\* The second process.exit().
ExitAgain(t) ==
    /\ pc[t] = "exit_again"
    /\ Process_exit(proc[t])
    /\ Goto(t, "exit_group")
    /\ UNCHANGED << next, calls, masked, shot, proc, group, clones, reaped, killed, sigchld,
                    child_exit_wq, other, kid, args >>

\* The end of a thread: axtask::exit.
Die(t) == /\ Goto(t, "dead")
          /\ args' = [args EXCEPT ![t] = NoArgs]
          /\ masked' = masked \ {t}

\* Whether to end the group is decided, and the flag is set in a later step.
ExitGroup(t) ==
    /\ pc[t] = "exit_group"
    /\ IF args[t].group /\ proc[t] \notin group_exited
       THEN Goto(t, "exit_flag") /\ UNCHANGED << args, killed, masked >>
       ELSE Die(t) /\ killed' = killed \ {t}
    /\ UNCHANGED << next, calls, shot, proc, tree, group, clones, reaped,
                    sigchld, child_exit_wq, other, kid >>

\* Process::group_exit()
ExitFlag(t) ==
    /\ pc[t] = "exit_flag"
    /\ group_exited' = group_exited \cup {proc[t]}
    /\ Goto(t, "exit_kill")
    /\ UNCHANGED << next, calls, masked, shot, proc, tree, threads, exit_code, clones, reaped,
                    killed, sigchld, child_exit_wq, other, kid, args >>

\* SIGKILL to every thread process.threads() returns, then axtask::exit.
ExitKill(t) ==
    /\ pc[t] = "exit_kill"
    /\ killed' = (killed \cup threads[proc[t]]) \ {t}
    /\ Die(t)
    /\ UNCHANGED << next, calls, shot, proc, tree, group, clones, reaped, sigchld,
                    child_exit_wq, other, kid >>
-----------------------------------------------------------------------------
(* sys_waitpid *)

Selected(p, pid, opts) ==
    {c \in children[p] : /\ pid \in {AnyChild, c}
                         /\ "WALL" \in opts \/ ("WCLONE" \in opts) = (c \in clones)}

\* The children are collected once.  No child to wait for: ECHILD at once.
WaitBegin(t, pid, opts) ==
    LET kids == Selected(proc[t], pid, opts) IN
    /\ "wait" \in calls /\ pc[t] = "user" /\ kids # {}
    /\ args' = [args EXCEPT ![t].opts = opts, ![t].kids = kids]
    /\ Goto(t, "wait_check")
    /\ UNCHANGED << next, calls, masked, shot, proc, tree, group, clones, reaped, killed, sigchld,
                    child_exit_wq, other, kid >>

\* The loop: report a zombie, or give up (WNOHANG), or go to sleep.
WaitReport(t, c) ==
    /\ pc[t] = "wait_check" /\ c \in args[t].kids /\ c \in zombies
    /\ IF "WNOWAIT" \in args[t].opts
       THEN UNCHANGED << children, reaped >>
       ELSE Process_free(c) /\ reaped' = [reaped EXCEPT ![c] = @ + 1]
    /\ args' = [args EXCEPT ![t] = NoArgs]
    /\ Goto(t, "user")
    /\ UNCHANGED << next, calls, masked, shot, proc, parent, zombies, group, clones, killed, sigchld,
                    child_exit_wq, other, kid >>

WaitNothing(t) ==
    /\ pc[t] = "wait_check" /\ args[t].kids \cap zombies = {}
    /\ IF "WNOHANG" \in args[t].opts
       THEN Goto(t, "user") /\ args' = [args EXCEPT ![t] = NoArgs]
       ELSE Goto(t, "wait_sleep") /\ UNCHANGED args
    /\ UNCHANGED << next, calls, masked, shot, proc, tree, group, clones, reaped, killed, sigchld,
                    child_exit_wq, other, kid >>

\* Mutant: the thread sleeps in the queue of its parent process.
WaitSleep_parent(t) ==
    /\ pc[t] = "wait_sleep"
    /\ child_exit_wq' = [child_exit_wq EXCEPT ![parent[proc[t]]] = @ \cup {t}]
    /\ Goto(t, "asleep")
    /\ UNCHANGED << next, calls, masked, shot, proc, tree, group, clones, reaped, killed, sigchld,
                    other, kid, args >>

\* child_exit_wq.wait(): the condition is not looked at again.
WaitSleep(t) ==
    /\ pc[t] = "wait_sleep"
    /\ child_exit_wq' = [child_exit_wq EXCEPT ![proc[t]] = @ \cup {t}]
    /\ Goto(t, "asleep")
    /\ UNCHANGED << next, calls, masked, shot, proc, tree, group, clones, reaped, killed, sigchld,
                    other, kid, args >>
-----------------------------------------------------------------------------
(* SIGKILL from programs *)

\* Processes something refers to, and those among them that the tables know:
\* add_thread_to_table adds a process with its first thread, and the tables hold
\* weak references.
Existing == {p \in Tids : \/ p \in children[parent[p]]
                          \/ \E t \in Tids : proc[t] = p /\ pc[t] # "dead"}
processes == {p \in Existing : \E t \in Tids : proc[t] = p}
get_process(pid) == {pid} \cap processes
get_thread(tid) == {t \in {tid} : proc[t] # InitProc /\ pc[t] # "dead"}

\* sys_kill: whom the signal is for.  All processes are in one group.
KillBegin(t, targets) ==
    /\ "kill" \in calls /\ pc[t] = "user" /\ targets # {}
    /\ args' = [args EXCEPT ![t].kids = targets]
    /\ Goto(t, "kill")
    /\ UNCHANGED << next, calls, masked, shot, proc, tree, group, clones, reaped, killed, sigchld,
                    child_exit_wq, other, kid >>

sys_kill(t, pid) ==
    KillBegin(t, CASE pid > 0 -> get_process(pid) [] pid = 0 -> Existing [] pid = -1 -> processes)

\* One send_signal_process after the other.
send_signal_process(t, p) ==
    /\ pc[t] = "kill" /\ p \in args[t].kids
    /\ shot' = shot \cup {p}
    /\ args' = [args EXCEPT ![t].kids = @ \ {p}]
    /\ IF args[t].kids = {p} THEN Goto(t, "user") ELSE UNCHANGED pc
    /\ UNCHANGED << next, calls, masked, proc, tree, group, clones, reaped, killed, sigchld,
                    child_exit_wq, other, kid >>

sys_tkill(t, tid) ==
    /\ "tkill" \in calls /\ pc[t] = "user" /\ get_thread(tid) # {}
    /\ killed' = killed \cup {tid}
    /\ UNCHANGED << next, calls, masked, shot, proc, tree, group, clones, reaped, sigchld,
                    child_exit_wq, pc, other, kid, args >>

sys_tgkill(t, tgid, tid) == proc[tid] = tgid /\ sys_tkill(t, tid)

\* sys_rt_sigprocmask: blocks SIGKILL or no longer blocks it.
sys_rt_sigprocmask(t) ==
    /\ "mask" \in calls /\ pc[t] = "user"
    /\ masked' \in {masked \cup {t}, masked \ {t}}
    /\ UNCHANGED << next, calls, killed, shot, proc, tree, group, clones, reaped, sigchld,
                    child_exit_wq, pc, other, kid, args >>

\* A call that blocks until something outside this module lets it return.
PassesTo(t, from, to) ==
    /\ pc[t] = from /\ Goto(t, to)
    /\ UNCHANGED << next, calls, masked, killed, shot, proc, tree, group, clones, reaped, sigchld,
                    child_exit_wq, other, kid, args >>
BlockingCall(t) == "block" \in calls /\ PassesTo(t, "user", "blocked")
BlockingReturn(t) == PassesTo(t, "blocked", "user")
-----------------------------------------------------------------------------
\* A step inside the kernel, which a running thread goes on to take.
KernelStep(t) ==
    /\ pc[t] \notin {"none", "user", "asleep", "blocked", "dead"}
    /\ \/ CloneFail(t) \/ CloneProcess(t) \/ CloneThread(t)
       \/ ExitThread(t) \/ ExitProcess(t) \/ ExitParent(t) \/ ExitNotify(t)
       \/ ExitAgain(t) \/ ExitGroup(t) \/ ExitFlag(t) \/ ExitKill(t)
       \/ (\E c \in Tids : WaitReport(t, c)) \/ WaitNothing(t) \/ WaitSleep(t)
       \/ \E p \in Tids : send_signal_process(t, p)

\* What a program chooses to call.
UserCall(t) ==
    \/ \E k \in {"thread", "fork", "clone", "parent"} : CloneBegin(t, k)
    \/ sys_exit(t) \/ sys_exit_group(t)
    \/ \E pid \in Tids \cup {AnyChild}, o \in WaitOptions : WaitBegin(t, pid, o)
    \/ \E pid \in KillPids : sys_kill(t, pid)
    \/ \E u \in Tids : sys_tkill(t, u) \/ \E p \in Tids : sys_tgkill(t, p, u)
    \/ sys_rt_sigprocmask(t) \/ BlockingCall(t)

Next == \E t \in Tids : KernelStep(t) \/ UserCall(t) \/ BlockingReturn(t) \/ check_signals(t)

\* A thread in the kernel runs on.  Every trap of a thread ends in
\* check_signals, so one that is back in user mode again and again meets it.
Fairness == \A t \in Tids : WF_vars(KernelStep(t)) /\ SF_vars(check_signals(t))

Spec == Init /\ [][Next]_vars
FairSpec == Spec /\ Fairness
-----------------------------------------------------------------------------
(* Properties *)

Pcs == {"none", "user", "blocked", "dead", "kill"} \cup ClonePcs \cup ExitPcs \cup WaitPcs

\* Every variable has the shape its declaration comment says.
TypeOK ==
    /\ next \in 1 .. MaxTid + 1
    /\ proc \in [Tids -> Procs] /\ kid \in [Tids -> Procs]
    /\ other \in [Tids -> Procs]
    /\ threads \in [Procs -> SUBSET Tids]
    /\ parent \in [Procs -> Procs] /\ children \in [Procs -> SUBSET Tids]
    /\ zombies \in SUBSET Procs /\ clones \in SUBSET Procs
    /\ group_exited \in SUBSET Procs /\ sigchld \in SUBSET Procs
    /\ exit_code \in [Procs -> Nat] /\ reaped \in [Procs -> Nat]
    /\ killed \in SUBSET Tids /\ masked \in SUBSET Tids /\ shot \in SUBSET Tids /\ calls \in CallSets
    /\ child_exit_wq \in [Procs -> SUBSET Tids]
    /\ pc \in [Tids -> Pcs]
    /\ args \in [Tids -> [code : Nat, group : BOOLEAN, opts : WaitOptions \cup {{}},
                          kids : SUBSET Tids]]

\* The two directions of the process tree agree whatever clone, exit and
\* waitpid do side by side: a listed child names that parent and has not been
\* freed, and a process leaves the tree only as a zombie that waitpid freed.
TreeOK ==
    /\ TypeOK
    /\ \A c \in Tids :
        /\ \A p \in Procs : c \in children[p] => parent[c] = p /\ reaped[c] = 0
        /\ threads[c] # {} \/ c \in zombies => c \in children[parent[c]] \/ reaped[c] > 0
        /\ reaped[c] > 0 => c \in zombies

Ending(t) == pc[t] \in {"exit_process", "exit_parent", "exit_notify", "exit_again"}

\* do_exit takes exactly one thread of a group for its last (line 35): the
\* threads that end a process are alone in doing so, after every other thread
\* left the group, and no thread of a zombie is in user mode, cloning or waiting.
OneLastThread ==
    \A t \in Tids :
        /\ Ending(t) => /\ threads[proc[t]] = {}
                        /\ \A u \in Tids \ {t} : Ending(u) => proc[u] # proc[t]
        /\ proc[t] \in zombies => pc[t] \in ExitPcs \cup {"dead"}

\* The children a waitpid call collected stay children of its own process for
\* as long as it waits, so free() takes the child from the caller's set, and
\* each sleeper is in the queue of its own process, where a child's exit looks.
WaitsForOwnChildren ==
    /\ \A t \in Tids : pc[t] \in WaitPcs =>
           /\ proc[t] \notin zombies
           /\ \A c \in args[t].kids : parent[c] = proc[t]
    /\ \A p \in Procs :
           child_exit_wq[p] = {t \in Tids : pc[t] = "asleep" /\ proc[t] = p}

\* Once exit_group has set the flag of a group, or the process is a zombie, no
\* thread that exits later changes the exit code waitpid reports.
ExitCodeFrozen ==
    [][\A p \in zombies \cup group_exited : exit_code'[p] = exit_code[p]]_vars

\* A zombie keeps no children: process.exit() gave them to init and nobody
\* else adds one, when no program uses CLONE_PARENT.
OrphansAdopted == \A p \in zombies : children[p] = {} \/ "parent" \in calls

\* A thread with SIGKILL pending, or on its way out.
Dying(t) == t \in killed \/ pc[t] \in ExitPcs

\* SIGKILL is pending for process p, or a thread took it and ends the group.
GroupDying(p) == p \in shot \/ \E t \in Tids : proc[t] = p /\ pc[t] \in ExitPcs /\ args[t].group

\* SIGKILL is not lost: once it is pending for a thread, that thread stays Dying
\* until it is dead, and a process stays GroupDying until its group_exited flag is
\* set, which it remains.  A dead thread stays dead and gets no signal any more.
KillLasts ==
    [][/\ \A t \in Tids : Dying(t) => Dying(t)' \/ pc'[t] = "dead"
       /\ \A t \in Tids : pc[t] = "dead" => pc'[t] = "dead" /\ t \notin killed'
       /\ \A p \in Tids : GroupDying(p) => GroupDying(p)' \/ p \in group_exited'
       /\ group_exited \subseteq group_exited']_vars

\* No SIGKILL reaches t: it sleeps in waitpid or in another blocking call, from
\* where the signal does not wake it, or it blocks the signal.
Held(t) == pc[t] \in {"asleep", "blocked"} \/ t \in masked

\* SIGKILL from exit_group or tkill ends a thread, unless the thread is Held for
\* ever: in the end no thread is Dying that is not Held.  SIGKILL from kill ends
\* the process: one of its threads takes it and starts the end of the group,
\* unless all of them are Held for ever.  (By KillLasts a thread is Dying from
\* the signal to its death, and a process GroupDying until its flag is set.)
KilledExits ==
    /\ KillLasts
    /\ \A t \in Tids : <>[](Dying(t) => Held(t))
    /\ \A p \in Tids : <>[](GroupDying(p) => p \in group_exited \/ \A t \in threads[p] : Held(t))

\* "for thr in process.threads()": when a thread has begun to end the group
\* every thread of the process comes to an end, or is Held.
GroupEnds == \A t \in Tids : proc[t] \in group_exited ~> pc[t] = "dead" \/ Held(t)

\* waitpid returns once one of the children it waits for has ended, as the
\* tests expect of waitpid(pid, ..) after the child's exit.
WaitReturns ==
    \A t \in Tids : (pc[t] \in WaitPcs /\ args[t].kids \cap zombies # {})
                      ~> (pc[t] \notin WaitPcs)

\* A child is reported with reaping at most once.
ReapedOnce == \A c \in Tids : reaped[c] <= 1
=============================================================================
