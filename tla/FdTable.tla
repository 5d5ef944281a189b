------------------------------ MODULE FdTable ------------------------------
(***************************************************************************)
(* File descriptor tables (api/src/file/mod.rs) and the calls that change  *)
(* them: sys_openat, sys_close, sys_dup, sys_dup2, sys_fcntl               *)
(* (api/src/imp/fs/fd_ops.rs), sys_pipe2 (api/src/imp/fs/pipe.rs), the     *)
(* copy or the sharing of the table in sys_clone and its clearing in       *)
(* do_exit.                                                                *)
(*                                                                         *)
(* A step is what runs under one acquisition of the table's RwLock.  An    *)
(* object (Arc<dyn FileLike>) is open while a table or a call in progress  *)
(* refers to it.  After a panic the kernel takes no more steps.            *)
(***************************************************************************)
EXTENDS Integers, FiniteSets, FiniteSetsExt

CONSTANTS MaxTid,        \* threads are 1..MaxTid (bound)
          AX_FILE_LIMIT, \* descriptors are 0..AX_FILE_LIMIT-1
          MaxObjs,       \* objects are numbered up to MaxObjs (bound)
          Dup2Targets,   \* new_fd arguments of sys_dup2
          CallSets       \* sets of calls; the programs use one of them

Tids == 1 .. MaxTid
Fds == 0 .. AX_FILE_LIMIT - 1
NoObj == << "none", 0 >>
Stdin == << "stdin", 0 >>
Stdout == << "stdout", 0 >>
Objs == {Stdin, Stdout} \cup ({"file", "dir", "r", "w"} \X (1 .. MaxObjs))
Empty == [fd \in Fds |-> NoObj]

ASSUME FdAssumption ==
    /\ MaxTid \in Nat \ {0} /\ AX_FILE_LIMIT \in Nat \ {0} /\ MaxObjs \in Nat
    /\ Dup2Targets \subseteq Nat
    /\ \A c \in CallSets :
           c \subseteq {"open", "close", "dup", "dup2", "pipe2", "thread", "files", "copy", "exit",
                         "rw", "vec", "seek", "type"}

VARIABLES
    tables, \* tables[n]: the table made by (or for) thread n
    tab,    \* tab[t]: the table that thread t uses
    proc,   \* proc[t]: the process of t
    nextTid, nextObj,
    pc,     \* where each thread is
    held,   \* held[t]: the object a call in progress refers to
    rfd,    \* rfd[t]: read_fd of sys_pipe2
    zombies,\* processes that have ended
    panicked,
    calls   \* the calls in use; never changes
vars == << tables, tab, proc, nextTid, nextObj, pc, held, rfd, zombies, panicked, calls >>

\* The table init_stdio makes; the first process has a copy.
init_stdio == [fd \in Fds |-> IF fd = 0 THEN Stdin ELSE IF fd < 3 THEN Stdout ELSE NoObj]

Init ==
    /\ tables = [n \in Tids |-> IF n = 1 THEN init_stdio ELSE Empty]
    /\ tab = [t \in Tids |-> 1]
    /\ proc = [t \in Tids |-> 1]
    /\ nextTid = 2 /\ nextObj = 1
    /\ pc = [t \in Tids |-> IF t = 1 THEN "user" ELSE "none"]
    /\ held = [t \in Tids |-> NoObj]
    /\ rfd = [t \in Tids |-> 0]
    /\ zombies = {} /\ panicked = FALSE
    /\ calls \in CallSets

Running(t, label) == pc[t] = label /\ ~panicked
Goto(t, label) == pc' = [pc EXCEPT ![t] = label]
Free(n) == {fd \in Fds : tables[n][fd] = NoObj}
-----------------------------------------------------------------------------
(* FlattenObjects, from how the kernel uses it *)

\* add: the lowest free slot.  The caller deals with a full table.
add(n, o) == tables' = [tables EXCEPT ![n][Min(Free(n))] = o]

remove(n, fd) == tables' = [tables EXCEPT ![n][fd] = NoObj]
-----------------------------------------------------------------------------
\* A call that makes one object and adds it.  When the table is full (EMFILE)
\* the new object is dropped and nothing has changed.
sys_openat(t, kind) ==
    /\ "open" \in calls /\ Running(t, "user")
    /\ nextObj <= MaxObjs /\ Free(tab[t]) # {}
    /\ add(tab[t], << kind, nextObj >>)
    /\ nextObj' = nextObj + 1
    /\ UNCHANGED << tab, proc, nextTid, pc, held, rfd, zombies, panicked, calls >>

sys_close(t, fd) ==
    /\ "close" \in calls /\ Running(t, "user")
    /\ tables[tab[t]][fd] # NoObj
    /\ remove(tab[t], fd)
    /\ UNCHANGED << tab, proc, nextTid, nextObj, pc, held, rfd, zombies, panicked, calls >>

\* dup_fd (sys_dup, F_DUPFD, F_DUPFD_CLOEXEC): look up, then add.
DupGet(t, fd) ==
    /\ "dup" \in calls /\ Running(t, "user")
    /\ tables[tab[t]][fd] # NoObj
    /\ held' = [held EXCEPT ![t] = tables[tab[t]][fd]]
    /\ Goto(t, "dup_add")
    /\ UNCHANGED << tables, tab, proc, nextTid, nextObj, rfd, zombies, panicked, calls >>

DupAdd(t) ==
    /\ Running(t, "dup_add")
    /\ IF Free(tab[t]) = {} THEN UNCHANGED tables ELSE add(tab[t], held[t])
    /\ held' = [held EXCEPT ![t] = NoObj]
    /\ Goto(t, "user")
    /\ UNCHANGED << tab, proc, nextTid, nextObj, rfd, zombies, panicked, calls >>

\* sys_dup2 holds the lock throughout; add_at of a number that is not a
\* descriptor fails and the kernel panics.
sys_dup2(t, old, new) ==
    /\ "dup2" \in calls /\ Running(t, "user")
    /\ tables[tab[t]][old] # NoObj /\ old # new
    /\ IF new \in Fds
       THEN /\ tables' = [tables EXCEPT ![tab[t]][new] = tables[tab[t]][old]]
            /\ UNCHANGED panicked
       ELSE panicked' = TRUE /\ UNCHANGED tables
    /\ UNCHANGED << tab, proc, nextTid, nextObj, pc, held, rfd, zombies, calls >>
-----------------------------------------------------------------------------
(* sys_pipe2: the two ends are added one after the other *)

Pipe2Read(t) ==
    /\ "pipe2" \in calls /\ Running(t, "user")
    /\ nextObj <= MaxObjs /\ Free(tab[t]) # {}
    /\ add(tab[t], << "r", nextObj >>)
    /\ rfd' = [rfd EXCEPT ![t] = Min(Free(tab[t]))]
    /\ held' = [held EXCEPT ![t] = << "w", nextObj >>]
    /\ nextObj' = nextObj + 1
    /\ Goto(t, "pipe2_write")
    /\ UNCHANGED << tab, proc, nextTid, zombies, panicked, calls >>

Pipe2Write(t) ==
    /\ Running(t, "pipe2_write")
    /\ IF Free(tab[t]) # {}
       THEN /\ add(tab[t], held[t])
            /\ Goto(t, "user")
            /\ rfd' = [rfd EXCEPT ![t] = 0]
       ELSE Goto(t, "pipe2_undo") /\ UNCHANGED << tables, rfd >>
    /\ held' = [held EXCEPT ![t] = NoObj]
    /\ UNCHANGED << tab, proc, nextTid, nextObj, zombies, panicked, calls >>

\* inspect_err: close_file_like(read_fd).unwrap().
Pipe2Undo(t) ==
    /\ Running(t, "pipe2_undo")
    /\ IF tables[tab[t]][rfd[t]] = NoObj
       THEN panicked' = TRUE /\ UNCHANGED tables
       ELSE remove(tab[t], rfd[t]) /\ UNCHANGED panicked
    /\ Goto(t, "user")
    /\ rfd' = [rfd EXCEPT ![t] = 0]
    /\ UNCHANGED << tab, proc, nextTid, nextObj, held, zombies, calls >>
-----------------------------------------------------------------------------
\* FD_TABLE.copy_inner
copy_inner(n) == tables[n]

\* sys_clone: a thread of the same process, or a new process that shares the
\* table (CLONE_FILES) or has a copy of it.
sys_clone(t, kind) ==
    /\ kind \in calls /\ Running(t, "user") /\ nextTid \in Tids
    /\ nextTid' = nextTid + 1
    /\ pc' = [pc EXCEPT ![nextTid] = "user"]
    /\ proc' = [proc EXCEPT ![nextTid] = IF kind = "thread" THEN proc[t] ELSE nextTid]
    /\ IF kind = "copy"
       THEN /\ tables' = [tables EXCEPT ![nextTid] = copy_inner(tab[t])]
            /\ tab' = [tab EXCEPT ![nextTid] = nextTid]
       ELSE UNCHANGED tables /\ tab' = [tab EXCEPT ![nextTid] = tab[t]]
    /\ UNCHANGED << nextObj, held, rfd, zombies, panicked, calls >>

Alive(t) == pc[t] \notin {"none", "dead"}
LastOfProcess(t) == \A u \in Tids \ {t} : Alive(u) => proc[u] # proc[t]

\* do_exit: a thread leaves the group; the last one goes on to end the process.
ExitThread(t) ==
    /\ "exit" \in calls /\ Running(t, "user")
    /\ Goto(t, IF LastOfProcess(t) THEN "exit_process" ELSE "dead")
    /\ UNCHANGED << tables, tab, proc, nextTid, nextObj, held, rfd, zombies, panicked, calls >>

\* The process is a zombie, and its parent is told.
ExitProcess(t) ==
    /\ Running(t, "exit_process")
    /\ zombies' = zombies \cup {proc[t]}
    /\ Goto(t, "exit_clear")
    /\ UNCHANGED << tables, tab, proc, nextTid, nextObj, held, rfd, panicked, calls >>

\* Mutant: the table is cleared once nobody else uses it.
ExitClear_waits(t) ==
    /\ Running(t, "exit_clear")
    /\ \A u \in Tids \ {t} : Alive(u) => tab[u] # tab[t]
    /\ tables' = [tables EXCEPT ![tab[t]] = Empty]
    /\ Goto(t, "dead")
    /\ UNCHANGED << tab, proc, nextTid, nextObj, held, rfd, zombies, panicked, calls >>

\* Mutant: nothing is closed.
ExitClear_keep(t) ==
    /\ Running(t, "exit_clear")
    /\ Goto(t, "dead")
    /\ UNCHANGED << tables, tab, proc, nextTid, nextObj, held, rfd, zombies, panicked, calls >>

\* Only then FD_TABLE.clear() empties the table the process used, for
\* everyone who shares it.
ExitClear(t) ==
    /\ Running(t, "exit_clear")
    /\ tables' = [tables EXCEPT ![tab[t]] = Empty]
    /\ Goto(t, "dead")
    /\ UNCHANGED << tab, proc, nextTid, nextObj, held, rfd, zombies, panicked, calls >>
-----------------------------------------------------------------------------
\* sys_dup, and sys_fcntl with F_DUPFD or F_DUPFD_CLOEXEC; other commands of
\* sys_fcntl change no descriptor.
sys_dup(t, fd) == DupGet(t, fd)
sys_fcntl(t, fd) == DupGet(t, fd)

\* A call that is in the kernel goes on.
KernelStep(t) ==
    DupAdd(t) \/ Pipe2Write(t) \/ Pipe2Undo(t) \/ ExitProcess(t) \/ ExitClear(t)

UserCall(t) ==
    \/ \E k \in {"file", "dir"} : sys_openat(t, k)
    \/ \E fd \in Fds : sys_close(t, fd) \/ sys_dup(t, fd) \/ sys_fcntl(t, fd)
    \/ \E old \in Fds, new \in Dup2Targets : sys_dup2(t, old, new)
    \/ Pipe2Read(t) \/ ExitThread(t)
    \/ \E k \in {"thread", "files", "copy"} : sys_clone(t, k)

Next == \E t \in Tids : KernelStep(t) \/ UserCall(t)
Spec == Init /\ [][Next]_vars
-----------------------------------------------------------------------------
(* Properties *)

\* Every variable has the shape its declaration comment says.
TypeOK ==
    /\ tables \in [Tids -> [Fds -> Objs \cup {NoObj}]]
    /\ tab \in [Tids -> Tids] /\ proc \in [Tids -> Tids]
    /\ nextTid \in 1 .. MaxTid + 1 /\ nextObj \in 1 .. MaxObjs + 1
    /\ pc \in [Tids -> {"none", "user", "dup_add", "pipe2_write", "pipe2_undo",
                        "exit_process", "exit_clear", "dead"}]
    /\ held \in [Tids -> Objs \cup {NoObj}]
    /\ rfd \in [Tids -> Fds]
    /\ zombies \subseteq Tids /\ panicked \in BOOLEAN /\ calls \in CallSets

\* A descriptor is in the table of a live thread: when the last process that
\* uses a table has exited, do_exit has closed all of it, whatever the
\* threads of the process were doing.  An object such as a pipe's write end is
\* therefore open only on behalf of something that can still close it.
NoOrphanDescriptor ==
    /\ TypeOK
    /\ \A n \in Tids : tables[n] # Empty => \E t \in Tids : Alive(t) /\ tab[t] = n

\* A process becomes a zombie, and its parent may know, before its descriptors
\* are closed; they are closed all the same: once every process that uses a
\* table is a zombie the table becomes empty, so that the reader of a pipe whose
\* writers have all exited comes to see the end of the data.
ZombiesClose ==
    \A n \in Tids :
        (\A t \in Tids : Alive(t) /\ tab[t] = n => proc[t] \in zombies)
            ~> (tables[n] = Empty \/ panicked)

\* A process that waitpid reports has no open descriptor left.
ZombieHoldsNothing ==
    \A t \in Tids : proc[t] \in zombies /\ Alive(t) => tables[tab[t]] = Empty

\* sys_dup2 trusts that new_fd is a descriptor the table can hold.
Dup2NeverPanics == ~panicked

\* sys_pipe2 trusts that the descriptor it added is still there to be closed.
Pipe2NeverPanics == ~panicked
=============================================================================
