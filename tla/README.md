# A TLA+ model of the Vegar kernel

Vegar is a monolithic kernel in Rust on top of the ArceOS components: the crate
`core` holds the state of processes (`core/src/task.rs`, `mm.rs`, `futex.rs`,
`time.rs`), the crate `api` implements the Linux system calls
(`api/src/imp/...`, `api/src/file/...`), and `src/` is the entry point with the
system call table, the page fault handler and the way back to user mode. It is
built with `smp` (Cargo.toml) and tested with `SMP=4`
(`scripts/oscomp_test.sh`), so system calls of different threads really run side
by side. In every module a thread is an actor, and one step is what runs under
one acquisition of one lock (or one access to shared user memory); where the
code drops a lock and takes it again, other threads come in between.

Libraries that are not in the repository (axprocess, axtask's WaitQueue and
scheduler, axsignal, FlattenObjects, axfs, axmm's AddrSpace) are modelled from
how the code uses them; those definitions are marked external in PROJECT.json.

## Parts of the system

| part | source | module |
|---|---|---|
| pipes | `api/src/file/pipe.rs` | Pipe, PipeChannel, PipeProofs |
| clone, exit, wait, kill of threads and processes | `api/src/imp/task/{clone,exit,wait}.rs`, `api/src/signal.rs`, `api/src/imp/signal.rs`, tables of `core/src/task.rs` | ProcessLife, ProcessLifeProofs |
| futexes | `core/src/futex.rs`, `api/src/imp/futex.rs` | Futex, FutexQueues, FutexProofs |
| descriptor tables | `api/src/file/mod.rs`, `api/src/imp/fs/{fd_ops,pipe}.rs` | FdTable, FileIoProofs |
| read, write, seek, console | `api/src/imp/fs/io.rs`, `api/src/file/{fs,stdio}.rs` | FileIo, FileIoProofs |
| hard links | `api/src/path.rs`, `api/src/imp/fs/ctl.rs` | HardLinks, HardLinksProofs |
| getdents64 | `api/src/imp/fs/ctl.rs`, `api/src/file/fs.rs` | GetDents, HardLinksProofs |
| mount table | `api/src/imp/fs/mount.rs`, `api/src/path.rs` | Mount, TimeMountProofs |
| user memory in the kernel | `api/src/ptr.rs`, `core/src/mm.rs`, `src/mm.rs` | UserAccess, MemoryProofs |
| address spaces, execve | `api/src/imp/mm/*.rs`, `api/src/imp/task/execve.rs`, `core/src/mm.rs`, `core/src/task.rs` | AddrSpace, MemoryProofs |
| signals | `api/src/imp/signal.rs`, `api/src/signal.rs`, `core/src/task.rs` | Signals, SignalsProofs |
| CPU times, clocks, nanosleep | `core/src/time.rs`, `api/src/time.rs`, `api/src/imp/time.rs`, `api/src/imp/task/schedule.rs`, `src/syscall.rs` | TimeStat, TimeMountProofs |
| stat, sockets, uname and uids, dispatch | `api/src/...`, `src/syscall.rs` | not modelled, see the end |

How they meet: `do_exit` is the meeting point. It clears the futex word of the
thread (Futex), removes the thread from its group, ends the process and tells the
parent (ProcessLife), clears the descriptor table (FdTable), which drops pipe
ends (Pipe), and on a group exit sends SIGKILL (ProcessLife has the exit by
SIGKILL, Signals its delivery). `sys_clone` shares or copies the descriptor table
(FdTable) and the address space (AddrSpace). Each module holds the part of these
two handlers that touches its own state. FileIo extends FdTable: reads and writes
run against the tables that other threads change under them.

## Modules, state and actions

Names are those of the code where TLA+ allows it. For every module `M` there is a
module `MCM` with the constants of its runs (MCFileIo for FdTable).

**Pipe.** `arr, head, tail, status` are PipeRingBuffer, `lock` its mutex, `fds`
counts the descriptors of each end. `pc, call, want, data, left, ret` are the
local state of a thread in `read` or `write`. BeginRead/BeginWrite enter a call;
Lock takes the mutex; WriteEntry is the check of a closed read end on entering
`write`; ReadCheck/WriteCheck are the head of the loop (the available count, a
closed peer, dropping the mutex to yield); ReadByte/WriteByte are one iteration of
the copy loop. DupFd and CloseFd change the descriptors. An end lives while a
descriptor or a running call holds its Arc. PipeChannel is what a pipe promises: a
queue of bytes, of bounded length, in which Put appends, Get takes the front, Eof
needs an empty queue without writers, and BrokenPipe a channel without readers.
The refinement mapping takes `q` to the bytes from `head` on, `open` to the ends
somebody holds, `got` to the buffer of the read call.

**ProcessLife.** Task ids, threads of a process, the tree (`parent, children,
zombies`), `exit_code, group_exited`, SIGKILL pending for threads (`killed`) and for
processes (`shot`), SIGCHLD, `child_exit_wq`. KernelStep has the steps of clone (with
its failures), do_exit, waitpid and the sends of kill, UserCall enters them,
check_signals is the exit of a killed thread on its way to user mode, unless the thread is
in `masked`: sys_rt_sigprocmask lets a program block SIGKILL. BlockingCall stands for the
calls that sleep elsewhere (futex, nanosleep, pipe, sigsuspend). What kill and
tkill find is what the weak maps of `core/src/task.rs` still hold: `processes`,
`get_process` and `get_thread` are computed from the rest of the state.

**Futex.** User words, the table from addresses to wait queues, the queues, and the
WaitQueueGuards that threads hold. WAIT compares, gets the queue, reads the timeout (or
fails), sleeps, times out; WAKE, REQUEUE and CMP_REQUEUE notify one thread at a time;
dropping a guard may remove the entry; exit writes 0 to `clear_child_tid` and wakes one
thread. A queue holds *places*. A timeout gives up the places of its thread in the queue
where it went to sleep (`wait_timeout` is called on that queue), and not one that a
REQUEUE has moved to another queue: such a thread is in `strayed`, and the place it left
behind may take a notification or end a later wait of the thread.
FutexQueues is what this promises: a queue of places for every address. Sleep appends
the caller to the queue of the address of its call, Wake takes the first place from it,
Requeue moves the first ones behind those of the second address, which may be the same,
TimeOut gives up the places at the address of the call, and Turn begins or ends a call.
It knows no table, guards or reference counts. The mapping takes `waiting` at an address
to the queue the table has for it, or to the empty one, `asleep` to the threads that
sleep, in whatever queue, and `at`, `at2` to the addresses of the calls.

**FdTable.** The tables, who uses which, and the object a call holds between two
acquisitions of the lock. open, close, dup (get, then add), dup2 (which
removes what the target held), pipe2 (two adds and the undo), clone with a
shared or copied table. Exit is three steps: the thread leaves its group, the process
becomes a zombie (and its parent may know), FD_TABLE.clear.

**FileIo.** FdTable with the calls that use descriptors. `io[t]` is a read, readv,
write or writev of thread t: IoLookup checks the next buffer and looks the
descriptor up, FileRead, FileWrite, StdoutWrite and read_blocked are the transfer under
the lock of the object, DirRefuses, WayRefuses and FileFails its errors. A write to a
file may be short, and axfs may fail. A pipe has PipeRead, PipeEnter (EPIPE when
nobody can read) and PipeWrite; how many bytes it moves is open here, and whether an end
is closed follows from the descriptors and the calls in progress. The console is a
sequence of keys (`Input`) of which `typed` have been pressed and `taken` read;
`buffer` is the BufReader, `seen` what programs got. `offset` and `length` are axfs's.

**HardLinks.** `links` and `ref_counts` of HardlinkManager and the paths that
exist. linkat resolves two names, checks them and updates; unlinkat resolves,
checks and removes; creation of files and removal of directories are the
environment.

**GetDents.** A directory as lengths of names, the position of read_dir, the kept
entry (`last_dirent`), the buffer. Begin enters a call; Step resumes with the kept
entry, reads entries until one does not fit, or fails.

**Mount.** The list MOUNTED and the directories that exist; mount has its five
steps (the checks take and drop the lock before the push), umount2 its two. Paths
are sequences of characters because the code compares prefixes of strings.

**UserAccess.** Pages that are mapped and present, which thread runs on which CPU,
the per-CPU flag. Begin enters access_user_memory, CheckPage and ReadElement are
the loop of check_null_terminated; check_region gives a region its frames and
UseRegion is the caller touching it later, without lock or flag; handle_page_fault is
the handler (not handled, populate, or end the thread), Switch gives a CPU to another
thread, Map and Unmap are other threads. The lock of the address space is a sleeping one:
a thread in LockSpace may be preempted with it, and one that needs it meanwhile, also
inside the closure (CheckSleeps) or in the handler (FaultResumes goes on after it),
sleeps and resumes on any CPU. `home` is where a thread entered the closure, whose flag
it clears in the end; `contended` remembers the CPUs where one slept or resumed inside
it, `since` what was unmapped since a check.

**AddrSpace.** What each page of each space is mapped for, whether the kernel
portion is mapped, the program loaded, heap top, exe path, threads. sys_mmap,
sys_munmap, sys_brk; ExecBegin and Load (one step per file, so that a script is
followed by its interpreter); CloneProcess, CloneThread, ThreadExit, and drop of
ProcessData.

**Signals.** Actions, masks, pending sets, the wait queue of the process, the stack of
handler frames of each thread. sys_kill, sys_tkill and the two queueinfo calls put a
signal and notify one sleeper; PostTrap is check_signals on every return to user mode;
sigprocmask, sigaction, sigreturn are one step; sigsuspend and sigtimedwait are begin,
check, sleep and (timedwait) timeout. `umask` is not in the code: it remembers the mask
the program set outside of handlers, and `astray` the threads that a signal with the
action "continue" took out of sigsuspend since. Handlers themselves only return: the mask,
action and wait calls are made outside of them.

**TimeStat.** The clock, the counters and time stamps of TimeStat, and what really
passed in each mode. EnterSyscall and LeaveSyscall are the two switches around a
system call, Tick passes time, Preempt takes the thread off or on a CPU. Between the
switches a call may be sys_times, sys_clock_gettime, sys_gettimeofday or sys_nanosleep
(NapBegin, NapEnd); times are nanoseconds, and the conversions of `api/src/time.rs` are
division and remainder by NANOS_PER_SEC and NANOS_PER_MICROS, here small numbers.
CLOCK_REALTIME and gettimeofday read the wall clock, which is ahead of the monotonic one
by EPOCH_OFFSET; a clock that sys_clock_gettime does not know is EINVAL.

## Runs

There is one run for each model (FdTable and FileIo share one). It checks the safety and
the liveness properties together, on one instance. The run `process_wait` has the
expected result "violation": it checks a statement of a test that the code does not keep
(PROJECT.json quotes it under `findings`).

| run | shows |
|---|---|
| `pipe` | NoOverrun: no byte into a full ring or out of an empty one; CallAccounting: a call returns what it moved, and an error or a short count only when the peer is gone; ImplementsChannel; BlockedCallReturns: a blocked call returns when the other end is closed |
| `process` | TreeOK: parents and children agree; OneLastThread: exactly one thread ends the process; WaitsForOwnChildren; OrphansAdopted; ExitCodeFrozen: after exit_group or the end of the process no exit changes its code; KilledExits: a thread or a process with SIGKILL pending exits, unless it sleeps in waitpid or another call, where nothing wakes it, or blocks the signal; until then no step takes the signal away (KillLasts) |
| `process_wait` (violation) | waitpid misses the exit between its look at the children and its sleep |
| `futex` | GuardsKeepEntry: the queue a guard refers to is the one in the table, and queues of two addresses are apart; SleepersReachable: each sleeper has a place in a queue that the table has, and only one, unless a requeue moved it before a timeout; ImplementsQueues: in any interleaving the table is one first-in first-out queue per address; TimedWaitReturns; ExitWakesSleeper: the exit of a thread releases the first sleeper at its clear_child_tid |
| `files` | NoOrphanDescriptor: a table that no living thread uses is empty; ZombiesClose: the descriptors of processes that have ended get closed; InputExact: readers of the console get every byte once and in order; ResultHonest: read and write return what they moved, and an error hides moved bytes only after a bad buffer, a changed descriptor, an error of the file system or the end of a pipe's readers; InputRead: input does not lie unread while a thread waits for it |
| `hard_links` | RefCountsExact: a count is the number of links to the target |
| `time` | NoUnderflow; SystemTimeExact: the system time is what the calls took; SleepsEnough: nanosleep is never short; ReportsGrow: no clock or CPU time that a program reads goes back, nor do CLOCK_REALTIME and gettimeofday read in turn. Nothing is checked of the user time, see below |
| `getdents` | NoEntryLost (and nothing given twice or out of order, also when read_dir fails, and 0 only at the end); NeverPastBuffer; AllGiven |
| `mount` | UmountClears: umount2 removes every entry of its directory, also after two racing mounts of it, and no other, and reports success exactly when there was one |
| `user_access` | FaultsHandled: a fault inside a scan is not taken for a kernel fault on a CPU where no scan has slept on the lock of the address space; ScanExact; RegionReady: a checked region has frames unless it was unmapped since |
| `addr_space` | MmapExact: a mapping covers what was asked for and only MAP_FIXED replaces another; SpaceUsable: the heap below the break is mapped, and the kernel is unless a process that shared the space has ended; LockComesFree: only an execve with a cycle of interpreters keeps the lock of a space for ever |
| `signals` | MaskRestored: outside of handlers and sigsuspend the mask is the one the program set, unless a continue ended its last sigsuspend; NoRecursion: a handler is not entered again for its signal; SleepersQueued: the queue holds the sleepers, each once; WaitsReturn: timed waits, and sigsuspend with a signal pending, come back; KillEnds: SIGKILL ends a process that has a running thread, where no thread blocks it |

One property of each run has the module's TypeOK as its first conjunct (CallAccounting,
TreeOK, GuardsKeepEntry, NoOrphanDescriptor, RefCountsExact, NoUnderflow,
NeverPastBuffer, UmountClears, ScanExact, SpaceUsable, SleepersQueued).

Every property of a passing run has a mutant in the module it is about: a variant
of one definition, as a plausible slip in that code would make it, for which TLC
finds the property violated. The variants stand before the definition they change.

### Statements the code does not keep

Besides WaitReturns, the modules define statements that a comment, an assertion or
a test makes and that TLC refutes. They are in no configuration of this directory;
to see one fail, put it in place of the properties of the module's run, with the
constants changed as the last column says.

| statement | where it is made | what the code does | change |
|---|---|---|---|
| StoredWriteReturns (Pipe) | `api/src/imp/fs/io.rs:59` "Return the written size if success." | a write whose last byte fills the ring waits for a reader although all is stored (`pipe.rs:163`) | none |
| ReapedOnce (ProcessLife) | `apps/nimbos/rust/src/bin/exit.rs:27` `assert!(waitpid(pid, None, 0) < 0);` | two threads of a process that wait side by side both report the child (`wait.rs:92`) | `WaitOptions <- Blocking` |
| GroupEnds (ProcessLife) | `api/src/imp/task/exit.rs:54` `for thr in process.threads()`: the group is killed | a thread that joins the group after the loop gets no SIGKILL and runs on (`clone.rs:211`) | none |
| JoinReturns (Futex) | `api/src/imp/task/clone.rs:56` "do a wakeup on the futex at that address" | the wake of an exit falls between the comparison and the sleep of FUTEX_WAIT (`imp/futex.rs:29`) | none |
| NotificationsRelease (Futex) | `api/src/imp/futex.rs:47-50`: a notify_one that succeeds is counted as a thread woken | wait_timeout gives up only in the queue it slept in, so the place of a thread that REQUEUE moved before its timeout takes a notification, or ends the thread's next wait (`imp/futex.rs:35`, `:74`) | none |
| Dup2NeverPanics (FdTable) | `api/src/imp/fs/fd_ops.rs:141` `panic!("new_fd should be valid")` | dup2 does not compare new_fd with the size of the table | `Dup2Targets <- AnyTargets` |
| Pipe2NeverPanics (FdTable) | `api/src/imp/fs/pipe.rs:21` `close_file_like(read_fd).unwrap()` | another thread may have closed the read end before pipe2 takes it back | none |
| ZombieHoldsNothing (FdTable) | `api/src/imp/task/exit.rs:47` "clear namespace resources" comes after the parent was told | a parent that waited for a child may still find the child's descriptors open (`exit.rs:49`) | none |
| ReadvReturnsWhatThereIs (FileIo) | `api/src/file/stdio.rs:59` "Block until at least one byte is read." | readv whose first buffer is full blocks again for the second one (`io.rs:46`) | none |
| TargetsAreFiles (HardLinks) | `api/src/path.rs:203`: a target that is no file gives NotFile | create_link accepts directories and refuses files (`path.rs:208`) | none |
| UserTimeBounded (TimeStat) | `api/src/imp/time.rs:36` "user time" | the previous system call is added to the user time (`core/src/time.rs:68`) | none |
| SleepSucceeds (TimeStat) | `api/src/imp/task/schedule.rs:16` "should be woken by signals": EINTR is for them | a sleep that ends on the nanosecond is an EINTR with nothing left (`schedule.rs:34`) | none |
| ReportedIsMounted (Mount) | `api/src/imp/fs/mount.rs:140` "check if a path is mounted" | `/ab` counts as below the mounted `/a` (`path.rs:102`) | none |
| MountedIsReported (Mount) | `api/src/path.rs:14`: a FilePath is normalised | `/a` is not found below the mounted `/a/` | none |
| ScanNeverRefused (UserAccess) | `core/src/mm.rs:206` "allowing page faults to occur inside kernel" | the closure sleeps on the lock of the address space (`ptr.rs:62`, `src/mm.rs:26`) and resumes on a CPU whose flag is not set, or another scan clears the flag meanwhile; the next fault is then a kernel fault | none |
| FlagMeansAccess (UserAccess) | `core/src/mm.rs:217` "Check if the current thread is accessing user memory." | a thread that ends inside the scan leaves the flag of its CPU set | none |
| RegionUsable (UserAccess) | `api/src/ptr.rs:74` "The pointer is valid and points to a valid memory region." | another thread unmaps a checked region before it is used, and the kernel faults outside access_user_memory (`ptr.rs:27`) | none |
| ExecRunsPath (AddrSpace) | `core/src/mm.rs:104` "The first argument is the path of the user app." | execve loads argv[0], not path (`execve.rs:50`) | `ExecArgs <- AnyArgs` |
| KernelMapped (AddrSpace) | `core/src/mm.rs:24` "the kernel portion of the address space will be copied" | dropping a CLONE_VM child unmaps the kernel from its living parent's space (`core/src/task.rs:276`) | none |
| SuspendReturns (Signals) | `apps/libc/c/signal/signal.c:137-139`: `kill` of a suspended child, then `wait` | sigsuspend misses a signal between its check and its sleep (`imp/signal.rs:266`) | none |
| SuspendRestores (Signals) | `api/src/imp/signal.rs:256,263`: `old_blocked` is kept and passed on as the mask to restore | a signal with the action "continue" ends sigsuspend without a frame, and the temporary mask stays (`api/src/signal.rs:36`) | none |

Two things about SIGKILL contradict no statement of the repository and appear only as
exceptions of KilledExits and KillEnds: sys_rt_sigprocmask does not take it out of the
mask (`imp/signal.rs:49-55`; sigsuspend does, `:253-254`), so that a thread which blocks
it is not ended by it; and a thread that blocks it may take it by sigtimedwait, whereupon
nobody else gets it. In the same way LockComesFree excepts a script that names itself, or
interpreters in a cycle, for which load_user_app recurses without end
(`core/src/mm.rs:129`).

### Bounds, and why they are enough

- Pipe: a ring of two bytes and buffers that are empty, as long as it and longer, so
  indices wrap, calls block half way, and full and empty have equal indices;
  two threads, so readers and writers compete and an end can be held by a call
  alone. MaxFds 2 lets an end be duplicated. The safety results are proved without
  these bounds.
- ProcessLife: MaxTid 3 gives a process with two threads and a child, or three
  generations, so a parent, an orphan and its new parent are distinct. One exit
  code besides that of SIGKILL tells codes apart. Task ids are used once. A program
  uses one of five sets of calls: fork, threads, exit and wait; threads with kill and
  tkill; forks with kill; threads with kill that block SIGKILL or sleep; clones with
  CLONE_PARENT. With the last a child can be attached
  to a process that has exited, which nobody adopts: OrphansAdopted excepts it.
- Futex: three threads on two addresses, with a role for each: one waits with a timeout
  or exits, one waits without, one wakes or requeues. So one thread sleeps while another is
  woken and a guard is dropped, a timeout meets a wake and a requeue, and an exit meets a
  sleeper. Counts 0 and 1 are no wake and fewer than there may be; one thread is moved at
  a time (`Moves`). A thread goes to sleep with at most one place left behind
  (`MaxStale`), which is enough for that place to end its next wait. The proofs have
  none of these bounds.
- FdTable and FileIo: programs that use the console, a file, a pipe with threads, or
  everything that changes tables. Two descriptors make a table full after one pipe, which is
  where undo and limits matter; two threads or processes. For reads and writes two
  vectors, whose first buffer is that of the plain calls: one of 0, 1 and 1 bytes, which
  a vector call passes over, fills and fills, and one of 2 bytes and a buffer that is not
  mapped, so that the call fails after it moved something. Two keys and a BufReader of
  two bytes, so that one read takes more than its caller asked for.
- HardLinks: two directories, two files, two threads; relinking and chains occur.
- GetDents: names whose records take 24, 32 and 56 bytes (padded, and exactly full),
  with buffers of no byte, one less than the shortest record, exactly that, and
  exactly the longest; up to four entries.
- Mount: a directory, one inside it, one whose name extends its name, and the first
  with a trailing slash; two mounts.
- UserAccess: three threads on two CPUs, so one can hold the lock, off the CPU, while two
  scan; two pages, an array that crosses into the second and ends there and one that
  does not end; regions of every length from every address, with one page read-only.
- AddrSpace: eight pages of two bytes: one unused, program, two heap pages, two free
  ones, stack, trampoline, so unaligned ranges round to neighbours. The ranges of mmap
  and munmap and the breaks are a few that touch each kind of page; a file that cannot be
  read comes with MAP_FIXED and without. The files are a program, a script of it, a script
  that names itself, and one that is neither.
- Signals: two threads, SIGKILL, a signal that terminates and one that continues by
  default, and at most two signals sent, enough for a handler interrupted by another.
  Programs install handlers, and the mask they set or unset blocks SIGKILL and the signal
  that terminates.
- TimeStat: both clocks and one that the code does not know, a small clock with steps of
  several lengths, and seconds of a few nanoseconds so that every conversion carries;
  proved without the bound.

### Fairness

Weak fairness of a step in the kernel says that a runnable thread is scheduled. The
scheduler is axtask's, with a ready queue per CPU in FIFO order unless another is
configured; the kernel's waiting loops yield or sleep, so this holds unless
programs keep every CPU busy without entering the kernel. Beyond that:

- Pipe: strong fairness of taking the mutex. A blocked reader or writer drops the
  mutex and yields in every round; those that lose sleep in the queue of the mutex
  and are woken by the unlock.
- ProcessLife and Signals: strong fairness of check_signals. Every trap from
  user mode, timer interrupts included, ends in post_trap_callback, so a thread that
  is in user mode again and again passes it.
- Futex and Signals: a timeout is a step of the sleeping thread with weak fairness,
  since the timer fires. A sleep without timeout has none.
- FileIo: weak fairness of a thread inside a call and of the steps of exit, none of a
  transfer that waits at a pipe (PipeStep). A reader of the console polls in a loop that
  yields.
- GetDents: strong fairness of calls with the largest buffer: the program goes on.
- AddrSpace: weak fairness of loading the next file, which an interpreter cycle takes
  for ever. A call that waits for the lock has none: LockComesFree says when it is free.

No fairness is assumed of what programs choose to do, except in GetDents.

## Proofs

Every safety property that a run checks is proved: the invariants, the action properties
ExitCodeFrozen, MmapExact, ReportsGrow and UmountClears, and the refinements of
PipeChannel and FutexQueues. So is KillLasts, the safety part of KilledExits. TLAPS
checks the proofs for every value of the constants that satisfies the ASSUME of the
module. These say what the constants are (their types; finitely many names where
links are counted) and what the code has by construction:

| assumption | beyond types |
|---|---|
| PipeAssumption, FdAssumption, IoAssumption | a ring, a descriptor table and a BufReader of at least one place; the mark of a bad buffer is not a length |
| FutexAssumption | the words include 0 and 1 |
| LifeAssumption | at least one task id |
| SignalAssumption | SIGKILL is a signal and terminates by default |
| TimeAssumption | seconds and microseconds are positive numbers of nanoseconds |
| AccessAssumption, SpaceAssumption | pages of at least one byte, no more CPUs than threads, a heap that begins and ends at a page |
| DirAssumption | names and buffers have lengths |
| HeapLeftAlone | no munmap and no mmap with MAP_FIXED of a program touches its heap, and the image and the stack lie elsewhere. Only HeapMapped uses it: a program that unmaps its own heap has none |

TLC evaluates the same assumptions in every run. Three proof modules hold two components
each (HardLinks and GetDents, UserAccess and AddrSpace, TimeStat and Mount), which is why
the definitions of GetDents, AddrSpace and Mount have names of their own (`DirSpec`,
`SpaceSpec`, `MountSpec`). Each inductive
invariant named below also holds in all states of the component's run.

**PipeProofs** (`TypeCorrect`, `NeverOverruns`, `CallsAccount`, `PipeRefines`), for
every ring size, number of threads and set of buffers. NoOverrun alone is not
inductive: a step of the copy loop relies on a count taken when the loop began. The
inductive invariant adds that the status is Normal exactly when the indices differ
(`RingOK`), so that full and empty cannot be confused, and that a thread in the copy
loop holds the mutex (`MutexOK`), so that the count is still right. CallsAccount adds
for every thread what its call has moved so far and that an end nobody holds never
comes back (`LiveMonotone`). The refinement rests on three lemmas about the bytes
from `head` on: write_byte appends to them, read_byte takes the first, and nothing
else changes them; then every action is a step of PipeChannel or a stutter.

**TimeMountProofs** (`NeverUnderflows`, `SystemTime`, `SleepEnough`, `TimeRunsForward`):
the conjunction of the first two invariants of the run `time` is inductive together with
`NapInv`: a sleep that has a result is over, was long enough, and no remainder other
than zero is ever written. A lemma says that the conversions give natural numbers. For
ReportsGrow the invariant adds that what a program was told of each clock is the
conversion of a time of that clock not later than now (`Shown`), and a lemma that the
conversions, which divide and take remainders, keep the order (`ConvertedInOrder`).

TimeMountProofs, second part (`UmountExact`): Mount for any set of paths and a list of
any length. Types suffice as the invariant; the work is in `retain`, a recursive function
(`kept`) over the list. What it returns is proved by the least counterexample: of the
lengths for which the function were missing or kept too little or too much there would be
a smallest one, and the step before it gives the contradiction (`LeastNat`, `KeptExists`,
`KeptAll`). So the entries left are those with another directory, none is lost, and
the list got shorter exactly when there was one to remove.

**ProcessLifeProofs** (`TreeAgrees`, `LastThreadUnique`, `OwnChildren`,
`ZombiesChildless`, `CodeFrozen`, `SignalNotLost`), for any number of threads and any
calls. None of the properties is inductive; one invariant serves the first five. It says
that the group of a process is the set of its threads that have not left it (`Members`):
that a thread which found its group empty is the last follows, and that nobody joins
later (`Ends`), since only a member of a group clones into it. `Fresh` says who knows a
task id that a clone has taken and not yet used: that thread alone, and until the
process is built nothing in the tree mentions it. `Tree` adds to TreeOK that the process
of a thread is listed or freed even after the thread has left its group, since the last
one then makes it a zombie; `Waits` adds to WaitsForOwnChildren that a collected child
is listed or freed, so that no clone, which sets the parent of an id that is not listed,
can be making it. `SignalNotLost` says that a thread with SIGKILL pending, or on its way
out, stays so until it is dead, and a process that was shot until its group exit is
recorded; nothing undoes either. It needs that no signal is pending for a dead thread
and that the flag of the group is set before its threads are signalled (`KillInv`). It
is why KilledExits need only say that in the end no thread is dying that is not held:
one that was killed can stop dying in no other way than by being dead.

**FileIoProofs** (`ExitCloses`, `InputInOrder`, `ResultsHonest`), for every number of
threads, tables, descriptors, buffers and keys. NoOrphanDescriptor is not inductive by
itself: a thread that dies without clearing anything is harmless only because another
thread of its process is alive and uses the same table. The invariant adds that the
threads of a process share one table (`SharedTable`) and that thread numbers not given
out yet belong to no process and have not run (`Unborn`), so that a new process gets a
table nobody else has. InputExact needs only types: a fill of the BufReader adds
the converted keys at its end, a read takes from its front, and the lemma `Regroup` moves
them across. ResultHonest needs what a call in progress knows (`CallOk`): its result
so far is what it moved, and until it has moved a byte it is at its first object, so an
object that refuses later is another one. What is left are the errors that an object able
to do the transfer can meet (`Excused`): EIO of a file and EPIPE of a pipe.

**HardLinksProofs** (`CountsExact`): RefCountsExact is inductive. The count is the
cardinality of a set of names; a lemma says what adding, moving and removing one name
does to each of these sets, and the theorems on finite sets do the rest.

HardLinksProofs, second part (`EntriesGivenOnce`, `EntriesInBuffer`): GetDents for
directories, names and buffers of any size. NoEntryLost speaks of the time between
calls; the invariant (`DirInv`) says what it comes from during one: the entries given,
then those written to the buffer, then the kept one are all that read_dir has returned,
without a gap while it has not failed (`AllThere`) and in order in any case (`Ordered`);
and the loop ends only with a kept entry or at the end of the directory (`CallState`),
so that a return of 0 is the end.

**MemoryProofs** (`ScanFaultsHandled`, `ScansExact`, `RegionsReady`), for any threads,
CPUs, pages and page sizes. The flag is per CPU, so FaultsHandled needs that no thread is
on two CPUs (`Alone`), that a thread in the closure whose CPU is not contended is still
there, awake and with the flag set, and that on a CPU that is not contended only a thread
that entered the closure there is in it (`Closures`). Preemption is off in `with_current`,
so only the lock of the address space can make the thread leave, and that is what
`contended` records. ScanExact needs where the scan stands between its steps (`Scan`): at
an element of a checked page, or at the first one of the page to check next. Lemmas on
rounding down to pages carry the arithmetic.

MemoryProofs, second part (`HeapMapped`, `MmapMapsAsAsked`): AddrSpace for any
processes, ranges and page sizes. SpaceUsable is not inductive, since brk raises the
break and maps nothing: the invariant (`SpaceInv`) is that a space with a program has its
*whole* heap (`HeapWhole`), and that an id not yet used for a process still names its own
space (`Unborn`), which is the one a fork fills. For MmapExact, lemmas say that
align_down and align_up enclose the range asked for.

**FutexProofs** (`EntriesKept`, `SleepersStayReachable`, `Refinement`), for any threads,
addresses and words. The first part is about the table. The argument: while an entry is
in the table, the entry and the guard being dropped are two references to the queue, so
the count that `drop` tests (`strong_refs`) is never 1 there, the removal in `drop`
never happens, and no queue that somebody can reach ever leaves the table. The second is
about the queues as sequences: taking out the places of one thread, appending one, moving
a prefix to another queue and turning a queue leave every other place where it was, once.
The third joins them: GuardsKeepEntry needs that the guards of a thread belong to the
address of its call; SleepersReachable that a sleeper has a place (`Found`), and that the
places are of sleepers (`Asleep`), one each (`Once`), except those of threads that
strayed. The last part is the refinement of FutexQueues.
Since a thread's guard is the queue that the table has for the address of its call and
no two addresses share one, changing that queue changes the queue of that address and no
other (`OneQueue`, `TwoQueues`); a requeue whose addresses are one turns a single queue
(`RequeueSame`); and a new entry is an empty queue, which the abstract state had already
(`EntryUnseen`). The steps that look up, drop, begin or end are then stutters
or a Turn, the others one call each.

**SignalsProofs** (`HandlersDoNotRecurse`, `MaskIsRestored`, `QueueHoldsSleepers`), for
any number of threads and signals and any number of sent signals. That a handler is not
entered for its own signal needs to know what *all* saved masks are: the invariant
(`NestInv`) says that the mask saved in each frame blocks the signals of the
handlers below it, and the current mask those of all, so that a sigreturn restores
a mask that still protects the outer handlers. `MaskInv` says where the mask of the
program is kept: in the lowest frame, in `old_blocked` during sigsuspend, or in force;
for a thread that a continue took out of sigsuspend nothing is known until it sets its
mask. MaskIsRestored assumes nothing of the actions.

QueueHoldsSleepers: the queue as a sequence has no repetitions and holds exactly
the threads whose label says that they sleep (`Queued`); lemmas say what taking out one
place of a sequence (a timeout), its head (notify_one) and appending do to that.

Only model-checked: the liveness properties BlockedCallReturns, KilledExits,
TimedWaitReturns, ExitWakesSleeper, ZombiesClose, InputRead, AllGiven,
LockComesFree, WaitsReturn and KillEnds: the prover does not do fairness and ENABLED. Of
KilledExits the safety part is proved (`SignalNotLost`).

## What is not modelled

- stat and statx: conversions of attributes that change nothing. Sockets: no system
  call reaches them. uname and uids: constants. sched_yield and the getters.
- Interval timers: never armed by the code. The conversions for the C types other than
  timespec and timeval are the same.
- New process groups and sessions: the code makes none, so all processes are in one.
- mprotect and page permissions beyond read-only regions, the ELF segments (library
  operations on areas), sigaltstack, sigpending.
- Joining and normalising of paths (`handle_file_path`, `FilePath::new`), beyond the
  trailing slash and the prefix test of Mount; chdir, getcwd: string handling over a
  current directory kept by axfs.
- Access rights of open files and O_APPEND, which axfs checks; wrap-around of
  `addr + length` in mmap.
- The system call table, the test programs under `apps/` and the build scripts.

The list `hazards` in PROJECT.json names the places where this code is hard to test,
each with the properties that watch it or the reason why none does.

## Possible next steps

1. A composition of ProcessLife with FdTable and Pipe in one state, so that ZombiesClose
   speaks of the reader of the pipe.
2. FutexQueues for child_exit_wq and the signal queue too, so that one specification
   states which sleeps can miss a wakeup.
3. Path resolution with chdir.
