----------------------------- MODULE AddrSpace -----------------------------
(***************************************************************************)
(* User address spaces: sys_mmap, sys_munmap, sys_brk (api/src/imp/mm),    *)
(* sys_execve (api/src/imp/task/execve.rs) with load_user_app              *)
(* (core/src/mm.rs), and what sys_clone does with the address space, the   *)
(* heap top and the executable path (api/src/imp/task/clone.rs).           *)
(*                                                                         *)
(* Every one of these calls holds the lock of the address space to its     *)
(* end; loading a program is several steps, one per file that is read.     *)
(* The library's AddrSpace (external) maps, unmaps and finds free ranges.  *)
(***************************************************************************)
EXTENDS Integers, FiniteSets

CONSTANTS Procs, FirstProc,
          PAGE_SIZE_4K, SpacePageCount, \* addresses are 0 .. SpacePageCount * PAGE_SIZE_4K - 1
          ImagePages, StackPages, Trampoline,
          USER_HEAP_BASE, USER_HEAP_SIZE,
          Files, Kind,                  \* Kind[f]: "elf", "invalid" or f's interpreter
          MmapArgs, MunmapArgs, Breaks, \* arguments of the calls
          ExecArgs,                     \* << path, argv[0] >> of execve
          CloneKinds                    \* subset of {"thread", "fork", "vm"}

SpacePages == 1 .. SpacePageCount - 1  \* page 0 lies below USER_SPACE_BASE
HeapPages == {i \in SpacePages : /\ USER_HEAP_BASE <= i * PAGE_SIZE_4K
                                 /\ i * PAGE_SIZE_4K < USER_HEAP_BASE + USER_HEAP_SIZE}

SpaceConstants ==
    /\ FirstProc \in Procs
    /\ PAGE_SIZE_4K \in Nat \ {0} /\ SpacePageCount \in Nat
    /\ USER_HEAP_BASE \in Nat /\ USER_HEAP_SIZE \in Nat
    /\ USER_HEAP_BASE % PAGE_SIZE_4K = 0 /\ USER_HEAP_SIZE % PAGE_SIZE_4K = 0
    /\ Kind \in [Files -> {"elf", "invalid"} \cup Files]
    /\ MmapArgs \subseteq [addr : Nat, length : Nat, fixed : BOOLEAN, pages : {1, 2},
                           badFile : BOOLEAN]
    /\ MunmapArgs \subseteq Nat \X Nat /\ Breaks \subseteq Nat
    /\ ExecArgs \subseteq Files \X Files /\ "none" \notin Files
    /\ CloneKinds \subseteq {"thread", "fork", "vm"}

ASSUME SpaceAssumption == SpaceConstants

VARIABLES alive, space,  \* space[p]: the address space of p, named for its first process
          area,          \* area[s][i]: what page i of space s is mapped for
          kernel,        \* the spaces that map the kernel portion (x86_64, riscv64)
          gone,          \* processes that have been dropped
          image,         \* image[s]: args[0] of the program loaded in s, or "none"
          exe_path, heap_top, threads,
          exec_pc,
          path, argv0,   \* arguments of the execve in progress
          arg0           \* args[0] of the load_user_app in progress
spacevars == << alive, space, area, kernel, gone, image, exe_path, heap_top, threads, exec_pc, path, argv0, arg0 >>

exec == << exe_path, exec_pc, path, argv0, arg0 >>

Empty == [i \in SpacePages |-> IF i = Trampoline THEN "trampoline" ELSE "none"]

\* Mutant: the heap is not mapped.
Loaded_no_heap(a) ==
    [i \in SpacePages |-> CASE i \in ImagePages -> "image" [] i \in StackPages -> "stack" [] OTHER -> a[i]]

\* What load_user_app maps: the segments, the stack and the whole heap.
Loaded(a) ==
    [i \in SpacePages |-> CASE i \in ImagePages -> "image"
                       [] i \in StackPages -> "stack"
                       [] i \in HeapPages -> "heap"
                       [] OTHER -> a[i]]

Starts == {i * PAGE_SIZE_4K : i \in SpacePages}
Results == Starts \cup {-1}

SpaceInit ==
    \E f \in Files :
        /\ Kind[f] = "elf"
        /\ alive = {FirstProc} /\ space = [p \in Procs |-> p]
        /\ kernel = {FirstProc} /\ gone = {}
        /\ area = [p \in Procs |-> IF p = FirstProc THEN Loaded(Empty) ELSE Empty]
        /\ image = [p \in Procs |-> IF p = FirstProc THEN f ELSE "none"]
        /\ exe_path = [p \in Procs |-> f]
        /\ heap_top = [p \in Procs |-> USER_HEAP_BASE]
        /\ threads = [p \in Procs |-> 1]
        /\ exec_pc = [p \in Procs |-> "user"]
        /\ path = [p \in Procs |-> f] /\ argv0 = path /\ arg0 = path

\* p is in user mode and the lock of its address space is free.
Free(p) == p \in alive /\ exec_pc[p] = "user" /\ \A q \in alive : space[q] = space[p] => exec_pc[q] # "load"
\* It makes a call: after a failed execve it has no instruction to run.  (A call
\* that waited for the lock while another process that shares the space lost
\* the program this way is left out.)
Calls(p) == Free(p) /\ image[space[p]] # "none"

\* Mutant: the end is rounded down.
align_up_down(a, n) == (a \div n) * n

align_down(a, n) == (a \div n) * n
align_up(a, n) == align_down(a + n - 1, n)
PagesOf(start, end) == {i \in 0 .. SpacePageCount : start \div PAGE_SIZE_4K <= i /\ i * PAGE_SIZE_4K < end}
-----------------------------------------------------------------------------
\* AddrSpace::map_alloc (external) of a range that is free and inside the space.
map_alloc(a, pages) == [i \in SpacePages |-> IF i \in pages THEN "mmap" ELSE a[i]]

\* AddrSpace::unmap (external)
unmap(a, pages) == [i \in SpacePages |-> IF i \in pages THEN "none" ELSE a[i]]

SetArea(p, a) == area' = [area EXCEPT ![space[p]] = a]

\* AddrSpace::find_free_area (external): some aligned free range, near a hint
\* that is only a preference.
find_free_area(a, len, n) ==
    {s \in Starts :
        s % n = 0 /\ PagesOf(s, s + len) \subseteq {i \in SpacePages : a[i] = "none"}}

\* sys_mmap.  The file is looked at only after the range has been mapped; an
\* error there leaves it mapped.
MmapAt(p, m, before, start, len, ret) ==
    IF PagesOf(start, start + len) \subseteq SpacePages /\ len > 0
    THEN /\ SetArea(p, map_alloc(before, PagesOf(start, start + len)))
         /\ ret = IF m.badFile THEN -1 ELSE start
    ELSE SetArea(p, before) /\ ret = -1

\* The range asked for, in pages of the size asked for.
MmapStart(m) == align_down(m.addr, m.pages * PAGE_SIZE_4K)
MmapEnd(m) == align_up(m.addr + m.length, m.pages * PAGE_SIZE_4K)

\* The call of p with arguments m returns ret, an address or -1 for an error.
sys_mmap(p, m, ret) ==
    LET n == m.pages * PAGE_SIZE_4K
        start == MmapStart(m)
        len == MmapEnd(m) - start
        a == area[space[p]]
    IN /\ Calls(p)
       /\ IF m.fixed
          THEN IF start = 0 \/ ~(PagesOf(start, start + len) \subseteq SpacePages)
               THEN UNCHANGED area /\ ret = -1
               ELSE MmapAt(p, m, unmap(a, PagesOf(start, start + len)), start, len, ret)
          ELSE IF find_free_area(a, len, n) = {} THEN UNCHANGED area /\ ret = -1
               ELSE \E s \in find_free_area(a, len, n) : MmapAt(p, m, a, s, len, ret)
       /\ UNCHANGED << alive, kernel, gone, space, image, heap_top, threads, exec >>

MunmapPages(addr, length) == PagesOf(addr, addr + align_up(length, PAGE_SIZE_4K))

\* sys_munmap; the library refuses an address that is not aligned.
sys_munmap(p, addr, length) ==
    /\ Calls(p)
    /\ LET pages == MunmapPages(addr, length) IN
       IF addr % PAGE_SIZE_4K = 0 /\ pages \subseteq SpacePages
       THEN SetArea(p, unmap(area[space[p]], pages)) ELSE UNCHANGED area
    /\ UNCHANGED << alive, kernel, gone, space, image, heap_top, threads, exec >>

\* sys_brk, which does not take the lock.
sys_brk(p, addr) ==
    /\ p \in alive /\ exec_pc[p] = "user"
    /\ heap_top' = [heap_top EXCEPT ![p] =
           IF addr # 0 /\ addr >= USER_HEAP_BASE /\ addr <= USER_HEAP_BASE + USER_HEAP_SIZE
           THEN addr ELSE @]
    /\ UNCHANGED << alive, kernel, gone, space, area, image, threads, exec >>
-----------------------------------------------------------------------------
\* sys_execve up to the call of load_user_app; EAGAIN when there are other
\* threads.  The file that is loaded is argv[0].
ExecBegin(p, file, first) ==
    /\ Calls(p) /\ threads[p] = 1
    /\ SetArea(p, Empty)
    /\ image' = [image EXCEPT ![space[p]] = "none"]
    /\ path' = [path EXCEPT ![p] = file]
    /\ argv0' = [argv0 EXCEPT ![p] = first]
    /\ arg0' = [arg0 EXCEPT ![p] = first]
    /\ exec_pc' = [exec_pc EXCEPT ![p] = "load"]
    /\ UNCHANGED << alive, kernel, gone, space, exe_path, heap_top, threads >>

\* Mutant: the file stays the first argument.
LoadInterp_same(p) ==
    /\ exec_pc[p] = "load" /\ Kind[arg0[p]] \in Files
    /\ UNCHANGED spacevars

\* load_user_app of a script or of a program with an interpreter starts over
\* with the interpreter.
LoadInterp(p) ==
    /\ exec_pc[p] = "load" /\ Kind[arg0[p]] \in Files
    /\ arg0' = [arg0 EXCEPT ![p] = Kind[arg0[p]]]
    /\ UNCHANGED << alive, kernel, gone, space, area, image, exe_path, heap_top, threads, exec_pc, path, argv0 >>

\* The arguments of the call are gone when it returns.
ExecReturn(p, f) ==
    /\ exec_pc' = [exec_pc EXCEPT ![p] = "user"]
    /\ path' = [path EXCEPT ![p] = f]
    /\ argv0' = [argv0 EXCEPT ![p] = f]
    /\ arg0' = [arg0 EXCEPT ![p] = f]

LoadElf(p) ==
    /\ exec_pc[p] = "load" /\ Kind[arg0[p]] = "elf"
    /\ SetArea(p, Loaded(area[space[p]]))
    /\ image' = [image EXCEPT ![space[p]] = argv0[p]]
    /\ exe_path' = [exe_path EXCEPT ![p] = path[p]]
    /\ ExecReturn(p, path[p])
    /\ UNCHANGED << alive, kernel, gone, space, heap_top, threads >>

\* No program: ENOENT, and the old one is gone.
LoadFail(p) ==
    /\ exec_pc[p] = "load" /\ Kind[arg0[p]] = "invalid"
    /\ ExecReturn(p, exe_path[p])
    /\ UNCHANGED << alive, kernel, gone, space, area, image, exe_path, heap_top, threads >>

\* sys_clone: the new process shares the address space or has a copy; its
\* heap top is that of a new ProcessData.
CloneProcess(p, q, kind) ==
    /\ Calls(p) /\ q \notin alive \cup gone /\ kind # "thread"
    /\ alive' = alive \cup {q}
    /\ IF kind = "vm"
       THEN space' = [space EXCEPT ![q] = space[p]] /\ UNCHANGED << area, image, kernel >>
       ELSE /\ kernel' = kernel \cup {q}  \* copy_from_kernel
            /\ area' = [area EXCEPT ![q] = area[space[p]]]
            /\ image' = [image EXCEPT ![q] = image[space[p]]]
            /\ UNCHANGED space
    /\ exe_path' = [exe_path EXCEPT ![q] = exe_path[p]]
    /\ heap_top' = [heap_top EXCEPT ![q] = USER_HEAP_BASE]
    /\ UNCHANGED << gone, threads, exec_pc, path, argv0, arg0 >>

\* Threads come and go; only their number matters here.
CloneThread(p) ==
    /\ Calls(p) /\ threads[p] = 1 /\ "thread" \in CloneKinds
    /\ threads' = [threads EXCEPT ![p] = 2]
    /\ UNCHANGED << alive, kernel, gone, space, area, image, heap_top, exec >>
ThreadExit(p) ==
    /\ Calls(p) /\ threads[p] = 2
    /\ threads' = [threads EXCEPT ![p] = 1]
    /\ UNCHANGED << alive, kernel, gone, space, area, image, heap_top, exec >>

\* ProcessData::drop, when a process has exited and its parent has reaped it.
\* The first process ends with the system.
drop(p) ==
    /\ Free(p) /\ threads[p] = 1 /\ p # FirstProc
    /\ alive' = alive \ {p} /\ gone' = gone \cup {p}
    /\ kernel' = kernel \ {space[p]}
    /\ UNCHANGED << space, area, image, heap_top, threads, exec >>

Load(p) == LoadInterp(p) \/ LoadElf(p) \/ LoadFail(p)

SpaceNext ==
    \E p \in Procs :
        \/ \E m \in MmapArgs, ret \in Results : sys_mmap(p, m, ret)
        \/ \E m \in MunmapArgs : sys_munmap(p, m[1], m[2])
        \/ \E b \in Breaks : sys_brk(p, b)
        \/ \E e \in ExecArgs : ExecBegin(p, e[1], e[2])
        \/ Load(p)
        \/ \E q \in Procs, k \in CloneKinds : CloneProcess(p, q, k)
        \/ CloneThread(p) \/ ThreadExit(p) \/ drop(p)

SpaceSpec == SpaceInit /\ [][SpaceNext]_spacevars
\* A system call that loads a program keeps running.
SpaceFairSpec == SpaceSpec /\ \A p \in Procs : WF_spacevars(Load(p))
-----------------------------------------------------------------------------
(* Properties *)

\* Every variable has the shape its declaration comment says.
SpaceTypeOK ==
    /\ alive \subseteq Procs /\ gone \subseteq Procs \ alive /\ kernel \subseteq Procs /\ space \in [Procs -> Procs]
    /\ area \in [Procs -> [SpacePages -> {"none", "trampoline", "image", "stack", "heap", "mmap"}]]
    /\ image \in [Procs -> Files \cup {"none"}]
    /\ exe_path \in [Procs -> Files]
    /\ heap_top \in [Procs -> USER_HEAP_BASE .. USER_HEAP_BASE + USER_HEAP_SIZE]
    /\ threads \in [Procs -> {1, 2}]
    /\ exec_pc \in [Procs -> {"user", "load"}]
    /\ path \in [Procs -> Files] /\ argv0 \in [Procs -> Files] /\ arg0 \in [Procs -> Files]

\* When mmap succeeds, every page of the length bytes from the address it
\* returns is mapped, whatever the alignment of address and length and the
\* page size; with MAP_FIXED the requested bytes are covered.  Only MAP_FIXED
\* replaces: without it, and when mmap fails before or after it has mapped its
\* range, no page that was mapped is lost or remapped.
MmapExact ==
    [][area' # area => \A p \in Procs, m \in MmapArgs, ret \in Results :
          sys_mmap(p, m, ret) =>
              LET a == area'[space[p]]
              IN /\ ret \in Starts => \A i \in PagesOf(ret, ret + m.length) : a[i] = "mmap"
                 /\ ret \in Starts /\ m.fixed =>
                        \A i \in PagesOf(m.addr, m.addr + m.length) : a[i] = "mmap"
                 /\ ~m.fixed => \A s \in Procs, i \in SpacePages :
                                   area[s][i] # "none" => area'[s][i] = area[s][i]]_spacevars

\* The programs leave the heap alone, with munmap and with MAP_FIXED, and so do
\* the image and the stack (the constants of the configuration).
HeapLeftAlone ==
    /\ HeapPages \cap (ImagePages \cup StackPages) = {}
    /\ \A m \in MunmapArgs : MunmapPages(m[1], m[2]) \cap HeapPages = {}
    /\ \A m \in MmapArgs : m.fixed => PagesOf(MmapStart(m), MmapEnd(m)) \cap HeapPages = {}

ASSUME HeapAssumption == HeapLeftAlone

\* The heap below heap_top is mapped in every process that has a program, after
\* any sequence of brk, fork, vfork-like clones, execve and failed execve, as
\* long as the programs themselves do not unmap it.  A living process has lost
\* the kernel's mappings only if a process that shared its space is gone.
SpaceUsable ==
    /\ SpaceTypeOK
    /\ \A p \in alive : \A i \in HeapPages :
        image[space[p]] # "none" /\ i * PAGE_SIZE_4K < heap_top[p] => area[space[p]][i] = "heap"
    /\ \A p \in alive : space[p] \in kernel \/ \E q \in gone : space[q] = space[p]

\* Following the interpreters from f comes back to a file already seen.
Cyclic(f) == \E s \in SUBSET Files : f \in s /\ \A g \in s : Kind[g] \in s

\* A process is shut out of its address space for ever only by an execve, its
\* own or that of a process that shares the space, whose interpreters form a
\* cycle: load_user_app then calls itself without end, with the lock held.
LockComesFree ==
    \A p \in Procs :
        p \in alive ~> \/ p \notin alive \/ Free(p)
                       \/ \E q \in alive : /\ space[q] = space[p] /\ exec_pc[q] = "load"
                                            /\ Cyclic(arg0[q])

\* "The first argument is the path of the user app": a process runs the program
\* its execve was asked for.
ExecRunsPath ==
    \A p \in alive : image[space[p]] # "none" /\ exec_pc[p] = "user" => image[space[p]] = exe_path[p]

\* "the kernel portion of the address space will be copied to the user address
\* space": as long as a process lives, its address space maps the kernel.
KernelMapped == \A p \in alive : space[p] \in kernel
=============================================================================
