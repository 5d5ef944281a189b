----------------------------- MODULE UserAccess -----------------------------
(***************************************************************************)
(* User memory inside the kernel (api/src/ptr.rs): reading an array up to  *)
(* its end (check_null_terminated) under the per-CPU flag of               *)
(* access_user_memory (core/src/mm.rs), checking a region (check_region)   *)
(* and using it later, and the page fault handler (src/mm.rs), while other *)
(* threads of the process map and unmap pages.                             *)
(*                                                                         *)
(* Memory is an array of PageCount pages of PAGE_SIZE elements.  The       *)
(* contents do not change.  A page is mapped when the address space has an *)
(* area for it and present when a frame has been allocated for it.         *)
(*                                                                         *)
(* The address space is behind a sleeping lock (axsync::Mutex, external):  *)
(* a thread that finds it held sleeps, also inside access_user_memory, and *)
(* resumes on any CPU.                                                     *)
(***************************************************************************)
EXTENDS Integers, FiniteSets

CONSTANTS Threads, Cpus,
          PAGE_SIZE, PageCount,
          Zeros,        \* addresses whose element is T::default()
          Arrays,       \* addresses where the arrays that are scanned start
          ReadOnly,     \* pages whose areas are not writable
          Uses,         \* subset of {"scan", "region"}; the programs use one
          Interrupts    \* whether a thread may be descheduled in user mode

Pages == 0 .. PageCount - 1
Addrs == 0 .. PageCount * PAGE_SIZE - 1

ASSUME AccessAssumption ==
    /\ PAGE_SIZE \in Nat \ {0} /\ PageCount \in Nat \ {0}
    /\ Zeros \subseteq Addrs /\ Arrays \subseteq Addrs /\ ReadOnly \subseteq Pages
    /\ Uses \subseteq {"scan", "region"}
    /\ Interrupts \in BOOLEAN /\ "none" \notin Cpus
    /\ Cardinality(Cpus) <= Cardinality(Threads)

VARIABLES mapped, present,
          running,            \* running[c]: the thread on CPU c
          ACCESSING_USER_MEM, \* the flag of each CPU
          asleep,             \* threads that sleep on the lock of the address space
          home,               \* home[t]: the CPU where t entered access_user_memory, or "none"
          contended,          \* CPUs where a thread slept or resumed inside it (history)
          pc, start, len,
          page,               \* page[t]: the next page to check
          since,              \* since[t]: pages unmapped since t checked its region (history)
          panicked,           \* where the handler has returned FALSE, or "no"
          use                 \* the kind of access in use; never changes
vars == << mapped, present, running, ACCESSING_USER_MEM, asleep, home, contended, pc, start, len,
           page, since, panicked, use >>
closure == << ACCESSING_USER_MEM, home >>

Init ==
    /\ mapped \in SUBSET Pages /\ present = {}
    /\ running \in [Cpus -> Threads]
    /\ \A c, d \in Cpus : c # d => running[c] # running[d]
    /\ ACCESSING_USER_MEM = [c \in Cpus |-> FALSE]
    /\ asleep = {} /\ contended = {} /\ home = [t \in Threads |-> "none"]
    /\ pc = [t \in Threads |-> "user"]
    /\ start = [t \in Threads |-> 0]
    /\ len = [t \in Threads |-> 0]
    /\ page = [t \in Threads |-> 0]
    /\ since = [t \in Threads |-> {}]
    /\ panicked = "no" /\ use \in Uses

PageOf(a) == a \div PAGE_SIZE
Ptr(t) == start[t] + len[t]
On(c, t) == running[c] = t /\ t \notin asleep /\ panicked = "no"
Goto(t, l) == pc' = [pc EXCEPT ![t] = l]

\* Mutant: the flag is not set.
EnterClosure_unset(c, t) == home' = [home EXCEPT ![t] = c] /\ UNCHANGED ACCESSING_USER_MEM

\* access_user_memory around the closure: the flag of the CPU is set before it,
\* and the same flag is cleared after it.  (External: with_current gives the
\* closure the flag of the current CPU and turns preemption off.)
EnterClosure(c, t) ==
    /\ ACCESSING_USER_MEM' = [ACCESSING_USER_MEM EXCEPT ![c] = TRUE]
    /\ home' = [home EXCEPT ![t] = c]
LeaveClosure(t) ==
    /\ ACCESSING_USER_MEM' = [ACCESSING_USER_MEM EXCEPT ![home[t]] = FALSE]
    /\ home' = [home EXCEPT ![t] = "none"]

\* The lock is held for longer than a step; giving it back wakes one sleeper.
Locked == \E t \in Threads : pc[t] = "locked"
Unlock == IF asleep = {} THEN UNCHANGED asleep ELSE \E w \in asleep : asleep' = asleep \ {w}
-----------------------------------------------------------------------------
\* check_null_terminated up to the loop, with an aligned start address.
Begin(c, t, a) ==
    /\ On(c, t) /\ pc[t] = "user" /\ use = "scan"
    /\ start' = [start EXCEPT ![t] = a]
    /\ len' = [len EXCEPT ![t] = 0]
    /\ page' = [page EXCEPT ![t] = PageOf(a)]
    /\ EnterClosure(c, t)
    /\ Goto(t, "loop")
    /\ UNCHANGED << mapped, present, running, asleep, contended, since, panicked, use >>

\* The inner loop: while the pointer is not below page, page is checked under
\* the lock of the address space.
CheckPage(c, t) ==
    /\ On(c, t) /\ pc[t] = "loop" /\ PageOf(Ptr(t)) >= page[t] /\ ~Locked
    /\ IF page[t] \in mapped
       THEN /\ page' = [page EXCEPT ![t] = @ + 1]
            /\ UNCHANGED << pc, closure >>
       ELSE /\ Goto(t, "EFAULT") /\ LeaveClosure(t)
            /\ UNCHANGED page
    /\ Unlock
    /\ UNCHANGED << mapped, present, running, contended, start, len, since, panicked, use >>

\* Mutant: the terminator is counted.
ReadElement_counts_zero(c, t) ==
    /\ On(c, t) /\ pc[t] = "loop" /\ PageOf(Ptr(t)) < page[t]
    /\ PageOf(Ptr(t)) \in present
    /\ len' = [len EXCEPT ![t] = @ + 1]
    /\ IF Ptr(t) \in Zeros
       THEN Goto(t, "found") /\ LeaveClosure(t)
       ELSE UNCHANGED << pc, closure >>
    /\ UNCHANGED << mapped, present, running, asleep, contended, start, page, since, panicked, use >>

\* The volatile read of an element whose page is present.
ReadElement(c, t) ==
    /\ On(c, t) /\ pc[t] = "loop" /\ PageOf(Ptr(t)) < page[t]
    /\ PageOf(Ptr(t)) \in present
    /\ IF Ptr(t) \in Zeros
       THEN Goto(t, "found") /\ LeaveClosure(t) /\ UNCHANGED len
       ELSE len' = [len EXCEPT ![t] = @ + 1] /\ UNCHANGED << pc, closure >>
    /\ UNCHANGED << mapped, present, running, asleep, contended, start, page, since, panicked, use >>
-----------------------------------------------------------------------------
(* Regions *)

\* The pages that hold n elements from a on.
Region(a, n) == {p \in Pages : PageOf(a) <= p /\ p <= PageOf(a + n - 1)}

\* Mutant: the end of the region is not aligned up.
populate_area_short(a, n) == present \cup {p \in Pages : PageOf(a) <= p /\ p < PageOf(a + n)}

\* populate_area from the start of the first page to the end of the last one.
populate_area(a, n) == present \cup {p \in Pages : PageOf(a) <= p /\ p * PAGE_SIZE < a + n}

\* check_region, under the lock of the address space: with the rights asked for,
\* the pages are given frames.
check_region(c, t, a, n, write) ==
    /\ On(c, t) /\ pc[t] = "user" /\ use = "region" /\ ~Locked
    /\ IF Region(a, n) \subseteq (IF write THEN mapped \ ReadOnly ELSE mapped)
       THEN Goto(t, "use") /\ present' = populate_area(a, n)
       ELSE Goto(t, "EFAULT") /\ UNCHANGED present
    /\ start' = [start EXCEPT ![t] = a]
    /\ len' = [len EXCEPT ![t] = n]
    /\ since' = [since EXCEPT ![t] = {}]
    /\ Unlock
    /\ UNCHANGED << mapped, running, closure, contended, page, panicked, use >>

get_as_mut_slice(c, t, a, n) == check_region(c, t, a, n, TRUE)
get_as_slice(c, t, a, n) == check_region(c, t, a, n, FALSE)
get_as_mut(c, t, a) == get_as_mut_slice(c, t, a, 1)
get_as_ref(c, t, a) == get_as_slice(c, t, a, 1)

\* The reference is used, perhaps after a wait, without the lock and the flag.
UseRegion(c, t) ==
    /\ On(c, t) /\ pc[t] = "use" /\ Region(start[t], len[t]) \subseteq present
    /\ Goto(t, "found")
    /\ UNCHANGED << mapped, present, running, closure, asleep, contended, start, len, page, since,
                    panicked, use >>
-----------------------------------------------------------------------------
\* The pages that the kernel code of t is about to touch.
Touched(t) ==
    CASE pc[t] = "loop" /\ PageOf(Ptr(t)) < page[t] -> {PageOf(Ptr(t))}
      [] pc[t] = "use" -> Region(start[t], len[t])
      [] OTHER -> {}

\* The handler has the lock: a frame for a mapped page; do_exit, which does not
\* return to the closure, for a page that has been unmapped since it was checked.
Resolve(t, p) ==
    /\ ~Locked /\ Unlock
    /\ IF p \in mapped
       THEN present' = present \cup {p} /\ Goto(t, "loop") /\ UNCHANGED home
       ELSE Goto(t, "dead") /\ home' = [home EXCEPT ![t] = "none"] /\ UNCHANGED present
    /\ UNCHANGED << contended, panicked >>

\* t finds the lock of the address space held.
SleepOnLock(c, t, l) ==
    /\ Locked /\ asleep' = asleep \cup {t} /\ contended' = contended \cup {c} /\ Goto(t, l)
    /\ UNCHANGED << present, home, panicked >>

\* The inner loop cannot check the next page yet.
CheckSleeps(c, t) ==
    /\ On(c, t) /\ pc[t] = "loop" /\ PageOf(Ptr(t)) >= page[t]
    /\ SleepOnLock(c, t, "loop")
    /\ UNCHANGED << mapped, running, ACCESSING_USER_MEM, start, len, page, since, use >>

\* handle_page_fault on a fault of the kernel: not handled unless the flag of
\* the CPU is set, which only a scan does.
handle_page_fault(c, t) ==
    /\ On(c, t)
    /\ \E p \in Touched(t) \ present :
        \/ /\ ~ACCESSING_USER_MEM[c] /\ panicked' = pc[t]
           /\ UNCHANGED << present, pc, home, asleep, contended >>
        \/ ACCESSING_USER_MEM[c] /\ (Resolve(t, p) \/ SleepOnLock(c, t, "fault"))
    /\ UNCHANGED << mapped, running, ACCESSING_USER_MEM, start, len, page, since, use >>

\* The handler goes on after it slept; it does not look at the flag again.
FaultResumes(c, t) ==
    /\ On(c, t) /\ pc[t] = "fault"
    /\ Resolve(t, PageOf(Ptr(t))) \/ SleepOnLock(c, t, "fault")
    /\ UNCHANGED << mapped, running, ACCESSING_USER_MEM, start, len, page, since, use >>

\* The system call returns to user mode; its local variables are gone.
Return(c, t) ==
    /\ On(c, t) /\ pc[t] \in {"found", "EFAULT"}
    /\ Goto(t, "user")
    /\ start' = [start EXCEPT ![t] = 0]
    /\ len' = [len EXCEPT ![t] = 0]
    /\ page' = [page EXCEPT ![t] = 0]
    /\ since' = [since EXCEPT ![t] = {}]
    /\ UNCHANGED << mapped, present, running, closure, asleep, contended, panicked, use >>

\* sys_mmap and sys_munmap of a page by a running thread, with the lock.
LockSpace(c, t) ==
    /\ On(c, t) /\ pc[t] = "user" /\ ~Locked
    /\ Goto(t, "locked")
    /\ UNCHANGED << mapped, present, running, closure, asleep, contended, start, len, page, since,
                    panicked, use >>

Map(c, t, p) ==
    /\ On(c, t) /\ pc[t] = "locked" /\ p \notin mapped
    /\ mapped' = mapped \cup {p}
    /\ Goto(t, "user") /\ Unlock
    /\ UNCHANGED << present, running, closure, contended, start, len, page, since, panicked, use >>

Unmap(c, t, p) ==
    /\ On(c, t) /\ pc[t] = "locked" /\ p \in mapped
    /\ Goto(t, "user") /\ Unlock
    /\ mapped' = mapped \ {p} /\ present' = present \ {p}
    /\ since' = [u \in Threads |-> IF pc[u] = "use" THEN since[u] \cup {p} ELSE {}]
    /\ UNCHANGED << running, closure, contended, start, len, page, panicked, use >>

\* The scheduler (external) gives the CPU to a thread that is on no CPU, when
\* the running one has exited, sleeps, waits or is preempted.
Switch(c, t) ==
    /\ panicked = "no"
    /\ \/ pc[running[c]] = "dead" \/ running[c] \in asleep
       \/ Interrupts /\ pc[running[c]] \in {"user", "use", "locked"}
    /\ pc[t] # "dead" /\ t \notin asleep /\ \A d \in Cpus : running[d] # t
    /\ running' = [running EXCEPT ![c] = t]
    /\ contended' = IF home[t] = "none" THEN contended ELSE contended \cup {c}
    /\ UNCHANGED << mapped, present, closure, asleep, pc, start, len, page, since, panicked, use >>

Next ==
    \E c \in Cpus, t \in Threads :
        \/ CheckPage(c, t) \/ CheckSleeps(c, t) \/ ReadElement(c, t)
        \/ handle_page_fault(c, t) \/ FaultResumes(c, t)
        \/ Return(c, t) \/ Switch(c, t) \/ LockSpace(c, t)
        \/ UseRegion(c, t)
        \/ \E a \in Arrays : Begin(c, t, a)
        \/ \E a \in Addrs : get_as_mut(c, t, a) \/ get_as_ref(c, t, a)
        \/ \E a, b \in Addrs : a <= b /\ (\/ get_as_mut_slice(c, t, a, b - a + 1)
                                          \/ get_as_slice(c, t, a, b - a + 1))
        \/ \E p \in Pages : Map(c, t, p) \/ Unmap(c, t, p)

Spec == Init /\ [][Next]_vars
-----------------------------------------------------------------------------
(* Properties *)

AccessPcs == {"user", "locked", "loop", "fault", "use", "found", "EFAULT", "dead"}

\* Every variable has the shape its declaration comment says.  A scan never
\* goes further than one page behind the end of memory.
TypeOK ==
    /\ mapped \subseteq Pages /\ present \subseteq mapped
    /\ running \in [Cpus -> Threads]
    /\ ACCESSING_USER_MEM \in [Cpus -> BOOLEAN]
    /\ asleep \subseteq Threads /\ contended \subseteq Cpus
    /\ home \in [Threads -> Cpus \cup {"none"}]
    /\ pc \in [Threads -> AccessPcs]
    /\ start \in [Threads -> Addrs]
    /\ len \in [Threads -> 0 .. PageCount * PAGE_SIZE]
    /\ page \in [Threads -> 0 .. PageCount]
    /\ since \in [Threads -> SUBSET Pages]
    /\ panicked \in {"no", "loop", "use"} /\ use \in Uses

\* A scan that runs on a CPU finds the flag there set at every page fault, and
\* the handler returns FALSE, which is a kernel panic, in no scan: whatever the
\* other CPUs do with their flags, on every CPU where no thread has yet slept on
\* the lock of the address space inside access_user_memory or resumed there
\* after such a sleep.
FaultsHandled ==
    /\ \A c \in Cpus \ contended : pc[running[c]] = "loop" => ACCESSING_USER_MEM[c]
    /\ panicked = "loop" => contended # {}

\* "allowing page faults to occur inside kernel": no fault of a scan is refused.
ScanNeverRefused == panicked # "loop"

\* A checked region stays usable without the lock: when the kernel comes to use
\* it, perhaps much later, a page of it that has no frame was unmapped by another
\* thread after check_region; and nothing else makes the use fault.
RegionReady ==
    \A t \in Threads : pc[t] = "use" => Region(start[t], len[t]) \ present \subseteq since[t]

\* "The pointer is valid": a reference the kernel holds can be used.
RegionUsable == panicked # "use"

\* The scan returns the index of the first zero element; it returns EFAULT
\* only when no page up to the refused one holds the end of the array, and
\* the refused page directly follows the last element read.
ScanExact ==
    /\ TypeOK
    /\ \A t \in Threads :
        /\ use = "scan" /\ pc[t] \notin {"user", "locked"} =>
               \A a \in Zeros : ~(start[t] <= a /\ a < Ptr(t))
        /\ use = "scan" /\ pc[t] = "found" => Ptr(t) \in Zeros
        /\ use = "scan" /\ pc[t] = "EFAULT" =>
               PageOf(Ptr(t)) = page[t] /\ (len[t] = 0 \/ Ptr(t) = page[t] * PAGE_SIZE)

\* "Check if the current thread is accessing user memory.": where the flag of
\* a CPU is set, the thread that runs there is in the closure.
FlagMeansAccess ==
    \A c \in Cpus : ACCESSING_USER_MEM[c] => pc[running[c]] \in {"loop", "fault", "dead"}
=============================================================================
