---------------------------- MODULE MemoryProofs ----------------------------
(***************************************************************************)
(* User memory for any number of threads, CPUs and pages of any size: a    *)
(* scan takes its page faults under its own flag, where no scan slept on   *)
(* the lock of the address space, and ends at the first zero, and a        *)
(* checked region faults only on pages unmapped since.  Then,              *)
(* for any number of processes, mmap maps what it says and the heap stays  *)
(* mapped (module AddrSpace).                                              *)
(***************************************************************************)
EXTENDS UserAccess, AddrSpace, TLAPS

LEMMA Sizes == /\ PAGE_SIZE \in Nat /\ PAGE_SIZE > 0 /\ PageCount \in Nat /\ PageCount > 0
               /\ Zeros \subseteq Addrs /\ ReadOnly \subseteq Pages
  BY AccessAssumption

LEMMA Times == ASSUME NEW m \in Int, NEW n \in Int, NEW k \in Nat, m <= n
    PROVE  m * k \in Int /\ n * k \in Int /\ m * k <= n * k
<1>1. (n - m) * k >= 0 /\ (n - m) * k = n * k - m * k OBVIOUS
<1> QED BY <1>1

\* PageOf rounds down.
LEMMA PageBounds == ASSUME NEW a \in Nat
    PROVE  /\ PageOf(a) \in Nat
           /\ PageOf(a) * PAGE_SIZE <= a /\ a < (PageOf(a) + 1) * PAGE_SIZE
  BY Sizes DEF PageOf

LEMMA PageUpTo == ASSUME NEW a \in Nat, NEW p \in Nat
    PROVE  p * PAGE_SIZE <= a <=> p <= PageOf(a)
<1>0. PICK q \in Nat : q = PageOf(a) /\ q * PAGE_SIZE <= a /\ a < (q + 1) * PAGE_SIZE
  BY Zenon, PageBounds
<1>1. ASSUME p <= q PROVE p * PAGE_SIZE <= a
  <2>1. p * PAGE_SIZE <= q * PAGE_SIZE /\ p * PAGE_SIZE \in Int /\ q * PAGE_SIZE \in Int
    BY <1>1, Times, Sizes
  <2> QED BY <2>1, <1>0
<1>2. ASSUME ~(p <= q) PROVE ~(p * PAGE_SIZE <= a)
  <2>1. q + 1 <= p /\ q + 1 \in Int BY <1>2
  <2>2. (q + 1) * PAGE_SIZE <= p * PAGE_SIZE /\ p * PAGE_SIZE \in Int /\ (q + 1) * PAGE_SIZE \in Int
    BY <2>1, Times, Sizes
  <2> QED BY <2>2, <1>0
<1> QED BY Zenon, <1>0, <1>1, <1>2

\* The next element is on the same page or begins the next one.
LEMMA PageStep == ASSUME NEW a \in Nat
    PROVE  \/ PageOf(a + 1) = PageOf(a)
           \/ PageOf(a + 1) = PageOf(a) + 1 /\ a + 1 = PageOf(a + 1) * PAGE_SIZE
<1>0. PICK q \in Nat : q = PageOf(a) /\ q * PAGE_SIZE <= a /\ a < (q + 1) * PAGE_SIZE
  BY Zenon, PageBounds
<1>1. PICK r \in Nat : r = PageOf(a + 1) /\ r * PAGE_SIZE <= a + 1 /\ a + 1 < (r + 1) * PAGE_SIZE
  BY PageBounds
<1>2. q <= r
  <2>1. q * PAGE_SIZE \in Int BY Sizes
  <2> QED BY <2>1, <1>0, <1>1, PageUpTo
<1>3. CASE r > q
  <2>1. r * PAGE_SIZE \in Int /\ (q + 1) * PAGE_SIZE \in Int /\ (q + 1) * PAGE_SIZE <= r * PAGE_SIZE
    BY <1>3, Times, Sizes
  <2>2. a + 1 = r * PAGE_SIZE /\ a + 1 = (q + 1) * PAGE_SIZE BY <2>1, <1>0, <1>1
  <2>3. PAGE_SIZE > 0 /\ (r - (q + 1)) * PAGE_SIZE = 0
    BY <2>2, Sizes
  <2>4. r = q + 1 BY <2>3, Sizes
  <2> QED BY Zenon, <2>2, <2>4, <1>0, <1>1
<1> QED BY <1>0, <1>1, <1>2, <1>3

\* An element on a page of memory is an element of memory.
LEMMA InMemory == ASSUME NEW a \in Nat PROVE PageOf(a) \in Pages <=> a \in Addrs
<1>1. PageOf(a) \in Nat /\ PageCount * PAGE_SIZE \in Int BY PageBounds, Sizes
<1>2. PageCount * PAGE_SIZE <= a <=> PageCount <= PageOf(a) BY Zenon, PageUpTo, Sizes
<1> QED BY <1>1, <1>2, Sizes DEF Pages, Addrs
-----------------------------------------------------------------------------
\* A thread in the closure of access_user_memory whose CPU is not contended is
\* still there, awake, with the flag set; and on a CPU that is not contended only
\* a thread that entered the closure there is in it.
InScan(t) == pc[t] \in {"loop", "fault"}
Alone == \A c, d \in Cpus : c # d => running[c] # running[d]
Closures ==
    /\ \A t \in Threads : InScan(t) <=> home[t] # "none"
    /\ \A t \in Threads : InScan(t) /\ home[t] \notin contended =>
          running[home[t]] = t /\ t \notin asleep /\ ACCESSING_USER_MEM[home[t]]
    /\ \A c \in Cpus \ contended : InScan(running[c]) => home[running[c]] = c
Panic == panicked = "loop" => contended # {}

\* A scan has checked the page of its pointer, or stands at the page to check,
\* which its first element or the end of the page before has brought it to.
Scan(t) ==
    /\ pc[t] \notin {"user", "locked"} => \A a \in Zeros : ~(start[t] <= a /\ a < Ptr(t))
    /\ pc[t] = "found" => Ptr(t) \in Zeros
    /\ pc[t] \in {"loop", "fault", "EFAULT"} =>
         \/ PageOf(Ptr(t)) = page[t] /\ (len[t] = 0 \/ Ptr(t) = page[t] * PAGE_SIZE)
         \/ pc[t] # "EFAULT" /\ PageOf(Ptr(t)) + 1 = page[t]
    /\ pc[t] # "use"
Scans == use = "scan" => \A t \in Threads : Scan(t)
Loops ==
    use = "region" =>
        (\A t \in Threads : ~InScan(t)) /\ \A c \in Cpus : ~ACCESSING_USER_MEM[c]

Inv == TypeOK /\ Alone /\ Closures /\ Panic /\ Scans /\ Loops /\ RegionReady

LEMMA NoCpu == "none" \notin Cpus BY Zenon, AccessAssumption

LEMMA Start == Init => Inv
<1> SUFFICES ASSUME Init PROVE Inv BY Zenon
<1> USE DEF Init
<1>1. 0 \in Addrs BY Sizes DEF Addrs
<1>2. TypeOK
  <2>1. 0 \in 0 .. PageCount * PAGE_SIZE /\ 0 \in 0 .. PageCount BY Sizes
  <2>2. start \in [Threads -> Addrs] /\ len \in [Threads -> 0 .. PageCount * PAGE_SIZE]
        /\ page \in [Threads -> 0 .. PageCount] /\ since \in [Threads -> SUBSET Pages]
        /\ home \in [Threads -> Cpus \cup {"none"}]
    BY Zenon, <1>1, <2>1
  <2>3. pc \in [Threads -> AccessPcs] BY Zenon DEF AccessPcs
  <2> QED BY Zenon, <2>2, <2>3 DEF TypeOK
<1>3. \A t \in Threads : pc[t] = "user" /\ home[t] = "none" /\ ~InScan(t) BY Zenon DEF InScan
<1>4. Alone /\ Panic /\ Loops /\ RegionReady
  BY Zenon, <1>3 DEF Alone, Panic, Loops, RegionReady
<1>5. Closures BY Zenon, <1>2, <1>3 DEF Closures, TypeOK
<1>6. Scans BY Zenon, <1>3 DEF Scans, Scan
<1> QED BY Zenon, <1>2, <1>4, <1>5, <1>6 DEF Inv

\* A step of t alone.
LEMMA PcStep ==
    ASSUME TypeOK, NEW t \in Threads, NEW l \in AccessPcs, pc' = [pc EXCEPT ![t] = l]
    PROVE  /\ pc' \in [Threads -> AccessPcs] /\ pc'[t] = l
           /\ \A u \in Threads : u # t => pc'[u] = pc[u] /\ (InScan(u)' <=> InScan(u))
           /\ InScan(t)' <=> l \in {"loop", "fault"}
  BY Zenon DEF TypeOK, InScan

LEMMA Woken == ASSUME Unlock PROVE asleep' \subseteq asleep
  BY Zenon DEF Unlock

\* What Closures says of a thread.
LEMMA HomeOf ==
    ASSUME TypeOK, Closures, NEW t \in Threads
    PROVE  /\ InScan(t) <=> home[t] # "none"
           /\ InScan(t) => home[t] \in Cpus
           /\ InScan(t) /\ home[t] \notin contended =>
                 running[home[t]] = t /\ t \notin asleep /\ ACCESSING_USER_MEM[home[t]]
<1>1. home[t] \in Cpus \cup {"none"} BY Zenon DEF TypeOK
<1>2. InScan(t) <=> home[t] # "none" BY Zenon DEF Closures
<1>3. InScan(t) /\ home[t] \notin contended =>
        running[home[t]] = t /\ t \notin asleep /\ ACCESSING_USER_MEM[home[t]]
  BY Zenon DEF Closures
<1> QED BY Zenon, <1>1, <1>2, <1>3

\* Nobody enters or leaves the closure.
LEMMA Stays ==
    ASSUME TypeOK, Closures, UNCHANGED << running, home, ACCESSING_USER_MEM >>,
           contended \subseteq contended',
           \A u \in Threads : InScan(u)' <=> InScan(u),
           \A u \in asleep' : u \in asleep \/ home[u] \in contended'
    PROVE  Closures'
<1>1. \A t \in Threads : InScan(t)' <=> home'[t] # "none" BY Zenon DEF Closures
<1>2. ASSUME NEW t \in Threads, InScan(t)', home'[t] \notin contended'
      PROVE  running'[home'[t]] = t /\ t \notin asleep' /\ ACCESSING_USER_MEM'[home'[t]]
  <2>1. InScan(t) /\ home[t] \notin contended /\ home[t] \notin contended' BY Zenon, <1>2
  <2> QED BY Zenon, <2>1 DEF Closures
<1>3. ASSUME NEW c \in Cpus \ contended', InScan(running[c])' PROVE home'[running'[c]] = c
  <2>1. running[c] \in Threads /\ c \in Cpus \ contended BY Zenon DEF TypeOK
  <2>2. InScan(running[c]) BY Zenon, <1>3, <2>1
  <2> QED BY Zenon, <2>1, <2>2 DEF Closures
<1>4. \A c \in Cpus \ contended' : InScan(running[c])' => home'[running'[c]] = c BY Zenon, <1>3
<1> QED BY Zenon, <1>1, <1>2, <1>4 DEF Closures

\* t leaves the closure, or ends in it.
LEMMA Leaves ==
    ASSUME TypeOK, Closures, NEW t \in Threads, InScan(t), ~InScan(t)',
           home' = [home EXCEPT ![t] = "none"],
           \/ UNCHANGED ACCESSING_USER_MEM
           \/ ACCESSING_USER_MEM' = [ACCESSING_USER_MEM EXCEPT ![home[t]] = FALSE],
           \A u \in Threads : u # t => (InScan(u)' <=> InScan(u)),
           UNCHANGED << running, contended >>, asleep' \subseteq asleep
    PROVE  Closures' /\ ACCESSING_USER_MEM' \in [Cpus -> BOOLEAN]
           /\ home' \in [Threads -> Cpus \cup {"none"}]
<1>0. /\ home \in [Threads -> Cpus \cup {"none"}] /\ ACCESSING_USER_MEM \in [Cpus -> BOOLEAN]
      /\ running \in [Cpus -> Threads]
  BY Zenon DEF TypeOK
<1>1. home[t] \in Cpus BY Zenon, HomeOf
<1>2. /\ home' \in [Threads -> Cpus \cup {"none"}] /\ home'[t] = "none"
      /\ \A u \in Threads : u # t => home'[u] = home[u]
  BY Zenon, <1>0
<1>3. /\ ACCESSING_USER_MEM' \in [Cpus -> BOOLEAN]
      /\ \A c \in Cpus : c # home[t] => ACCESSING_USER_MEM'[c] = ACCESSING_USER_MEM[c]
  BY Zenon, <1>0, <1>1
<1>4. \A u \in Threads : InScan(u)' <=> home'[u] # "none" BY Zenon, <1>2 DEF Closures
<1>5. ASSUME NEW u \in Threads, InScan(u)', home'[u] \notin contended'
      PROVE  running'[home'[u]] = u /\ u \notin asleep' /\ ACCESSING_USER_MEM'[home'[u]]
  <2>1. u # t /\ InScan(u) /\ home'[u] = home[u] BY Zenon, <1>2, <1>5
  <2>6. home[u] \notin contended
    <3>1. contended' = contended BY Zenon
    <3> QED BY Zenon, <3>1, <2>1, <1>5
  <2>2. running[home[u]] = u /\ u \notin asleep /\ ACCESSING_USER_MEM[home[u]] BY Zenon, <2>1, <2>6, HomeOf
  <2>3. home[u] # home[t]
    <3>1. home[t] \notin contended => running[home[t]] = t BY Zenon, HomeOf
    <3> QED BY Zenon, <3>1, <2>1, <2>2, <2>6
  <2>4. home[u] \in Cpus BY Zenon, <2>1, HomeOf
  <2>5. ACCESSING_USER_MEM'[home[u]] = ACCESSING_USER_MEM[home[u]] BY Zenon, <2>3, <2>4, <1>3
  <2> QED BY Zenon, <2>1, <2>2, <2>5
<1>6. ASSUME NEW c \in Cpus \ contended', InScan(running[c])' PROVE home'[running'[c]] = c
  <2>1. running[c] \in Threads /\ running[c] # t BY Zenon, <1>0, <1>6
  <2> QED BY Zenon, <2>1, <1>2, <1>6 DEF Closures
<1>7. \A c \in Cpus \ contended' : InScan(running[c])' => home'[running'[c]] = c BY Zenon, <1>6
<1> QED BY Zenon, <1>2, <1>3, <1>4, <1>5, <1>7 DEF Closures

LEMMA Typed == ASSUME TypeOK, NEW t \in Threads
    PROVE  /\ start[t] \in Addrs /\ start[t] \in Nat /\ len[t] \in Nat /\ page[t] \in Nat
           /\ Ptr(t) \in Nat /\ Ptr(t) = start[t] + len[t]
           /\ PageOf(Ptr(t)) \in Nat /\ PageCount * PAGE_SIZE \in Nat
<1>1. start[t] \in Addrs /\ len[t] \in 0 .. PageCount * PAGE_SIZE /\ page[t] \in 0 .. PageCount
  BY Zenon DEF TypeOK
<1>2. start[t] \in Nat /\ len[t] \in Nat /\ page[t] \in Nat /\ PageCount * PAGE_SIZE \in Nat
  BY <1>1, Sizes DEF Addrs
<1>3. Ptr(t) \in Nat /\ Ptr(t) = start[t] + len[t] BY <1>2 DEF Ptr
<1> QED BY Zenon, <1>1, <1>2, <1>3, PageBounds

\* What a scan has found out stays true while its variables do.
LEMMA ScanSame ==
    ASSUME NEW u \in Threads, Scan(u),
           start'[u] = start[u], len'[u] = len[u], page'[u] = page[u],
           \/ pc'[u] = pc[u]
           \/ pc[u] \in {"loop", "fault"} /\ pc'[u] \in {"loop", "fault", "dead"}
    PROVE  Scan(u)'
<1>1. Ptr(u)' = Ptr(u) BY Zenon DEF Ptr
<1>2. CASE pc'[u] = pc[u] BY Zenon, <1>1, <1>2 DEF Scan
<1>3. CASE pc[u] \in {"loop", "fault"} /\ pc'[u] \in {"loop", "fault"} BY Zenon, <1>1, <1>3 DEF Scan
<1>4. CASE pc[u] \in {"loop", "fault"} /\ pc'[u] = "dead" BY Zenon, <1>1, <1>4 DEF Scan
<1> QED BY Zenon, <1>2, <1>3, <1>4

LEMMA ScanIdle ==
    ASSUME NEW u \in Threads, pc'[u] \in {"user", "locked"} PROVE Scan(u)'
  BY Zenon DEF Scan

\* Which kind of access the programs use.
LEMMA OneUse == ASSUME Inv, NEW t \in Threads, InScan(t) PROVE use = "scan" /\ Scan(t)
<1>1. use \in {"scan", "region"} BY Zenon, AccessAssumption DEF Inv, TypeOK
<1> QED BY Zenon, <1>1 DEF Inv, Loops, Scans

LEMMA BeginKeeps ==
    ASSUME Inv, NEW c \in Cpus, NEW t \in Threads, NEW a \in Arrays, Begin(c, t, a) PROVE Inv'
<1>0. /\ TypeOK /\ Alone /\ Closures /\ Panic /\ Scans
      /\ running[c] = t /\ t \notin asleep /\ pc[t] = "user" /\ use = "scan"
  BY Zenon DEF Inv, Begin, On
<1>1. /\ pc' = [pc EXCEPT ![t] = "loop"]
      /\ ACCESSING_USER_MEM' = [ACCESSING_USER_MEM EXCEPT ![c] = TRUE]
      /\ home' = [home EXCEPT ![t] = c]
      /\ UNCHANGED << mapped, present, running, asleep, contended, since, panicked, use >>
      /\ start' = [start EXCEPT ![t] = a] /\ len' = [len EXCEPT ![t] = 0]
      /\ page' = [page EXCEPT ![t] = PageOf(a)]
  BY Zenon DEF Begin, Goto, EnterClosure
<1>2. /\ pc' \in [Threads -> AccessPcs] /\ pc'[t] = "loop" /\ InScan(t)'
      /\ \A u \in Threads : u # t => pc'[u] = pc[u] /\ (InScan(u)' <=> InScan(u))
  <2>1. "loop" \in AccessPcs BY Zenon DEF AccessPcs
  <2> QED BY Zenon, <2>1, <1>0, <1>1, PcStep
<1>3. a \in Nat /\ a \in Addrs /\ PageOf(a) \in Pages /\ PageOf(a) \in 0 .. PageCount
  <2>0. a \in Addrs BY Zenon, AccessAssumption
  <2>1. a \in Nat BY <2>0, Sizes DEF Addrs
  <2>2. PageOf(a) \in Pages BY Zenon, <2>0, <2>1, InMemory
  <2> QED BY <2>0, <2>1, <2>2, Sizes DEF Pages
<1>4. /\ ACCESSING_USER_MEM' \in [Cpus -> BOOLEAN] /\ ACCESSING_USER_MEM'[c] = TRUE
      /\ \A d \in Cpus : d # c => ACCESSING_USER_MEM'[d] = ACCESSING_USER_MEM[d]
      /\ home' \in [Threads -> Cpus \cup {"none"}] /\ home'[t] = c
      /\ \A u \in Threads : u # t => home'[u] = home[u]
  BY Zenon, <1>0, <1>1 DEF TypeOK
<1>5. TypeOK'
  <2>1. start' \in [Threads -> Addrs] /\ page' \in [Threads -> 0 .. PageCount] BY Zenon, <1>0, <1>1, <1>3 DEF TypeOK
  <2>2. 0 \in 0 .. PageCount * PAGE_SIZE BY Sizes
  <2>3. len' \in [Threads -> 0 .. PageCount * PAGE_SIZE] BY Zenon, <2>2, <1>0, <1>1 DEF TypeOK
  <2> QED BY Zenon, <2>1, <2>3, <1>0, <1>1, <1>2, <1>4 DEF TypeOK
<1>6. Closures'
  <2>1. ASSUME NEW u \in Threads PROVE InScan(u)' <=> home'[u] # "none"
    <3>1. CASE u = t
      <4>1. home'[u] # "none" BY Zenon, <3>1, <1>4, NoCpu
      <4> QED BY Zenon, <3>1, <4>1, <1>2
    <3>2. CASE u # t BY Zenon, <3>2, <1>0, <1>2, <1>4, HomeOf
    <3> QED BY Zenon, <3>1, <3>2
  <2>2. ASSUME NEW u \in Threads, InScan(u)', home'[u] \notin contended'
        PROVE  running'[home'[u]] = u /\ u \notin asleep' /\ ACCESSING_USER_MEM'[home'[u]]
    <3>1. CASE u = t BY Zenon, <3>1, <1>0, <1>1, <1>4
    <3>2. CASE u # t
      <4>1. InScan(u) /\ home'[u] = home[u] BY Zenon, <3>2, <2>2, <1>2, <1>4
      <4>4. home[u] \notin contended
        <5>1. contended' = contended BY Zenon, <1>1
        <5> QED BY Zenon, <5>1, <4>1, <2>2
      <4>2. running[home[u]] = u /\ u \notin asleep /\ ACCESSING_USER_MEM[home[u]] BY Zenon, <4>1, <4>4, <1>0, HomeOf
      <4>3. home[u] \in Cpus BY Zenon, <4>1, <1>0, HomeOf
      <4> QED BY Zenon, <4>1, <4>2, <4>3, <1>1, <1>4
    <3> QED BY Zenon, <3>1, <3>2
  <2>3. ASSUME NEW d \in Cpus \ contended', InScan(running[d])' PROVE home'[running'[d]] = d
    <3>0. running[d] \in Threads /\ running'[d] = running[d] BY Zenon, <1>0, <1>1 DEF TypeOK
    <3>1. CASE running[d] = t
      <4>1. d = c BY Zenon, <3>1, <1>0 DEF Alone
      <4> QED BY Zenon, <4>1, <3>0, <3>1, <1>4
    <3>2. CASE running[d] # t
      <4>1. InScan(running[d])
        <5>1. pc'[running[d]] = pc[running[d]] BY Zenon, <3>0, <3>2, <1>2
        <5> QED BY Zenon, <5>1, <3>0, <2>3 DEF InScan
      <4>2. d \in Cpus \ contended BY Zenon, <1>1
      <4>3. home[running[d]] = d BY Zenon, <4>1, <4>2, <1>0 DEF Closures
      <4> QED BY Zenon, <4>3, <3>0, <3>2, <1>4
    <3> QED BY Zenon, <3>1, <3>2
  <2>4. \A d \in Cpus \ contended' : InScan(running[d])' => home'[running'[d]] = d BY Zenon, <2>3
  <2> QED BY Zenon, <2>1, <2>2, <2>4 DEF Closures
<1>7. Scans'
  <2>1. \A u \in Threads : u # t => Scan(u)'
    <3> SUFFICES ASSUME NEW u \in Threads, u # t PROVE Scan(u)' BY Zenon
    <3>1. start'[u] = start[u] /\ len'[u] = len[u] /\ page'[u] = page[u] BY Zenon, <1>0, <1>1 DEF TypeOK
    <3>2. Scan(u) /\ pc'[u] = pc[u] BY Zenon, <1>0, <1>2 DEF Scans
    <3> QED BY Zenon, <3>1, <3>2, ScanSame
  <2>2. start'[t] = a /\ len'[t] = 0 /\ page'[t] = PageOf(a) BY Zenon, <1>0, <1>1 DEF TypeOK
  <2>3. Ptr(t)' = a BY <2>2, <1>3 DEF Ptr
  <2>4. \A z \in Zeros : ~(a <= z /\ z < a) BY <1>3, Sizes DEF Addrs
  <2>5. Scan(t)' BY Zenon, <2>2, <2>3, <2>4, <1>2 DEF Scan
  <2> QED BY Zenon, <2>1, <2>5 DEF Scans
<1>8. RegionReady' BY Zenon, <1>7, <1>0, <1>1 DEF Scans, Scan, RegionReady
<1>9. Alone' /\ Panic' /\ Loops' BY Zenon, <1>0, <1>1 DEF Alone, Panic, Loops
<1> QED BY Zenon, <1>5, <1>6, <1>7, <1>8, <1>9 DEF Inv

LEMMA CheckPageKeeps ==
    ASSUME Inv, NEW c \in Cpus, NEW t \in Threads, CheckPage(c, t) PROVE Inv'
<1>0. /\ TypeOK /\ Alone /\ Closures /\ Panic /\ Scans
      /\ running[c] = t /\ pc[t] = "loop" /\ PageOf(Ptr(t)) >= page[t]
  BY Zenon DEF Inv, CheckPage, On
<1>1. UNCHANGED << mapped, present, running, contended, start, len, since, panicked, use >> BY Zenon DEF CheckPage
<1>2. use = "scan" /\ Scan(t) /\ InScan(t) BY Zenon, <1>0, OneUse DEF InScan
<1>3. PageOf(Ptr(t)) = page[t] /\ (len[t] = 0 \/ Ptr(t) = page[t] * PAGE_SIZE) /\ page[t] \in Nat
  <2>1. PageOf(Ptr(t)) \in Nat /\ page[t] \in Nat BY Zenon, <1>0, Typed
  <2> QED BY <2>1, <1>0, <1>2 DEF Scan
<1>4. asleep' \subseteq asleep /\ asleep' \subseteq Threads BY Zenon, <1>0, Woken DEF CheckPage, TypeOK
<1>5. Alone' /\ Panic' /\ Loops' BY Zenon, <1>0, <1>1, <1>2 DEF Alone, Panic, Loops
<1>6. CASE page[t] \in mapped
  <2>1. UNCHANGED << pc, ACCESSING_USER_MEM, home >> /\ page' = [page EXCEPT ![t] = @ + 1]
    BY Zenon, <1>6 DEF CheckPage, closure
  <2>2. page[t] + 1 \in 0 .. PageCount BY <1>0, <1>6, Sizes DEF TypeOK, Pages
  <2>3. TypeOK' BY Zenon, <2>1, <2>2, <1>0, <1>1, <1>4 DEF TypeOK
  <2>4. Closures'
    <3>1. \A u \in Threads : InScan(u)' <=> InScan(u) BY Zenon, <2>1 DEF InScan
    <3>2. \A u \in asleep' : u \in asleep BY Zenon, <1>4
    <3>3. contended \subseteq contended' /\ UNCHANGED << running, home, ACCESSING_USER_MEM >> BY Zenon, <1>1, <2>1
    <3> QED BY Zenon, <3>1, <3>2, <3>3, <1>0, Stays
  <2>5. \A u \in Threads : u # t => Scan(u)'
    <3> SUFFICES ASSUME NEW u \in Threads, u # t PROVE Scan(u)' BY Zenon
    <3>1. start'[u] = start[u] /\ len'[u] = len[u] /\ page'[u] = page[u] BY Zenon, <1>0, <1>1, <2>1 DEF TypeOK
    <3>2. Scan(u) /\ pc'[u] = pc[u] BY Zenon, <1>0, <1>2, <2>1 DEF Scans
    <3> QED BY Zenon, <3>1, <3>2, ScanSame
  <2>6. Scan(t)'
    <3>1. page'[t] = page[t] + 1 /\ Ptr(t)' = Ptr(t) BY Zenon, <2>1, <1>0, <1>1 DEF TypeOK, Ptr
    <3> QED BY Zenon, <3>1, <2>1, <1>0, <1>1, <1>2, <1>3 DEF Scan
  <2>7. Scans' BY Zenon, <2>5, <2>6, <1>1, <1>2 DEF Scans
  <2>8. RegionReady' BY Zenon, <2>7, <1>1, <1>2 DEF Scans, Scan, RegionReady
  <2> QED BY Zenon, <2>3, <2>4, <2>7, <2>8, <1>5 DEF Inv
<1>7. CASE page[t] \notin mapped
  <2>1. /\ pc' = [pc EXCEPT ![t] = "EFAULT"] /\ UNCHANGED page
        /\ ACCESSING_USER_MEM' = [ACCESSING_USER_MEM EXCEPT ![home[t]] = FALSE]
        /\ home' = [home EXCEPT ![t] = "none"]
    BY Zenon, <1>7 DEF CheckPage, Goto, LeaveClosure
  <2>2. /\ pc' \in [Threads -> AccessPcs] /\ pc'[t] = "EFAULT" /\ ~InScan(t)'
        /\ \A u \in Threads : u # t => pc'[u] = pc[u] /\ (InScan(u)' <=> InScan(u))
    <3>1. "EFAULT" \in AccessPcs BY Zenon DEF AccessPcs
    <3> QED BY Zenon, <3>1, <2>1, <1>0, PcStep
  <2>3. Closures' /\ ACCESSING_USER_MEM' \in [Cpus -> BOOLEAN] /\ home' \in [Threads -> Cpus \cup {"none"}]
    BY Zenon, <2>1, <2>2, <1>0, <1>1, <1>2, <1>4, Leaves
  <2>4. TypeOK' BY Zenon, <2>1, <2>2, <2>3, <1>0, <1>1, <1>4 DEF TypeOK
  <2>5. Scans'
    <3> SUFFICES ASSUME NEW u \in Threads PROVE Scan(u)' BY Zenon DEF Scans
    <3>1. Scan(u) /\ Ptr(u)' = Ptr(u) BY Zenon, <1>0, <1>1, <1>2 DEF Scans, Ptr
    <3>2. CASE u # t BY Zenon, <3>1, <3>2, <2>1, <2>2, <1>1, ScanSame
    <3>3. CASE u = t BY Zenon, <3>1, <3>3, <2>1, <2>2, <1>0, <1>1, <1>3 DEF Scan
    <3> QED BY Zenon, <3>2, <3>3
  <2>6. RegionReady' BY Zenon, <2>5, <1>1, <1>2 DEF Scans, Scan, RegionReady
  <2> QED BY Zenon, <2>3, <2>4, <2>5, <2>6, <1>5 DEF Inv
<1> QED BY Zenon, <1>6, <1>7

LEMMA ReadElementKeeps ==
    ASSUME Inv, NEW c \in Cpus, NEW t \in Threads, ReadElement(c, t) PROVE Inv'
<1>0. /\ TypeOK /\ Alone /\ Closures /\ Panic /\ Scans
      /\ running[c] = t /\ pc[t] = "loop" /\ PageOf(Ptr(t)) < page[t] /\ PageOf(Ptr(t)) \in present
  BY Zenon DEF Inv, ReadElement, On
<1>1. UNCHANGED << mapped, present, running, asleep, contended, start, page, since, panicked, use >>
  BY Zenon DEF ReadElement
<1>2. use = "scan" /\ Scan(t) /\ InScan(t) BY Zenon, <1>0, OneUse DEF InScan
<1>3. /\ Ptr(t) \in Nat /\ start[t] \in Nat /\ len[t] \in Nat /\ Ptr(t) = start[t] + len[t]
      /\ page[t] \in Nat /\ PageOf(Ptr(t)) \in Nat /\ PageCount * PAGE_SIZE \in Nat
  BY Zenon, <1>0, Typed
<1>4. Alone' /\ Panic' /\ Loops' BY Zenon, <1>0, <1>1, <1>2 DEF Alone, Panic, Loops
<1>5. CASE Ptr(t) \in Zeros
  <2>1. /\ pc' = [pc EXCEPT ![t] = "found"] /\ UNCHANGED len
        /\ ACCESSING_USER_MEM' = [ACCESSING_USER_MEM EXCEPT ![home[t]] = FALSE]
        /\ home' = [home EXCEPT ![t] = "none"]
    BY Zenon, <1>5 DEF ReadElement, Goto, LeaveClosure
  <2>2. /\ pc' \in [Threads -> AccessPcs] /\ pc'[t] = "found" /\ ~InScan(t)'
        /\ \A u \in Threads : u # t => pc'[u] = pc[u] /\ (InScan(u)' <=> InScan(u))
    <3>1. "found" \in AccessPcs BY Zenon DEF AccessPcs
    <3> QED BY Zenon, <3>1, <2>1, <1>0, PcStep
  <2>3. Closures' /\ ACCESSING_USER_MEM' \in [Cpus -> BOOLEAN] /\ home' \in [Threads -> Cpus \cup {"none"}]
    <3>1. asleep' \subseteq asleep BY Zenon, <1>1
    <3> QED BY Zenon, <3>1, <2>1, <2>2, <1>0, <1>1, <1>2, Leaves
  <2>4. TypeOK' BY Zenon, <2>1, <2>2, <2>3, <1>0, <1>1 DEF TypeOK
  <2>5. Scans'
    <3> SUFFICES ASSUME NEW u \in Threads PROVE Scan(u)' BY Zenon DEF Scans
    <3>1. Scan(u) /\ Ptr(u)' = Ptr(u) BY Zenon, <1>0, <1>1, <1>2, <2>1 DEF Scans, Ptr
    <3>2. CASE u # t BY Zenon, <3>1, <3>2, <2>1, <2>2, <1>1, ScanSame
    <3>3. CASE u = t BY Zenon, <3>1, <3>3, <2>1, <2>2, <1>0, <1>1, <1>5 DEF Scan
    <3> QED BY Zenon, <3>2, <3>3
  <2>6. RegionReady' BY Zenon, <2>5, <1>1, <1>2 DEF Scans, Scan, RegionReady
  <2> QED BY Zenon, <2>3, <2>4, <2>5, <2>6, <1>4 DEF Inv
<1>6. CASE Ptr(t) \notin Zeros
  <2>1. UNCHANGED << pc, ACCESSING_USER_MEM, home >> /\ len' = [len EXCEPT ![t] = @ + 1]
    BY Zenon, <1>6 DEF ReadElement, closure
  <2>2. len[t] + 1 \in 0 .. PageCount * PAGE_SIZE
    <3>1. PageOf(Ptr(t)) \in Pages BY Zenon, <1>0 DEF TypeOK
    <3>2. Ptr(t) \in Addrs BY Zenon, <3>1, <1>3, InMemory
    <3> QED BY <3>2, <1>3 DEF Addrs
  <2>3. len' \in [Threads -> 0 .. PageCount * PAGE_SIZE] BY Zenon, <2>1, <2>2, <1>0 DEF TypeOK
  <2>4. TypeOK' BY Zenon, <2>1, <2>3, <1>0, <1>1 DEF TypeOK
  <2>5. Closures'
    <3>1. \A u \in Threads : InScan(u)' <=> InScan(u) BY Zenon, <2>1 DEF InScan
    <3>2. contended \subseteq contended' /\ UNCHANGED << running, home, ACCESSING_USER_MEM, asleep >>
      BY Zenon, <1>1, <2>1
    <3> QED BY Zenon, <3>1, <3>2, <1>0, Stays
  <2>6. \A u \in Threads : u # t => Scan(u)'
    <3> SUFFICES ASSUME NEW u \in Threads, u # t PROVE Scan(u)' BY Zenon
    <3>1. len'[u] = len[u] BY Zenon, <2>1, <1>0 DEF TypeOK
    <3> QED BY Zenon, <3>1, <2>1, <1>0, <1>1, <1>2, ScanSame DEF Scans
  <2>7. Scan(t)'
    <3>1. Ptr(t)' = Ptr(t) + 1 /\ len'[t] = len[t] + 1
      BY <2>1, <1>0, <1>1, <1>3 DEF TypeOK, Ptr
    <3>2. PageOf(Ptr(t)) + 1 = page[t] BY <1>0, <1>2, <1>3 DEF Scan
    <3>3. \/ PageOf(Ptr(t)') + 1 = page[t]
          \/ PageOf(Ptr(t)') = page[t] /\ Ptr(t)' = page[t] * PAGE_SIZE
      BY Zenon, <3>1, <3>2, <1>3, PageStep
    <3>4. \A z \in Zeros : ~(start[t] <= z /\ z < Ptr(t) + 1)
      <4>1. \A z \in Zeros : z \in Int /\ z # Ptr(t) /\ ~(start[t] <= z /\ z < Ptr(t))
        BY <1>0, <1>2, <1>6, Sizes DEF Scan, Addrs
      <4> QED BY <4>1, <1>3
    <3> QED BY Zenon, <3>1, <3>3, <3>4, <2>1, <1>0, <1>1 DEF Scan
  <2>8. Scans' BY Zenon, <2>6, <2>7, <1>1, <1>2 DEF Scans
  <2>9. RegionReady' BY Zenon, <2>8, <1>1, <1>2 DEF Scans, Scan, RegionReady
  <2> QED BY Zenon, <2>4, <2>5, <2>8, <2>9, <1>4 DEF Inv
<1> QED BY Zenon, <1>5, <1>6

\* populate_area gives frames to the pages of the region.
LEMMA Populated ==
    ASSUME NEW a \in Addrs, NEW n \in Nat, n > 0
    PROVE  populate_area(a, n) = present \cup Region(a, n)
<1>1. a \in Nat /\ a + n - 1 \in Nat BY Sizes DEF Addrs
<1>2. \A p \in Pages : p * PAGE_SIZE \in Int /\ (p * PAGE_SIZE < a + n <=> p <= PageOf(a + n - 1))
  <2> TAKE p \in Pages
  <2>1. p \in Nat /\ p * PAGE_SIZE \in Int BY Sizes DEF Pages
  <2>2. p * PAGE_SIZE <= a + n - 1 <=> p <= PageOf(a + n - 1) BY Zenon, <2>1, <1>1, PageUpTo
  <2> QED BY <2>1, <2>2, <1>1
<1> QED BY Zenon, <1>2 DEF populate_area, Region

LEMMA RegionKeeps ==
    ASSUME Inv, NEW c \in Cpus, NEW t \in Threads, NEW a \in Addrs, NEW write \in BOOLEAN,
           NEW n \in 1 .. PageCount * PAGE_SIZE, check_region(c, t, a, n, write)
    PROVE  Inv'
<1>0. /\ TypeOK /\ Alone /\ Closures /\ Panic /\ Loops /\ RegionReady
      /\ running[c] = t /\ pc[t] = "user" /\ use = "region"
  BY Zenon DEF Inv, check_region, On
<1>1. /\ UNCHANGED << mapped, running, ACCESSING_USER_MEM, home, contended, page, panicked, use >>
      /\ start' = [start EXCEPT ![t] = a] /\ len' = [len EXCEPT ![t] = n]
      /\ since' = [since EXCEPT ![t] = {}] /\ Unlock
  BY Zenon DEF check_region, closure
<1>2. PICK l \in {"use", "EFAULT"} :
         /\ pc' = [pc EXCEPT ![t] = l]
         /\ l = "use" => Region(a, n) \subseteq mapped /\ present' = present \cup Region(a, n)
         /\ l = "EFAULT" => present' = present
  <2>1. n \in Nat /\ n > 0 BY Sizes
  <2>2. populate_area(a, n) = present \cup Region(a, n) BY Zenon, <2>1, Populated
  <2>3. CASE Region(a, n) \subseteq (IF write THEN mapped \ ReadOnly ELSE mapped)
    <3>1. Region(a, n) \subseteq mapped BY Zenon, <2>3
    <3> QED BY Zenon, <3>1, <2>2, <2>3 DEF check_region, Goto
  <2>4. CASE ~(Region(a, n) \subseteq (IF write THEN mapped \ ReadOnly ELSE mapped))
    BY Zenon, <2>4 DEF check_region, Goto
  <2> QED BY Zenon, <2>3, <2>4
<1>3. /\ pc' \in [Threads -> AccessPcs] /\ pc'[t] = l /\ (InScan(t)' <=> InScan(t))
      /\ \A u \in Threads : u # t => pc'[u] = pc[u] /\ (InScan(u)' <=> InScan(u))
  <2>1. l \in AccessPcs /\ l \notin {"loop", "fault"} BY Zenon DEF AccessPcs
  <2>2. ~InScan(t) BY Zenon, <1>0 DEF InScan
  <2>3. pc' = [pc EXCEPT ![t] = l] BY Zenon, <1>2
  <2> QED BY Zenon, <2>1, <2>2, <2>3, <1>0, PcStep
<1>4. asleep' \subseteq asleep BY Zenon, <1>1, Woken
<1>5. TypeOK'
  <2>1. n \in 0 .. PageCount * PAGE_SIZE BY Sizes
  <2>2. start' \in [Threads -> Addrs] /\ len' \in [Threads -> 0 .. PageCount * PAGE_SIZE]
        /\ since' \in [Threads -> SUBSET Pages]
    BY Zenon, <2>1, <1>0, <1>1 DEF TypeOK
  <2>3. present' \subseteq mapped BY Zenon, <1>0, <1>2 DEF TypeOK
  <2> QED BY Zenon, <2>2, <2>3, <1>0, <1>1, <1>3, <1>4 DEF TypeOK
<1>6. Closures'
  <2>1. \A u \in Threads : InScan(u)' <=> InScan(u) BY Zenon, <1>3
  <2>2. contended \subseteq contended' /\ UNCHANGED << running, home, ACCESSING_USER_MEM >> BY Zenon, <1>1
  <2> QED BY Zenon, <2>1, <2>2, <1>0, <1>4, Stays
<1>7. Alone' /\ Panic' /\ Scans' BY Zenon, <1>0, <1>1 DEF Alone, Panic, Scans
<1>8. Loops' BY Zenon, <1>0, <1>1, <1>3 DEF Loops
<1>9. RegionReady'
  <2> SUFFICES ASSUME NEW u \in Threads, pc'[u] = "use"
               PROVE  Region(start'[u], len'[u]) \ present' \subseteq since'[u]
    BY Zenon DEF RegionReady
  <2>1. CASE u = t
    <3>1. l = "use" /\ start'[u] = a /\ len'[u] = n BY Zenon, <2>1, <1>0, <1>1, <1>3 DEF TypeOK
    <3> QED BY Zenon, <3>1, <1>2
  <2>2. CASE u # t
    <3>1. start'[u] = start[u] /\ len'[u] = len[u] /\ since'[u] = since[u] /\ pc[u] = "use"
      BY Zenon, <2>2, <1>0, <1>1, <1>3 DEF TypeOK
    <3>2. present \subseteq present' BY Zenon, <1>2
    <3> QED BY Zenon, <3>1, <3>2, <1>0 DEF RegionReady
  <2> QED BY Zenon, <2>1, <2>2
<1> QED BY Zenon, <1>5, <1>6, <1>7, <1>8, <1>9 DEF Inv

LEMMA UseKeeps == ASSUME Inv, NEW c \in Cpus, NEW t \in Threads, UseRegion(c, t) PROVE Inv'
<1>0. /\ TypeOK /\ Alone /\ Closures /\ Panic /\ Scans /\ Loops /\ RegionReady /\ pc[t] = "use"
  BY Zenon DEF Inv, UseRegion
<1>1. /\ pc' = [pc EXCEPT ![t] = "found"]
      /\ UNCHANGED << mapped, present, running, ACCESSING_USER_MEM, home, asleep, contended, start,
                      len, page, since, panicked, use >>
  BY Zenon DEF UseRegion, Goto, closure
<1>2. /\ pc' \in [Threads -> AccessPcs] /\ pc'[t] = "found" /\ (InScan(t)' <=> InScan(t))
      /\ \A u \in Threads : u # t => pc'[u] = pc[u] /\ (InScan(u)' <=> InScan(u))
  <2>1. "found" \in AccessPcs BY Zenon DEF AccessPcs
  <2>2. ~InScan(t) BY Zenon, <1>0 DEF InScan
  <2> QED BY Zenon, <2>1, <2>2, <1>0, <1>1, PcStep
<1>3. TypeOK' BY Zenon, <1>0, <1>1, <1>2 DEF TypeOK
<1>4. Closures'
  <2>1. \A u \in Threads : InScan(u)' <=> InScan(u) BY Zenon, <1>2
  <2>2. contended \subseteq contended' /\ UNCHANGED << running, home, ACCESSING_USER_MEM, asleep >> BY Zenon, <1>1
  <2> QED BY Zenon, <2>1, <2>2, <1>0, Stays
<1>5. use # "scan" BY Zenon, <1>0 DEF Scans, Scan
<1>6. Alone' /\ Panic' /\ Scans' BY Zenon, <1>0, <1>1, <1>5 DEF Alone, Panic, Scans
<1>7. Loops' BY Zenon, <1>0, <1>1, <1>2 DEF Loops
<1>8. RegionReady' BY Zenon, <1>0, <1>1, <1>2 DEF RegionReady
<1> QED BY Zenon, <1>3, <1>4, <1>6, <1>7, <1>8 DEF Inv

\* A thread that sleeps inside the closure makes the CPU of its flag contended.
LEMMA SleepKeeps ==
    ASSUME Inv, NEW c \in Cpus, NEW t \in Threads, running[c] = t, InScan(t),
           NEW l \in {"loop", "fault"}, SleepOnLock(c, t, l),
           UNCHANGED << mapped, running, ACCESSING_USER_MEM, start, len, page, since, use >>
    PROVE  Inv'
<1>0. TypeOK /\ Alone /\ Closures /\ Panic /\ Scans /\ use = "scan" BY Zenon, OneUse DEF Inv
<1>1. /\ pc' = [pc EXCEPT ![t] = l] /\ asleep' = asleep \cup {t} /\ contended' = contended \cup {c}
      /\ UNCHANGED << present, home, panicked >>
  BY Zenon DEF SleepOnLock, Goto
<1>2. /\ pc' \in [Threads -> AccessPcs] /\ pc'[t] = l /\ (InScan(t)' <=> InScan(t))
      /\ \A u \in Threads : u # t => pc'[u] = pc[u] /\ (InScan(u)' <=> InScan(u))
  <2>1. l \in AccessPcs BY Zenon DEF AccessPcs
  <2> QED BY Zenon, <2>1, <1>0, <1>1, PcStep
<1>3. TypeOK' BY Zenon, <1>0, <1>1, <1>2 DEF TypeOK
<1>4. home[t] \in contended'
  <2>1. home[t] \in Cpus BY Zenon, <1>0, HomeOf
  <2>2. CASE home[t] \in contended BY Zenon, <2>2, <1>1
  <2>3. CASE home[t] \notin contended
    <3>1. running[home[t]] = t BY Zenon, <2>3, <1>0, HomeOf
    <3>2. home[t] = c BY Zenon, <3>1, <2>1, <1>0 DEF Alone
    <3> QED BY Zenon, <3>2, <1>1
  <2> QED BY Zenon, <2>2, <2>3
<1>5. Closures'
  <2>1. \A u \in Threads : InScan(u)' <=> InScan(u) BY Zenon, <1>2
  <2>2. \A u \in asleep' : u \in asleep \/ home[u] \in contended' BY Zenon, <1>1, <1>4
  <2>3. contended \subseteq contended' /\ UNCHANGED << running, home, ACCESSING_USER_MEM >> BY Zenon, <1>1
  <2> QED BY Zenon, <2>1, <2>2, <2>3, <1>0, Stays
<1>6. Scans'
  <2> SUFFICES ASSUME NEW u \in Threads PROVE Scan(u)' BY Zenon DEF Scans
  <2>1. pc'[u] = pc[u] \/ (pc[u] \in {"loop", "fault"} /\ pc'[u] \in {"loop", "fault", "dead"})
    <3>1. CASE u # t BY Zenon, <3>1, <1>2
    <3>2. CASE u = t BY Zenon, <3>2, <1>2 DEF InScan
    <3> QED BY Zenon, <3>1, <3>2
  <2>2. Scan(u) /\ start'[u] = start[u] /\ len'[u] = len[u] /\ page'[u] = page[u] BY Zenon, <1>0 DEF Scans
  <2> QED BY Zenon, <2>1, <2>2, ScanSame
<1>7. RegionReady' BY Zenon, <1>6, <1>0 DEF Scans, Scan, RegionReady
<1>8. Alone' /\ Panic' /\ Loops' BY Zenon, <1>0, <1>1 DEF Alone, Panic, Loops
<1> QED BY Zenon, <1>3, <1>5, <1>6, <1>7, <1>8 DEF Inv

\* The handler has the lock.
LEMMA ResolveKeeps ==
    ASSUME Inv, NEW t \in Threads, InScan(t), NEW p, Resolve(t, p),
           UNCHANGED << mapped, running, ACCESSING_USER_MEM, start, len, page, since, use >>
    PROVE  Inv'
<1>0. TypeOK /\ Alone /\ Closures /\ Panic /\ Scans /\ use = "scan" BY Zenon, OneUse DEF Inv
<1>1. UNCHANGED << contended, panicked >> /\ asleep' \subseteq asleep BY Zenon, Woken DEF Resolve
<1>2. PICK l \in {"loop", "dead"} :
        /\ pc' = [pc EXCEPT ![t] = l]
        /\ l = "loop" => present' = present \cup {p} /\ p \in mapped /\ UNCHANGED home
        /\ l = "dead" => home' = [home EXCEPT ![t] = "none"] /\ UNCHANGED present
  <2>1. CASE p \in mapped BY Zenon, <2>1 DEF Resolve, Goto
  <2>2. CASE p \notin mapped BY Zenon, <2>2 DEF Resolve, Goto
  <2> QED BY Zenon, <2>1, <2>2
<1>3. /\ pc' \in [Threads -> AccessPcs] /\ pc'[t] = l /\ (InScan(t)' <=> l = "loop")
      /\ \A u \in Threads : u # t => pc'[u] = pc[u] /\ (InScan(u)' <=> InScan(u))
  <2>1. l \in AccessPcs /\ (l \in {"loop", "fault"} <=> l = "loop") BY Zenon DEF AccessPcs
  <2>2. pc' = [pc EXCEPT ![t] = l] BY Zenon, <1>2
  <2> QED BY Zenon, <2>1, <2>2, <1>0, PcStep
<1>4. Closures' /\ home' \in [Threads -> Cpus \cup {"none"}]
  <2>1. CASE l = "loop"
    <3>1. \A u \in Threads : InScan(u)' <=> InScan(u) BY Zenon, <2>1, <1>3
    <3>2. contended \subseteq contended' /\ UNCHANGED << running, home, ACCESSING_USER_MEM >>
          /\ \A u \in asleep' : u \in asleep
      BY Zenon, <2>1, <1>1, <1>2
    <3> QED BY Zenon, <3>1, <3>2, <1>0, Stays DEF TypeOK
  <2>2. CASE l = "dead"
    <3>1. ~InScan(t)' /\ home' = [home EXCEPT ![t] = "none"] BY Zenon, <2>2, <1>2, <1>3
    <3>2. UNCHANGED ACCESSING_USER_MEM /\ UNCHANGED << running, contended >> BY Zenon, <1>1
    <3> QED BY Zenon, <3>1, <3>2, <1>0, <1>1, <1>3, Leaves
  <2> QED BY Zenon, <2>1, <2>2
<1>5. TypeOK'
  <2>1. present' \subseteq mapped BY Zenon, <1>0, <1>2 DEF TypeOK
  <2> QED BY Zenon, <2>1, <1>0, <1>1, <1>3, <1>4 DEF TypeOK
<1>6. Scans'
  <2> SUFFICES ASSUME NEW u \in Threads PROVE Scan(u)' BY Zenon DEF Scans
  <2>1. pc'[u] = pc[u] \/ (pc[u] \in {"loop", "fault"} /\ pc'[u] \in {"loop", "fault", "dead"})
    <3>1. CASE u # t BY Zenon, <3>1, <1>3
    <3>2. CASE u = t BY Zenon, <3>2, <1>3 DEF InScan
    <3> QED BY Zenon, <3>1, <3>2
  <2>2. Scan(u) /\ start'[u] = start[u] /\ len'[u] = len[u] /\ page'[u] = page[u] BY Zenon, <1>0 DEF Scans
  <2> QED BY Zenon, <2>1, <2>2, ScanSame
<1>7. RegionReady' BY Zenon, <1>6, <1>0 DEF Scans, Scan, RegionReady
<1>8. Alone' /\ Panic' /\ Loops' BY Zenon, <1>0, <1>1 DEF Alone, Panic, Loops
<1> QED BY Zenon, <1>4, <1>5, <1>6, <1>7, <1>8 DEF Inv

\* On a CPU that is not contended a fault in the closure finds the flag set.
LEMMA FaultKeeps == ASSUME Inv, NEW c \in Cpus, NEW t \in Threads, handle_page_fault(c, t) PROVE Inv'
<1>0. TypeOK /\ Alone /\ Closures /\ Panic /\ Scans /\ Loops /\ RegionReady /\ running[c] = t
  BY Zenon DEF Inv, handle_page_fault, On
<1>1. UNCHANGED << mapped, running, ACCESSING_USER_MEM, start, len, page, since, use >>
  BY Zenon DEF handle_page_fault
<1>2. PICK p \in Touched(t) :
        \/ /\ ~ACCESSING_USER_MEM[c] /\ panicked' = pc[t]
           /\ UNCHANGED << present, pc, home, asleep, contended >>
        \/ ACCESSING_USER_MEM[c] /\ (Resolve(t, p) \/ SleepOnLock(c, t, "fault"))
  BY Zenon DEF handle_page_fault
<1>3. pc[t] = "loop" \/ pc[t] = "use" BY Zenon DEF Touched
<1>4. CASE ~ACCESSING_USER_MEM[c]
  <2>1. panicked' = pc[t] /\ UNCHANGED << present, pc, home, asleep, contended >> BY Zenon, <1>2, <1>4
  <2>2. panicked' \in {"no", "loop", "use"} BY Zenon, <2>1, <1>3
  <2>3. TypeOK' BY Zenon, <2>1, <2>2, <1>0, <1>1 DEF TypeOK
  <2>4. Panic'
    <3> SUFFICES ASSUME pc[t] = "loop" PROVE c \in contended BY Zenon, <2>1 DEF Panic
    <3>1. InScan(running[c]) /\ running[c] = t BY Zenon, <1>0 DEF InScan
    <3> QED BY Zenon, <3>1, <1>0, <1>4 DEF Closures
  <2>5. Closures' /\ Alone' /\ Loops' BY Zenon, <2>1, <1>0, <1>1 DEF Closures, InScan, Alone, Loops
  <2>6. Scans' BY Zenon, <2>1, <1>0, <1>1 DEF Scans, Scan, Ptr
  <2>7. RegionReady' BY Zenon, <2>1, <1>0, <1>1 DEF RegionReady
  <2> QED BY Zenon, <2>3, <2>4, <2>5, <2>6, <2>7 DEF Inv
<1>5. CASE ACCESSING_USER_MEM[c]
  <2>1. use = "scan"
    <3>1. use \in {"scan", "region"} BY Zenon, <1>0, AccessAssumption DEF TypeOK
    <3> QED BY Zenon, <3>1, <1>0, <1>5 DEF Loops
  <2>2. InScan(t) BY Zenon, <2>1, <1>0, <1>3 DEF Scans, Scan, InScan
  <2>3. CASE Resolve(t, p) BY Zenon, <2>2, <2>3, <1>1, ResolveKeeps
  <2>4. CASE SleepOnLock(c, t, "fault") BY Zenon, <2>2, <2>4, <1>0, <1>1, SleepKeeps
  <2> QED BY Zenon, <2>3, <2>4, <1>2, <1>5
<1> QED BY Zenon, <1>4, <1>5

LEMMA ResumeKeeps == ASSUME Inv, NEW c \in Cpus, NEW t \in Threads, FaultResumes(c, t) \/ CheckSleeps(c, t) PROVE Inv'
<1>1. running[c] = t /\ InScan(t) BY Zenon DEF FaultResumes, CheckSleeps, On, InScan
<1>2. UNCHANGED << mapped, running, ACCESSING_USER_MEM, start, len, page, since, use >>
  BY Zenon DEF FaultResumes, CheckSleeps
<1>3. CASE Resolve(t, PageOf(Ptr(t))) BY Zenon, <1>1, <1>2, <1>3, ResolveKeeps
<1>4. CASE \E l \in {"loop", "fault"} : SleepOnLock(c, t, l) BY Zenon, <1>1, <1>2, <1>4, SleepKeeps
<1> QED BY Zenon, <1>3, <1>4 DEF FaultResumes, CheckSleeps

LEMMA ReturnKeeps == ASSUME Inv, NEW c \in Cpus, NEW t \in Threads, Return(c, t) PROVE Inv'
<1>0. TypeOK /\ Alone /\ Closures /\ Panic /\ Scans /\ Loops /\ RegionReady BY Zenon DEF Inv
<1>1. /\ pc' = [pc EXCEPT ![t] = "user"] /\ ~InScan(t)
      /\ start' = [start EXCEPT ![t] = 0] /\ len' = [len EXCEPT ![t] = 0]
      /\ page' = [page EXCEPT ![t] = 0] /\ since' = [since EXCEPT ![t] = {}]
      /\ UNCHANGED << mapped, present, running, ACCESSING_USER_MEM, home, asleep, contended, panicked, use >>
  BY Zenon DEF Return, Goto, closure, InScan
<1>2. /\ pc' \in [Threads -> AccessPcs] /\ pc'[t] = "user" /\ (InScan(t)' <=> InScan(t))
      /\ \A u \in Threads : u # t => pc'[u] = pc[u] /\ (InScan(u)' <=> InScan(u))
  <2>1. "user" \in AccessPcs BY Zenon DEF AccessPcs
  <2> QED BY Zenon, <2>1, <1>0, <1>1, PcStep
<1>3. TypeOK'
  <2>1. 0 \in Addrs /\ 0 \in 0 .. PageCount * PAGE_SIZE /\ 0 \in 0 .. PageCount BY Sizes DEF Addrs
  <2>2. start' \in [Threads -> Addrs] /\ len' \in [Threads -> 0 .. PageCount * PAGE_SIZE]
        /\ page' \in [Threads -> 0 .. PageCount] /\ since' \in [Threads -> SUBSET Pages]
    BY Zenon, <2>1, <1>0, <1>1 DEF TypeOK
  <2> QED BY Zenon, <2>2, <1>0, <1>1, <1>2 DEF TypeOK
<1>4. \A u \in Threads : u # t => start'[u] = start[u] /\ len'[u] = len[u] /\ page'[u] = page[u]
                                  /\ since'[u] = since[u]
  BY Zenon, <1>0, <1>1 DEF TypeOK
<1>5. Closures'
  <2>1. \A u \in Threads : InScan(u)' <=> InScan(u) BY Zenon, <1>2
  <2>2. contended \subseteq contended' /\ UNCHANGED << running, home, ACCESSING_USER_MEM, asleep >> BY Zenon, <1>1
  <2> QED BY Zenon, <2>1, <2>2, <1>0, Stays
<1>6. Scans'
  <2> SUFFICES ASSUME use = "scan", NEW u \in Threads PROVE Scan(u)' BY Zenon, <1>1 DEF Scans
  <2>1. CASE u = t BY Zenon, <2>1, <1>2, ScanIdle
  <2>2. CASE u # t BY Zenon, <2>2, <1>0, <1>2, <1>4, ScanSame DEF Scans
  <2> QED BY Zenon, <2>1, <2>2
<1>7. Alone' /\ Panic' BY Zenon, <1>0, <1>1 DEF Alone, Panic
<1>8. Loops' BY Zenon, <1>0, <1>1, <1>2 DEF Loops
<1>9. RegionReady' BY Zenon, <1>0, <1>1, <1>2, <1>4 DEF RegionReady
<1> QED BY Zenon, <1>3, <1>5, <1>6, <1>7, <1>8, <1>9 DEF Inv

\* sys_mmap and sys_munmap.
LEMMA MapKeeps ==
    ASSUME Inv, NEW c \in Cpus, NEW t \in Threads, NEW p \in Pages,
           LockSpace(c, t) \/ Map(c, t, p) \/ Unmap(c, t, p)
    PROVE  Inv'
<1>0. TypeOK /\ Alone /\ Closures /\ Panic /\ Scans /\ Loops /\ RegionReady BY Zenon DEF Inv
<1>1. UNCHANGED << running, ACCESSING_USER_MEM, home, contended, start, len, page, panicked, use >>
  BY Zenon DEF LockSpace, Map, Unmap, closure
<1>2. asleep' \subseteq asleep BY Zenon, Woken DEF LockSpace, Map, Unmap
<1>3. PICK l \in {"user", "locked"} : pc' = [pc EXCEPT ![t] = l] BY Zenon DEF LockSpace, Map, Unmap, Goto
<1>4. ~InScan(t) /\ pc[t] # "use" BY Zenon DEF LockSpace, Map, Unmap, InScan
<1>5. /\ pc' \in [Threads -> AccessPcs] /\ pc'[t] = l /\ (InScan(t)' <=> InScan(t))
      /\ \A u \in Threads : u # t => pc'[u] = pc[u] /\ (InScan(u)' <=> InScan(u))
  <2>1. l \in AccessPcs /\ l \notin {"loop", "fault"} BY Zenon DEF AccessPcs
  <2>2. pc' = [pc EXCEPT ![t] = l] BY Zenon, <1>3
  <2> QED BY Zenon, <2>1, <2>2, <1>0, <1>4, PcStep
<1>6. Closures'
  <2>1. \A u \in Threads : InScan(u)' <=> InScan(u) BY Zenon, <1>5
  <2>2. contended \subseteq contended' /\ UNCHANGED << running, home, ACCESSING_USER_MEM >> BY Zenon, <1>1
  <2> QED BY Zenon, <2>1, <2>2, <1>0, <1>2, Stays
<1>7. Scans'
  <2> SUFFICES ASSUME use = "scan", NEW u \in Threads PROVE Scan(u)' BY Zenon, <1>1 DEF Scans
  <2>1. CASE u = t
    <3>1. pc'[u] \in {"user", "locked"} BY Zenon, <2>1, <1>5
    <3> QED BY Zenon, <3>1, ScanIdle
  <2>2. CASE u # t BY Zenon, <2>2, <1>0, <1>1, <1>5, ScanSame DEF Scans
  <2> QED BY Zenon, <2>1, <2>2
<1>8. Alone' /\ Panic' BY Zenon, <1>0, <1>1 DEF Alone, Panic
<1>9. Loops' BY Zenon, <1>0, <1>1, <1>5 DEF Loops
<1>10. \A u \in Threads : pc'[u] = "use" => pc[u] = "use" /\ pc'[u] = pc[u] BY Zenon, <1>4, <1>5
<1>11. CASE LockSpace(c, t) \/ Map(c, t, p)
  <2>1. mapped \subseteq mapped' /\ mapped' \subseteq Pages /\ UNCHANGED << present, since >>
    BY Zenon, <1>0, <1>11 DEF LockSpace, Map, TypeOK
  <2>2. TypeOK' BY Zenon, <2>1, <1>0, <1>1, <1>2, <1>5 DEF TypeOK
  <2>3. RegionReady' BY Zenon, <2>1, <1>0, <1>1, <1>10 DEF RegionReady
  <2> QED BY Zenon, <2>2, <2>3, <1>6, <1>7, <1>8, <1>9 DEF Inv
<1>12. CASE Unmap(c, t, p)
  <2>1. /\ mapped' = mapped \ {p} /\ present' = present \ {p}
        /\ since' = [u \in Threads |-> IF pc[u] = "use" THEN since[u] \cup {p} ELSE {}]
    BY Zenon, <1>12 DEF Unmap
  <2>2. since' \in [Threads -> SUBSET Pages]
    <3>1. \A u \in Threads : since[u] \subseteq Pages BY Zenon, <1>0 DEF TypeOK
    <3> QED BY Zenon, <3>1, <2>1
  <2>3. TypeOK' BY Zenon, <2>1, <2>2, <1>0, <1>1, <1>2, <1>5 DEF TypeOK
  <2>4. RegionReady'
    <3> SUFFICES ASSUME NEW u \in Threads, pc'[u] = "use"
                 PROVE  Region(start[u], len[u]) \ present' \subseteq since'[u]
      BY ZenonT(30), <1>1 DEF RegionReady
    <3>0. pc[u] = "use" BY Zenon, <1>10
    <3>1. since'[u] = since[u] \cup {p} BY Zenon, <3>0, <2>1
    <3>2. Region(start[u], len[u]) \ present \subseteq since[u] BY Zenon, <3>0, <1>0 DEF RegionReady
    <3> QED BY ZenonT(30), <3>1, <3>2, <2>1
  <2> QED BY Zenon, <2>3, <2>4, <1>6, <1>7, <1>8, <1>9 DEF Inv
<1> QED BY Zenon, <1>11, <1>12

\* The scheduler takes the CPU from a thread in the closure only when it sleeps,
\* and where it gives it to one the CPU is contended from then on.
LEMMA SwitchKeeps == ASSUME Inv, NEW c \in Cpus, NEW t \in Threads, Switch(c, t) PROVE Inv'
<1>0. TypeOK /\ Alone /\ Closures /\ Panic /\ Scans /\ Loops /\ RegionReady BY Zenon DEF Inv
<1>1. /\ ~InScan(running[c]) \/ running[c] \in asleep
      /\ \A d \in Cpus : running[d] # t
      /\ running' = [running EXCEPT ![c] = t]
      /\ UNCHANGED << mapped, present, ACCESSING_USER_MEM, home, asleep, pc, start, len, page, since, panicked, use >>
  BY Zenon DEF Switch, InScan, closure
<1>2. /\ contended \subseteq contended' /\ contended' \subseteq Cpus
      /\ home[t] # "none" => c \in contended'
  <2>1. contended \subseteq Cpus BY Zenon, <1>0 DEF TypeOK
  <2>2. contended' = IF home[t] = "none" THEN contended ELSE contended \cup {c} BY Zenon DEF Switch
  <2> QED BY Zenon, <2>1, <2>2
<1>3. running' \in [Cpus -> Threads] /\ \A d \in Cpus : running'[d] = IF d = c THEN t ELSE running[d]
  BY Zenon, <1>0, <1>1 DEF TypeOK
<1>4. TypeOK' BY Zenon, <1>0, <1>1, <1>2, <1>3 DEF TypeOK
<1>5. Alone' BY Zenon, <1>0, <1>1, <1>3 DEF Alone
<1>6. Closures'
  <2>1. \A u \in Threads : (InScan(u)' <=> InScan(u)) /\ (InScan(u) <=> home[u] # "none")
    BY Zenon, <1>0, <1>1 DEF InScan, Closures
  <2>2. ASSUME NEW u \in Threads, InScan(u)', home'[u] \notin contended'
        PROVE  running'[home'[u]] = u /\ u \notin asleep' /\ ACCESSING_USER_MEM'[home'[u]]
    <3>1. InScan(u) /\ home[u] \notin contended /\ home'[u] = home[u] BY Zenon, <2>1, <2>2, <1>1, <1>2
    <3>2. running[home[u]] = u /\ u \notin asleep /\ ACCESSING_USER_MEM[home[u]] BY Zenon, <3>1, <1>0 DEF Closures
    <3>3. home[u] \in Cpus BY Zenon, <3>1, <2>1, <1>0 DEF TypeOK
    <3>4. home[u] # c BY Zenon, <3>1, <3>2, <1>1
    <3> QED BY Zenon, <3>1, <3>2, <3>3, <3>4, <1>1, <1>3
  <2>3. ASSUME NEW d \in Cpus \ contended', InScan(running[d])' PROVE home'[running'[d]] = d
    <3>0. running'[d] \in Threads /\ pc'[running'[d]] \in {"loop", "fault"} BY Zenon, <1>3, <2>3 DEF InScan
    <3>1. InScan(running'[d]) BY Zenon, <3>0, <1>1 DEF InScan
    <3>2. d # c BY Zenon, <3>0, <3>1, <2>1, <1>2, <1>3
    <3>3. running'[d] = running[d] /\ d \in Cpus \ contended BY Zenon, <3>2, <1>2, <1>3
    <3> QED BY Zenon, <3>1, <3>3, <1>0, <1>1 DEF Closures
  <2>4. \A d \in Cpus \ contended' : InScan(running[d])' => home'[running'[d]] = d BY Zenon, <2>3
  <2>5. \A u \in Threads : InScan(u)' <=> home'[u] # "none" BY Zenon, <2>1, <1>1
  <2> QED BY Zenon, <2>2, <2>4, <2>5 DEF Closures
<1>7. Panic' BY Zenon, <1>0, <1>1, <1>2 DEF Panic
<1>8. Scans' BY Zenon, <1>0, <1>1 DEF Scans, Scan, Ptr
<1>9. Loops' /\ RegionReady' BY Zenon, <1>0, <1>1 DEF Loops, InScan, RegionReady
<1> QED BY Zenon, <1>4, <1>5, <1>6, <1>7, <1>8, <1>9 DEF Inv

LEMMA Keeps == Inv /\ [Next]_vars => Inv'
<1> SUFFICES ASSUME Inv, [Next]_vars PROVE Inv' BY Zenon
<1>1. ASSUME NEW c \in Cpus, NEW t \in Threads, NEW a \in Addrs,
             get_as_mut(c, t, a) \/ get_as_ref(c, t, a)
      PROVE  Inv'
  <2>1. 1 \in 1 .. PageCount * PAGE_SIZE BY Sizes
  <2>2. \E w \in BOOLEAN : check_region(c, t, a, 1, w)
    BY Zenon, <1>1 DEF get_as_mut, get_as_ref, get_as_mut_slice, get_as_slice
  <2> QED BY Zenon, <2>1, <2>2, RegionKeeps
<1>2. ASSUME NEW c \in Cpus, NEW t \in Threads, NEW a \in Addrs, NEW b \in Addrs, a <= b,
             get_as_mut_slice(c, t, a, b - a + 1) \/ get_as_slice(c, t, a, b - a + 1)
      PROVE  Inv'
  <2>1. b - a + 1 \in 1 .. PageCount * PAGE_SIZE BY <1>2, Sizes DEF Addrs
  <2>2. \E w \in BOOLEAN : check_region(c, t, a, b - a + 1, w)
    BY Zenon, <1>2 DEF get_as_mut_slice, get_as_slice
  <2> QED BY Zenon, <2>1, <2>2, RegionKeeps
<1>3. CASE Next
  <2>1. PICK c \in Cpus, t \in Threads :
          \/ CheckPage(c, t) \/ CheckSleeps(c, t) \/ ReadElement(c, t)
          \/ handle_page_fault(c, t) \/ FaultResumes(c, t)
          \/ Return(c, t) \/ Switch(c, t) \/ LockSpace(c, t)
          \/ UseRegion(c, t)
          \/ \E a \in Arrays : Begin(c, t, a)
          \/ \E a \in Addrs : get_as_mut(c, t, a) \/ get_as_ref(c, t, a)
          \/ \E a, b \in Addrs : a <= b /\ (\/ get_as_mut_slice(c, t, a, b - a + 1)
                                            \/ get_as_slice(c, t, a, b - a + 1))
          \/ \E p \in Pages : Map(c, t, p) \/ Unmap(c, t, p)
    BY Zenon, <1>3 DEF Next
  <2>2. ASSUME LockSpace(c, t) PROVE Inv'
    <3>1. 0 \in Pages BY Sizes DEF Pages
    <3> QED BY Zenon, <3>1, <2>2, MapKeeps
  <2> QED BY Zenon, <2>1, <2>2, <1>1, <1>2, BeginKeeps, CheckPageKeeps, ReadElementKeeps, UseKeeps,
             FaultKeeps, ResumeKeeps, ReturnKeeps, MapKeeps, SwitchKeeps
<1>4. CASE UNCHANGED vars
  <2>1. UNCHANGED << mapped, present, running, ACCESSING_USER_MEM, asleep, home, contended, pc, start,
                     len, page, since, panicked, use >>
    BY Zenon, <1>4 DEF vars
  <2>2. TypeOK' BY Zenon, <2>1 DEF Inv, TypeOK
  <2>3. Alone' /\ Closures' /\ Panic' BY Zenon, <2>1 DEF Inv, Alone, Closures, InScan, Panic
  <2>4. Scans' /\ Loops' BY Zenon, <2>1 DEF Inv, Scans, Scan, Ptr, Loops, InScan
  <2>5. RegionReady' BY Zenon, <2>1 DEF Inv, RegionReady
  <2> QED BY Zenon, <2>2, <2>3, <2>4, <2>5 DEF Inv
<1> QED BY Zenon, <1>3, <1>4

LEMMA Invariant == Spec => []Inv
  BY Start, Keeps, PTL DEF Spec

\* For every number of threads, CPUs and pages, and every page size: while the lock
\* of the address space is not contended, a page fault of check_null_terminated is
\* never refused by handle_page_fault.  On a CPU where no thread has slept inside
\* access_user_memory, or resumed there after such a sleep, a scan finds its flag.
THEOREM ScanFaultsHandled == Spec => []FaultsHandled
<1>1. ASSUME Inv PROVE FaultsHandled
  <2>1. ASSUME NEW c \in Cpus \ contended, pc[running[c]] = "loop" PROVE ACCESSING_USER_MEM[c]
    <3>1. running[c] \in Threads /\ InScan(running[c]) BY Zenon, <1>1, <2>1 DEF Inv, TypeOK, InScan
    <3>2. home[running[c]] = c BY Zenon, <3>1, <1>1 DEF Inv, Closures
    <3> QED BY Zenon, <3>1, <3>2, <1>1 DEF Inv, Closures
  <2> QED BY Zenon, <2>1, <1>1 DEF FaultsHandled, Inv, Panic
<1> QED BY <1>1, Invariant, PTL

\* Likewise: what check_region has checked can be used, but for the pages that
\* another thread has unmapped since.
THEOREM RegionsReady == Spec => []RegionReady
<1>1. Inv => RegionReady BY Zenon DEF Inv
<1> QED BY <1>1, Invariant, PTL

\* Likewise: check_null_terminated returns the index of the first zero, and
\* EFAULT only at a page it cannot pass.
THEOREM ScansExact == Spec => []ScanExact
<1>1. Inv => ScanExact BY Zenon DEF Inv, Scans, Scan, ScanExact
<1> QED BY <1>1, Invariant, PTL
-----------------------------------------------------------------------------
(* Address spaces *)

AreaKinds == {"none", "trampoline", "image", "stack", "heap", "mmap"}

LEMMA SpaceSizes ==
    ASSUME SpaceConstants
    PROVE  /\ PAGE_SIZE_4K \in Nat /\ PAGE_SIZE_4K > 0 /\ SpacePageCount \in Nat
           /\ USER_HEAP_BASE \in Nat /\ USER_HEAP_SIZE \in Nat
           /\ Starts \subseteq Nat /\ -1 \notin Starts
           /\ SpacePages \subseteq Nat
           /\ \A m \in MmapArgs : /\ m.addr \in Nat /\ m.length \in Nat /\ m.fixed \in BOOLEAN
                                  /\ m.pages * PAGE_SIZE_4K \in Nat /\ m.pages * PAGE_SIZE_4K > 0
<1>1. PAGE_SIZE_4K \in Nat /\ PAGE_SIZE_4K > 0 /\ SpacePageCount \in Nat /\ USER_HEAP_BASE \in Nat /\ USER_HEAP_SIZE \in Nat
  BY DEF SpaceConstants
<1>2. SpacePages \subseteq Nat BY <1>1 DEF SpacePages
<1>3. Starts \subseteq Nat BY <1>1, <1>2 DEF Starts
<1>4. -1 \notin Starts BY <1>3
<1>5. \A m \in MmapArgs : m.addr \in Nat /\ m.length \in Nat /\ m.fixed \in BOOLEAN /\ m.pages \in {1, 2}
  BY Zenon DEF SpaceConstants
<1>6. \A k \in {1, 2} : k * PAGE_SIZE_4K \in Nat /\ k * PAGE_SIZE_4K > 0 BY <1>1
<1> QED BY Zenon, <1>1, <1>2, <1>3, <1>4, <1>5, <1>6

LEMMA Aligned ==
    ASSUME NEW a \in Nat, NEW n \in Nat, n > 0
    PROVE  /\ align_down(a, n) \in Nat /\ align_down(a, n) <= a
           /\ align_up(a, n) \in Nat /\ align_up(a, n) >= a
<1>1. \A b \in Nat : /\ align_down(b, n) \in Nat /\ align_down(b, n) <= b
                     /\ align_down(b, n) > b - n
  BY DEF align_down
<1>2. a + n - 1 \in Nat OBVIOUS
<1> QED BY <1>1, <1>2 DEF align_up

\* The range mmap asks for holds the bytes the program asks for.
LEMMA MmapRange ==
    ASSUME SpaceConstants, NEW m \in MmapArgs
    PROVE  /\ MmapStart(m) \in Nat /\ MmapEnd(m) \in Nat
           /\ MmapStart(m) <= m.addr /\ m.addr + m.length <= MmapEnd(m)
<1>1. m.addr \in Nat /\ m.addr + m.length \in Nat /\ m.pages * PAGE_SIZE_4K \in Nat /\ m.pages * PAGE_SIZE_4K > 0
  BY SpaceSizes
<1> QED BY Zenon, <1>1, Aligned DEF MmapStart, MmapEnd

LEMMA MmapLength ==
    ASSUME SpaceConstants, NEW m \in MmapArgs, NEW st \in Nat, NEW size \in Int,
           size = MmapEnd(m) - MmapStart(m)
    PROVE  /\ m.length <= size /\ m.addr + m.length \in Int /\ st + m.length <= st + size
           /\ st = MmapStart(m) => /\ st + size = MmapEnd(m)
                                         /\ st <= m.addr /\ m.addr + m.length <= st + size
<1>1. PICK a, l, s, e : a = m.addr /\ l = m.length /\ s = MmapStart(m) /\ e = MmapEnd(m)
  BY Zenon
<1>2. a \in Nat /\ l \in Nat BY Zenon, <1>1, SpaceSizes
<1>3. s \in Nat /\ e \in Nat /\ s <= a /\ a + l <= e BY Zenon, <1>1, MmapRange
<1>4. size = e - s BY Zenon, <1>1
<1>5. l <= size /\ a + l \in Int /\ st + l <= st + size BY <1>2, <1>3, <1>4
<1>6. st = s => st + size = e /\ st <= a /\ a + l <= st + size BY <1>2, <1>3, <1>4
<1> QED BY <1>1, <1>5, <1>6, Zenon

LEMMA PagesGrow ==
    ASSUME NEW a \in Nat, NEW b \in Int, NEW c \in Nat, NEW d \in Int, a <= c, d <= b,
           PAGE_SIZE_4K \in Nat, PAGE_SIZE_4K > 0, SpacePageCount \in Nat
    PROVE  PagesOf(c, d) \subseteq PagesOf(a, b)
<1>1. a \div PAGE_SIZE_4K \in Nat /\ c \div PAGE_SIZE_4K \in Nat /\ a \div PAGE_SIZE_4K <= c \div PAGE_SIZE_4K
  OBVIOUS
<1>2. \A i \in 0 .. SpacePageCount : i * PAGE_SIZE_4K \in Int OBVIOUS
<1> QED BY <1>1, <1>2 DEF PagesOf

LEMMA AreaTyped ==
    ASSUME SpaceTypeOK, NEW p \in Procs
    PROVE  /\ space[p] \in Procs /\ area \in [Procs -> [SpacePages -> AreaKinds]]
           /\ area[space[p]] \in [SpacePages -> AreaKinds]
  BY Zenon DEF SpaceTypeOK, AreaKinds

\* The space of p becomes b, which maps the range when the call succeeds.
Remapped(p, before, st, size, ret, b) ==
    /\ area' = [area EXCEPT ![space[p]] = b]
    /\ \A i \in SpacePages : b[i] = before[i] \/ i \in PagesOf(st, st + size)
    /\ ret # -1 => /\ ret = st /\ PagesOf(st, st + size) \subseteq SpacePages
                   /\ \A i \in PagesOf(st, st + size) : b[i] = "mmap"

\* mmap of a range, after what was there has been unmapped or found free.
LEMMA MmapAtEffect ==
    ASSUME NEW p \in Procs, NEW m, NEW before \in [SpacePages -> AreaKinds], NEW st, NEW size, NEW ret,
           MmapAt(p, m, before, st, size, ret)
    PROVE  \E b \in [SpacePages -> AreaKinds] : Remapped(p, before, st, size, ret, b)
<1>1. PICK pages : pages = PagesOf(st, st + size) BY Zenon
<1>2. CASE pages \subseteq SpacePages /\ size > 0
  <2>1. PICK b : b = map_alloc(before, pages) BY Zenon
  <2>2. area' = [area EXCEPT ![space[p]] = b] /\ (ret # -1 => ret = st)
    BY Zenon, <2>1, <1>1, <1>2 DEF MmapAt, SetArea
  <2>3. /\ b \in [SpacePages -> AreaKinds]
        /\ \A i \in SpacePages : b[i] = IF i \in pages THEN "mmap" ELSE before[i]
    BY Zenon, <2>1 DEF map_alloc, AreaKinds
  <2> QED BY Zenon, <2>2, <2>3, <1>1, <1>2 DEF Remapped
<1>3. CASE ~(pages \subseteq SpacePages /\ size > 0)
  <2>1. area' = [area EXCEPT ![space[p]] = before] /\ ret = -1
    BY Zenon, <1>1, <1>3 DEF MmapAt, SetArea
  <2> QED BY Zenon, <2>1 DEF Remapped
<1> QED BY Zenon, <1>2, <1>3

\* sys_mmap changes one space.  Outside its range nothing changes, without
\* MAP_FIXED nothing that was mapped, and a success maps the range.
LEMMA MmapEffect ==
    ASSUME SpaceConstants, SpaceTypeOK, NEW p \in Procs, NEW m \in MmapArgs,
           NEW ret \in Results, sys_mmap(p, m, ret)
    PROVE  \/ area' = area /\ ret = -1
           \/ \E b \in [SpacePages -> AreaKinds], st \in Nat, size \in Int :
              /\ Remapped(p, area[space[p]], st, size, ret, b)
              /\ size = MmapEnd(m) - MmapStart(m)
              /\ m.fixed => st = MmapStart(m)
              /\ ~m.fixed => \A i \in SpacePages :
                    area[space[p]][i] # "none" => b[i] = area[space[p]][i]
<1>1. PICK st, size, a : st = MmapStart(m) /\ size = MmapEnd(m) - st /\ a = area[space[p]]
  BY Zenon
<1>2. /\ st \in Nat /\ size \in Int /\ a \in [SpacePages -> AreaKinds]
  BY SMTT(30), <1>1, MmapRange, AreaTyped
<1>3. CASE area' = area /\ ret = -1 BY Zenon, <1>3
<1>4. CASE m.fixed /\ ~(area' = area /\ ret = -1)
  <2>1. PICK before : before = unmap(a, PagesOf(st, st + size)) BY Zenon
  <2>2. MmapAt(p, m, before, st, size, ret) BY Zenon, <2>1, <1>1, <1>4 DEF sys_mmap
  <2>3. before \in [SpacePages -> AreaKinds] BY Zenon, <2>1, <1>2 DEF unmap, AreaKinds
  <2>4. \A i \in SpacePages : before[i] = a[i] \/ i \in PagesOf(st, st + size)
    BY Zenon, <2>1 DEF unmap
  <2>5. PICK b \in [SpacePages -> AreaKinds] : Remapped(p, before, st, size, ret, b)
    BY <2>2, <2>3, MmapAtEffect, Zenon
  <2>6. Remapped(p, a, st, size, ret, b) BY Zenon, <2>4, <2>5 DEF Remapped
  <2> QED BY Zenon, <2>6, <1>1, <1>2, <1>4
<1>5. CASE ~m.fixed /\ ~(area' = area /\ ret = -1)
  <2>1. PICK s \in find_free_area(a, size, m.pages * PAGE_SIZE_4K) : MmapAt(p, m, a, s, size, ret)
    BY Zenon, <1>1, <1>5 DEF sys_mmap
  <2>2. s \in Nat /\ \A i \in PagesOf(s, s + size) : a[i] = "none"
    BY Zenon, <2>1, SpaceSizes DEF find_free_area
  <2>a. a \in [SpacePages -> AreaKinds] BY Zenon, <1>2
  <2>3. PICK b \in [SpacePages -> AreaKinds] : Remapped(p, a, s, size, ret, b)
    BY <2>1, <2>a, MmapAtEffect, Zenon
  <2>4. \A i \in SpacePages : a[i] # "none" => b[i] = a[i] BY Zenon, <2>2, <2>3 DEF Remapped
  <2> QED BY Zenon, <2>2, <2>3, <2>4, <1>1, <1>2, <1>5
<1> QED BY Zenon, <1>3, <1>4, <1>5

\* The inductive invariant: a process that was never created keeps its own name
\* for its space, and a space with a program has its whole heap, which is more
\* than the part below heap_top: brk moves heap_top and maps nothing.  That is for
\* programs that leave the heap alone.
Unborn == \A p \in Procs : p \notin alive \cup gone => space[p] = p
HeapWhole ==
    \A s \in Procs : image[s] # "none" /\ HeapLeftAlone =>
        \A i \in HeapPages : area[s][i] = "heap"
KernelKept == \A p \in alive : space[p] \in kernel \/ \E q \in gone : space[q] = space[p]
SpaceInv == SpaceTypeOK /\ Unborn /\ HeapWhole /\ KernelKept

LEMMA HeapIsPages == HeapPages \subseteq SpacePages
  BY Zenon DEF HeapPages

\* A loaded program has its heap.
LEMMA LoadedHeap ==
    ASSUME NEW a \in [SpacePages -> AreaKinds]
    PROVE  /\ Loaded(a) \in [SpacePages -> AreaKinds]
           /\ HeapLeftAlone => \A i \in HeapPages : Loaded(a)[i] = "heap"
<1>1. HeapLeftAlone => \A i \in HeapPages : i \notin ImagePages /\ i \notin StackPages
  BY Zenon DEF HeapLeftAlone
<1>2. Loaded(a) \in [SpacePages -> AreaKinds] BY Zenon DEF Loaded, AreaKinds
<1>3. HeapLeftAlone => \A i \in HeapPages : Loaded(a)[i] = "heap"
  BY Zenon, <1>1, HeapIsPages DEF Loaded
<1> QED BY Zenon, <1>2, <1>3

LEMMA EmptyTyped == Empty \in [SpacePages -> AreaKinds] BY Zenon DEF Empty, AreaKinds

LEMMA SpaceStart ==
    ASSUME SpaceConstants, SpaceInit
    PROVE  SpaceInv
<1>0. /\ FirstProc \in Procs /\ "none" \notin Files /\ USER_HEAP_BASE \in Nat /\ USER_HEAP_SIZE \in Nat
  BY Zenon DEF SpaceConstants
<1>1. PICK f \in Files :
        /\ alive = {FirstProc} /\ space = [p \in Procs |-> p]
        /\ kernel = {FirstProc} /\ gone = {}
        /\ area = [p \in Procs |-> IF p = FirstProc THEN Loaded(Empty) ELSE Empty]
        /\ image = [p \in Procs |-> IF p = FirstProc THEN f ELSE "none"]
        /\ exe_path = [p \in Procs |-> f] /\ heap_top = [p \in Procs |-> USER_HEAP_BASE]
        /\ threads = [p \in Procs |-> 1] /\ exec_pc = [p \in Procs |-> "user"]
        /\ path = [p \in Procs |-> f] /\ argv0 = path /\ arg0 = path
  BY Zenon DEF SpaceInit
<1>2. PICK l : l = Loaded(Empty) BY Zenon
<1>3. l \in [SpacePages -> AreaKinds] /\ (HeapLeftAlone => \A i \in HeapPages : l[i] = "heap")
  BY Zenon, <1>2, LoadedHeap, EmptyTyped
<1>4. area \in [Procs -> [SpacePages -> AreaKinds]] BY Zenon, <1>1, <1>2, <1>3, EmptyTyped
<1>5. heap_top \in [Procs -> USER_HEAP_BASE .. USER_HEAP_BASE + USER_HEAP_SIZE] BY <1>0, <1>1
<1>6. SpaceTypeOK BY Zenon, <1>0, <1>1, <1>4, <1>5 DEF SpaceTypeOK, AreaKinds
<1>7. Unborn BY Zenon, <1>1 DEF Unborn
<1>8. HeapWhole BY Zenon, <1>1, <1>2, <1>3 DEF HeapWhole
<1>9. KernelKept BY Zenon, <1>0, <1>1 DEF KernelKept
<1> QED BY Zenon, <1>6, <1>7, <1>8, <1>9 DEF SpaceInv

\* A step that creates and drops no process keeps what is said of the processes.
LEMMA SameProcesses ==
    ASSUME SpaceInv, UNCHANGED << alive, kernel, gone, space >>
    PROVE  Unborn' /\ KernelKept'
  BY Zenon DEF SpaceInv, Unborn, KernelKept

\* A step of the memory calls changes only the pages of one space.
LEMMA AreaStep ==
    ASSUME SpaceInv, NEW p \in Procs, NEW b \in [SpacePages -> AreaKinds],
           area' = [area EXCEPT ![space[p]] = b],
           image[space[p]] # "none" /\ HeapLeftAlone => \A i \in HeapPages : b[i] = "heap",
           UNCHANGED << alive, kernel, gone, space, image, heap_top, threads,
                        exe_path, exec_pc, path, argv0, arg0 >>
    PROVE  SpaceInv'
<1>1. SpaceTypeOK /\ HeapWhole BY Zenon DEF SpaceInv
<1>2. space[p] \in Procs /\ area \in [Procs -> [SpacePages -> AreaKinds]] BY Zenon, <1>1, AreaTyped
<1>3. area' \in [Procs -> [SpacePages -> AreaKinds]] BY Zenon, <1>2
<1>4. SpaceTypeOK' BY Zenon, <1>1, <1>3 DEF SpaceTypeOK, AreaKinds
<1>5. HeapWhole' BY Zenon, <1>1, <1>2 DEF HeapWhole
<1> QED BY Zenon, <1>4, <1>5, SameProcesses DEF SpaceInv

LEMMA SpaceIdle == ASSUME SpaceInv, UNCHANGED spacevars PROVE SpaceInv'
  BY Zenon DEF SpaceInv, spacevars, SpaceTypeOK, Unborn, HeapWhole, KernelKept

LEMMA MmapKeepsSpace ==
    ASSUME SpaceConstants, SpaceInv, NEW p \in Procs, NEW m \in MmapArgs,
           NEW ret \in Results, sys_mmap(p, m, ret)
    PROVE  SpaceInv'
<1>1. SpaceTypeOK /\ HeapWhole BY Zenon DEF SpaceInv
<1>2. UNCHANGED << alive, kernel, gone, space, image, heap_top, threads, exe_path, exec_pc, path, argv0, arg0 >>
  BY Zenon DEF sys_mmap, exec
<1>3. CASE area' = area BY Zenon, <1>2, <1>3, SpaceIdle DEF spacevars
<1>4. CASE area' # area
  <2>1. PICK b \in [SpacePages -> AreaKinds], st \in Nat, size \in Int :
              /\ Remapped(p, area[space[p]], st, size, ret, b)
              /\ size = MmapEnd(m) - MmapStart(m)
              /\ m.fixed => st = MmapStart(m)
              /\ ~m.fixed => \A i \in SpacePages :
                    area[space[p]][i] # "none" => b[i] = area[space[p]][i]
    BY Zenon, <1>1, <1>4, MmapEffect
  <2>2. area' = [area EXCEPT ![space[p]] = b] BY Zenon, <2>1 DEF Remapped
  <2>3. ASSUME image[space[p]] # "none", HeapLeftAlone, NEW i \in HeapPages PROVE b[i] = "heap"
    <3>1. area[space[p]][i] = "heap" /\ i \in SpacePages
      BY Zenon, <2>3, <1>1, AreaTyped, HeapIsPages DEF HeapWhole
    <3>2. CASE ~m.fixed BY Zenon, <3>1, <3>2, <2>1
    <3>3. CASE m.fixed
      <4>1. i \notin PagesOf(MmapStart(m), MmapEnd(m)) BY ZenonT(30), <3>3, <2>3 DEF HeapLeftAlone
      <4>2. st + size = MmapEnd(m) /\ st = MmapStart(m) BY Zenon, <3>3, <2>1, MmapLength
      <4>3. i \notin PagesOf(st, st + size) BY Zenon, <4>1, <4>2
      <4> QED BY ZenonT(30), <4>3, <3>1, <2>1 DEF Remapped
    <3> QED BY Zenon, <3>2, <3>3
  <2> QED BY ZenonT(30), <2>2, <2>3, <1>2, AreaStep
<1> QED BY Zenon, <1>3, <1>4

LEMMA MunmapKeepsSpace ==
    ASSUME SpaceConstants, SpaceInv, NEW p \in Procs, NEW m \in MunmapArgs,
           sys_munmap(p, m[1], m[2])
    PROVE  SpaceInv'
<1>1. SpaceTypeOK /\ HeapWhole BY Zenon DEF SpaceInv
<1>2. UNCHANGED << alive, kernel, gone, space, image, heap_top, threads, exe_path, exec_pc, path, argv0, arg0 >>
  BY Zenon DEF sys_munmap, exec
<1>3. CASE area' = area BY Zenon, <1>2, <1>3, SpaceIdle DEF spacevars
<1>4. CASE area' # area
  <2>1. PICK pages, b : /\ pages = MunmapPages(m[1], m[2])
                        /\ b = unmap(area[space[p]], pages)
    BY Zenon
  <2>2. area' = [area EXCEPT ![space[p]] = b] BY Zenon, <2>1, <1>4 DEF sys_munmap, SetArea
  <2>3. b \in [SpacePages -> AreaKinds] BY ZenonT(30), <2>1, <1>1, AreaTyped DEF unmap, AreaKinds
  <2>4. ASSUME image[space[p]] # "none", HeapLeftAlone, NEW i \in HeapPages PROVE b[i] = "heap"
    <3>1. area[space[p]][i] = "heap" /\ i \in SpacePages
      BY Zenon, <2>4, <1>1, AreaTyped, HeapIsPages DEF HeapWhole
    <3>2. i \notin pages BY Zenon, <2>1, <2>4 DEF HeapLeftAlone
    <3> QED BY ZenonT(30), <3>1, <3>2, <2>1 DEF unmap
  <2> QED BY ZenonT(30), <2>2, <2>3, <2>4, <1>2, AreaStep
<1> QED BY Zenon, <1>3, <1>4

LEMMA BrkKeepsSpace ==
    ASSUME SpaceConstants, SpaceInv, NEW p \in Procs, NEW b \in Breaks, sys_brk(p, b)
    PROVE  SpaceInv'
<1>1. UNCHANGED << alive, kernel, gone, space, area, image, threads, exe_path, exec_pc, path, argv0, arg0 >>
  BY Zenon DEF sys_brk, exec
<1>2. heap_top' \in [Procs -> USER_HEAP_BASE .. USER_HEAP_BASE + USER_HEAP_SIZE]
  <2>1. b \in Nat /\ USER_HEAP_BASE \in Nat /\ USER_HEAP_SIZE \in Nat BY Zenon DEF SpaceConstants
  <2> QED BY <2>1 DEF SpaceInv, SpaceTypeOK, sys_brk
<1>3. SpaceTypeOK' BY Zenon, <1>1, <1>2 DEF SpaceInv, SpaceTypeOK
<1>4. HeapWhole' BY Zenon, <1>1 DEF SpaceInv, HeapWhole
<1> QED BY Zenon, <1>1, <1>3, <1>4, SameProcesses DEF SpaceInv

\* The types of a process's execve, and of its space.
LEMMA ExecTyped ==
    ASSUME SpaceTypeOK
    PROVE  /\ image \in [Procs -> Files \cup {"none"}] /\ exe_path \in [Procs -> Files]
           /\ exec_pc \in [Procs -> {"user", "load"}]
           /\ path \in [Procs -> Files] /\ argv0 \in [Procs -> Files] /\ arg0 \in [Procs -> Files]
  BY Zenon DEF SpaceTypeOK

\* A step of execve changes one space, its program and the arguments of the call.
LEMMA ExecStep ==
    ASSUME SpaceInv, NEW p \in Procs, NEW b \in [SpacePages -> AreaKinds], NEW f \in Files \cup {"none"},
           area' = [area EXCEPT ![space[p]] = b], image' = [image EXCEPT ![space[p]] = f],
           f # "none" /\ HeapLeftAlone => \A i \in HeapPages : b[i] = "heap",
           UNCHANGED << alive, kernel, gone, space, heap_top, threads >>,
           exe_path' \in [Procs -> Files], exec_pc' \in [Procs -> {"user", "load"}],
           path' \in [Procs -> Files], argv0' \in [Procs -> Files], arg0' \in [Procs -> Files]
    PROVE  SpaceInv'
<1>1. SpaceTypeOK /\ HeapWhole BY Zenon DEF SpaceInv
<1>2. space[p] \in Procs /\ area \in [Procs -> [SpacePages -> AreaKinds]] BY Zenon, <1>1, AreaTyped
<1>3. area' \in [Procs -> [SpacePages -> AreaKinds]] BY Zenon, <1>2
<1>4. image' \in [Procs -> Files \cup {"none"}] BY Zenon, <1>1, ExecTyped
<1>5. SpaceTypeOK' BY Zenon, <1>1, <1>3, <1>4 DEF SpaceTypeOK, AreaKinds
<1>6. HeapWhole' BY <1>1, <1>2, <1>4, ExecTyped DEF HeapWhole
<1> QED BY Zenon, <1>5, <1>6, SameProcesses DEF SpaceInv

LEMMA ExecBeginKeeps ==
    ASSUME SpaceConstants, SpaceInv, NEW p \in Procs, NEW e \in ExecArgs, ExecBegin(p, e[1], e[2])
    PROVE  SpaceInv'
<1>1. SpaceTypeOK BY Zenon DEF SpaceInv
<1>2. e[1] \in Files /\ e[2] \in Files BY Zenon DEF SpaceConstants
<1>3. /\ area' = [area EXCEPT ![space[p]] = Empty] /\ image' = [image EXCEPT ![space[p]] = "none"]
      /\ UNCHANGED << alive, kernel, gone, space, heap_top, threads >>
  BY Zenon DEF ExecBegin, SetArea
<1>4. /\ exe_path' \in [Procs -> Files] /\ exec_pc' \in [Procs -> {"user", "load"}]
      /\ path' \in [Procs -> Files] /\ argv0' \in [Procs -> Files] /\ arg0' \in [Procs -> Files]
  BY Zenon, <1>1, <1>2, ExecTyped DEF ExecBegin
<1> QED BY ZenonT(30), <1>3, <1>4, EmptyTyped, ExecStep

LEMMA LoadInterpKeeps ==
    ASSUME SpaceInv, NEW p \in Procs, LoadInterp(p)
    PROVE  SpaceInv'
<1>1. SpaceTypeOK BY Zenon DEF SpaceInv
<1>2. arg0' \in [Procs -> Files] BY Zenon, <1>1, ExecTyped DEF LoadInterp
<1>3. UNCHANGED << alive, kernel, gone, space, area, image, exe_path, heap_top, threads, exec_pc, path, argv0 >>
  BY Zenon DEF LoadInterp
<1>4. SpaceTypeOK' BY Zenon, <1>1, <1>2, <1>3 DEF SpaceTypeOK
<1>5. HeapWhole' BY Zenon, <1>3 DEF SpaceInv, HeapWhole
<1> QED BY Zenon, <1>3, <1>4, <1>5, SameProcesses DEF SpaceInv

LEMMA LoadElfKeeps ==
    ASSUME SpaceInv, NEW p \in Procs, LoadElf(p)
    PROVE  SpaceInv'
<1>1. SpaceTypeOK BY Zenon DEF SpaceInv
<1>2. PICK b, f : b = Loaded(area[space[p]]) /\ f = argv0[p] BY Zenon
<1>3. b \in [SpacePages -> AreaKinds] /\ (HeapLeftAlone => \A i \in HeapPages : b[i] = "heap")
  <2>1. area[space[p]] \in [SpacePages -> AreaKinds] BY Zenon, <1>1, AreaTyped
  <2> QED BY Zenon, <2>1, <1>2, LoadedHeap
<1>4. f \in Files \cup {"none"} BY Zenon, <1>1, <1>2, ExecTyped
<1>5. /\ area' = [area EXCEPT ![space[p]] = b] /\ image' = [image EXCEPT ![space[p]] = f]
      /\ UNCHANGED << alive, kernel, gone, space, heap_top, threads >>
  BY Zenon, <1>2 DEF LoadElf, SetArea
<1>6. /\ exe_path' \in [Procs -> Files] /\ exec_pc' \in [Procs -> {"user", "load"}]
      /\ path' \in [Procs -> Files] /\ argv0' \in [Procs -> Files] /\ arg0' \in [Procs -> Files]
  BY Zenon, <1>1, ExecTyped DEF LoadElf, ExecReturn
<1> QED BY ZenonT(30), <1>3, <1>4, <1>5, <1>6, ExecStep

LEMMA LoadFailKeeps ==
    ASSUME SpaceInv, NEW p \in Procs, LoadFail(p)
    PROVE  SpaceInv'
<1>1. SpaceTypeOK BY Zenon DEF SpaceInv
<1>2. UNCHANGED << alive, kernel, gone, space, area, image, exe_path, heap_top, threads >>
  BY Zenon DEF LoadFail
<1>3. /\ exec_pc' \in [Procs -> {"user", "load"}]
      /\ path' \in [Procs -> Files] /\ argv0' \in [Procs -> Files] /\ arg0' \in [Procs -> Files]
  BY Zenon, <1>1, ExecTyped DEF LoadFail, ExecReturn
<1>4. SpaceTypeOK' BY Zenon, <1>1, <1>2, <1>3 DEF SpaceTypeOK
<1>5. HeapWhole' BY Zenon, <1>2 DEF SpaceInv, HeapWhole
<1> QED BY Zenon, <1>2, <1>4, <1>5, SameProcesses DEF SpaceInv

\* The new process has a copy with the heap of the old one, or shares its space.
LEMMA CloneKeepsSpace ==
    ASSUME SpaceConstants, SpaceInv, NEW p \in Procs, NEW q \in Procs, NEW k,
           CloneProcess(p, q, k)
    PROVE  SpaceInv'
<1>1. SpaceTypeOK /\ Unborn /\ HeapWhole /\ KernelKept BY Zenon DEF SpaceInv
<1>2. /\ p \in alive /\ q \notin alive \cup gone /\ alive' = alive \cup {q} /\ gone' = gone
      /\ exe_path' = [exe_path EXCEPT ![q] = exe_path[p]]
      /\ heap_top' = [heap_top EXCEPT ![q] = USER_HEAP_BASE]
      /\ UNCHANGED << threads, exec_pc, path, argv0, arg0 >>
  BY Zenon DEF CloneProcess, Calls, Free
<1>3. /\ alive' \subseteq Procs /\ gone' \subseteq Procs \ alive'
      /\ exe_path' \in [Procs -> Files]
  BY Zenon, <1>1, <1>2 DEF SpaceTypeOK
<1>4. heap_top' \in [Procs -> USER_HEAP_BASE .. USER_HEAP_BASE + USER_HEAP_SIZE]
  BY <1>1, <1>2, SpaceSizes DEF SpaceTypeOK
<1>5. space \in [Procs -> Procs] /\ kernel \subseteq Procs BY Zenon, <1>1 DEF SpaceTypeOK
<1>6. CASE k = "vm"
  <2>1. space' = [space EXCEPT ![q] = space[p]] /\ UNCHANGED << area, image, kernel >>
    BY Zenon, <1>6 DEF CloneProcess
  <2>2. space' \in [Procs -> Procs] BY Zenon, <2>1, <1>5
  <2>3. SpaceTypeOK' BY Zenon, <1>1, <1>2, <1>3, <1>4, <2>1, <2>2 DEF SpaceTypeOK
  <2>4. Unborn' BY Zenon, <1>1, <1>2, <1>5, <2>1 DEF Unborn
  <2>5. HeapWhole' BY Zenon, <1>1, <2>1 DEF HeapWhole
  <2>6. KernelKept' BY Zenon, <1>1, <1>2, <1>3, <1>5, <2>1 DEF KernelKept
  <2> QED BY Zenon, <2>3, <2>4, <2>5, <2>6 DEF SpaceInv
<1>7. CASE k # "vm"
  <2>1. /\ kernel' = kernel \cup {q} /\ area' = [area EXCEPT ![q] = area[space[p]]]
        /\ image' = [image EXCEPT ![q] = image[space[p]]] /\ space' = space
    BY Zenon, <1>7 DEF CloneProcess
  <2>2. /\ area \in [Procs -> [SpacePages -> AreaKinds]] /\ image \in [Procs -> Files \cup {"none"}]
        /\ space[p] \in Procs
    BY Zenon, <1>1, AreaTyped, ExecTyped
  <2>3. /\ area' \in [Procs -> [SpacePages -> AreaKinds]] /\ image' \in [Procs -> Files \cup {"none"}]
        /\ kernel' \subseteq Procs
    BY Zenon, <2>1, <2>2, <1>5
  <2>4. SpaceTypeOK' BY Zenon, <1>1, <1>2, <1>3, <1>4, <2>1, <2>3 DEF SpaceTypeOK, AreaKinds
  <2>5. Unborn' BY Zenon, <1>1, <1>2, <2>1 DEF Unborn
  <2>6. HeapWhole' BY Zenon, <1>1, <2>1, <2>2 DEF HeapWhole
  <2>7. space[q] = q BY Zenon, <1>1, <1>2 DEF Unborn
  <2>8. KernelKept' BY Zenon, <1>1, <1>2, <2>1, <2>7 DEF KernelKept
  <2> QED BY Zenon, <2>4, <2>5, <2>6, <2>8 DEF SpaceInv
<1> QED BY Zenon, <1>6, <1>7

LEMMA ThreadsKeepSpace ==
    ASSUME SpaceInv, NEW p \in Procs, CloneThread(p) \/ ThreadExit(p)
    PROVE  SpaceInv'
<1>1. UNCHANGED << alive, kernel, gone, space, area, image, heap_top, exe_path, exec_pc, path, argv0, arg0 >>
  BY Zenon DEF CloneThread, ThreadExit, exec
<1>2. threads' \in [Procs -> {1, 2}]
  BY Zenon DEF SpaceInv, SpaceTypeOK, CloneThread, ThreadExit
<1>3. SpaceTypeOK' BY Zenon, <1>1, <1>2 DEF SpaceInv, SpaceTypeOK
<1>4. HeapWhole' BY Zenon, <1>1 DEF SpaceInv, HeapWhole
<1> QED BY Zenon, <1>1, <1>3, <1>4, SameProcesses DEF SpaceInv

\* ProcessData::drop takes the kernel's mappings from every process that shares
\* the space, and leaves a dropped process that shared it.
LEMMA DropKeepsSpace ==
    ASSUME SpaceInv, NEW p \in Procs, drop(p)
    PROVE  SpaceInv'
<1>1. SpaceTypeOK /\ Unborn /\ HeapWhole /\ KernelKept BY Zenon DEF SpaceInv
<1>2. /\ p \in alive /\ alive' = alive \ {p} /\ gone' = gone \cup {p}
      /\ kernel' = kernel \ {space[p]}
      /\ UNCHANGED << space, area, image, heap_top, threads, exe_path, exec_pc, path, argv0, arg0 >>
  BY Zenon DEF drop, Free, exec
<1>3. SpaceTypeOK' BY Zenon, <1>1, <1>2 DEF SpaceTypeOK
<1>4. Unborn' BY Zenon, <1>1, <1>2 DEF Unborn
<1>5. HeapWhole' BY Zenon, <1>1, <1>2 DEF HeapWhole
<1>6. KernelKept' BY Zenon, <1>1, <1>2 DEF KernelKept
<1> QED BY Zenon, <1>3, <1>4, <1>5, <1>6 DEF SpaceInv

LEMMA SpaceKeeps ==
    ASSUME SpaceConstants, SpaceInv, [SpaceNext]_spacevars
    PROVE  SpaceInv'
<1>1. CASE UNCHANGED spacevars BY Zenon, <1>1, SpaceIdle
<1>2. CASE SpaceNext
  <2>1. PICK p \in Procs :
            \/ \E m \in MmapArgs, ret \in Results : sys_mmap(p, m, ret)
            \/ \E m \in MunmapArgs : sys_munmap(p, m[1], m[2])
            \/ \E b \in Breaks : sys_brk(p, b)
            \/ \E e \in ExecArgs : ExecBegin(p, e[1], e[2])
            \/ Load(p)
            \/ \E q \in Procs, k \in CloneKinds : CloneProcess(p, q, k)
            \/ CloneThread(p) \/ ThreadExit(p) \/ drop(p)
    BY Zenon, <1>2 DEF SpaceNext
  <2>2. CASE \E m \in MmapArgs, ret \in Results : sys_mmap(p, m, ret)
    BY Zenon, <2>2, MmapKeepsSpace
  <2>3. CASE \E m \in MunmapArgs : sys_munmap(p, m[1], m[2]) BY Zenon, <2>3, MunmapKeepsSpace
  <2>4. CASE \E b \in Breaks : sys_brk(p, b) BY Zenon, <2>4, BrkKeepsSpace
  <2>5. CASE \E e \in ExecArgs : ExecBegin(p, e[1], e[2]) BY Zenon, <2>5, ExecBeginKeeps
  <2>6. CASE Load(p) BY Zenon, <2>6, LoadInterpKeeps, LoadElfKeeps, LoadFailKeeps DEF Load
  <2>7. CASE \E q \in Procs, k \in CloneKinds : CloneProcess(p, q, k) BY Zenon, <2>7, CloneKeepsSpace
  <2>8. CASE CloneThread(p) \/ ThreadExit(p) BY Zenon, <2>8, ThreadsKeepSpace
  <2>9. CASE drop(p) BY Zenon, <2>9, DropKeepsSpace
  <2> QED BY Zenon, <2>1, <2>2, <2>3, <2>4, <2>5, <2>6, <2>7, <2>8, <2>9
<1> QED BY Zenon, <1>1, <1>2

\* A program that leaves its heap alone finds it mapped below heap_top, after any
\* sequence of brk, mmap, munmap, fork, vfork-like clones, execve and failed
\* execve, of any number of processes; and a living process has lost the kernel's
\* mappings only if one that shared its space has been dropped.
THEOREM HeapMapped ==
    ASSUME HeapLeftAlone
    PROVE  SpaceSpec => []SpaceUsable
<1> USE SpaceAssumption
<1>1. SpaceInit => SpaceInv BY Zenon, SpaceStart
<1>2. SpaceInv /\ [SpaceNext]_spacevars => SpaceInv' BY Zenon, SpaceKeeps
<1>3. SpaceInv => SpaceUsable
  BY Zenon DEF SpaceInv, SpaceUsable, SpaceTypeOK, HeapWhole, KernelKept
<1> QED BY <1>1, <1>2, <1>3, PTL DEF SpaceSpec

\* What MmapExact says of one call.
LEMMA MmapStepExact ==
    ASSUME SpaceConstants, SpaceTypeOK, NEW p \in Procs, NEW m \in MmapArgs,
           NEW ret \in Results, sys_mmap(p, m, ret), area' # area
    PROVE  /\ ret \in Starts =>
                  \A i \in PagesOf(ret, ret + m.length) : area'[space[p]][i] = "mmap"
           /\ ret \in Starts /\ m.fixed =>
                  \A i \in PagesOf(m.addr, m.addr + m.length) : area'[space[p]][i] = "mmap"
           /\ ~m.fixed => \A s \in Procs, i \in SpacePages :
                  area[s][i] # "none" => area'[s][i] = area[s][i]
<1>1. PICK b \in [SpacePages -> AreaKinds], st \in Nat, size \in Int :
              /\ Remapped(p, area[space[p]], st, size, ret, b)
              /\ size = MmapEnd(m) - MmapStart(m)
              /\ m.fixed => st = MmapStart(m)
              /\ ~m.fixed => \A i \in SpacePages :
                    area[space[p]][i] # "none" => b[i] = area[space[p]][i]
  BY ZenonT(30), MmapEffect
<1>2. area'[space[p]] = b /\ \A s \in Procs : s # space[p] => area'[s] = area[s]
  BY Zenon, <1>1, AreaTyped DEF Remapped
<1>3. /\ PAGE_SIZE_4K \in Nat /\ PAGE_SIZE_4K > 0 /\ SpacePageCount \in Nat
      /\ Starts \subseteq Nat /\ -1 \notin Starts
      /\ m.addr \in Nat /\ m.length \in Nat
  BY Zenon, SpaceSizes
<1>4. /\ m.addr + m.length \in Int /\ st + m.length <= st + size
      /\ m.fixed => st <= m.addr /\ m.addr + m.length <= st + size
  BY Zenon, <1>1, MmapLength
<1>5. ASSUME ret \in Starts
      PROVE  ret = st /\ \A i \in PagesOf(st, st + size) : b[i] = "mmap"
  BY Zenon, <1>1, <1>3, <1>5 DEF Remapped
<1>7. PagesOf(st, st + m.length) \subseteq PagesOf(st, st + size)
  <2>1. st <= st /\ st + m.length <= st + size /\ st + m.length \in Int /\ st + size \in Int
    BY <1>3, <1>4
  <2> QED BY Zenon, <2>1, <1>3, PagesGrow
<1>8. m.fixed => PagesOf(m.addr, m.addr + m.length) \subseteq PagesOf(st, st + size)
  <2> SUFFICES ASSUME m.fixed
               PROVE  PagesOf(m.addr, m.addr + m.length) \subseteq PagesOf(st, st + size)
    BY Zenon
  <2>1. /\ st <= m.addr /\ m.addr + m.length <= st + size
        /\ m.addr + m.length \in Int /\ st + size \in Int
    BY <1>4
  <2> QED BY <2>1, <1>3, PagesGrow
<1>9. ret \in Starts =>
          \A i \in PagesOf(ret, ret + m.length) : area'[space[p]][i] = "mmap"
  BY Zenon, <1>2, <1>5, <1>7
<1>10. ret \in Starts /\ m.fixed =>
           \A i \in PagesOf(m.addr, m.addr + m.length) : area'[space[p]][i] = "mmap"
  BY Zenon, <1>2, <1>5, <1>8
<1>11. ~m.fixed => \A s \in Procs, i \in SpacePages : area[s][i] # "none" => area'[s][i] = area[s][i]
  BY Zenon, <1>1, <1>2
<1> QED BY ZenonT(30), <1>9, <1>10, <1>11

\* When mmap succeeds the bytes asked for are mapped, whatever the alignment of
\* the address and of the length, and without MAP_FIXED no page is taken.
THEOREM MmapMapsAsAsked == SpaceSpec => MmapExact
<1> USE SpaceAssumption
<1>1. SpaceInit => SpaceInv BY Zenon, SpaceStart
<1>2. SpaceInv /\ [SpaceNext]_spacevars => SpaceInv' BY Zenon, SpaceKeeps
<1>3. SpaceInv /\ area' # area =>
          \A p \in Procs, m \in MmapArgs, ret \in Results : sys_mmap(p, m, ret) =>
              /\ ret \in Starts =>
                     \A i \in PagesOf(ret, ret + m.length) : area'[space[p]][i] = "mmap"
              /\ ret \in Starts /\ m.fixed =>
                     \A i \in PagesOf(m.addr, m.addr + m.length) : area'[space[p]][i] = "mmap"
              /\ ~m.fixed => \A s \in Procs, i \in SpacePages :
                     area[s][i] # "none" => area'[s][i] = area[s][i]
  BY Zenon, MmapStepExact DEF SpaceInv
<1> QED BY <1>1, <1>2, <1>3, PTL DEF SpaceSpec, MmapExact
=============================================================================
