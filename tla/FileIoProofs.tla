---------------------------- MODULE FileIoProofs ----------------------------
(***************************************************************************)
(* For any number of threads, descriptors, objects and any calls: do_exit  *)
(* leaves no descriptor behind, console input is handed out once and in    *)
(* order, and the result of a read or write says what it moved.            *)
(***************************************************************************)
EXTENDS FileIo, WellFoundedInduction, SequenceTheorems, TLAPS

USE FdAssumption

Entries == Objs \cup {NoObj}

\* The threads of a process use one table, and threads that do not exist yet
\* have neither run nor belong to a process.
SharedTable == \A t, u \in Tids : Alive(t) /\ Alive(u) /\ proc[t] = proc[u] => tab[t] = tab[u]
Unborn ==
    /\ \A t \in Tids : t >= nextTid => pc[t] = "none"
    /\ \A t \in Tids : Alive(t) => proc[t] < nextTid

TableInUse == \A n \in Tids : tables[n] # Empty => \E t \in Tids : Alive(t) /\ tab[t] = n

Inv == TypeOK /\ SharedTable /\ Unborn /\ TableInUse

LEMMA Constant == /\ MaxTid \in Nat \ {0} /\ AX_FILE_LIMIT \in Nat \ {0} /\ MaxObjs \in Nat
                  /\ Tids \subseteq Nat /\ Fds \subseteq Nat /\ 1 \in Tids /\ 0 \in Fds
  BY DEF FdAssumption, Tids, Fds

NatLess == {p \in Nat \X Nat : p[1] < p[2]}

LEMMA NatLessWF == IsWellFoundedOn(NatLess, Nat)
  BY NatLessThanWellFounded, Zenon DEF NatLess, OpToRel

\* A set of descriptors that is not empty has a least one.
LEMMA LeastFd == ASSUME NEW S \in SUBSET Fds, S # {} PROVE Min(S) \in S
<1>1. PICK x \in S : \A y \in S : ~(<< y, x >> \in NatLess)
  <2>1. S \subseteq Nat BY Zenon, Constant
  <2> QED BY <2>1, NatLessWF, WFMin, Zenon
<1>2. \A y \in S : x =< y
  <2> SUFFICES ASSUME NEW y \in S, y < x PROVE FALSE
    BY Constant
  <2>1. << y, x >> \in Nat \X Nat /\ << y, x >>[1] < << y, x >>[2] BY Zenon, Constant
  <2>2. << y, x >> \in NatLess BY <2>1, Zenon DEF NatLess
  <2> QED BY Zenon, <2>2, <1>1
<1> QED BY Zenon, <1>2 DEF Min

LEMMA Kinds == /\ Stdin \in Entries /\ Stdout \in Entries /\ NoObj \in Entries
               /\ \A k \in {"file", "dir", "r", "w"}, n \in 1 .. MaxObjs : << k, n >> \in Entries
  BY Zenon DEF Entries, Objs

LEMMA EmptyTyped == Empty \in [Fds -> Entries]
  BY Zenon, Kinds DEF Empty

LEMMA EntryTyped ==
    ASSUME NEW T \in [Tids -> [Fds -> Entries]], NEW n \in Tids, NEW fd \in Fds
    PROVE  T[n][fd] \in Entries
<1>1. T[n] \in [Fds -> Entries] BY Zenon
<1> QED BY Zenon, <1>1

\* Replacing an entry of a table keeps the tables typed, and touches no other.
LEMMA EntrySet ==
    ASSUME tables \in [Tids -> [Fds -> Entries]], NEW n \in Tids, NEW fd, NEW o \in Entries
    PROVE  /\ [tables EXCEPT ![n][fd] = o] \in [Tids -> [Fds -> Entries]]
           /\ \A m \in Tids : m # n => [tables EXCEPT ![n][fd] = o][m] = tables[m]
  BY Zenon

\* A step of a live thread that changes at most its own table, and neither
\* ends nor makes a thread.
LEMMA OwnTable ==
    ASSUME Inv, NEW t \in Tids, Alive(t),
           tables' \in [Tids -> [Fds -> Entries]],
           \A m \in Tids : m # tab[t] => tables'[m] = tables[m],
           NEW l \in {"user", "dup_add", "pipe2_write", "pipe2_undo", "exit_process", "exit_clear"},
           pc' = pc \/ pc' = [pc EXCEPT ![t] = l],
           UNCHANGED << tab, proc, nextTid >>
    PROVE  SharedTable' /\ Unborn' /\ TableInUse'
<1> USE Constant DEF Inv, TypeOK
<1>1. pc' \in [Tids -> {"none", "user", "dup_add", "pipe2_write", "pipe2_undo",
                        "exit_process", "exit_clear", "dead"}]
      /\ \A u \in Tids : Alive(u)' <=> Alive(u)
  BY DEF Alive
<1>2. SharedTable' BY Zenon, <1>1 DEF SharedTable
<1>3. Unborn'
  <2>1. pc[t] # "none" BY Zenon DEF Alive
  <2>2. ~(t >= nextTid) BY Zenon, <2>1 DEF Unborn
  <2>3. \A u \in Tids : u >= nextTid => pc'[u] = "none" BY <2>2 DEF Unborn
  <2> QED BY Zenon, <1>1, <2>3 DEF Unborn
<1>4. TableInUse'
  <2> SUFFICES ASSUME NEW m \in Tids, tables'[m] # Empty PROVE \E u \in Tids : Alive(u) /\ tab[u] = m
    BY Zenon, <1>1 DEF TableInUse
  <2>1. CASE m = tab[t] BY Zenon, <2>1
  <2>2. CASE m # tab[t] BY Zenon, <2>2 DEF TableInUse
  <2> QED BY Zenon, <2>1, <2>2
<1> QED BY Zenon, <1>2, <1>3, <1>4

\* do_exit, sys_openat, sys_dup, ... each keep the invariant.
LEMMA StepKeeps == ASSUME Inv, NEW t \in Tids, KernelStep(t) \/ UserCall(t) PROVE Inv'
<1> USE Constant DEF Inv, TypeOK, Running, Goto
<1>0. /\ tables \in [Tids -> [Fds -> Entries]] /\ held \in [Tids -> Entries] /\ tab[t] \in Tids
      /\ Free(tab[t]) \subseteq Fds
  BY Zenon DEF Entries, Free
<1>f. Free(tab[t]) # {} => Min(Free(tab[t])) \in Fds
  BY Zenon, <1>0, LeastFd
<1>1. ASSUME NEW k \in {"file", "dir"}, sys_openat(t, k) PROVE Inv'
  <2> USE <1>1 DEF sys_openat, add
  <2>1. << k, nextObj >> \in Entries BY Kinds
  <2>2. tables' \in [Tids -> [Fds -> Entries]] /\ \A m \in Tids : m # tab[t] => tables'[m] = tables[m]
    BY <2>1, <1>0, EntrySet
  <2>3. TypeOK' BY <2>2 DEF Entries
  <2>4. Alive(t) BY Zenon DEF Alive
  <2> QED BY Zenon, <2>2, <2>3, <2>4, OwnTable
<1>2. ASSUME NEW fd \in Fds, sys_close(t, fd) PROVE Inv'
  <2> USE <1>2 DEF sys_close, remove
  <2>2. tables' \in [Tids -> [Fds -> Entries]] /\ \A m \in Tids : m # tab[t] => tables'[m] = tables[m]
    BY Kinds, <1>0, EntrySet
  <2>3. TypeOK' BY Zenon, <2>2 DEF Entries
  <2>4. Alive(t) BY Zenon DEF Alive
  <2> QED BY Zenon, <2>2, <2>3, <2>4, OwnTable
<1>3. ASSUME NEW fd \in Fds, DupGet(t, fd) PROVE Inv'
  <2> USE <1>3 DEF DupGet
  <2>2. held' \in [Tids -> Entries]
    <3>1. tables[tab[t]][fd] \in Entries BY Zenon, <1>0, <1>3, EntryTyped
    <3> QED BY Zenon, <3>1, <1>0
  <2>3. TypeOK' BY Zenon, <2>2 DEF Entries
  <2>4. Alive(t) BY Zenon DEF Alive
  <2> QED BY Zenon, <1>0, <2>3, <2>4, OwnTable
<1>4. ASSUME NEW old \in Fds, NEW new \in Dup2Targets, sys_dup2(t, old, new) PROVE Inv'
  <2> USE <1>4 DEF sys_dup2
  <2>2. tables' \in [Tids -> [Fds -> Entries]] /\ \A m \in Tids : m # tab[t] => tables'[m] = tables[m]
    <3>1. tables[tab[t]][old] \in Entries BY Zenon, <1>0, <1>4, EntryTyped
    <3>2. CASE new \in Fds BY <3>1, <3>2, <1>0, EntrySet
    <3>3. CASE new \notin Fds BY Zenon, <3>3, <1>0
    <3> QED BY Zenon, <3>2, <3>3
  <2>3. TypeOK' BY Zenon, <2>2 DEF Entries
  <2>4. Alive(t) BY Zenon DEF Alive
  <2> QED BY Zenon, <2>2, <2>3, <2>4, OwnTable
<1>5. CASE DupAdd(t)
  <2> USE <1>5 DEF DupAdd, add
  <2>2. tables' \in [Tids -> [Fds -> Entries]] /\ \A m \in Tids : m # tab[t] => tables'[m] = tables[m]
    <3>1. held[t] \in Entries BY Zenon, <1>0
    <3>2. CASE Free(tab[t]) # {} BY <3>1, <3>2, <1>0, EntrySet
    <3>3. CASE Free(tab[t]) = {} BY Zenon, <3>3, <1>0
    <3> QED BY Zenon, <3>2, <3>3
  <2>3. TypeOK' BY Zenon, <2>2 DEF Entries
  <2>4. Alive(t) BY Zenon DEF Alive
  <2> QED BY Zenon, <2>2, <2>3, <2>4, OwnTable
<1>6. CASE Pipe2Read(t)
  <2> USE <1>6 DEF Pipe2Read, add
  <2>1. << "r", nextObj >> \in Entries /\ << "w", nextObj >> \in Entries BY Kinds
  <2>2. tables' \in [Tids -> [Fds -> Entries]] /\ \A m \in Tids : m # tab[t] => tables'[m] = tables[m]
    BY SMTT(30), <2>1, <1>0, EntrySet
  <2>3. TypeOK'
    <3>1. rfd' \in [Tids -> Fds] BY Zenon, <1>f
    <3>2. held' \in [Tids -> Entries] BY Zenon, <2>1, <1>0
    <3> QED BY <2>2, <3>1, <3>2 DEF Entries
  <2>4. Alive(t) BY Zenon DEF Alive
  <2> QED BY Zenon, <2>2, <2>3, <2>4, OwnTable
<1>7. CASE Pipe2Write(t)
  <2> USE <1>7 DEF Pipe2Write, add
  <2>2. tables' \in [Tids -> [Fds -> Entries]] /\ \A m \in Tids : m # tab[t] => tables'[m] = tables[m]
    <3>1. held[t] \in Entries BY Zenon, <1>0
    <3>2. CASE Free(tab[t]) # {} BY <3>1, <3>2, <1>0, EntrySet
    <3>3. CASE Free(tab[t]) = {} BY Zenon, <3>3, <1>0
    <3> QED BY Zenon, <3>2, <3>3
  <2>3. TypeOK'
    <3>1. held' \in [Tids -> Entries] BY Zenon, Kinds, <1>0
    <3>2. rfd' \in [Tids -> Fds] OBVIOUS
    <3> QED BY <2>2, <3>1, <3>2 DEF Entries
  <2>4. Alive(t) BY Zenon DEF Alive
  <2> QED BY Zenon, <2>2, <2>3, <2>4, OwnTable
<1>8. CASE Pipe2Undo(t)
  <2> USE <1>8 DEF Pipe2Undo, remove
  <2>2. tables' \in [Tids -> [Fds -> Entries]] /\ \A m \in Tids : m # tab[t] => tables'[m] = tables[m]
    <3>2. CASE tables[tab[t]][rfd[t]] # NoObj BY Kinds, <3>2, <1>0, EntrySet
    <3>3. CASE tables[tab[t]][rfd[t]] = NoObj BY Zenon, <3>3, <1>0
    <3> QED BY Zenon, <3>2, <3>3
  <2>3. TypeOK' BY Zenon, <2>2 DEF Entries
  <2>4. Alive(t) BY Zenon DEF Alive
  <2> QED BY Zenon, <2>2, <2>3, <2>4, OwnTable
<1>9. CASE ExitProcess(t)
  <2> USE <1>9 DEF ExitProcess
  <2>3. TypeOK' BY Zenon
  <2>4. Alive(t) BY Zenon DEF Alive
  <2> QED BY Zenon, <1>0, <2>3, <2>4, OwnTable
<1>10. CASE ExitThread(t)
  <2> USE <1>10 DEF ExitThread
  <2>1. Alive(t) BY Zenon DEF Alive
  <2>2. TypeOK' BY Zenon
  <2>3. CASE LastOfProcess(t)
    BY Zenon, <2>3, <1>0, <2>1, <2>2, OwnTable
  <2>4. CASE ~LastOfProcess(t)
    <3>1. \A u \in Tids : Alive(u)' <=> Alive(u) /\ u # t
      BY Zenon, <2>4 DEF Alive
    <3>2. PICK w \in Tids \ {t} : Alive(w) /\ proc[w] = proc[t]
      BY Zenon, <2>4 DEF LastOfProcess
    <3>3. tab[w] = tab[t] BY Zenon, <3>2, <2>1 DEF SharedTable
    <3>4. SharedTable' BY Zenon, <3>1 DEF SharedTable
    <3>5. Unborn'
      <4>1. t < nextTid BY <2>1 DEF Alive, Unborn
      <4> QED BY <4>1, <3>1 DEF Unborn
    <3>6. TableInUse'
      <4> SUFFICES ASSUME NEW m \in Tids, tables[m] # Empty
                   PROVE \E u \in Tids : Alive(u)' /\ tab[u] = m
        BY Zenon DEF TableInUse
      <4>1. PICK u \in Tids : Alive(u) /\ tab[u] = m BY Zenon DEF TableInUse
      <4>2. CASE u = t BY Zenon, <4>1, <4>2, <3>1, <3>2, <3>3
      <4>3. CASE u # t BY Zenon, <4>1, <4>3, <3>1
      <4> QED BY Zenon, <4>2, <4>3
    <3> QED BY Zenon, <2>2, <3>4, <3>5, <3>6
  <2> QED BY Zenon, <2>3, <2>4
<1>11. CASE ExitClear(t)
  <2> USE <1>11 DEF ExitClear
  <2>1. Alive(t) BY Zenon DEF Alive
  <2>2. tables' \in [Tids -> [Fds -> Entries]] BY Zenon, EmptyTyped, <1>0
  <2>3. TypeOK' BY Zenon, <2>2 DEF Entries
  <2>4. \A u \in Tids : Alive(u)' <=> Alive(u) /\ u # t
    BY Zenon DEF Alive
  <2>5. SharedTable' BY Zenon, <2>4 DEF SharedTable
  <2>6. Unborn'
    <3>1. t < nextTid BY <2>1 DEF Alive, Unborn
    <3> QED BY Zenon, <3>1, <2>4 DEF Unborn
  <2>7. TableInUse'
    <3> SUFFICES ASSUME NEW m \in Tids, tables'[m] # Empty
                 PROVE \E u \in Tids : Alive(u)' /\ tab[u] = m
      BY Zenon DEF TableInUse
    <3>1. m # tab[t] /\ tables[m] # Empty BY Zenon, <1>0
    <3>2. PICK u \in Tids : Alive(u) /\ tab[u] = m BY Zenon, <3>1 DEF TableInUse
    <3> QED BY Zenon, <3>1, <3>2, <2>4
  <2> QED BY Zenon, <2>3, <2>5, <2>6, <2>7
<1>12. ASSUME NEW k \in {"thread", "files", "copy"}, sys_clone(t, k) PROVE Inv'
  <2> USE <1>12 DEF sys_clone, copy_inner
  <2>1. Alive(t) BY Zenon DEF Alive
  <2>2. tables' \in [Tids -> [Fds -> Entries]]
    <3>1. tables[tab[t]] \in [Fds -> Entries] BY Zenon, <1>0
    <3>2. CASE k = "copy" BY <3>1, <3>2, <1>0
    <3>3. CASE k # "copy" BY Zenon, <3>3, <1>0
    <3> QED BY Zenon, <3>2, <3>3
  <2>3. TypeOK'
    <3>1. nextTid' \in 1 .. MaxTid + 1 BY DEF Tids
    <3>2. tab' \in [Tids -> Tids] /\ proc' \in [Tids -> Tids] BY <1>0
    <3> QED BY Zenon, <2>2, <3>1, <3>2 DEF Entries
  <2>4. nextTid # t /\ \A u \in Tids : Alive(u)' <=> Alive(u) \/ u = nextTid
    <3>1. \A u \in Tids : u >= nextTid => ~Alive(u) BY Zenon DEF Unborn, Alive
    <3> QED BY <3>1, <2>1 DEF Alive
  <2>5. \A u \in Tids : u # nextTid => tab'[u] = tab[u] /\ proc'[u] = proc[u]
    OBVIOUS
  <2>6. \A u \in Tids : Alive(u) => u # nextTid /\ proc[u] < nextTid BY <2>4 DEF Unborn, Alive
  <2>7. SharedTable'
    <3> SUFFICES ASSUME NEW u \in Tids, NEW w \in Tids, Alive(u)', Alive(w)', proc'[u] = proc'[w]
                 PROVE tab'[u] = tab'[w]
      BY Zenon DEF SharedTable
    <3>1. proc'[nextTid] = IF k = "thread" THEN proc[t] ELSE nextTid BY Zenon
    <3>2. k = "thread" => tab'[nextTid] = tab[t] BY Zenon
    <3>3. ASSUME NEW v \in Tids, Alive(v), proc[v] = proc'[nextTid] PROVE tab[v] = tab'[nextTid]
      BY SMTT(30), <3>1, <3>2, <3>3, <2>1, <2>6 DEF SharedTable
    <3>4. CASE u = nextTid /\ w # nextTid BY Zenon, <3>4, <3>3, <2>4, <2>5
    <3>5. CASE w = nextTid /\ u # nextTid BY Zenon, <3>5, <3>3, <2>4, <2>5
    <3>6. CASE u # nextTid /\ w # nextTid BY <3>6, <2>4, <2>5 DEF SharedTable
    <3> QED BY Zenon, <3>4, <3>5, <3>6
  <2>8. Unborn'
    <3>1. \A u \in Tids : u >= nextTid' => pc'[u] = "none" BY DEF Unborn
    <3>2. proc'[nextTid] < nextTid'
      <4>1. proc[t] < nextTid /\ proc[t] \in Nat BY Zenon, <2>6, <2>1
      <4> QED BY <4>1
    <3>3. \A u \in Tids : Alive(u)' => proc'[u] < nextTid'
      <4> SUFFICES ASSUME NEW u \in Tids, Alive(u)', u # nextTid PROVE proc'[u] < nextTid'
        BY Zenon, <3>2
      <4>1. proc'[u] = proc[u] /\ proc[u] < nextTid /\ proc[u] \in Nat BY ZenonT(30), <2>4, <2>5, <2>6
      <4> QED BY <4>1
    <3> QED BY Zenon, <3>1, <3>3 DEF Unborn
  <2>9. TableInUse'
    <3> SUFFICES ASSUME NEW m \in Tids, tables'[m] # Empty
                 PROVE \E u \in Tids : Alive(u)' /\ tab'[u] = m
      BY Zenon DEF TableInUse
    <3>1. CASE k = "copy" /\ m = nextTid
      <4>1. tab'[nextTid] = m BY Zenon, <3>1
      <4> QED BY Zenon, <4>1, <2>4
    <3>2. CASE ~(k = "copy" /\ m = nextTid)
      <4>1. tables[m] # Empty BY Zenon, <3>2
      <4>2. PICK u \in Tids : Alive(u) /\ tab[u] = m BY Zenon, <4>1 DEF TableInUse
      <4> QED BY Zenon, <4>2, <2>4, <2>5, <2>6
    <3> QED BY Zenon, <3>1, <3>2
  <2> QED BY Zenon, <2>3, <2>7, <2>8, <2>9
<1> QED
  BY Zenon, <1>1, <1>2, <1>3, <1>4, <1>5, <1>6, <1>7, <1>8, <1>9, <1>10, <1>11, <1>12
  DEF KernelStep, UserCall, sys_dup, sys_fcntl

LEMMA InitInv == ASSUME Init PROVE Inv
<1> USE Constant DEF Init
<1>1. init_stdio \in [Fds -> Entries] BY Zenon, Kinds DEF init_stdio
<1>2. tables \in [Tids -> [Fds -> Entries]] BY Zenon, <1>1, EmptyTyped
<1>3. TypeOK
  <2>1. nextTid \in 1 .. MaxTid + 1 /\ nextObj \in 1 .. MaxObjs + 1 OBVIOUS
  <2>2. held \in [Tids -> Entries] BY Zenon, Kinds
  <2> QED BY Zenon, <1>2, <2>1, <2>2 DEF TypeOK, Entries
<1>4. \A t \in Tids : Alive(t) <=> t = 1 BY Zenon DEF Alive
<1> QED BY <1>3, <1>4 DEF Inv, SharedTable, Unborn, TableInUse

\* For every number of threads, descriptors and objects, and whatever calls they
\* make: an open descriptor is in the table of a live thread; do_exit of the last
\* thread that uses a table has closed all of it.
THEOREM ExitCloses == Spec => []NoOrphanDescriptor
<1>1. Init => Inv BY Zenon, InitInv
<1>2. Inv /\ [Next]_vars => Inv'
  <2> SUFFICES ASSUME Inv, [Next]_vars PROVE Inv' BY Zenon
  <2>1. CASE Next BY Zenon, <2>1, StepKeeps DEF Next
  <2>2. CASE UNCHANGED vars
    BY <2>2 DEF vars, Inv, TypeOK, SharedTable, Unborn, TableInUse, Alive
  <2> QED BY Zenon, <2>1, <2>2
<1>3. Inv => NoOrphanDescriptor BY Zenon DEF Inv, TableInUse, NoOrphanDescriptor
<1> QED BY <1>1, <1>2, <1>3, PTL DEF Spec
-----------------------------------------------------------------------------
(* Reading and writing. *)

IoRec == [op : {"read", "write", "store", "done"}, fd : Fds, vec : BOOLEAN, iovs : Seq(Nat \cup {Bad}),
          ret : Int, obj : Entries, moved : Nat, first : Entries]

\* Objects that can move bytes in this direction.
Able(op, o) == \/ op = "read" /\ o[1] \in {"file", "stdin", "r"}
               \/ op \in {"write", "store"} /\ o[1] \in {"file", "stdout", "w"}

\* A failure r of call c that may hide bytes it has moved.
Excused(c, r) ==
    \/ Head(c.iovs) = Bad \/ c.obj # c.first
    \/ r = EIO /\ c.obj[1] = "file"
    \/ r = EPIPE /\ c.obj[1] = "w"

\* What a call in progress knows.  Until it has moved a byte it is at its first
\* object, so an object that refuses it later is another one.
Honest(c) ==
    /\ c.ret >= 0 => c.ret = c.moved
    /\ c.ret = 0 /\ c.obj = Stdin => Head(c.iovs) = 0
    /\ c.ret < 0 /\ c.moved > 0 => Excused(c, c.ret)
CallOk(c) ==
    /\ c.op = "done" => Honest(c)
    /\ c.op \in {"read", "write", "store"} =>
         /\ c.ret = c.moved
         /\ c.obj # NoObj => c.iovs # << >> /\ Head(c.iovs) \in Nat /\ (c.vec => Head(c.iovs) # 0)
         /\ ~c.vec => Len(c.iovs) = 1
         /\ c.moved = 0 => c.first = c.obj
         /\ c.moved > 0 => Able(c.op, c.first)
CallsOk == \A t \in Tids : io[t] # NoIo => CallOk(io[t])

Chars == {Input[i] : i \in 1 .. Len(Input)} \cup {"LF"}
Bytes == Nat \X Chars
IoType ==
    /\ io \in [Tids -> IoRec \cup {NoIo}]
    /\ offset \in [1 .. MaxObjs -> Nat] /\ length \in Nat
    /\ typed \in 0 .. Len(Input) /\ taken \in 0 .. typed
    /\ buffer \in Seq(Bytes) /\ seen \in Seq(Bytes)
IoInv == Inv /\ IoType /\ CallsOk /\ InputExact

LEMMA IoConstant == /\ Bad \in Int /\ Bad \notin Nat /\ Iovecs \subseteq Seq(Nat \cup {Bad})
                    /\ Input \in Seq(STRING) /\ Len(Input) \in Nat /\ FileSize \in Nat
                    /\ MaxLen \in Nat /\ CAPACITY \in Nat /\ CAPACITY > 0
  BY IoAssumption

LEMMA Idle == NoIo \notin IoRec /\ NoIo.op = "none"
  BY Zenon DEF NoIo, IoRec

\* A step of t that leaves its call as d.
LEMMA OneCall ==
    ASSUME io \in [Tids -> IoRec \cup {NoIo}], CallsOk, NEW t \in Tids, NEW d,
           io' = [io EXCEPT ![t] = d], d = NoIo \/ (d \in IoRec /\ CallOk(d))
    PROVE  io' \in [Tids -> IoRec \cup {NoIo}] /\ CallsOk'
<1>1. io'[t] = d /\ \A u \in Tids : u # t => io'[u] = io[u] BY Zenon
<1>2. io' \in [Tids -> IoRec \cup {NoIo}] BY Zenon
<1> QED BY Zenon, <1>1, <1>2 DEF CallsOk

\* The records a step leaves are records of calls.
AsDone(c, r, m) == [[c EXCEPT !.moved = m] EXCEPT !.op = "done", !.ret = r]
AsFurther(c, s, r, m) ==
    [[c EXCEPT !.moved = m] EXCEPT !.iovs = s, !.ret = r, !.obj = NoObj,
                                   !.op = IF @ = "store" THEN "write" ELSE @]
AsSkipped(c, s) == [c EXCEPT !.iovs = s]
AsFound(c, o, f) == [c EXCEPT !.obj = o, !.first = f]

LEMMA Done == ASSUME NEW c \in IoRec, NEW r \in Int, NEW m \in Nat
    PROVE  LET d == AsDone(c, r, m) IN
           /\ d \in IoRec /\ d.op = "done" /\ d.ret = r /\ d.moved = m
           /\ d.obj = c.obj /\ d.iovs = c.iovs /\ d.first = c.first
  BY Zenon DEF IoRec, AsDone

LEMMA Further ==
    ASSUME NEW c \in IoRec, NEW r \in Int, NEW m \in Nat, NEW s \in Seq(Nat \cup {Bad})
    PROVE  LET d == AsFurther(c, s, r, m) IN
           /\ d \in IoRec /\ d.op = (IF c.op = "store" THEN "write" ELSE c.op)
           /\ d.ret = r /\ d.moved = m /\ d.vec = c.vec
           /\ d.obj = NoObj /\ d.iovs = s /\ d.first = c.first
  BY Zenon, Kinds DEF IoRec, AsFurther

LEMMA Skipped == ASSUME NEW c \in IoRec, NEW s \in Seq(Nat \cup {Bad})
    PROVE  LET d == AsSkipped(c, s) IN
           /\ d \in IoRec /\ d.op = c.op /\ d.ret = c.ret /\ d.moved = c.moved /\ d.vec = c.vec
           /\ d.obj = c.obj /\ d.iovs = s /\ d.first = c.first
  BY Zenon DEF IoRec, AsSkipped

LEMMA Found == ASSUME NEW c \in IoRec, NEW o \in Entries, NEW f \in Entries
    PROVE  LET d == AsFound(c, o, f) IN
           /\ d \in IoRec /\ d.op = c.op /\ d.ret = c.ret /\ d.moved = c.moved /\ d.vec = c.vec
           /\ d.obj = o /\ d.iovs = c.iovs /\ d.first = f
  BY Zenon DEF IoRec, AsFound

\* Return(t, r), for a result that is the truth.
LEMMA Returned ==
    ASSUME io \in [Tids -> IoRec \cup {NoIo}], CallsOk, NEW t \in Tids, NEW c \in IoRec, c = io[t],
           NEW r \in Int, Return(t, r),
           /\ r >= 0 => r = c.moved
           /\ r = 0 /\ c.obj = Stdin => Head(c.iovs) = 0
           /\ r < 0 /\ c.moved > 0 => Excused(c, r)
    PROVE  io' \in [Tids -> IoRec \cup {NoIo}] /\ CallsOk'
<1>1. PICK d : d = [c EXCEPT !.op = "done", !.ret = r] BY Zenon
<1>2. io' = [io EXCEPT ![t] = d] BY Zenon, <1>1 DEF Return
<1>3. /\ d \in IoRec /\ d.op = "done" /\ d.ret = r /\ d.moved = c.moved
      /\ d.obj = c.obj /\ d.iovs = c.iovs /\ d.first = c.first
  BY Zenon, <1>1 DEF IoRec
<1>4. CallOk(d) BY Zenon, <1>3 DEF CallOk, Honest, Excused
<1> QED BY Zenon, <1>2, <1>3, <1>4, OneCall

LEMMA DoneOk ==
    ASSUME NEW c \in IoRec, NEW r \in Nat, r = c.moved, NEW k \in Nat, Head(c.iovs) \in Nat,
           c.obj = Stdin /\ k = 0 => Head(c.iovs) = 0
    PROVE  AsDone(c, r + k, r + k) \in IoRec /\ CallOk(AsDone(c, r + k, r + k))
<1>1. PICK n \in Nat : n = r + k OBVIOUS
<1>2. n \in Int BY <1>1
<1>3. PICK d : d = AsDone(c, n, n) BY Zenon
<1>4. /\ d \in IoRec /\ d.op = "done" /\ d.ret = n /\ d.moved = n
      /\ d.obj = c.obj /\ d.iovs = c.iovs
  BY <1>1, <1>2, <1>3, Done
<1>5. ~(d.ret < 0) /\ d.ret = d.moved /\ (d.ret = 0 => k = 0) BY <1>1, <1>4
<1>6. Honest(d) BY <1>4, <1>5, Zenon DEF Honest
<1>7. CallOk(d) BY <1>4, <1>6, Zenon DEF CallOk
<1> QED BY Zenon, <1>1, <1>3, <1>4, <1>7

LEMMA FurtherOk ==
    ASSUME NEW c \in IoRec, NEW r \in Nat, r = c.moved, NEW k \in Nat, k > 0, c.vec = TRUE,
           Able(c.op, c.first), c.op # "done", NEW s \in Seq(Nat \cup {Bad})
    PROVE  AsFurther(c, s, r + k, r + k) \in IoRec /\ CallOk(AsFurther(c, s, r + k, r + k))
<1>1. PICK n \in Nat : n = r + k OBVIOUS
<1>2. n \in Int /\ n > 0 BY <1>1
<1>3. PICK d : d = AsFurther(c, s, n, n) BY Zenon
<1>4. /\ d \in IoRec /\ d.op = (IF c.op = "store" THEN "write" ELSE c.op)
      /\ d.ret = n /\ d.moved = n
      /\ d.vec = TRUE /\ d.obj = NoObj /\ d.first = c.first
  BY <1>1, <1>2, <1>3, Further
<1>5. Able(d.op, d.first) /\ d.op # "done" BY Zenon, <1>4 DEF Able
<1>6. d.moved # 0 BY <1>2, <1>4
<1>7. CallOk(d) BY <1>4, <1>5, <1>6, Zenon DEF CallOk
<1> QED BY Zenon, <1>1, <1>3, <1>4, <1>7

\* Moved(t, k) of an object that can: the call ends with the truth, or goes on
\* having moved something.
LEMMA MovedOk ==
    ASSUME io \in [Tids -> IoRec \cup {NoIo}], CallsOk, NEW t \in Tids, NEW c \in IoRec, c = io[t],
           c.op \in {"read", "write", "store"}, c.obj # NoObj, Able(c.op, c.obj),
           NEW k \in Nat, k <= Head(c.iovs), Moved(t, k),
           c.obj = Stdin /\ k = 0 => Head(c.iovs) = 0
    PROVE  io' \in [Tids -> IoRec \cup {NoIo}] /\ CallsOk'
<1>1. CallOk(c) BY Zenon, Idle DEF CallsOk
<1>2. /\ c.ret = c.moved /\ c.iovs # << >> /\ Head(c.iovs) \in Nat
      /\ c.iovs \in Seq(Nat \cup {Bad}) /\ c.ret \in Nat /\ c.moved \in Nat
  BY Zenon, <1>1 DEF CallOk, IoRec
<1>3. CASE k < Head(c.iovs) \/ Len(c.iovs) = 1
  <2>1. PICK d : d = AsDone(c, c.ret + k, c.ret + k) BY Zenon
  <2>2. io' = [io EXCEPT ![t] = d] BY Zenon, <2>1, <1>2, <1>3 DEF Moved, IoRec, AsDone
  <2>3. d \in IoRec /\ CallOk(d) BY Zenon, <2>1, <1>2, DoneOk
  <2> QED BY Zenon, <2>2, <2>3, OneCall
<1>4. CASE ~(k < Head(c.iovs) \/ Len(c.iovs) = 1)
  <2>1. PICK s : s = Tail(c.iovs) BY Zenon
  <2>2. PICK d : d = AsFurther(c, s, c.ret + k, c.ret + k) BY Zenon
  <2>3. io' = [io EXCEPT ![t] = d] BY Zenon, <2>1, <2>2, <1>2, <1>4 DEF Moved, IoRec, AsFurther
  <2>4. s \in Seq(Nat \cup {Bad}) BY <2>1, <1>2
  <2>5. c.vec /\ k = Head(c.iovs) /\ k > 0 BY <1>1, <1>2, <1>4 DEF CallOk
  <2>6. Able(c.op, c.first) BY <1>1, <1>2 DEF CallOk
  <2>7. c.vec = TRUE BY <2>5, Zenon DEF IoRec
  <2>8. c.op # "done" BY Zenon
  <2>9. d \in IoRec /\ CallOk(d) BY Zenon, <2>2, <2>4, <2>5, <2>6, <2>7, <2>8, <1>2, FurtherOk
  <2> QED BY Zenon, <2>3, <2>9, OneCall
<1> QED BY Zenon, <1>3, <1>4

\* A turn of the loop over the buffers.
LEMMA LookupOk ==
    ASSUME IoType, CallsOk, TypeOK, NEW t \in Tids, IoLookup(t)
    PROVE  io' \in [Tids -> IoRec \cup {NoIo}] /\ CallsOk'
<1>0. io \in [Tids -> IoRec \cup {NoIo}] BY Zenon DEF IoType
<1>1. PICK c : c = io[t] BY Zenon
<1>2. c \in IoRec /\ c.op \in {"read", "write"} /\ c.obj = NoObj
  BY Zenon, <1>0, <1>1, Idle DEF IoLookup
<1>3. CallOk(c) BY Zenon, <1>1, <1>2, Idle DEF CallsOk
<1>m. c.ret = c.moved /\ c.ret \in Nat /\ c.iovs \in Seq(Nat \cup {Bad}) /\ c.fd \in Fds
  BY Zenon, <1>2, <1>3 DEF CallOk, IoRec
<1>s. NoObj # Stdin /\ ~Able("read", NoObj) /\ ~Able("write", NoObj) BY Zenon DEF NoObj, Stdin, Able
<1>4. CASE c.iovs = << >>
  <2>1. Return(t, c.ret) BY Zenon, <1>1, <1>4 DEF IoLookup
  <2> QED BY <2>1, <1>0, <1>1, <1>2, <1>m, <1>s, Returned
<1>5. CASE c.iovs # << >> /\ c.vec /\ Head(c.iovs) = 0
  <2>s. PICK s : s = Tail(c.iovs) BY Zenon
  <2>1. PICK d : d = AsSkipped(c, s) BY Zenon
  <2>2. io' = [io EXCEPT ![t] = d] BY Zenon, <2>1, <2>s, <1>1, <1>5 DEF IoLookup, AsSkipped
  <2>3. /\ d.op = c.op /\ d.ret = c.ret /\ d.moved = c.moved /\ d.obj = NoObj
        /\ d.vec = c.vec /\ d.first = c.first /\ d \in IoRec
    <3>1. s \in Seq(Nat \cup {Bad}) BY SMTT(30), <2>s, <1>m, <1>5
    <3> QED BY <3>1, <2>1, <1>2, Skipped
  <2>4. CallOk(d) BY Zenon, <2>3, <1>2, <1>3, <1>5 DEF CallOk
  <2> QED BY Zenon, <2>2, <2>3, <2>4, <1>0, OneCall
<1>6. CASE c.iovs # << >> /\ ~(c.vec /\ Head(c.iovs) = 0)
  <2>1. PICK n, o : n = Head(c.iovs) /\ o = tables[tab[t]][c.fd] BY Zenon
  <2>2. Lookup(t, n, o) BY Zenon, <2>1, <1>1, <1>6 DEF IoLookup
  <2>3. CASE n = Bad
    <3>1. Return(t, EFAULT) BY Zenon, <2>2, <2>3 DEF Lookup
    <3>2. EFAULT \in Int /\ EFAULT < 0 BY DEF EFAULT
    <3> QED BY <3>1, <3>2, <2>1, <2>3, <1>0, <1>1, <1>2, Returned DEF Excused
  <2>4. CASE n # Bad /\ o = NoObj
    <3>1. Return(t, EBADF) BY Zenon, <2>2, <2>4 DEF Lookup
    <3>2. c.moved > 0 => c.first # NoObj BY Zenon, <1>2, <1>3, <1>s DEF CallOk
    <3>3. EBADF \in Int /\ EBADF < 0 BY DEF EBADF
    <3> QED BY <3>1, <3>2, <3>3, <1>0, <1>1, <1>2, Returned DEF Excused
  <2>5. CASE n # Bad /\ o # NoObj
    <3>0. PICK f : f = IF c.first = NoObj THEN o ELSE c.first BY Zenon
    <3>1. PICK d : d = AsFound(c, o, f) BY Zenon
    <3>2. io' = [io EXCEPT ![t] = d] BY Zenon, <2>2, <2>5, <3>0, <3>1, <1>1 DEF Lookup, AsFound
    <3>3. o \in Entries
      <4>1. tables \in [Tids -> [Fds -> Entries]] /\ tab[t] \in Tids
        BY Zenon DEF TypeOK, Entries
      <4> QED BY Zenon, <4>1, <2>1, <1>m, EntryTyped
    <3>f. f \in Entries BY Zenon, <3>0, <3>3, <1>2 DEF IoRec
    <3>4. /\ d.op = c.op /\ d.ret = c.ret /\ d.moved = c.moved /\ d.obj = o /\ d.iovs = c.iovs
          /\ d.vec = c.vec /\ d.first = f /\ d \in IoRec
      BY SMTT(30), <3>1, <3>3, <3>f, <1>2, Found
    <3>6. n \in Nat BY SMTT(30), <2>1, <2>5, <1>m, <1>6
    <3>7. c.moved = 0 => d.first = d.obj BY Zenon, <3>4, <3>0, <1>2, <1>3 DEF CallOk
    <3>8. c.moved > 0 => d.first = c.first BY Zenon, <3>4, <3>0, <1>2, <1>3, <1>s DEF CallOk
    <3>9. CallOk(d) BY Zenon, <3>4, <3>6, <3>7, <3>8, <2>1, <1>2, <1>3, <1>6 DEF CallOk
    <3> QED BY Zenon, <3>2, <3>4, <3>9, <1>0, OneCall
  <2> QED BY Zenon, <2>3, <2>4, <2>5
<1> QED BY Zenon, <1>4, <1>5, <1>6

\* An object that cannot do it is not the one that has moved bytes.
LEMMA RefusalOk ==
    ASSUME IoType, CallsOk, NEW t \in Tids, DirRefuses(t) \/ WayRefuses(t)
    PROVE  io' \in [Tids -> IoRec \cup {NoIo}] /\ CallsOk'
<1>0. io \in [Tids -> IoRec \cup {NoIo}] BY Zenon DEF IoType
<1>1. PICK c : c = io[t] BY Zenon
<1>2. PICK r : r \in {EBADF, EPERM} /\ Return(t, r) BY Zenon DEF DirRefuses, WayRefuses
<1>3. /\ c.op \in {"read", "write"}
      /\ \/ c.obj[1] = "dir"
         \/ c.op = "write" /\ c.obj[1] \in {"stdin", "r"}
         \/ c.op = "read" /\ c.obj[1] \in {"stdout", "w"}
  BY Zenon, <1>1 DEF DirRefuses, WayRefuses, At
<1>4. c \in IoRec BY Zenon, <1>0, <1>1, <1>3, Idle
<1>5. CallOk(c) BY Zenon, <1>1, <1>4, Idle DEF CallsOk
<1>6. ~Able(c.op, c.obj) BY Zenon, <1>3 DEF Able
<1>7. c.moved > 0 => c.obj # c.first BY Zenon, <1>3, <1>5, <1>6 DEF CallOk
<1>8. r \in Int /\ r < 0 BY <1>2 DEF EBADF, EPERM
<1> QED BY <1>0, <1>1, <1>2, <1>4, <1>7, <1>8, Returned DEF Excused

\* A call at the read or write of an object.
LEMMA AtObject ==
    ASSUME IoType, CallsOk, NEW t \in Tids, NEW op \in {"read", "write", "store"},
           NEW kind \in {"file", "stdin", "stdout", "r", "w"}, At(t, op, kind)
    PROVE  /\ io \in [Tids -> IoRec \cup {NoIo}] /\ io[t] \in IoRec /\ io[t].op = op
           /\ io[t].obj # NoObj /\ io[t].obj \in Objs /\ io[t].obj[1] = kind
           /\ Head(io[t].iovs) \in Nat
<1>0. io \in [Tids -> IoRec \cup {NoIo}] BY Zenon DEF IoType
<1>1. io[t].op = op /\ io[t].obj[1] = kind BY Zenon DEF At
<1>2. io[t] \in IoRec BY Zenon, <1>0, <1>1, Idle
<1>3. io[t].obj # NoObj BY <1>1 DEF NoObj
<1>4. io[t].obj \in Objs BY Zenon, <1>2, <1>3 DEF IoRec, Entries
<1>5. Head(io[t].iovs) \in Nat BY Zenon, <1>1, <1>2, <1>3, Idle DEF CallsOk, CallOk
<1> QED BY Zenon, <1>0, <1>1, <1>2, <1>3, <1>4, <1>5

\* File::read, File::write and the console's write.
LEMMA TransferOk ==
    ASSUME IoType, CallsOk, NEW t \in Tids, FileRead(t) \/ FileWrite(t) \/ StdoutWrite(t)
    PROVE  IoType' /\ CallsOk'
<1>s. "stdin" # "file" /\ Stdin[1] = "stdin" BY Zenon DEF Stdin
<1>t. offset \in [1 .. MaxObjs -> Nat] /\ length \in Nat BY Zenon DEF IoType
<1>f. \A o \in Objs : o[1] = "file" => o[2] \in 1 .. MaxObjs BY SMTT(30) DEF Objs, Stdin, Stdout
<1>1. CASE FileRead(t)
  <2>1. At(t, "read", "file") BY ZenonT(30), <1>1 DEF FileRead
  <2>2. /\ io \in [Tids -> IoRec \cup {NoIo}] /\ io[t] \in IoRec /\ io[t].op = "read"
        /\ io[t].obj # NoObj /\ io[t].obj \in Objs /\ io[t].obj[1] = "file" /\ Head(io[t].iovs) \in Nat
    BY Zenon, <2>1, AtObject
  <2>3. PICK n : n = io[t].obj[2] BY Zenon
  <2>4. n \in 1 .. MaxObjs BY Zenon, <2>2, <2>3, <1>f
  <2>5. PICK k : k = IF offset[n] < length THEN Least(Head(io[t].iovs), length - offset[n]) ELSE 0
    BY Zenon
  <2>6. offset' = [offset EXCEPT ![n] = @ + k] /\ Moved(t, k) BY ZenonT(30), <2>3, <2>5, <1>1 DEF FileRead
  <2>7. k \in Nat /\ k <= Head(io[t].iovs)
    <3>1. offset[n] \in Nat BY Zenon, <2>4, <1>t
    <3> QED BY <3>1, <2>2, <2>5, <1>t DEF Least
  <2>8. Able(io[t].op, io[t].obj) BY ZenonT(30), <2>2 DEF Able
  <2>9. io' \in [Tids -> IoRec \cup {NoIo}] /\ CallsOk'
    BY ZenonT(30), <2>2, <2>6, <2>7, <2>8, <1>s, MovedOk
  <2>10. offset' \in [1 .. MaxObjs -> Nat] BY SMTT(30), <2>4, <2>6, <2>7, <1>t
  <2> QED BY ZenonT(30), <2>9, <2>10, <1>1 DEF FileRead, IoType
<1>2. CASE FileWrite(t)
  <2>1. At(t, "write", "file") BY ZenonT(30), <1>2 DEF FileWrite
  <2>2. /\ io \in [Tids -> IoRec \cup {NoIo}] /\ io[t] \in IoRec /\ io[t].op = "write"
        /\ io[t].obj # NoObj /\ io[t].obj \in Objs /\ io[t].obj[1] = "file" /\ Head(io[t].iovs) \in Nat
    BY ZenonT(30), <2>1, AtObject
  <2>3. PICK n : n = io[t].obj[2] BY Zenon
  <2>4. n \in 1 .. MaxObjs BY Zenon, <2>2, <2>3, <1>f
  <2>5. PICK k \in 0 .. Head(io[t].iovs) :
           /\ offset' = [offset EXCEPT ![n] = offset[n] + k] /\ Moved(t, k)
           /\ length' = IF offset[n] + k > length THEN offset[n] + k ELSE length
    BY ZenonT(30), <2>3, <1>2 DEF FileWrite
  <2>6. k \in Nat /\ k <= Head(io[t].iovs) BY <2>2
  <2>7. offset[n] + k \in Nat
    <3>1. offset[n] \in Nat BY Zenon, <2>4, <1>t
    <3> QED BY SMTT(30), <3>1, <2>6
  <2>8. Able(io[t].op, io[t].obj) BY Zenon, <2>2 DEF Able
  <2>9. io' \in [Tids -> IoRec \cup {NoIo}] /\ CallsOk'
    BY ZenonT(30), <2>2, <2>5, <2>6, <2>8, <1>s, MovedOk
  <2>10. offset' \in [1 .. MaxObjs -> Nat] /\ length' \in Nat BY Zenon, <2>4, <2>5, <2>7, <1>t
  <2> QED BY ZenonT(30), <2>9, <2>10, <1>2 DEF FileWrite, IoType
<1>3. CASE StdoutWrite(t)
  <2>1. At(t, "write", "stdout") BY Zenon, <1>3 DEF StdoutWrite
  <2>2. /\ io \in [Tids -> IoRec \cup {NoIo}] /\ io[t] \in IoRec /\ io[t].op = "write"
        /\ io[t].obj # NoObj /\ io[t].obj[1] = "stdout" /\ Head(io[t].iovs) \in Nat
    BY Zenon, <2>1, AtObject
  <2>3. Moved(t, Head(io[t].iovs)) BY Zenon, <1>3 DEF StdoutWrite
  <2>4. Able(io[t].op, io[t].obj) BY Zenon, <2>2 DEF Able
  <2>5. io' \in [Tids -> IoRec \cup {NoIo}] /\ CallsOk'
    BY <2>2, <2>3, <2>4, <1>s, MovedOk
  <2> QED BY Zenon, <2>5, <1>3 DEF StdoutWrite, IoType
<1> QED BY Zenon, <1>1, <1>2, <1>3

\* An error of the file system, or of a pipe without readers.
LEMMA FailureOk ==
    ASSUME IoType, CallsOk, NEW t \in Tids, FileFails(t) \/ PipeEnter(t)
    PROVE  io' \in [Tids -> IoRec \cup {NoIo}] /\ CallsOk'
<1>1. PICK c : c = io[t] BY Zenon
<1>2. CASE FileFails(t)
  <2>1. PICK op \in {"read", "write"} : At(t, op, "file") BY Zenon, <1>2 DEF FileFails
  <2>2. io \in [Tids -> IoRec \cup {NoIo}] /\ c \in IoRec /\ c.obj[1] = "file"
    BY ZenonT(40), <2>1, <1>1, AtObject
  <2>3. Return(t, EIO) BY Zenon, <1>2 DEF FileFails
  <2>4. EIO \in Int /\ EIO < 0 BY DEF EIO
  <2>5. Excused(c, EIO) BY Zenon, <2>2 DEF Excused
  <2> QED BY <2>2, <2>3, <2>4, <2>5, <1>1, Returned
<1>3. CASE PipeEnter(t)
  <2>1. At(t, "write", "w") BY Zenon, <1>3 DEF PipeEnter
  <2>2. /\ io \in [Tids -> IoRec \cup {NoIo}] /\ c \in IoRec /\ c.obj[1] = "w" /\ c.op = "write"
        /\ c.obj # NoObj
    BY Zenon, <2>1, <1>1, AtObject
  <2>3. CASE Return(t, EPIPE)
    <3>1. EPIPE \in Int /\ EPIPE < 0 BY DEF EPIPE
    <3>2. Excused(c, EPIPE) BY Zenon, <2>2 DEF Excused
    <3> QED BY <2>2, <2>3, <3>1, <3>2, <1>1, Returned
  <2>4. CASE io' = [io EXCEPT ![t].op = "store"]
    <3>1. PICK d : d = [c EXCEPT !.op = "store"] BY Zenon
    <3>2. io' = [io EXCEPT ![t] = d] BY Zenon, <2>4, <3>1, <1>1
    <3>3. /\ d \in IoRec /\ d.op = "store" /\ d.ret = c.ret /\ d.moved = c.moved /\ d.vec = c.vec
          /\ d.obj = c.obj /\ d.iovs = c.iovs /\ d.first = c.first
      BY Zenon, <3>1, <2>2 DEF IoRec
    <3>4. CallOk(c) BY Zenon, <1>1, <2>2, Idle DEF CallsOk
    <3>5. CallOk(d) BY Zenon, <3>3, <3>4, <2>2 DEF CallOk, Able
    <3> QED BY Zenon, <3>2, <3>3, <3>5, <2>2, OneCall
  <2> QED BY Zenon, <1>3, <2>3, <2>4 DEF PipeEnter
<1> QED BY Zenon, <1>2, <1>3

\* Pipe::read and the end of Pipe::write.
LEMMA PipeOk ==
    ASSUME IoType, CallsOk, NEW t \in Tids, PipeStep(t)
    PROVE  io' \in [Tids -> IoRec \cup {NoIo}] /\ CallsOk'
<1>1. PICK op \in {"read", "store"}, kind \in {"r", "w"} :
        /\ At(t, op, kind) /\ (op = "read" <=> kind = "r")
        /\ \E k \in 0 .. Head(io[t].iovs) : Moved(t, k)
  BY Zenon DEF PipeStep, PipeRead, PipeWrite
<1>2. PICK c : c = io[t] BY Zenon
<1>3. /\ io \in [Tids -> IoRec \cup {NoIo}] /\ c \in IoRec /\ c.op = op
      /\ c.obj # NoObj /\ c.obj[1] = kind /\ Head(c.iovs) \in Nat
  BY ZenonT(40), <1>1, <1>2, AtObject
<1>4. PICK k \in 0 .. Head(c.iovs) : Moved(t, k) BY Zenon, <1>1, <1>2
<1>5. k \in Nat /\ k <= Head(c.iovs) BY <1>3
<1>6. Able(c.op, c.obj) /\ c.obj # Stdin /\ c.op \in {"read", "write", "store"}
  <2>1. Stdin[1] = "stdin" /\ "stdin" # "r" /\ "stdin" # "w" BY Zenon DEF Stdin
  <2> QED BY Zenon, <2>1, <1>1, <1>3 DEF Able
<1> QED BY ZenonT(30), <1>2, <1>3, <1>4, <1>5, <1>6, MovedOk

\* What the console has given after m bytes.
Given(m) == [i \in 1 .. m |-> console_read_bytes(i)]

LEMMA ByteTyped == ASSUME NEW i \in 1 .. Len(Input) PROVE console_read_bytes(i) \in Bytes
<1>1. Input[i] \in Chars /\ "LF" \in Chars /\ i \in Nat BY IoConstant DEF Chars
<1> QED BY Zenon, <1>1 DEF console_read_bytes, Bytes

LEMMA RawRead ==
    ASSUME IoType, NEW n \in Nat
    PROVE  /\ StdinRaw_read(n) \in Seq(Bytes) /\ Len(StdinRaw_read(n)) \in 0 .. typed - taken
           /\ Len(StdinRaw_read(n)) <= n
           /\ \A i \in 1 .. Len(StdinRaw_read(n)) : StdinRaw_read(n)[i] = console_read_bytes(taken + i)
<1>1. PICK m : m = Least(n, typed - taken) BY Zenon
<1>2. m \in 0 .. typed - taken /\ m <= n BY <1>1, IoConstant DEF IoType, Least
<1>3. \A i \in 1 .. m : taken + i \in 1 .. Len(Input) BY <1>2, IoConstant DEF IoType
<1>4. PICK s : s = [i \in 1 .. m |-> console_read_bytes(taken + i)] BY Zenon
<1>5. \A i \in 1 .. m : console_read_bytes(taken + i) \in Bytes BY Zenon, <1>3, ByteTyped
<1>6. m \in Nat BY <1>2, IoConstant DEF IoType
<1>7. s \in Seq(Bytes) /\ Len(s) = m /\ \A i \in 1 .. m : s[i] = console_read_bytes(taken + i)
  BY <1>4, <1>5, <1>6
<1>8. s = StdinRaw_read(n) BY Zenon, <1>1, <1>4 DEF StdinRaw_read
<1> QED BY Zenon, <1>2, <1>7, <1>8

LEMMA GivenTyped == ASSUME NEW m \in 0 .. Len(Input)
    PROVE Given(m) \in Seq(Bytes) /\ Len(Given(m)) = m
<1>1. \A i \in 1 .. m : console_read_bytes(i) \in Bytes BY ByteTyped, IoConstant
<1>2. m \in Nat BY IoConstant
<1> QED BY <1>1, <1>2 DEF Given

\* More from the console after what it has given.
LEMMA GivenMore ==
    ASSUME NEW m \in 0 .. Len(Input), NEW f \in Seq(Bytes), m + Len(f) <= Len(Input),
           \A i \in 1 .. Len(f) : f[i] = console_read_bytes(m + i)
    PROVE  Given(m) \o f = Given(m + Len(f))
<1>1. PICK g : g = Given(m) BY Zenon
<1>2. g \in Seq(Bytes) /\ Len(g) = m /\ \A i \in 1 .. m : g[i] = console_read_bytes(i)
  BY Zenon, <1>1, GivenTyped DEF Given
<1>3. Len(f) \in Nat /\ m \in Nat BY IoConstant
<1>4. /\ g \o f \in Seq(Bytes) /\ Len(g \o f) = m + Len(f)
      /\ \A i \in 1 .. m + Len(f) : (g \o f)[i] = IF i <= m THEN g[i] ELSE f[i - m]
  BY ZenonT(30), <1>2, ConcatProperties
<1>5. \A i \in 1 .. m + Len(f) : (g \o f)[i] = console_read_bytes(i)
  <2> SUFFICES ASSUME NEW i \in 1 .. m + Len(f) PROVE (g \o f)[i] = console_read_bytes(i) BY Zenon
  <2>1. CASE i <= m
    <3>1. i \in 1 .. m BY <2>1, <1>3
    <3>2. (g \o f)[i] = g[i] BY Zenon, <2>1, <1>4
    <3> QED BY Zenon, <3>1, <3>2, <1>2
  <2>2. CASE i > m
    <3>1. PICK j \in 1 .. Len(f) : j = i - m /\ m + j = i BY <2>2, <1>3
    <3>2. f[j] = console_read_bytes(m + j) BY Zenon, <3>1
    <3>3. (g \o f)[i] = f[j] BY <3>1, <2>2, <1>3, <1>4
    <3> QED BY <3>1, <3>2, <3>3, Zenon
  <2>3. i <= m \/ i > m BY <1>3
  <2> QED BY Zenon, <2>1, <2>2, <2>3
<1>6. g \o f = Given(m + Len(f))
  <2>1. PICK h, n : h = Given(n) /\ n = m + Len(f) BY Zenon
  <2>2. n \in 0 .. Len(Input) BY <2>1, <1>3
  <2>3. h \in Seq(Bytes) /\ Len(h) = n BY Zenon, <2>1, <2>2, GivenTyped
  <2>4. \A i \in 1 .. n : h[i] = console_read_bytes(i) BY Zenon, <2>1 DEF Given
  <2>5. \A i \in 1 .. n : h[i] = (g \o f)[i] BY Zenon, <2>1, <2>4, <1>5
  <2>6. h = g \o f BY Zenon, <2>1, <2>3, <2>5, <1>4, SeqEqual
  <2> QED BY Zenon, <2>1, <2>6
<1> QED BY Zenon, <1>1, <1>6

\* The BufReader hands out and keeps what it had and what the console gave.
LEMMA BufRead ==
    ASSUME IoType, NEW n \in Nat, NEW r, r = BufReader_read(n)
    PROVE  /\ r.out \in Seq(Bytes) /\ r.keep \in Seq(Bytes) /\ Len(r.out) <= n
           /\ r.more \in 0 .. typed - taken
           /\ \E f \in Seq(Bytes) : /\ Len(f) = r.more /\ r.out \o r.keep = buffer \o f
                                    /\ \A i \in 1 .. Len(f) : f[i] = console_read_bytes(taken + i)
<1>0. buffer \in Seq(Bytes) /\ 0 \in 0 .. typed - taken BY IoConstant DEF IoType
<1>1. CASE buffer = << >> /\ n >= CAPACITY
  <2>1. PICK f : f = StdinRaw_read(n) BY Zenon
  <2>2. /\ f \in Seq(Bytes) /\ Len(f) \in 0 .. typed - taken /\ Len(f) <= n
        /\ \A i \in 1 .. Len(f) : f[i] = console_read_bytes(taken + i)
    BY Zenon, <2>1, RawRead
  <2>3. r.out = f /\ r.keep = << >> /\ r.more = Len(f) BY Zenon, <2>1, <1>1 DEF BufReader_read
  <2>4. << >> \in Seq(Bytes) /\ f \o << >> = f /\ << >> \o f = f BY <2>2, ConcatEmptySeq
  <2> QED BY Zenon, <2>2, <2>3, <2>4, <1>1
<1>2. CASE ~(buffer = << >> /\ n >= CAPACITY)
  <2>1. PICK f : f = IF buffer = << >> THEN StdinRaw_read(CAPACITY) ELSE << >> BY Zenon
  <2>2. /\ f \in Seq(Bytes) /\ Len(f) \in 0 .. typed - taken
        /\ \A i \in 1 .. Len(f) : f[i] = console_read_bytes(taken + i)
    <3>1. CASE buffer = << >> BY Zenon, <3>1, <2>1, RawRead, IoConstant
    <3>2. CASE buffer # << >>
      <4>1. f = << >> BY Zenon, <3>2, <2>1
      <4> QED BY <4>1, <1>0
    <3> QED BY Zenon, <3>1, <3>2
  <2>3. PICK b : b = buffer \o f BY Zenon
  <2>4. b \in Seq(Bytes) BY Zenon, <2>2, <2>3, <1>0, ConcatProperties
  <2>5. PICK k : k = Least(n, Len(b)) BY Zenon
  <2>6. k \in 0 .. Len(b) /\ k <= n /\ Len(b) \in Nat BY <2>4, <2>5 DEF Least
  <2>7. r.out = SubSeq(b, 1, k) /\ r.keep = SubSeq(b, k + 1, Len(b)) /\ r.more = Len(f)
    BY Zenon, <2>1, <2>3, <2>5, <1>2 DEF BufReader_read
  <2>8. r.out \in Seq(Bytes) /\ r.keep \in Seq(Bytes) /\ Len(r.out) <= n
    BY <2>4, <2>6, <2>7
  <2>9. r.out \o r.keep = b
    <3>1. 1 \in 1 .. Len(b) + 1 /\ k \in 1 - 1 .. Len(b) /\ Len(b) \in k .. Len(b) BY <2>6
    <3>2. SubSeq(b, 1, k) \o SubSeq(b, k + 1, Len(b)) = SubSeq(b, 1, Len(b))
      BY Zenon, <3>1, <2>4, ConcatAdjacentSubSeq
    <3> QED BY Zenon, <3>2, <2>4, <2>7, SubSeqFull
  <2> QED BY Zenon, <2>2, <2>3, <2>7, <2>8, <2>9
<1> QED BY Zenon, <1>1, <1>2

LEMMA Regroup == ASSUME NEW a \in Seq(Bytes), NEW b \in Seq(Bytes), NEW c \in Seq(Bytes)
    PROVE (a \o b) \o c = a \o (b \o c)
<1> HIDE FdAssumption
<1> QED BY SMTT(30), ConcatAssociative

\* Stdin::read_blocked hands out the next bytes.
LEMMA ReadBlockedOk ==
    ASSUME IoType, CallsOk, InputExact, NEW t \in Tids, read_blocked(t)
    PROVE  IoType' /\ CallsOk' /\ InputExact'
<1>0. /\ seen \in Seq(Bytes) /\ buffer \in Seq(Bytes) /\ typed \in 0 .. Len(Input) /\ taken \in 0 .. typed
  BY Zenon DEF IoType
<1>1. At(t, "read", "stdin") BY Zenon DEF read_blocked
<1>2. PICK c : c = io[t] BY Zenon
<1>3. /\ io \in [Tids -> IoRec \cup {NoIo}] /\ c \in IoRec /\ c.op = "read" /\ c.obj # NoObj
      /\ c.obj[1] = "stdin" /\ Head(c.iovs) \in Nat
  BY Zenon, <1>1, <1>2, AtObject
<1>4. PICK n, r : n = Head(c.iovs) /\ r = BufReader_read(n) BY Zenon
<1>5. PICK out, keep, more : out = r.out /\ keep = r.keep /\ more = r.more BY Zenon
<1>6. /\ n = 0 \/ out # << >>
      /\ buffer' = keep /\ taken' = taken + more /\ seen' = seen \o out
      /\ Moved(t, Len(out))
      /\ UNCHANGED << vars, offset, length, typed >>
  BY ZenonT(30), <1>2, <1>4, <1>5 DEF read_blocked
<1>7. n \in Nat BY Zenon, <1>3, <1>4
<1>8. /\ out \in Seq(Bytes) /\ keep \in Seq(Bytes) /\ Len(out) <= n
      /\ more \in 0 .. typed - taken
      /\ \E f \in Seq(Bytes) : /\ Len(f) = more /\ out \o keep = buffer \o f
                               /\ \A i \in 1 .. Len(f) : f[i] = console_read_bytes(taken + i)
  BY Zenon, <1>4, <1>5, <1>7, BufRead
<1>9. PICK f \in Seq(Bytes) : /\ Len(f) = more /\ out \o keep = buffer \o f
                              /\ \A i \in 1 .. Len(f) : f[i] = console_read_bytes(taken + i)
  BY Zenon, <1>8
<1>10. io' \in [Tids -> IoRec \cup {NoIo}] /\ CallsOk'
  <2>1. PICK k : k = Len(out) BY Zenon
  <2>2. k \in Nat /\ k <= n /\ Moved(t, k) BY <2>1, <1>6, <1>8
  <2>3. k = 0 => n = 0
    <3>1. Len(out) = 0 => out = << >> BY Zenon, <1>8, EmptySeq
    <3> QED BY Zenon, <3>1, <2>1, <1>6
  <2>4. Able(c.op, c.obj) /\ c.op \in {"read", "write"} BY Zenon, <1>3 DEF Able
  <2> QED BY Zenon, <2>2, <2>3, <2>4, <1>2, <1>3, <1>4, MovedOk
<1>11. IoType'
  <2>1. seen' \in Seq(Bytes) /\ buffer' \in Seq(Bytes) BY Zenon, <1>0, <1>6, <1>8, ConcatProperties
  <2>2. taken' \in 0 .. typed BY <1>0, <1>6, <1>8, IoConstant
  <2> QED BY Zenon, <2>1, <2>2, <1>6, <1>10 DEF IoType
<1>12. InputExact'
  <2>1. seen \o buffer = Given(taken) BY Zenon DEF InputExact, Given, console_read_bytes
  <2>2. seen' \o buffer' = seen \o (buffer \o f)
    <3>1. seen \in Seq(Bytes) /\ out \in Seq(Bytes) /\ keep \in Seq(Bytes) BY Zenon, <1>0, <1>8
    <3>2. (seen \o out) \o keep = seen \o (out \o keep) BY ZenonT(40), <3>1, Regroup
    <3> QED BY <3>2, <1>6, <1>9, Zenon
  <2>3. seen \o (buffer \o f) = Given(taken) \o f
    <3>1. (seen \o buffer) \o f = seen \o (buffer \o f) BY <1>0, Regroup, ZenonT(40)
    <3> QED BY Zenon, <3>1, <2>1
  <2>4. /\ taken \in 0 .. Len(Input) /\ taken + Len(f) <= Len(Input)
        /\ \A i \in 1 .. Len(f) : f[i] = console_read_bytes(taken + i)
    BY SMTT(30), <1>0, <1>8, <1>9, IoConstant
  <2>5. Given(taken) \o f = Given(taken + Len(f)) BY ZenonT(30), <2>4, GivenMore
  <2>6. seen' \o buffer' = Given(taken') BY Zenon, <2>2, <2>3, <2>5, <1>6, <1>9
  <2> QED BY Zenon, <2>6 DEF InputExact, Given, console_read_bytes
<1> QED BY Zenon, <1>10, <1>11, <1>12

\* A call begins.
LEMMA BeginOk ==
    ASSUME IoType, CallsOk, NEW t \in Tids, NEW fd \in Fds, NEW op \in {"read", "write"},
           NEW v \in BOOLEAN, NEW s \in Seq(Nat \cup {Bad}), ~v => Len(s) = 1,
           IoBegin(t, fd, op, v, s)
    PROVE  IoType' /\ CallsOk'
<1>1. PICK d : d = [op |-> op, fd |-> fd, vec |-> v, iovs |-> s, ret |-> 0,
                    obj |-> NoObj, moved |-> 0, first |-> NoObj]
  BY Zenon
<1>2. /\ d.op = op /\ d.vec = v /\ d.iovs = s /\ d.ret = 0 /\ d.obj = NoObj
      /\ d.moved = 0 /\ d.first = NoObj
  BY Zenon, <1>1
<1>3. d \in IoRec BY <1>1, Kinds DEF IoRec
<1>4. CallOk(d) BY SMTT(30), <1>2 DEF CallOk
<1>5. io' = [io EXCEPT ![t] = d] BY Zenon, <1>1 DEF IoBegin
<1>6. io' \in [Tids -> IoRec \cup {NoIo}] /\ CallsOk' BY ZenonT(30), <1>3, <1>4, <1>5, OneCall DEF IoType
<1> QED BY Zenon, <1>6 DEF IoBegin, IoType

\* Each step of a call keeps the invariant.
LEMMA IoStepOk ==
    ASSUME IoInv, NEW t \in Tids, IoStep(t) \/ PipeStep(t) \/ IoCall(t)
    PROVE  IoType' /\ CallsOk' /\ InputExact'
<1> USE DEF IoInv
<1>0. UNCHANGED << typed, taken, buffer, seen >> /\ InputExact => InputExact' BY Zenon DEF InputExact
<1>i. io \in [Tids -> IoRec \cup {NoIo}] /\ TypeOK BY Zenon DEF IoType, Inv
<1>1. CASE IoLookup(t)
  <2>1. io' \in [Tids -> IoRec \cup {NoIo}] /\ CallsOk' BY Zenon, <1>1, <1>i, LookupOk
  <2> QED BY Zenon, <2>1, <1>0, <1>1 DEF IoLookup, IoType
<1>2. CASE DirRefuses(t) \/ WayRefuses(t)
  <2>1. io' \in [Tids -> IoRec \cup {NoIo}] /\ CallsOk' BY Zenon, <1>2, RefusalOk
  <2> QED BY Zenon, <2>1, <1>0, <1>2 DEF DirRefuses, WayRefuses, IoType
<1>f. CASE FileFails(t) \/ PipeEnter(t)
  <2>1. io' \in [Tids -> IoRec \cup {NoIo}] /\ CallsOk' BY Zenon, <1>f, FailureOk
  <2> QED BY Zenon, <2>1, <1>0, <1>f DEF FileFails, PipeEnter, IoType
<1>p. CASE PipeStep(t)
  <2>1. io' \in [Tids -> IoRec \cup {NoIo}] /\ CallsOk' BY Zenon, <1>p, PipeOk
  <2> QED BY Zenon, <2>1, <1>0, <1>p DEF PipeStep, PipeRead, PipeWrite, IoType
<1>3. CASE FileRead(t) \/ FileWrite(t) \/ StdoutWrite(t)
  <2>1. IoType' /\ CallsOk' BY Zenon, <1>3, TransferOk
  <2> QED BY Zenon, <2>1, <1>0, <1>3 DEF FileRead, FileWrite, StdoutWrite
<1>4. CASE read_blocked(t) BY Zenon, <1>4, ReadBlockedOk
<1>5. CASE IoReturn(t)
  <2>1. io' = [io EXCEPT ![t] = NoIo] BY Zenon, <1>5 DEF IoReturn
  <2>2. io' \in [Tids -> IoRec \cup {NoIo}] /\ CallsOk' BY Zenon, <2>1, <1>i, OneCall
  <2> QED BY Zenon, <2>2, <1>0, <1>5 DEF IoReturn, IoType
<1>6. ASSUME NEW fd \in Fds, NEW s \in Iovecs, sys_readv(t, fd, s) \/ sys_writev(t, fd, s)
      PROVE  IoType' /\ CallsOk' /\ InputExact'
  <2>1. PICK op \in {"read", "write"} : IoBegin(t, fd, op, TRUE, s) BY Zenon, <1>6 DEF sys_readv, sys_writev
  <2>2. s \in Seq(Nat \cup {Bad}) BY Zenon, IoConstant
  <2>3. IoType' /\ CallsOk' BY Zenon, <2>1, <2>2, BeginOk
  <2> QED BY Zenon, <2>1, <2>3, <1>0 DEF IoBegin
<1>7. ASSUME NEW fd \in Fds, NEW s \in Iovecs, s # << >>,
             sys_read(t, fd, Head(s)) \/ sys_write(t, fd, Head(s))
      PROVE  IoType' /\ CallsOk' /\ InputExact'
  <2>1. PICK q : q = << Head(s) >> BY Zenon
  <2>2. PICK op \in {"read", "write"} : IoBegin(t, fd, op, FALSE, q) BY Zenon, <2>1, <1>7 DEF sys_read, sys_write
  <2>3. q \in Seq(Nat \cup {Bad}) /\ Len(q) = 1 BY <2>1, <1>7, IoConstant
  <2>4. IoType' /\ CallsOk' BY Zenon, <2>2, <2>3, BeginOk
  <2> QED BY Zenon, <2>2, <2>4, <1>0 DEF IoBegin
<1>8. ASSUME NEW fd \in Fds, NEW w \in 0 .. 2, NEW off \in -1 .. 1, sys_lseek(t, fd, w, off)
      PROVE  IoType' /\ CallsOk' /\ InputExact'
  <2>1. /\ UNCHANGED << vars, io, length, typed, taken, buffer, seen >>
        /\ \E n, p \in Nat : offset' = [offset EXCEPT ![n] = p]
    <3>1. PICK o : o = tables[tab[t]][fd] BY Zenon
    <3>2. o[1] = "file" BY Zenon, <3>1, <1>8 DEF sys_lseek
    <3>3. o \in Entries
      <4>1. tables \in [Tids -> [Fds -> Entries]] /\ tab[t] \in Tids BY Zenon, <1>i DEF TypeOK, Entries
      <4> QED BY ZenonT(30), <4>1, <3>1, EntryTyped
    <3>4. o[2] \in Nat BY SMTT(30), <3>2, <3>3 DEF Entries, Objs, NoObj, Stdin, Stdout
    <3>5. PICK p \in 0 .. MaxLen : offset' = [offset EXCEPT ![o[2]] = p] BY Zenon, <3>1, <1>8 DEF sys_lseek
    <3>6. UNCHANGED << vars, io, length, typed, taken, buffer, seen >> BY Zenon, <1>8 DEF sys_lseek
    <3>7. p \in Nat BY IoConstant
    <3> QED BY <3>4, <3>5, <3>6, <3>7, Zenon
  <2>2. offset' \in [1 .. MaxObjs -> Nat] BY ZenonT(30), <2>1 DEF IoType
  <2>3. CallsOk' BY Zenon, <2>1 DEF CallsOk
  <2> QED BY Zenon, <2>1, <2>2, <2>3, <1>0 DEF IoType
<1> QED BY Zenon, <1>1, <1>2, <1>3, <1>4, <1>5, <1>6, <1>7, <1>8, <1>f, <1>p DEF IoStep, IoCall

\* Steps that do not touch the descriptors.
LEMMA InvSame == ASSUME Inv, UNCHANGED vars PROVE Inv'
  BY DEF vars, Inv, TypeOK, SharedTable, Unborn, TableInUse, Alive

LEMMA IoSame == ASSUME IoType, CallsOk, InputExact, UNCHANGED iovars
    PROVE IoType' /\ CallsOk' /\ InputExact'
<1>1. UNCHANGED << io, offset, length, typed, taken, buffer, seen >> BY Zenon DEF iovars
<1> QED BY Zenon, <1>1 DEF IoType, CallsOk, InputExact

LEMMA IoKeeps == ASSUME IoInv, [IoNext]_allvars PROVE IoInv'
<1>i. Inv /\ IoType /\ CallsOk /\ InputExact BY Zenon DEF IoInv
<1>1. CASE Type
  <2>1. UNCHANGED << vars, io, offset, length, taken, buffer, seen >> /\ typed' = typed + 1
        /\ typed < Len(Input)
    BY Zenon, <1>1 DEF Type
  <2>2. typed' \in 0 .. Len(Input) /\ taken' \in 0 .. typed' BY <2>1, <1>i, IoConstant DEF IoType
  <2>3. IoType' BY Zenon, <2>1, <2>2, <1>i DEF IoType
  <2>4. CallsOk' BY Zenon, <2>1, <1>i DEF CallsOk
  <2>5. InputExact' BY Zenon, <2>1, <1>i DEF InputExact
  <2>6. Inv' BY Zenon, <2>1, <1>i, InvSame
  <2> QED BY Zenon, <2>3, <2>4, <2>5, <2>6 DEF IoInv
<1>2. ASSUME NEW t \in Tids, KernelStep(t) \/ UserCall(t), UNCHANGED iovars PROVE IoInv'
  <2>1. Inv' BY Zenon, <1>i, <1>2, StepKeeps
  <2>2. IoType' /\ CallsOk' /\ InputExact' BY Zenon, <1>i, <1>2, IoSame
  <2> QED BY Zenon, <2>1, <2>2 DEF IoInv
<1>3. ASSUME NEW t \in Tids, IoStep(t) \/ PipeStep(t) \/ IoCall(t) PROVE IoInv'
  <2>1. UNCHANGED vars
    BY Zenon, <1>3
    DEF IoStep, PipeStep, IoCall, IoLookup, DirRefuses, WayRefuses, FileRead, FileWrite, FileFails,
        PipeRead, PipeEnter, PipeWrite, StdoutWrite,
        read_blocked, IoReturn, sys_read, sys_readv, sys_write, sys_writev, IoBegin, sys_lseek
  <2>2. Inv' BY Zenon, <2>1, <1>i, InvSame
  <2>3. IoType' /\ CallsOk' /\ InputExact' BY Zenon, <1>3, IoStepOk
  <2> QED BY Zenon, <2>2, <2>3 DEF IoInv
<1>4. CASE UNCHANGED allvars
  <2>1. UNCHANGED vars /\ UNCHANGED iovars BY Zenon, <1>4 DEF allvars
  <2>2. Inv' BY Zenon, <2>1, <1>i, InvSame
  <2>3. IoType' /\ CallsOk' /\ InputExact' BY Zenon, <2>1, <1>i, IoSame
  <2> QED BY Zenon, <2>2, <2>3 DEF IoInv
<1> QED BY Zenon, <1>1, <1>2, <1>3, <1>4 DEF IoNext

LEMMA IoStart == ASSUME IoInit PROVE IoInv
<1> USE DEF IoInit
<1>1. Inv BY Zenon, InitInv
<1>2. IoType /\ CallsOk BY IoConstant DEF IoType, CallsOk
<1>3. InputExact
  <2>1. seen \o buffer = << >> OBVIOUS
  <2>2. [i \in 1 .. taken |-> << i, IF Input[i] = "CR" THEN "LF" ELSE Input[i] >>] = << >> OBVIOUS
  <2> QED BY Zenon, <2>1, <2>2 DEF InputExact
<1> QED BY Zenon, <1>1, <1>2, <1>3 DEF IoInv

LEMMA IoInvariant == IoSpec => []IoInv
<1>1. IoInit => IoInv BY Zenon, IoStart
<1>2. IoInv /\ [IoNext]_allvars => IoInv' BY Zenon, IoKeeps
<1> QED BY <1>1, <1>2, PTL DEF IoSpec

\* For every number of threads, every input, every size of buffer and of the
\* BufReader, and whatever becomes of the descriptors: the bytes read from the
\* console are those handed to programs followed by those buffered.
THEOREM InputInOrder == IoSpec => []InputExact
<1>1. IoInv => InputExact BY Zenon DEF IoInv
<1> QED BY <1>1, IoInvariant, PTL

\* Likewise: the result of a finished read or write says what it moved; a failure
\* after a part was moved is a bad buffer's, another object's, the file
\* system's, or a pipe's that lost its last reader.
THEOREM ResultsHonest == IoSpec => []ResultHonest
<1>1. IoInv => ResultHonest
  <2> SUFFICES ASSUME IoInv, NEW t \in Tids, io[t].op = "done" PROVE Honest(io[t])
    BY Zenon DEF ResultHonest, Honest, Excused
  <2>1. io[t] # NoIo BY Zenon, Idle
  <2> QED BY Zenon, <2>1 DEF IoInv, CallsOk, CallOk
<1> QED BY <1>1, IoInvariant, PTL
=============================================================================
