------------------------- MODULE ProcessLifeProofs -------------------------
(***************************************************************************)
(* For any number of threads, any calls, options and exit codes: the       *)
(* process tree stays consistent, one thread ends a process, waitpid waits *)
(* for children of its own process, orphans go to init, and the exit code  *)
(* of a process that has ended does not change.                            *)
(***************************************************************************)
EXTENDS ProcessLife, TLAPS

\* t counts for the size of its group.
GroupPcs == {"user", "blocked", "kill", "exit_thread"} \cup ClonePcs \cup WaitPcs
InGroup(t) == pc[t] \in GroupPcs

\* The thread groups are what the threads say, and a thread that does not exist
\* yet belongs to no process.
Members ==
    /\ \A p \in Procs : threads[p] = {t \in Tids : proc[t] = p /\ InGroup(t)}
    /\ \A t \in Tids : pc[t] = "none" <=> proc[t] = InitProc

\* c is where its parent looks for it, or has been freed.
Listed(c) == c \in children[parent[c]] \/ reaped[c] > 0

Tree ==
    /\ \A c \in Tids, p \in Procs : c \in children[p] => parent[c] = p /\ reaped[c] = 0
    /\ \A t \in Tids : pc[t] # "none" => Listed(proc[t])
    /\ \A c \in zombies : c # InitProc /\ Listed(c)
    /\ \A c \in Tids : reaped[c] > 0 => c \in zombies

\* No thread belongs to c and c is not a zombie.
Unused(c) == c \notin zombies /\ \A u \in Tids : proc[u] # c

\* Task ids that are not in use: those not yet taken, and those a clone has
\* taken, which its thread alone knows.  Once the process is built it is listed.
Fresh ==
    /\ \A c \in Tids : c >= next => pc[c] = "none" /\ Unused(c) /\ ~Listed(c)
    /\ \A t \in Tids : pc[t] \in ClonePcs =>
          /\ kid[t] \in Tids /\ kid[t] < next /\ pc[kid[t]] = "none"
          /\ \A u \in Tids \ {t} : pc[u] \in ClonePcs => kid[u] # kid[t]
    /\ \A t \in Tids : pc[t] \in BuildPcs => Unused(kid[t]) /\ ~Listed(kid[t])
    /\ \A t \in Tids : pc[t] = "clone_thread" =>
          other[t] = proc[t] \/ (other[t] = kid[t] /\ Unused(kid[t]) /\ Listed(kid[t]))

\* The group is empty when its last thread ends the process, and stays empty.
Ends ==
    /\ \A t \in Tids : Ending(t) => threads[proc[t]] = {}
    /\ \A t, u \in Tids : Ending(t) /\ Ending(u) /\ proc[t] = proc[u] => t = u
    /\ \A p \in zombies : threads[p] = {}

Waits ==
    /\ \A t \in Tids : pc[t] \in WaitPcs =>
          \A c \in args[t].kids : parent[c] = proc[t] /\ Listed(c)
    /\ \A p \in Procs : child_exit_wq[p] = {t \in Tids : pc[t] = "asleep" /\ proc[t] = p}

Orphans ==
    "parent" \notin calls =>
        /\ \A p \in zombies : children[p] = {}
        /\ \A t \in Tids : pc[t] \in BuildPcs => other[t] = proc[t]

Shape == Members /\ Tree /\ Fresh /\ Ends /\ Orphans

Inv == TypeOK /\ Shape /\ Waits

LEMMA Ids == /\ MaxTid \in Nat \ {0} /\ Tids \subseteq Nat \ {0} /\ 1 \in Tids
             /\ InitProc \in Procs /\ InitProc \notin Tids /\ Tids \subseteq Procs
             /\ \A p \in Procs : p \in Tids \/ p = InitProc
  BY LifeAssumption DEF Tids, Procs, InitProc

\* The pending end of a process does not count for its group.
LEMMA Apart == ASSUME NEW t \in Tids
               PROVE  /\ Ending(t) => ~InGroup(t) /\ pc[t] # "none"
                      /\ InGroup(t) => pc[t] # "none"
                      /\ pc[t] \in ClonePcs \/ pc[t] \in WaitPcs => InGroup(t)
  BY Zenon DEF Ending, InGroup, GroupPcs, ClonePcs, BuildPcs, WaitPcs

\* A step that leaves the tree, the groups and the processes of the threads
\* alone: nobody joins or leaves a group, begins to end a process or to clone.
LEMMA Quiet ==
    ASSUME TypeOK, Shape,
           UNCHANGED << next, proc, threads, parent, children, zombies, reaped, calls >>,
           \A u \in Tids :
              /\ InGroup(u)' <=> InGroup(u)
              /\ pc'[u] = "none" <=> pc[u] = "none"
              /\ Ending(u)' => Ending(u)
              /\ pc'[u] \in ClonePcs => /\ pc'[u] = pc[u]
                                        /\ kid'[u] = kid[u] /\ other'[u] = other[u]
    PROVE  Shape'
<1>1. Members' BY Zenon DEF Shape, Members
<1>2. Tree' BY Zenon DEF Shape, Tree, Listed
<1>3. Fresh'
  <2>1. \A c : (Unused(c)' <=> Unused(c)) /\ (Listed(c)' <=> Listed(c)) BY Zenon DEF Unused, Listed
  <2>2. \A c \in Tids : c >= next' => pc'[c] = "none" /\ Unused(c)' /\ ~Listed(c)'
    BY Zenon, <2>1 DEF Shape, Fresh
  <2>3. ASSUME NEW t \in Tids, pc'[t] \in ClonePcs
        PROVE  /\ kid'[t] \in Tids /\ kid'[t] < next' /\ pc'[kid'[t]] = "none"
               /\ \A u \in Tids \ {t} : pc'[u] \in ClonePcs => kid'[u] # kid'[t]
               /\ pc'[t] \in BuildPcs => Unused(kid[t])' /\ ~Listed(kid[t])'
               /\ pc'[t] = "clone_thread" =>
                     \/ other'[t] = proc'[t]
                     \/ other'[t] = kid'[t] /\ Unused(kid[t])' /\ Listed(kid[t])'
    BY <2>1, <2>3 DEF Shape, Fresh
  <2>4. \A t \in Tids : pc'[t] \in BuildPcs \/ pc'[t] = "clone_thread" => pc'[t] \in ClonePcs
    BY Zenon DEF ClonePcs
  <2> QED BY Zenon, <2>2, <2>3, <2>4 DEF Fresh
<1>4. Ends' BY Zenon DEF Shape, Ends
<1>5. Orphans'
  <2>1. \A t \in Tids : pc'[t] \in BuildPcs => pc'[t] \in ClonePcs BY Zenon DEF ClonePcs
  <2> QED BY Zenon, <2>1 DEF Shape, Orphans
<1> QED BY Zenon, <1>1, <1>2, <1>3, <1>4, <1>5 DEF Shape

Args == [code : Nat, group : BOOLEAN, opts : WaitOptions \cup {{}}, kids : SUBSET Tids]

LEMMA NoArgsTyped == NoArgs \in Args
  BY Zenon DEF NoArgs, Args

\* A call sets some of its locals.
LEMMA ArgSet ==
    ASSUME NEW a \in [Tids -> Args], NEW t \in Tids
    PROVE  /\ \A c \in Nat, g \in BOOLEAN :
                 [a EXCEPT ![t].code = c, ![t].group = g] \in [Tids -> Args]
           /\ \A o \in WaitOptions, k \in SUBSET Tids :
                 [a EXCEPT ![t].opts = o, ![t].kids = k] \in [Tids -> Args]
           /\ \A k \in SUBSET Tids : [a EXCEPT ![t].kids = k] \in [Tids -> Args]
<1>1. /\ \A r \in Args, c \in Nat : [r EXCEPT !.code = c] \in Args
      /\ \A r \in Args, g \in BOOLEAN : [r EXCEPT !.group = g] \in Args
      /\ \A r \in Args, o \in WaitOptions : [r EXCEPT !.opts = o] \in Args
      /\ \A r \in Args, k \in SUBSET Tids : [r EXCEPT !.kids = k] \in Args
  <2>1. \A r \in Args, c \in Nat : [r EXCEPT !.code = c] \in Args BY Zenon DEF Args
  <2>2. \A r \in Args, g \in BOOLEAN : [r EXCEPT !.group = g] \in Args BY Zenon DEF Args
  <2>3. \A r \in Args, o \in WaitOptions : [r EXCEPT !.opts = o] \in Args BY Zenon DEF Args
  <2>4. \A r \in Args, k \in SUBSET Tids : [r EXCEPT !.kids = k] \in Args BY Zenon DEF Args
  <2> QED BY Zenon, <2>1, <2>2, <2>3, <2>4
<1> QED BY <1>1, Zenon

\* Every label is one, and a jump of one thread to a label is typed.
LEMMA Jump ==
    ASSUME pc \in [Tids -> Pcs], NEW t \in Tids, NEW l \in Pcs, Goto(t, l)
    PROVE  pc' \in [Tids -> Pcs] /\ pc'[t] = l /\ \A u \in Tids : u # t => pc'[u] = pc[u]
  BY Zenon DEF Goto

LEMMA Labels ==
    /\ {"none", "user", "blocked", "dead", "kill", "clone_process", "clone_other", "clone_thread"} \subseteq Pcs
    /\ {"exit_thread", "exit_process", "exit_parent", "exit_notify", "exit_again", "exit_group",
        "exit_flag", "exit_kill", "wait_check", "wait_sleep", "asleep"} \subseteq Pcs
  BY Zenon DEF Pcs, ClonePcs, BuildPcs, ExitPcs, WaitPcs

\* Every call and every step inside the kernel keeps the types.
LEMMA TypeStep ==
    ASSUME Inv, NEW t \in Tids, KernelStep(t) \/ UserCall(t) \/ BlockingReturn(t) \/ check_signals(t)
    PROVE  TypeOK'
<1>t. TypeOK BY Zenon DEF Inv
<1>0. /\ args \in [Tids -> Args] /\ pc \in [Tids -> Pcs] /\ proc[t] \in Procs
      /\ proc \in [Tids -> Procs] /\ kid \in [Tids -> Procs] /\ other \in [Tids -> Procs]
      /\ threads \in [Procs -> SUBSET Tids] /\ parent \in [Procs -> Procs]
      /\ children \in [Procs -> SUBSET Tids]
  BY Zenon, <1>t, Ids DEF TypeOK, Args
<1>l. ASSUME NEW l \in Pcs, Goto(t, l) PROVE pc' \in [Tids -> Pcs]
  BY Zenon, <1>l, <1>0, Jump
<1>1. ASSUME NEW k \in {"thread", "fork", "clone", "parent"}, CloneBegin(t, k) PROVE TypeOK'
  <2> USE <1>1 DEF CloneBegin
  <2>1. pc' \in [Tids -> Pcs] BY Zenon, <1>l, Labels
  <2>2. kid' \in [Tids -> Procs] /\ other' \in [Tids -> Procs] BY Zenon, <1>0, Ids
  <2>3. next' \in 1 .. MaxTid + 1 BY Ids DEF Tids
  <2> QED BY Zenon, <1>t, <2>1, <2>2, <2>3 DEF TypeOK, tree, group
<1>2. CASE CloneFail(t)
  <2> USE <1>2 DEF CloneFail
  <2>1. pc' \in [Tids -> Pcs] BY Zenon, <1>l, Labels
  <2>2. kid' \in [Tids -> Procs] /\ other' \in [Tids -> Procs] BY Zenon, <1>0, Ids
  <2> QED BY Zenon, <1>t, <2>1, <2>2 DEF TypeOK, tree, group
<1>3. CASE CloneProcess(t)
  <2> USE <1>3 DEF CloneProcess, Process_build
  <2>1. pc' \in [Tids -> Pcs] BY Zenon, <1>l, Labels
  <2>2. kid[t] \in Tids BY Zenon DEF Inv, Shape, Fresh, ClonePcs
  <2>3. other' \in [Tids -> Procs] BY Zenon, <1>0, Ids, <2>2
  <2>4. parent' \in [Procs -> Procs] /\ children' \in [Procs -> SUBSET Tids] BY Zenon, <1>0, <2>2, Ids
  <2>5. clones' \in SUBSET Procs BY <1>t, <1>0 DEF TypeOK
  <2> QED BY Zenon, <1>t, <2>1, <2>3, <2>4, <2>5 DEF TypeOK, group
<1>4. CASE CloneThread(t)
  <2> USE <1>4 DEF CloneThread
  <2>1. kid[t] \in Tids BY Zenon DEF Inv, Shape, Fresh, ClonePcs
  <2>2. pc' \in [Tids -> Pcs] BY Zenon, <1>0, <2>1, Labels
  <2>3. kid' \in [Tids -> Procs] /\ other' \in [Tids -> Procs] /\ proc' \in [Tids -> Procs] BY Zenon, <1>0, Ids
  <2>4. threads' \in [Procs -> SUBSET Tids] BY Zenon, <1>0, <2>1
  <2> QED BY Zenon, <1>t, <2>2, <2>3, <2>4 DEF TypeOK, tree
<1>5. ASSUME NEW code \in Nat, NEW isGroup \in BOOLEAN, StartExit(t, code, isGroup),
             killed' \in SUBSET Tids, shot' \in SUBSET Tids
      PROVE  TypeOK'
  <2> USE <1>5 DEF StartExit
  <2>1. pc' \in [Tids -> Pcs] BY Zenon, <1>l, Labels
  <2>2. args' \in [Tids -> Args] BY Zenon, <1>0, ArgSet
  <2> QED BY Zenon, <1>t, <2>1, <2>2 DEF TypeOK, tree, group, Args
<1>6. CASE ExitThread(t)
  <2> USE <1>6 DEF ExitThread, Thread_exit
  <2>1. pc' \in [Tids -> Pcs] BY Zenon, <1>l, Labels
  <2>2. threads' \in [Procs -> SUBSET Tids] BY Zenon, <1>0
  <2>3. exit_code' \in [Procs -> Nat]
    <3>1. args[t].code \in Nat BY Zenon, <1>0 DEF Args
    <3> QED BY Zenon, <1>t, <3>1 DEF TypeOK
  <2> QED BY Zenon, <1>t, <2>1, <2>2, <2>3 DEF TypeOK, tree
<1>7. ASSUME Process_exit(proc[t]), Goto(t, "exit_parent") \/ Goto(t, "exit_group"),
             UNCHANGED << next, calls, masked, shot, proc, group, clones, reaped, killed, sigchld,
                    child_exit_wq, other, kid, args >>
      PROVE  TypeOK'
  <2> USE <1>7 DEF Process_exit
  <2>1. pc' \in [Tids -> Pcs] BY Zenon, <1>l, Labels
  <2>2. parent' \in [Procs -> Procs] BY Zenon, <1>0, Ids
  <2>3. children' \in [Procs -> SUBSET Tids] BY Zenon, <1>0, Ids
  <2>4. zombies' \in SUBSET Procs BY Zenon, <1>t, <1>0 DEF TypeOK
  <2> QED BY Zenon, <1>t, <2>1, <2>2, <2>3, <2>4 DEF TypeOK, group
<1>8. CASE ExitParent(t)
  <2> USE <1>8 DEF ExitParent
  <2>1. pc' \in [Tids -> Pcs] BY Zenon, <1>l, Labels
  <2>2. parent[proc[t]] \in Procs BY Zenon, <1>0
  <2>3. other' \in [Tids -> Procs] BY Zenon, <1>0, <2>2
  <2>4. sigchld' \in SUBSET Procs BY Zenon, <1>t, <2>2 DEF TypeOK
  <2> QED BY Zenon, <1>t, <2>1, <2>3, <2>4 DEF TypeOK, tree, group
<1>9. CASE ExitNotify(t)
  <2> USE <1>9 DEF ExitNotify
  <2>1. pc' \in [Tids -> Pcs] BY Zenon, <1>0, Labels
  <2>2. other' \in [Tids -> Procs] BY Zenon, <1>0, Ids
  <2>3. child_exit_wq' \in [Procs -> SUBSET Tids] BY Zenon, <1>t DEF TypeOK
  <2> QED BY Zenon, <1>t, <2>1, <2>2, <2>3 DEF TypeOK, tree, group
<1>11. CASE ExitGroup(t)
  <2> USE <1>11 DEF ExitGroup, Die
  <2>1. pc' \in [Tids -> Pcs] BY Zenon, <1>l, Labels
  <2>2. args' \in [Tids -> Args] BY Zenon, <1>0, NoArgsTyped
  <2>3. masked' \in SUBSET Tids /\ killed' \in SUBSET Tids BY Zenon, <1>t, <1>0 DEF TypeOK
  <2> QED BY Zenon, <1>t, <2>1, <2>2, <2>3 DEF TypeOK, tree, group, Args
<1>10. CASE ExitFlag(t)
  <2> USE <1>10 DEF ExitFlag
  <2>1. pc' \in [Tids -> Pcs] BY Zenon, <1>l, Labels
  <2>2. group_exited' \in SUBSET Procs BY Zenon, <1>t, <1>0 DEF TypeOK
  <2> QED BY Zenon, <1>t, <2>1, <2>2 DEF TypeOK, tree
<1>12. CASE ExitKill(t)
  <2> USE <1>12 DEF ExitKill, Die
  <2>1. pc' \in [Tids -> Pcs] BY Zenon, <1>l, Labels
  <2>2. args' \in [Tids -> Args] BY Zenon, <1>0, NoArgsTyped
  <2>3. killed' \in SUBSET Tids /\ masked' \in SUBSET Tids
    <3>1. threads[proc[t]] \in SUBSET Tids BY Zenon, <1>0
    <3> QED BY Zenon, <1>t, <3>1 DEF TypeOK
  <2> QED BY Zenon, <1>t, <2>1, <2>2, <2>3 DEF TypeOK, tree, group, Args
<1>13. ASSUME NEW c \in Tids, WaitReport(t, c) PROVE TypeOK'
  <2> USE <1>13 DEF WaitReport, Process_free
  <2>1. pc' \in [Tids -> Pcs] BY Zenon, <1>l, Labels
  <2>2. args' \in [Tids -> Args] BY Zenon, <1>0, NoArgsTyped
  <2>3. children' \in [Procs -> SUBSET Tids] BY <1>0
  <2>4. reaped' \in [Procs -> Nat] BY <1>t, Ids DEF TypeOK
  <2> QED BY Zenon, <1>t, <2>1, <2>2, <2>3, <2>4 DEF TypeOK, group, Args
<1>14. CASE WaitNothing(t)
  <2> USE <1>14 DEF WaitNothing
  <2>1. pc' \in [Tids -> Pcs] BY Zenon, <1>l, Labels
  <2>2. args' \in [Tids -> Args] BY Zenon, <1>0, NoArgsTyped
  <2> QED BY Zenon, <1>t, <2>1, <2>2 DEF TypeOK, tree, group, Args
<1>15. CASE WaitSleep(t)
  <2> USE <1>15 DEF WaitSleep
  <2>1. pc' \in [Tids -> Pcs] BY Zenon, <1>l, Labels
  <2>2. child_exit_wq' \in [Procs -> SUBSET Tids] BY Zenon, <1>t, <1>0 DEF TypeOK
  <2> QED BY Zenon, <1>t, <2>1, <2>2 DEF TypeOK, tree, group
<1>16. ASSUME NEW pid, NEW o \in WaitOptions, WaitBegin(t, pid, o) PROVE TypeOK'
  <2> USE <1>16 DEF WaitBegin
  <2>1. pc' \in [Tids -> Pcs] BY Zenon, <1>l, Labels
  <2>2. Selected(proc[t], pid, o) \in SUBSET Tids BY Zenon, <1>0 DEF Selected
  <2>3. args' \in [Tids -> Args] BY Zenon, <1>0, <2>2, ArgSet
  <2> QED BY Zenon, <1>t, <2>1, <2>3 DEF TypeOK, tree, group, Args
<1>17. ASSUME NEW targets \in SUBSET Tids, KillBegin(t, targets) PROVE TypeOK'
  <2> USE <1>17 DEF KillBegin
  <2>1. pc' \in [Tids -> Pcs] BY Zenon, <1>l, Labels
  <2>2. args' \in [Tids -> Args] BY Zenon, <1>0, ArgSet
  <2> QED BY Zenon, <1>t, <2>1, <2>2 DEF TypeOK, tree, group, Args
<1>18. ASSUME NEW p \in Tids, send_signal_process(t, p) PROVE TypeOK'
  <2> USE <1>18 DEF send_signal_process
  <2>1. pc' \in [Tids -> Pcs] BY Zenon, <1>l, <1>0, Labels
  <2>2. args' \in [Tids -> Args]
    <3>1. args[t].kids \ {p} \in SUBSET Tids BY Zenon, <1>0 DEF Args
    <3> QED BY Zenon, <1>0, <3>1, ArgSet
  <2>3. shot' \in SUBSET Tids BY Zenon, <1>t DEF TypeOK
  <2> QED BY Zenon, <1>t, <2>1, <2>2, <2>3 DEF TypeOK, tree, group, Args
<1>19. ASSUME NEW u \in Tids, sys_tkill(t, u) PROVE TypeOK'
  BY Zenon, <1>19, <1>t DEF sys_tkill, TypeOK, tree, group
<1>20. CASE sys_exit(t) \/ sys_exit_group(t)
  <2>1. PICK c \in ExitCodes, g \in BOOLEAN : StartExit(t, c * 256, g) /\ UNCHANGED << killed, shot >>
    BY Zenon, <1>20 DEF sys_exit, sys_exit_group
  <2>2. c * 256 \in Nat BY LifeAssumption
  <2>3. killed' \in SUBSET Tids /\ shot' \in SUBSET Tids BY Zenon, <1>t, <2>1 DEF TypeOK
  <2> QED BY Zenon, <1>5, <2>1, <2>2, <2>3
<1>21. CASE check_signals(t)
  <2>1. SIGKILLed \in Nat BY DEF SIGKILLed
  <2>2. killed' \in SUBSET Tids /\ shot' \in SUBSET Tids BY Zenon, <1>21, <1>t DEF check_signals, TypeOK
  <2> QED BY Zenon, <1>21, <1>5, <2>1, <2>2 DEF check_signals
<1>22. ASSUME NEW pid \in KillPids, sys_kill(t, pid) PROVE TypeOK'
  <2> DEFINE targets == CASE pid > 0 -> get_process(pid) [] pid = 0 -> Existing [] pid = -1 -> processes
  <2>1. Existing \in SUBSET Tids BY Zenon DEF Existing
  <2>2. processes \in SUBSET Tids /\ get_process(pid) \in SUBSET Tids
    BY Zenon, <2>1 DEF processes, get_process
  <2>3. pid > 0 \/ pid = 0 \/ pid = -1 BY LifeAssumption, Ids
  <2>4. targets \in SUBSET Tids BY Zenon, <2>1, <2>2, <2>3
  <2>5. KillBegin(t, targets) BY Zenon, <1>22 DEF sys_kill
  <2> QED BY Zenon, <1>17, <2>4, <2>5
<1>23. CASE sys_rt_sigprocmask(t)
  <2>1. masked' \in SUBSET Tids BY Zenon, <1>23, <1>t DEF sys_rt_sigprocmask, TypeOK
  <2> QED BY Zenon, <1>23, <1>t, <2>1 DEF sys_rt_sigprocmask, TypeOK, tree, group
<1>24. CASE BlockingCall(t) \/ BlockingReturn(t)
  <2> USE <1>24 DEF BlockingCall, BlockingReturn, PassesTo
  <2>1. pc' \in [Tids -> Pcs] BY Zenon, <1>l, Labels
  <2> QED BY Zenon, <1>t, <2>1 DEF TypeOK, tree, group
<1> QED
  BY Zenon, <1>1, <1>2, <1>3, <1>4, <1>6, <1>7, <1>8, <1>9, <1>10, <1>11, <1>12, <1>13, <1>14,
     <1>15, <1>16, <1>18, <1>19, <1>20, <1>21, <1>22, <1>23, <1>24
  DEF KernelStep, UserCall, sys_tgkill, ExitProcess, ExitAgain
-----------------------------------------------------------------------------
(* Steps that leave the tree and the groups alone *)

LEMMA QuietJump ==
    ASSUME TypeOK, Shape, NEW t \in Tids, NEW l \in Pcs, Goto(t, l),
           UNCHANGED << next, proc, threads, parent, children, zombies, reaped, calls >>,
           \A u \in Tids \ {t} : kid'[u] = kid[u] /\ other'[u] = other[u],
           pc[t] # "none", l # "none", l \notin ClonePcs,
           l \in GroupPcs <=> pc[t] \in GroupPcs,
           l \in {"exit_process", "exit_parent", "exit_notify", "exit_again"} => Ending(t)
    PROVE  Shape'
<1>1. pc'[t] = l /\ \A u \in Tids : u # t => pc'[u] = pc[u]
  BY Zenon, Jump DEF TypeOK
<1> QED BY Zenon, <1>1, Quiet DEF InGroup, Ending

LEMMA QuietStep ==
    ASSUME Inv, NEW t \in Tids,
           \/ CloneFail(t) \/ ExitParent(t) \/ ExitNotify(t) \/ ExitGroup(t) \/ ExitFlag(t) \/ ExitKill(t)
           \/ WaitNothing(t) \/ WaitSleep(t) \/ \E p \in Tids : send_signal_process(t, p)
           \/ \E code, g : StartExit(t, code, g)
           \/ \E pid, o : WaitBegin(t, pid, o)
           \/ \E targets : KillBegin(t, targets)
           \/ (\E u : sys_tkill(t, u)) \/ sys_rt_sigprocmask(t) \/ BlockingCall(t) \/ BlockingReturn(t)
    PROVE  Shape'
<1>0. TypeOK /\ Shape /\ kid \in [Tids -> Procs] /\ other \in [Tids -> Procs] BY Zenon DEF Inv, TypeOK
<1> USE Labels DEF GroupPcs, ClonePcs, BuildPcs, WaitPcs, Ending
<1>1. CASE CloneFail(t)
  <2> USE <1>1 DEF CloneFail, tree, group
  <2>1. \A u \in Tids \ {t} : kid'[u] = kid[u] /\ other'[u] = other[u] BY Zenon, <1>0
  <2> QED BY Zenon, <1>0, <2>1, QuietJump
<1>2. CASE ExitParent(t)
  <2> USE <1>2 DEF ExitParent, tree, group
  <2>1. \A u \in Tids \ {t} : kid'[u] = kid[u] /\ other'[u] = other[u] BY Zenon, <1>0
  <2> QED BY Zenon, <1>0, <2>1, QuietJump
<1>3. CASE ExitNotify(t)
  <2> USE <1>3 DEF ExitNotify, tree, group
  <2>1. \A u \in Tids \ {t} : kid'[u] = kid[u] /\ other'[u] = other[u] BY Zenon, <1>0
  <2>2. child_exit_wq[other[t]] \subseteq {u \in Tids : pc[u] = "asleep"} BY <1>0 DEF Inv, Waits
  <2>3. \A u \in Tids : \/ u # t /\ pc'[u] = pc[u]
                        \/ u # t /\ pc[u] = "asleep" /\ pc'[u] = "wait_check"
                        \/ u = t /\ pc[u] = "exit_notify" /\ pc'[u] = "exit_again"
    BY Zenon, <2>2
  <2> QED BY Zenon, <1>0, <2>1, <2>3, Quiet DEF InGroup
<1>4. CASE ExitGroup(t)
  BY Zenon, <1>4, <1>0, QuietJump DEF ExitGroup, Die, tree, group
<1>5. CASE ExitKill(t)
  BY Zenon, <1>5, <1>0, QuietJump DEF ExitKill, Die, tree, group
<1>6. CASE WaitNothing(t)
  BY Zenon, <1>6, <1>0, QuietJump DEF WaitNothing, tree, group
<1>7. CASE WaitSleep(t)
  BY Zenon, <1>7, <1>0, QuietJump DEF WaitSleep, tree, group
<1>8. ASSUME NEW p \in Tids, send_signal_process(t, p) PROVE Shape'
  <2> USE <1>8 DEF send_signal_process, tree, group
  <2>1. CASE args[t].kids = {p} BY Zenon, <2>1, <1>0, QuietJump
  <2>2. CASE args[t].kids # {p} BY Zenon, <2>2, <1>0, Quiet DEF InGroup
  <2> QED BY Zenon, <2>1, <2>2
<1>9. ASSUME NEW code, NEW g, StartExit(t, code, g) PROVE Shape'
  BY Zenon, <1>9, <1>0, QuietJump DEF StartExit, tree, group
<1>10. ASSUME NEW pid, NEW o, WaitBegin(t, pid, o) PROVE Shape'
  BY Zenon, <1>10, <1>0, QuietJump DEF WaitBegin, tree, group
<1>11. ASSUME NEW targets, KillBegin(t, targets) PROVE Shape'
  BY Zenon, <1>11, <1>0, QuietJump DEF KillBegin, tree, group
<1>12. ASSUME NEW u, sys_tkill(t, u) PROVE Shape'
  BY Zenon, <1>12, <1>0, Quiet DEF sys_tkill, tree, group, InGroup
<1>13. CASE ExitFlag(t)
  BY Zenon, <1>13, <1>0, QuietJump DEF ExitFlag, tree, group
<1>14. CASE sys_rt_sigprocmask(t)
  BY Zenon, <1>14, <1>0, Quiet DEF sys_rt_sigprocmask, tree, group, InGroup
<1>15. CASE BlockingCall(t) \/ BlockingReturn(t)
  BY Zenon, <1>15, <1>0, QuietJump DEF BlockingCall, BlockingReturn, PassesTo, tree, group
<1> QED BY Zenon, <1>1, <1>2, <1>3, <1>4, <1>5, <1>6, <1>7, <1>8, <1>9, <1>10, <1>11, <1>12,
           <1>13, <1>14, <1>15
-----------------------------------------------------------------------------
(* sys_clone *)

LEMMA BeginKeeps ==
    ASSUME Inv, NEW t \in Tids, NEW k \in {"thread", "fork", "clone", "parent"}, CloneBegin(t, k)
    PROVE  Shape'
<1> USE Ids DEF Inv, Shape, CloneBegin, tree, group
<1>0. /\ pc \in [Tids -> Pcs] /\ kid \in [Tids -> Procs] /\ other \in [Tids -> Procs]
      /\ pc[t] = "user" /\ next \in Tids
  BY Zenon DEF TypeOK
<1>1. /\ pc'[t] = CASE k = "thread" -> "clone_thread" [] k = "clone" -> "clone_other"
                    [] OTHER -> "clone_process"
      /\ kid'[t] = next /\ other'[t] = IF k = "parent" THEN parent[proc[t]] ELSE proc[t]
      /\ \A u \in Tids : u # t => pc'[u] = pc[u] /\ kid'[u] = kid[u] /\ other'[u] = other[u]
  BY Zenon, <1>0 DEF Goto
<1>2. \A u \in Tids : /\ InGroup(u)' <=> InGroup(u)
                      /\ pc'[u] = "none" <=> pc[u] = "none"
                      /\ Ending(u)' <=> Ending(u)
  BY Zenon, <1>0, <1>1 DEF InGroup, GroupPcs, ClonePcs, BuildPcs, Ending
<1>3. Members' BY Zenon, <1>2 DEF Members
<1>4. Tree' BY Zenon, <1>2 DEF Tree, Listed
<1>5. Ends' BY Zenon, <1>2 DEF Ends
<1>6. Orphans' BY Zenon, <1>1 DEF Orphans, BuildPcs
<1>7. Fresh'
  <2>0. \A c : (Unused(c)' <=> Unused(c)) /\ (Listed(c)' <=> Listed(c)) BY Zenon DEF Unused, Listed
  <2>1. next \in Nat /\ next' = next + 1 /\ next # t /\ pc'[next] = "none" BY <1>0, <1>2 DEF Fresh
  <2>2. \A c \in Tids : c >= next' => pc'[c] = "none" /\ Unused(c)' /\ ~Listed(c)'
    BY <2>0, <2>1, <1>2 DEF Fresh
  <2>3. ASSUME NEW u \in Tids, pc'[u] \in ClonePcs, u # t
        PROVE  kid'[u] \in Tids /\ kid'[u] < next /\ kid'[u] < next' /\ pc'[kid'[u]] = "none"
    <3>1. kid[u] \in Tids /\ kid[u] < next /\ pc[kid[u]] = "none" BY Zenon, <2>3, <1>1 DEF Fresh
    <3> QED BY <3>1, <2>3, <2>1, <1>1, <1>2
  <2>4. \A u \in Tids : pc'[u] \in ClonePcs =>
          /\ kid'[u] \in Tids /\ kid'[u] < next' /\ pc'[kid'[u]] = "none"
          /\ \A w \in Tids \ {u} : pc'[w] \in ClonePcs => kid'[w] # kid'[u]
    <3>1. \A u, w \in Tids \ {t} : u # w /\ pc'[u] \in ClonePcs /\ pc'[w] \in ClonePcs => kid'[w] # kid'[u]
      BY <1>1 DEF Fresh
    <3> QED BY <2>1, <2>3, <3>1, <1>0, <1>1
  <2>5. \A u \in Tids : pc'[u] \in BuildPcs => Unused(kid[u])' /\ ~Listed(kid[u])'
    BY <2>0, <2>1, <1>0, <1>1 DEF Fresh
  <2>6. \A u \in Tids : pc'[u] = "clone_thread" =>
          other'[u] = proc'[u] \/ (other'[u] = kid'[u] /\ Unused(kid[u])' /\ Listed(kid[u])')
    BY <2>0, <1>1 DEF Fresh
  <2> QED BY Zenon, <2>2, <2>4, <2>5, <2>6 DEF Fresh
<1> QED BY Zenon, <1>3, <1>4, <1>5, <1>6, <1>7

\* ProcessBuilder::build() lists the new process and changes nothing for others.
LEMMA ProcessKeeps == ASSUME Inv, NEW t \in Tids, CloneProcess(t) PROVE Shape'
<1> USE Ids
<1>k. PICK c, q : c = kid[t] /\ q = other[t] BY Zenon
<1>i. TypeOK /\ Members /\ Tree /\ Fresh /\ Ends /\ Orphans BY Zenon DEF Inv, Shape
<1>e. /\ UNCHANGED << threads, zombies, reaped, proc, kid, next, calls >>
      /\ parent' = [parent EXCEPT ![c] = q] /\ pc[t] \in BuildPcs
      /\ children' = [children EXCEPT ![q] = @ \cup {c}]
      /\ Goto(t, "clone_thread") /\ other' = [other EXCEPT ![t] = c]
  BY Zenon, <1>k DEF CloneProcess, Process_build, group
<1>0. /\ pc \in [Tids -> Pcs] /\ other \in [Tids -> Procs] /\ q \in Procs
      /\ parent \in [Procs -> Procs] /\ children \in [Procs -> SUBSET Tids]
      /\ reaped \in [Procs -> Nat] /\ pc[t] \in BuildPcs /\ pc[t] \in ClonePcs
      /\ zombies \in SUBSET Procs /\ proc \in [Tids -> Procs] /\ next \in Nat
  BY <1>i, <1>e, <1>k DEF TypeOK, ClonePcs
<1>c. c \in Tids /\ c < next /\ pc[c] = "none" /\ Unused(c) /\ ~Listed(c)
  BY Zenon, <1>0, <1>i, <1>k DEF Fresh
<1>1. /\ pc'[t] = "clone_thread" /\ other'[t] = c
      /\ \A u \in Tids : u # t => pc'[u] = pc[u] /\ other'[u] = other[u]
  BY Zenon, <1>0, <1>e DEF Goto
<1>2. \A u \in Tids : /\ InGroup(u)' <=> InGroup(u)
                      /\ pc'[u] = "none" <=> pc[u] = "none"
                      /\ Ending(u)' <=> Ending(u)
                      /\ pc'[u] \in ClonePcs <=> pc[u] \in ClonePcs
  BY Zenon, <1>0, <1>1 DEF InGroup, GroupPcs, ClonePcs, BuildPcs, Ending
<1>3. /\ parent'[c] = q /\ children'[q] = children[q] \cup {c}
      /\ \A x \in Procs : x # c => parent'[x] = parent[x]
      /\ \A p \in Procs : p # q => children'[p] = children[p]
  BY Zenon, <1>0, <1>c, <1>e
<1>4. Listed(c)' /\ \A x \in Procs : x # c => (Listed(x)' <=> Listed(x))
  <2>1. Listed(c)' BY Zenon, <1>3 DEF Listed
  <2>2. ASSUME NEW x \in Procs, x # c PROVE Listed(x)' <=> Listed(x)
    <3>1. parent'[x] = parent[x] /\ reaped' = reaped BY Zenon, <2>2, <1>3, <1>e
    <3>2. x \in children'[parent[x]] <=> x \in children[parent[x]] BY Zenon, <2>2, <1>3, <1>0
    <3> QED BY Zenon, <3>1, <3>2 DEF Listed
  <2> QED BY Zenon, <2>1, <2>2
<1>u. \A x : Unused(x)' <=> Unused(x) BY Zenon, <1>e DEF Unused
<1>5. Members' BY Zenon, <1>2, <1>e, <1>i DEF Members
<1>6. Tree'
  <2>1. ASSUME NEW x \in Tids, NEW p \in Procs, x \in children'[p]
        PROVE  parent'[x] = p /\ reaped'[x] = 0
    <3>1. CASE x # c BY <2>1, <3>1, <1>3, <1>e, <1>i DEF Tree
    <3>2. CASE x = c
      <4>1. c \notin children[p] BY Zenon, <1>c, <1>0, <1>i DEF Tree, Listed
      <4>2. p = q BY Zenon, <4>1, <3>2, <2>1, <1>3
      <4>3. reaped[c] = 0 BY <1>0, <1>c DEF Listed
      <4> QED BY Zenon, <4>2, <4>3, <3>2, <1>3, <1>e
    <3> QED BY Zenon, <3>1, <3>2
  <2>2. ASSUME NEW u \in Tids, pc'[u] # "none" PROVE Listed(proc[u])'
    <3>1. Listed(proc[u]) /\ proc[u] # c /\ proc[u] \in Procs
      BY Zenon, <2>2, <1>2, <1>c, <1>i, <1>0 DEF Tree, Unused
    <3> QED BY Zenon, <3>1, <1>4, <1>e
  <2>3. \A x \in zombies' : x # InitProc /\ Listed(x)'
    BY <1>0, <1>4, <1>c, <1>i, <1>e DEF Tree, Unused
  <2>4. \A x \in Tids : reaped'[x] > 0 => x \in zombies' BY Zenon, <1>e, <1>i DEF Tree
  <2> QED BY Zenon, <2>1, <2>2, <2>3, <2>4 DEF Tree
<1>7. Fresh'
  <2>1. \A x \in Tids : x >= next' => pc'[x] = "none" /\ Unused(x)' /\ ~Listed(x)'
    BY <1>0, <1>2, <1>4, <1>u, <1>c, <1>e, <1>i DEF Fresh
  <2>2. \A u \in Tids : pc'[u] \in ClonePcs =>
          /\ kid'[u] \in Tids /\ kid'[u] < next' /\ pc'[kid'[u]] = "none"
          /\ \A w \in Tids \ {u} : pc'[w] \in ClonePcs => kid'[w] # kid'[u]
    BY Zenon, <1>2, <1>e, <1>i DEF Fresh
  <2>3. ASSUME NEW u \in Tids, u # t, pc'[u] \in BuildPcs \/ pc'[u] = "clone_thread"
        PROVE  kid[u] \in Procs /\ kid[u] # c
    <3>1. pc[u] \in ClonePcs BY Zenon, <2>3, <1>1 DEF ClonePcs
    <3> QED BY Zenon, <2>3, <3>1, <1>0, <1>k, <1>i DEF Fresh
  <2>4. \A u \in Tids : pc'[u] \in BuildPcs => Unused(kid[u])' /\ ~Listed(kid[u])'
    <3>1. pc'[t] \notin BuildPcs BY Zenon, <1>1 DEF BuildPcs
    <3> QED BY Zenon, <3>1, <2>3, <1>1, <1>4, <1>u, <1>i, <1>e DEF Fresh
  <2>5. \A u \in Tids : pc'[u] = "clone_thread" =>
          other'[u] = proc'[u] \/ (other'[u] = kid'[u] /\ Unused(kid[u])' /\ Listed(kid[u])')
    <3>1. other'[t] = kid'[t] /\ Unused(kid[t])' /\ Listed(kid[t])'
      BY Zenon, <1>1, <1>k, <1>e, <1>4, <1>u, <1>c
    <3> QED BY Zenon, <3>1, <2>3, <1>1, <1>4, <1>u, <1>e, <1>i DEF Fresh
  <2> QED BY Zenon, <2>1, <2>2, <2>4, <2>5 DEF Fresh
<1>8. Ends' BY Zenon, <1>2, <1>e, <1>i DEF Ends
<1>9. Orphans'
  <2> SUFFICES ASSUME "parent" \notin calls
               PROVE  /\ \A p \in zombies : children'[p] = {}
                      /\ \A u \in Tids : pc'[u] \in BuildPcs => other'[u] = proc[u]
    BY Zenon, <1>e DEF Orphans
  <2>1. q = proc[t] /\ \A p \in zombies : children[p] = {} BY Zenon, <1>0, <1>i, <1>k DEF Orphans
  <2>2. t \in threads[proc[t]] BY <1>0, <2>1, <1>i, Apart DEF Members
  <2>3. q \notin zombies BY Zenon, <2>1, <2>2, <1>i DEF Ends
  <2>4. \A p \in zombies : children'[p] = {} BY Zenon, <2>1, <2>3, <1>0, <1>3
  <2> QED BY Zenon, <2>4, <1>1, <1>i DEF Orphans, BuildPcs
<1> QED BY Zenon, <1>5, <1>6, <1>7, <1>8, <1>9 DEF Shape

\* The new thread joins a group: the caller's, or the empty one of a process that
\* no thread runs yet.
LEMMA ThreadKeeps == ASSUME Inv, NEW t \in Tids, CloneThread(t) PROVE Shape'
<1> USE Ids
<1>k. PICK c, q : c = kid[t] /\ q = other[t] BY Zenon
<1>i. TypeOK /\ Members /\ Tree /\ Fresh /\ Ends /\ Orphans BY Zenon DEF Inv, Shape
<1>e. /\ UNCHANGED << next, calls, parent, children, zombies, reaped >>
      /\ pc[t] = "clone_thread" /\ pc[t] \in ClonePcs
      /\ threads' = [threads EXCEPT ![q] = @ \cup {c}] /\ proc' = [proc EXCEPT ![c] = q]
      /\ pc' = [pc EXCEPT ![t] = "user", ![c] = "user"]
      /\ kid' = [kid EXCEPT ![t] = InitProc] /\ other' = [other EXCEPT ![t] = InitProc]
  BY Zenon, <1>k DEF CloneThread, tree, ClonePcs
<1>0. /\ pc \in [Tids -> Pcs] /\ other \in [Tids -> Procs] /\ q \in Procs
      /\ kid \in [Tids -> Procs] /\ threads \in [Procs -> SUBSET Tids]
      /\ zombies \in SUBSET Procs /\ proc \in [Tids -> Procs] /\ next \in Nat
  BY <1>i, <1>k DEF TypeOK
<1>c. /\ c \in Tids /\ c < next /\ pc[c] = "none" /\ c # t /\ InGroup(t) /\ ~InGroup(c)
      /\ t \in threads[proc[t]] /\ proc[t] # InitProc /\ proc[t] \in Procs
  <2>1. c \in Tids /\ c < next /\ pc[c] = "none" BY Zenon, <1>e, <1>i, <1>k DEF Fresh
  <2>2. InGroup(t) /\ pc[t] # "none" /\ ~InGroup(c) BY Zenon, <2>1, <1>e, Apart
  <2>3. proc[t] \in Procs /\ proc[t] # InitProc BY Zenon, <2>2, <1>0, <1>i DEF Members
  <2>4. t \in threads[proc[t]] BY <2>2, <2>3, <1>i DEF Members
  <2> QED BY Zenon, <2>1, <2>2, <2>3, <2>4
<1>q. \/ q = proc[t]
      \/ q = c /\ Unused(c) /\ Listed(c)
  BY Zenon, <1>e, <1>i, <1>k DEF Fresh
<1>1. /\ pc'[t] = "user" /\ pc'[c] = "user" /\ proc'[c] = q
      /\ \A u \in Tids : u \notin {t, c} => pc'[u] = pc[u]
      /\ \A u \in Tids : u # t => kid'[u] = kid[u] /\ other'[u] = other[u]
      /\ \A u \in Tids : u # c => proc'[u] = proc[u]
      /\ threads'[q] = threads[q] \cup {c}
      /\ \A p \in Procs : p # q => threads'[p] = threads[p]
  BY Zenon, <1>0, <1>c, <1>e
<1>2. /\ InGroup(t)' /\ InGroup(c)'
      /\ \A u \in Tids : u # c => (InGroup(u)' <=> InGroup(u))
      /\ \A u \in Tids : pc'[u] = "none" => u # c /\ pc[u] = "none"
      /\ \A u \in Tids : u # c /\ pc[u] = "none" => pc'[u] = "none"
      /\ \A u \in Tids : Ending(u)' => u # c /\ Ending(u)
      /\ \A u \in Tids : pc'[u] \in ClonePcs => u \notin {t, c}
  <2>1. InGroup(t)' /\ InGroup(c)' BY Zenon, <1>1 DEF InGroup, GroupPcs
  <2>2. \A u \in Tids : u # c => (InGroup(u)' <=> InGroup(u)) BY Zenon, <2>1, <1>1, <1>c DEF InGroup
  <2>3. pc[t] # "none" BY Zenon, <1>e
  <2> QED BY Zenon, <2>1, <2>2, <2>3, <1>1 DEF Ending, ClonePcs, BuildPcs
<1>3. ASSUME NEW x, Unused(x), x # c PROVE Unused(x)'
  <2>1. q # x BY Zenon, <1>3, <1>q DEF Unused
  <2> QED BY Zenon, <2>1, <1>3, <1>1, <1>e DEF Unused
<1>4. \A x : Listed(x)' <=> Listed(x) BY Zenon, <1>e DEF Listed
<1>5. Members'
  <2>1. ASSUME NEW p \in Procs PROVE threads'[p] = {u \in Tids : proc'[u] = p /\ InGroup(u)'}
    <3>1. threads[p] = {u \in Tids : proc[u] = p /\ InGroup(u)} BY Zenon, <1>i DEF Members
    <3>2. threads'[p] = threads[p] \cup (IF p = q THEN {c} ELSE {}) BY Zenon, <1>1
    <3>3. ASSUME NEW u \in Tids PROVE u \in threads'[p] <=> proc'[u] = p /\ InGroup(u)'
      <4>1. CASE u = c BY Zenon, <4>1, <3>1, <3>2, <1>1, <1>2, <1>c
      <4>2. CASE u # c
        <5>1. proc'[u] = proc[u] /\ (InGroup(u)' <=> InGroup(u)) BY Zenon, <4>2, <1>1, <1>2
        <5> QED BY Zenon, <5>1, <4>2, <3>1, <3>2
      <4> QED BY Zenon, <4>1, <4>2
    <3>4. threads'[p] \subseteq Tids BY Zenon, <3>1, <3>2, <1>c
    <3> QED BY Zenon, <3>3, <3>4
  <2>2. q # InitProc BY Zenon, <1>q, <1>c
  <2>3. \A u \in Tids : pc'[u] = "none" <=> proc'[u] = InitProc
    BY Zenon, <2>2, <1>1, <1>2, <1>i DEF Members
  <2> QED BY Zenon, <2>1, <2>3 DEF Members
<1>6. Tree'
  <2>1. pc[t] # "none" BY Zenon, <1>e
  <2>2. Listed(q)' BY <2>1, <1>q, <1>i, <1>4 DEF Tree
  <2>3. ASSUME NEW u \in Tids, pc'[u] # "none" PROVE Listed(proc[u])'
    <3>1. CASE u = c BY Zenon, <2>2, <3>1, <1>1, <1>c DEF Listed
    <3>2. CASE u # c
      <4>1. pc[u] # "none" /\ proc'[u] = proc[u] BY Zenon, <3>2, <2>3, <1>1, <1>2
      <4>2. Listed(proc[u]) BY Zenon, <4>1, <1>i DEF Tree
      <4> QED BY Zenon, <4>1, <4>2, <1>e DEF Listed
    <3> QED BY Zenon, <3>1, <3>2
  <2>4. /\ \A x \in Tids, p \in Procs : x \in children'[p] => parent'[x] = p /\ reaped'[x] = 0
        /\ \A x \in zombies' : x # InitProc /\ Listed(x)'
        /\ \A x \in Tids : reaped'[x] > 0 => x \in zombies'
    BY Zenon, <1>4, <1>e, <1>i DEF Tree
  <2> QED BY Zenon, <2>3, <2>4 DEF Tree
<1>7. Fresh'
  <2>1. \A x \in Tids : x >= next' => pc'[x] = "none" /\ Unused(x)' /\ ~Listed(x)'
    <3>1. \A x \in Tids : x >= next => x # c BY <1>0, <1>c
    <3> QED BY Zenon, <3>1, <1>2, <1>3, <1>4, <1>e, <1>i DEF Fresh
  <2>2. ASSUME NEW u \in Tids, pc'[u] \in ClonePcs
        PROVE  /\ u \notin {t, c} /\ pc[u] \in ClonePcs /\ pc'[u] = pc[u] /\ pc[u] # "none"
               /\ kid'[u] = kid[u] /\ other'[u] = other[u] /\ proc'[u] = proc[u]
               /\ kid[u] \in Tids /\ kid[u] < next /\ pc[kid[u]] = "none" /\ kid[u] \notin {t, c}
    <3>1. u \notin {t, c} BY Zenon, <2>2, <1>2
    <3>2. pc'[u] = pc[u] /\ kid'[u] = kid[u] /\ other'[u] = other[u] /\ proc'[u] = proc[u]
      BY Zenon, <3>1, <1>1
    <3>3. pc[u] \in ClonePcs /\ pc[u] # "none" BY Zenon, <3>2, <2>2 DEF ClonePcs, BuildPcs
    <3>4. kid[u] \in Tids /\ kid[u] < next /\ pc[kid[u]] = "none" /\ kid[u] # c
      BY Zenon, <3>1, <3>3, <1>e, <1>i, <1>k DEF Fresh
    <3> QED BY Zenon, <3>1, <3>2, <3>3, <3>4, <1>e
  <2>3. \A u \in Tids : pc'[u] \in ClonePcs =>
          /\ kid'[u] \in Tids /\ kid'[u] < next' /\ pc'[kid'[u]] = "none"
          /\ \A w \in Tids \ {u} : pc'[w] \in ClonePcs => kid'[w] # kid'[u]
    <3>1. ASSUME NEW u \in Tids, pc'[u] \in ClonePcs
          PROVE  kid'[u] \in Tids /\ kid'[u] < next' /\ pc'[kid'[u]] = "none"
      <4>1. kid'[u] = kid[u] /\ kid[u] \in Tids /\ kid[u] < next /\ pc[kid[u]] = "none" /\ kid[u] # c
        BY Zenon, <2>2, <3>1
      <4>2. pc'[kid[u]] = "none" BY Zenon, <4>1, <1>2
      <4> QED BY Zenon, <4>1, <4>2, <1>e
    <3>2. ASSUME NEW u \in Tids, NEW w \in Tids \ {u}, pc'[u] \in ClonePcs, pc'[w] \in ClonePcs
          PROVE  kid'[w] # kid'[u]
      BY <2>2, <3>2, <1>i DEF Fresh
    <3> QED BY Zenon, <3>1, <3>2
  <2>4. ASSUME NEW u \in Tids, pc'[u] \in ClonePcs, Unused(kid[u]) PROVE Unused(kid[u])'
    <3>1. kid'[u] = kid[u] /\ kid[u] # c BY Zenon, <2>2, <2>4
    <3>2. PICK x : x = kid[u] BY Zenon
    <3>3. Unused(x)' BY Zenon, <3>1, <3>2, <2>4, <1>3
    <3> QED BY Zenon, <3>1, <3>2, <3>3 DEF Unused
  <2>5. ASSUME NEW u \in Tids, pc'[u] \in ClonePcs PROVE Listed(kid[u])' <=> Listed(kid[u])
    BY Zenon, <2>2, <2>5, <1>e DEF Listed
  <2>6. \A u \in Tids : pc'[u] \in BuildPcs => Unused(kid[u])' /\ ~Listed(kid[u])'
    BY Zenon, <2>2, <2>4, <2>5, <1>i DEF Fresh, ClonePcs
  <2>7. \A u \in Tids : pc'[u] = "clone_thread" =>
          other'[u] = proc'[u] \/ (other'[u] = kid'[u] /\ Unused(kid[u])' /\ Listed(kid[u])')
    BY <2>2, <2>4, <2>5, <1>i DEF Fresh, ClonePcs
  <2> QED BY Zenon, <2>1, <2>3, <2>6, <2>7 DEF Fresh
<1>8. Ends'
  <2>1. q \notin zombies BY Zenon, <1>q, <1>c, <1>i DEF Ends, Unused
  <2>2. ASSUME NEW u \in Tids, Ending(u)'
        PROVE  u # c /\ Ending(u) /\ proc'[u] = proc[u] /\ proc[u] # q
    <3>1. u # c /\ Ending(u) BY Zenon, <2>2, <1>2
    <3>2. proc[u] # q BY Zenon, <3>1, <1>q, <1>c, <1>i DEF Ends, Unused
    <3> QED BY Zenon, <3>1, <3>2, <1>1
  <2>3. ASSUME NEW u \in Tids, Ending(u)' PROVE threads'[proc'[u]] = {}
    <3>1. threads[proc[u]] = {} BY Zenon, <2>2, <2>3, <1>i DEF Ends
    <3>2. proc[u] \in Procs /\ proc'[u] = proc[u] /\ proc[u] # q BY Zenon, <2>2, <2>3, <1>0
    <3>3. threads'[proc[u]] = threads[proc[u]] BY Zenon, <3>2, <1>1
    <3> QED BY Zenon, <3>1, <3>2, <3>3
  <2>4. \A p \in zombies' : threads'[p] = {} BY <2>1, <1>0, <1>1, <1>e, <1>i DEF Ends
  <2> QED BY Zenon, <2>2, <2>3, <2>4, <1>i DEF Ends
<1>9. Orphans'
  <2>1. \A u \in Tids : pc'[u] \in BuildPcs =>
          pc[u] = pc'[u] /\ other'[u] = other[u] /\ proc'[u] = proc[u]
    BY Zenon, <1>1, <1>2 DEF ClonePcs
  <2> QED BY Zenon, <2>1, <1>e, <1>i DEF Orphans
<1> QED BY Zenon, <1>5, <1>6, <1>7, <1>8, <1>9 DEF Shape
-----------------------------------------------------------------------------
(* do_exit *)

\* A thread leaves its group, and takes the end of the process on itself when it
\* leaves the group empty.
LEMMA ExitThreadKeeps == ASSUME Inv, NEW t \in Tids, ExitThread(t) PROVE Shape'
<1> USE Ids
<1>k. PICK p : p = proc[t] BY Zenon
<1>i. TypeOK /\ Members /\ Tree /\ Fresh /\ Ends /\ Orphans BY Zenon DEF Inv, Shape
<1>e. /\ UNCHANGED << next, calls, proc, kid, other, parent, children, zombies, reaped >>
      /\ pc[t] = "exit_thread" /\ threads' = [threads EXCEPT ![p] = @ \ {t}]
      /\ Goto(t, IF threads[p] = {t} THEN "exit_process" ELSE "exit_group")
  BY Zenon, <1>k DEF ExitThread, Thread_exit, tree
<1>0. /\ pc \in [Tids -> Pcs] /\ threads \in [Procs -> SUBSET Tids] /\ p \in Procs
      /\ proc \in [Tids -> Procs] /\ zombies \in SUBSET Procs
  BY Zenon, <1>i, <1>k DEF TypeOK
<1>1. /\ pc'[t] = IF threads[p] = {t} THEN "exit_process" ELSE "exit_group"
      /\ \A u \in Tids : u # t => pc'[u] = pc[u]
      /\ threads'[p] = threads[p] \ {t} /\ \A r \in Procs : r # p => threads'[r] = threads[r]
  BY Zenon, <1>0, <1>e DEF Goto
<1>2. /\ InGroup(t) /\ ~InGroup(t)' /\ ~Ending(t) /\ (Ending(t)' => threads[p] = {t})
      /\ pc'[t] # "none" /\ pc[t] # "none" /\ pc'[t] \notin ClonePcs
      /\ \A u \in Tids : u # t => (InGroup(u)' <=> InGroup(u)) /\ (Ending(u)' <=> Ending(u))
  <2>1. \A u \in Tids : u # t => (InGroup(u)' <=> InGroup(u)) /\ (Ending(u)' <=> Ending(u))
    BY Zenon, <1>1 DEF InGroup, Ending
  <2>2. InGroup(t) /\ ~Ending(t) /\ pc[t] # "none" BY Zenon, <1>e DEF InGroup, GroupPcs, ClonePcs, BuildPcs, WaitPcs, Ending
  <2>3. pc'[t] \in {"exit_process", "exit_group"} BY Zenon, <1>1
  <2>4. ~InGroup(t)' BY Zenon, <2>3 DEF InGroup, GroupPcs, ClonePcs, BuildPcs, WaitPcs
  <2>5. pc'[t] # "none" /\ pc'[t] \notin ClonePcs BY Zenon, <2>3 DEF ClonePcs, BuildPcs
  <2>6. Ending(t)' => pc'[t] = "exit_process" BY Zenon, <2>3 DEF Ending
  <2>7. pc'[t] = "exit_process" => threads[p] = {t} BY Zenon, <1>1
  <2> QED BY Zenon, <2>1, <2>2, <2>4, <2>5, <2>6, <2>7
<1>3. t \in threads[p] BY <1>2, <1>0, <1>i, <1>k DEF Members
<1>4. \A x : (Listed(x)' <=> Listed(x)) /\ (Unused(x)' <=> Unused(x)) BY Zenon, <1>e DEF Listed, Unused
<1>5. Members'
  <2>1. ASSUME NEW r \in Procs PROVE threads'[r] = {u \in Tids : proc'[u] = r /\ InGroup(u)'}
    <3>1. threads[r] = {u \in Tids : proc[u] = r /\ InGroup(u)} BY Zenon, <1>i DEF Members
    <3>2. threads'[r] = threads[r] \ {t} BY <3>1, <1>1, <1>k
    <3>3. ASSUME NEW u \in Tids PROVE u \in threads'[r] <=> proc'[u] = r /\ InGroup(u)'
      BY Zenon, <3>1, <3>2, <1>2, <1>e
    <3> QED BY Zenon, <3>1, <3>2, <3>3
  <2>2. \A u \in Tids : pc'[u] = "none" <=> proc'[u] = InitProc
    BY <1>1, <1>2, <1>e, <1>i DEF Members
  <2> QED BY Zenon, <2>1, <2>2 DEF Members
<1>6. Tree'
  <2>1. ASSUME NEW u \in Tids, pc'[u] # "none" PROVE Listed(proc[u])'
    <3>1. Listed(proc[u]) BY Zenon, <2>1, <1>1, <1>2, <1>i DEF Tree
    <3> QED BY Zenon, <3>1, <1>e DEF Listed
  <2> QED BY Zenon, <2>1, <1>4, <1>e, <1>i DEF Tree
<1>7. Fresh'
  <2>1. \A x \in Tids : x >= next' => pc'[x] = "none" /\ Unused(x)' /\ ~Listed(x)'
    BY <1>1, <1>2, <1>4, <1>e, <1>i DEF Fresh
  <2>2. \A u \in Tids : pc'[u] \in ClonePcs => pc'[u] = pc[u] BY Zenon, <1>1, <1>2
  <2>3. \A u \in Tids : pc'[u] \in ClonePcs =>
          /\ kid'[u] \in Tids /\ kid'[u] < next' /\ pc'[kid'[u]] = "none"
          /\ \A w \in Tids \ {u} : pc'[w] \in ClonePcs => kid'[w] # kid'[u]
    <3>1. \A u \in Tids : pc[u] = "none" => pc'[u] = "none" BY Zenon, <1>1, <1>2
    <3>2. \A u \in Tids : pc[u] \in ClonePcs =>
            /\ kid[u] \in Tids /\ kid[u] < next /\ pc[kid[u]] = "none"
            /\ \A w \in Tids \ {u} : pc[w] \in ClonePcs => kid[w] # kid[u]
      BY Zenon, <1>i DEF Fresh
    <3> QED BY Zenon, <2>2, <3>1, <3>2, <1>e
  <2>4. \A u \in Tids : (Unused(kid[u])' <=> Unused(kid[u])) /\ (Listed(kid[u])' <=> Listed(kid[u]))
    BY Zenon, <1>e DEF Unused, Listed
  <2>5. \A u \in Tids : pc'[u] \in BuildPcs => Unused(kid[u])' /\ ~Listed(kid[u])'
    BY Zenon, <2>2, <2>4, <1>i DEF Fresh, ClonePcs
  <2>6. \A u \in Tids : pc'[u] = "clone_thread" =>
          other'[u] = proc'[u] \/ (other'[u] = kid'[u] /\ Unused(kid[u])' /\ Listed(kid[u])')
    BY Zenon, <2>2, <2>4, <1>e, <1>i DEF Fresh, ClonePcs
  <2> QED BY Zenon, <2>1, <2>3, <2>5, <2>6 DEF Fresh
<1>8. Ends'
  <2>1. \A r \in Procs : threads'[r] \subseteq threads[r] BY Zenon, <1>1
  <2>2. \A r \in zombies' : threads'[r] = {} BY <2>1, <1>0, <1>e, <1>i DEF Ends
  <2>3. \A u \in Tids : u # t /\ Ending(u)' => Ending(u) /\ proc[u] # p BY Zenon, <1>2, <1>3, <1>i DEF Ends
  <2>4. ASSUME NEW u \in Tids, Ending(u)' PROVE threads'[proc'[u]] = {}
    <3>1. CASE u = t BY Zenon, <2>4, <3>1, <1>1, <1>2, <1>e, <1>k
    <3>2. CASE u # t BY <2>1, <2>3, <2>4, <3>2, <1>0, <1>e, <1>i DEF Ends
    <3> QED BY Zenon, <3>1, <3>2
  <2>5. ASSUME NEW u \in Tids, NEW w \in Tids, Ending(u)', Ending(w)', proc'[u] = proc'[w]
        PROVE  u = w
    BY Zenon, <2>3, <2>5, <1>e, <1>k, <1>i DEF Ends
  <2> QED BY Zenon, <2>2, <2>4, <2>5 DEF Ends
<1>9. Orphans'
  <2>1. \A u \in Tids : pc'[u] \in BuildPcs => pc[u] = pc'[u] BY Zenon, <1>1, <1>2 DEF ClonePcs
  <2> QED BY Zenon, <2>1, <1>e, <1>i DEF Orphans
<1> QED BY Zenon, <1>5, <1>6, <1>7, <1>8, <1>9 DEF Shape

\* A step that changes the tree but neither the groups nor what is listed.
LEMMA Rearranged ==
    ASSUME Inv, NEW t \in Tids, Goto(t, pc'[t]), pc'[t] \notin ClonePcs, pc'[t] # "none",
           pc[t] # "none", InGroup(t)' <=> InGroup(t), Ending(t)' => Ending(t),
           UNCHANGED << next, calls, proc, threads, kid, other >>,
           \A x \in Procs : Listed(x)' <=> Listed(x),
           zombies' \in SUBSET Procs, zombies \subseteq zombies',
           \A z \in zombies' \ zombies :
              z # InitProc /\ Listed(z) /\ threads[z] = {} /\ \E u \in Tids : proc[u] = z
    PROVE  /\ Members' /\ Fresh' /\ Ends'
           /\ \A u \in Tids : pc'[u] # "none" => Listed(proc[u])'
           /\ \A x \in zombies' : x # InitProc /\ Listed(x)'
           /\ \A u \in Tids : pc'[u] \in BuildPcs => pc'[u] = pc[u]
<1> USE Ids
<1>i. TypeOK /\ Members /\ Tree /\ Fresh /\ Ends BY Zenon DEF Inv, Shape
<1>0. /\ pc \in [Tids -> Pcs] /\ threads \in [Procs -> SUBSET Tids] /\ kid \in [Tids -> Procs]
      /\ proc \in [Tids -> Procs] /\ zombies \in SUBSET Procs
  BY Zenon, <1>i DEF TypeOK
<1>1. /\ \A u \in Tids : u # t => pc'[u] = pc[u]
      /\ \A u \in Tids : pc'[u] = "none" <=> pc[u] = "none"
      /\ \A u \in Tids : pc'[u] \in ClonePcs => pc'[u] = pc[u]
  BY Zenon, <1>0 DEF Goto
<1>2. \A u \in Tids : (InGroup(u)' <=> InGroup(u)) /\ (Ending(u)' => Ending(u))
  BY Zenon, <1>1 DEF InGroup, Ending
<1>3. ASSUME NEW x, Unused(x) PROVE Unused(x)' BY Zenon, <1>3 DEF Unused
<1>l. \A u \in Tids : /\ Listed(kid[u])' <=> Listed(kid[u])
                      /\ Listed(proc[u])' <=> Listed(proc[u])
                      /\ Unused(kid[u]) => Unused(kid[u])'
  <2> SUFFICES ASSUME NEW u \in Tids
               PROVE  /\ Listed(kid[u])' <=> Listed(kid[u])
                      /\ Listed(proc[u])' <=> Listed(proc[u])
                      /\ Unused(kid[u]) => Unused(kid[u])'
    BY Zenon
  <2>1. PICK x \in Procs, y \in Procs : x = kid[u] /\ y = proc[u] BY Zenon, <1>0
  <2>2. x = kid'[u] /\ y = proc'[u] BY Zenon, <2>1
  <2>3. Listed(kid[u])' <=> Listed(kid[u]) BY Zenon, <2>1, <2>2 DEF Listed
  <2>4. Listed(proc[u])' <=> Listed(proc[u]) BY Zenon, <2>1, <2>2 DEF Listed
  <2>5. Unused(kid[u]) => Unused(kid[u])' BY Zenon, <2>1, <2>2, <1>3 DEF Unused
  <2> QED BY Zenon, <2>3, <2>4, <2>5
<1>4. Members' BY Zenon, <1>1, <1>2, <1>i DEF Members
<1>5. \A u \in Tids : pc'[u] # "none" => Listed(proc[u])' BY Zenon, <1>1, <1>l, <1>i DEF Tree
<1>6. \A x \in zombies' : x # InitProc /\ Listed(x)' BY Zenon, <1>0, <1>i DEF Tree
<1>7. Fresh'
  <2>1. \A x \in Tids : x >= next' => pc'[x] = "none" /\ Unused(x)' /\ ~Listed(x)'
    BY Zenon, <1>1, <1>3, <1>i DEF Fresh
  <2>2. \A u \in Tids : pc'[u] \in ClonePcs =>
          /\ kid'[u] \in Tids /\ kid'[u] < next' /\ pc'[kid'[u]] = "none"
          /\ \A w \in Tids \ {u} : pc'[w] \in ClonePcs => kid'[w] # kid'[u]
    BY Zenon, <1>1, <1>i DEF Fresh
  <2>3. \A u \in Tids : pc'[u] \in BuildPcs => Unused(kid[u])' /\ ~Listed(kid[u])'
    BY Zenon, <1>1, <1>l, <1>i DEF Fresh, ClonePcs
  <2>4. \A u \in Tids : pc'[u] = "clone_thread" =>
          other'[u] = proc'[u] \/ (other'[u] = kid'[u] /\ Unused(kid[u])' /\ Listed(kid[u])')
    BY Zenon, <1>1, <1>l, <1>i DEF Fresh, ClonePcs
  <2> QED BY Zenon, <2>1, <2>2, <2>3, <2>4 DEF Fresh
<1>8. Ends' BY Zenon, <1>2, <1>i DEF Ends
<1> QED BY Zenon, <1>1, <1>4, <1>5, <1>6, <1>7, <1>8 DEF ClonePcs

\* Process::exit() hands the children over: all that was listed stays listed.
LEMMA HandedOver ==
    ASSUME TypeOK, Tree, NEW p \in Tids, Process_exit(p), reaped' = reaped
    PROVE  /\ \A x \in Procs : Listed(x)' <=> Listed(x)
           /\ \A c \in Tids, r \in Procs : c \in children'[r] => parent'[c] = r /\ reaped'[c] = 0
           /\ children'[p] = {} /\ \A r \in Tids : children'[r] \subseteq children[r]
<1> USE Ids
<1>0. parent \in [Procs -> Procs] /\ children \in [Procs -> SUBSET Tids] /\ reaped \in [Procs -> Nat]
  BY Zenon DEF TypeOK
<1>1. /\ children'[p] = {} /\ children'[InitProc] = children[InitProc] \cup children[p]
      /\ \A r \in Procs : r \notin {p, InitProc} => children'[r] = children[r]
      /\ \A x \in Procs : parent'[x] = IF x \in children[p] THEN InitProc ELSE parent[x]
  BY Zenon, <1>0 DEF Process_exit
<1>2. \A c \in Procs, r \in Procs : c \in children[r] => parent[c] = r /\ reaped[c] = 0
  BY <1>0 DEF Tree
<1>3. ASSUME NEW x \in Procs PROVE Listed(x)' <=> Listed(x)
  <2>1. x \in children'[parent'[x]] <=> x \in children[parent[x]]
    <3>1. CASE x \in children[p]
      <4>1. parent'[x] = InitProc /\ parent[x] = p BY Zenon, <3>1, <1>1, <1>2
      <4> QED BY Zenon, <4>1, <3>1, <1>1
    <3>2. CASE x \notin children[p]
      <4>1. parent'[x] = parent[x] /\ parent[x] \in Procs BY Zenon, <3>2, <1>0, <1>1
      <4> QED BY Zenon, <4>1, <3>2, <1>1
    <3> QED BY Zenon, <3>1, <3>2
  <2> QED BY Zenon, <2>1 DEF Listed
<1>4. ASSUME NEW c \in Tids, NEW r \in Procs, c \in children'[r] PROVE parent'[c] = r /\ reaped'[c] = 0
  <2>1. CASE c \in children[p]
    <3>1. parent'[c] = InitProc /\ reaped[c] = 0 /\ parent[c] = p BY Zenon, <2>1, <1>1, <1>2
    <3>2. r = InitProc BY Zenon, <3>1, <1>1, <1>2, <1>4
    <3> QED BY Zenon, <3>1, <3>2
  <2>2. CASE c \notin children[p]
    <3>1. c \in children[r] /\ parent'[c] = parent[c] BY Zenon, <2>2, <1>1, <1>4
    <3> QED BY Zenon, <3>1, <1>2
  <2> QED BY Zenon, <2>1, <2>2
<1> QED BY Zenon, <1>1, <1>3, <1>4

LEMMA ExitProcessKeeps ==
    ASSUME Inv, NEW t \in Tids, ExitProcess(t) \/ ExitAgain(t) PROVE Shape'
<1> USE Ids
<1>k. PICK p : p = proc[t] BY Zenon
<1>i. TypeOK /\ Members /\ Tree /\ Fresh /\ Ends /\ Orphans BY Zenon DEF Inv, Shape
<1>e. /\ UNCHANGED << next, calls, proc, threads, kid, other, reaped >>
      /\ Process_exit(p)
      /\ \/ pc[t] = "exit_process" /\ Goto(t, "exit_parent")
         \/ pc[t] = "exit_again" /\ Goto(t, "exit_group")
  BY Zenon, <1>k DEF ExitProcess, ExitAgain, group
<1>0. pc \in [Tids -> Pcs] /\ zombies \in SUBSET Procs /\ proc \in [Tids -> Procs]
  BY Zenon, <1>i DEF TypeOK
<1>1. /\ pc'[t] \in {"exit_parent", "exit_group"} /\ Goto(t, pc'[t])
      /\ pc[t] \in {"exit_process", "exit_again"}
  BY Zenon, <1>0, <1>e DEF Goto
<1>2. /\ pc'[t] \notin ClonePcs /\ pc'[t] # "none" /\ pc[t] # "none"
      /\ (InGroup(t)' <=> InGroup(t)) /\ Ending(t)
  <2>1. ~InGroup(t)' BY Zenon, <1>1 DEF InGroup, GroupPcs, ClonePcs, BuildPcs, WaitPcs
  <2>2. ~InGroup(t) /\ Ending(t) BY Zenon, <1>1 DEF InGroup, GroupPcs, ClonePcs, BuildPcs, WaitPcs, Ending
  <2> QED BY Zenon, <2>1, <2>2, <1>1 DEF ClonePcs, BuildPcs
<1>3. p \in Tids /\ Listed(p) /\ threads[p] = {} /\ p # InitProc
  <2>1. p \in Procs /\ p # InitProc BY Zenon, <1>0, <1>2, <1>i, <1>k DEF Members
  <2> QED BY Zenon, <2>1, <1>2, <1>i, <1>k DEF Tree, Ends
<1>4. zombies' = zombies \cup {p} BY Zenon, <1>e DEF Process_exit
<1>5. /\ \A x \in Procs : Listed(x)' <=> Listed(x)
      /\ \A c \in Tids, r \in Procs : c \in children'[r] => parent'[c] = r /\ reaped'[c] = 0
      /\ children'[p] = {} /\ \A r \in Tids : children'[r] \subseteq children[r]
  BY Zenon, <1>3, <1>e, <1>i, HandedOver
<1>6. /\ zombies' \in SUBSET Procs /\ zombies \subseteq zombies'
      /\ \A z \in zombies' \ zombies :
            z # InitProc /\ Listed(z) /\ threads[z] = {} /\ \E u \in Tids : proc[u] = z
  BY Zenon, <1>0, <1>3, <1>4, <1>k
<1>7. /\ Members' /\ Fresh' /\ Ends'
      /\ \A u \in Tids : pc'[u] # "none" => Listed(proc[u])'
      /\ \A x \in zombies' : x # InitProc /\ Listed(x)'
      /\ \A u \in Tids : pc'[u] \in BuildPcs => pc'[u] = pc[u]
  BY Zenon, <1>1, <1>2, <1>4, <1>5, <1>6, <1>e, Rearranged
<1>8. Tree' BY Zenon, <1>4, <1>5, <1>7, <1>e, <1>i DEF Tree
<1>9. Orphans'
  <2> SUFFICES ASSUME "parent" \notin calls
               PROVE  /\ \A r \in zombies' : children'[r] = {}
                      /\ \A u \in Tids : pc'[u] \in BuildPcs => other'[u] = proc'[u]
    BY Zenon, <1>e DEF Orphans
  <2>1. \A r \in zombies : r \in Tids /\ children[r] = {} BY Zenon, <1>0, <1>i DEF Orphans, Tree
  <2>2. \A r \in zombies' : children'[r] = {} BY Zenon, <2>1, <1>4, <1>5
  <2> QED BY Zenon, <2>2, <1>7, <1>e, <1>i DEF Orphans
<1> QED BY Zenon, <1>7, <1>8, <1>9 DEF Shape
-----------------------------------------------------------------------------
(* sys_waitpid *)

\* Process::free(): what leaves its parent is reaped, so it still counts as listed.
LEMMA Freed ==
    ASSUME Inv, NEW t \in Tids, NEW c \in Tids, WaitReport(t, c)
    PROVE  /\ \A x \in Procs : Listed(x)' <=> Listed(x)
           /\ \A x \in Tids, r \in Procs : x \in children'[r] => parent'[x] = r /\ reaped'[x] = 0
           /\ \A x \in Tids : reaped'[x] > 0 => x \in zombies
           /\ \A r \in Procs : children'[r] \subseteq children[r]
<1> USE Ids
<1>i. TypeOK /\ Tree BY Zenon DEF Inv, Shape
<1>e. /\ UNCHANGED << parent, zombies >> /\ c \in zombies
      /\ \/ UNCHANGED << children, reaped >>
         \/ children' = [children EXCEPT ![parent[c]] = @ \ {c}] /\ reaped' = [reaped EXCEPT ![c] = @ + 1]
  BY Zenon DEF WaitReport, Process_free
<1>0. /\ zombies \in SUBSET Procs /\ reaped \in [Procs -> Nat]
      /\ parent \in [Procs -> Procs] /\ children \in [Procs -> SUBSET Tids]
  BY Zenon, <1>i DEF TypeOK
<1>3. Listed(c) BY Zenon, <1>e, <1>i DEF Tree
<1>5. CASE UNCHANGED << children, reaped >> BY Zenon, <1>5, <1>e, <1>i DEF Tree, Listed
<1>6. CASE /\ children' = [children EXCEPT ![parent[c]] = @ \ {c}]
           /\ reaped' = [reaped EXCEPT ![c] = @ + 1]
  <2>1. /\ children'[parent[c]] = children[parent[c]] \ {c} /\ reaped'[c] > 0
        /\ \A r \in Procs : r # parent[c] => children'[r] = children[r]
        /\ \A x \in Procs : x # c => reaped'[x] = reaped[x]
    BY <1>6, <1>0
  <2>2. ASSUME NEW r \in Procs PROVE c \notin children'[r]
    <3>1. c \in children[r] => parent[c] = r BY Zenon, <1>i DEF Tree
    <3> QED BY Zenon, <3>1, <2>1
  <2>3. ASSUME NEW x \in Procs PROVE Listed(x)' <=> Listed(x)
    <3>1. CASE x = c BY Zenon, <3>1, <2>1, <1>3 DEF Listed
    <3>2. CASE x # c
      <4>1. reaped'[x] = reaped[x] /\ parent'[x] = parent[x] /\ parent[x] \in Procs
        BY Zenon, <3>2, <2>1, <1>0, <1>e
      <4>2. x \in children'[parent[x]] <=> x \in children[parent[x]] BY Zenon, <3>2, <4>1, <2>1
      <4> QED BY Zenon, <4>1, <4>2 DEF Listed
    <3> QED BY Zenon, <3>1, <3>2
  <2>4. \A r \in Procs : children'[r] \subseteq children[r] BY Zenon, <2>1
  <2>5. ASSUME NEW x \in Tids, NEW r \in Procs, x \in children'[r] PROVE parent'[x] = r /\ reaped'[x] = 0
    <3>1. x # c /\ x \in children[r] BY Zenon, <2>5, <2>2, <2>4
    <3> QED BY Zenon, <3>1, <2>1, <1>e, <1>i DEF Tree
  <2>6. \A x \in Tids : reaped'[x] > 0 => x \in zombies BY Zenon, <2>1, <1>e, <1>i DEF Tree
  <2> QED BY Zenon, <2>3, <2>4, <2>5, <2>6
<1> QED BY Zenon, <1>5, <1>6, <1>e

LEMMA ReportKeeps == ASSUME Inv, NEW t \in Tids, NEW c \in Tids, WaitReport(t, c) PROVE Shape'
<1> USE Ids
<1>i. TypeOK /\ Members /\ Tree /\ Fresh /\ Ends /\ Orphans BY Zenon DEF Inv, Shape
<1>e. /\ UNCHANGED << next, calls, proc, threads, kid, other, parent, zombies >>
      /\ pc[t] = "wait_check" /\ Goto(t, "user")
  BY Zenon DEF WaitReport, group
<1>0. pc \in [Tids -> Pcs] /\ zombies \in SUBSET Procs BY Zenon, <1>i DEF TypeOK
<1>1. pc'[t] = "user" /\ Goto(t, pc'[t]) BY Zenon, <1>0, <1>e DEF Goto
<1>2. /\ pc'[t] \notin ClonePcs /\ pc'[t] # "none" /\ pc[t] # "none"
      /\ (InGroup(t)' <=> InGroup(t)) /\ ~Ending(t)'
  <2>1. InGroup(t)' /\ ~Ending(t)' BY Zenon, <1>1 DEF InGroup, GroupPcs, ClonePcs, BuildPcs, WaitPcs, Ending
  <2>2. InGroup(t) BY Zenon, <1>e DEF InGroup, GroupPcs, ClonePcs, BuildPcs, WaitPcs
  <2> QED BY Zenon, <2>1, <2>2, <1>1, <1>e DEF ClonePcs, BuildPcs
<1>4. /\ \A x \in Procs : Listed(x)' <=> Listed(x)
      /\ \A x \in Tids, r \in Procs : x \in children'[r] => parent'[x] = r /\ reaped'[x] = 0
      /\ \A x \in Tids : reaped'[x] > 0 => x \in zombies
      /\ \A r \in Procs : children'[r] \subseteq children[r]
  BY Zenon, Freed
<1>5. zombies' \in SUBSET Procs /\ zombies \subseteq zombies' /\ zombies' \ zombies = {}
  BY Zenon, <1>0, <1>e
<1>7. /\ Members' /\ Fresh' /\ Ends'
      /\ \A u \in Tids : pc'[u] # "none" => Listed(proc[u])'
      /\ \A x \in zombies' : x # InitProc /\ Listed(x)'
      /\ \A u \in Tids : pc'[u] \in BuildPcs => pc'[u] = pc[u]
  BY Zenon, <1>1, <1>2, <1>4, <1>5, <1>e, Rearranged
<1>8. Tree' BY Zenon, <1>4, <1>7, <1>e DEF Tree
<1>9. Orphans' BY <1>0, <1>4, <1>7, <1>e, <1>i DEF Orphans
<1> QED BY Zenon, <1>7, <1>8, <1>9 DEF Shape
-----------------------------------------------------------------------------
(* What sys_waitpid waits for, and where it sleeps. *)

\* A step in which no thread begins to wait, and each child a thread waits for
\* stays its process's child.
LEMMA WaitsKept ==
    ASSUME Inv, UNCHANGED child_exit_wq,
           \A u \in Tids : pc'[u] \in WaitPcs =>
              pc[u] \in WaitPcs /\ args'[u] = args[u] /\ proc'[u] = proc[u],
           \A u \in Tids : pc'[u] = "asleep" <=> pc[u] = "asleep",
           \A u, c \in Tids : pc[u] \in WaitPcs /\ parent[c] = proc[u] /\ Listed(c) =>
              parent'[c] = proc[u] /\ Listed(c)'
    PROVE  Waits'
<1>1. args \in [Tids -> Args] /\ Waits BY Zenon DEF Inv, TypeOK, Args
<1>2. ASSUME NEW u \in Tids, pc'[u] \in WaitPcs, NEW c \in args'[u].kids
      PROVE  parent'[c] = proc'[u] /\ Listed(c)'
  <2>1. pc[u] \in WaitPcs /\ args'[u] = args[u] /\ proc'[u] = proc[u] BY Zenon, <1>2
  <2>2. c \in Tids BY Zenon, <2>1, <1>1, <1>2 DEF Args
  <2>3. parent[c] = proc[u] /\ Listed(c) BY Zenon, <2>1, <1>1, <1>2 DEF Waits
  <2> QED BY Zenon, <2>1, <2>2, <2>3
<1>3. ASSUME NEW u \in Tids, pc'[u] = "asleep" PROVE proc'[u] = proc[u] BY Zenon, <1>3 DEF WaitPcs
<1>4. ASSUME NEW p \in Procs
      PROVE  child_exit_wq'[p] = {u \in Tids : pc'[u] = "asleep" /\ proc'[u] = p}
  <2>1. child_exit_wq'[p] = {u \in Tids : pc[u] = "asleep" /\ proc[u] = p} BY Zenon, <1>1 DEF Waits
  <2> QED BY Zenon, <2>1, <1>3
<1> QED BY Zenon, <1>2, <1>4 DEF Waits

\* The steps of one thread outside the wait that leave the tree alone.
LEMMA WaitsJump ==
    ASSUME Inv, NEW t \in Tids, NEW l \in Pcs, Goto(t, l), l \notin WaitPcs, pc[t] # "asleep",
           \A u \in Tids : u # t => args'[u] = args[u],
           UNCHANGED << proc, child_exit_wq, parent, children, reaped >>
    PROVE  Waits'
<1>1. pc \in [Tids -> Pcs] BY Zenon DEF Inv, TypeOK
<1>2. pc'[t] = l /\ \A u \in Tids : u # t => pc'[u] = pc[u] BY Zenon, <1>1 DEF Goto
<1>3. l # "asleep" BY Zenon DEF WaitPcs
<1>4. \A x : Listed(x)' <=> Listed(x) BY Zenon DEF Listed
<1> QED BY Zenon, <1>2, <1>3, <1>4, WaitsKept

LEMMA WaitsStep ==
    ASSUME Inv, NEW t \in Tids,
           \/ \E k \in {"thread", "fork", "clone", "parent"} : CloneBegin(t, k)
           \/ CloneFail(t) \/ ExitThread(t) \/ ExitParent(t) \/ ExitGroup(t) \/ ExitFlag(t) \/ ExitKill(t)
           \/ (\E c, g : StartExit(t, c, g))
           \/ (\E T : KillBegin(t, T))
           \/ (\E p \in Tids : send_signal_process(t, p)) \/ (\E u \in Tids : sys_tkill(t, u))
           \/ sys_rt_sigprocmask(t) \/ BlockingCall(t) \/ BlockingReturn(t)
    PROVE  Waits'
<1>0. pc \in [Tids -> Pcs] /\ args \in [Tids -> Args] BY Zenon DEF Inv, TypeOK, Args
<1>l. /\ {"clone_thread", "clone_other", "clone_process", "user", "exit_process", "exit_group",
          "exit_notify", "exit_flag", "exit_kill", "dead", "exit_thread", "kill", "blocked"}
            \subseteq Pcs \ WaitPcs
      /\ "asleep" \in WaitPcs
  BY Zenon DEF Pcs, ClonePcs, BuildPcs, ExitPcs, WaitPcs
<1>1. ASSUME NEW k \in {"thread", "fork", "clone", "parent"}, CloneBegin(t, k) PROVE Waits'
  <2>1. PICK l : l = CASE k = "thread" -> "clone_thread" [] k = "clone" -> "clone_other"
                       [] OTHER -> "clone_process"
    BY Zenon
  <2>2. l \in Pcs \ WaitPcs BY Zenon, <2>1, <1>l
  <2>3. Goto(t, l) /\ pc[t] # "asleep" /\ UNCHANGED << args, proc, child_exit_wq, parent, children, reaped >>
    BY Zenon, <2>1, <1>1 DEF CloneBegin, tree
  <2> QED BY Zenon, <2>2, <2>3, WaitsJump
<1>2. CASE CloneFail(t)
  BY Zenon, <1>2, <1>l, WaitsJump DEF CloneFail, tree, BuildPcs
<1>3. CASE ExitThread(t)
  <2>1. PICK l : l = IF threads[proc[t]] = {t} THEN "exit_process" ELSE "exit_group" BY Zenon
  <2>2. l \in Pcs \ WaitPcs BY Zenon, <2>1, <1>l
  <2>3. Goto(t, l) /\ pc[t] # "asleep" /\ UNCHANGED << args, proc, child_exit_wq, parent, children, reaped >>
    BY Zenon, <2>1, <1>3 DEF ExitThread, tree
  <2> QED BY Zenon, <2>2, <2>3, WaitsJump
<1>4. CASE ExitParent(t) BY Zenon, <1>4, <1>l, WaitsJump DEF ExitParent, tree
<1>5. CASE ExitGroup(t)
  <2>1. PICK l : Goto(t, l) /\ l \in Pcs /\ l \notin WaitPcs BY Zenon, <1>5, <1>l DEF ExitGroup, Die
  <2>2. \A u \in Tids : u # t => args'[u] = args[u] BY Zenon, <1>0, <1>5 DEF ExitGroup, Die
  <2>3. pc[t] # "asleep" /\ UNCHANGED << proc, child_exit_wq, parent, children, reaped >>
    BY Zenon, <1>5 DEF ExitGroup, tree
  <2> QED BY Zenon, <2>1, <2>2, <2>3, WaitsJump
<1>6. CASE ExitKill(t)
  <2>1. \A u \in Tids : u # t => args'[u] = args[u] BY Zenon, <1>0, <1>6 DEF ExitKill, Die
  <2>2. Goto(t, "dead") /\ pc[t] # "asleep" /\ UNCHANGED << proc, child_exit_wq, parent, children, reaped >>
    BY Zenon, <1>6 DEF ExitKill, Die, tree
  <2>3. "dead" \in Pcs /\ "dead" \notin WaitPcs BY Zenon, <1>l
  <2> QED BY Zenon, <2>1, <2>2, <2>3, WaitsJump
<1>7. ASSUME NEW c, NEW g, StartExit(t, c, g) PROVE Waits'
  <2>1. \A u \in Tids : u # t => args'[u] = args[u] BY Zenon, <1>0, <1>7 DEF StartExit
  <2>2. /\ Goto(t, "exit_thread") /\ pc[t] # "asleep"
        /\ UNCHANGED << proc, child_exit_wq, parent, children, reaped >>
    BY Zenon, <1>7 DEF StartExit, tree
  <2>3. "exit_thread" \in Pcs /\ "exit_thread" \notin WaitPcs BY Zenon, <1>l
  <2> QED BY Zenon, <2>1, <2>2, <2>3, WaitsJump
<1>8. ASSUME NEW T, KillBegin(t, T) PROVE Waits'
  <2>1. \A u \in Tids : u # t => args'[u] = args[u] BY Zenon, <1>0, <1>8 DEF KillBegin
  <2>2. Goto(t, "kill") /\ pc[t] # "asleep" /\ UNCHANGED << proc, child_exit_wq, parent, children, reaped >>
    BY Zenon, <1>8 DEF KillBegin, tree
  <2>3. "kill" \in Pcs /\ "kill" \notin WaitPcs BY Zenon, <1>l
  <2> QED BY Zenon, <2>1, <2>2, <2>3, WaitsJump
<1>9. ASSUME NEW p \in Tids, send_signal_process(t, p) PROVE Waits'
  <2>1. \A u \in Tids : u # t => args'[u] = args[u] BY Zenon, <1>0, <1>9 DEF send_signal_process
  <2>2. /\ pc[t] = "kill" /\ (Goto(t, "user") \/ UNCHANGED pc)
        /\ UNCHANGED << proc, child_exit_wq, parent, children, reaped >>
    BY Zenon, <1>9 DEF send_signal_process, tree
  <2>3. CASE Goto(t, "user") BY Zenon, <2>1, <2>2, <2>3, <1>l, WaitsJump
  <2>4. CASE UNCHANGED pc
    <3>1. pc'[t] \notin WaitPcs BY Zenon, <2>2, <2>4 DEF WaitPcs
    <3>2. \A x : Listed(x)' <=> Listed(x) BY Zenon, <2>2 DEF Listed
    <3> QED BY Zenon, <3>1, <3>2, <2>1, <2>2, <2>4, WaitsKept
  <2> QED BY Zenon, <2>2, <2>3, <2>4
<1>10. ASSUME NEW u \in Tids, sys_tkill(t, u) PROVE Waits'
  <2>1. UNCHANGED << pc, args, proc, child_exit_wq, parent, children, reaped >>
    BY Zenon, <1>10 DEF sys_tkill, tree
  <2>2. \A x : Listed(x)' <=> Listed(x) BY Zenon, <2>1 DEF Listed
  <2> QED BY Zenon, <2>1, <2>2, WaitsKept
<1>11. CASE ExitFlag(t) BY Zenon, <1>11, <1>l, WaitsJump DEF ExitFlag, tree
<1>12. CASE sys_rt_sigprocmask(t)
  <2>1. UNCHANGED << pc, args, proc, child_exit_wq, parent, children, reaped >>
    BY Zenon, <1>12 DEF sys_rt_sigprocmask, tree
  <2>2. \A x : Listed(x)' <=> Listed(x) BY Zenon, <2>1 DEF Listed
  <2> QED BY Zenon, <2>1, <2>2, WaitsKept
<1>13. CASE BlockingCall(t) \/ BlockingReturn(t)
  BY Zenon, <1>13, <1>l, WaitsJump DEF BlockingCall, BlockingReturn, PassesTo, tree
<1> QED BY Zenon, <1>1, <1>2, <1>3, <1>4, <1>5, <1>6, <1>7, <1>8, <1>9, <1>10, <1>11, <1>12, <1>13

\* The steps that change the tree: a waiter's child is listed, so it is not the
\* one being built, and a process with a waiter is not the one that ends.
LEMMA WaitsTree ==
    ASSUME Inv, NEW t \in Tids,
           \/ CloneProcess(t) \/ CloneThread(t) \/ ExitProcess(t) \/ ExitAgain(t)
           \/ \E c \in Tids : WaitReport(t, c)
    PROVE  Waits'
<1> USE Ids
<1>i. TypeOK /\ Members /\ Tree /\ Fresh /\ Ends BY Zenon DEF Inv, Shape
<1>0. /\ pc \in [Tids -> Pcs] /\ args \in [Tids -> Args] /\ proc \in [Tids -> Procs]
      /\ parent \in [Procs -> Procs] /\ children \in [Procs -> SUBSET Tids]
      /\ kid \in [Tids -> Procs] /\ other \in [Tids -> Procs]
  BY Zenon, <1>i DEF TypeOK, Args
<1>1. CASE CloneProcess(t)
  <2>k. PICK c, q : c = kid[t] /\ q = other[t] BY Zenon
  <2>e. /\ UNCHANGED << reaped, proc, args, child_exit_wq >> /\ q \in Procs
        /\ parent' = [parent EXCEPT ![c] = q] /\ pc[t] \in BuildPcs
        /\ children' = [children EXCEPT ![q] = @ \cup {c}] /\ Goto(t, "clone_thread")
    BY Zenon, <1>0, <1>1, <2>k DEF CloneProcess, Process_build
  <2>1. ~Listed(c) /\ c \in Tids BY Zenon, <1>i, <2>e, <2>k DEF Fresh, ClonePcs
  <2>2. ASSUME NEW u \in Tids
        PROVE  /\ pc'[u] \in WaitPcs => pc'[u] = pc[u]
               /\ pc'[u] = "asleep" <=> pc[u] = "asleep"
    BY Zenon, <1>0, <2>e DEF Goto, WaitPcs, BuildPcs
  <2>3. ASSUME NEW x \in Tids, Listed(x) PROVE parent'[x] = parent[x] /\ Listed(x)'
    <3>1. x # c BY Zenon, <2>1, <2>3
    <3>2. parent'[x] = parent[x] BY Zenon, <3>1, <2>e, <1>0
    <3>3. \A p \in Procs : children[p] \subseteq children'[p] BY Zenon, <2>e, <1>0
    <3>4. x \in children[parent[x]] => x \in children'[parent[x]] BY Zenon, <3>3, <1>0
    <3> QED BY Zenon, <3>2, <3>4, <2>3, <2>e DEF Listed
  <2> QED BY Zenon, <2>2, <2>3, <2>e, WaitsKept
<1>2. CASE CloneThread(t)
  <2>k. PICK c, q : c = kid[t] /\ q = other[t] BY Zenon
  <2>e. /\ UNCHANGED << reaped, parent, children, args, child_exit_wq >> /\ q \in Procs
        /\ pc[t] = "clone_thread" /\ proc' = [proc EXCEPT ![c] = q]
        /\ pc' = [pc EXCEPT ![t] = "user", ![c] = "user"]
    BY Zenon, <1>0, <1>2, <2>k DEF CloneThread, tree
  <2>1. c \in Tids /\ pc[c] = "none" BY Zenon, <1>i, <2>e, <2>k DEF Fresh, ClonePcs
  <2>2. pc'[t] = "user" /\ pc'[c] = "user" /\ \A u \in Tids : u \notin {t, c} => pc'[u] = pc[u]
    BY Zenon, <1>0, <2>1, <2>e
  <2>3. ASSUME NEW u \in Tids
        PROVE  /\ pc'[u] \in WaitPcs => pc'[u] = pc[u] /\ proc'[u] = proc[u]
               /\ pc'[u] = "asleep" <=> pc[u] = "asleep"
    BY Zenon, <1>0, <2>1, <2>2, <2>e DEF WaitPcs
  <2>4. \A x : Listed(x)' <=> Listed(x) BY Zenon, <2>e DEF Listed
  <2> QED BY Zenon, <2>3, <2>4, <2>e, WaitsKept
<1>3. CASE ExitProcess(t) \/ ExitAgain(t)
  <2>k. PICK p : p = proc[t] BY Zenon
  <2>e. /\ UNCHANGED << proc, reaped, args, child_exit_wq >> /\ Process_exit(p)
        /\ \/ pc[t] = "exit_process" /\ Goto(t, "exit_parent")
           \/ pc[t] = "exit_again" /\ Goto(t, "exit_group")
    BY Zenon, <1>3, <2>k DEF ExitProcess, ExitAgain
  <2>1. Ending(t) /\ pc[t] # "none" BY Zenon, <2>e DEF Ending
  <2>2. p \in Tids /\ threads[p] = {} BY Zenon, <2>1, <2>k, <1>0, <1>i DEF Members, Ends
  <2>3. ASSUME NEW u \in Tids
        PROVE  /\ pc'[u] \in WaitPcs => pc'[u] = pc[u]
               /\ pc'[u] = "asleep" <=> pc[u] = "asleep"
    BY Zenon, <1>0, <2>e DEF Goto, WaitPcs
  <2>4. \A x \in Procs : Listed(x)' <=> Listed(x) BY Zenon, <2>2, <2>e, <1>i, HandedOver
  <2>5. ASSUME NEW u \in Tids, pc[u] \in WaitPcs, NEW c \in Tids, parent[c] = proc[u]
        PROVE  parent'[c] = proc[u]
    <3>0. InGroup(u) /\ proc[u] \in Procs BY Zenon, <2>5, <1>0, Apart
    <3>m. threads[proc[u]] = {w \in Tids : proc[w] = proc[u] /\ InGroup(w)} BY Zenon, <3>0, <1>i DEF Members
    <3>1. u \in threads[proc[u]] BY Zenon, <3>0, <3>m
    <3>2. c \notin children[p] BY Zenon, <3>1, <2>2, <2>5, <1>i DEF Tree
    <3> QED BY Zenon, <3>2, <2>5, <2>e DEF Process_exit
  <2> QED BY Zenon, <2>3, <2>4, <2>5, <2>e, WaitsKept
<1>4. ASSUME NEW c \in Tids, WaitReport(t, c) PROVE Waits'
  <2>1. /\ UNCHANGED << proc, parent, child_exit_wq >> /\ Goto(t, "user") /\ pc[t] = "wait_check"
        /\ args' = [args EXCEPT ![t] = NoArgs]
    BY Zenon, <1>4 DEF WaitReport
  <2>2. \A x \in Procs : Listed(x)' <=> Listed(x) BY Zenon, <1>4, Freed
  <2>3. ASSUME NEW u \in Tids
        PROVE  /\ pc'[u] \in WaitPcs => pc'[u] = pc[u] /\ args'[u] = args[u]
               /\ pc'[u] = "asleep" <=> pc[u] = "asleep"
    <3>1. u = t => pc'[u] = "user" BY Zenon, <1>0, <2>1 DEF Goto
    <3>2. u # t => pc'[u] = pc[u] /\ args'[u] = args[u] BY Zenon, <1>0, <2>1 DEF Goto
    <3> QED BY Zenon, <3>1, <3>2, <2>1 DEF WaitPcs
  <2> QED BY Zenon, <2>1, <2>2, <2>3, WaitsKept
<1> QED BY Zenon, <1>1, <1>2, <1>3, <1>4

\* The wait itself: the children are collected, the thread sleeps and is woken.
LEMMA WaitsOwn ==
    ASSUME Inv, NEW t \in Tids,
           \/ ExitNotify(t) \/ WaitNothing(t) \/ WaitSleep(t)
           \/ \E pid \in Tids \cup {AnyChild}, o \in WaitOptions : WaitBegin(t, pid, o)
    PROVE  Waits'
<1> USE Ids
<1>i. TypeOK /\ Tree /\ Waits BY Zenon DEF Inv, Shape
<1>0. /\ pc \in [Tids -> Pcs] /\ args \in [Tids -> Args] /\ proc \in [Tids -> Procs]
      /\ other \in [Tids -> Procs] /\ child_exit_wq \in [Procs -> SUBSET Tids]
  BY Zenon, <1>i DEF TypeOK, Args
<1>1. CASE ExitNotify(t)
  <2>k. PICK q : q = other[t] BY Zenon
  <2>e. /\ UNCHANGED << proc, args, parent, children, reaped >> /\ q \in Procs
        /\ pc[t] = "exit_notify" /\ child_exit_wq' = [child_exit_wq EXCEPT ![q] = {}]
        /\ pc' = [u \in Tids |-> IF u = t THEN "exit_again"
                                 ELSE IF u \in child_exit_wq[q] THEN "wait_check" ELSE pc[u]]
    BY Zenon, <1>0, <1>1, <2>k DEF ExitNotify, tree
  <2>1. \A p \in Procs : child_exit_wq[p] = {u \in Tids : pc[u] = "asleep" /\ proc[u] = p}
    BY Zenon, <1>i DEF Waits
  <2>2. ASSUME NEW u \in Tids
        PROVE  /\ pc'[u] \in WaitPcs => pc[u] \in WaitPcs
               /\ pc'[u] = "asleep" <=> pc[u] = "asleep" /\ proc[u] # q
    BY <2>1, <2>e DEF WaitPcs
  <2>3. ASSUME NEW p \in Procs
        PROVE  child_exit_wq'[p] = {u \in Tids : pc'[u] = "asleep" /\ proc'[u] = p}
    <3>1. CASE p = q BY Zenon, <3>1, <2>2, <2>e, <1>0
    <3>2. CASE p # q
      <4>1. child_exit_wq'[p] = {u \in Tids : pc[u] = "asleep" /\ proc[u] = p} BY Zenon, <3>2, <2>1, <2>e, <1>0
      <4> QED BY Zenon, <4>1, <3>2, <2>2, <2>e
    <3> QED BY Zenon, <3>1, <3>2
  <2>4. \A x : Listed(x)' <=> Listed(x) BY Zenon, <2>e DEF Listed
  <2>5. \A u \in Tids : pc'[u] \in WaitPcs => \A c \in args'[u].kids : parent'[c] = proc'[u] /\ Listed(c)'
    BY Zenon, <2>2, <2>4, <2>e, <1>i DEF Waits
  <2> QED BY Zenon, <2>3, <2>5 DEF Waits
<1>2. CASE WaitNothing(t)
  <2>1. /\ UNCHANGED << proc, child_exit_wq, parent, children, reaped >> /\ pc[t] = "wait_check"
        /\ \/ Goto(t, "user") /\ args' = [args EXCEPT ![t] = NoArgs]
           \/ Goto(t, "wait_sleep") /\ UNCHANGED args
    BY Zenon, <1>2 DEF WaitNothing, tree
  <2>2. \A x : Listed(x)' <=> Listed(x) BY Zenon, <2>1 DEF Listed
  <2>3. ASSUME NEW u \in Tids
        PROVE  /\ pc'[u] \in WaitPcs => pc[u] \in WaitPcs /\ args'[u] = args[u]
               /\ pc'[u] = "asleep" <=> pc[u] = "asleep"
    <3>1. u = t => pc'[u] = "user" \/ (pc'[u] = "wait_sleep" /\ args'[u] = args[u])
      BY Zenon, <1>0, <2>1 DEF Goto
    <3>2. u # t => pc'[u] = pc[u] /\ args'[u] = args[u] BY Zenon, <1>0, <2>1 DEF Goto
    <3> QED BY Zenon, <3>1, <3>2, <2>1 DEF WaitPcs
  <2> QED BY Zenon, <2>1, <2>2, <2>3, WaitsKept
<1>3. CASE WaitSleep(t)
  <2>e. /\ UNCHANGED << proc, args, parent, children, reaped >> /\ pc[t] = "wait_sleep"
        /\ child_exit_wq' = [child_exit_wq EXCEPT ![proc[t]] = @ \cup {t}] /\ Goto(t, "asleep")
    BY Zenon, <1>3 DEF WaitSleep, tree
  <2>1. pc'[t] = "asleep" /\ \A u \in Tids : u # t => pc'[u] = pc[u] BY Zenon, <1>0, <2>e DEF Goto
  <2>2. \A u \in Tids : pc'[u] \in WaitPcs => pc[u] \in WaitPcs BY Zenon, <2>1, <2>e DEF WaitPcs
  <2>3. ASSUME NEW p \in Procs
        PROVE  child_exit_wq'[p] = {u \in Tids : pc'[u] = "asleep" /\ proc'[u] = p}
    <3>1. child_exit_wq[p] = {u \in Tids : pc[u] = "asleep" /\ proc[u] = p} BY Zenon, <1>i DEF Waits
    <3>2. child_exit_wq'[p] = child_exit_wq[p] \cup (IF p = proc[t] THEN {t} ELSE {})
      BY Zenon, <2>e, <1>0
    <3>3. ASSUME NEW u \in Tids
          PROVE  u \in child_exit_wq'[p] <=> pc'[u] = "asleep" /\ proc'[u] = p
      <4>1. CASE u = t BY Zenon, <4>1, <3>1, <3>2, <2>1, <2>e
      <4>2. CASE u # t BY Zenon, <4>2, <3>1, <3>2, <2>1, <2>e
      <4> QED BY Zenon, <4>1, <4>2
    <3> QED BY Zenon, <3>1, <3>2, <3>3
  <2>4. \A x : Listed(x)' <=> Listed(x) BY Zenon, <2>e DEF Listed
  <2>5. \A u \in Tids : pc'[u] \in WaitPcs => \A c \in args'[u].kids : parent'[c] = proc'[u] /\ Listed(c)'
    BY Zenon, <2>2, <2>4, <2>e, <1>i DEF Waits
  <2> QED BY Zenon, <2>3, <2>5 DEF Waits
<1>4. ASSUME NEW pid \in Tids \cup {AnyChild}, NEW o \in WaitOptions, WaitBegin(t, pid, o)
      PROVE  Waits'
  <2>k. PICK K : K = Selected(proc[t], pid, o) BY Zenon
  <2>e. /\ UNCHANGED << proc, child_exit_wq, parent, children, reaped >> /\ pc[t] = "user"
        /\ args' = [args EXCEPT ![t].opts = o, ![t].kids = K] /\ Goto(t, "wait_check")
    BY Zenon, <1>4, <2>k DEF WaitBegin, tree
  <2>1. pc'[t] = "wait_check" /\ \A u \in Tids : u # t => pc'[u] = pc[u] BY Zenon, <1>0, <2>e DEF Goto
  <2>2. args'[t].kids = K BY <1>0, <2>e DEF Args
  <2>3. \A u \in Tids : u # t => args'[u] = args[u] BY Zenon, <1>0, <2>e
  <2>4. K \subseteq children[proc[t]] BY Zenon, <2>k DEF Selected
  <2>5. \A x : Listed(x)' <=> Listed(x) BY Zenon, <2>e DEF Listed
  <2>6. ASSUME NEW c \in K PROVE parent[c] = proc[t] /\ Listed(c)
    <3>1. c \in children[proc[t]] /\ proc[t] \in Procs BY Zenon, <2>4, <1>0
    <3>2. c \in Tids BY Zenon, <3>1, <1>i DEF TypeOK
    <3>3. parent[c] = proc[t] BY Zenon, <3>1, <3>2, <1>i DEF Tree
    <3> QED BY Zenon, <3>1, <3>3 DEF Listed
  <2>7. ASSUME NEW u \in Tids, pc'[u] \in WaitPcs, NEW c \in args'[u].kids
        PROVE  parent'[c] = proc'[u] /\ Listed(c)'
    <3>1. CASE u = t BY Zenon, <3>1, <2>2, <2>5, <2>6, <2>7, <2>e
    <3>2. CASE u # t BY Zenon, <3>2, <2>1, <2>3, <2>5, <2>7, <2>e, <1>i DEF Waits
    <3> QED BY Zenon, <3>1, <3>2
  <2>8. \A u \in Tids : pc'[u] = "asleep" <=> pc[u] = "asleep" BY Zenon, <2>1, <2>e
  <2>9. \A p \in Procs : child_exit_wq'[p] = {u \in Tids : pc'[u] = "asleep" /\ proc'[u] = p}
    BY Zenon, <2>8, <2>e, <1>i DEF Waits
  <2> QED BY Zenon, <2>7, <2>9 DEF Waits
<1> QED BY Zenon, <1>1, <1>2, <1>3, <1>4
-----------------------------------------------------------------------------
(* The invariant is inductive. *)

LEMMA InitInv == Init => Inv
<1> SUFFICES ASSUME Init PROVE Inv BY Zenon
<1> USE Ids
<1>0. FirstThreads \in Nat /\ 1 <= FirstThreads /\ FirstThreads <= MaxTid /\ Tids = 1 .. MaxTid
  BY LifeAssumption DEF Tids
<1>1. TypeOK
  <2>1. args \in [Tids -> Args] /\ pc \in [Tids -> Pcs] BY Zenon, NoArgsTyped, Labels DEF Init
  <2>2. /\ next \in 1 .. MaxTid + 1 /\ proc \in [Tids -> Procs] /\ kid \in [Tids -> Procs]
        /\ other \in [Tids -> Procs] /\ threads \in [Procs -> SUBSET Tids]
        /\ parent \in [Procs -> Procs] /\ children \in [Procs -> SUBSET Tids]
        /\ exit_code \in [Procs -> Nat] /\ reaped \in [Procs -> Nat] /\ calls \in CallSets
        /\ child_exit_wq \in [Procs -> SUBSET Tids]
    BY <1>0 DEF Init
  <2>3. /\ zombies = {} /\ clones = {} /\ group_exited = {} /\ sigchld = {} /\ killed = {}
        /\ shot = {} /\ masked = {}
    BY Zenon DEF Init
  <2> QED BY Zenon, <2>1, <2>2, <2>3 DEF TypeOK, Args
<1>2. \A t \in Tids : /\ pc[t] = IF t <= FirstThreads THEN "user" ELSE "none"
                      /\ proc[t] = IF t <= FirstThreads THEN 1 ELSE InitProc
  BY Zenon DEF Init
<1>3. \A t \in Tids : /\ pc[t] \in {"user", "none"} /\ ~Ending(t)
                      /\ pc[t] \notin ClonePcs /\ pc[t] \notin BuildPcs /\ pc[t] \notin WaitPcs
                      /\ InGroup(t) <=> t <= FirstThreads
  BY Zenon, <1>2 DEF Ending, ClonePcs, BuildPcs, WaitPcs, InGroup, GroupPcs
<1>4. \A c \in Tids : Listed(c) <=> c = 1 BY DEF Init, Listed
<1>5. Members
  <2>1. \A p \in Procs : threads[p] = IF p = 1 THEN 1 .. FirstThreads ELSE {} BY Zenon DEF Init
  <2>2. ASSUME NEW p \in Procs PROVE threads[p] = {t \in Tids : proc[t] = p /\ InGroup(t)}
    <3>1. CASE p = 1 BY <3>1, <2>1, <1>0, <1>2, <1>3
    <3>2. CASE p # 1 BY Zenon, <3>2, <2>1, <1>2, <1>3
    <3> QED BY Zenon, <3>1, <3>2
  <2> QED BY Zenon, <2>2, <1>2 DEF Members
<1>6. Tree
  <2>1. zombies = {} /\ \A c \in Tids : reaped[c] = 0 BY Zenon DEF Init
  <2>2. \A c \in Tids, p \in Procs : c \in children[p] => parent[c] = p BY Zenon DEF Init
  <2>3. ASSUME NEW t \in Tids, pc[t] # "none" PROVE Listed(proc[t])
    <3>1. proc[t] = 1 BY Zenon, <2>3, <1>2
    <3> QED BY Zenon, <3>1, <1>4
  <2>4. \A c \in Tids : ~(reaped[c] > 0) BY <2>1
  <2> QED BY Zenon, <2>1, <2>2, <2>3, <2>4 DEF Tree
<1>7. Fresh
  <2>1. next = FirstThreads + 1 /\ zombies = {} BY Zenon DEF Init
  <2>2. ASSUME NEW c \in Tids, c >= next PROVE pc[c] = "none" /\ Unused(c) /\ ~Listed(c)
    <3>1. c \in Nat /\ c > FirstThreads /\ c # 1 BY <2>1, <2>2, <1>0
    <3>2. \A u \in Tids : proc[u] # c BY Zenon, <3>1, <1>2
    <3>3. pc[c] = "none" BY <3>1, <1>0, <1>2
    <3>4. Unused(c) BY Zenon, <3>2, <2>1 DEF Unused
    <3> QED BY Zenon, <3>1, <3>3, <3>4, <1>4
  <2> QED BY Zenon, <2>2, <1>3 DEF Fresh
<1>8. Ends BY Zenon, <1>3 DEF Ends, Init
<1>9. Orphans BY Zenon, <1>3 DEF Orphans, Init
<1>10. Waits
  <2>1. \A t \in Tids : pc[t] # "asleep" BY Zenon, <1>2
  <2> QED BY Zenon, <2>1, <1>3 DEF Waits, Init
<1> QED BY Zenon, <1>1, <1>5, <1>6, <1>7, <1>8, <1>9, <1>10 DEF Inv, Shape

LEMMA StepInv == Inv /\ [Next]_vars => Inv'
<1> SUFFICES ASSUME Inv, [Next]_vars PROVE Inv' BY Zenon
<1>1. CASE UNCHANGED vars
  <2>1. TypeOK /\ Shape BY Zenon DEF Inv
  <2>2. TypeOK' BY Zenon, <1>1, <2>1 DEF vars, TypeOK
  <2>3. \A u \in Tids : (InGroup(u)' <=> InGroup(u)) /\ (Ending(u)' <=> Ending(u))
    BY Zenon, <1>1 DEF vars, InGroup, Ending
  <2>4. Shape' BY Zenon, <1>1, <2>1, <2>3, Quiet DEF vars
  <2>5. \A x : Listed(x)' <=> Listed(x) BY Zenon, <1>1 DEF vars, Listed
  <2>6. Waits' BY Zenon, <1>1, <2>5, WaitsKept DEF vars
  <2> QED BY Zenon, <2>2, <2>4, <2>6 DEF Inv
<1>2. ASSUME NEW t \in Tids, KernelStep(t) \/ UserCall(t) \/ BlockingReturn(t) \/ check_signals(t)
      PROVE  Inv'
  <2>1. TypeOK' BY Zenon, <1>2, TypeStep
  <2>2. \/ \E k \in {"thread", "fork", "clone", "parent"} : CloneBegin(t, k)
        \/ CloneFail(t) \/ CloneProcess(t) \/ CloneThread(t)
        \/ ExitThread(t) \/ ExitProcess(t) \/ ExitParent(t) \/ ExitNotify(t)
        \/ ExitAgain(t) \/ ExitGroup(t) \/ ExitFlag(t) \/ ExitKill(t)
        \/ (\E c \in Tids : WaitReport(t, c)) \/ WaitNothing(t) \/ WaitSleep(t)
        \/ (\E p \in Tids : send_signal_process(t, p)) \/ (\E code, g : StartExit(t, code, g))
        \/ (\E pid \in Tids \cup {AnyChild}, o \in WaitOptions : WaitBegin(t, pid, o))
        \/ (\E T : KillBegin(t, T)) \/ (\E u \in Tids : sys_tkill(t, u))
        \/ sys_rt_sigprocmask(t) \/ BlockingCall(t) \/ BlockingReturn(t)
    BY <1>2, Zenon DEF KernelStep, UserCall, check_signals, sys_exit, sys_exit_group, sys_kill, sys_tgkill
  <2>3. Shape' BY <2>2, Zenon, QuietStep, BeginKeeps, ProcessKeeps, ThreadKeeps, ExitThreadKeeps,
                  ExitProcessKeeps, ReportKeeps
  <2>4. Waits' BY <2>2, Zenon, WaitsStep, WaitsTree, WaitsOwn
  <2> QED BY Zenon, <2>1, <2>3, <2>4 DEF Inv
<1> QED BY Zenon, <1>1, <1>2 DEF Next

LEMMA AlwaysInv == Spec => []Inv
  BY InitInv, StepInv, PTL DEF Spec
-----------------------------------------------------------------------------
(* The theorems. *)

\* sys_clone, do_exit and sys_waitpid keep the two directions of the process tree
\* in agreement however many threads there are and however their steps interleave.
THEOREM TreeAgrees == Spec => []TreeOK
<1>1. Inv => TreeOK
  <2> SUFFICES ASSUME Inv PROVE TreeOK BY Zenon
  <2>1. TypeOK /\ Members /\ Tree BY Zenon DEF Inv, Shape
  <2>2. ASSUME NEW c \in Tids, threads[c] # {} PROVE Listed(c)
    <3>0. threads[c] = {t \in Tids : proc[t] = c /\ InGroup(t)} BY Zenon, <2>1, Ids DEF Members
    <3>1. PICK t \in Tids : proc[t] = c /\ InGroup(t) BY Zenon, <2>2, <3>0
    <3>2. pc[t] # "none" BY Zenon, <3>1, Apart
    <3> QED BY Zenon, <2>1, <3>1, <3>2 DEF Tree
  <2> QED BY Zenon, <2>1, <2>2, Ids DEF TreeOK, Tree, Listed
<1> QED BY <1>1, AlwaysInv, PTL

\* do_exit takes one thread of a group for the last, whatever the number of threads
\* that exit side by side, and none of a zombie's threads is anywhere but on its way out.
THEOREM LastThreadUnique == Spec => []OneLastThread
<1>1. Inv => OneLastThread
  <2> SUFFICES ASSUME Inv, NEW t \in Tids
               PROVE  /\ Ending(t) => /\ threads[proc[t]] = {}
                                      /\ \A u \in Tids \ {t} : Ending(u) => proc[u] # proc[t]
                      /\ proc[t] \in zombies => pc[t] \in ExitPcs \cup {"dead"}
    BY Zenon DEF OneLastThread
  <2>1. TypeOK /\ Members /\ Tree /\ Ends BY Zenon DEF Inv, Shape
  <2>2. Ending(t) => /\ threads[proc[t]] = {}
                     /\ \A u \in Tids \ {t} : Ending(u) => proc[u] # proc[t]
    BY Zenon, <2>1 DEF Ends
  <2>3. ASSUME proc[t] \in zombies PROVE pc[t] \in ExitPcs \cup {"dead"}
    <3>1. proc[t] \in Procs /\ proc[t] # InitProc /\ threads[proc[t]] = {}
      BY Zenon, <2>1, <2>3 DEF TypeOK, Tree, Ends
    <3>2. ~InGroup(t) /\ pc[t] # "none" BY Zenon, <3>1, <2>1 DEF Members
    <3>3. pc[t] \in Pcs BY Zenon, <2>1 DEF TypeOK
    <3> QED BY Zenon, <3>2, <3>3 DEF Pcs, InGroup, GroupPcs
  <2> QED BY Zenon, <2>2, <2>3
<1> QED BY <1>1, AlwaysInv, PTL

\* The children sys_waitpid collected stay the caller's own while it waits, and a
\* sleeper is in the queue do_exit of a child notifies.
THEOREM OwnChildren == Spec => []WaitsForOwnChildren
<1>1. Inv => WaitsForOwnChildren
  <2> SUFFICES ASSUME Inv PROVE WaitsForOwnChildren BY Zenon
  <2>1. TypeOK /\ Members /\ Ends /\ Waits BY Zenon DEF Inv, Shape
  <2>2. ASSUME NEW t \in Tids, pc[t] \in WaitPcs PROVE proc[t] \notin zombies
    <3>1. InGroup(t) /\ proc[t] \in Procs BY Zenon, <2>1, <2>2, Apart DEF TypeOK
    <3>2. t \in threads[proc[t]] BY Zenon, <2>1, <3>1 DEF Members
    <3> QED BY Zenon, <2>1, <3>2 DEF Ends
  <2> QED BY Zenon, <2>1, <2>2 DEF Waits, WaitsForOwnChildren
<1> QED BY <1>1, AlwaysInv, PTL

\* Process::exit() leaves a zombie without children for good, unless some program
\* clones with CLONE_PARENT.
THEOREM ZombiesChildless == Spec => []OrphansAdopted
<1>1. Inv => OrphansAdopted BY Zenon DEF Inv, Shape, Orphans, OrphansAdopted
<1> QED BY <1>1, AlwaysInv, PTL

\* Thread::exit() changes the code of a process only before exit_group sets its flag
\* and before the process is a zombie: a zombie's group is empty.
THEOREM CodeFrozen == Spec => ExitCodeFrozen
<1>1. ASSUME Inv, [Next]_vars
      PROVE  [\A p \in zombies \cup group_exited : exit_code'[p] = exit_code[p]]_vars
  <2>1. ASSUME NEW t \in Tids, ExitThread(t), NEW p \in zombies \cup group_exited
        PROVE  exit_code'[p] = exit_code[p]
    <3>1. TypeOK /\ Members /\ Ends /\ p \in Procs BY Zenon, <1>1 DEF Inv, Shape, TypeOK
    <3>2. pc[t] = "exit_thread" /\ Thread_exit(t, proc[t]) BY Zenon, <2>1 DEF ExitThread
    <3>3. InGroup(t) /\ proc[t] \in Procs BY Zenon, <3>1, <3>2 DEF InGroup, GroupPcs, TypeOK
    <3>4. t \in threads[proc[t]] BY Zenon, <3>1, <3>3 DEF Members
    <3>5. proc[t] \notin zombies BY Zenon, <3>1, <3>4 DEF Ends
    <3>6. exit_code \in [Procs -> Nat] BY Zenon, <3>1 DEF TypeOK
    <3> QED BY <3>2, <3>5, <3>6, <2>1 DEF Thread_exit
  <2>2. ASSUME NEW t \in Tids, KernelStep(t), ~ExitThread(t) PROVE UNCHANGED exit_code
    BY Zenon, <2>2 DEF KernelStep, CloneFail, CloneProcess, CloneThread, ExitProcess, ExitParent, ExitNotify,
                ExitAgain, ExitGroup, ExitFlag, ExitKill, WaitReport, WaitNothing, WaitSleep,
                send_signal_process, group
  <2>3. ASSUME NEW t \in Tids, UserCall(t) \/ BlockingReturn(t) \/ check_signals(t)
        PROVE  UNCHANGED exit_code
    BY Zenon, <2>3 DEF UserCall, CloneBegin, sys_exit, sys_exit_group, StartExit, WaitBegin, sys_kill,
                KillBegin, sys_tkill, sys_tgkill, check_signals, sys_rt_sigprocmask, BlockingCall,
                BlockingReturn, PassesTo, group
  <2> QED BY Zenon, <1>1, <2>1, <2>2, <2>3 DEF Next
<1> QED BY <1>1, AlwaysInv, PTL DEF Spec, ExitCodeFrozen
-----------------------------------------------------------------------------
(* A pending SIGKILL is not lost. *)

\* No signal is pending for a dead thread, and the flag of the group is set before
\* its threads are signalled.
KillInv ==
    /\ \A t \in Tids : pc[t] = "dead" => t \notin killed
    /\ \A t \in Tids : pc[t] = "exit_kill" => proc[t] \in group_exited

\* What KillLasts says of one step.
SignalKept ==
    /\ \A t \in Tids : Dying(t) => Dying(t)' \/ pc'[t] = "dead"
    /\ \A t \in Tids : pc[t] = "dead" => pc'[t] = "dead" /\ t \notin killed'
    /\ \A p \in Tids : GroupDying(p) => GroupDying(p)' \/ p \in group_exited'
    /\ group_exited \subseteq group_exited'

\* A step that takes no signal, sets no flag and ends no thread: those on their
\* way out stay there, and a thread that gets a signal is not dead.
LEMMA KillQuiet ==
    ASSUME KillInv, group_exited' = group_exited,
           killed \subseteq killed', shot \subseteq shot',
           \A u \in killed' \ killed : pc[u] # "dead",
           \A u \in Tids :
              /\ pc'[u] = "dead" <=> pc[u] = "dead"
              /\ pc[u] \in ExitPcs => /\ pc'[u] \in ExitPcs /\ proc'[u] = proc[u]
                                      /\ args'[u].group = args[u].group
              /\ pc'[u] = "exit_kill" => pc[u] = "exit_kill"
    PROVE  KillInv' /\ SignalKept
<1>1. ASSUME NEW u \in Tids, pc'[u] = "dead" PROVE u \notin killed'
  BY Zenon, <1>1 DEF KillInv
<1>2. ASSUME NEW u \in Tids, pc'[u] = "exit_kill" PROVE proc'[u] \in group_exited'
  BY Zenon, <1>2 DEF KillInv, ExitPcs
<1>3. ASSUME NEW u \in Tids, Dying(u) PROVE Dying(u)'
  BY Zenon, <1>3 DEF Dying
<1>4. ASSUME NEW p \in Tids, GroupDying(p) PROVE GroupDying(p)'
  BY Zenon, <1>4 DEF GroupDying
<1> QED BY Zenon, <1>1, <1>2, <1>3, <1>4 DEF KillInv, SignalKept

\* The same for a step in which only t moves.
LEMMA KillJump ==
    ASSUME TypeOK, KillInv, NEW t \in Tids, NEW l, Goto(t, l), l \notin {"dead", "exit_kill"},
           pc[t] # "dead", pc[t] \in ExitPcs => l \in ExitPcs /\ args'[t] = args[t],
           \A u \in Tids : u # t => args'[u] = args[u],
           UNCHANGED << group_exited, killed, proc >>, shot \subseteq shot'
    PROVE  KillInv' /\ SignalKept
<1>1. pc'[t] = l /\ \A u \in Tids : u # t => pc'[u] = pc[u]
  BY Zenon DEF TypeOK, Goto
<1> QED BY Zenon, <1>1, KillQuiet

\* Every step but those that take a signal or end a thread.
LEMMA KillOther ==
    ASSUME TypeOK, KillInv, NEW t \in Tids,
           \/ \E k \in {"thread", "fork", "clone", "parent"} : CloneBegin(t, k)
           \/ CloneFail(t) \/ CloneProcess(t)
           \/ ExitThread(t) \/ ExitProcess(t) \/ ExitParent(t) \/ ExitAgain(t)
           \/ (\E c \in Tids : WaitReport(t, c)) \/ WaitNothing(t) \/ WaitSleep(t)
           \/ (\E p \in Tids : send_signal_process(t, p)) \/ sys_exit(t) \/ sys_exit_group(t)
           \/ (\E pid \in Tids \cup {AnyChild}, o \in WaitOptions : WaitBegin(t, pid, o))
           \/ (\E T : KillBegin(t, T)) \/ (\E u \in Tids : sys_tkill(t, u))
           \/ sys_rt_sigprocmask(t) \/ BlockingCall(t) \/ BlockingReturn(t)
    PROVE  KillInv' /\ SignalKept
<1> USE DEF group, ExitPcs
<1>0. args \in [Tids -> Args]
  BY Zenon DEF TypeOK, Args
<1>1. ASSUME NEW k \in {"thread", "fork", "clone", "parent"}, CloneBegin(t, k)
      PROVE  KillInv' /\ SignalKept
  <2>1. PICK l \in {"clone_thread", "clone_other", "clone_process"} : Goto(t, l)
    BY Zenon, <1>1 DEF CloneBegin
  <2> QED BY Zenon, <1>1, <2>1, KillJump DEF CloneBegin
<1>2. CASE CloneFail(t)
  BY Zenon, <1>2, KillJump DEF CloneFail, BuildPcs
<1>3. CASE CloneProcess(t)
  BY Zenon, <1>3, KillJump DEF CloneProcess, BuildPcs
<1>4. CASE ExitThread(t)
  <2>1. PICK l \in {"exit_process", "exit_group"} : Goto(t, l)
    BY Zenon, <1>4 DEF ExitThread
  <2> QED BY Zenon, <1>4, <2>1, KillJump DEF ExitThread
<1>5. CASE ExitProcess(t)
  BY Zenon, <1>5, KillJump DEF ExitProcess
<1>6. CASE ExitParent(t)
  BY Zenon, <1>6, KillJump DEF ExitParent
<1>7. CASE ExitAgain(t)
  BY Zenon, <1>7, KillJump DEF ExitAgain
<1>8. ASSUME NEW c \in Tids, WaitReport(t, c) PROVE KillInv' /\ SignalKept
  <2>1. \A u \in Tids : u # t => args'[u] = args[u]
    BY Zenon, <1>0, <1>8 DEF WaitReport
  <2> QED BY Zenon, <1>8, <2>1, KillJump DEF WaitReport
<1>9. CASE WaitNothing(t)
  <2>1. PICK l \in {"user", "wait_sleep"} : Goto(t, l)
    BY Zenon, <1>9 DEF WaitNothing
  <2>2. \A u \in Tids : u # t => args'[u] = args[u]
    BY Zenon, <1>0, <1>9 DEF WaitNothing
  <2> QED BY Zenon, <1>9, <2>1, <2>2, KillJump DEF WaitNothing
<1>10. CASE WaitSleep(t)
  BY Zenon, <1>10, KillJump DEF WaitSleep
<1>11. ASSUME NEW p \in Tids, send_signal_process(t, p) PROVE KillInv' /\ SignalKept
  <2>1. Goto(t, "user") \/ pc' = pc
    BY Zenon, <1>11 DEF send_signal_process
  <2>2. \A u \in Tids : u # t => args'[u] = args[u]
    BY Zenon, <1>0, <1>11 DEF send_signal_process
  <2>3. pc[t] = "kill" /\ shot \subseteq shot' /\ UNCHANGED << group_exited, killed, proc >>
    BY Zenon, <1>11 DEF send_signal_process
  <2>4. CASE Goto(t, "user")
    BY Zenon, <2>2, <2>3, <2>4, KillJump
  <2>5. CASE pc' = pc
    BY Zenon, <2>2, <2>3, <2>5, KillQuiet
  <2> QED BY Zenon, <2>1, <2>4, <2>5
<1>12. CASE sys_exit(t) \/ sys_exit_group(t)
  <2>1. PICK c, g : StartExit(t, c, g) /\ UNCHANGED << killed, shot >>
    BY Zenon, <1>12 DEF sys_exit, sys_exit_group
  <2>2. \A u \in Tids : u # t => args'[u] = args[u]
    BY Zenon, <1>0, <2>1 DEF StartExit
  <2> QED BY Zenon, <2>1, <2>2, KillJump DEF StartExit
<1>13. ASSUME NEW pid, NEW o, WaitBegin(t, pid, o) PROVE KillInv' /\ SignalKept
  <2>1. \A u \in Tids : u # t => args'[u] = args[u]
    BY Zenon, <1>0, <1>13 DEF WaitBegin
  <2> QED BY Zenon, <1>13, <2>1, KillJump DEF WaitBegin
<1>14. ASSUME NEW T, KillBegin(t, T) PROVE KillInv' /\ SignalKept
  <2>1. \A u \in Tids : u # t => args'[u] = args[u]
    BY Zenon, <1>0, <1>14 DEF KillBegin
  <2> QED BY Zenon, <1>14, <2>1, KillJump DEF KillBegin
<1>15. ASSUME NEW u \in Tids, sys_tkill(t, u) PROVE KillInv' /\ SignalKept
  <2>1. pc[u] # "dead"
    BY Zenon, <1>15 DEF sys_tkill, get_thread
  <2> QED BY Zenon, <1>15, <2>1, KillQuiet DEF sys_tkill
<1>16. CASE sys_rt_sigprocmask(t)
  BY Zenon, <1>16, KillQuiet DEF sys_rt_sigprocmask
<1>17. CASE BlockingCall(t) \/ BlockingReturn(t)
  BY Zenon, <1>17, KillJump DEF BlockingCall, BlockingReturn, PassesTo
<1> QED BY Zenon, <1>1, <1>2, <1>3, <1>4, <1>5, <1>6, <1>7, <1>8, <1>9, <1>10, <1>11, <1>12,
           <1>13, <1>14, <1>15, <1>16, <1>17

\* The steps that move another thread, take a signal or end a thread.
LEMMA KillTaken ==
    ASSUME Inv, KillInv, NEW t \in Tids,
           \/ CloneThread(t) \/ ExitNotify(t) \/ ExitGroup(t) \/ ExitFlag(t) \/ ExitKill(t)
           \/ check_signals(t)
    PROVE  KillInv' /\ SignalKept
<1>t. /\ TypeOK /\ Members /\ Fresh /\ Waits /\ pc \in [Tids -> Pcs] /\ proc \in [Tids -> Procs]
      /\ args \in [Tids -> Args]
  BY Zenon DEF Inv, Shape, TypeOK, Args
<1>1. CASE CloneThread(t)
  <2>1. pc[t] = "clone_thread" /\ kid[t] \in Tids /\ pc[kid[t]] = "none"
    BY Zenon, <1>1, <1>t DEF CloneThread, Fresh, ClonePcs
  <2>2. /\ pc'[t] = "user" /\ pc'[kid[t]] = "user"
        /\ \A u \in Tids \ {t, kid[t]} : pc'[u] = pc[u]
        /\ \A u \in Tids \ {kid[t]} : proc'[u] = proc[u]
    BY Zenon, <1>1, <1>t, <2>1 DEF CloneThread
  <2>3. UNCHANGED << group_exited, killed, shot, args >>
    BY Zenon, <1>1 DEF CloneThread
  <2> QED BY Zenon, <2>1, <2>2, <2>3, KillQuiet DEF ExitPcs
<1>2. CASE ExitNotify(t)
  <2>0. other[t] \in Procs
    BY Zenon, <1>t DEF TypeOK
  <2>1. \A u \in child_exit_wq[other[t]] : pc[u] = "asleep"
    BY Zenon, <1>t, <2>0 DEF Waits
  <2>2. \A u \in Tids : \/ u = t /\ pc[u] = "exit_notify" /\ pc'[u] = "exit_again"
                        \/ pc[u] = "asleep" /\ pc'[u] = "wait_check"
                        \/ pc'[u] = pc[u]
    BY Zenon, <1>2, <2>1 DEF ExitNotify
  <2>3. UNCHANGED << group_exited, killed, shot, args, proc >>
    BY Zenon, <1>2 DEF ExitNotify, group
  <2> QED BY Zenon, <2>2, <2>3, KillQuiet DEF ExitPcs
<1>3. ASSUME Goto(t, "dead"), proc[t] \in group_exited \/ ~args[t].group, pc[t] \in ExitPcs,
             \A u \in Tids \ {t} : args'[u] = args[u],
             UNCHANGED << group_exited, shot, proc >>, killed \ {t} \subseteq killed',
             \A u \in killed' : u # t /\ (u \in killed \/ pc[u] # "dead")
      PROVE  KillInv' /\ SignalKept
  <2>1. pc'[t] = "dead" /\ \A u \in Tids : u # t => pc'[u] = pc[u]
    BY Zenon, <1>3, <1>t DEF Goto
  <2>2. ASSUME NEW u \in Tids, pc'[u] = "dead" PROVE u \notin killed'
    BY Zenon, <1>3, <2>1, <2>2 DEF KillInv
  <2>3. ASSUME NEW u \in Tids, pc'[u] = "exit_kill" PROVE proc'[u] \in group_exited'
    BY Zenon, <1>3, <2>1, <2>3 DEF KillInv
  <2>4. ASSUME NEW u \in Tids, Dying(u) PROVE Dying(u)' \/ pc'[u] = "dead"
    BY Zenon, <1>3, <2>1, <2>4 DEF Dying
  <2>5. ASSUME NEW p \in Tids, GroupDying(p) PROVE GroupDying(p)' \/ p \in group_exited'
    BY Zenon, <1>3, <2>1, <2>5 DEF GroupDying
  <2>6. \A u \in Tids : pc[u] = "dead" => pc'[u] = "dead"
    BY Zenon, <2>1
  <2> QED BY Zenon, <1>3, <2>2, <2>3, <2>4, <2>5, <2>6 DEF KillInv, SignalKept
<1>4. CASE ExitGroup(t)
  <2>0. pc[t] = "exit_group" /\ UNCHANGED << shot, proc, group_exited >> /\ pc[t] \in ExitPcs
    BY Zenon, <1>4 DEF ExitGroup, ExitPcs, group
  <2>1. CASE args[t].group /\ proc[t] \notin group_exited
    <3>1. Goto(t, "exit_flag") /\ UNCHANGED << args, killed >>
      BY Zenon, <1>4, <2>1 DEF ExitGroup
    <3> QED BY Zenon, <1>t, <2>0, <3>1, KillJump DEF ExitPcs
  <2>2. CASE ~(args[t].group /\ proc[t] \notin group_exited)
    <3>1. Goto(t, "dead") /\ killed' = killed \ {t} /\ args' = [args EXCEPT ![t] = NoArgs]
      BY Zenon, <1>4, <2>2 DEF ExitGroup, Die
    <3>2. \A u \in Tids \ {t} : args'[u] = args[u]
      BY Zenon, <1>t, <3>1
    <3> QED BY Zenon, <1>3, <1>t, <2>0, <2>2, <3>1, <3>2
  <2> QED BY Zenon, <2>1, <2>2
<1>7. CASE ExitFlag(t)
  <2>1. /\ pc[t] = "exit_flag" /\ group_exited' = group_exited \cup {proc[t]} /\ Goto(t, "exit_kill")
        /\ UNCHANGED << args, killed, shot, proc >>
    BY Zenon, <1>7 DEF ExitFlag
  <2>2. pc'[t] = "exit_kill" /\ \A u \in Tids : u # t => pc'[u] = pc[u]
    BY Zenon, <2>1, <1>t DEF Goto
  <2>3. \A u \in Tids : /\ pc'[u] = "dead" <=> pc[u] = "dead"
                        /\ pc[u] \in ExitPcs => pc'[u] \in ExitPcs
    BY Zenon, <2>1, <2>2 DEF ExitPcs
  <2>4. KillInv'
    BY Zenon, <2>1, <2>2, <2>3 DEF KillInv
  <2>5. \A u \in Tids : Dying(u) => Dying(u)'
    BY Zenon, <2>1, <2>3 DEF Dying
  <2>6. \A p \in Tids : GroupDying(p) => GroupDying(p)'
    BY Zenon, <2>1, <2>3 DEF GroupDying
  <2>7. \A u \in Tids : pc[u] = "dead" => u \notin killed'
    BY Zenon, <2>1 DEF KillInv
  <2> QED BY Zenon, <2>1, <2>3, <2>4, <2>5, <2>6, <2>7 DEF SignalKept
<1>5. CASE ExitKill(t)
  <2>1. /\ pc[t] = "exit_kill" /\ killed' = (killed \cup threads[proc[t]]) \ {t}
        /\ args' = [args EXCEPT ![t] = NoArgs] /\ Goto(t, "dead")
        /\ UNCHANGED << group_exited, shot, proc >>
    BY Zenon, <1>5 DEF ExitKill, Die, group
  <2>2. \A u \in threads[proc[t]] : pc[u] # "dead"
    <3>1. threads[proc[t]] = {u \in Tids : proc[u] = proc[t] /\ InGroup(u)}
      BY Zenon, <1>t DEF Members
    <3> QED BY Zenon, <3>1 DEF InGroup, GroupPcs, ClonePcs, BuildPcs, WaitPcs
  <2>3. proc[t] \in group_exited /\ pc[t] \in ExitPcs
    BY Zenon, <2>1 DEF KillInv, ExitPcs
  <2>4. \A u \in Tids \ {t} : args'[u] = args[u]
    BY Zenon, <1>t, <2>1
  <2> QED BY Zenon, <1>3, <1>t, <2>1, <2>2, <2>3, <2>4
<1>6. CASE check_signals(t)
  <2>1. /\ pc[t] = "user" /\ args' = [args EXCEPT ![t].code = SIGKILLed, ![t].group = TRUE]
        /\ Goto(t, "exit_thread") /\ UNCHANGED << group_exited, proc >>
        /\ killed' = killed \ {t} /\ shot \ {proc[t]} \subseteq shot'
    BY Zenon, <1>6 DEF check_signals, StartExit, group
  <2>2. pc'[t] = "exit_thread" /\ \A u \in Tids : u # t => pc'[u] = pc[u]
    BY Zenon, <2>1, <1>t DEF Goto
  <2>3. args'[t].group = TRUE /\ \A u \in Tids : u # t => args'[u] = args[u]
    <3>1. args[t] \in Args
      BY Zenon, <1>t
    <3>2. args'[t].group = TRUE
      BY Zenon, <1>t, <2>1, <3>1 DEF Args
    <3> QED BY Zenon, <1>t, <2>1, <3>2
  <2>4. pc[t] \notin ExitPcs /\ pc'[t] \in ExitPcs
    BY Zenon, <2>1, <2>2 DEF ExitPcs
  <2>5. KillInv'
    BY Zenon, <2>1, <2>2 DEF KillInv
  <2>6. \A u \in Tids : Dying(u) => Dying(u)'
    BY Zenon, <2>1, <2>2, <2>4 DEF Dying
  <2>7. ASSUME NEW p \in Tids, GroupDying(p) PROVE GroupDying(p)'
    <3>1. CASE p = proc[t]
      BY Zenon, <2>1, <2>3, <2>4, <3>1 DEF GroupDying
    <3>2. CASE p # proc[t]
      BY Zenon, <2>1, <2>2, <2>3, <2>4, <2>7, <3>2 DEF GroupDying
    <3> QED BY Zenon, <3>1, <3>2
  <2>8. \A u \in Tids : pc[u] = "dead" => pc'[u] = "dead" /\ u \notin killed'
    BY Zenon, <2>1, <2>2 DEF KillInv
  <2> QED BY Zenon, <2>1, <2>5, <2>6, <2>7, <2>8 DEF SignalKept
<1> QED BY Zenon, <1>1, <1>2, <1>4, <1>5, <1>6, <1>7

LEMMA KillStep == Inv /\ KillInv /\ [Next]_vars => KillInv' /\ [SignalKept]_vars
<1> SUFFICES ASSUME Inv, KillInv, [Next]_vars PROVE KillInv' /\ [SignalKept]_vars
  BY Zenon
<1>1. CASE UNCHANGED vars
  BY Zenon, <1>1 DEF vars, KillInv
<1>2. ASSUME NEW t \in Tids, KernelStep(t) \/ UserCall(t) \/ BlockingReturn(t) \/ check_signals(t)
      PROVE  KillInv' /\ SignalKept
  <2>1. TypeOK
    BY Zenon DEF Inv
  <2> QED BY Zenon, <1>2, <2>1, KillOther, KillTaken DEF KernelStep, UserCall, sys_kill, sys_tgkill
<1> QED BY Zenon, <1>1, <1>2 DEF Next

\* A SIGKILL that exit_group, kill or tkill sent is never lost, for any number of
\* threads: a thread it is pending for stays so or on its way out until it is dead,
\* a process until its group exits, and a dead thread neither gets one nor comes back.
THEOREM SignalNotLost == Spec => KillLasts
<1>1. Init => KillInv
  BY Zenon DEF Init, KillInv
<1> QED BY <1>1, AlwaysInv, KillStep, PTL DEF Spec, KillLasts, SignalKept
=============================================================================
