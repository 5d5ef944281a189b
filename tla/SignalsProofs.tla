--------------------------- MODULE SignalsProofs ---------------------------
(***************************************************************************)
(* For any threads, signals and masks: handlers nest without recursion,    *)
(* the mask is restored when they have returned, and the wait queue of the *)
(* process holds its sleepers.                                             *)
(***************************************************************************)
EXTENDS Signals, SequenceTheorems, TLAPS

Frame == [sig : Signals, mask : SUBSET Signals]

Labels == {"user", "s_check", "s_wait", "s_sleep", "w_check", "w_wait", "w_sleep", "exit"}

Typed ==
    /\ blocked \in [Threads -> SUBSET Signals]
    /\ frames \in [Threads -> Seq(Frame)]
    /\ pc \in [Threads -> Labels]
    /\ old_blocked \in [Threads -> SUBSET Signals]
    /\ umask \in [Threads -> SUBSET Signals] /\ astray \subseteq Threads

\* Below handler f[i] lie handlers whose signals the mask it saved still blocks.
Nested(f, m) ==
    \A i \in 1..Len(f) :
        /\ f[i].sig \in m
        /\ \A j \in 1..(i - 1) : f[j].sig \in f[i].mask /\ f[j].sig # f[i].sig

Waiting(t) == pc[t] \in {"w_check", "w_wait", "w_sleep"}

\* Where the mask the program set is kept.
KeptMask(t) ==
    IF Suspended(t) THEN old_blocked[t]
    ELSE IF frames[t] = << >> THEN blocked[t] ELSE frames[t][1].mask

NestInv ==
    /\ Typed
    /\ \A t \in Threads : /\ Suspended(t) \/ Waiting(t) => frames[t] = << >>
                          /\ Nested(frames[t], blocked[t])

MaskInv == \A t \in Threads : pc[t] # "exit" /\ t \notin astray => umask[t] = KeptMask(t)

\* A handler entered for an unblocked signal, with a frame whose mask blocks
\* the signals of the handlers below, keeps the frames nested.
LEMMA NestedPush ==
    ASSUME NEW f \in Seq(Frame), NEW m \in SUBSET Signals, NEW r \in SUBSET Signals,
           NEW sig \in Signals, sig \notin m, Nested(f, m),
           \A i \in 1..Len(f) : f[i].sig \in r
    PROVE  /\ Append(f, [sig |-> sig, mask |-> r]) \in Seq(Frame)
           /\ Nested(Append(f, [sig |-> sig, mask |-> r]), m \cup {sig})
<1> DEFINE x == [sig |-> sig, mask |-> r]
           g == Append(f, x)
<1>1. x \in Frame BY Zenon DEF Frame
<1>2. g \in Seq(Frame) /\ Len(g) = Len(f) + 1 /\ Len(f) \in Nat
  BY <1>1
<1>3. g[Len(f) + 1] = x /\ \A i \in 1..Len(f) : g[i] = f[i]
  BY <1>1
<1>4. ASSUME NEW i \in 1..Len(g)
      PROVE  /\ g[i].sig \in m \cup {sig}
             /\ \A j \in 1..(i - 1) : g[j].sig \in g[i].mask /\ g[j].sig # g[i].sig
  <2>1. CASE i \in 1..Len(f)
    BY <2>1, <1>2, <1>3 DEF Nested
  <2>2. CASE i = Len(f) + 1
    <3>1. g[i].sig = sig /\ g[i].mask = r BY <2>2, <1>3
    <3>2. \A j \in 1..(i - 1) : j \in 1..Len(f) /\ g[j] = f[j] BY <2>2, <1>2, <1>3
    <3>3. QED BY Zenon, <3>1, <3>2 DEF Nested
  <2>3. QED BY <2>1, <2>2, <1>2
<1>5. QED BY Zenon, <1>2, <1>4 DEF Nested

\* The frame sys_rt_sigreturn takes off, and those below it.
Last(f) == f[Len(f)]
Front(f) == SubSeq(f, 1, Len(f) - 1)

\* Returning from the innermost handler keeps the frames below nested in the
\* mask it restores.
LEMMA NestedPop ==
    ASSUME NEW f \in Seq(Frame), NEW m, Nested(f, m), f # << >>
    PROVE  /\ Front(f) \in Seq(Frame) /\ Last(f).mask \in SUBSET Signals
           /\ Nested(Front(f), Last(f).mask)
           /\ Front(f) = << >> => Last(f) = f[1]
           /\ Front(f) # << >> => Front(f)[1] = f[1]
<1>1. Len(f) \in Nat /\ Len(f) > 0 BY DEF Frame
<1>2. Front(f) = SubSeq(f, 1, Len(f) - 1) BY Zenon DEF Front
<1>3. /\ Front(f) \in Seq(Frame) /\ Len(Front(f)) = Len(f) - 1
      /\ \A i \in 1..(Len(f) - 1) : Front(f)[i] = f[i]
  <2>1. \A i \in 1..(Len(f) - 1) : f[i] \in Frame BY <1>1
  <2>2. 1 \in Int /\ Len(f) - 1 \in Int BY <1>1
  <2>3. /\ SubSeq(f, 1, Len(f) - 1) \in Seq(Frame)
        /\ Len(SubSeq(f, 1, Len(f) - 1)) = IF 1 <= Len(f) - 1 THEN Len(f) - 1 - 1 + 1 ELSE 0
        /\ \A i \in 1..(Len(f) - 1 - 1 + 1) : SubSeq(f, 1, Len(f) - 1)[i] = f[1 + i - 1]
    BY <2>1, <2>2, SubSeqProperties
  <2> DEFINE n == Len(f)
  <2>4. n - 1 - 1 + 1 = n - 1 /\ (1 <= n - 1 \/ n - 1 = 0)
    <3>1. n \in Nat /\ n > 0 BY Zenon, <1>1
    <3> HIDE DEF n
    <3>2. QED BY <3>1
  <2>5. \A i \in 1..(Len(f) - 1) : 1 + i - 1 = i BY <1>1
  <2>6. QED BY Zenon, <1>2, <2>3, <2>4, <2>5
<1>4. Last(f) = f[Len(f)] /\ f[Len(f)] \in Frame BY <1>1 DEF Last
<1>5. \A j \in 1..(Len(f) - 1) : f[j].sig \in f[Len(f)].mask
  BY <1>1 DEF Nested
<1>6. Nested(Front(f), Last(f).mask)
  <2>1. SUFFICES ASSUME NEW i \in 1..(Len(f) - 1)
                 PROVE  /\ f[i].sig \in f[Len(f)].mask
                        /\ \A j \in 1..(i - 1) : Front(f)[j].sig \in f[i].mask /\ Front(f)[j].sig # f[i].sig
    BY Zenon, <1>3, <1>4 DEF Nested
  <2>2. \A j \in 1..(i - 1) : f[j].sig \in f[i].mask /\ f[j].sig # f[i].sig BY <1>1 DEF Nested
  <2>3. \A j \in 1..(i - 1) : j \in 1..(Len(f) - 1) BY <1>1
  <2>4. QED BY Zenon, <1>3, <1>5, <2>2, <2>3
<1>7. Front(f) = << >> => Len(f) = 1 BY <1>1, <1>3
<1>8. Front(f) # << >> => Len(f) - 1 > 0 BY <1>1, <1>3
<1>9. QED BY <1>1, <1>3, <1>4, <1>6, <1>7, <1>8 DEF Frame

\* A step that touches neither masks nor frames keeps both invariants, if it
\* moves no thread into or out of sigsuspend, or into a call from a handler.
LEMMA Framing ==
    ASSUME NestInv, UNCHANGED << blocked, frames, old_blocked, umask, astray >>,
           pc' \in [Threads -> Labels],
           \A t \in Threads : /\ Suspended(t)' \/ Waiting(t)' => frames[t] = << >>
                              /\ pc'[t] # "exit" => /\ pc[t] # "exit"
                                                    /\ Suspended(t)' <=> Suspended(t)
    PROVE  NestInv' /\ (MaskInv => MaskInv')
<1>1. NestInv' BY Zenon DEF NestInv, Typed
<1>2. ASSUME MaskInv, NEW t \in Threads, pc'[t] # "exit", t \notin astray' PROVE umask'[t] = KeptMask(t)'
  <2>1. umask[t] = KeptMask(t) /\ (Suspended(t)' <=> Suspended(t)) BY Zenon, <1>2 DEF MaskInv
  <2>2. KeptMask(t)' = KeptMask(t) BY Zenon, <2>1 DEF KeptMask
  <2>3. QED BY Zenon, <2>1, <2>2
<1>3. QED BY Zenon, <1>1, <1>2 DEF MaskInv

\* notify_one moves a sleeper back to the check of its own call.
LEMMA Notify ==
    ASSUME NestInv, notify_one, UNCHANGED << blocked, frames, old_blocked, umask, astray >>
    PROVE  NestInv' /\ (MaskInv => MaskInv')
<1> USE DEF NestInv, Typed
<1>1. CASE wq = << >>
  <2>1. pc' = pc BY Zenon, <1>1 DEF notify_one
  <2>2. QED BY Zenon, <2>1, Framing DEF Suspended, Waiting
<1>2. CASE wq # << >>
  <2> DEFINE h == Head(wq)
  <2>1. pc' = [pc EXCEPT ![h] = CASE pc[h] = "s_sleep" -> "s_check"
                                  [] pc[h] = "w_sleep" -> "w_check"
                                  [] OTHER -> pc[h]]
    BY Zenon, <1>2 DEF notify_one, Goto
  <2> HIDE DEF h
  <2>2. \A t \in Threads : \/ pc'[t] = pc[t]
                           \/ pc[t] = "s_sleep" /\ pc'[t] = "s_check"
                           \/ pc[t] = "w_sleep" /\ pc'[t] = "w_check"
    BY Zenon, <2>1
  <2>3. pc' \in [Threads -> Labels]
    <3>1. pc' = [t \in Threads |-> pc'[t]] BY Zenon, <2>1
    <3>2. \A t \in Threads : pc'[t] \in Labels BY Zenon, <2>2 DEF Labels
    <3>3. QED BY Zenon, <3>1, <3>2
  <2>4. QED BY Zenon, <2>2, <2>3, Framing DEF Suspended, Waiting
<1>3. QED BY Zenon, <1>1, <1>2

DataInv ==
    /\ actions \in [Signals -> {"terminate", "ignore", "continue", "handler"}]
    /\ pending \in [Threads -> SUBSET Signals]
    /\ shared_pending \in SUBSET Signals

\* One dequeued signal in check_signals, from a trap or from sigsuspend.
LEMMA Check ==
    ASSUME NestInv, DataInv, NEW t \in Threads, NEW r, check_signals(t, r),
           \/ pc[t] = "user" /\ r = blocked[t]
           \/ pc[t] = "s_check" /\ r = old_blocked[t]
    PROVE  /\ NestInv' /\ DataInv'
           /\ MaskInv => MaskInv'
<1>1. PICK sig \in Deliverable(t) :
        /\ dequeue_signal(t, sig)
        /\ CASE actions[sig] = "ignore" -> UNCHANGED << blocked, frames, pc, exited, astray >>
             [] actions[sig] = "terminate" ->
                   exited' = TRUE /\ Goto(t, "exit") /\ UNCHANGED << blocked, frames, astray >>
             [] actions[sig] = "continue" ->
                   /\ Goto(t, "user") /\ UNCHANGED << blocked, frames, exited >>
                   /\ astray' = astray \cup (IF pc[t] = "s_check" THEN {t} ELSE {})
             [] actions[sig] = "handler" ->
                   PushFrame(t, sig, r) /\ Goto(t, "user") /\ UNCHANGED << exited, astray >>
  BY Zenon DEF check_signals
<1>2. UNCHANGED << actions, old_blocked, umask >> BY Zenon DEF check_signals
<1>3. DataInv' BY Zenon, <1>1, <1>2 DEF DataInv, dequeue_signal
<1>4. sig \notin blocked[t] /\ sig \in Signals BY Zenon DEF Deliverable, DataInv
<1>5. Suspended(t) => frames[t] = << >> BY Zenon DEF NestInv
<1>6. CASE actions[sig] = "ignore"
  <2>1. UNCHANGED << blocked, frames, pc, astray >> BY Zenon, <1>1, <1>6
  <2>2. QED BY <2>1, <1>2, <1>3, Framing DEF NestInv, Typed, Suspended, Waiting
<1>7. CASE actions[sig] = "terminate"
  <2>1. UNCHANGED << blocked, frames, astray >> /\ pc' = [pc EXCEPT ![t] = "exit"]
    BY Zenon, <1>1, <1>7 DEF Goto
  <2>2. pc' \in [Threads -> Labels] BY Zenon, <2>1 DEF NestInv, Typed, Labels
  <2>3. \A u \in Threads : u # t => pc'[u] = pc[u] BY Zenon, <2>1 DEF NestInv, Typed
  <2>4. pc'[t] = "exit" BY Zenon, <2>1 DEF NestInv, Typed
  <2>5. QED BY <2>1, <2>2, <2>3, <2>4, <1>2, <1>3, Framing DEF NestInv, Suspended, Waiting
<1>8. CASE actions[sig] = "continue"
  <2>1. /\ UNCHANGED << blocked, frames >> /\ pc' = [pc EXCEPT ![t] = "user"]
        /\ astray' = astray \cup (IF pc[t] = "s_check" THEN {t} ELSE {})
    BY Zenon, <1>1, <1>8 DEF Goto
  <2>2. NestInv'
    <3>1. astray' \subseteq Threads BY Zenon, <2>1 DEF NestInv, Typed
    <3>2. QED BY Zenon, <2>1, <3>1, <1>2 DEF NestInv, Typed, Labels, Suspended, Waiting
  <2>3. \A u \in Threads : u \notin astray' => u \notin astray /\ (u = t => pc[t] = "user")
    BY Zenon, <2>1
  <2>4. pc'[t] = "user" /\ \A u \in Threads : u # t => pc'[u] = pc[u]
    BY Zenon, <2>1 DEF NestInv, Typed
  <2>5. ASSUME MaskInv, NEW u \in Threads, pc'[u] # "exit", u \notin astray' PROVE umask'[u] = KeptMask(u)'
    <3>1. pc'[u] = pc[u] BY Zenon, <2>3, <2>4, <2>5
    <3>2. umask[u] = KeptMask(u) BY Zenon, <2>3, <2>5, <3>1 DEF MaskInv
    <3>3. KeptMask(u)' = KeptMask(u) BY Zenon, <2>1, <3>1, <1>2 DEF KeptMask, Suspended
    <3>4. QED BY Zenon, <3>2, <3>3, <1>2
  <2>6. QED BY Zenon, <2>2, <2>5, <1>3 DEF MaskInv
<1>9. CASE actions[sig] = "handler"
  <2> DEFINE x == [sig |-> sig, mask |-> r]
  <2>1. /\ pc' = [pc EXCEPT ![t] = "user"] /\ astray' = astray
        /\ frames' = [frames EXCEPT ![t] = Append(@, x)]
        /\ blocked' = [blocked EXCEPT ![t] = @ \cup {sig}]
    BY Zenon, <1>1, <1>9 DEF Goto, PushFrame
  <2>2. frames[t] \in Seq(Frame) /\ blocked[t] \in SUBSET Signals /\ r \in SUBSET Signals
    BY Zenon DEF NestInv, Typed
  <2>3. Nested(frames[t], blocked[t]) /\ \A i \in 1..Len(frames[t]) : frames[t][i].sig \in r
    <3>1. Nested(frames[t], blocked[t]) BY Zenon DEF NestInv
    <3>2. CASE pc[t] = "user" BY Zenon, <3>1, <3>2 DEF Nested
    <3>3. CASE pc[t] = "s_check" BY <3>1, <3>3, <1>5 DEF Suspended
    <3>4. QED BY Zenon, <3>1, <3>2, <3>3
  <2>4. Append(frames[t], x) \in Seq(Frame) /\ Nested(Append(frames[t], x), blocked[t] \cup {sig})
    BY Zenon, <1>4, <2>2, <2>3, NestedPush
  <2>5. /\ pc'[t] = "user" /\ frames'[t] = Append(frames[t], x) /\ blocked'[t] = blocked[t] \cup {sig}
        /\ \A u \in Threads : u # t => pc'[u] = pc[u] /\ frames'[u] = frames[u] /\ blocked'[u] = blocked[u]
    BY Zenon, <2>1 DEF NestInv, Typed
  <2>6. Typed'
    <3>1. blocked' \in [Threads -> SUBSET Signals] BY Zenon, <2>1, <1>4 DEF NestInv, Typed
    <3>2. frames' \in [Threads -> Seq(Frame)] BY Zenon, <2>1, <2>4 DEF NestInv, Typed
    <3>3. pc' \in [Threads -> Labels] BY Zenon, <2>1 DEF NestInv, Typed, Labels
    <3>4. QED BY <3>1, <3>2, <3>3, <1>2, <2>1 DEF NestInv, Typed
  <2>7. NestInv'
    BY Zenon, <2>4, <2>5, <2>6 DEF NestInv, Suspended, Waiting
  <2>8. ASSUME MaskInv, NEW u \in Threads, pc'[u] # "exit", u \notin astray' PROVE umask'[u] = KeptMask(u)'
    <3>1. CASE u # t
      BY Zenon, <2>1, <2>5, <2>8, <3>1, <1>2 DEF MaskInv, KeptMask, Suspended
    <3>2. CASE u = t
      <4>1. umask[t] = KeptMask(t) BY Zenon, <2>1, <2>8, <3>2 DEF MaskInv
      <4>2. frames'[t] # << >> /\ frames'[t][1] = IF frames[t] = << >> THEN x ELSE frames[t][1]
        BY <2>2, <2>5
      <4>3. ~Suspended(t)' BY Zenon, <2>5 DEF Suspended
      <4>4. KeptMask(t)' = frames'[t][1].mask BY Zenon, <4>2, <4>3 DEF KeptMask
      <4>5. CASE frames[t] = << >>
        <5>1. KeptMask(t) = r BY Zenon, <4>5 DEF KeptMask, Suspended
        <5>2. QED BY <5>1, <4>1, <4>2, <4>4, <4>5, <3>2, <1>2
      <4>6. CASE frames[t] # << >>
        <5>1. KeptMask(t) = frames[t][1].mask BY Zenon, <4>6, <1>5 DEF KeptMask
        <5>2. QED BY <5>1, <4>1, <4>2, <4>4, <4>6, <3>2, <1>2
      <4>7. QED BY Zenon, <4>5, <4>6
    <3>3. QED BY Zenon, <3>1, <3>2
  <2>9. QED BY Zenon, <2>7, <2>8, <1>3 DEF MaskInv
<1>10. QED BY Zenon, <1>4, <1>6, <1>7, <1>8, <1>9, SignalAssumption DEF DataInv

\* A step of t from label l to label k that touches neither masks nor frames.
LEMMA Move ==
    ASSUME NestInv, NEW t \in Threads, NEW k \in Labels, pc' = [pc EXCEPT ![t] = k],
           UNCHANGED << blocked, frames, old_blocked, umask, astray >>,
           pc[t] # "exit", k # "exit", frames[t] = << >>,
           Suspended(t) <=> k \in {"s_check", "s_wait", "s_sleep"}
    PROVE  NestInv' /\ (MaskInv => MaskInv')
<1>1. pc' \in [Threads -> Labels] BY Zenon DEF NestInv, Typed
<1>2. pc'[t] = k /\ \A u \in Threads : u # t => pc'[u] = pc[u] BY Zenon DEF NestInv, Typed
<1>3. ASSUME NEW u \in Threads
      PROVE  /\ Suspended(u)' \/ Waiting(u)' => frames[u] = << >>
             /\ pc'[u] # "exit" => pc[u] # "exit" /\ (Suspended(u)' <=> Suspended(u))
  BY Zenon, <1>2 DEF NestInv, Suspended, Waiting
<1>4. QED BY Zenon, <1>1, <1>3, Framing

\* Every step keeps the frames nested, and the mask where KeptMask has it.
LEMMA Step ==
    ASSUME NestInv, DataInv, [Next]_vars
    PROVE  /\ NestInv' /\ DataInv'
           /\ MaskInv => MaskInv'
<1>1. ASSUME NEW sig \in Signals, send_signal_process(sig) PROVE NestInv' /\ DataInv' /\ (MaskInv => MaskInv')
  BY Zenon, <1>1, Notify DEF send_signal_process, DataInv
<1>2. ASSUME NEW t \in Threads, NEW sig \in Signals, send_signal_thread(t, sig)
      PROVE  NestInv' /\ DataInv' /\ (MaskInv => MaskInv')
  <2>1. NestInv' /\ (MaskInv => MaskInv') BY Zenon, <1>2, Notify DEF send_signal_thread
  <2>2. DataInv' BY Zenon, <1>2 DEF send_signal_thread, DataInv
  <2>3. QED BY Zenon, <2>1, <2>2
<1>3. ASSUME NEW t \in Threads, PostTrap(t)
      PROVE  NestInv' /\ DataInv' /\ (MaskInv => MaskInv')
  BY Zenon, <1>3, Check DEF PostTrap
<1>4. ASSUME NEW t \in Threads, NEW how \in {"SIG_BLOCK", "SIG_UNBLOCK", "SIG_SETMASK"},
             NEW m \in Masks, sys_rt_sigprocmask(t, how, m)
      PROVE  NestInv' /\ DataInv' /\ (MaskInv => MaskInv')
  <2> DEFINE b == CASE how = "SIG_BLOCK" -> blocked[t] \cup m
                    [] how = "SIG_UNBLOCK" -> blocked[t] \ m
                    [] how = "SIG_SETMASK" -> m
  <2>1. /\ Main(t) /\ UNCHANGED << frames, pc, old_blocked, actions, pending, shared_pending >>
        /\ blocked' = [blocked EXCEPT ![t] = b] /\ umask' = [umask EXCEPT ![t] = blocked'[t]]
        /\ astray' = astray \ {t}
    BY Zenon, <1>4 DEF sys_rt_sigprocmask
  <2>2. b \in SUBSET Signals BY Zenon, SignalAssumption DEF NestInv, Typed
  <2> HIDE DEF b
  <2>3. Typed'
    <3>1. blocked' \in [Threads -> SUBSET Signals] BY Zenon, <2>1, <2>2 DEF NestInv, Typed
    <3>2. umask' \in [Threads -> SUBSET Signals] BY Zenon, <2>1, <3>1 DEF NestInv, Typed
    <3>3. QED BY Zenon, <2>1, <3>1, <3>2 DEF NestInv, Typed
  <2>4. /\ blocked'[t] = b /\ umask'[t] = b
        /\ \A u \in Threads : u # t => blocked'[u] = blocked[u] /\ umask'[u] = umask[u]
    BY Zenon, <2>1 DEF NestInv, Typed
  <2>5. Nested(<< >>, b) BY DEF Nested
  <2>6. NestInv' BY Zenon, <2>1, <2>3, <2>4, <2>5 DEF NestInv, Main, Suspended, Waiting
  <2>7. MaskInv => MaskInv' BY <2>1, <2>4 DEF MaskInv, KeptMask, Main, Suspended
  <2>8. QED BY Zenon, <2>1, <2>6, <2>7 DEF DataInv
<1>5. ASSUME NEW t \in Threads, NEW sig \in Signals, NEW act \in Dispositions, sys_rt_sigaction(t, sig, act)
      PROVE  NestInv' /\ DataInv' /\ (MaskInv => MaskInv')
  <2>1. UNCHANGED << blocked, frames, pc, old_blocked, umask, astray >> BY Zenon, <1>5 DEF sys_rt_sigaction
  <2>2. NestInv' /\ (MaskInv => MaskInv')
    BY Zenon, <2>1 DEF NestInv, Typed, Suspended, Waiting, MaskInv, KeptMask
  <2>3. DataInv'
    <3>1. (IF act = "default" THEN Defaults[sig] ELSE act) \in {"terminate", "ignore", "continue", "handler"}
      BY Zenon, SignalAssumption
    <3>2. QED BY Zenon, <1>5, <3>1 DEF sys_rt_sigaction, DataInv
  <2>4. QED BY Zenon, <2>2, <2>3
<1>6. ASSUME NEW t \in Threads, sys_rt_sigreturn(t) PROVE NestInv' /\ DataInv' /\ (MaskInv => MaskInv')
  <2> DEFINE f == frames[t]
  <2>1. /\ pc[t] = "user" /\ f # << >>
        /\ blocked' = [blocked EXCEPT ![t] = Last(f).mask] /\ frames' = [frames EXCEPT ![t] = Front(f)]
        /\ UNCHANGED << pc, old_blocked, umask, astray, actions, pending, shared_pending >>
    BY Zenon, <1>6 DEF sys_rt_sigreturn, Last, Front
  <2>2. f \in Seq(Frame) /\ Nested(f, blocked[t]) BY Zenon DEF NestInv, Typed
  <2>3. /\ Front(f) \in Seq(Frame) /\ Last(f).mask \in SUBSET Signals
        /\ Nested(Front(f), Last(f).mask)
        /\ Front(f) = << >> => Last(f) = f[1]
        /\ Front(f) # << >> => Front(f)[1] = f[1]
    BY Zenon, <2>1, <2>2, NestedPop
  <2>4. Typed' BY Zenon, <2>1, <2>3 DEF NestInv, Typed
  <2>5. /\ blocked'[t] = Last(f).mask /\ frames'[t] = Front(f)
        /\ \A u \in Threads : u # t => blocked'[u] = blocked[u] /\ frames'[u] = frames[u]
    BY Zenon, <2>1 DEF NestInv, Typed
  <2>6. NestInv' BY <2>1, <2>3, <2>4, <2>5 DEF NestInv, Suspended, Waiting
  <2>7. ASSUME MaskInv, NEW u \in Threads, pc'[u] # "exit", u \notin astray' PROVE umask'[u] = KeptMask(u)'
    <3>1. umask[u] = KeptMask(u) BY Zenon, <2>1, <2>7 DEF MaskInv
    <3>2. CASE u # t BY Zenon, <2>1, <2>5, <3>1, <3>2 DEF KeptMask, Suspended
    <3>3. CASE u = t
      <4>1. KeptMask(t) = f[1].mask BY Zenon, <2>1 DEF KeptMask, Suspended
      <4>2. KeptMask(t)' = f[1].mask BY Zenon, <2>1, <2>3, <2>5 DEF KeptMask, Suspended
      <4>3. QED BY Zenon, <4>1, <4>2, <3>1, <3>3, <2>1
    <3>4. QED BY Zenon, <3>2, <3>3
  <2>8. QED BY Zenon, <2>1, <2>6, <2>7 DEF DataInv, MaskInv
<1>7. ASSUME NEW t \in Threads, NEW m \in SuspendMasks, SuspendBegin(t, m)
      PROVE  NestInv' /\ DataInv' /\ (MaskInv => MaskInv')
  <2> DEFINE b == m \ {SIGKILL}
  <2>1. /\ pc[t] = "user" /\ frames[t] = << >>
        /\ old_blocked' = [old_blocked EXCEPT ![t] = blocked[t]]
        /\ blocked' = [blocked EXCEPT ![t] = b] /\ pc' = [pc EXCEPT ![t] = "s_check"]
        /\ UNCHANGED << frames, umask, astray, actions, pending, shared_pending >>
    BY Zenon, <1>7 DEF SuspendBegin, Main, Goto
  <2>2. b \in SUBSET Signals BY Zenon, SignalAssumption
  <2> HIDE DEF b
  <2>3. Typed' BY Zenon, <2>1, <2>2 DEF NestInv, Typed, Labels
  <2>4. /\ blocked'[t] = b /\ old_blocked'[t] = blocked[t] /\ pc'[t] = "s_check"
        /\ \A u \in Threads : u # t => /\ blocked'[u] = blocked[u] /\ pc'[u] = pc[u]
                                       /\ old_blocked'[u] = old_blocked[u]
    BY Zenon, <2>1 DEF NestInv, Typed
  <2>5. Nested(<< >>, b) BY DEF Nested
  <2>6. NestInv' BY Zenon, <2>1, <2>3, <2>4, <2>5 DEF NestInv, Suspended, Waiting
  <2>7. MaskInv => MaskInv' BY <2>1, <2>4 DEF MaskInv, KeptMask, Suspended
  <2>8. QED BY Zenon, <2>1, <2>6, <2>7 DEF DataInv
<1>8. ASSUME NEW t \in Threads, SuspendCheck(t)
      PROVE  NestInv' /\ DataInv' /\ (MaskInv => MaskInv')
  <2>1. CASE check_signals(t, old_blocked[t])
    BY Zenon, <1>8, <2>1, Check DEF SuspendCheck
  <2>2. CASE Deliverable(t) = {} /\ Goto(t, "s_wait")
             /\ UNCHANGED << actions, blocked, pending, shared_pending, frames, old_blocked, umask, astray >>
    <3>1. pc[t] = "s_check" /\ Suspended(t) BY Zenon, <1>8 DEF SuspendCheck, Suspended
    <3>2. frames[t] = << >> BY Zenon, <3>1 DEF NestInv
    <3>3. NestInv' /\ (MaskInv => MaskInv')
      BY Zenon, <2>2, <3>1, <3>2, Move DEF Goto, Labels
    <3>4. QED BY Zenon, <2>2, <3>3 DEF DataInv
  <2>3. QED BY Zenon, <1>8, <2>1, <2>2 DEF SuspendCheck
<1>9. ASSUME NEW t \in Threads, SuspendSleep(t)
      PROVE  NestInv' /\ DataInv' /\ (MaskInv => MaskInv')
  <2>1. /\ pc[t] = "s_wait" /\ pc' = [pc EXCEPT ![t] = "s_sleep"]
        /\ UNCHANGED << actions, blocked, pending, shared_pending, frames, old_blocked, umask, astray >>
    BY Zenon, <1>9 DEF SuspendSleep, Goto
  <2>2. frames[t] = << >> BY Zenon, <2>1 DEF NestInv, Suspended, Waiting
  <2>3. NestInv' /\ (MaskInv => MaskInv') BY Zenon, <2>1, <2>2, Move DEF Labels, Suspended
  <2>4. QED BY Zenon, <2>1, <2>3 DEF DataInv
<1>10. ASSUME NEW t \in Threads, NEW m \in Masks, WaitBegin(t, m)
      PROVE  NestInv' /\ DataInv' /\ (MaskInv => MaskInv')
  <2>1. /\ pc[t] = "user" /\ pc' = [pc EXCEPT ![t] = "w_check"]
        /\ UNCHANGED << actions, blocked, pending, shared_pending, frames, old_blocked, umask, astray >>
    BY Zenon, <1>10 DEF WaitBegin, Main, Goto
  <2>2. frames[t] = << >> BY Zenon, <1>10 DEF WaitBegin, Main
  <2>3. NestInv' /\ (MaskInv => MaskInv') BY Zenon, <2>1, <2>2, Move DEF Labels, Suspended
  <2>4. QED BY Zenon, <2>1, <2>3 DEF DataInv
<1>11. ASSUME NEW t \in Threads, WaitCheck(t) PROVE NestInv' /\ DataInv' /\ (MaskInv => MaskInv')
  <2>1. /\ pc[t] = "w_check"
        /\ pc' = [pc EXCEPT ![t] = "user"] \/ pc' = [pc EXCEPT ![t] = "w_wait"]
        /\ UNCHANGED << actions, blocked, frames, old_blocked, umask, astray >>
    BY Zenon, <1>11 DEF WaitCheck, Goto
  <2>2. frames[t] = << >> BY Zenon, <1>11 DEF WaitCheck, NestInv, Waiting
  <2>3. NestInv' /\ (MaskInv => MaskInv')
    <3>1. CASE pc' = [pc EXCEPT ![t] = "user"] BY Zenon, <1>11, <2>1, <2>2, <3>1, Move DEF WaitCheck, Labels, Suspended
    <3>2. CASE pc' = [pc EXCEPT ![t] = "w_wait"] BY Zenon, <1>11, <2>1, <2>2, <3>2, Move DEF WaitCheck, Labels, Suspended
    <3>3. QED BY Zenon, <2>1, <3>1, <3>2
  <2>4. DataInv' BY Zenon, <1>11 DEF WaitCheck, dequeue_signal, DataInv
  <2>5. QED BY Zenon, <2>3, <2>4
<1>12. ASSUME NEW t \in Threads, WaitSleep(t)
      PROVE  NestInv' /\ DataInv' /\ (MaskInv => MaskInv')
  <2>1. /\ pc[t] = "w_wait" /\ pc' = [pc EXCEPT ![t] = "w_sleep"]
        /\ UNCHANGED << actions, blocked, pending, shared_pending, frames, old_blocked, umask, astray >>
    BY Zenon, <1>12 DEF WaitSleep, Goto
  <2>2. frames[t] = << >> BY Zenon, <2>1 DEF NestInv, Suspended, Waiting
  <2>3. NestInv' /\ (MaskInv => MaskInv') BY Zenon, <2>1, <2>2, Move DEF Labels, Suspended
  <2>4. QED BY Zenon, <2>1, <2>3 DEF DataInv
<1>13. ASSUME NEW t \in Threads, WaitTimeout(t)
      PROVE  NestInv' /\ DataInv' /\ (MaskInv => MaskInv')
  <2>1. /\ pc[t] = "w_sleep" /\ pc' = [pc EXCEPT ![t] = "user"]
        /\ UNCHANGED << actions, blocked, pending, shared_pending, frames, old_blocked, umask, astray >>
    BY Zenon, <1>13 DEF WaitTimeout, Goto
  <2>2. frames[t] = << >> BY Zenon, <2>1 DEF NestInv, Suspended, Waiting
  <2>3. NestInv' /\ (MaskInv => MaskInv') BY Zenon, <2>1, <2>2, Move DEF Labels, Suspended
  <2>4. QED BY Zenon, <2>1, <2>3 DEF DataInv
<1>14. CASE UNCHANGED vars
  BY Zenon, <1>14 DEF vars, NestInv, Typed, DataInv, MaskInv, KeptMask, Suspended, Waiting
<1>15. QED
  BY <1>1, <1>2, <1>3, <1>4, <1>5, <1>6, <1>7, <1>8, <1>9, <1>10, <1>11, <1>12, <1>13, <1>14
  DEF Next, sys_kill, sys_tkill, sys_rt_sigqueueinfo, sys_rt_tgsigqueueinfo

LEMMA Start == Init => NestInv /\ DataInv /\ MaskInv
<1> SUFFICES ASSUME Init PROVE NestInv /\ DataInv /\ MaskInv BY Zenon
<1>1. \A m : Nested(<< >>, m) BY DEF Nested
<1>2. << >> \in Seq(Frame) OBVIOUS
<1>3. Typed BY Zenon, <1>2 DEF Init, Typed, Labels
<1>4. NestInv BY Zenon, <1>1, <1>3 DEF Init, NestInv
<1>5. DataInv BY Zenon, SignalAssumption DEF Init, DataInv
<1>6. MaskInv BY Zenon DEF Init, MaskInv, KeptMask, Suspended
<1>7. QED BY Zenon, <1>4, <1>5, <1>6

\* No handler is entered again for its own signal before it returns, for any
\* number of threads and signals (frames pushed by check_signals and popped by
\* sys_rt_sigreturn).
THEOREM HandlersDoNotRecurse == Spec => []NoRecursion
<1>1. NestInv /\ DataInv /\ [Next]_vars => NestInv' /\ DataInv' BY Zenon, Step
<1>2. NestInv => NoRecursion
  <2> SUFFICES ASSUME NestInv, NEW t \in Threads, NEW i \in 1..Len(frames[t]), NEW j \in 1..Len(frames[t]), i # j
               PROVE  frames[t][i].sig # frames[t][j].sig
    BY Zenon DEF NoRecursion
  <2>1. Nested(frames[t], blocked[t]) /\ frames[t] \in Seq(Frame) BY Zenon DEF NestInv, Typed
  <2>2. Len(frames[t]) \in Nat BY <2>1
  <2>3. CASE i < j BY <2>1, <2>2, <2>3 DEF Nested
  <2>4. CASE j < i BY <2>1, <2>2, <2>4 DEF Nested
  <2>5. QED BY SMTT(30), <2>2, <2>3, <2>4
<1>3. QED BY <1>1, <1>2, Start, PTL DEF Spec

\* The program outside of handlers runs under the mask it set last
\* (sys_rt_sigprocmask), whatever handlers ran and whatever masks sigsuspend
\* installed meanwhile; the one exception is a thread that a continue took out
\* of sigsuspend and that has not set its mask since.
THEOREM MaskIsRestored == Spec => []MaskRestored
<1>1. NestInv /\ DataInv /\ MaskInv /\ [Next]_vars => NestInv' /\ DataInv' /\ MaskInv'
  BY Zenon, Step
<1>2. MaskInv => MaskRestored
  BY Zenon DEF MaskInv, MaskRestored, KeptMask, Main, Suspended
<1>3. QED BY <1>1, <1>2, Start, PTL DEF Spec
-----------------------------------------------------------------------------
(* The wait queue *)

Asleep == {"s_sleep", "w_sleep"}

\* The queue and the program counters agree.
Queued ==
    /\ wq \in Seq(Threads)
    /\ \A i \in 1..Len(wq) : pc[wq[i]] \in Asleep
    /\ \A t \in Threads : pc[t] \in Asleep => \E i \in 1..Len(wq) : wq[i] = t
    /\ \A i, j \in 1..Len(wq) : wq[i] = wq[j] => i = j

RestInv ==
    /\ actions[SIGKILL] = "terminate" /\ set \in [Threads -> SUBSET Signals]
    /\ exited \in BOOLEAN /\ sent \in 0..MaxSent

RemoveAt(s, i) == SubSeq(s, 1, i - 1) \o SubSeq(s, i + 1, Len(s))

\* What is left when one element of a sequence is taken out.
LEMMA Removed ==
    ASSUME NEW S, NEW s \in Seq(S), NEW i \in 1..Len(s)
    PROVE  /\ RemoveAt(s, i) \in Seq(S) /\ Len(RemoveAt(s, i)) = Len(s) - 1
           /\ \A k \in 1..(Len(s) - 1) : RemoveAt(s, i)[k] = IF k < i THEN s[k] ELSE s[k + 1]
<1>1. PICK n : n = Len(s) BY Zenon
<1>2. n \in Nat /\ i \in 1..n BY <1>1
<1>3. PICK a, b : a = SubSeq(s, 1, i - 1) /\ b = SubSeq(s, i + 1, n) BY Zenon
<1>4. a \in Seq(S) /\ Len(a) = i - 1 /\ \A k \in 1..(i - 1) : a[k] = s[k]
  BY <1>1, <1>2, <1>3
<1>5. b \in Seq(S) /\ Len(b) = n - i /\ \A k \in 1..(n - i) : b[k] = s[i + k]
  BY <1>1, <1>2, <1>3
<1>6. RemoveAt(s, i) = a \o b BY Zenon, <1>1, <1>3 DEF RemoveAt
<1>7. /\ a \o b \in Seq(S) /\ Len(a \o b) = n - 1
      /\ \A k \in 1..(n - 1) : (a \o b)[k] = IF k <= i - 1 THEN a[k] ELSE b[k - (i - 1)]
  <2>1. (i - 1) + (n - i) = n - 1 BY <1>2
  <2> QED BY <2>1, <1>4, <1>5, ConcatProperties
<1>8. \A k \in 1..(n - 1) : (a \o b)[k] = IF k < i THEN s[k] ELSE s[k + 1]
  <2> SUFFICES ASSUME NEW k \in 1..(n - 1) PROVE (a \o b)[k] = IF k < i THEN s[k] ELSE s[k + 1]
    BY Zenon
  <2>1. CASE k < i
    <3>1. k \in 1..(i - 1) /\ k <= i - 1 BY <2>1, <1>2
    <3> QED BY Zenon, <3>1, <2>1, <1>4, <1>7
  <2>2. CASE ~(k < i)
    <3>1. k - (i - 1) \in 1..(n - i) /\ i + (k - (i - 1)) = k + 1 /\ ~(k <= i - 1) BY <2>2, <1>2
    <3> QED BY Zenon, <3>1, <2>2, <1>5, <1>7
  <2> QED BY Zenon, <2>1, <2>2
<1> QED BY Zenon, <1>1, <1>6, <1>7, <1>8

\* A step that puts no thread to sleep and wakes none.
LEMMA QueueStays ==
    ASSUME Queued, wq' = wq, \A t \in Threads : pc'[t] \in Asleep <=> pc[t] \in Asleep
    PROVE  Queued'
<1>1. \A i \in 1..Len(wq) : wq[i] \in Threads BY DEF Queued
<1> QED BY Zenon, <1>1 DEF Queued

\* A thread moves between labels where it is awake.
LEMMA AwakeMove ==
    ASSUME Queued, pc \in [Threads -> Labels], wq' = wq, NEW t \in Threads, NEW k,
           pc' = [pc EXCEPT ![t] = k], pc[t] \notin Asleep, k \notin Asleep
    PROVE  Queued'
<1>1. \A u \in Threads : pc'[u] = IF u = t THEN k ELSE pc[u] BY Zenon
<1> QED BY Zenon, <1>1, QueueStays

\* A thread goes to sleep at the end of the queue.
LEMMA SleepMove ==
    ASSUME Queued, pc \in [Threads -> Labels], NEW t \in Threads, NEW k \in Asleep,
           wq' = Append(wq, t), pc' = [pc EXCEPT ![t] = k], pc[t] \notin Asleep
    PROVE  Queued'
<1>1. \A u \in Threads : pc'[u] = IF u = t THEN k ELSE pc[u] BY Zenon
<1>2. PICK n : n = Len(wq) BY Zenon
<1>3. /\ wq \in Seq(Threads) /\ n \in Nat
      /\ \A i \in 1..n : wq[i] \in Threads /\ pc[wq[i]] \in Asleep
      /\ \A i, j \in 1..n : wq[i] = wq[j] => i = j
      /\ \A u \in Threads : pc[u] \in Asleep => \E i \in 1..n : wq[i] = u
  BY <1>2 DEF Queued
<1>4. /\ wq' \in Seq(Threads) /\ Len(wq') = n + 1 /\ wq'[n + 1] = t
      /\ \A i \in 1..n : wq'[i] = wq[i]
  BY <1>2, <1>3, AppendProperties
<1>5. \A i \in 1..(n + 1) : i \in 1..n \/ i = n + 1 BY <1>3
<1>6. \A i \in 1..n : wq[i] # t BY Zenon, <1>3
<1>7. \A i \in 1..(n + 1) : pc'[wq'[i]] \in Asleep BY SMTT(30), <1>1, <1>3, <1>4, <1>5
<1>8. \A i, j \in 1..(n + 1) : wq'[i] = wq'[j] => i = j BY <1>3, <1>4, <1>5, <1>6
<1>9. ASSUME NEW u \in Threads, pc'[u] \in Asleep PROVE \E i \in 1..(n + 1) : wq'[i] = u
  <2>1. CASE u = t
    <3>1. n + 1 \in 1..(n + 1) BY <1>3
    <3> QED BY Zenon, <3>1, <2>1, <1>4
  <2>2. CASE u # t
    <3>1. PICK i \in 1..n : wq[i] = u BY Zenon, <2>2, <1>1, <1>3, <1>9
    <3>2. i \in 1..(n + 1) BY <1>3
    <3> QED BY Zenon, <3>1, <3>2, <1>4
  <2> QED BY Zenon, <2>1, <2>2
<1> QED BY <1>4, <1>7, <1>8, <1>9 DEF Queued

\* A thread leaves the queue from its place q and wakes up.
LEMMA WakeMove ==
    ASSUME Queued, pc \in [Threads -> Labels], NEW q \in 1..Len(wq), NEW k, k \notin Asleep,
           pc' = [pc EXCEPT ![wq[q]] = k], wq' \in Seq(Threads), Len(wq') = Len(wq) - 1,
           \A i \in 1..(Len(wq) - 1) : wq'[i] = IF i < q THEN wq[i] ELSE wq[i + 1]
    PROVE  Queued'
<1>1. PICK n, t : n = Len(wq) /\ t = wq[q] BY Zenon
<1>2. /\ wq \in Seq(Threads) /\ n \in Nat /\ q \in 1..n /\ t \in Threads
      /\ \A i \in 1..n : wq[i] \in Threads /\ pc[wq[i]] \in Asleep
      /\ \A i, j \in 1..n : wq[i] = wq[j] => i = j
      /\ \A u \in Threads : pc[u] \in Asleep => \E i \in 1..n : wq[i] = u
  BY <1>1 DEF Queued
<1>3. \A u \in Threads : pc'[u] = IF u = t THEN k ELSE pc[u] BY Zenon, <1>1
<1>4. PICK at : at = [i \in 1..(n - 1) |-> IF i < q THEN i ELSE i + 1] BY Zenon
<1>5. /\ \A i \in 1..(n - 1) : at[i] \in 1..n /\ at[i] # q
      /\ \A i, j \in 1..(n - 1) : at[i] = at[j] => i = j
  BY <1>2, <1>4
<1>6. \A i \in 1..(n - 1) : wq'[i] = wq[at[i]]
  <2>1. \A i \in 1..(n - 1) : wq'[i] = IF i < q THEN wq[i] ELSE wq[i + 1] BY <1>1, Zenon
  <2>2. \A i \in 1..(n - 1) : at[i] = IF i < q THEN i ELSE i + 1 BY <1>4, Zenon
  <2> QED BY Zenon, <2>1, <2>2
<1>7. \A i \in 1..(n - 1) : wq[at[i]] # t
  <2>1. wq[q] = t BY Zenon, <1>1
  <2> QED BY Zenon, <2>1, <1>2, <1>5
<1>8. \A i \in 1..(n - 1) : pc'[wq'[i]] \in Asleep BY <1>2, <1>3, <1>5, <1>6, <1>7
<1>9. ASSUME NEW i \in 1..(n - 1), NEW j \in 1..(n - 1), wq'[i] = wq'[j] PROVE i = j
  <2>1. at[i] \in 1..n /\ at[j] \in 1..n /\ wq[at[i]] = wq[at[j]] BY Zenon, <1>5, <1>6, <1>9
  <2>2. at[i] = at[j] BY Zenon, <2>1, <1>2
  <2> QED BY Zenon, <2>2, <1>5
<1>10. ASSUME NEW u \in Threads, pc'[u] \in Asleep PROVE \E i \in 1..(n - 1) : wq'[i] = u
  <2>1. u # t /\ pc[u] \in Asleep BY Zenon, <1>3, <1>10
  <2>2. PICK i \in 1..n : wq[i] = u BY Zenon, <2>1, <1>2
  <2>3. i # q BY Zenon, <2>1, <2>2, <1>1
  <2>4. \E j \in 1..(n - 1) : at[j] = i
    <3>1. CASE i < q
      <4>1. i \in 1..(n - 1) /\ at[i] = i BY <3>1, <1>2, <1>4
      <4> QED BY Zenon, <4>1
    <3>2. CASE i > q
      <4>1. i - 1 \in 1..(n - 1) /\ at[i - 1] = i BY <3>2, <1>2, <1>4
      <4> QED BY Zenon, <4>1
    <3> QED BY SMTT(30), <3>1, <3>2, <2>3, <1>2
  <2> QED BY Zenon, <2>2, <2>4, <1>6
<1>11. Len(wq') = n - 1 BY Zenon, <1>1
<1> QED BY Zenon, <1>8, <1>9, <1>10, <1>11 DEF Queued

LEMMA NotifyQueue ==
    ASSUME Queued, pc \in [Threads -> Labels], notify_one
    PROVE  Queued'
<1>1. CASE wq = << >>
  <2>1. wq' = wq /\ pc' = pc BY Zenon, <1>1 DEF notify_one
  <2> QED BY Zenon, <2>1, QueueStays
<1>2. CASE wq # << >>
  <2>1. wq \in Seq(Threads) BY Zenon DEF Queued
  <2>2. Len(wq) \in Nat /\ 1 \in 1..Len(wq) /\ Head(wq) = wq[1] BY <2>1, <1>2
  <2>3. pc[wq[1]] \in Asleep BY Zenon, <2>2 DEF Queued
  <2>4. PICK k : /\ pc' = [pc EXCEPT ![wq[1]] = k]
                 /\ k = CASE pc[wq[1]] = "s_sleep" -> "s_check" [] pc[wq[1]] = "w_sleep" -> "w_check"
                          [] OTHER -> pc[wq[1]]
    BY <2>2, <1>2, Zenon DEF notify_one, Goto
  <2>5. k \notin Asleep BY Zenon, <2>3, <2>4 DEF Asleep
  <2>6. wq' = Tail(wq) BY Zenon, <1>2 DEF notify_one
  <2>7. /\ wq' \in Seq(Threads) /\ Len(wq') = Len(wq) - 1
        /\ \A i \in 1..(Len(wq) - 1) : wq'[i] = wq[i + 1]
    BY <2>1, <2>6, <1>2, HeadTailProperties
  <2>8. \A i \in 1..(Len(wq) - 1) : wq'[i] = IF i < 1 THEN wq[i] ELSE wq[i + 1] BY <2>2, <2>7
  <2>9. pc' = [pc EXCEPT ![wq[1]] = k] BY Zenon, <2>4
  <2> QED BY Zenon, <2>2, <2>5, <2>7, <2>8, <2>9, WakeMove
<1> QED BY Zenon, <1>1, <1>2

LEMMA CheckQueue ==
    ASSUME Queued, pc \in [Threads -> Labels], NEW t \in Threads, NEW r, check_signals(t, r),
           actions \in [Signals -> {"terminate", "ignore", "continue", "handler"}], DataInv, pc[t] \notin Asleep
    PROVE  Queued'
<1>1. wq' = wq BY Zenon DEF check_signals
<1>2. PICK sig \in Deliverable(t) :
        CASE actions[sig] = "ignore" -> UNCHANGED << blocked, frames, pc, exited, astray >>
          [] actions[sig] = "terminate" ->
                exited' = TRUE /\ Goto(t, "exit") /\ UNCHANGED << blocked, frames, astray >>
          [] actions[sig] = "continue" ->
                /\ Goto(t, "user") /\ UNCHANGED << blocked, frames, exited >>
                /\ astray' = astray \cup (IF pc[t] = "s_check" THEN {t} ELSE {})
          [] actions[sig] = "handler" ->
                PushFrame(t, sig, r) /\ Goto(t, "user") /\ UNCHANGED << exited, astray >>
  BY Zenon DEF check_signals
<1>3. actions[sig] \in {"ignore", "terminate", "continue", "handler"}
  BY Zenon, SignalAssumption DEF Deliverable, DataInv
<1>4. pc' = pc \/ pc' = [pc EXCEPT ![t] = "exit"] \/ pc' = [pc EXCEPT ![t] = "user"]
  BY Zenon, <1>2, <1>3 DEF Goto
<1>5. CASE pc' = pc BY Zenon, <1>1, <1>5, QueueStays
<1>6. CASE pc' = [pc EXCEPT ![t] = "exit"] BY Zenon, <1>1, <1>6, AwakeMove DEF Asleep
<1>7. CASE pc' = [pc EXCEPT ![t] = "user"] BY Zenon, <1>1, <1>7, AwakeMove DEF Asleep
<1> QED BY <1>4, <1>5, <1>6, <1>7

LEMMA TimeoutQueue ==
    ASSUME Queued, pc \in [Threads -> Labels], NEW t \in Threads, Leave(t), Goto(t, "user")
    PROVE  Queued'
<1>1. PICK q \in 1..Len(wq) : wq[q] = t /\ wq' = RemoveAt(wq, q) BY Zenon DEF Leave, RemoveAt
<1>2. wq \in Seq(Threads) BY Zenon DEF Queued
<1>3. /\ wq' \in Seq(Threads) /\ Len(wq') = Len(wq) - 1
      /\ \A i \in 1..(Len(wq) - 1) : wq'[i] = IF i < q THEN wq[i] ELSE wq[i + 1]
  BY Zenon, <1>1, <1>2, Removed
<1>4. pc' = [pc EXCEPT ![wq[q]] = "user"] BY Zenon, <1>1 DEF Goto
<1>5. "user" \notin Asleep BY Zenon DEF Asleep
<1> QED BY Zenon, <1>3, <1>4, <1>5, WakeMove

\* Only the threads that go to sleep are put in the queue, and only those that
\* are woken, or time out, are taken out.
LEMMA QueueStep ==
    ASSUME NestInv, DataInv, Queued, [Next]_vars
    PROVE  Queued'
<1>0. pc \in [Threads -> Labels] BY Zenon DEF NestInv, Typed
<1> USE DEF Asleep
<1>1. ASSUME NEW sig \in Signals, send_signal_process(sig) PROVE Queued'
  BY Zenon, <1>0, <1>1, NotifyQueue DEF send_signal_process
<1>2. ASSUME NEW t \in Threads, NEW sig \in Signals, send_signal_thread(t, sig) PROVE Queued'
  BY Zenon, <1>0, <1>2, NotifyQueue DEF send_signal_thread
<1>3. ASSUME NEW t \in Threads, PostTrap(t) PROVE Queued'
  BY Zenon, <1>0, <1>3, CheckQueue DEF PostTrap, DataInv
<1>4. ASSUME NEW t \in Threads, NEW how, NEW m, sys_rt_sigprocmask(t, how, m) PROVE Queued'
  <2>1. wq' = wq /\ pc' = pc BY Zenon, <1>4 DEF sys_rt_sigprocmask
  <2> QED BY Zenon, <2>1, QueueStays
<1>5. ASSUME NEW t \in Threads, NEW sig, NEW act, sys_rt_sigaction(t, sig, act) PROVE Queued'
  <2>1. wq' = wq /\ pc' = pc BY Zenon, <1>5 DEF sys_rt_sigaction
  <2> QED BY Zenon, <2>1, QueueStays
<1>6. ASSUME NEW t \in Threads, sys_rt_sigreturn(t) PROVE Queued'
  <2>1. wq' = wq /\ pc' = pc BY Zenon, <1>6 DEF sys_rt_sigreturn
  <2> QED BY Zenon, <2>1, QueueStays
<1>7. ASSUME NEW t \in Threads, NEW m, SuspendBegin(t, m) PROVE Queued'
  BY Zenon, <1>0, <1>7, AwakeMove DEF SuspendBegin, Main, Goto
<1>8. ASSUME NEW t \in Threads, SuspendCheck(t) PROVE Queued'
  <2>1. pc[t] = "s_check" BY Zenon, <1>8 DEF SuspendCheck
  <2>2. CASE check_signals(t, old_blocked[t]) BY Zenon, <1>0, <2>1, <2>2, CheckQueue DEF DataInv
  <2>3. CASE Goto(t, "s_wait") /\ wq' = wq BY Zenon, <1>0, <2>1, <2>3, AwakeMove DEF Goto
  <2> QED BY Zenon, <1>8, <2>2, <2>3 DEF SuspendCheck
<1>9. ASSUME NEW t \in Threads, SuspendSleep(t) PROVE Queued'
  BY Zenon, <1>0, <1>9, SleepMove DEF SuspendSleep, Goto
<1>10. ASSUME NEW t \in Threads, NEW m, WaitBegin(t, m) PROVE Queued'
  BY Zenon, <1>0, <1>10, AwakeMove DEF WaitBegin, Main, Goto
<1>11. ASSUME NEW t \in Threads, WaitCheck(t) PROVE Queued'
  <2>1. /\ wq' = wq /\ pc[t] = "w_check"
        /\ pc' = [pc EXCEPT ![t] = "user"] \/ pc' = [pc EXCEPT ![t] = "w_wait"]
    BY Zenon, <1>11 DEF WaitCheck, Goto
  <2> QED BY Zenon, <2>1, <1>0, AwakeMove
<1>12. ASSUME NEW t \in Threads, WaitSleep(t) PROVE Queued'
  BY Zenon, <1>0, <1>12, SleepMove DEF WaitSleep, Goto
<1>13. ASSUME NEW t \in Threads, WaitTimeout(t) PROVE Queued'
  BY Zenon, <1>0, <1>13, TimeoutQueue DEF WaitTimeout
<1>14. CASE UNCHANGED vars BY Zenon, <1>14, QueueStays DEF vars
<1> QED
  BY <1>1, <1>2, <1>3, <1>4, <1>5, <1>6, <1>7, <1>8, <1>9, <1>10, <1>11, <1>12, <1>13, <1>14
  DEF Next, sys_kill, sys_tkill, sys_rt_sigqueueinfo, sys_rt_tgsigqueueinfo

LEMMA RestStep == ASSUME DataInv, RestInv, Typed, [Next]_vars PROVE RestInv'
<1>0. /\ actions[SIGKILL] = "terminate" /\ set \in [Threads -> SUBSET Signals]
      /\ exited \in BOOLEAN /\ sent \in 0..MaxSent /\ MaxSent \in Nat
      /\ blocked \in [Threads -> SUBSET Signals]
  BY Zenon, SignalAssumption DEF RestInv, Typed
<1>1. actions'[SIGKILL] = "terminate"
  <2>1. CASE actions' = actions BY Zenon, <2>1, <1>0
  <2>2. CASE actions' # actions
    <3>1. PICK t \in Threads, sig \in Signals, act \in Dispositions : sys_rt_sigaction(t, sig, act)
      BY Zenon, <2>2 DEF Next, vars, sys_kill, sys_tkill, sys_rt_sigqueueinfo, sys_rt_tgsigqueueinfo,
         send_signal_process, send_signal_thread, PostTrap, check_signals, sys_rt_sigprocmask,
         sys_rt_sigreturn, SuspendBegin, SuspendCheck, SuspendSleep, WaitBegin, WaitCheck, WaitSleep, WaitTimeout
    <3>2. sig # SIGKILL /\ \E a : actions' = [actions EXCEPT ![sig] = a] BY Zenon, <3>1 DEF sys_rt_sigaction
    <3> QED BY Zenon, <3>2, <1>0, SignalAssumption DEF DataInv
  <2> QED BY Zenon, <2>1, <2>2
<1>2. set' \in [Threads -> SUBSET Signals]
  <2>1. CASE set' = set BY Zenon, <2>1, <1>0
  <2>2. CASE set' # set
    <3>1. PICK t \in Threads, s \in Masks : WaitBegin(t, s)
      BY Zenon, <2>2 DEF Next, vars, sys_kill, sys_tkill, sys_rt_sigqueueinfo, sys_rt_tgsigqueueinfo,
         send_signal_process, send_signal_thread, PostTrap, check_signals, sys_rt_sigprocmask, sys_rt_sigaction,
         sys_rt_sigreturn, SuspendBegin, SuspendCheck, SuspendSleep, WaitCheck, WaitSleep, WaitTimeout
    <3>2. set' = [set EXCEPT ![t] = s \cap blocked[t]] BY Zenon, <3>1 DEF WaitBegin
    <3> QED BY Zenon, <3>2, <1>0
  <2> QED BY Zenon, <2>1, <2>2
<1>3. sent' \in 0..MaxSent
  <2>1. CASE sent' = sent BY Zenon, <2>1, <1>0
  <2>2. CASE sent' # sent
    <3>1. sent < MaxSent /\ sent' = sent + 1
      BY Zenon, <2>2 DEF Next, vars, sys_kill, sys_tkill, sys_rt_sigqueueinfo, sys_rt_tgsigqueueinfo,
         send_signal_process, send_signal_thread, PostTrap, check_signals, sys_rt_sigprocmask, sys_rt_sigaction,
         sys_rt_sigreturn, SuspendBegin, SuspendCheck, SuspendSleep, WaitBegin, WaitCheck, WaitSleep, WaitTimeout
    <3> QED BY SMTT(30), <3>1, <1>0
  <2> QED BY Zenon, <2>1, <2>2
<1>4. exited' \in BOOLEAN
  <2>1. CASE exited' = exited BY Zenon, <2>1, <1>0
  <2>2. CASE exited' # exited
    <3>0. PICK t \in Threads : \E r : check_signals(t, r)
      BY Zenon, <2>2 DEF Next, vars, sys_kill, sys_tkill, sys_rt_sigqueueinfo, sys_rt_tgsigqueueinfo,
         send_signal_process, send_signal_thread, PostTrap, sys_rt_sigprocmask, sys_rt_sigaction,
         sys_rt_sigreturn, SuspendBegin, SuspendCheck, SuspendSleep, WaitBegin, WaitCheck, WaitSleep, WaitTimeout
    <3>1. PICK r : check_signals(t, r) BY Zenon, <3>0
    <3>2. PICK sig \in Deliverable(t) :
        CASE actions[sig] = "ignore" -> UNCHANGED << blocked, frames, pc, exited, astray >>
          [] actions[sig] = "terminate" ->
                exited' = TRUE /\ Goto(t, "exit") /\ UNCHANGED << blocked, frames, astray >>
          [] actions[sig] = "continue" ->
                /\ Goto(t, "user") /\ UNCHANGED << blocked, frames, exited >>
                /\ astray' = astray \cup (IF pc[t] = "s_check" THEN {t} ELSE {})
          [] actions[sig] = "handler" ->
                PushFrame(t, sig, r) /\ Goto(t, "user") /\ UNCHANGED << exited, astray >>
      BY Zenon, <3>1 DEF check_signals
    <3>3. actions[sig] \in {"ignore", "terminate", "continue", "handler"}
      BY Zenon, SignalAssumption DEF Deliverable, DataInv
    <3>4. exited' = TRUE BY Zenon, <2>2, <3>2, <3>3
    <3> QED BY Zenon, <3>4
  <2> QED BY Zenon, <2>1, <2>2
<1> QED BY Zenon, <1>1, <1>2, <1>3, <1>4 DEF RestInv

\* For any number of threads and signals the queue of wait_signal and
\* wait_timeout holds each sleeping thread once and no other, so every
\* notify_one of a sent signal wakes a thread that sleeps, if there is one.
THEOREM QueueHoldsSleepers == Spec => []SleepersQueued
<1>1. Init => Queued /\ RestInv
  <2> SUFFICES ASSUME Init PROVE Queued /\ RestInv BY Zenon
  <2>1. wq = << >> /\ \A t \in Threads : pc[t] = "user" BY Zenon DEF Init
  <2>a. << >> \in Seq(Threads) /\ 1..Len(<< >>) = {} OBVIOUS
  <2>b. Queued BY Zenon, <2>1, <2>a DEF Queued, Asleep
  <2>2. RestInv
    <3>1. 0 \in 0..MaxSent BY SignalAssumption
    <3>2. actions[SIGKILL] = "terminate" /\ set = [t \in Threads |-> {}] /\ exited = FALSE /\ sent = 0
      BY Zenon, SignalAssumption DEF Init
    <3>3. set \in [Threads -> SUBSET Signals] BY Zenon, <3>2
    <3> QED BY ZenonT(30), <3>1, <3>2, <3>3 DEF RestInv
  <2> QED BY Zenon, <2>2, <2>b
<1>2. NestInv /\ DataInv /\ Queued /\ RestInv /\ [Next]_vars =>
          NestInv' /\ DataInv' /\ Queued' /\ RestInv'
  BY Zenon, Step, QueueStep, RestStep DEF NestInv
<1>3. NestInv /\ DataInv /\ Queued /\ RestInv => SleepersQueued
  <2> SUFFICES ASSUME NestInv, DataInv, Queued, RestInv PROVE SleepersQueued BY Zenon
  <2>1. TypeOK BY Zenon DEF NestInv, Typed, Labels, Frame, DataInv, Queued, RestInv, TypeOK
  <2>2. DOMAIN wq = 1..Len(wq) BY DEF Queued
  <2>3. \A t \in Threads : t \in Range(wq) <=> pc[t] \in {"s_sleep", "w_sleep"}
    BY <2>2 DEF Range, Queued, Asleep
  <2>4. IsInjective(wq) BY Zenon, <2>2 DEF IsInjective, Queued
  <2> QED BY Zenon, <2>1, <2>3, <2>4 DEF SleepersQueued
<1> QED BY <1>1, <1>2, <1>3, Start, PTL DEF Spec
=============================================================================
