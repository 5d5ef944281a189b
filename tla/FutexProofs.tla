---------------------------- MODULE FutexProofs -----------------------------
(***************************************************************************)
(* The futex table never detaches a queue in use, and every sleeper stays  *)
(* where a wake finds it, for any set of threads, addresses and words.     *)
(***************************************************************************)
EXTENDS Futex, SequenceTheorems, TLAPS

(* What the futex table and the guards on it keep: the queue that a thread *)
(* looked up stays the one of its address.                                 *)

Apart == \A a, b \in Addrs : a # b /\ table[a] # 0 => table[a] # table[b]

\* No queue ever leaves the table.
Reach == \A q \in QueueIds : \E a \in Addrs : table[a] = q

Holding == {"wait_sleep", "asleep", "notify", "requeue_move", "drop"}
Holding2 == {"notify", "requeue_move", "drop", "drop2"}

\* What the place of a thread in its call says about its locals and guards.
Fine(t) ==
    /\ guard[t] # 0 => addr[t] \in Addrs /\ table[addr[t]] = guard[t]
    /\ guard2[t] # 0 => addr2[t] \in Addrs /\ table[addr2[t]] = guard2[t]
    /\ pc[t] \in {"wait_get", "exit_get"} => addr[t] \in Addrs
    /\ cmd[t] = "requeue" => addr[t] \in Addrs /\ addr2[t] \in Addrs
    /\ pc[t] \in Holding => guard[t] # 0
    /\ guard[t] # 0 => pc[t] \in Holding \cup {"requeue_get2"}
    /\ guard2[t] # 0 <=> cmd[t] = "requeue" /\ pc[t] \in Holding2
    /\ pc[t] \in {"requeue_get2", "requeue_move", "drop2"} => cmd[t] = "requeue"
    /\ pc[t] \in {"wait_get", "wait_sleep", "asleep"} => cmd[t] = "wait"
    /\ pc[t] = "exit_get" => cmd[t] = "exit"

Inv == TypeOK /\ Apart /\ Reach /\ \A t \in Threads : Fine(t)

\* The entry and the guard being dropped are two references: the clean-up of
\* WaitQueueGuard::drop does not happen while its entry is there.
LEMMA TwoReferences ==
    ASSUME TypeOK, NEW a \in Addrs, NEW t \in Threads, NEW q, table[a] = q,
           guard[t] = q \/ guard2[t] = q
    PROVE  ~ \E r \in strong_refs(q) : strong_refs(q) = {r}
<1>1. << "entry", a >> \in strong_refs(q)
    BY DEF strong_refs
<1>2. << "wq", t >> \in strong_refs(q) \/ << "wq2", t >> \in strong_refs(q)
    BY DEF strong_refs
<1>3. << "entry", a >> # << "wq", t >> /\ << "entry", a >> # << "wq2", t >>
    OBVIOUS
<1>4. QED
    BY Zenon, <1>1, <1>2, <1>3

\* The table and the queues after get_or_insert(a).
LEMMA Inserted ==
    ASSUME TypeOK, Apart, Reach, NEW a \in Addrs,
           \/ table[a] # 0 /\ UNCHANGED << table, queues >>
           \/ /\ table[a] = 0 /\ queues' = Append(queues, << >>)
              /\ table' = [table EXCEPT ![a] = Len(queues) + 1]
    PROVE  /\ queues' \in Seq(Seq(Threads)) /\ Len(queues') \in Nat /\ Len(queues) \in Nat
           /\ Len(queues') >= Len(queues)
           /\ table' \in [Addrs -> 0 .. Len(queues')] /\ table'[a] # 0
           /\ \A b \in Addrs : table[b] # 0 => table'[b] = table[b]
           /\ Apart' /\ Reach'
           /\ \A q \in QueueIds : queues'[q] = queues[q]
           /\ \A q \in QueueIds' : q \in QueueIds \/ queues'[q] = << >>
<1>1. queues \in Seq(Seq(Threads)) /\ Len(queues) \in Nat
      /\ table \in [Addrs -> 0 .. Len(queues)]
    BY DEF TypeOK
<1>2. CASE table[a] # 0 /\ UNCHANGED << table, queues >>
    BY <1>1, <1>2 DEF Apart, Reach, QueueIds
<1>3. CASE /\ table[a] = 0 /\ queues' = Append(queues, << >>)
           /\ table' = [table EXCEPT ![a] = Len(queues) + 1]
  <2>1. << >> \in Seq(Threads)
      OBVIOUS
  <2>2. /\ queues' \in Seq(Seq(Threads)) /\ Len(queues') = Len(queues) + 1
        /\ \A q \in 1 .. Len(queues) : queues'[q] = queues[q]
        /\ queues'[Len(queues) + 1] = << >>
      BY <1>1, <1>3, <2>1, AppendProperties
  <2>3. table' \in [Addrs -> 0 .. Len(queues')] /\ table'[a] = Len(queues) + 1
        /\ \A b \in Addrs : b # a => table'[b] = table[b]
      BY <1>1, <1>3, <2>2
  <2>4. Apart'
      BY <1>1, <2>3, <1>3 DEF Apart
  <2>5. Reach'
    <3> SUFFICES ASSUME NEW q \in QueueIds' PROVE \E b \in Addrs : table'[b] = q
        BY Zenon DEF Reach
    <3>1. CASE q = Len(queues) + 1
        BY Zenon, <3>1, <2>3
    <3>2. CASE q \in 1 .. Len(queues)
      <4>1. PICK b \in Addrs : table[b] = q
          BY Zenon, <3>2 DEF Reach, QueueIds
      <4>2. b # a
          BY <4>1, <3>2, <1>3
      <4>3. QED
          BY Zenon, <4>1, <4>2, <2>3
    <3>3. QED
        BY <3>1, <3>2, <2>2, <1>1 DEF QueueIds
  <2>6. QED
      BY <1>1, <1>3, <2>2, <2>3, <2>4, <2>5 DEF QueueIds
<1>4. QED
    BY Zenon, <1>2, <1>3

\* A step of another thread leaves u alone, or wakes it.
Same(u) ==
    /\ guard'[u] = guard[u] /\ guard2'[u] = guard2[u] /\ cmd'[u] = cmd[u]
    /\ addr'[u] = addr[u] /\ addr2'[u] = addr2[u]
    /\ pc'[u] = pc[u] \/ (pc[u] = "asleep" /\ pc'[u] = "drop")

\* A step of t that keeps the entries of the table is fine for all when it is
\* fine for t.
LEMMA Frame ==
    ASSUME Inv, NEW t \in Threads, Fine(t)',
           \A b \in Addrs : table[b] # 0 => table'[b] = table[b],
           \A u \in Threads \ {t} : Same(u)
    PROVE  \A u \in Threads : Fine(u)'
<1> SUFFICES ASSUME NEW u \in Threads \ {t} PROVE Fine(u)'
    BY Zenon
<1>1. Fine(u) /\ Same(u)
    BY Zenon DEF Inv
<1>2. /\ guard'[u] # 0 => addr'[u] \in Addrs /\ table'[addr'[u]] = guard'[u]
      /\ guard2'[u] # 0 => addr2'[u] \in Addrs /\ table'[addr2'[u]] = guard2'[u]
    BY <1>1 DEF Fine, Same
<1>3. CASE pc'[u] = pc[u]
    BY <1>1, <1>2, <1>3 DEF Fine, Same
<1>4. CASE pc[u] = "asleep" /\ pc'[u] = "drop"
    BY Zenon, <1>1, <1>2, <1>4 DEF Fine, Same, Holding, Holding2
<1>5. QED
    BY Zenon, <1>1, <1>3, <1>4 DEF Same

\* The steps that leave the table and the queues alone.
LEMMA LocalSteps ==
    ASSUME Inv, NEW t \in Threads,
           \/ \E a \in Addrs, v \in Words, b \in BOOLEAN : WaitCheck(t, a, v, b)
           \/ \E a \in Addrs, n \in Counts : WakeGet(t, a, n)
           \/ WaitRefused(t) \/ NotifyEnd(t)
           \/ \E a, a2 \in Addrs, n \in Counts, n2 \in Moves : RequeueGet(t, a, a2, n, n2)
           \/ ExitClear(t) \/ ExitGet(t)
    PROVE  Inv' /\ UNCHANGED << table, queues >>
<1>0. TypeOK /\ Fine(t) /\ Counts \subseteq Nat /\ Moves \subseteq Nat /\ 0 \in Words
    BY Zenon, FutexAssumption DEF Inv
<1>1. ASSUME NEW a \in Addrs, NEW v \in Words, NEW b \in BOOLEAN, WaitCheck(t, a, v, b)
      PROVE  TypeOK' /\ Fine(t)' /\ (\A u \in Threads \ {t} : Same(u)) /\ UNCHANGED << table, queues >>
  <2>1. TypeOK'
      BY Zenon, <1>0, <1>1 DEF WaitCheck, TypeOK, Goto, Pcs
  <2>2. QED
      BY Zenon, <1>0, <1>1, <2>1 DEF WaitCheck, TypeOK, Goto, Fine, Holding, Holding2, Same
<1>2. ASSUME NEW a \in Addrs, NEW n \in Counts, WakeGet(t, a, n)
      PROVE  TypeOK' /\ Fine(t)' /\ (\A u \in Threads \ {t} : Same(u)) /\ UNCHANGED << table, queues >>
  <2>1. TypeOK'
      BY Zenon, <1>0, <1>2 DEF WakeGet, TypeOK, Goto, Pcs
  <2>2. QED
      BY <1>0, <1>2, <2>1 DEF WakeGet, TypeOK, Goto, Fine, Holding, Holding2, Same
<1>3. ASSUME NotifyEnd(t)
      PROVE  TypeOK' /\ Fine(t)' /\ (\A u \in Threads \ {t} : Same(u)) /\ UNCHANGED << table, queues >>
  <2>1. TypeOK'
      BY Zenon, <1>0, <1>3 DEF NotifyEnd, TypeOK, Goto, Pcs, call
  <2>2. QED
      BY Zenon, <1>0, <1>3, <2>1 DEF NotifyEnd, TypeOK, Goto, Fine, Holding, Holding2, Same, call
<1>4. ASSUME NEW a \in Addrs, NEW a2 \in Addrs, NEW n \in Counts, NEW n2 \in Moves,
             RequeueGet(t, a, a2, n, n2)
      PROVE  TypeOK' /\ Fine(t)' /\ (\A u \in Threads \ {t} : Same(u)) /\ UNCHANGED << table, queues >>
  <2>1. TypeOK'
      BY Zenon, <1>0, <1>4 DEF RequeueGet, TypeOK, Goto, Pcs
  <2>2. Fine(t)'
      BY <1>0, <1>4 DEF RequeueGet, TypeOK, Goto, Fine, Holding, Holding2
  <2>3. QED
      BY ZenonT(40), <1>0, <1>4, <2>1, <2>2 DEF RequeueGet, TypeOK, Goto, Same
<1>5. ASSUME ExitClear(t)
      PROVE  TypeOK' /\ Fine(t)' /\ (\A u \in Threads \ {t} : Same(u)) /\ UNCHANGED << table, queues >>
  <2>0. Ctid[t] \in Addrs
      BY Zenon, <1>5, FutexAssumption DEF ExitClear
  <2>1. TypeOK'
      BY Zenon, <1>0, <1>5, <2>0 DEF ExitClear, TypeOK, Goto, Pcs
  <2>2. QED
      BY <1>0, <1>5, <2>0, <2>1 DEF ExitClear, TypeOK, Goto, Fine, Holding, Holding2, Same
<1>6. ASSUME ExitGet(t)
      PROVE  TypeOK' /\ Fine(t)' /\ (\A u \in Threads \ {t} : Same(u)) /\ UNCHANGED << table, queues >>
  <2>0. addr[t] \in Addrs
      BY Zenon, <1>0, <1>6 DEF ExitGet, Fine
  <2>1. TypeOK'
      BY Zenon, <1>0, <1>6, <2>0 DEF ExitGet, TypeOK, Goto, Pcs, call
  <2>2. QED
      BY Zenon, <1>0, <1>6, <2>0, <2>1 DEF ExitGet, TypeOK, Goto, Fine, Holding, Holding2, Same, call
<1>10. ASSUME WaitRefused(t)
      PROVE  TypeOK' /\ Fine(t)' /\ (\A u \in Threads \ {t} : Same(u)) /\ UNCHANGED << table, queues >>
  <2>1. TypeOK'
      BY Zenon, <1>0, <1>10 DEF WaitRefused, TypeOK, Goto, Pcs, call
  <2>2. QED
      BY Zenon, <1>0, <1>10, <2>1 DEF WaitRefused, TypeOK, Goto, Fine, Holding, Holding2, Same, call
<1>7. TypeOK' /\ Fine(t)' /\ (\A u \in Threads \ {t} : Same(u)) /\ UNCHANGED << table, queues >>
    BY Zenon, <1>1, <1>2, <1>3, <1>4, <1>5, <1>6, <1>10
<1>8. \A u \in Threads : Fine(u)'
    BY Zenon, <1>7, Frame
<1>9. QED
    BY Zenon, <1>7, <1>8 DEF Inv, Apart, Reach, QueueIds

\* The locals at the end of a call.
LEMMA CallEnded ==
    ASSUME TypeOK, NEW t \in Threads, EndCall(t)
    PROVE  /\ pc' \in [Threads -> Pcs]
           /\ cmd' \in [Threads -> {"none", "wait", "wake", "requeue", "exit"}]
           /\ addr' \in [Threads -> Addrs \cup {NoAddr}]
           /\ addr2' \in [Threads -> Addrs \cup {NoAddr}]
           /\ left' \in [Threads -> Nat] /\ value2' \in [Threads -> Nat]
           /\ timed' \in SUBSET Threads
<1>1. pc' \in [Threads -> Pcs]
    BY Zenon DEF EndCall, Goto, TypeOK, Pcs
<1>2. cmd' \in [Threads -> {"none", "wait", "wake", "requeue", "exit"}]
    BY Zenon DEF EndCall, TypeOK
<1>3. QED
    BY Zenon, <1>1, <1>2 DEF EndCall, TypeOK

\* get_or_insert and the clean-up of the guards.
LEMMA TableSteps ==
    ASSUME Inv, NEW t \in Threads, WaitGet(t) \/ RequeueGet2(t) \/ Drop(t) \/ Drop2(t)
    PROVE  /\ Inv' /\ Len(queues') >= Len(queues)
           /\ \A q \in QueueIds : queues'[q] = queues[q]
           /\ \A q \in QueueIds' : q \in QueueIds \/ queues'[q] = << >>
           /\ \A u \in Threads : (pc'[u] = "asleep") <=> (pc[u] = "asleep")
<1>0. TypeOK /\ Fine(t) /\ Apart /\ Reach /\ Len(queues) \in Nat
    BY DEF Inv, TypeOK
<1>1. CASE WaitGet(t)
  <2>1. addr[t] \in Addrs
      BY Zenon, <1>0, <1>1 DEF WaitGet, Fine
  <2>2. /\ queues' \in Seq(Seq(Threads)) /\ Len(queues') \in Nat
        /\ Len(queues') >= Len(queues)
        /\ table' \in [Addrs -> 0 .. Len(queues')] /\ table'[addr[t]] # 0
        /\ \A b \in Addrs : table[b] # 0 => table'[b] = table[b]
        /\ Apart' /\ Reach'
        /\ \A q \in QueueIds : queues'[q] = queues[q]
        /\ \A q \in QueueIds' : q \in QueueIds \/ queues'[q] = << >>
      BY Zenon, <1>0, <1>1, <2>1, Inserted DEF WaitGet, get_or_insert
  <2>3. guard' = [guard EXCEPT ![t] = table'[addr[t]]]
      BY Zenon, <1>0, <1>1, <2>1 DEF WaitGet, get_or_insert, TypeOK
  <2>4. TypeOK'
    <3>1. /\ guard \in [Threads -> 0 .. Len(queues)] /\ guard2 \in [Threads -> 0 .. Len(queues)]
          /\ guard2' = guard2
        BY Zenon, <1>0, <1>1 DEF WaitGet, TypeOK
    <3>2. guard' \in [Threads -> 0 .. Len(queues')] /\ guard2' \in [Threads -> 0 .. Len(queues')]
        BY <1>0, <2>1, <2>2, <2>3, <3>1
    <3>3. pc' \in [Threads -> Pcs]
        BY Zenon, <1>0, <1>1 DEF WaitGet, TypeOK, Goto, Pcs
    <3>4. QED
        BY Zenon, <1>0, <1>1, <2>2, <3>2, <3>3 DEF WaitGet, TypeOK, call
  <2>5. Fine(t)' /\ \A u \in Threads \ {t} : Same(u)
      BY Zenon, <1>0, <1>1, <2>1, <2>2, <2>3 DEF WaitGet, TypeOK, Goto, Fine, Holding, Holding2, Same, call
  <2>6. \A u \in Threads : (pc'[u] = "asleep") <=> (pc[u] = "asleep")
      BY Zenon, <1>0, <1>1 DEF WaitGet, TypeOK, Goto
  <2>7. QED
      BY Zenon, <2>2, <2>4, <2>5, <2>6, Frame DEF Inv
<1>2. CASE RequeueGet2(t)
  <2>1. addr2[t] \in Addrs
      BY Zenon, <1>0, <1>2 DEF RequeueGet2, Fine
  <2>2. /\ queues' \in Seq(Seq(Threads)) /\ Len(queues') \in Nat
        /\ Len(queues') >= Len(queues)
        /\ table' \in [Addrs -> 0 .. Len(queues')] /\ table'[addr2[t]] # 0
        /\ \A b \in Addrs : table[b] # 0 => table'[b] = table[b]
        /\ Apart' /\ Reach'
        /\ \A q \in QueueIds : queues'[q] = queues[q]
        /\ \A q \in QueueIds' : q \in QueueIds \/ queues'[q] = << >>
      BY Zenon, <1>0, <1>2, <2>1, Inserted DEF RequeueGet2, get_or_insert
  <2>3. guard2' = [guard2 EXCEPT ![t] = table'[addr2[t]]]
      BY Zenon, <1>0, <1>2, <2>1 DEF RequeueGet2, get_or_insert, TypeOK
  <2>4. TypeOK'
    <3>1. /\ guard2 \in [Threads -> 0 .. Len(queues)] /\ guard \in [Threads -> 0 .. Len(queues)]
          /\ guard' = guard
        BY Zenon, <1>0, <1>2 DEF RequeueGet2, TypeOK
    <3>2. guard2' \in [Threads -> 0 .. Len(queues')] /\ guard' \in [Threads -> 0 .. Len(queues')]
        BY <1>0, <2>1, <2>2, <2>3, <3>1
    <3>3. pc' \in [Threads -> Pcs]
        BY Zenon, <1>0, <1>2 DEF RequeueGet2, TypeOK, Goto, Pcs
    <3>4. QED
        BY Zenon, <1>0, <1>2, <2>2, <3>2, <3>3 DEF RequeueGet2, TypeOK, call
  <2>5. Fine(t)' /\ \A u \in Threads \ {t} : Same(u)
      BY Zenon, <1>0, <1>2, <2>1, <2>2, <2>3 DEF RequeueGet2, TypeOK, Goto, Fine, Holding, Holding2, Same, call
  <2>6. \A u \in Threads : (pc'[u] = "asleep") <=> (pc[u] = "asleep")
      BY Zenon, <1>0, <1>2 DEF RequeueGet2, TypeOK, Goto
  <2>7. QED
      BY Zenon, <2>2, <2>4, <2>5, <2>6, Frame DEF Inv
<1>3. CASE Drop(t)
  <2>1. guard[t] # 0 /\ addr[t] \in Addrs /\ table[addr[t]] = guard[t]
      BY Zenon, <1>0, <1>3 DEF Drop, Fine, Holding
  <2>2. UNCHANGED << table, queues >>
      BY Zenon, <1>0, <1>3, <2>1, TwoReferences DEF Drop, drop
  <2>3. TypeOK'
    <3>1. guard' \in [Threads -> 0 .. Len(queues)]
        BY <1>0, <1>3 DEF Drop, TypeOK
    <3>2. CASE cmd[t] = "requeue"
        BY Zenon, <1>0, <1>3, <2>2, <3>1, <3>2 DEF Drop, TypeOK, Goto, Pcs, call
    <3>3. CASE cmd[t] # "requeue"
        BY <1>0, <1>3, <2>2, <3>1, <3>3, CallEnded, Zenon DEF Drop, TypeOK
    <3>4. QED
        BY Zenon, <3>2, <3>3
  <2>4. Fine(t)' /\ \A u \in Threads \ {t} : Same(u)
    <3>1. CASE cmd[t] = "requeue"
        BY Zenon, <1>0, <1>3, <2>1, <2>2, <3>1 DEF Drop, TypeOK, Goto, Fine, Holding, Holding2, Same, call
    <3>2. CASE cmd[t] # "requeue"
      <4>1. Fine(t)'
        <5>1. /\ pc' = [pc EXCEPT ![t] = IF cmd[t] = "exit" THEN "exited" ELSE "user"]
              /\ cmd' = [cmd EXCEPT ![t] = "none"]
              /\ guard' = [guard EXCEPT ![t] = 0] /\ guard2' = guard2
            BY Zenon, <1>3, <3>2 DEF Drop, EndCall, Goto
        <5>2. DOMAIN pc = Threads /\ DOMAIN cmd = Threads /\ DOMAIN guard = Threads
            BY Zenon, <1>0 DEF TypeOK
        <5>3. /\ pc'[t] = "exited" \/ pc'[t] = "user"
              /\ cmd'[t] = "none" /\ guard'[t] = 0 /\ guard2'[t] = guard2[t]
            BY Zenon, <5>1, <5>2
        <5>4. guard2[t] = 0
            BY Zenon, <1>0, <3>2 DEF Fine
        <5>5. QED
            BY <5>3, <5>4 DEF Fine, Holding, Holding2
      <4>2. \A u \in Threads \ {t} : Same(u)
          BY <1>0, <1>3, <2>2, <3>2 DEF Drop, EndCall, TypeOK, Goto, Same
      <4>3. QED
          BY Zenon, <4>1, <4>2
    <3>3. QED
        BY Zenon, <3>1, <3>2
  <2>5. \A u \in Threads : (pc'[u] = "asleep") <=> (pc[u] = "asleep")
    <3>1. CASE cmd[t] = "requeue"
        BY Zenon, <1>0, <1>3, <3>1 DEF Drop, TypeOK, Goto
    <3>2. CASE cmd[t] # "requeue"
      <4>1. \E x \in {"exited", "user"} : pc' = [pc EXCEPT ![t] = x]
          BY Zenon, <1>3, <3>2 DEF Drop, EndCall, Goto
      <4>2. pc[t] = "drop" /\ pc \in [Threads -> Pcs]
          BY Zenon, <1>0, <1>3 DEF Drop, TypeOK
      <4>3. QED
          BY Zenon, <4>1, <4>2
    <3>3. QED
        BY Zenon, <3>1, <3>2
  <2>6. QED
      BY <1>0, <2>2, <2>3, <2>4, <2>5, Frame DEF Inv, Apart, Reach, QueueIds
<1>4. CASE Drop2(t)
  <2>1. guard2[t] # 0 /\ addr2[t] \in Addrs /\ table[addr2[t]] = guard2[t]
      BY Zenon, <1>0, <1>4 DEF Drop2, Fine, Holding2
  <2>2. UNCHANGED << table, queues >>
      BY Zenon, <1>0, <1>4, <2>1, TwoReferences DEF Drop2, drop
  <2>3. TypeOK'
    <3>1. guard2' \in [Threads -> 0 .. Len(queues)]
        BY <1>0, <1>4 DEF Drop2, TypeOK
    <3>2. QED
        BY <1>0, <1>4, <2>2, <3>1, CallEnded, Zenon DEF Drop2, TypeOK
  <2>4. Fine(t)' /\ \A u \in Threads \ {t} : Same(u)
      BY Zenon, <1>0, <1>4, <2>1, <2>2 DEF Drop2, EndCall, TypeOK, Goto, Fine, Holding, Holding2, Same
  <2>5. \A u \in Threads : (pc'[u] = "asleep") <=> (pc[u] = "asleep")
      BY Zenon, <1>0, <1>4 DEF Drop2, EndCall, TypeOK, Goto
  <2>6. QED
      BY <1>0, <2>2, <2>3, <2>4, <2>5, Frame DEF Inv, Apart, Reach, QueueIds
<1>5. QED
    BY Zenon, <1>1, <1>2, <1>3, <1>4
-----------------------------------------------------------------------------
(* What queueing, dequeuing and requeuing do to the sleepers: each stays at *)
(* a place of a queue, and at one place only while it has not strayed.      *)

\* The contents of the queues: threads that have strayed, and sleepers, each
\* at one place.
Asleep ==
    \A q \in QueueIds : \A i \in DOMAIN queues[q] :
        queues[q][i] \in strayed \/ pc[queues[q][i]] = "asleep"
At(u, q, i) == q \in QueueIds /\ i \in DOMAIN queues[q] /\ queues[q][i] = u
Once ==
    \A u, q, r, i, j : u \notin strayed /\ At(u, q, i) /\ At(u, r, j) => q = r /\ i = j
Found ==
    \A t \in Threads : pc[t] = "asleep" =>
        \E q \in QueueIds : \E i \in DOMAIN queues[q] : queues[q][i] = t
Sleepers == Asleep /\ Once /\ Found

\* A step neither wakes a thread, nor puts one to sleep, nor lets one stray.
SameSleepers ==
    strayed' = strayed /\ \A u \in Threads : (pc'[u] = "asleep") <=> (pc[u] = "asleep")

\* A thread that has not strayed has one place.
LEMMA OnePlace ==
    ASSUME Sleepers, NEW u, u \notin strayed, NEW q, NEW r, NEW i, NEW j,
           At(u, q, i), At(u, r, j)
    PROVE  q = r /\ i = j
    BY Zenon DEF Sleepers, Once

Holds(w, u) == \E j \in DOMAIN w : w[j] = u

\* w has some of the places of s, f[j] at j, in some order.
Picks(s, w, f) ==
    /\ w \in Seq(Threads)
    /\ \A j \in DOMAIN w : f[j] \in DOMAIN s /\ w[j] = s[f[j]]
    /\ \A i, j \in DOMAIN w : f[i] = f[j] => i = j

\* The queue q becomes w.
Reorder(q, w, f) ==
    q \in QueueIds /\ Picks(queues[q], w, f) /\ queues' = [queues EXCEPT ![q] = w]

\* Who sleeps on keeps a place in q; who goes on keeps none, unless it strays.
Released(q, w) ==
    \A u \in Threads :
        /\ u \in strayed => u \in strayed'
        /\ pc'[u] = "asleep" => pc[u] = "asleep" /\ (InQueue(u, q) => Holds(w, u))
        /\ pc[u] = "asleep" /\ pc'[u] # "asleep" /\ u \notin strayed' =>
              \A r \in QueueIds : \A j \in DOMAIN queues'[r] : queues'[r][j] # u

\* The queues after a change of q.
LEMMA OneChanged ==
    ASSUME TypeOK, NEW q \in QueueIds, NEW w \in Seq(Threads), queues' = [queues EXCEPT ![q] = w]
    PROVE  /\ queues' \in Seq(Seq(Threads)) /\ Len(queues') = Len(queues) /\ queues'[q] = w
           /\ QueueIds' = QueueIds
           /\ \A r \in QueueIds : r # q => queues'[r] = queues[r]
           /\ \A r \in QueueIds : \A j \in DOMAIN queues[r] : queues[r][j] \in Threads
<1>1. queues \in Seq(Seq(Threads))
    BY Zenon DEF TypeOK
<1>2. /\ queues' \in Seq(Seq(Threads)) /\ Len(queues') = Len(queues) /\ queues'[q] = w
      /\ \A r \in QueueIds : r # q => queues'[r] = queues[r]
    BY <1>1, ExceptSeq DEF QueueIds
<1>3. \A r \in QueueIds : \A j \in DOMAIN queues[r] : queues[r][j] \in Threads
    BY <1>1 DEF QueueIds
<1>4. QED
    BY Zenon, <1>2, <1>3 DEF QueueIds

\* An old place of each new place, told apart by their threads' one place.
LEMMA Reordered ==
    ASSUME TypeOK, Sleepers, NEW q, NEW w, NEW f, Reorder(q, w, f), Released(q, w)
    PROVE  queues' \in Seq(Seq(Threads)) /\ Len(queues') = Len(queues) /\ Sleepers'
<1>1. /\ queues' \in Seq(Seq(Threads)) /\ Len(queues') = Len(queues) /\ queues'[q] = w
      /\ QueueIds' = QueueIds /\ q \in QueueIds
      /\ \A r \in QueueIds : r # q => queues'[r] = queues[r]
      /\ \A r \in QueueIds : \A j \in DOMAIN queues[r] : queues[r][j] \in Threads
    BY Zenon, OneChanged DEF Reorder, Picks
<1> DEFINE Back(r, j) == IF r = q THEN f[j] ELSE j
<1>2. ASSUME NEW r \in QueueIds, NEW j \in DOMAIN queues'[r]
      PROVE  /\ Back(r, j) \in DOMAIN queues[r] /\ queues'[r][j] = queues[r][Back(r, j)]
             /\ queues'[r][j] \in Threads
  <2>1. CASE r = q
    <3>1. j \in DOMAIN w /\ Back(r, j) = f[j] /\ queues'[r] = w
        BY Zenon, <1>1, <2>1
    <3>2. f[j] \in DOMAIN queues[r] /\ w[j] = queues[r][f[j]]
        BY Zenon, <2>1, <3>1 DEF Reorder, Picks
    <3>3. w[j] \in Threads
        BY Zenon, <1>1, <3>2
    <3>4. QED
        BY Zenon, <3>1, <3>2, <3>3
  <2>2. CASE r # q
      BY Zenon, <1>1, <2>2
  <2>3. QED
      BY Zenon, <2>1, <2>2
<1>3. Asleep'
  <2> SUFFICES ASSUME NEW r \in QueueIds, NEW j \in DOMAIN queues'[r],
                      queues'[r][j] \notin strayed'
               PROVE  pc'[queues'[r][j]] = "asleep"
      BY Zenon, <1>1 DEF Asleep
  <2>1. PICK u : u = queues'[r][j]
      BY Zenon
  <2>2. PICK i : i = Back(r, j)
      BY Zenon
  <2>3. u \in Threads /\ i \in DOMAIN queues[r] /\ queues[r][i] = u /\ u \notin strayed'
      BY Zenon, <1>2, <2>1, <2>2
  <2>4. u \notin strayed
      BY Zenon, <2>3 DEF Released
  <2>5. pc[u] = "asleep"
      BY Zenon, <2>3, <2>4 DEF Sleepers, Asleep
  <2>6. pc'[u] = "asleep"
      BY Zenon, <2>1, <2>3, <2>5 DEF Released
  <2>7. QED
      BY Zenon, <2>1, <2>6
<1>4. Once'
  <2> SUFFICES ASSUME NEW u, u \notin strayed', NEW r1, NEW r2, NEW j1, NEW j2,
                      At(u, r1, j1)', At(u, r2, j2)'
               PROVE  r1 = r2 /\ j1 = j2
      BY Zenon DEF Once
  <2>0. /\ r1 \in QueueIds /\ j1 \in DOMAIN queues'[r1] /\ queues'[r1][j1] = u
        /\ r2 \in QueueIds /\ j2 \in DOMAIN queues'[r2] /\ queues'[r2][j2] = u
      BY Zenon, <1>1 DEF At
  <2>1. PICK i1 : i1 = Back(r1, j1)
      BY Zenon
  <2>2. PICK i2 : i2 = Back(r2, j2)
      BY Zenon
  <2>3. At(u, r1, i1) /\ At(u, r2, i2) /\ u \in Threads
    <3>1. At(u, r1, i1) /\ u \in Threads
        BY Zenon, <1>2, <2>0, <2>1 DEF At
    <3>2. At(u, r2, i2)
        BY Zenon, <1>2, <2>0, <2>2 DEF At
    <3>3. QED
        BY Zenon, <3>1, <3>2
  <2>4. u \notin strayed
      BY Zenon, <2>3 DEF Released
  <2>5. r1 = r2 /\ i1 = i2
      BY Zenon, <2>3, <2>4, OnePlace
  <2>6. CASE r1 = q
      BY Zenon, <2>0, <2>1, <2>2, <2>5, <2>6, <1>1 DEF Reorder, Picks
  <2>7. CASE r1 # q
      BY Zenon, <2>1, <2>2, <2>5, <2>7
  <2>8. QED
      BY Zenon, <2>6, <2>7
<1>5. Found'
  <2> SUFFICES ASSUME NEW u \in Threads, pc'[u] = "asleep"
               PROVE  \E r \in QueueIds : \E j \in DOMAIN queues'[r] : queues'[r][j] = u
      BY Zenon, <1>1 DEF Found
  <2>1. pc[u] = "asleep"
      BY Zenon DEF Released
  <2>2. PICK r \in QueueIds : \E j \in DOMAIN queues[r] : queues[r][j] = u
      BY Zenon, <2>1 DEF Sleepers, Found
  <2>3. CASE r = q
    <3>1. \E j \in DOMAIN w : w[j] = u
        BY Zenon, <2>2, <2>3 DEF Released, InQueue, Holds
    <3>2. QED
        BY Zenon, <3>1, <1>1
  <2>4. CASE r # q
      BY Zenon, <2>2, <2>4, <1>1
  <2>5. QED
      BY Zenon, <2>3, <2>4
<1>6. QED
    BY Zenon, <1>1, <1>3, <1>4, <1>5 DEF Sleepers

\* Queueing a thread that was awake.
Enqueue(q, t) ==
    /\ q \in QueueIds /\ pc[t] # "asleep"
    /\ queues' = [queues EXCEPT ![q] = Append(@, t)]
    /\ pc' = [pc EXCEPT ![t] = "asleep"]
    /\ strayed' = strayed

LEMMA Enqueued ==
    ASSUME TypeOK, Sleepers, NEW q, NEW t \in Threads, Enqueue(q, t)
    PROVE  queues' \in Seq(Seq(Threads)) /\ Len(queues') = Len(queues) /\ Sleepers'
<1> DEFINE s == queues[q]
           w == Append(s, t)
<1>1. /\ queues \in Seq(Seq(Threads)) /\ s \in Seq(Threads) /\ Len(s) \in Nat
      /\ DOMAIN s = 1 .. Len(s) /\ queues[q] = s /\ q \in QueueIds /\ pc[t] # "asleep"
    BY DEF TypeOK, QueueIds, Enqueue
<1>2. /\ w \in Seq(Threads) /\ DOMAIN w = 1 .. Len(s) + 1 /\ w[Len(s) + 1] = t
      /\ \A j \in 1 .. Len(s) : w[j] = s[j]
    BY <1>1, AppendProperties
<1>3. /\ queues' \in Seq(Seq(Threads)) /\ Len(queues') = Len(queues) /\ queues'[q] = w
      /\ \A r \in QueueIds : r # q => queues'[r] = queues[r]
    BY <1>1, <1>2, ExceptSeq DEF QueueIds, Enqueue
<1>4. QueueIds' = QueueIds
    BY Zenon, <1>3 DEF QueueIds
<1>5. \A u \in Threads : pc'[u] = IF u = t THEN "asleep" ELSE pc[u]
    BY Zenon DEF TypeOK, Enqueue
<1> HIDE DEF s, w
<1> DEFINE New(r, j) == r = q /\ j = Len(s) + 1
\* A place is the new one, of t, or an old one with its old thread, which is t
\* only if it has strayed.
<1>6. ASSUME NEW r \in QueueIds, NEW j \in DOMAIN queues'[r]
      PROVE  /\ New(r, j) => queues'[r][j] = t
             /\ ~New(r, j) => /\ j \in DOMAIN queues[r] /\ queues'[r][j] = queues[r][j]
                              /\ queues'[r][j] # t \/ t \in strayed
                              /\ queues'[r][j] \in Threads
  <2>1. New(r, j) => queues'[r][j] = t
      BY Zenon, <1>2, <1>3
  <2>2. ~New(r, j) => j \in DOMAIN queues[r] /\ queues'[r][j] = queues[r][j]
    <3>1. CASE r = q /\ j # Len(s) + 1
      <4>1. j \in 1 .. Len(s)
          BY <1>1, <1>2, <1>3, <3>1
      <4>2. QED
          BY Zenon, <1>1, <1>2, <1>3, <3>1, <4>1
    <3>2. CASE r # q
        BY Zenon, <1>3, <3>2
    <3>3. QED
        BY Zenon, <3>1, <3>2
  <2>3. j \in DOMAIN queues[r] => queues[r][j] \in Threads /\ (queues[r][j] # t \/ t \in strayed)
      BY <1>1 DEF Sleepers, Asleep, QueueIds
  <2>4. QED
      BY Zenon, <2>1, <2>2, <2>3
<1>11. strayed' = strayed
    BY Zenon DEF Enqueue
<1>7. Asleep'
    BY <1>4, <1>5, <1>6, <1>11 DEF Sleepers, Asleep
<1>8. Once'
  <2> SUFFICES ASSUME NEW u, u \notin strayed, NEW r1, NEW r2, NEW j1, NEW j2,
                      At(u, r1, j1)', At(u, r2, j2)'
               PROVE  r1 = r2 /\ j1 = j2
      BY Zenon, <1>11 DEF Once
  <2>0. /\ r1 \in QueueIds /\ j1 \in DOMAIN queues'[r1] /\ queues'[r1][j1] = u
        /\ r2 \in QueueIds /\ j2 \in DOMAIN queues'[r2] /\ queues'[r2][j2] = u
      BY Zenon, <1>4 DEF At
  <2>1. New(r1, j1) <=> New(r2, j2)
      BY Zenon, <2>0, <1>6
  <2>2. ASSUME ~New(r1, j1) PROVE r1 = r2 /\ j1 = j2
    <3>1. At(u, r1, j1) /\ At(u, r2, j2)
        BY Zenon, <2>0, <2>1, <2>2, <1>6 DEF At
    <3>2. QED
        BY Zenon, <3>1, OnePlace
  <2>3. QED
      BY Zenon, <2>1, <2>2
<1>9. Found'
  <2> SUFFICES ASSUME NEW u \in Threads, pc'[u] = "asleep"
               PROVE  \E r \in QueueIds : \E j \in DOMAIN queues'[r] : queues'[r][j] = u
      BY Zenon, <1>4 DEF Found
  <2>1. CASE u = t
    <3>1. Len(s) + 1 \in DOMAIN queues'[q] /\ queues'[q][Len(s) + 1] = t
        BY <1>1, <1>2, <1>3
    <3>2. QED
        BY Zenon, <2>1, <3>1, <1>1
  <2>2. CASE u # t
    <3>1. PICK r \in QueueIds : \E j \in DOMAIN queues[r] : queues[r][j] = u
        BY Zenon, <2>2, <1>5 DEF Sleepers, Found
    <3>2. PICK j \in DOMAIN queues[r] : queues[r][j] = u
        BY Zenon, <3>1
    <3>3. j \in DOMAIN queues'[r] /\ queues'[r][j] = u
      <4>1. CASE r # q
          BY Zenon, <3>2, <4>1, <1>3
      <4>2. CASE r = q
        <5>1. j \in 1 .. Len(s) /\ j \in 1 .. Len(s) + 1 /\ s[j] = u
            BY <3>2, <4>2, <1>1
        <5>2. QED
            BY Zenon, <5>1, <4>2, <1>2, <1>3
      <4>3. QED
          BY Zenon, <4>1, <4>2
    <3>4. QED
        BY Zenon, <3>3
  <2>3. QED
      BY Zenon, <2>1, <2>2
<1>10. QED
    BY Zenon, <1>3, <1>7, <1>8, <1>9 DEF Sleepers

\* The two queues of a requeue of k threads, and what they hold.
Cut(s, z, k, w, y) ==
    /\ s \in Seq(Threads) /\ z \in Seq(Threads) /\ k \in 0 .. Len(s)
    /\ w = SubSeq(s, k + 1, Len(s)) /\ y = z \o SubSeq(s, 1, k)
Parts(s, z, k, w, y) ==
    /\ s \in Seq(Threads) /\ z \in Seq(Threads) /\ w \in Seq(Threads) /\ y \in Seq(Threads)
    /\ k \in 0 .. Len(s) /\ Len(w) = Len(s) - k /\ Len(y) = Len(z) + k
    /\ \A j \in 1 .. Len(s) - k : w[j] = s[j + k]
    /\ \A j \in 1 .. Len(z) + k : y[j] = IF j <= Len(z) THEN z[j] ELSE s[j - Len(z)]

LEMMA Split ==
    ASSUME NEW s, NEW z, NEW k, NEW w, NEW y, Cut(s, z, k, w, y)
    PROVE  Parts(s, z, k, w, y)
<1> DEFINE m == SubSeq(s, 1, k)
<1>0. w = SubSeq(s, k + 1, Len(s)) /\ y = z \o m
    BY Zenon DEF Cut
<1>1. /\ s \in Seq(Threads) /\ z \in Seq(Threads) /\ Len(s) \in Nat /\ Len(z) \in Nat /\ k \in Nat /\ k <= Len(s)
      /\ \A j \in 1 .. Len(s) : s[j] \in Threads
    BY DEF Cut
<1>2. m \in Seq(Threads) /\ Len(m) = k /\ \A j \in 1 .. k : m[j] = s[j]
  <2>1. \A j \in 1 .. k : s[j] \in Threads
      BY <1>1
  <2>2. 1 \in Int /\ k \in Int /\ k - 1 + 1 = k
      BY <1>1
  <2>3. /\ m \in Seq(Threads) /\ Len(m) = (IF 1 <= k THEN k - 1 + 1 ELSE 0)
        /\ \A j \in 1 .. k - 1 + 1 : m[j] = s[1 + j - 1]
      BY <1>0, <2>1, <2>2, SubSeqProperties
  <2>4. QED
      BY <2>3, <1>1
<1>3. /\ w \in Seq(Threads) /\ Len(w) = Len(s) - k
      /\ \A j \in 1 .. Len(s) - k : w[j] = s[j + k]
  <2>1. \A j \in k + 1 .. Len(s) : s[j] \in Threads
      BY <1>1
  <2>2. k + 1 \in Int /\ Len(s) \in Int
      BY <1>1
  <2>3. /\ w \in Seq(Threads)
        /\ Len(w) = (IF k + 1 <= Len(s) THEN Len(s) - (k + 1) + 1 ELSE 0)
        /\ \A j \in 1 .. Len(s) - (k + 1) + 1 : w[j] = s[(k + 1) + j - 1]
      BY <1>0, <2>1, <2>2, SubSeqProperties
  <2>4. QED
      BY <2>3, <1>1
<1>4. /\ y \in Seq(Threads) /\ Len(y) = Len(z) + k
      /\ \A j \in 1 .. Len(z) + k : y[j] = IF j <= Len(z) THEN z[j] ELSE s[j - Len(z)]
  <2> HIDE DEF m
  <2>1. /\ y \in Seq(Threads) /\ Len(y) = Len(z) + Len(m)
        /\ \A j \in 1 .. Len(z) + Len(m) : y[j] = IF j <= Len(z) THEN z[j] ELSE m[j - Len(z)]
      BY Zenon, <1>0, <1>1, <1>2, ConcatProperties
  <2>2. \A j \in 1 .. Len(z) + k : ~(j <= Len(z)) => j - Len(z) \in 1 .. k
    <3>1. Len(z) \in Nat /\ k \in Nat
        BY Zenon, <1>1
    <3>2. QED
        BY <3>1
  <2>3. QED
      BY Zenon, <1>2, <2>1, <2>2
<1>5. QED
    BY <1>1, <1>3, <1>4 DEF Parts

\* A sequence with two of its elements replaced.
Replace(S, f, q, w, p, y, g) ==
    /\ f \in Seq(S) /\ q \in 1 .. Len(f) /\ p \in 1 .. Len(f) /\ p # q /\ w \in S /\ y \in S
    /\ g = [[f EXCEPT ![q] = w] EXCEPT ![p] = y]
Replaced(S, f, q, w, p, y, g) ==
    /\ g \in Seq(S) /\ Len(g) = Len(f) /\ g[q] = w /\ g[p] = y
    /\ \A r \in 1 .. Len(f) : r # q /\ r # p => g[r] = f[r]

LEMMA TwoExcepts ==
    ASSUME NEW S, NEW f, NEW q, NEW w, NEW p, NEW y, NEW g, Replace(S, f, q, w, p, y, g)
    PROVE  Replaced(S, f, q, w, p, y, g)
<1> DEFINE h == [f EXCEPT ![q] = w]
<1>1. h \in Seq(S) /\ Len(h) = Len(f) /\ h[q] = w /\ \A r \in 1 .. Len(f) : r # q => h[r] = f[r]
    BY ExceptSeq DEF Replace
<1>2. g = [h EXCEPT ![p] = y]
    BY Zenon DEF Replace
<1> HIDE DEF h
<1>3. g \in Seq(S) /\ Len(g) = Len(h) /\ g[p] = y /\ \A r \in 1 .. Len(h) : r # p => g[r] = h[r]
  <2>1. h \in Seq(S) /\ p \in 1 .. Len(h) /\ y \in S
      BY Zenon, <1>1 DEF Replace
  <2>2. QED
      BY <1>2, <2>1, ExceptSeq
<1>4. QED
    BY Zenon, <1>1, <1>3 DEF Replace, Replaced

\* A requeue moves places: the first k of q, which holds s, go behind those
\* of p, which holds z.
Moving(q, p, s, z, k, w, y) ==
    /\ q \in QueueIds /\ p \in QueueIds /\ p # q /\ QueueIds' = QueueIds
    /\ s = queues[q] /\ z = queues[p] /\ w = queues'[q] /\ y = queues'[p]
    /\ Parts(s, z, k, w, y)
    /\ \A r \in QueueIds : r # q /\ r # p => queues'[r] = queues[r]

LEMMA Moved ==
    ASSUME TypeOK, Sleepers, NEW q, NEW p, NEW s, NEW z, NEW k, NEW w, NEW y,
           Moving(q, p, s, z, k, w, y), SameSleepers
    PROVE  Sleepers'
<1>1. /\ Len(s) \in Nat /\ Len(z) \in Nat /\ k \in Nat /\ k <= Len(s)
      /\ DOMAIN s = 1 .. Len(s) /\ DOMAIN z = 1 .. Len(z)
      /\ q \in QueueIds /\ p \in QueueIds /\ p # q
      /\ queues[q] = s /\ queues[p] = z
    BY DEF Moving, Parts
<1>3. DOMAIN w = 1 .. Len(s) - k /\ \A j \in 1 .. Len(s) - k : w[j] = s[j + k]
    BY DEF Moving, Parts
<1>4. /\ DOMAIN y = 1 .. Len(z) + k
      /\ \A j \in 1 .. Len(z) + k : y[j] = IF j <= Len(z) THEN z[j] ELSE s[j - Len(z)]
    BY DEF Moving, Parts
<1>5. /\ queues'[q] = w /\ queues'[p] = y
      /\ \A r \in QueueIds : r # q /\ r # p => queues'[r] = queues[r]
    BY Zenon DEF Moving
<1>6. QueueIds' = QueueIds
    BY Zenon DEF Moving
<1>0. \A r \in QueueIds : queues[r] \in Seq(Threads)
    BY SMTT(30) DEF TypeOK, QueueIds
<1> DEFINE OldQ(r, j) == IF r = p /\ j > Len(z) THEN q ELSE r
           OldI(r, j) == IF r = q THEN j + k ELSE IF r = p /\ j > Len(z) THEN j - Len(z) ELSE j
\* Every new place is an old one.
<1>7. ASSUME NEW r \in QueueIds, NEW j \in DOMAIN queues'[r]
      PROVE  /\ j \in Int /\ OldQ(r, j) \in QueueIds
             /\ OldI(r, j) \in DOMAIN queues[OldQ(r, j)]
             /\ queues'[r][j] = queues[OldQ(r, j)][OldI(r, j)]
             /\ r = p /\ j > Len(z) => OldI(r, j) <= k
             /\ r = q => OldI(r, j) > k
  <2>1. CASE r = q
    <3>1. j \in 1 .. Len(s) - k /\ j + k \in 1 .. Len(s) /\ j + k > k
        BY SMTT(30), <2>1, <1>1, <1>3, <1>5
    <3>2. OldQ(r, j) = q /\ OldI(r, j) = j + k /\ j \in Int
        BY <2>1, <3>1, <1>1
    <3>3. QED
        BY Zenon, <2>1, <3>1, <3>2, <1>1, <1>3, <1>5
  <2>2. CASE r = p
    <3>1. j \in 1 .. Len(z) + k /\ r # q
        BY Zenon, <2>2, <1>1, <1>4, <1>5
    <3>2. CASE j > Len(z)
      <4>0. Len(s) \in Nat /\ Len(z) \in Nat /\ k \in Nat /\ k <= Len(s)
          BY Zenon, <1>1
      <4>1. j - Len(z) \in 1 .. Len(s) /\ j - Len(z) <= k /\ y[j] = s[j - Len(z)]
        <5>1. j - Len(z) \in 1 .. Len(s) /\ j - Len(z) <= k /\ ~(j <= Len(z))
            BY <3>1, <3>2, <4>0
        <5>2. QED
            BY Zenon, <3>1, <5>1, <1>4
      <4>2. QED
        <5>1. OldQ(r, j) = q /\ OldI(r, j) = j - Len(z)
            BY Zenon, <2>2, <3>1, <3>2
        <5>2. j \in Int
            BY <3>1
        <5>3. QED
            BY Zenon, <2>2, <3>1, <4>1, <5>1, <5>2, <1>1, <1>5
    <3>3. CASE ~(j > Len(z))
      <4>0. Len(s) \in Nat /\ Len(z) \in Nat /\ k \in Nat
          BY Zenon, <1>1
      <4>1. j \in 1 .. Len(z) /\ y[j] = z[j]
        <5>1. j \in 1 .. Len(z) /\ j <= Len(z)
            BY <3>1, <3>3, <4>0
        <5>2. QED
            BY Zenon, <3>1, <5>1, <1>4
      <4>2. QED
        <5>1. OldQ(r, j) = p /\ OldI(r, j) = j
            BY Zenon, <2>2, <3>1, <3>3
        <5>2. j \in Int
            BY <3>1
        <5>3. QED
            BY Zenon, <2>2, <3>1, <3>3, <4>1, <5>1, <5>2, <1>1, <1>5
    <3>4. QED
        BY Zenon, <3>2, <3>3
  <2>3. CASE r # q /\ r # p
    <3>1. queues'[r] = queues[r] /\ queues[r] \in Seq(Threads)
        BY Zenon, <2>3, <1>0, <1>5
    <3>2. QED
        BY <2>3, <3>1
  <2>4. QED
      BY Zenon, <2>1, <2>2, <2>3
<1>8. Asleep'
  <2>1. \A r \in QueueIds : \A j \in DOMAIN queues[r] : queues[r][j] \in Threads
      BY <1>0
  <2>2. QED
      BY <2>1, <1>6, <1>7 DEF Sleepers, Asleep, SameSleepers
<1>9. Once'
  <2> SUFFICES ASSUME NEW u, u \notin strayed, NEW r1, NEW r2, NEW j1, NEW j2,
                      At(u, r1, j1)', At(u, r2, j2)'
               PROVE  r1 = r2 /\ j1 = j2
      BY Zenon DEF Once, SameSleepers
  <2>0. /\ r1 \in QueueIds /\ j1 \in DOMAIN queues'[r1] /\ queues'[r1][j1] = u
        /\ r2 \in QueueIds /\ j2 \in DOMAIN queues'[r2] /\ queues'[r2][j2] = u
      BY Zenon, <1>6 DEF At
  <2>4. At(u, OldQ(r1, j1), OldI(r1, j1)) /\ At(u, OldQ(r2, j2), OldI(r2, j2))
    <3> HIDE DEF OldQ, OldI
    <3>1. At(u, OldQ(r1, j1), OldI(r1, j1))
        BY Zenon, <2>0, <1>7 DEF At
    <3>2. At(u, OldQ(r2, j2), OldI(r2, j2))
        BY Zenon, <2>0, <1>7 DEF At
    <3>3. QED
        BY Zenon, <3>1, <3>2
  <2>1. OldQ(r1, j1) = OldQ(r2, j2) /\ OldI(r1, j1) = OldI(r2, j2)
    <3> HIDE DEF OldQ, OldI
    <3>1. QED
        BY Zenon, <2>4, OnePlace
  <2>2. /\ j1 \in Int /\ j2 \in Int
        /\ r1 = p /\ j1 > Len(z) => OldI(r1, j1) <= k
        /\ r2 = p /\ j2 > Len(z) => OldI(r2, j2) <= k
        /\ r1 = q => OldI(r1, j1) > k
        /\ r2 = q => OldI(r2, j2) > k
      BY Zenon, <2>0, <1>7
  <2>3. QED
      BY <2>1, <2>2, <1>1
<1>10. Found'
  <2> SUFFICES ASSUME NEW u \in Threads, pc'[u] = "asleep"
               PROVE  \E r \in QueueIds : \E j \in DOMAIN queues'[r] : queues'[r][j] = u
      BY Zenon, <1>6 DEF Found
  <2>1. PICK r \in QueueIds : \E j \in DOMAIN queues[r] : queues[r][j] = u
      BY Zenon DEF Sleepers, Found, SameSleepers
  <2>2. PICK j \in DOMAIN queues[r] : queues[r][j] = u
      BY Zenon, <2>1
  <2>3. CASE r = q
    <3>1. j \in 1 .. Len(s) /\ s[j] = u
        BY Zenon, <2>2, <2>3, <1>1
    <3>2. CASE j <= k
      <4> DEFINE x == Len(z) + j
      <4>1. x \in 1 .. Len(z) + k /\ ~(x <= Len(z)) /\ x - Len(z) = j
          BY <3>1, <3>2, <1>1
      <4> HIDE DEF x
      <4>2. x \in DOMAIN queues'[p] /\ queues'[p][x] = u
          BY Zenon, <4>1, <3>1, <1>4, <1>5
      <4>3. QED
          BY Zenon, <4>2, <1>1
    <3>3. CASE j > k
      <4>1. j - k \in 1 .. Len(s) - k /\ (j - k) + k = j
          BY <3>1, <3>3, <1>1
      <4>2. j - k \in DOMAIN queues'[q] /\ queues'[q][j - k] = u
          BY Zenon, <4>1, <3>1, <1>3, <1>5
      <4>3. QED
          BY Zenon, <4>2, <1>1
    <3>4. QED
        BY <3>1, <3>2, <3>3, <1>1
  <2>4. CASE r = p
    <3>1. j \in 1 .. Len(z) + k /\ y[j] = z[j]
        BY SMTT(30), <2>2, <2>4, <1>1, <1>4
    <3>2. j \in DOMAIN queues'[p] /\ queues'[p][j] = u
        BY Zenon, <3>1, <2>2, <2>4, <1>1, <1>4, <1>5
    <3>3. QED
        BY Zenon, <3>2, <1>1
  <2>5. CASE r # q /\ r # p
      BY Zenon, <2>2, <2>5, <1>5
  <2>6. QED
      BY Zenon, <2>3, <2>4, <2>5
<1>11. QED
    BY Zenon, <1>8, <1>9, <1>10 DEF Sleepers

\* Moving the first n sleepers of q, or all of them, to the end of p.
LEMMA Requeued ==
    ASSUME TypeOK, Sleepers, NEW q \in QueueIds, NEW p \in QueueIds, p # q,
           NEW n \in Nat, requeue(q, n, p), SameSleepers
    PROVE  queues' \in Seq(Seq(Threads)) /\ Len(queues') = Len(queues) /\ Sleepers'
<1> DEFINE s == queues[q]
           z == queues[p]
           k == Least(n, Len(s))
           w == SubSeq(s, k + 1, Len(s))
           y == z \o SubSeq(s, 1, k)
<1>1. /\ queues \in Seq(Seq(Threads)) /\ s \in Seq(Threads) /\ z \in Seq(Threads)
      /\ DOMAIN queues = QueueIds
    BY DEF TypeOK, QueueIds
<1>2. k \in 0 .. Len(s)
    BY <1>1 DEF Least
<1>3. queues' = [[queues EXCEPT ![q] = w] EXCEPT ![p] = y]
    BY Zenon, <1>1 DEF requeue
<1>4. s = queues[q] /\ z = queues[p]
    BY Zenon
<1>0. Cut(s, z, k, w, y)
    BY Zenon, <1>1, <1>2 DEF Cut
<1> HIDE DEF s, z, k, w, y
<1>5. Parts(s, z, k, w, y)
    BY Zenon, <1>0, Split
<1>6. Replace(Seq(Threads), queues, q, w, p, y, queues')
    BY Zenon, <1>1, <1>3, <1>5 DEF Replace, Parts, QueueIds
<1>7. Replaced(Seq(Threads), queues, q, w, p, y, queues')
    BY Zenon, <1>6, TwoExcepts
<1>8. /\ queues' \in Seq(Seq(Threads)) /\ Len(queues') = Len(queues) /\ QueueIds' = QueueIds
      /\ queues'[q] = w /\ queues'[p] = y
      /\ \A r \in QueueIds : r # q /\ r # p => queues'[r] = queues[r]
    BY Zenon, <1>7 DEF Replaced, QueueIds
<1>9. Moving(q, p, s, z, k, w, y)
    BY Zenon, <1>4, <1>5, <1>8 DEF Moving
<1>10. QED
    BY Zenon, <1>8, <1>9, Moved

\* A requeue from q to q itself takes the first places to the end: the queue
\* of the places k + 1, k + 2 ... and then 1 .. k.
Turned(s, k, y, f) ==
    /\ s \in Seq(Threads) /\ k \in 0 .. Len(s)
    /\ y = SubSeq(s, k + 1, Len(s)) \o SubSeq(s, 1, k)
    /\ f = [j \in 1 .. Len(s) |-> IF j <= Len(s) - k THEN j + k ELSE j - (Len(s) - k)]

LEMMA Rotation ==
    ASSUME NEW s, NEW k, NEW y, NEW f, Turned(s, k, y, f)
    PROVE  Picks(s, y, f) /\ \A i \in DOMAIN s : Holds(y, s[i])
<1>0. s \in Seq(Threads) /\ k \in 0 .. Len(s)
    BY Zenon DEF Turned
<1>1. Len(s) \in Nat /\ k \in Nat /\ k <= Len(s) /\ DOMAIN s = 1 .. Len(s)
    BY <1>0
<1>2. PICK w : w = SubSeq(s, k + 1, Len(s))
    BY Zenon
<1>3. y = w \o SubSeq(s, 1, k)
    BY Zenon, <1>2 DEF Turned
<1>4. /\ w \in Seq(Threads) /\ Len(w) = Len(s) - k
      /\ \A j \in 1 .. Len(s) - k : w[j] = s[j + k]
  <2>1. Cut(s, s, k, w, s \o SubSeq(s, 1, k))
      BY Zenon, <1>0, <1>2 DEF Cut
  <2>2. Parts(s, s, k, w, s \o SubSeq(s, 1, k))
      BY Zenon, <2>1, Split
  <2>3. QED
      BY Zenon, <2>2 DEF Parts
<1>5. /\ y \in Seq(Threads) /\ Len(y) = Len(w) + k
      /\ \A j \in 1 .. Len(w) + k : y[j] = IF j <= Len(w) THEN w[j] ELSE s[j - Len(w)]
  <2>1. Cut(s, w, k, w, y)
      BY Zenon, <1>0, <1>2, <1>3, <1>4 DEF Cut
  <2>2. Parts(s, w, k, w, y)
      BY Zenon, <2>1, Split
  <2>3. QED
      BY Zenon, <2>2 DEF Parts
<1>6. Len(w) = Len(s) - k /\ Len(w) + k = Len(s)
  <2>1. Len(w) = Len(s) - k
      BY Zenon, <1>4
  <2>2. QED
      BY <2>1, <1>1
<1>7. DOMAIN y = 1 .. Len(s)
  <2>1. y \in Seq(Threads) /\ Len(y) = Len(s)
      BY Zenon, <1>5, <1>6
  <2>2. QED
      BY <2>1
<1>8. ASSUME NEW j \in 1 .. Len(s)
      PROVE  f[j] = IF j <= Len(s) - k THEN j + k ELSE j - (Len(s) - k)
    BY Zenon DEF Turned
<1>9. ASSUME NEW j \in 1 .. Len(s)
      PROVE  f[j] \in 1 .. Len(s) /\ y[j] = s[f[j]]
  <2>0. j \in 1 .. Len(w) + k
      BY Zenon, <1>6
  <2>1. CASE j <= Len(s) - k
    <3>1. f[j] = j + k /\ j <= Len(w)
        BY Zenon, <1>6, <1>8, <2>1
    <3>2. j + k \in 1 .. Len(s) /\ j \in 1 .. Len(s) - k
        BY <1>1, <2>1
    <3>3. y[j] = w[j] /\ w[j] = s[j + k]
        BY Zenon, <2>0, <3>1, <3>2, <1>4, <1>5
    <3>4. QED
        BY Zenon, <3>1, <3>2, <3>3
  <2>2. CASE ~(j <= Len(s) - k)
    <3>1. f[j] = j - Len(w) /\ ~(j <= Len(w))
        BY Zenon, <1>6, <1>8, <2>2
    <3>2. f[j] \in 1 .. Len(s)
        BY <1>1, <1>6, <2>2, <3>1
    <3>3. y[j] = s[j - Len(w)]
        BY Zenon, <2>0, <3>1, <1>5
    <3>4. QED
        BY Zenon, <3>1, <3>2, <3>3
  <2>3. QED
      BY Zenon, <2>1, <2>2
<1>10. \A i, j \in 1 .. Len(s) : f[i] = f[j] => i = j
    BY <1>1, <1>8
<1>11. ASSUME NEW i \in 1 .. Len(s)
       PROVE  Holds(y, s[i])
  <2>1. PICK j : j = IF i <= k THEN i + (Len(s) - k) ELSE i - k
      BY Zenon
  <2>2. j \in 1 .. Len(s) /\ f[j] = i
    <3>1. j \in 1 .. Len(s)
        BY <1>1, <2>1
    <3>2. f[j] = IF j <= Len(s) - k THEN j + k ELSE j - (Len(s) - k)
        BY Zenon, <3>1, <1>8
    <3>3. (IF j <= Len(s) - k THEN j + k ELSE j - (Len(s) - k)) = i
        BY <1>1, <2>1
    <3>4. QED
        BY Zenon, <3>1, <3>2, <3>3
  <2>3. y[j] = s[i]
      BY Zenon, <1>9, <2>2
  <2>4. QED
      BY Zenon, <1>7, <2>2, <2>3 DEF Holds
<1>12. Picks(s, y, f)
    BY Zenon, <1>1, <1>5, <1>7, <1>9, <1>10 DEF Picks
<1>13. QED
    BY Zenon, <1>1, <1>11, <1>12

\* The second of two changes of the same value is the one that counts.
Twofold(f, q, w, m, g) == g = [[f EXCEPT ![q] = w] EXCEPT ![q] = @ \o m]

LEMMA Twice ==
    ASSUME NEW f, NEW q, NEW w, NEW m, NEW g, q \in DOMAIN f, Twofold(f, q, w, m, g)
    PROVE  g = [f EXCEPT ![q] = w \o m]
<1>1. PICK h : h = [f EXCEPT ![q] = w]
    BY Zenon
<1>2. PICK y : y = w \o m
    BY Zenon
<1>3. h[q] = w
    BY Zenon, <1>1
<1>4. g = [h EXCEPT ![q] = @ \o m]
    BY Zenon, <1>1 DEF Twofold
<1>5. g = [h EXCEPT ![q] = y]
    BY Zenon, <1>2, <1>3, <1>4
<1>6. [h EXCEPT ![q] = y] = [f EXCEPT ![q] = y]
    BY Zenon, <1>1
<1>7. QED
    BY Zenon, <1>2, <1>5, <1>6

\* What requeue does to one queue.
LEMMA RequeueOne ==
    ASSUME TypeOK, NEW q \in QueueIds, NEW n \in Nat, requeue(q, n, q)
    PROVE  \E k \in 0 .. Len(queues[q]) :
              /\ k = Least(n, Len(queues[q]))
              /\ queues' = [queues EXCEPT ![q] = SubSeq(queues[q], k + 1, Len(queues[q]))
                                                   \o SubSeq(queues[q], 1, k)]
<1>1. PICK s : s = queues[q]
    BY Zenon
<1>2. PICK k : k = Least(n, Len(s))
    BY Zenon
<1>3. s \in Seq(Threads) /\ DOMAIN queues = QueueIds
    BY <1>1 DEF TypeOK, QueueIds
<1>4. k \in 0 .. Len(s)
    BY <1>2, <1>3 DEF Least
<1>5. PICK w : w = SubSeq(s, k + 1, Len(s))
    BY Zenon
<1>6. PICK m : m = SubSeq(s, 1, k)
    BY Zenon
<1>7. Twofold(queues, q, w, m, queues')
    BY Zenon, <1>1, <1>2, <1>5, <1>6 DEF requeue, Twofold
<1>8. queues' = [queues EXCEPT ![q] = w \o m]
    BY Zenon, <1>3, <1>7, Twice
<1>9. QED
    BY Zenon, <1>1, <1>2, <1>4, <1>5, <1>6, <1>8

LEMMA RequeuedOne ==
    ASSUME TypeOK, Sleepers, NEW q \in QueueIds, NEW n \in Nat, requeue(q, n, q), SameSleepers
    PROVE  queues' \in Seq(Seq(Threads)) /\ Len(queues') = Len(queues) /\ Sleepers'
<1>1. PICK s : s = queues[q]
    BY Zenon
<1>2. s \in Seq(Threads)
    BY <1>1 DEF TypeOK, QueueIds
<1>3. PICK k \in 0 .. Len(s) :
          queues' = [queues EXCEPT ![q] = SubSeq(s, k + 1, Len(s)) \o SubSeq(s, 1, k)]
    BY Zenon, <1>1, RequeueOne
<1>4. PICK y : y = SubSeq(s, k + 1, Len(s)) \o SubSeq(s, 1, k)
    BY Zenon
<1>5. PICK f : f = [j \in 1 .. Len(s) |-> IF j <= Len(s) - k THEN j + k ELSE j - (Len(s) - k)]
    BY Zenon
<1>6. Turned(s, k, y, f)
    BY Zenon, <1>2, <1>4, <1>5 DEF Turned
<1>7. Picks(s, y, f) /\ \A i \in DOMAIN s : Holds(y, s[i])
    BY Zenon, <1>6, Rotation
<1>8. Reorder(q, y, f)
    BY Zenon, <1>1, <1>3, <1>4, <1>7 DEF Reorder
<1>9. \A u : InQueue(u, q) => Holds(y, u)
    BY Zenon, <1>1, <1>7 DEF InQueue
<1>10. Released(q, y)
    BY Zenon, <1>9 DEF Released, SameSleepers
<1>11. QED
    BY Zenon, <1>8, <1>10, Reordered

\* The other steps leave the sleepers where they are.
LEMMA Undisturbed ==
    ASSUME TypeOK, Sleepers, SameSleepers, Len(queues') \in Nat, Len(queues') >= Len(queues),
           \A q \in QueueIds : queues'[q] = queues[q],
           \A q \in QueueIds' : q \in QueueIds \/ queues'[q] = << >>
    PROVE  Sleepers'
<1>1. \A q \in QueueIds : q \in QueueIds' /\ queues[q] \in Seq(Threads)
    BY DEF QueueIds, TypeOK
<1>2. \A q \in QueueIds' : \A i \in DOMAIN queues'[q] :
          q \in QueueIds /\ i \in DOMAIN queues[q] /\ queues'[q][i] = queues[q][i]
          /\ queues[q][i] \in Threads
    BY <1>1
<1>3. Asleep'
    BY <1>2 DEF Sleepers, SameSleepers, Asleep
<1>4. Once'
  <2>1. \A u, q, i : At(u, q, i)' => At(u, q, i)
      BY Zenon, <1>2 DEF At
  <2>2. QED
      BY Zenon, <2>1 DEF Once, Sleepers, SameSleepers
<1>5. Found'
    BY <1>1 DEF Sleepers, SameSleepers, Found
<1>6. QED
    BY Zenon, <1>3, <1>4, <1>5 DEF Sleepers
-----------------------------------------------------------------------------
(* The steps that change the contents of a queue, and the theorems. *)

\* The steps that change the contents of a queue; the table is left alone.
Kept ==
    /\ queues' \in Seq(Seq(Threads)) /\ Len(queues') = Len(queues)
    /\ UNCHANGED << table, guard, guard2 >>

LEMMA ContentsChanged ==
    ASSUME Inv, NEW t \in Threads, Kept, TypeOK', Fine(t)', \A u \in Threads \ {t} : Same(u)
    PROVE  Inv'
<1>1. \A u \in Threads : Fine(u)'
    BY Zenon, Frame DEF Kept
<1>2. Apart' /\ Reach'
    BY Zenon DEF Kept, Inv, Apart, Reach, QueueIds
<1>3. QED
    BY Zenon, <1>1, <1>2 DEF Inv

LEMMA WaitSleepStep ==
    ASSUME Inv, Sleepers, NEW t \in Threads, WaitSleep(t)
    PROVE  Inv' /\ Sleepers'
<1>0. TypeOK /\ Fine(t) /\ Len(queues) \in Nat
    BY DEF Inv, TypeOK
<1>1. Enqueue(guard[t], t)
    BY <1>0 DEF WaitSleep, Goto, Fine, Holding, QueueIds, Enqueue, TypeOK
<1>2. Kept /\ Sleepers'
    BY Zenon, <1>0, <1>1, Enqueued DEF WaitSleep, Kept
<1>3. TypeOK'
    BY Zenon, <1>0, <1>2 DEF WaitSleep, TypeOK, Goto, Pcs, call, Kept
<1>4. Fine(t)' /\ \A u \in Threads \ {t} : Same(u)
  <2>1. Fine(t)'
      BY <1>0 DEF WaitSleep, TypeOK, Goto, Fine, Holding, Holding2, call
  <2>2. QED
      BY Zenon, <1>0, <2>1 DEF WaitSleep, TypeOK, Goto, Same, call
<1>5. QED
    BY Zenon, <1>2, <1>3, <1>4, ContentsChanged

\* The places that a timeout leaves.
Left(s, t, n, f, w) ==
    /\ s \in Seq(Threads) /\ n \in Nat /\ f \in [1 .. n -> DOMAIN s] /\ Others(f, s, t)
    /\ w = [j \in 1 .. n |-> s[f[j]]]

LEMMA Retained ==
    ASSUME NEW s, NEW t, NEW n, NEW f, NEW w, Left(s, t, n, f, w)
    PROVE  /\ Picks(s, w, f) /\ Len(w) = n /\ DOMAIN f = 1 .. n
           /\ \A j \in DOMAIN w : w[j] # t
           /\ \A i \in DOMAIN s : s[i] # t => Holds(w, s[i])
<1>0. s \in Seq(Threads) /\ n \in Nat /\ f \in [1 .. n -> DOMAIN s] /\ Others(f, s, t)
    BY Zenon DEF Left
<1>1. \A i \in DOMAIN s : s[i] \in Threads /\ i \in Int
    BY <1>0
<1>2. \A j \in 1 .. n : f[j] \in DOMAIN s /\ s[f[j]] \in Threads /\ f[j] \in Int
    BY Zenon, <1>0, <1>1
<1>3. DOMAIN f = 1 .. n
    BY Zenon, <1>0
<1>4. DOMAIN w = 1 .. n /\ \A j \in 1 .. n : w[j] = s[f[j]]
    BY Zenon DEF Left
<1>5. w \in Seq(Threads) /\ Len(w) = n
  <2>1. w = [j \in 1 .. n |-> s[f[j]]]
      BY Zenon DEF Left
  <2>2. \A j \in 1 .. n : s[f[j]] \in Threads
      BY Zenon, <1>2
  <2>3. n \in Nat
      BY Zenon, <1>0
  <2>4. QED
      BY <2>1, <2>2, <2>3, IsASeq
<1>6. {f[j] : j \in 1 .. n} = {i \in DOMAIN s : s[i] # t}
    BY Zenon, <1>0, <1>3 DEF Others
<1>7. \A j \in 1 .. n : s[f[j]] # t
    BY Zenon, <1>6
<1>8. \A i \in DOMAIN s : s[i] # t => \E j \in 1 .. n : f[j] = i
    BY Zenon, <1>6
<1>9. \A i, j \in 1 .. n : f[i] = f[j] => i = j
  <2>1. \A i, j \in 1 .. n : i < j => f[i] < f[j]
      BY Zenon, <1>0, <1>3 DEF Others
  <2>2. \A j \in 1 .. n : f[j] \in Int
      BY Zenon, <1>2
  <2>3. n \in Nat
      BY Zenon, <1>0
  <2>4. QED
      BY <2>1, <2>2, <2>3
<1>10. Picks(s, w, f)
    BY Zenon, <1>2, <1>4, <1>5, <1>9 DEF Picks
<1>11. ASSUME NEW i \in DOMAIN s, s[i] # t PROVE Holds(w, s[i])
  <2>1. PICK j \in 1 .. n : f[j] = i
      BY Zenon, <1>8, <1>11
  <2>2. j \in DOMAIN w /\ w[j] = s[i]
      BY Zenon, <1>4, <2>1
  <2>3. QED
      BY Zenon, <2>2 DEF Holds
<1>12. \A j \in DOMAIN w : w[j] # t
    BY Zenon, <1>4, <1>7
<1>13. QED
    BY Zenon, <1>3, <1>5, <1>10, <1>11, <1>12

LEMMA RetainLeft ==
    ASSUME TypeOK, NEW q \in QueueIds, NEW t, retain(q, t)
    PROVE  \E n, f, w : Left(queues[q], t, n, f, w) /\ queues' = [queues EXCEPT ![q] = w]
<1>1. queues[q] \in Seq(Threads) /\ Len(queues[q]) \in Nat
    BY DEF TypeOK, QueueIds
<1>2. PICK n \in 0 .. Len(queues[q]) : \E f \in [1 .. n -> DOMAIN queues[q]] :
          Others(f, queues[q], t) /\ queues' = [queues EXCEPT ![q] = [j \in 1 .. n |-> @[f[j]]]]
    BY Zenon DEF retain
<1>3. PICK f \in [1 .. n -> DOMAIN queues[q]] :
          Others(f, queues[q], t) /\ queues' = [queues EXCEPT ![q] = [j \in 1 .. n |-> @[f[j]]]]
    BY Zenon, <1>2
<1>4. n \in Nat
    BY <1>1
<1>5. Left(queues[q], t, n, f, [j \in 1 .. n |-> queues[q][f[j]]])
    BY Zenon, <1>1, <1>3, <1>4 DEF Left
<1>6. QED
    BY Zenon, <1>3, <1>5

LEMMA TimeoutStep ==
    ASSUME Inv, Sleepers, NEW t \in Threads, Timeout(t)
    PROVE  Inv' /\ Sleepers'
<1>0. TypeOK /\ Fine(t) /\ Len(queues) \in Nat
    BY DEF Inv, TypeOK
<1>1. PICK q : q = guard[t]
    BY Zenon
<1>3. q \in QueueIds
  <2>1. q # 0 /\ q \in 0 .. Len(queues)
      BY Zenon, <1>0, <1>1 DEF Timeout, Fine, Holding, TypeOK
  <2>2. QED
      BY <1>0, <2>1 DEF QueueIds
<1>4. retain(q, t)
    BY Zenon, <1>1 DEF Timeout
<1>2. PICK s : s = queues[q]
    BY Zenon
<1>5. PICK n, f, w : Left(s, t, n, f, w) /\ queues' = [queues EXCEPT ![q] = w]
    BY Zenon, <1>0, <1>2, <1>3, <1>4, RetainLeft
<1>7. queues' = [queues EXCEPT ![q] = w]
    BY Zenon, <1>5
<1>8. /\ Picks(s, w, f) /\ \A j \in DOMAIN w : w[j] # t
      /\ \A i \in DOMAIN s : s[i] # t => Holds(w, s[i])
    BY Zenon, <1>5, Retained
<1>9. w \in Seq(Threads)
    BY Zenon, <1>8 DEF Picks
<1>10. Reorder(q, w, f)
    BY Zenon, <1>2, <1>3, <1>7, <1>8 DEF Reorder
<1>11. \A u \in Threads : pc'[u] = IF u = t THEN "drop" ELSE pc[u]
    BY Zenon, <1>0 DEF Timeout, Goto, TypeOK
<1>12. strayed' = IF InQueue(t, q) THEN strayed ELSE strayed \cup {t}
    BY Zenon, <1>1 DEF Timeout
<1>13. Released(q, w)
  <2> SUFFICES ASSUME NEW u \in Threads
               PROVE  /\ u \in strayed => u \in strayed'
                      /\ pc'[u] = "asleep" => pc[u] = "asleep" /\ (InQueue(u, q) => Holds(w, u))
                      /\ pc[u] = "asleep" /\ pc'[u] # "asleep" /\ u \notin strayed' =>
                            \A r \in QueueIds : \A j \in DOMAIN queues'[r] : queues'[r][j] # u
      BY Zenon DEF Released
  <2>1. u \in strayed => u \in strayed'
      BY Zenon, <1>12
  <2>2. pc'[u] = "asleep" => u # t /\ pc[u] = "asleep"
      BY Zenon, <1>11
  <2>3. ASSUME u # t, InQueue(u, q) PROVE Holds(w, u)
      BY Zenon, <2>3, <1>2, <1>8 DEF InQueue
  <2>4. ASSUME pc[u] = "asleep", pc'[u] # "asleep", u \notin strayed',
               NEW r \in QueueIds, NEW j \in DOMAIN queues'[r], queues'[r][j] = u
        PROVE  FALSE
    <3>1. u = t
        BY Zenon, <2>4, <1>11
    <3>2. InQueue(t, q) /\ t \notin strayed
        BY Zenon, <2>4, <3>1, <1>12
    <3>3. PICK i \in DOMAIN queues[q] : queues[q][i] = t
        BY Zenon, <3>2 DEF InQueue
    <3>4. queues'[q] = w /\ \A x \in QueueIds : x # q => queues'[x] = queues[x]
        BY Zenon, <1>0, <1>3, <1>7, <1>9, OneChanged
    <3>5. CASE r = q
        BY Zenon, <3>1, <3>4, <3>5, <2>4, <1>8
    <3>6. CASE r # q
      <4>1. j \in DOMAIN queues[r] /\ queues[r][j] = t
          BY Zenon, <3>1, <3>4, <3>6, <2>4
      <4>2. QED
          BY Zenon, <4>1, <3>2, <3>3, <3>6, <1>3, OnePlace DEF At
    <3>7. QED
        BY Zenon, <3>5, <3>6
  <2>5. QED
      BY Zenon, <2>1, <2>2, <2>3, <2>4
<1>14. Kept /\ Sleepers'
    BY Zenon, <1>0, <1>10, <1>13, Reordered DEF Timeout, Kept
<1>15. TypeOK'
  <2>1. pc' \in [Threads -> Pcs]
      BY Zenon, <1>0 DEF Timeout, TypeOK, Goto, Pcs
  <2>2. strayed' \in SUBSET Threads
      BY Zenon, <1>0, <1>12 DEF TypeOK
  <2>3. QED
      BY <1>0, <1>14, <2>1, <2>2, Zenon DEF Timeout, TypeOK, call, Kept
<1>16. Fine(t)' /\ \A u \in Threads \ {t} : Same(u)
    BY Zenon, <1>0 DEF Timeout, TypeOK, Goto, Fine, Holding, Holding2, Same, call
<1>17. QED
    BY Zenon, <1>14, <1>15, <1>16, ContentsChanged

\* The places that a notification leaves: all but the first.
Rest(s, w, f) ==
    /\ s \in Seq(Threads) /\ s # << >> /\ w = Tail(s)
    /\ f = [j \in 1 .. Len(s) - 1 |-> j + 1]

LEMMA TailPlaces ==
    ASSUME NEW s, NEW w, NEW f, Rest(s, w, f)
    PROVE  /\ Head(s) = s[1] /\ 1 \in DOMAIN s /\ s[1] \in Threads
           /\ Picks(s, w, f) /\ \A j \in DOMAIN w : f[j] # 1
           /\ \A i \in DOMAIN s : i # 1 => Holds(w, s[i])
<1>0. s \in Seq(Threads) /\ s # << >>
    BY Zenon DEF Rest
<1>1. /\ Len(s) \in Nat /\ 1 \in 1 .. Len(s) /\ Head(s) = s[1] /\ DOMAIN s = 1 .. Len(s)
      /\ s[1] \in Threads
    BY <1>0
<1>2. /\ Tail(s) \in Seq(Threads) /\ Len(Tail(s)) = Len(s) - 1
      /\ \A j \in 1 .. Len(Tail(s)) : Tail(s)[j] = s[j + 1]
    BY Zenon, <1>0, HeadTailProperties
<1>4. w \in Seq(Threads) /\ Len(w) = Len(s) - 1 /\ \A j \in 1 .. Len(w) : w[j] = s[j + 1]
    BY Zenon, <1>2 DEF Rest
<1>5. DOMAIN w = 1 .. Len(s) - 1
  <2>1. w \in Seq(Threads) /\ Len(w) = Len(s) - 1
      BY Zenon, <1>4
  <2>2. QED
      BY <2>1
<1>3. \A j \in 1 .. Len(s) - 1 : f[j] = j + 1
    BY Zenon DEF Rest
<1>6. \A j \in 1 .. Len(s) - 1 : f[j] \in 1 .. Len(s) /\ f[j] # 1
    BY <1>1, <1>3
<1>7. \A j \in DOMAIN w : f[j] \in DOMAIN s /\ w[j] = s[f[j]]
    BY Zenon, <1>1, <1>3, <1>4, <1>5, <1>6
<1>8. \A i, j \in DOMAIN w : f[i] = f[j] => i = j
    BY <1>1, <1>5, <1>3
<1>9. ASSUME NEW i \in DOMAIN s, i # 1 PROVE Holds(w, s[i])
  <2>1. i - 1 \in 1 .. Len(s) - 1 /\ (i - 1) + 1 = i
      BY <1>1, <1>9
  <2>2. w[i - 1] = s[i]
      BY Zenon, <2>1, <1>4
  <2>3. QED
      BY Zenon, <2>1, <2>2, <1>5 DEF Holds
<1>10. Picks(s, w, f)
    BY Zenon, <1>4, <1>7, <1>8 DEF Picks
<1>11. \A j \in DOMAIN w : f[j] # 1
    BY Zenon, <1>5, <1>6
<1>12. QED
    BY Zenon, <1>1, <1>9, <1>10, <1>11

\* A notification takes the first place of q away, and its thread goes on.
LEMMA Notified ==
    ASSUME TypeOK, Sleepers, NEW q \in QueueIds, queues[q] # << >>, notify_one(q),
           strayed' = strayed
    PROVE  /\ queues' \in Seq(Seq(Threads)) /\ Len(queues') = Len(queues) /\ Sleepers'
           /\ Head(queues[q]) \in Threads /\ pc' \in [Threads -> Pcs]
           /\ \A x \in Threads :
                 pc'[x] = IF x = Head(queues[q]) /\ pc[x] = "asleep" THEN "drop" ELSE pc[x]
<1>1. PICK s : s = queues[q]
    BY Zenon
<1>2. s \in Seq(Threads) /\ s # << >> /\ DOMAIN queues = QueueIds
    BY <1>1 DEF TypeOK, QueueIds
<1>3. PICK f : f = [j \in 1 .. Len(s) - 1 |-> j + 1]
    BY Zenon
<1>4. PICK w : w = Tail(s)
    BY Zenon
<1>5. PICK u : u = Head(s)
    BY Zenon
<1>13. Rest(s, w, f)
    BY Zenon, <1>2, <1>3, <1>4 DEF Rest
<1>6. /\ u = s[1] /\ 1 \in DOMAIN s /\ u \in Threads
      /\ Picks(s, w, f) /\ \A j \in DOMAIN w : f[j] # 1
      /\ \A i \in DOMAIN s : i # 1 => Holds(w, s[i])
    BY Zenon, <1>5, <1>13, TailPlaces
<1>7. queues' = [queues EXCEPT ![q] = w]
    BY Zenon, <1>1, <1>2, <1>4 DEF notify_one
<1>8. pc' = IF pc[u] = "asleep" THEN [pc EXCEPT ![u] = "drop"] ELSE pc
    BY Zenon, <1>1, <1>5 DEF notify_one
<1>9. /\ pc' \in [Threads -> Pcs]
      /\ \A x \in Threads : pc'[x] = IF x = u /\ pc[x] = "asleep" THEN "drop" ELSE pc[x]
  <2>1. pc \in [Threads -> Pcs] /\ "drop" \in Pcs
      BY Zenon DEF TypeOK, Pcs
  <2>2. CASE pc[u] = "asleep"
      BY Zenon, <2>1, <2>2, <1>6, <1>8
  <2>3. CASE pc[u] # "asleep"
      BY Zenon, <2>1, <2>3, <1>8
  <2>4. QED
      BY Zenon, <2>2, <2>3
<1>10. Reorder(q, w, f)
    BY Zenon, <1>1, <1>6, <1>7 DEF Reorder
<1>11. Released(q, w)
  <2> SUFFICES ASSUME NEW x \in Threads
               PROVE  /\ pc'[x] = "asleep" => pc[x] = "asleep" /\ (InQueue(x, q) => Holds(w, x))
                      /\ pc[x] = "asleep" /\ pc'[x] # "asleep" /\ x \notin strayed =>
                            \A r \in QueueIds : \A j \in DOMAIN queues'[r] : queues'[r][j] # x
      BY Zenon DEF Released
  <2>1. pc'[x] = "asleep" => x # u /\ pc[x] = "asleep"
      BY Zenon, <1>9
  <2>2. ASSUME x # u, InQueue(x, q) PROVE Holds(w, x)
    <3>1. PICK i \in DOMAIN s : s[i] = x
        BY Zenon, <2>2, <1>1 DEF InQueue
    <3>2. i # 1
        BY Zenon, <3>1, <2>2, <1>6
    <3>3. QED
        BY Zenon, <3>1, <3>2, <1>6
  <2>3. ASSUME pc[x] = "asleep", pc'[x] # "asleep", x \notin strayed,
               NEW r \in QueueIds, NEW j \in DOMAIN queues'[r], queues'[r][j] = x
        PROVE  FALSE
    <3>1. x = u
        BY Zenon, <2>3, <1>9
    <3>2. queues'[q] = w /\ \A y \in QueueIds : y # q => queues'[y] = queues[y]
        BY Zenon, <1>6, <1>7, OneChanged DEF Picks
    <3>3. 1 \in DOMAIN queues[q] /\ queues[q][1] = x
        BY Zenon, <3>1, <1>1, <1>6
    <3>4. CASE r = q
      <4>1. PICK i : i = f[j]
          BY Zenon
      <4>2. i \in DOMAIN queues[q] /\ queues[q][i] = x /\ i # 1
          BY Zenon, <3>2, <3>4, <4>1, <2>3, <1>1, <1>6 DEF Picks
      <4>3. QED
          BY Zenon, <4>2, <3>3, <2>3, OnePlace DEF At
    <3>5. CASE r # q
      <4>1. j \in DOMAIN queues[r] /\ queues[r][j] = x
          BY Zenon, <3>2, <3>5, <2>3
      <4>2. QED
          BY Zenon, <4>1, <3>3, <3>5, <2>3, OnePlace DEF At
    <3>6. QED
        BY Zenon, <3>4, <3>5
  <2>4. QED
      BY Zenon, <2>1, <2>2, <2>3
<1>12. queues' \in Seq(Seq(Threads)) /\ Len(queues') = Len(queues) /\ Sleepers'
    BY Zenon, <1>10, <1>11, Reordered
<1>14. QED
    BY Zenon, <1>1, <1>5, <1>6, <1>9, <1>12

LEMMA NotifyStep ==
    ASSUME Inv, Sleepers, NEW t \in Threads, Notify(t)
    PROVE  Inv' /\ Sleepers'
<1>0. TypeOK /\ Fine(t) /\ Len(queues) \in Nat
    BY DEF Inv, TypeOK
<1>1. guard[t] \in QueueIds /\ queues[guard[t]] # << >>
  <2>1. guard[t] # 0 /\ guard[t] \in 0 .. Len(queues) /\ queues[guard[t]] # << >>
      BY Zenon, <1>0 DEF Notify, Fine, Holding, TypeOK
  <2>2. QED
      BY <1>0, <2>1 DEF QueueIds
<1>2. PICK u : u = Head(queues[guard[t]])
    BY Zenon
<1>3. /\ queues' \in Seq(Seq(Threads)) /\ Len(queues') = Len(queues) /\ Sleepers'
      /\ u \in Threads /\ pc' \in [Threads -> Pcs]
      /\ \A x \in Threads : pc'[x] = IF x = u /\ pc[x] = "asleep" THEN "drop" ELSE pc[x]
    BY Zenon, <1>0, <1>1, <1>2, Notified DEF Notify
<1>4. Kept
    BY Zenon, <1>3 DEF Notify, Kept
<1>5. left' \in [Threads -> Nat]
    BY <1>0 DEF Notify, TypeOK
<1>6. TypeOK'
    BY <1>0, <1>3, <1>4, <1>5, Zenon DEF Notify, TypeOK, Kept
<1>7. pc[t] = "notify" /\ pc'[t] = pc[t]
    BY Zenon, <1>3 DEF Notify
<1>8. Fine(t)' /\ \A x \in Threads \ {t} : Same(x)
    BY Zenon, <1>0, <1>3, <1>7 DEF Notify, Fine, Same
<1>9. QED
    BY Zenon, <1>3, <1>4, <1>6, <1>8, ContentsChanged

LEMMA RequeueMoveStep ==
    ASSUME Inv, Sleepers, NEW t \in Threads, RequeueMove(t)
    PROVE  Inv' /\ Sleepers'
<1>0. TypeOK /\ Fine(t) /\ Apart /\ Len(queues) \in Nat
    BY DEF Inv, TypeOK
<1>1. cmd[t] = "requeue" /\ guard[t] # 0 /\ guard2[t] # 0
    BY Zenon, <1>0 DEF RequeueMove, Fine, Holding, Holding2
<1>3. guard[t] \in QueueIds /\ guard2[t] \in QueueIds /\ value2[t] \in Nat
    BY <1>0, <1>1 DEF QueueIds, TypeOK
<1>4. SameSleepers
    BY Zenon, <1>0 DEF RequeueMove, Goto, TypeOK, SameSleepers
<1>5. Kept /\ Sleepers'
  <2>1. CASE guard[t] = guard2[t]
      BY Zenon, <1>0, <1>3, <1>4, <2>1, RequeuedOne DEF RequeueMove, Kept
  <2>2. CASE guard[t] # guard2[t]
      BY Zenon, <1>0, <1>3, <1>4, <2>2, Requeued DEF RequeueMove, Kept
  <2>3. QED
      BY Zenon, <2>1, <2>2
<1>6. TypeOK'
    BY SMTT(30), <1>0, <1>5 DEF RequeueMove, TypeOK, Goto, Pcs, call, Kept
<1>7. Fine(t)' /\ \A u \in Threads \ {t} : Same(u)
    BY Zenon, <1>0 DEF RequeueMove, TypeOK, Goto, Fine, Holding, Holding2, Same, call
<1>8. QED
    BY Zenon, <1>5, <1>6, <1>7, ContentsChanged

LEMMA Initially == Init => Inv /\ Sleepers
<1> SUFFICES ASSUME Init PROVE Inv /\ Sleepers
    BY Zenon
<1>0. QueueIds = {}
    BY DEF Init, QueueIds
<1>1. TypeOK
    BY FutexAssumption DEF Init, TypeOK, Pcs
<1>2. \A t \in Threads : Fine(t)
    BY Zenon DEF Init, Fine, Holding, Holding2
<1>3. Apart /\ Reach
    BY Zenon, <1>0 DEF Init, Apart, Reach
<1>4. Sleepers
    BY Zenon, <1>0 DEF Init, Sleepers, Asleep, Once, Found, At
<1>5. QED
    BY <1>1, <1>2, <1>3, <1>4 DEF Inv

LEMMA Step == Inv /\ Sleepers /\ [Next]_vars => Inv' /\ Sleepers'
<1> SUFFICES ASSUME Inv, Sleepers, [Next]_vars PROVE Inv' /\ Sleepers'
    BY Zenon
<1>0. TypeOK /\ Len(queues) \in Nat
    BY DEF Inv, TypeOK
<1>1. ASSUME NEW t \in Threads, KernelStep(t) \/ UserCall(t)
      PROVE  Inv' /\ Sleepers'
  <2>1. CASE \/ \E a \in Addrs, v \in Words, b \in BOOLEAN : WaitCheck(t, a, v, b)
             \/ \E a \in Addrs, n \in Counts : WakeGet(t, a, n)
             \/ WaitRefused(t) \/ NotifyEnd(t)
             \/ \E a, a2 \in Addrs, n \in Counts, n2 \in Moves : RequeueGet(t, a, a2, n, n2)
             \/ ExitClear(t) \/ ExitGet(t)
    <3>1. Inv' /\ queues' = queues
        BY ZenonT(40), <2>1, LocalSteps
    <3>2. SameSleepers
        BY ZenonT(40), <2>1, <1>0 DEF WaitCheck, WaitRefused, WakeGet, NotifyEnd, RequeueGet, ExitClear, ExitGet,
                          Goto, TypeOK, SameSleepers
    <3>3. QED
        BY <1>0, <3>1, <3>2, Undisturbed DEF QueueIds
  <2>2. CASE WaitGet(t) \/ RequeueGet2(t) \/ Drop(t) \/ Drop2(t)
    <3>1. /\ Inv' /\ Len(queues') >= Len(queues)
          /\ \A q \in QueueIds : queues'[q] = queues[q]
          /\ \A q \in QueueIds' : q \in QueueIds \/ queues'[q] = << >>
          /\ \A u \in Threads : (pc'[u] = "asleep") <=> (pc[u] = "asleep")
        BY ZenonT(30), <2>2, TableSteps
    <3>2. SameSleepers
        BY Zenon, <2>2, <3>1 DEF SameSleepers, WaitGet, RequeueGet2, Drop, Drop2
    <3>3. queues' \in Seq(Seq(Threads))
        BY Zenon, <3>1 DEF Inv, TypeOK
    <3>4. Len(queues') \in Nat
        BY <3>3
    <3>5. QED
        BY Zenon, <1>0, <3>1, <3>2, <3>4, Undisturbed
  <2>3. CASE WaitSleep(t) \/ Timeout(t) \/ Notify(t) \/ RequeueMove(t)
      BY Zenon, <2>3, WaitSleepStep, TimeoutStep, NotifyStep, RequeueMoveStep
  <2>4. QED
      BY Zenon, <1>1, <2>1, <2>2, <2>3 DEF KernelStep, UserCall
<1>2. CASE UNCHANGED vars
  <2>0. TypeOK'
      BY Zenon, <1>0, <1>2 DEF vars, TypeOK
  <2>1. Apart' /\ Reach'
      BY Zenon, <1>2 DEF vars, Inv, Apart, Reach, QueueIds
  <2>2. \A u \in Threads : Fine(u)'
      BY <1>2 DEF vars, Inv, Fine, Holding, Holding2
  <2>3. SameSleepers /\ queues' = queues
      BY Zenon, <1>2 DEF vars, SameSleepers
  <2>4. Sleepers'
      BY SMTT(30), <1>0, <2>3, Undisturbed DEF QueueIds
  <2>5. QED
      BY Zenon, <2>0, <2>1, <2>2, <2>4 DEF Inv
<1>3. QED
    BY Zenon, <1>1, <1>2 DEF Next

LEMMA Always == Spec => [](Inv /\ Sleepers)
<1>1. QED
    BY Initially, Step, PTL DEF Spec

\* FutexTable: a queue a thread has looked up stays the queue of its address
\* until the thread drops its guard, whatever the other threads wait for,
\* wake, move or drop; addresses do not share queues.
THEOREM EntriesKept == Spec => []GuardsKeepEntry
<1>1. Inv => GuardsKeepEntry
    BY Zenon DEF Inv, Apart, Fine, GuardsKeepEntry
<1>2. QED
    BY <1>1, Always, PTL

\* Every thread asleep in FUTEX_WAIT is at a place of a queue of the table, so
\* that a wake reaches it.  It has no other place, and a thread that is awake has
\* none, unless a REQUEUE has moved its place before a timeout of its WAIT.
THEOREM SleepersStayReachable == Spec => []SleepersReachable
<1>1. ASSUME Inv, Sleepers PROVE SleepersReachable
  <2> SUFFICES ASSUME NEW t \in Threads
               PROVE  /\ pc[t] = "asleep" => \E q \in QueueIds : InQueue(t, q) /\ \E a \in Addrs : table[a] = q
                      /\ t \notin strayed =>
                           /\ pc[t] # "asleep" => \A q \in QueueIds : ~InQueue(t, q)
                           /\ \A q, r \in QueueIds : \A i \in DOMAIN queues[q], j \in DOMAIN queues[r] :
                                 queues[q][i] = t /\ queues[r][j] = t => q = r /\ i = j
      BY Zenon DEF SleepersReachable
  <2>1. pc[t] = "asleep" => \E q \in QueueIds : InQueue(t, q) /\ \E a \in Addrs : table[a] = q
      BY Zenon, <1>1 DEF Sleepers, Found, Inv, Reach, InQueue
  <2>2. ASSUME t \notin strayed, pc[t] # "asleep" PROVE \A q \in QueueIds : ~InQueue(t, q)
      BY Zenon, <1>1, <2>2 DEF Sleepers, Asleep, InQueue
  <2>3. ASSUME t \notin strayed, NEW q \in QueueIds, NEW r \in QueueIds,
               NEW i \in DOMAIN queues[q], NEW j \in DOMAIN queues[r],
               queues[q][i] = t, queues[r][j] = t
        PROVE  q = r /\ i = j
      BY Zenon, <1>1, <2>3, OnePlace DEF At
  <2>4. QED
      BY ZenonT(40), <2>1, <2>2, <2>3
<1>2. QED
    BY <1>1, Always, PTL
-----------------------------------------------------------------------------
(* The table implements one queue per address (FutexQueues): a thread's    *)
(* guard is the queue that the table has for the address of its call, so    *)
(* what it does to that queue it does to the queue of the address.          *)

\* Only the queue of a changes.
LEMMA OneQueue ==
    ASSUME TypeOK, Apart, NEW a \in Addrs, table[a] # 0, NEW w, table' = table,
           queues' = [queues EXCEPT ![table[a]] = w]
    PROVE  Waiting[a] = queues[table[a]] /\ Waiting' = [Waiting EXCEPT ![a] = w]
<1>1. table \in [Addrs -> 0 .. Len(queues)] /\ DOMAIN queues = 1 .. Len(queues) /\ Len(queues) \in Nat
    BY DEF TypeOK
<1>2. table[a] \in DOMAIN queues
    BY <1>1
<1>3. queues'[table[a]] = w /\ \A b \in Addrs : b # a => queues'[table[b]] = queues[table[b]] \/ table[b] = 0
  <2> SUFFICES ASSUME NEW b \in Addrs, b # a, table[b] # 0
               PROVE  queues'[table[a]] = w /\ queues'[table[b]] = queues[table[b]]
      BY Zenon, <1>2
  <2>1. table[b] \in DOMAIN queues /\ table[b] # table[a]
      BY <1>1 DEF Apart
  <2>2. QED
      BY Zenon, <1>2, <2>1
<1>4. Waiting[a] = queues[table[a]]
    BY Zenon DEF Waiting
<1>5. Waiting' = [b \in Addrs |-> IF b = a THEN w ELSE Waiting[b]]
    BY Zenon, <1>3 DEF Waiting
<1>6. [Waiting EXCEPT ![a] = w] = [b \in Addrs |-> IF b = a THEN w ELSE Waiting[b]]
    BY Zenon DEF Waiting
<1>7. QED
    BY Zenon, <1>4, <1>5, <1>6

\* g is f with two of its values replaced.
Changed(f, g, q, w, p, y) == g = [[f EXCEPT ![q] = w] EXCEPT ![p] = y]

\* The queues of two addresses change.
LEMMA TwoQueues ==
    ASSUME TypeOK, Apart, NEW a \in Addrs, NEW b \in Addrs, a # b, table[a] # 0, table[b] # 0,
           NEW w, NEW y, table' = table,
           Changed(queues, queues', table[a], w, table[b], y)
    PROVE  Changed(Waiting, Waiting', a, w, b, y)
<1>1. table \in [Addrs -> 0 .. Len(queues)] /\ DOMAIN queues = 1 .. Len(queues) /\ Len(queues) \in Nat
    BY DEF TypeOK
<1>2. table[a] \in DOMAIN queues /\ table[b] \in DOMAIN queues /\ table[a] # table[b]
    BY <1>1 DEF Apart
<1>3. \A x \in DOMAIN queues :
          queues'[x] = IF x = table[b] THEN y ELSE IF x = table[a] THEN w ELSE queues[x]
    BY Zenon, <1>2 DEF Changed
<1>4. \A c \in Addrs : table[c] # 0 => table[c] \in DOMAIN queues
    BY <1>1
<1>5. Waiting' = [c \in Addrs |-> IF c = b THEN y ELSE IF c = a THEN w ELSE Waiting[c]]
  <2> SUFFICES ASSUME NEW c \in Addrs
               PROVE  (IF table[c] = 0 THEN << >> ELSE queues'[table[c]])
                        = IF c = b THEN y ELSE IF c = a THEN w ELSE Waiting[c]
      BY Zenon DEF Waiting
  <2>1. CASE c = b
      BY Zenon, <2>1, <1>2, <1>3
  <2>2. CASE c = a
      BY Zenon, <2>2, <1>2, <1>3
  <2>3. CASE c # a /\ c # b /\ table[c] # 0
    <3>1. table[c] # table[a] /\ table[c] # table[b]
        BY Zenon, <2>3 DEF Apart
    <3>2. QED
        BY Zenon, <2>3, <3>1, <1>3, <1>4 DEF Waiting
  <2>4. CASE c # a /\ c # b /\ table[c] = 0
      BY Zenon, <2>4 DEF Waiting
  <2>5. QED
      BY Zenon, <2>1, <2>2, <2>3, <2>4
<1>6. [[Waiting EXCEPT ![a] = w] EXCEPT ![b] = y]
        = [c \in Addrs |-> IF c = b THEN y ELSE IF c = a THEN w ELSE Waiting[c]]
    BY Zenon DEF Waiting
<1>7. QED
    BY Zenon, <1>5, <1>6 DEF Changed

\* A new entry of the table is an empty queue, as no entry was.
LEMMA EntryUnseen ==
    ASSUME TypeOK, NEW a \in Addrs,
           \/ table[a] # 0 /\ UNCHANGED << table, queues >>
           \/ /\ table[a] = 0 /\ queues' = Append(queues, << >>)
              /\ table' = [table EXCEPT ![a] = Len(queues) + 1]
    PROVE  Waiting' = Waiting
<1>1. CASE UNCHANGED << table, queues >>
    BY Zenon, <1>1 DEF Waiting
<1>2. CASE /\ table[a] = 0 /\ queues' = Append(queues, << >>)
           /\ table' = [table EXCEPT ![a] = Len(queues) + 1]
  <2>1. table \in [Addrs -> 0 .. Len(queues)] /\ queues \in Seq(Seq(Threads)) /\ Len(queues) \in Nat
      BY DEF TypeOK
  <2>2. queues'[Len(queues) + 1] = << >> /\ \A q \in 1 .. Len(queues) : queues'[q] = queues[q]
      BY <1>2, <2>1
  <2>3. \A b \in Addrs : table[b] # 0 => table[b] \in 1 .. Len(queues)
      BY <2>1
  <2>4. /\ table'[a] = Len(queues) + 1 /\ table'[a] # 0
        /\ \A b \in Addrs : b # a => table'[b] = table[b]
      BY <1>2, <2>1
  <2>5. \A b \in Addrs : (IF table'[b] = 0 THEN << >> ELSE queues'[table'[b]]) = Waiting[b]
    <3>1. (IF table'[a] = 0 THEN << >> ELSE queues'[table'[a]]) = Waiting[a]
        BY Zenon, <1>2, <2>2, <2>4 DEF Waiting
    <3>2. ASSUME NEW b \in Addrs, b # a
          PROVE  (IF table'[b] = 0 THEN << >> ELSE queues'[table'[b]]) = Waiting[b]
        BY Zenon, <3>2, <2>2, <2>3, <2>4 DEF Waiting
    <3>3. QED
        BY Zenon, <3>1, <3>2
  <2>6. QED
      BY Zenon, <2>5 DEF Waiting
<1>3. QED
    BY Zenon, <1>1, <1>2

\* What a step does to the set of sleepers.
LEMMA SleepingKept ==
    ASSUME SameSleepers PROVE Sleeping' = Sleeping
    BY Zenon DEF SameSleepers, Sleeping

LEMMA SleeperLeaves ==
    ASSUME TypeOK, NEW u \in Threads, pc' = [pc EXCEPT ![u] = "drop"]
    PROVE  Sleeping' = Sleeping \ {u}
<1>1. \A x \in Threads : pc'[x] = IF x = u THEN "drop" ELSE pc[x]
    BY Zenon DEF TypeOK
<1>2. QED
    BY <1>1 DEF Sleeping

LEMMA SleeperJoins ==
    ASSUME TypeOK, NEW u \in Threads, pc' = [pc EXCEPT ![u] = "asleep"]
    PROVE  Sleeping' = Sleeping \cup {u}
<1>1. \A x \in Threads : pc'[x] = IF x = u THEN "asleep" ELSE pc[x]
    BY Zenon DEF TypeOK
<1>2. QED
    BY <1>1 DEF Sleeping

\* The calls of the abstract queues that a step of the kernel may be.
Refines == [Queues!Next]_Queues!queueVars

\* A step that moves no sleeper and sets the addresses of t, or none.
LEMMA TurnRefines ==
    ASSUME TypeOK, TypeOK', NEW t \in Threads, pc[t] # "asleep",
           Waiting' = Waiting, SameSleepers,
           \A u \in Threads \ {t} : addr'[u] = addr[u] /\ addr2'[u] = addr2[u]
    PROVE  Refines
<1>1. /\ addr \in [Threads -> Addrs \cup {NoAddr}] /\ addr' \in [Threads -> Addrs \cup {NoAddr}]
      /\ addr2 \in [Threads -> Addrs \cup {NoAddr}] /\ addr2' \in [Threads -> Addrs \cup {NoAddr}]
    BY Zenon DEF TypeOK
<1>2. addr' = [addr EXCEPT ![t] = addr'[t]]
    BY <1>1
<1>3. addr2' = [addr2 EXCEPT ![t] = addr2'[t]]
    BY <1>1
<1>4. t \notin Sleeping /\ Sleeping' = Sleeping
    BY Zenon, SleepingKept DEF Sleeping
<1>5. Queues!Turn(t, addr'[t], addr2'[t])
    BY Zenon, <1>2, <1>3, <1>4 DEF Queues!Turn
<1>6. addr'[t] \in Addrs \cup {NoAddr} /\ addr2'[t] \in Addrs \cup {NoAddr}
    BY Zenon, <1>1
<1>7. QED
    BY Zenon, <1>5, <1>6 DEF Refines, Queues!Next

\* The steps outside the queues: calls begin and end, entries are looked up.
LEMMA QuietRefines ==
    ASSUME Inv, Inv', NEW t \in Threads,
           \/ \E a \in Addrs, v \in Words, b \in BOOLEAN : WaitCheck(t, a, v, b)
           \/ \E a \in Addrs, n \in Counts : WakeGet(t, a, n)
           \/ WaitRefused(t) \/ NotifyEnd(t)
           \/ \E a, a2 \in Addrs, n \in Counts, n2 \in Moves : RequeueGet(t, a, a2, n, n2)
           \/ ExitClear(t) \/ ExitGet(t)
           \/ WaitGet(t) \/ RequeueGet2(t) \/ Drop(t) \/ Drop2(t)
    PROVE  Refines
<1>0. TypeOK /\ TypeOK' /\ Fine(t)
    BY Zenon DEF Inv
<1> DEFINE Quiet == /\ Waiting' = Waiting /\ SameSleepers /\ pc[t] # "asleep"
                    /\ \A u \in Threads \ {t} : addr'[u] = addr[u] /\ addr2'[u] = addr2[u]
           Sets == UNCHANGED << table, queues >>
<1>1. Sets => Waiting' = Waiting
    BY Zenon DEF Waiting
<1>2. ASSUME NEW a \in Addrs, NEW v \in Words, NEW b \in BOOLEAN, WaitCheck(t, a, v, b)
      PROVE  Quiet
    BY Zenon, <1>0, <1>1, <1>2 DEF WaitCheck, Goto, TypeOK, SameSleepers
<1>3. ASSUME NEW a \in Addrs, NEW n \in Counts, WakeGet(t, a, n)
      PROVE  Quiet
    BY Zenon, <1>0, <1>1, <1>3 DEF WakeGet, Goto, TypeOK, SameSleepers
<1>4. ASSUME NotifyEnd(t)
      PROVE  Quiet
    BY Zenon, <1>0, <1>1, <1>4 DEF NotifyEnd, Goto, TypeOK, SameSleepers, call
<1>14. ASSUME WaitRefused(t)
      PROVE  Quiet
    BY Zenon, <1>0, <1>1, <1>14 DEF WaitRefused, Goto, TypeOK, SameSleepers, call
<1>5. ASSUME NEW a \in Addrs, NEW a2 \in Addrs, NEW n \in Counts, NEW n2 \in Moves,
             RequeueGet(t, a, a2, n, n2)
      PROVE  Quiet
    BY Zenon, <1>0, <1>1, <1>5 DEF RequeueGet, Goto, TypeOK, SameSleepers
<1>6. ASSUME ExitClear(t)
      PROVE  Quiet
    BY Zenon, <1>0, <1>1, <1>6 DEF ExitClear, Goto, TypeOK, SameSleepers
<1>7. ASSUME ExitGet(t)
      PROVE  Quiet
    BY Zenon, <1>0, <1>1, <1>7 DEF ExitGet, Goto, TypeOK, SameSleepers, call
<1>8. ASSUME WaitGet(t)
      PROVE  Quiet
  <2>1. addr[t] \in Addrs
      BY Zenon, <1>0, <1>8 DEF WaitGet, Fine
  <2>2. Waiting' = Waiting
      BY Zenon, <1>0, <1>8, <2>1, EntryUnseen DEF WaitGet, get_or_insert
  <2>3. QED
      BY Zenon, <1>0, <1>8, <2>2 DEF WaitGet, Goto, TypeOK, SameSleepers, call
<1>9. ASSUME RequeueGet2(t)
      PROVE  Quiet
  <2>1. addr2[t] \in Addrs
      BY Zenon, <1>0, <1>9 DEF RequeueGet2, Fine
  <2>2. Waiting' = Waiting
      BY Zenon, <1>0, <1>9, <2>1, EntryUnseen DEF RequeueGet2, get_or_insert
  <2>3. QED
      BY Zenon, <1>0, <1>9, <2>2 DEF RequeueGet2, Goto, TypeOK, SameSleepers, call
<1>10. ASSUME Drop(t)
      PROVE  Quiet
  <2>1. guard[t] # 0 /\ addr[t] \in Addrs /\ table[addr[t]] = guard[t]
      BY Zenon, <1>0, <1>10 DEF Drop, Fine, Holding
  <2>2. Sets
      BY Zenon, <1>0, <1>10, <2>1, TwoReferences DEF Drop, drop
  <2>3. SameSleepers
      BY Zenon, <1>10, TableSteps DEF SameSleepers, Drop
  <2>4. CASE cmd[t] = "requeue"
      BY Zenon, <1>1, <1>10, <2>2, <2>3, <2>4 DEF Drop, call
  <2>5. CASE cmd[t] # "requeue"
    <3>1. \A u \in Threads \ {t} : addr'[u] = addr[u] /\ addr2'[u] = addr2[u]
      <4>1. addr' = [addr EXCEPT ![t] = NoAddr] /\ addr2' = [addr2 EXCEPT ![t] = NoAddr]
          BY Zenon, <1>10, <2>5 DEF Drop, EndCall
      <4>2. addr \in [Threads -> Addrs \cup {NoAddr}] /\ addr2 \in [Threads -> Addrs \cup {NoAddr}]
          BY Zenon, <1>0 DEF TypeOK
      <4>3. QED
          BY Zenon, <4>1, <4>2
    <3>2. QED
        BY Zenon, <1>1, <1>10, <2>2, <2>3, <3>1 DEF Drop
  <2>6. QED
      BY Zenon, <2>4, <2>5
<1>11. ASSUME Drop2(t)
      PROVE  Quiet
  <2>1. guard2[t] # 0 /\ addr2[t] \in Addrs /\ table[addr2[t]] = guard2[t]
      BY Zenon, <1>0, <1>11 DEF Drop2, Fine, Holding2
  <2>2. Sets
      BY Zenon, <1>0, <1>11, <2>1, TwoReferences DEF Drop2, drop
  <2>3. SameSleepers
      BY Zenon, <1>11, TableSteps DEF SameSleepers, Drop2
  <2>4. QED
      BY ZenonT(40), <1>0, <1>1, <1>11, <2>2, <2>3 DEF Drop2, EndCall, TypeOK
<1>12. Quiet
    BY Zenon, <1>2, <1>3, <1>4, <1>5, <1>6, <1>7, <1>8, <1>9, <1>10, <1>11, <1>14
<1>13. QED
    BY Zenon, <1>0, <1>12, TurnRefines

\* A thread that goes to sleep is the youngest at the address of its call.
LEMMA SleepRefines ==
    ASSUME Inv, NEW t \in Threads, WaitSleep(t)
    PROVE  Refines
<1>0. TypeOK /\ Apart /\ Fine(t)
    BY Zenon DEF Inv
<1>1. addr[t] \in Addrs /\ table[addr[t]] # 0 /\ table[addr[t]] = guard[t]
    BY Zenon, <1>0 DEF WaitSleep, Fine, Holding
<1>2. table[addr[t]] \in DOMAIN queues
    BY <1>0, <1>1 DEF TypeOK
<1>3. queues' = [queues EXCEPT ![table[addr[t]]] = Append(queues[table[addr[t]]], t)]
    BY Zenon, <1>1, <1>2 DEF WaitSleep
<1>4. /\ Waiting[addr[t]] = queues[table[addr[t]]]
      /\ Waiting' = [Waiting EXCEPT ![addr[t]] = Append(queues[table[addr[t]]], t)]
    BY Zenon, <1>0, <1>1, <1>3, OneQueue DEF WaitSleep
<1>5. t \notin Sleeping /\ Sleeping' = Sleeping \cup {t}
    BY Zenon, <1>0, SleeperJoins DEF WaitSleep, Goto, Sleeping
<1>6. Waiting' = [Waiting EXCEPT ![addr[t]] = Append(@, t)]
    BY Zenon, <1>1, <1>4 DEF Waiting
<1>7. Queues!Sleep(t)
    BY Zenon, <1>1, <1>5, <1>6 DEF Queues!Sleep, WaitSleep, call
<1>8. QED
    BY Zenon, <1>7 DEF Refines, Queues!Next

\* notify_one takes the oldest place at the address of the call.
LEMMA WakeRefines ==
    ASSUME Inv, NEW t \in Threads, Notify(t)
    PROVE  Refines
<1>0. TypeOK /\ Apart /\ Fine(t)
    BY Zenon DEF Inv
<1>1. addr[t] \in Addrs /\ table[addr[t]] # 0 /\ table[addr[t]] = guard[t]
    BY Zenon, <1>0 DEF Notify, Fine, Holding
<1>2. table[addr[t]] \in DOMAIN queues /\ queues[table[addr[t]]] \in Seq(Threads)
    BY <1>0, <1>1 DEF TypeOK
<1>3. PICK s : s = queues[table[addr[t]]]
    BY Zenon
<1>4. s \in Seq(Threads) /\ s # << >> /\ s = queues[guard[t]]
    BY Zenon, <1>1, <1>2, <1>3 DEF Notify
<1>5. Head(s) \in Threads
    BY <1>4
<1>6. queues' = [queues EXCEPT ![table[addr[t]]] = Tail(s)] 
      /\ pc' = IF pc[Head(s)] = "asleep" THEN [pc EXCEPT ![Head(s)] = "drop"] ELSE pc
    BY Zenon, <1>1, <1>2, <1>3 DEF Notify, notify_one
<1>7. Waiting[addr[t]] = s /\ Waiting' = [Waiting EXCEPT ![addr[t]] = Tail(s)]
    BY Zenon, <1>0, <1>1, <1>3, <1>6, OneQueue DEF Notify
<1>8. Sleeping' = Sleeping \ {Head(s)}
  <2>1. CASE pc[Head(s)] = "asleep"
      BY Zenon, <1>0, <1>5, <1>6, <2>1, SleeperLeaves
  <2>2. CASE pc[Head(s)] # "asleep"
      BY Zenon, <1>6, <2>2 DEF Sleeping
  <2>3. QED
      BY Zenon, <2>1, <2>2
<1>9. Waiting' = [Waiting EXCEPT ![addr[t]] = Tail(@)]
    BY Zenon, <1>1, <1>7 DEF Waiting
<1>10. Queues!Wake(t)
    BY Zenon, <1>1, <1>4, <1>7, <1>8, <1>9 DEF Queues!Wake, Notify
<1>11. QED
    BY Zenon, <1>10 DEF Refines, Queues!Next

\* A timeout gives up the places of the thread at the address of its call.
LEMMA TimeOutRefines ==
    ASSUME Inv, NEW t \in Threads, Timeout(t)
    PROVE  Refines
<1>0. TypeOK /\ Apart /\ Fine(t)
    BY Zenon DEF Inv
<1>1. PICK a : a = addr[t]
    BY Zenon
<1>2. a \in Addrs /\ table[a] # 0 /\ table[a] = guard[t]
    BY Zenon, <1>0, <1>1 DEF Timeout, Fine, Holding
<1>3. PICK s : s = queues[table[a]]
    BY Zenon
<1>4. table[a] \in DOMAIN queues /\ s \in Seq(Threads)
    BY <1>0, <1>2, <1>3 DEF TypeOK
<1>5. table[a] \in QueueIds /\ retain(table[a], t)
  <2>1. table[a] \in QueueIds
      BY <1>4, <1>0 DEF QueueIds, TypeOK
  <2>2. QED
      BY Zenon, <1>2, <2>1 DEF Timeout
<1>6. PICK n, f, w : Left(s, t, n, f, w) /\ queues' = [queues EXCEPT ![table[a]] = w]
    BY Zenon, <1>0, <1>3, <1>5, RetainLeft
<1>8. queues' = [queues EXCEPT ![table[a]] = w] /\ table' = table
    BY Zenon, <1>6 DEF Timeout
<1>9. Waiting[a] = s /\ Waiting' = [Waiting EXCEPT ![a] = w]
    BY Zenon, <1>0, <1>2, <1>3, <1>8, OneQueue
<1>10. Waiting'[a] = w
    BY Zenon, <1>2, <1>9 DEF Waiting
<1>12. Len(w) = n /\ DOMAIN f = 1 .. n
    BY Zenon, <1>6, Retained
<1>13. Queues!Without(s, t, w)
    BY Zenon, <1>6, <1>12 DEF Left, Others, Queues!Without
<1>14. t \in Sleeping /\ Sleeping' = Sleeping \ {t}
    BY Zenon, <1>0, SleeperLeaves DEF Timeout, Goto, Sleeping
<1>15. Queues!TimeOut(t)
    BY Zenon, <1>1, <1>2, <1>9, <1>10, <1>13, <1>14 DEF Queues!TimeOut, Timeout, call
<1>16. QED
    BY Zenon, <1>15 DEF Refines, Queues!Next

\* A requeue moves the oldest places of one address behind those of another.
LEMMA RequeueOther ==
    ASSUME Inv, NEW t \in Threads, RequeueMove(t), addr[t] # addr2[t]
    PROVE  Refines
<1>0. TypeOK /\ Apart /\ Fine(t)
    BY Zenon DEF Inv
<1>1. /\ addr[t] \in Addrs /\ table[addr[t]] = guard[t] /\ guard[t] # 0
      /\ addr2[t] \in Addrs /\ table[addr2[t]] = guard2[t] /\ guard2[t] # 0
    BY Zenon, <1>0 DEF RequeueMove, Fine, Holding, Holding2
<1>2. PICK a : a = addr[t]
    BY Zenon
<1>3. PICK b : b = addr2[t]
    BY Zenon
<1>4. PICK s : s = queues[table[a]]
    BY Zenon
<1>5. PICK z : z = queues[table[b]]
    BY Zenon
<1>6. PICK k : k = Least(value2[t], Len(s))
    BY Zenon
<1>7. /\ a \in Addrs /\ b \in Addrs /\ a # b /\ table[a] # 0 /\ table[b] # 0
      /\ table[a] = guard[t] /\ table[b] = guard2[t]
    BY Zenon, <1>1, <1>2, <1>3
<1>8. /\ table[a] \in DOMAIN queues /\ table[b] \in DOMAIN queues /\ table[a] # table[b]
      /\ s \in Seq(Threads) /\ value2[t] \in Nat
    BY <1>0, <1>4, <1>7 DEF TypeOK, Apart
<1>9. k \in 0 .. Len(s)
    BY <1>6, <1>8 DEF Least
<1>10. queues' = [[queues EXCEPT ![table[a]] = SubSeq(s, k + 1, Len(s))]
                     EXCEPT ![table[b]] = z \o SubSeq(s, 1, k)]
    BY Zenon, <1>4, <1>5, <1>6, <1>7, <1>8 DEF RequeueMove, requeue
<1>11. Waiting' = [[Waiting EXCEPT ![a] = SubSeq(s, k + 1, Len(s))] EXCEPT ![b] = z \o SubSeq(s, 1, k)]
  <2>1. PICK w : w = SubSeq(s, k + 1, Len(s))
      BY Zenon
  <2>2. PICK y : y = z \o SubSeq(s, 1, k)
      BY Zenon
  <2>3. table' = table /\ Changed(queues, queues', table[a], w, table[b], y)
      BY Zenon, <1>10, <2>1, <2>2 DEF RequeueMove, Changed
  <2>4. Changed(Waiting, Waiting', a, w, b, y)
      BY Zenon, <1>0, <1>7, <2>3, TwoQueues
  <2>5. QED
      BY Zenon, <2>1, <2>2, <2>4 DEF Changed
<1>12. Waiting[a] = s /\ Waiting[b] = z
    BY Zenon, <1>4, <1>5, <1>7 DEF Waiting
<1>13. Waiting' = [[Waiting EXCEPT ![a] = SubSeq(@, k + 1, Len(@))]
                      EXCEPT ![b] = @ \o SubSeq(Waiting[a], 1, k)]
  <2>1. [Waiting EXCEPT ![a] = SubSeq(@, k + 1, Len(@))][b] = z
      BY Zenon, <1>7, <1>12 DEF Waiting
  <2>2. QED
      BY Zenon, <1>11, <1>12, <2>1
<1>14. Sleeping' = Sleeping
  <2>1. SameSleepers
      BY Zenon, <1>0 DEF RequeueMove, Goto, TypeOK, SameSleepers
  <2>2. QED
      BY Zenon, <2>1, SleepingKept
<1>15. Queues!Requeue(t)
    BY Zenon, <1>2, <1>3, <1>7, <1>9, <1>12, <1>13, <1>14 DEF Queues!Requeue, RequeueMove, call
<1>16. QED
    BY Zenon, <1>15 DEF Refines, Queues!Next

\* A requeue to its own address moves the oldest places there to the end.
LEMMA RequeueSame ==
    ASSUME Inv, NEW t \in Threads, RequeueMove(t), addr[t] = addr2[t]
    PROVE  Refines
<1>0. TypeOK /\ Apart /\ Fine(t)
    BY Zenon DEF Inv
<1>1. PICK a : a = addr[t]
    BY Zenon
<1>2. /\ a \in Addrs /\ table[a] # 0 /\ table[a] = guard[t] /\ table[a] = guard2[t]
      /\ addr2[t] = a
    BY Zenon, <1>0, <1>1 DEF RequeueMove, Fine, Holding, Holding2
<1>3. PICK s : s = queues[table[a]]
    BY Zenon
<1>4. table[a] \in QueueIds /\ value2[t] \in Nat
    BY <1>0, <1>2 DEF TypeOK, QueueIds
<1>5. PICK k \in 0 .. Len(s) :
          queues' = [queues EXCEPT ![table[a]] = SubSeq(s, k + 1, Len(s)) \o SubSeq(s, 1, k)]
  <2>1. requeue(table[a], value2[t], table[a])
      BY Zenon, <1>2 DEF RequeueMove
  <2>2. QED
      BY Zenon, <1>0, <1>3, <1>4, <2>1, RequeueOne
<1>6. Waiting[a] = s /\ Waiting' = [Waiting EXCEPT ![a] = SubSeq(s, k + 1, Len(s)) \o SubSeq(s, 1, k)]
    BY Zenon, <1>0, <1>2, <1>3, <1>5, OneQueue DEF RequeueMove
<1>7. Waiting' = [[Waiting EXCEPT ![a] = SubSeq(@, k + 1, Len(@))]
                     EXCEPT ![a] = @ \o SubSeq(Waiting[a], 1, k)]
  <2>1. PICK w : w = SubSeq(s, k + 1, Len(s))
      BY Zenon
  <2>2. PICK m : m = SubSeq(s, 1, k)
      BY Zenon
  <2>3. PICK g : Twofold(Waiting, a, w, m, g)
      BY Zenon DEF Twofold
  <2>4. a \in DOMAIN Waiting
      BY Zenon, <1>2 DEF Waiting
  <2>7. Waiting' = g
    <3>1. g = [Waiting EXCEPT ![a] = w \o m]
        BY Zenon, <2>3, <2>4, Twice
    <3>2. QED
        BY Zenon, <1>6, <2>1, <2>2, <3>1
  <2>5. [[Waiting EXCEPT ![a] = SubSeq(@, k + 1, Len(@))] EXCEPT ![a] = @ \o SubSeq(Waiting[a], 1, k)] = g
      BY Zenon, <1>6, <2>1, <2>2, <2>3 DEF Twofold
  <2>6. QED
      BY Zenon, <2>5, <2>7
<1>8. Sleeping' = Sleeping
  <2>1. SameSleepers
      BY Zenon, <1>0 DEF RequeueMove, Goto, TypeOK, SameSleepers
  <2>2. QED
      BY Zenon, <2>1, SleepingKept
<1>9. Queues!Requeue(t)
    BY Zenon, <1>1, <1>2, <1>6, <1>7, <1>8 DEF Queues!Requeue, RequeueMove, call
<1>10. QED
    BY Zenon, <1>9 DEF Refines, Queues!Next

LEMMA RequeueRefines ==
    ASSUME Inv, NEW t \in Threads, RequeueMove(t)
    PROVE  Refines
    BY Zenon, RequeueOther, RequeueSame

\* The futexes of a process are one first-in first-out queue of places per
\* address, with requeues from an address to itself and with timeouts that give
\* up the places at the address of the call only.
THEOREM Refinement == Spec => ImplementsQueues
<1>1. Init => Queues!Init
  <2> SUFFICES ASSUME Init PROVE Queues!Init
      BY Zenon
  <2>1. Waiting = [a \in Addrs |-> << >>] /\ Sleeping = {}
      BY Zenon DEF Init, Waiting, Sleeping
  <2>2. QED
      BY Zenon, <2>1 DEF Init, Queues!Init
<1>2. Inv /\ Inv' /\ [Next]_vars => [Queues!Next]_Queues!queueVars
  <2> SUFFICES ASSUME Inv, Inv', [Next]_vars PROVE Refines
      BY Zenon DEF Refines
  <2>1. ASSUME NEW t \in Threads, KernelStep(t) \/ UserCall(t) PROVE Refines
      BY ZenonT(30), <2>1, QuietRefines, SleepRefines, WakeRefines, TimeOutRefines, RequeueRefines
      DEF KernelStep, UserCall
  <2>2. CASE UNCHANGED vars
      BY Zenon, <2>2 DEF vars, Refines, Queues!queueVars, Waiting, Sleeping
  <2>3. QED
      BY Zenon, <2>1, <2>2 DEF Next
<1>3. QED
    BY <1>1, <1>2, Always, PTL DEF Spec, ImplementsQueues, Queues!Spec
=============================================================================
