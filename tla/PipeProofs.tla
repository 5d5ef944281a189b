----------------------------- MODULE PipeProofs -----------------------------
(* Machine-checked facts about the pipe, for every ring size, every set of  *)
(* threads and every set of buffers.                                        *)
EXTENDS Pipe, SequenceTheorems, TLAPS

\* The inductive invariant behind NoOverrun: besides types, the status tells
\* a full ring from an empty one exactly when the indices cannot, and the
\* thread inside the critical section is the one that holds the mutex.
RingOK == (status = "Normal") <=> (head # tail)
MutexOK == \A t \in Threads : InLoop(t) <=> lock = t
IInv == TypeOK /\ RingOK /\ MutexOK /\ NoOverrun

\* Advancing an index by one modulo the ring size wraps at the end only.
LEMMA ModStep ==
  ASSUME NEW x \in 0..(RING_BUFFER_SIZE - 1)
  PROVE  (x + 1) % RING_BUFFER_SIZE = IF x = RING_BUFFER_SIZE - 1 THEN 0 ELSE x + 1
  <1>1. CASE x = RING_BUFFER_SIZE - 1
    BY <1>1, PipeAssumption
  <1>2. CASE x # RING_BUFFER_SIZE - 1
    BY <1>2, PipeAssumption
  <1> QED BY Zenon, <1>1, <1>2

\* available_read and available_write always share out the whole ring.
LEMMA Available ==
  ASSUME TypeOK, RingOK
  PROVE  /\ available_read \in 0..RING_BUFFER_SIZE
         /\ available_write = RING_BUFFER_SIZE - available_read
         /\ available_read = 0 <=> status = "Empty"
         /\ available_write = 0 <=> status = "Full"
  BY PipeAssumption DEF TypeOK, RingOK, available_read, available_write

\* write_byte on a ring with room stores one byte more.
LEMMA WriteByteRing ==
  ASSUME TypeOK, RingOK, NEW b \in Bytes, available_write > 0, write_byte(b)
  PROVE  /\ arr' \in [0..(RING_BUFFER_SIZE - 1) -> Bytes]
         /\ head' = head
         /\ tail' = IF tail = RING_BUFFER_SIZE - 1 THEN 0 ELSE tail + 1
         /\ tail' \in 0..(RING_BUFFER_SIZE - 1)
         /\ status' \in {"Full", "Normal"}
         /\ RingOK'
         /\ available_read' = available_read + 1
         /\ available_write' = available_write - 1
  <1>1. /\ arr' \in [0..(RING_BUFFER_SIZE - 1) -> Bytes]
        /\ head' = head
        /\ tail' = IF tail = RING_BUFFER_SIZE - 1 THEN 0 ELSE tail + 1
        /\ tail' \in 0..(RING_BUFFER_SIZE - 1)
        /\ status' = IF tail' = head THEN "Full" ELSE "Normal"
    BY ModStep, PipeAssumption DEF TypeOK, write_byte
  <1>2. status # "Full"
    BY Available
  <1> QED
    BY <1>1, <1>2, PipeAssumption
    DEF TypeOK, RingOK, available_read, available_write

\* read_byte on a ring with data takes one byte out.
LEMMA ReadByteRing ==
  ASSUME TypeOK, RingOK, available_read > 0, read_byte
  PROVE  /\ arr' = arr
         /\ tail' = tail
         /\ head' = IF head = RING_BUFFER_SIZE - 1 THEN 0 ELSE head + 1
         /\ head' \in 0..(RING_BUFFER_SIZE - 1)
         /\ status' \in {"Empty", "Normal"}
         /\ RingOK'
         /\ available_read' = available_read - 1
         /\ available_write' = available_write + 1
  <1>1. /\ arr' = arr
        /\ tail' = tail
        /\ head' = IF head = RING_BUFFER_SIZE - 1 THEN 0 ELSE head + 1
        /\ head' \in 0..(RING_BUFFER_SIZE - 1)
        /\ status' = IF head' = tail THEN "Empty" ELSE "Normal"
    BY ModStep, PipeAssumption DEF TypeOK, read_byte
  <1>2. status # "Empty"
    BY Available
  <1> QED
    BY <1>1, <1>2, PipeAssumption
    DEF TypeOK, RingOK, available_read, available_write

LEMMA InitIInv == Init => IInv
  <1> SUFFICES ASSUME Init PROVE IInv
    BY Zenon
  <1>1. TypeOK
    BY PipeAssumption DEF Init, new, TypeOK, Ends
  <1> QED
    BY Zenon, <1>1, PipeAssumption DEF Init, new, IInv, RingOK, MutexOK, NoOverrun, InLoop

\* The two counters are functions of the ring alone.
LEMMA AvailableSame ==
  ASSUME UNCHANGED <<head, tail, status>>
  PROVE  available_read' = available_read /\ available_write' = available_write
  BY Zenon DEF available_read, available_write

\* Types of the variables that a call may change, one lemma per action.
PcType == {"user", "r_lock", "r_check", "r_copy", "w_entry", "w_lock", "w_check", "w_copy"}

LEMMA BeginTypes ==
  ASSUME TypeOK, NEW t \in Threads, NEW e \in Ends,
         \/ \E n \in ReadLens : BeginRead(t, e, n)
         \/ \E b \in Bufs : BeginWrite(t, e, b)
  PROVE  TypeOK'
  <1>1. want' \in [Threads -> Nat]
    <2>1. PICK k \in Nat : want' = [want EXCEPT ![t] = k]
      BY PipeAssumption DEF BeginRead, BeginWrite
    <2> QED BY Zenon, <2>1 DEF TypeOK
  <1>2. data' \in [Threads -> Seq(Bytes)]
    <2>1. <<>> \in Seq(Bytes)
      OBVIOUS
    <2> QED BY ZenonT(30), <2>1, PipeAssumption DEF TypeOK, BeginRead, BeginWrite
  <1>3. pc' \in [Threads -> PcType]
    <2>1. \E l \in {"user", "r_lock", "w_entry"} : Goto(t, l)
      BY Zenon DEF BeginRead, BeginWrite, Return
    <2> QED BY Zenon, <2>1 DEF TypeOK, Goto, PcType
  <1>4. ret' \in [Threads -> Int]
    BY SMTT(30) DEF TypeOK, BeginRead, BeginWrite, Return, EPERM
  <1>5. call' \in [Threads -> {"none", "read", "write"}]
    BY Zenon DEF TypeOK, BeginRead, BeginWrite
  <1> QED
    BY Zenon, <1>1, <1>2, <1>3, <1>4, <1>5 DEF TypeOK, BeginRead, BeginWrite, PcType

LEMMA CheckTypes ==
  ASSUME TypeOK, RingOK, NEW t \in Threads, ReadCheck(t) \/ WriteCheck(t) \/ WriteEntry(t)
  PROVE  TypeOK'
  <1>1. lock' \in Threads \cup {NoThread}
    BY Zenon DEF TypeOK, ReadCheck, WriteCheck, WriteEntry, Unlock
  <1>2. left' \in [Threads -> 0..RING_BUFFER_SIZE]
    <2>1. available_read \in 0..RING_BUFFER_SIZE /\ available_write \in 0..RING_BUFFER_SIZE
      BY Available, PipeAssumption
    <2>2. \/ left' = left
          \/ \E k \in 0..RING_BUFFER_SIZE : left' = [left EXCEPT ![t] = k]
      BY SMTT(30), <2>1, PipeAssumption DEF TypeOK, ReadCheck, WriteCheck, WriteEntry
    <2> QED BY Zenon, <2>2 DEF TypeOK
  <1>3. pc' \in [Threads -> PcType]
    BY Zenon DEF TypeOK, ReadCheck, WriteCheck, WriteEntry, Return, Goto, PcType
  <1>4. ret' \in [Threads -> Int]
    <2>1. want[t] - Len(data[t]) \in Int
      BY DEF TypeOK
    <2> QED
      BY SMTT(30), <2>1 DEF TypeOK, ReadCheck, WriteCheck, WriteEntry, Return, EPIPE
  <1> QED
    BY Zenon, <1>1, <1>2, <1>3, <1>4 DEF TypeOK, ReadCheck, WriteCheck, WriteEntry, PcType

LEMMA ReadByteTypes ==
  ASSUME TypeOK, NEW t \in Threads, ReadByte(t), left[t] \in 1..RING_BUFFER_SIZE,
         head' \in 0..(RING_BUFFER_SIZE - 1), status' \in {"Empty", "Normal"}
  PROVE  TypeOK'
  <1>1. lock' \in Threads \cup {NoThread}
    BY Zenon DEF TypeOK, ReadByte, Unlock
  <1>2. left' \in [Threads -> 0..RING_BUFFER_SIZE]
    BY PipeAssumption DEF TypeOK, ReadByte
  <1>3. pc' \in [Threads -> PcType]
    BY Zenon DEF TypeOK, ReadByte, Return, Goto, PcType
  <1>4. ret' \in [Threads -> Int]
    <2>1. Len(data[t]) + 1 \in Int
      BY DEF TypeOK
    <2> QED BY Zenon, <2>1 DEF TypeOK, ReadByte, Return
  <1>5. data' \in [Threads -> Seq(Bytes)]
    <2>1. data[t] \in Seq(Bytes) /\ arr[head] \in Bytes
      BY Zenon DEF TypeOK
    <2>2. Append(data[t], arr[head]) \in Seq(Bytes)
      BY <2>1
    <2> QED BY Zenon, <2>2 DEF TypeOK, ReadByte
  <1> QED
    BY Zenon, <1>1, <1>2, <1>3, <1>4, <1>5 DEF TypeOK, ReadByte, read_byte, PcType

LEMMA WriteByteTypes ==
  ASSUME TypeOK, NEW t \in Threads, WriteByte(t),
         arr' \in [0..(RING_BUFFER_SIZE - 1) -> Bytes], head' = head,
         tail' \in 0..(RING_BUFFER_SIZE - 1), status' \in {"Full", "Empty", "Normal"}
  PROVE  TypeOK'
  <1>1. lock' \in Threads \cup {NoThread}
    BY Zenon DEF TypeOK, WriteByte, Unlock
  <1>2. left' \in [Threads -> 0..RING_BUFFER_SIZE]
    <2>1. left' = left \/ (left[t] # 0 /\ left' = [left EXCEPT ![t] = @ - 1])
      BY Zenon DEF WriteByte
    <2>2. left[t] # 0 => left[t] - 1 \in 0..RING_BUFFER_SIZE
      BY PipeAssumption DEF TypeOK
    <2> QED BY Zenon, <2>1, <2>2 DEF TypeOK
  <1>3. pc' \in [Threads -> PcType]
    BY Zenon DEF TypeOK, WriteByte, Return, Goto, PcType
  <1>4. ret' \in [Threads -> Int]
    BY DEF TypeOK, WriteByte, Return
  <1>5. data' \in [Threads -> Seq(Bytes)]
    <2>1. data[t] # <<>> => Tail(data[t]) \in Seq(Bytes)
      BY DEF TypeOK
    <2> QED BY Zenon, <2>1 DEF TypeOK, WriteByte
  <1> QED
    BY Zenon, <1>1, <1>2, <1>3, <1>4, <1>5 DEF TypeOK, WriteByte, PcType

\* While one thread is in its critical section the others are in none.
LEMMA Exclusive ==
  ASSUME MutexOK, NEW t \in Threads, InLoop(t)
  PROVE  \A u \in Threads \ {t} : pc[u] \notin {"r_copy", "w_copy"}
  BY DEF MutexOK, InLoop

\* Every step keeps the inductive invariant.
LEMMA NextIInv == IInv /\ [Next]_vars => IInv'
  <1> SUFFICES ASSUME TypeOK, RingOK, MutexOK, NoOverrun, [Next]_vars
               PROVE  TypeOK' /\ RingOK' /\ MutexOK' /\ NoOverrun'
    BY Zenon DEF IInv
  <1>0. available_read \in 0..RING_BUFFER_SIZE /\ available_write \in 0..RING_BUFFER_SIZE
    BY Available, PipeAssumption
  <1>1. ASSUME NEW t \in Threads, NEW e \in Ends,
               \/ \E n \in ReadLens : BeginRead(t, e, n)
               \/ \E b \in Bufs : BeginWrite(t, e, b)
        PROVE  TypeOK' /\ RingOK' /\ MutexOK' /\ NoOverrun'
    <2>1. TypeOK' /\ RingOK'
      BY Zenon, <1>1, BeginTypes DEF BeginRead, BeginWrite, RingOK
    <2>2. MutexOK'
      BY SMTT(30), <1>1 DEF TypeOK, BeginRead, BeginWrite, Return, Goto, MutexOK, InLoop
    <2>3. NoOverrun'
      <3>1. available_read' = available_read /\ available_write' = available_write
        BY Zenon, <1>1, AvailableSame DEF BeginRead, BeginWrite
      <3> QED
        BY SMTT(30), <1>1, <3>1 DEF TypeOK, BeginRead, BeginWrite, Return, Goto, NoOverrun
    <2> QED BY Zenon, <2>1, <2>2, <2>3
  <1>3. ASSUME NEW t \in Threads, Lock(t)
        PROVE  TypeOK' /\ RingOK' /\ MutexOK' /\ NoOverrun'
    <2>1. TypeOK'
      BY Zenon, <1>3 DEF TypeOK, Lock, Goto
    <2> QED
      BY Zenon, <2>1, <1>3, AvailableSame, PipeAssumption
      DEF TypeOK, Lock, Goto, RingOK, MutexOK, NoOverrun, InLoop
  <1>4. ASSUME NEW t \in Threads, ReadCheck(t) \/ WriteCheck(t) \/ WriteEntry(t)
        PROVE  TypeOK' /\ RingOK' /\ MutexOK' /\ NoOverrun'
    <2>1. TypeOK' /\ RingOK'
      BY Zenon, <1>4, CheckTypes DEF ReadCheck, WriteCheck, WriteEntry, RingOK
    <2>2. MutexOK'
      BY SMTT(30), <1>4, PipeAssumption
      DEF TypeOK, ReadCheck, WriteCheck, WriteEntry, Return, Goto, Unlock, MutexOK, InLoop
    <2>3. NoOverrun'
      <3> DEFINE size == IF available_read < want[t] THEN available_read ELSE want[t]
      <3>1. available_read' = available_read /\ available_write' = available_write
        BY Zenon, <1>4, AvailableSame DEF ReadCheck, WriteCheck, WriteEntry
      <3>2. /\ size # 0 => size \in 1..available_read
            /\ available_write \in 0..available_write
        <4>1. want[t] \in Nat
          BY Zenon DEF TypeOK
        <4> QED BY <1>0, <4>1
      <3> QED
        BY SMTT(30), <3>1, <3>2, <1>4
        DEF TypeOK, ReadCheck, WriteCheck, WriteEntry, Return, Goto, Unlock, NoOverrun
    <2> QED BY Zenon, <2>1, <2>2, <2>3
  <1>5. ASSUME NEW t \in Threads, ReadByte(t)
        PROVE  TypeOK' /\ RingOK' /\ MutexOK' /\ NoOverrun'
    <2>1. left[t] \in 1..available_read /\ available_read \in 0..RING_BUFFER_SIZE
      BY Zenon, <1>5, Available DEF ReadByte, NoOverrun
    <2>2. /\ head' \in 0..(RING_BUFFER_SIZE - 1)
          /\ status' \in {"Empty", "Normal"}
          /\ RingOK'
          /\ available_read' = available_read - 1
      BY <1>5, <2>1, ReadByteRing DEF ReadByte
    <2>3. left[t] \in 1..RING_BUFFER_SIZE
      BY <2>1, PipeAssumption
    <2>4. TypeOK'
      BY Zenon, <1>5, <2>2, <2>3, ReadByteTypes
    <2>5. MutexOK'
      BY SMTT(30), <1>5, PipeAssumption DEF TypeOK, ReadByte, Return, Goto, Unlock, MutexOK, InLoop
    <2>6. NoOverrun'
      <3>1. \A u \in Threads \ {t} : pc'[u] \notin {"r_copy", "w_copy"}
        BY Zenon, <1>5, Exclusive DEF TypeOK, ReadByte, Return, Goto, InLoop
      <3>2. pc'[t] # "w_copy"
        BY Zenon, <1>5 DEF TypeOK, ReadByte, Return, Goto
      <3>3. pc'[t] = "r_copy" => left'[t] \in 1..available_read'
        BY <1>5, <2>1, <2>2 DEF TypeOK, ReadByte, Return, Goto
      <3> QED
        BY Zenon, <3>1, <3>2, <3>3 DEF NoOverrun
    <2> QED BY Zenon, <2>2, <2>4, <2>5, <2>6
  <1>8. ASSUME NEW t \in Threads, WriteByte(t)
        PROVE  TypeOK' /\ RingOK' /\ MutexOK' /\ NoOverrun'
    <2>0. MutexOK'
      BY ZenonT(30), <1>8, PipeAssumption DEF TypeOK, WriteByte, Return, Goto, Unlock, MutexOK, InLoop
    <2>1. CASE left[t] = 0 \/ data[t] = <<>>
      <3>1. UNCHANGED <<arr, head, tail, status>>
        BY Zenon, <1>8, <2>1 DEF WriteByte
      <3>2. TypeOK' /\ RingOK'
        BY Zenon, <1>8, <3>1, WriteByteTypes DEF TypeOK, RingOK
      <3>3. NoOverrun'
        BY Zenon, <1>8, <2>1, <3>1, AvailableSame DEF TypeOK, WriteByte, Return, Goto, NoOverrun
      <3> QED BY Zenon, <2>0, <3>2, <3>3
    <2>2. CASE left[t] # 0 /\ data[t] # <<>>
      <3>1. left[t] \in 1..available_write
        BY <1>0, <1>8, <2>2 DEF WriteByte, NoOverrun
      <3>2. Head(data[t]) \in Bytes
        BY <2>2 DEF TypeOK
      <3>3. /\ arr' \in [0..(RING_BUFFER_SIZE - 1) -> Bytes]
            /\ head' = head
            /\ tail' \in 0..(RING_BUFFER_SIZE - 1)
            /\ status' \in {"Full", "Normal"}
            /\ RingOK'
            /\ available_write' = available_write - 1
        BY <1>0, <1>8, <2>2, <3>1, <3>2, WriteByteRing DEF WriteByte
      <3>4. TypeOK'
        BY Zenon, <1>8, <3>3, WriteByteTypes
      <3>5. NoOverrun'
        <4>1. \A u \in Threads \ {t} : pc'[u] \notin {"r_copy", "w_copy"}
          BY Zenon, <1>8, <2>2, Exclusive DEF WriteByte, InLoop
        <4>2. pc'[t] = "w_copy" /\ left'[t] \in 0..available_write'
          <5>1. pc'[t] = "w_copy" /\ left'[t] = left[t] - 1
            BY Zenon, <1>8, <2>2 DEF TypeOK, WriteByte
          <5> QED BY <1>0, <3>1, <3>3, <5>1
        <4> QED
          BY Zenon, <4>1, <4>2 DEF NoOverrun
      <3> QED BY Zenon, <2>0, <3>3, <3>4, <3>5
    <2> QED BY Zenon, <2>1, <2>2
  <1>9. ASSUME NEW e \in Ends, DupFd(e) \/ CloseFd(e)
        PROVE  TypeOK' /\ RingOK' /\ MutexOK' /\ NoOverrun'
    <2>1. TypeOK'
      <3>1. fds' \in [Ends -> 0..MaxFds]
        <4>1. fds[e] \in 0..MaxFds
          BY Zenon DEF TypeOK
        <4>2. \E k \in 0..MaxFds : fds' = [fds EXCEPT ![e] = k]
          BY <1>9, <4>1, PipeAssumption DEF DupFd, CloseFd
        <4> QED BY Zenon, <4>2 DEF TypeOK
      <3> QED BY Zenon, <1>9, <3>1 DEF TypeOK, DupFd, CloseFd
    <2> QED
      BY Zenon, <2>1, <1>9, AvailableSame DEF DupFd, CloseFd, RingOK, MutexOK, NoOverrun, InLoop
  <1>10. CASE UNCHANGED vars
    BY Zenon, <1>10, AvailableSame DEF vars, TypeOK, RingOK, MutexOK, NoOverrun, InLoop
  <1> QED
    BY Zenon, <1>1, <1>3, <1>4, <1>5, <1>8, <1>9, <1>10 DEF Next

\* Along every behaviour the indices stay inside the array, and every
\* variable keeps its type.
THEOREM TypeCorrect == Spec => []TypeOK
  BY InitIInv, NextIInv, PTL DEF Spec, IInv

\* For every ring size and any number of concurrent readers and writers, the
\* copy loops of read() and write() never take a stale byte nor overwrite
\* an unread one.
THEOREM NeverOverruns == Spec => []NoOverrun
  BY InitIInv, NextIInv, PTL DEF Spec, IInv

-----------------------------------------------------------------------------
(* What the calls have in hand.                                            *)

\* A call in progress knows what it is, has no result yet, and a read that
\* is still looking for data has filled nothing in; with CallAccounting this
\* is inductive.
InCall(t) ==
  /\ InRead(t) => call[t] = "read" /\ want[t] > 0 /\ ret[t] = 0
  /\ pc[t] \in {"r_lock", "r_check"} => data[t] = <<>>
  /\ InWrite(t) => call[t] = "write" /\ ret[t] = 0
Accounted(t) ==
  /\ InRead(t) => Len(data[t]) + (IF pc[t] = "r_copy" THEN left[t] ELSE 0) <= want[t]
  /\ call[t] = "read" /\ pc[t] = "user" /\ ret[t] >= 0 => ret[t] = Len(data[t])
  /\ InWrite(t) => Len(data[t]) <= want[t]
  /\ /\ call[t] = "write" /\ pc[t] = "user" /\ ret[t] >= 0 /\ ret[t] < want[t]
     => ret[t] = want[t] - Len(data[t]) /\ ~Live("read")
CInv == \A t \in Threads : InCall(t) /\ Accounted(t)

\* An end that nobody holds any more is gone for good.
LEMMA LiveMonotone ==
  ASSUME TypeOK, [Next]_vars, NEW e \in Ends, Live(e)'
  PROVE  Live(e)
  <1> SUFFICES ASSUME ~Live(e) PROVE FALSE
    BY Zenon
  <1>1. fds[e] = 0 /\ \A t \in Threads : ~Holds(t, e)
    BY DEF Live, TypeOK, Ends
  <1>2. fds'[e] = 0
    BY <1>1 DEF Next, vars, TypeOK, BeginRead, BeginWrite, Lock, ReadCheck, ReadByte, WriteEntry,
       WriteCheck, WriteByte, DupFd, CloseFd
  <1>3. ASSUME NEW t \in Threads PROVE ~Holds(t, e)'
    <2>1. e \in {"read", "write"} /\ pc[t] \in PcType
      BY Zenon DEF Ends, TypeOK, PcType
    <2>2. CASE pc'[t] = pc[t]
      BY ZenonT(30), <1>1, <2>2 DEF Holds, InRead, InWrite
    <2>3. CASE pc'[t] # pc[t]
      BY SMTT(30), <1>1, <2>1, <2>3
      DEF Next, vars, TypeOK, BeginRead, BeginWrite, Lock, ReadCheck, ReadByte, WriteEntry,
          WriteCheck, WriteByte, DupFd, CloseFd, Return, Goto, Holds, InRead, InWrite, PcType
    <2> QED BY Zenon, <2>2, <2>3
  <1> QED BY <1>2, <1>3 DEF Live

\* A step of one thread leaves what the others have in hand alone.
LEMMA OtherThreads ==
  ASSUME NEW u \in Threads, InCall(u), Accounted(u),
         pc'[u] = pc[u], call'[u] = call[u], want'[u] = want[u],
         data'[u] = data[u], left'[u] = left[u], ret'[u] = ret[u],
         Live("read")' => Live("read")
  PROVE  InCall(u)' /\ Accounted(u)'
  BY Zenon DEF InCall, Accounted, InRead, InWrite

LEMMA InitCInv == Init => CInv
  BY Zenon DEF Init, CInv, InCall, Accounted, InRead, InWrite

LEMMA NextCInv == IInv /\ CInv /\ [Next]_vars => CInv'
  <1> SUFFICES ASSUME TypeOK, RingOK, NoOverrun, CInv, [Next]_vars PROVE CInv'
    BY Zenon DEF IInv
  <1>0. Live("read")' => Live("read")
    BY Zenon, LiveMonotone DEF Ends
  <1>a. ASSUME NEW t \in Threads,
               \A u \in Threads \ {t} :
                 /\ pc'[u] = pc[u] /\ call'[u] = call[u] /\ want'[u] = want[u]
                 /\ data'[u] = data[u] /\ left'[u] = left[u] /\ ret'[u] = ret[u],
               InCall(t)' /\ Accounted(t)'
        PROVE  CInv'
    BY Zenon, <1>0, <1>a, OtherThreads DEF CInv
  <1>1. ASSUME NEW t \in Threads, NEW e \in Ends, NEW n \in ReadLens, BeginRead(t, e, n)
        PROVE  CInv'
    <2>1. InCall(t)' /\ Accounted(t)'
      BY SMTT(30), <1>1, PipeAssumption
      DEF TypeOK, BeginRead, Return, Goto, EPERM, InCall, Accounted, InRead, InWrite
    <2> QED
      BY Zenon, <2>1, <1>1, <1>a DEF TypeOK, BeginRead, Return, Goto
  <1>2. ASSUME NEW t \in Threads, NEW e \in Ends, NEW b \in Bufs, BeginWrite(t, e, b)
        PROVE  CInv'
    <2>1. InCall(t)' /\ Accounted(t)'
      BY SMTT(30), <1>2, PipeAssumption
      DEF TypeOK, BeginWrite, Return, Goto, EPERM, InCall, Accounted, InRead, InWrite
    <2> QED
      BY Zenon, <2>1, <1>2, <1>a DEF TypeOK, BeginWrite, Return, Goto
  <1>3. ASSUME NEW t \in Threads, Lock(t)
        PROVE  CInv'
    <2>1. InCall(t)' /\ Accounted(t)'
      BY Zenon, <1>3 DEF CInv, TypeOK, Lock, Goto, InCall, Accounted, InRead, InWrite
    <2> QED
      BY Zenon, <2>1, <1>3, <1>a DEF TypeOK, Lock, Goto
  <1>4. ASSUME NEW t \in Threads, ReadCheck(t)
        PROVE  CInv'
    <2>1. InCall(t)' /\ Accounted(t)'
      BY <1>4, Available DEF CInv, TypeOK, ReadCheck, Return, Goto, InCall, Accounted, InRead, InWrite
    <2> QED
      BY Zenon, <2>1, <1>4, <1>a DEF TypeOK, ReadCheck, Return, Goto
  <1>5. ASSUME NEW t \in Threads, ReadByte(t)
        PROVE  CInv'
    <2>1. InCall(t)' /\ Accounted(t)'
      BY SMTT(30), <1>5 DEF CInv, TypeOK, NoOverrun, ReadByte, Return, Goto, InCall, Accounted, InRead, InWrite
    <2> QED
      BY Zenon, <2>1, <1>5, <1>a DEF TypeOK, ReadByte, Return, Goto
  <1>6. ASSUME NEW t \in Threads, WriteEntry(t)
        PROVE  CInv'
    <2>1. InCall(t)' /\ Accounted(t)'
      BY SMTT(30), <1>6 DEF CInv, TypeOK, WriteEntry, Return, Goto, EPIPE, InCall, Accounted, InRead, InWrite
    <2> QED
      BY Zenon, <2>1, <1>6, <1>a DEF TypeOK, WriteEntry, Return, Goto
  <1>7. ASSUME NEW t \in Threads, WriteCheck(t)
        PROVE  CInv'
    <2>1. InCall(t)' /\ Accounted(t)'
      BY <1>0, <1>7 DEF CInv, TypeOK, WriteCheck, Return, Goto, InCall, Accounted, InRead, InWrite,
         closed, Other
    <2> QED
      BY Zenon, <2>1, <1>7, <1>a DEF TypeOK, WriteCheck, Return, Goto
  <1>8. ASSUME NEW t \in Threads, WriteByte(t)
        PROVE  CInv'
    <2>1. InCall(t)' /\ Accounted(t)'
      BY <1>8 DEF CInv, TypeOK, WriteByte, Return, Goto, InCall, Accounted, InRead, InWrite
    <2> QED
      BY Zenon, <2>1, <1>8, <1>a DEF TypeOK, WriteByte, Return, Goto
  <1>9. CASE (\E e \in Ends : DupFd(e) \/ CloseFd(e)) \/ UNCHANGED vars
    BY Zenon, <1>0, <1>9, OtherThreads DEF CInv, DupFd, CloseFd, vars
  <1> QED
    BY Zenon, <1>1, <1>2, <1>3, <1>4, <1>5, <1>6, <1>7, <1>8, <1>9 DEF Next

\* What a call returns is what it moved: read() returns the number of bytes
\* it filled in, and write() returns less than it was given only when the
\* read end is gone.
THEOREM CallsAccount == Spec => []CallAccounting
  <1>1. CInv /\ IInv => CallAccounting
    BY Zenon DEF CInv, Accounted, CallAccounting, IInv
  <1> QED
    BY InitIInv, NextIInv, InitCInv, NextCInv, <1>1, PTL DEF Spec

-----------------------------------------------------------------------------
(* The ring is a first-in first-out channel.                               *)

\* Where the i-th oldest byte of the ring is.
Slot(i) == IF head + i - 1 < RING_BUFFER_SIZE THEN head + i - 1 ELSE head + i - 1 - RING_BUFFER_SIZE

LEMMA ContentsSeq ==
  ASSUME TypeOK, RingOK
  PROVE  Contents \in Seq(Bytes) /\ Len(Contents) = available_read
  <1>1. available_read \in Nat /\ available_read <= RING_BUFFER_SIZE
    BY Available, PipeAssumption
  <1>2. \A i \in 1..available_read : Slot(i) \in 0..(RING_BUFFER_SIZE - 1)
    BY <1>1, PipeAssumption DEF TypeOK, Slot
  <1>3. \A i \in 1..available_read : arr[Slot(i)] \in Bytes
    BY Zenon, <1>2 DEF TypeOK
  <1>4. Contents = [i \in 1..available_read |-> arr[Slot(i)]]
    BY Zenon DEF Contents, Slot
  <1> QED BY <1>1, <1>3, <1>4

\* write_byte appends at the back.
LEMMA WriteAppends ==
  ASSUME TypeOK, RingOK, NEW b \in Bytes, available_write > 0, write_byte(b), TypeOK'
  PROVE  Contents' = Append(Contents, b)
  <1>1. /\ available_read \in Nat /\ available_read < RING_BUFFER_SIZE
        /\ available_read' = available_read + 1
        /\ head' = head
    BY Available, WriteByteRing, PipeAssumption
  <1>9. arr' = [arr EXCEPT ![tail] = b]
    BY Zenon DEF write_byte
  <1>2. tail = Slot(available_read + 1)
    BY <1>1, PipeAssumption DEF TypeOK, RingOK, available_read, available_write, Slot
  <1>3. \A i \in 1..available_read : Slot(i) # tail /\ Slot(i) \in 0..(RING_BUFFER_SIZE - 1)
    <2>1. /\ RING_BUFFER_SIZE \in Nat /\ head \in 0..(RING_BUFFER_SIZE - 1)
          /\ available_read \in Nat /\ available_read < RING_BUFFER_SIZE
      BY Zenon, <1>1, PipeAssumption DEF TypeOK
    <2> HIDE DEF available_read
    <2>2. ASSUME NEW i \in 1..available_read
          PROVE  Slot(i) # Slot(available_read + 1) /\ Slot(i) \in 0..(RING_BUFFER_SIZE - 1)
      BY <2>1 DEF Slot
    <2> QED BY Zenon, <1>2, <2>2
  <1>4. \A i \in 1..(available_read + 1) : arr'[Slot(i)] = IF i = available_read + 1 THEN b ELSE arr[Slot(i)]
    <2>1. \A k \in 0..(RING_BUFFER_SIZE - 1) : arr'[k] = IF k = tail THEN b ELSE arr[k]
      BY Zenon, <1>9 DEF TypeOK
    <2>2. tail \in 0..(RING_BUFFER_SIZE - 1)
      BY Zenon DEF TypeOK
    <2>3. ASSUME NEW i \in 1..(available_read + 1), i # available_read + 1
          PROVE  i \in 1..available_read
      BY <1>1, <2>3
    <2> QED BY Zenon, <1>2, <1>3, <2>1, <2>2, <2>3
  <1>5. Contents' = [i \in 1..(available_read + 1) |-> arr'[Slot(i)]]
    BY Zenon, <1>1 DEF Contents, Slot
  <1>6. Contents = [i \in 1..available_read |-> arr[Slot(i)]]
    BY Zenon DEF Contents, Slot
  <1>7. Contents \in Seq(Bytes) /\ Len(Contents) = available_read
    BY Zenon, ContentsSeq
  <1> QED
    BY <1>1, <1>4, <1>5, <1>6, <1>7

\* read_byte takes the front.
LEMMA ReadTakesFront ==
  ASSUME TypeOK, RingOK, available_read > 0, read_byte, TypeOK'
  PROVE  /\ Contents # <<>>
         /\ arr[head] = Head(Contents)
         /\ Contents' = Tail(Contents)
  <1>1. /\ available_read \in Nat /\ available_read <= RING_BUFFER_SIZE
        /\ available_read' = available_read - 1
        /\ arr' = arr
        /\ head' = IF head = RING_BUFFER_SIZE - 1 THEN 0 ELSE head + 1
    BY Available, ReadByteRing, PipeAssumption
  <1>2. Contents = [i \in 1..available_read |-> arr[Slot(i)]]
    BY Zenon DEF Contents, Slot
  <1>3. Contents \in Seq(Bytes) /\ Len(Contents) = available_read
    BY Zenon, ContentsSeq
  <1>4. Slot(1) = head
    BY PipeAssumption DEF TypeOK, Slot
  <1>5. Contents # <<>> /\ arr[head] = Head(Contents)
    BY <1>1, <1>2, <1>3, <1>4
  <1>6. \A i \in 1..(available_read - 1) : Slot(i)' = Slot(i + 1)
    BY <1>1, PipeAssumption DEF TypeOK, Slot
  <1>7. Contents' = [i \in 1..(available_read - 1) |-> arr[Slot(i)']]
    BY Zenon, <1>1 DEF Contents, Slot
  <1>8. /\ Tail(Contents) \in Seq(Bytes)
        /\ Len(Tail(Contents)) = available_read - 1
        /\ \A i \in 1..(available_read - 1) : Tail(Contents)[i] = Contents[i + 1]
    BY Zenon, <1>1, <1>3, <1>5, HeadTailProperties
  <1>9. \A i \in 1..(available_read - 1) : arr[Slot(i)'] = Contents[i + 1]
    BY <1>1, <1>2, <1>6
  <1>10. \A i \in 1..(available_read - 1) : Contents[i + 1] \in Bytes
    BY <1>1, <1>3
  <1>11. Contents' \in Seq(Bytes) /\ Len(Contents') = available_read - 1
    BY <1>1, <1>7, <1>9, <1>10
  <1>12. \A i \in 1..(available_read - 1) : Contents'[i] = Tail(Contents)[i]
    BY Zenon, <1>7, <1>8, <1>9
  <1> QED
    BY Zenon, <1>5, <1>8, <1>11, <1>12, SeqEqual

LEMMA ContentsSame ==
  ASSUME UNCHANGED <<arr, head, tail, status>>
  PROVE  Contents' = Contents
  BY Zenon DEF Contents, available_read

\* The abstract variables, by name.
OpenEnds == {e \in Ends : Live(e)}
Got == [t \in Threads |-> IF call[t] = "read" THEN data[t] ELSE <<>>]
Answers == [t \in Threads |-> Told(t)]

\* An end whose holders do not change is as open as before.
LEMMA LiveSame ==
  ASSUME NEW e \in Ends, fds'[e] = fds[e],
         \A t \in Threads : Holds(t, e)' <=> Holds(t, e)
  PROVE  Live(e)' <=> Live(e)
  BY Zenon DEF Live

\* A step that can only take holders away from e keeps e or closes it.
LEMMA MayClose ==
  ASSUME NEW e \in Ends, Live(e)' => Live(e), \A f \in Ends \ {e} : Live(f)' <=> Live(f)
  PROVE  OpenEnds' \in {OpenEnds, OpenEnds \ {e}}
  BY Zenon DEF OpenEnds

LEMMA InitRefines == Init => Channel!Init
  <1> SUFFICES ASSUME Init PROVE Channel!Init
    BY Zenon
  <1>1. Contents = <<>>
    BY DEF Init, new, Contents, available_read
  <1>2. {e \in Ends : Live(e)} = {"read", "write"}
    BY DEF Init, Ends, Live
  <1>3. \A t \in Threads : Told(t) = "none"
    <2>1. \A t \in Threads : pc[t] = "user" /\ call[t] = "none" /\ ret[t] = 0
      BY Zenon DEF Init
    <2>2. 0 # EPIPE
      BY DEF EPIPE
    <2>3. ASSUME NEW t \in Threads PROVE Told(t) = "none"
      BY Zenon, <2>1, <2>2 DEF Told
    <2> QED BY Zenon, <2>3
  <1> QED
    BY Zenon, <1>1, <1>2, <1>3 DEF Channel!Init, Init

\* A step of t: the descriptors stay, and so does what other threads have.
Only(t) ==
  /\ fds' = fds
  /\ \A u \in Threads \ {t} :
       /\ pc'[u] = pc[u] /\ call'[u] = call[u] /\ want'[u] = want[u]
       /\ data'[u] = data[u] /\ ret'[u] = ret[u]

LEMMA OnlyLive ==
  ASSUME NEW t \in Threads, Only(t), NEW e \in Ends, Holds(t, e)' <=> Holds(t, e)
  PROVE  Live(e)' <=> Live(e)
  <1>1. \A u \in Threads : Holds(u, e)' <=> Holds(u, e)
    BY Zenon DEF Only, Holds, InRead, InWrite
  <1> QED BY Zenon, <1>1, LiveSame DEF Only

LEMMA OnlyAnswers ==
  ASSUME NEW t \in Threads, Only(t)
  PROVE  Answers' = [Answers EXCEPT ![t] = Told(t)']
  <1>1. \A u \in Threads \ {t} : Told(u)' = Told(u)
    BY Zenon DEF Only, Told
  <1> QED BY Zenon, <1>1 DEF Answers

LEMMA OnlyGot ==
  ASSUME NEW t \in Threads, Only(t)
  PROVE  Got' = [Got EXCEPT ![t] = IF call'[t] = "read" THEN data'[t] ELSE <<>>]
  BY Zenon DEF Only, Got

\* A call in progress has been told nothing.
LEMMA NotTold ==
  ASSUME NEW t \in Threads, pc[t] # "user"
  PROVE  Told(t) = "none" /\ Answers = [Answers EXCEPT ![t] = "none"]
  BY Zenon DEF Told, Answers

LEMMA GotSame ==
  ASSUME NEW t \in Threads, Only(t), call'[t] = call[t], call[t] = "write" \/ data'[t] = data[t]
  PROVE  Got' = Got
  BY Zenon DEF Only, Got

\* A step of t that moves no byte and gives no negative answer is, on the
\* channel, nothing or the closing of the end that t held.
LEMMA ReturnRefines ==
  ASSUME TypeOK, NEW t \in Threads, Only(t), UNCHANGED <<arr, head, tail, status>>,
         pc[t] # "user", Told(t)' = "none", Got' = Got,
         NEW e \in Ends, Live(e)' => Live(e),
         \A f \in Ends \ {e} : Holds(t, f)' <=> Holds(t, f)
  PROVE  [Channel!Next]_Channel!chanVars
  <1>1. Contents' = Contents
    BY Zenon, ContentsSame
  <1>2. Answers' = Answers
    BY OnlyAnswers, NotTold
  <1>3. OpenEnds' \in {OpenEnds, OpenEnds \ {e}}
    BY Zenon, OnlyLive, MayClose
  <1>4. CASE OpenEnds' = OpenEnds
    BY Zenon, <1>1, <1>2, <1>4 DEF Channel!chanVars, OpenEnds, Got, Answers
  <1>5. CASE OpenEnds' = OpenEnds \ {e} /\ e \in OpenEnds
    <2>1. Channel!Close(e)
      BY Zenon, <1>1, <1>2, <1>5 DEF Channel!Close, OpenEnds, Got, Answers
    <2> QED BY Zenon, <2>1 DEF Channel!Next, Ends
  <1> QED BY Zenon, <1>3, <1>4, <1>5

\* Every step of the pipe is a step of the channel, or changes nothing there.
LEMMA NextRefines == IInv /\ IInv' /\ CInv /\ [Next]_vars => [Channel!Next]_Channel!chanVars
  <1> SUFFICES ASSUME TypeOK, RingOK, MutexOK, NoOverrun, TypeOK', CInv, [Next]_vars
               PROVE  [Channel!Next]_Channel!chanVars
    BY Zenon DEF IInv
  <1>0. \A e \in Ends : Live(e)' => Live(e)
    BY Zenon, LiveMonotone
  <1>1. ASSUME NEW t \in Threads, NEW e \in Ends,
               \/ \E n \in ReadLens : BeginRead(t, e, n)
               \/ \E b \in Bufs : BeginWrite(t, e, b)
        PROVE  Channel!Begin(t)
    <2>a. /\ UNCHANGED <<arr, head, tail, status, fds>>
          /\ \E l \in {"user", "r_lock", "w_entry"} :
               /\ Goto(t, l)
               /\ l = "r_lock" => e = "read"
               /\ l = "w_entry" => e = "write"
          /\ \E r \in {0, EPERM} : ret' = [ret EXCEPT ![t] = r]
          /\ \E c \in {"read", "write"} : call' = [call EXCEPT ![t] = c]
          /\ \E w : want' = [want EXCEPT ![t] = w]
          /\ \E d : data' = [data EXCEPT ![t] = d]
          /\ call'[t] = "read" => data'[t] = <<>>
          /\ pc'[t] = "user" /\ call'[t] = "read" /\ ret'[t] = 0 => want'[t] = 0
      <3>1. ASSUME NEW n \in ReadLens, BeginRead(t, e, n) PROVE <2>a!:
        <4>1. pc'[t] = "user" /\ call'[t] = "read" /\ ret'[t] = 0 => want'[t] = 0
          BY <3>1 DEF BeginRead, Return, Goto, TypeOK, EPERM
        <4>2. call'[t] = "read" => data'[t] = <<>>
          BY Zenon, <3>1 DEF BeginRead, TypeOK
        <4>3. /\ \E l \in {"user", "r_lock", "w_entry"} :
                   /\ Goto(t, l)
                   /\ l = "r_lock" => e = "read"
                   /\ l = "w_entry" => e = "write"
              /\ \E r \in {0, EPERM} : ret' = [ret EXCEPT ![t] = r]
          BY Zenon, <3>1 DEF BeginRead, Return
        <4> QED BY Zenon, <3>1, <4>1, <4>2, <4>3 DEF BeginRead
      <3>2. ASSUME NEW b \in Bufs, BeginWrite(t, e, b) PROVE <2>a!:
        BY Zenon, <3>2 DEF BeginWrite, Return, Goto, TypeOK, Ends
      <3> QED BY Zenon, <1>1, <3>1, <3>2
    <2>0. Only(t)
      BY <2>a DEF Only, TypeOK, Goto
    <2>1. Contents' = Contents
      BY Zenon, <2>a, ContentsSame
    <2>2. OpenEnds' = OpenEnds
      <3>1. \A f \in Ends \ {e} : Holds(t, f)' <=> Holds(t, f)
        <4>1. pc[t] = "user"
          BY Zenon, <1>1 DEF BeginRead, BeginWrite
        <4> QED BY Zenon, <2>a, <4>1 DEF TypeOK, Goto, Holds, InRead, InWrite, Ends
      <3>2. Live(e)' <=> Live(e)
        BY Zenon, <1>1 DEF Live, BeginRead, BeginWrite
      <3> QED BY Zenon, <2>0, <3>1, <3>2, OnlyLive DEF OpenEnds
    <2>3. Got' = [Got EXCEPT ![t] = <<>>]
      BY <1>1, <2>0, OnlyGot DEF TypeOK, BeginRead, BeginWrite
    <2>4. Answers' = [Answers EXCEPT ![t] = "none"]
      <3>1. Told(t)' = "none"
        <4>1. ret'[t] # EPIPE
          BY <2>a DEF TypeOK, EPERM, EPIPE
        <4>2. want'[t] > 0 => want'[t] # 0
          BY DEF TypeOK
        <4> QED BY Zenon, <2>a, <4>1, <4>2 DEF Told
      <3> QED BY Zenon, <2>0, <3>1, OnlyAnswers
    <2> QED
      BY Zenon, <2>1, <2>2, <2>3, <2>4 DEF Channel!Begin, OpenEnds, Got, Answers
  <1>2. ASSUME NEW t \in Threads, Lock(t)
        PROVE  [Channel!Next]_Channel!chanVars
    <2>1. Only(t) /\ pc[t] # "user" /\ pc'[t] # "user"
      BY Zenon, <1>2 DEF Only, TypeOK, Lock, Goto
    <2>2. \A f \in Ends : Holds(t, f)' <=> Holds(t, f)
      BY Zenon, <1>2 DEF TypeOK, Lock, Goto, Holds, InRead, InWrite
    <2>3. Got' = Got /\ UNCHANGED <<arr, head, tail, status>>
      BY Zenon, <1>2 DEF Got, Lock
    <2>4. Told(t)' = "none"
      BY Zenon, <2>1 DEF Told
    <2> QED BY Zenon, <1>0, <2>1, <2>2, <2>3, <2>4, ReturnRefines DEF Ends
  <1>3. ASSUME NEW t \in Threads, ReadCheck(t)
        PROVE  [Channel!Next]_Channel!chanVars
    <2>1. Only(t) /\ UNCHANGED <<arr, head, tail, status>>
      BY SMTT(30), <1>3 DEF Only, TypeOK, ReadCheck, Return, Goto
    <2>2. Got' = Got /\ pc[t] # "user"
      BY Zenon, <1>3 DEF Got, ReadCheck
    <2>3. Holds(t, "write")' <=> Holds(t, "write")
      BY <1>3 DEF TypeOK, ReadCheck, Return, Goto, Holds, InWrite
    <2>4. CASE pc'[t] # "user"
      <3>1. Told(t)' = "none"
        BY Zenon, <2>4 DEF Told
      <3> QED BY Zenon, <1>0, <2>1, <2>2, <2>3, <3>1, ReturnRefines DEF Ends
    <2>5. CASE pc'[t] = "user"
      <3>1. /\ IF available_read < want[t] THEN available_read = 0 ELSE want[t] = 0
            /\ closed("read")
            /\ Return(t, 0)
        BY Zenon, <1>3, <2>5 DEF TypeOK, ReadCheck, Return, Goto
      <3>2. want[t] > 0 /\ call[t] = "read" /\ call' = call /\ want' = want
        BY Zenon, <1>3 DEF CInv, InCall, InRead, ReadCheck
      <3>3. Contents = <<>>
        <4>1. available_read = 0
          BY <3>1, <3>2, Available DEF TypeOK
        <4> QED BY <4>1 DEF Contents
      <3>4. "write" \notin OpenEnds
        BY Zenon, <3>1 DEF OpenEnds, closed, Other
      <3>5. OpenEnds' \in {OpenEnds, OpenEnds \ {"read"}}
        BY Zenon, <1>0, <2>1, <2>3, OnlyLive, MayClose DEF Ends
      <3>6. Told(t)' = "eof"
        BY Zenon, <3>1, <3>2 DEF Told, Return, Goto, TypeOK
      <3>7. Answers' = [Answers EXCEPT ![t] = "eof"]
        BY Zenon, <2>1, <3>6, OnlyAnswers
      <3>8. Contents' = Contents
        BY Zenon, <2>1, ContentsSame
      <3>9. Channel!Eof(t)
        BY Zenon, <2>2, <3>3, <3>4, <3>5, <3>7, <3>8
        DEF Channel!Eof, Channel!CloseWith, OpenEnds, Got, Answers
      <3> QED BY Zenon, <3>9 DEF Channel!Next
    <2> QED BY Zenon, <2>4, <2>5
  <1>4. ASSUME NEW t \in Threads, ReadByte(t)
        PROVE  [Channel!Next]_Channel!chanVars
    <2>1. Only(t) /\ pc[t] # "user"
      BY SMTT(30), <1>4 DEF Only, TypeOK, ReadByte, Return, Goto
    <2>2. Holds(t, "write")' <=> Holds(t, "write")
      BY SMTT(30), <1>4 DEF TypeOK, ReadByte, Return, Goto, Holds, InWrite
    <2>3. available_read > 0
      BY <1>4, Available DEF ReadByte, NoOverrun
    <2>4. Contents # <<>> /\ arr[head] = Head(Contents) /\ Contents' = Tail(Contents)
      BY Zenon, <1>4, <2>3, ReadTakesFront DEF ReadByte
    <2>5. "read" \in OpenEnds
      BY Zenon, <1>4 DEF OpenEnds, Ends, Live, Holds, InRead, ReadByte
    <2>6. OpenEnds' \in {OpenEnds, OpenEnds \ {"read"}}
      BY Zenon, <1>0, <2>1, <2>2, OnlyLive, MayClose DEF Ends
    <2>7. call[t] = "read" /\ call' = call /\ data' = [data EXCEPT ![t] = Append(@, Head(Contents))]
      BY Zenon, <1>4, <2>4 DEF CInv, InCall, InRead, ReadByte
    <2>8. Got' = [Got EXCEPT ![t] = Append(@, Head(Contents))]
      BY Zenon, <2>7 DEF Got, TypeOK
    <2>9. Answers' = Answers
      <3>1. Told(t)' = "none"
        <4>1. CASE pc'[t] # "user"
          BY Zenon, <4>1 DEF Told
        <4>2. CASE pc'[t] = "user"
          <5>1. ret'[t] = Len(data[t]) + 1 /\ Len(data[t]) \in Nat
            BY <1>4, <4>2 DEF TypeOK, ReadByte, Return, Goto
          <5>2. ret'[t] # 0 /\ ret'[t] # EPIPE
            BY <5>1 DEF EPIPE
          <5> QED BY Zenon, <5>2 DEF Told
        <4> QED BY Zenon, <4>1, <4>2
      <3> QED BY <2>1, <3>1, OnlyAnswers, NotTold
    <2>10. Channel!Get(t)
      BY Zenon, <2>4, <2>5, <2>6, <2>8, <2>9 DEF Channel!Get, Channel!CloseWith, OpenEnds, Got, Answers
    <2> QED BY Zenon, <2>10 DEF Channel!Next
  <1>5. ASSUME NEW t \in Threads, WriteEntry(t)
        PROVE  [Channel!Next]_Channel!chanVars
    <2>1. Only(t) /\ UNCHANGED <<arr, head, tail, status>>
      BY <1>5 DEF Only, TypeOK, WriteEntry, Return, Goto
    <2>2. Got' = Got /\ pc[t] # "user" /\ call[t] = "write" /\ call' = call
      BY Zenon, <1>5 DEF Got, WriteEntry, CInv, InCall, InWrite
    <2>3. Holds(t, "read")' <=> Holds(t, "read")
      BY Zenon, <1>5 DEF TypeOK, WriteEntry, Return, Goto, Holds, InRead
    <2>4. CASE ~closed("write")
      <3>1. ret'[t] = 0
        BY Zenon, <1>5, <2>4 DEF WriteEntry, Return, TypeOK, CInv, InCall, InWrite
      <3>2. Told(t)' = "none"
        BY <2>2, <3>1 DEF Told, EPIPE
      <3> QED BY Zenon, <1>0, <2>1, <2>2, <2>3, <3>2, ReturnRefines DEF Ends
    <2>5. CASE closed("write")
      <3>1. Return(t, EPIPE)
        BY Zenon, <1>5, <2>5 DEF WriteEntry
      <3>2. Told(t)' = "epipe"
        BY Zenon, <2>2, <3>1 DEF Told, Return, Goto, TypeOK
      <3>3. Answers' = [Answers EXCEPT ![t] = "epipe"]
        BY Zenon, <2>1, <3>2, OnlyAnswers
      <3>4. "read" \notin OpenEnds
        BY Zenon, <2>5 DEF OpenEnds, closed, Other
      <3>5. OpenEnds' \in {OpenEnds, OpenEnds \ {"write"}}
        BY Zenon, <1>0, <2>1, <2>3, OnlyLive, MayClose DEF Ends
      <3>6. Contents' = Contents
        BY Zenon, <2>1, ContentsSame
      <3>7. Channel!BrokenPipe(t)
        BY ZenonT(30), <2>2, <3>3, <3>4, <3>5, <3>6
        DEF Channel!BrokenPipe, Channel!CloseWith, OpenEnds, Got, Answers
      <3> QED BY Zenon, <3>7 DEF Channel!Next
    <2> QED BY Zenon, <2>4, <2>5
  <1>6. ASSUME NEW t \in Threads, WriteCheck(t)
        PROVE  [Channel!Next]_Channel!chanVars
    <2>1. Only(t) /\ UNCHANGED <<arr, head, tail, status>>
      BY SMTT(30), <1>6 DEF Only, TypeOK, WriteCheck, Return, Goto
    <2>2. Got' = Got /\ pc[t] # "user" /\ call[t] = "write" /\ call' = call
      BY Zenon, <1>6 DEF Got, WriteCheck, CInv, InCall, InWrite
    <2>3. Holds(t, "read")' <=> Holds(t, "read")
      BY ZenonT(30), <1>6 DEF TypeOK, WriteCheck, Return, Goto, Holds, InRead
    <2>4. Told(t)' = "none"
      <3>1. Len(data[t]) \in Nat /\ want[t] \in Nat /\ Len(data[t]) <= want[t] /\ ret[t] = 0
        BY <1>6 DEF TypeOK, WriteCheck, CInv, InCall, Accounted, InWrite
      <3>2. ret'[t] \in {0, want[t] - Len(data[t])}
        BY Zenon, <1>6, <3>1 DEF TypeOK, WriteCheck, Return
      <3>3. ret'[t] # EPIPE
        BY <3>1, <3>2 DEF EPIPE
      <3> QED BY Zenon, <2>2, <3>3 DEF Told
    <2> QED BY Zenon, <1>0, <2>1, <2>2, <2>3, <2>4, ReturnRefines DEF Ends
  <1>7. ASSUME NEW t \in Threads, WriteByte(t)
        PROVE  [Channel!Next]_Channel!chanVars
    <2>1. Only(t) /\ pc[t] # "user"
      <3>1. /\ fds' = fds /\ pc[t] # "user" /\ call' = call /\ want' = want
            /\ pc' = pc \/ \E l : pc' = [pc EXCEPT ![t] = l]
            /\ data' = data \/ \E d : data' = [data EXCEPT ![t] = d]
            /\ ret' = ret \/ \E r : ret' = [ret EXCEPT ![t] = r]
        BY Zenon, <1>7 DEF WriteByte, Return, Goto
      <3>2. \A u \in Threads \ {t} : pc'[u] = pc[u] /\ data'[u] = data[u] /\ ret'[u] = ret[u]
        BY Zenon, <3>1 DEF TypeOK
      <3> QED BY Zenon, <3>1, <3>2 DEF Only
    <2>2. call[t] = "write" /\ call' = call /\ ret[t] = 0
      BY Zenon, <1>7 DEF WriteByte, CInv, InCall, InWrite
    <2>3. Got' = Got
      BY Zenon, <2>1, <2>2, GotSame
    <2>4. Holds(t, "read")' <=> Holds(t, "read")
      BY ZenonT(30), <1>7 DEF TypeOK, WriteByte, Return, Goto, Holds, InRead
    <2>5. Told(t)' = "none"
      <3>1. ret'[t] \in {0, want[t]} /\ want[t] \in Nat
        BY Zenon, <1>7, <2>2 DEF TypeOK, WriteByte, Return
      <3>2. ret'[t] # EPIPE
        BY <3>1 DEF EPIPE
      <3> QED BY Zenon, <2>2, <3>2 DEF Told
    <2>6. CASE left[t] = 0 \/ data[t] = <<>>
      <3>1. UNCHANGED <<arr, head, tail, status>>
        BY Zenon, <1>7, <2>6 DEF WriteByte
      <3> QED BY Zenon, <1>0, <2>1, <2>3, <2>4, <2>5, <3>1, ReturnRefines DEF Ends
    <2>7. CASE left[t] # 0 /\ data[t] # <<>>
      <3>1. write_byte(Head(data[t])) /\ pc' = pc
        BY Zenon, <1>7, <2>7 DEF WriteByte
      <3>2. Head(data[t]) \in Bytes
        BY <2>7 DEF TypeOK
      <3>3. available_write > 0 /\ available_read < RING_BUFFER_SIZE
        <4>1. left[t] \in 0..available_write
          BY Zenon, <1>7 DEF WriteByte, NoOverrun
        <4>2. available_write = RING_BUFFER_SIZE - available_read /\ available_read \in 0..RING_BUFFER_SIZE
          BY Zenon, Available
        <4> QED BY <2>7, <4>1, <4>2, PipeAssumption
      <3>4. Contents' = Append(Contents, Head(data[t]))
        BY Zenon, <3>1, <3>2, <3>3, WriteAppends
      <3>5. Len(Contents) < RING_BUFFER_SIZE
        BY Zenon, <3>3, ContentsSeq
      <3>6. "write" \in OpenEnds
        BY Zenon, <1>7 DEF OpenEnds, Ends, Live, Holds, InWrite, WriteByte
      <3>7. OpenEnds' = OpenEnds
        BY Zenon, <2>1, <3>1 DEF OpenEnds, Only, Live, Holds, InRead, InWrite
      <3>8. Answers' = Answers
        BY <2>1, <2>5, OnlyAnswers, NotTold
      <3>9. Channel!Put(Head(data[t]))
        BY Zenon, <2>3, <3>4, <3>5, <3>6, <3>7, <3>8 DEF Channel!Put, OpenEnds, Got, Answers
      <3> QED BY Zenon, <3>2, <3>9 DEF Channel!Next
    <2> QED BY Zenon, <2>6, <2>7
  <1>8. ASSUME NEW e \in Ends, DupFd(e) \/ CloseFd(e)
        PROVE  [Channel!Next]_Channel!chanVars
    <2>1. Contents' = Contents
      BY Zenon, <1>8, ContentsSame DEF DupFd, CloseFd
    <2>2. Got' = Got /\ Answers' = Answers
      BY Zenon, <1>8 DEF DupFd, CloseFd, Got, Answers, Told
    <2>3. \A f \in Ends \ {e} : Live(f)' <=> Live(f)
      BY <1>8 DEF TypeOK, DupFd, CloseFd, Live, Holds, InRead, InWrite
    <2>4. OpenEnds' \in {OpenEnds, OpenEnds \ {e}}
      BY Zenon, <1>0, <2>3, MayClose
    <2>5. CASE OpenEnds' = OpenEnds
      BY Zenon, <2>1, <2>2, <2>5 DEF Channel!chanVars, OpenEnds, Got, Answers
    <2>6. CASE OpenEnds' = OpenEnds \ {e} /\ e \in OpenEnds
      <3>1. Channel!Close(e)
        BY Zenon, <2>1, <2>2, <2>6 DEF Channel!Close, OpenEnds, Got, Answers
      <3> QED BY Zenon, <3>1 DEF Channel!Next, Ends
    <2> QED BY Zenon, <2>4, <2>5, <2>6
  <1>9. CASE UNCHANGED vars
    BY Zenon, <1>9 DEF vars, Channel!chanVars, Contents, available_read, Live, Holds, InRead, InWrite, Told
  <1>10. ASSUME NEW t \in Threads, Channel!Begin(t)
         PROVE  [Channel!Next]_Channel!chanVars
    BY Zenon, <1>10 DEF Channel!Next
  <1> QED
    BY Zenon, <1>1, <1>2, <1>3, <1>4, <1>5, <1>6, <1>7, <1>8, <1>9, <1>10 DEF Next

\* The detailed pipe implements the abstract channel: for every ring size,
\* every number of threads and every interleaving, no byte is lost,
\* duplicated or reordered, end of file is reported only on an empty channel
\* without writers and EPIPE only without readers.
THEOREM PipeRefines == Spec => ImplementsChannel
  BY InitIInv, NextIInv, InitCInv, NextCInv, InitRefines, NextRefines, PTL
  DEF Spec, Channel!Spec, ImplementsChannel
=============================================================================
