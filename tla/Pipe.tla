-------------------------------- MODULE Pipe --------------------------------
(* The anonymous pipe of api/src/file/pipe.rs: a ring buffer behind a mutex *)
(* (Arc<Mutex<PipeRingBuffer>>) shared by a read end and a write end.       *)
(* Threads call read and write concurrently; a call that cannot proceed     *)
(* drops the mutex, yields and tries again.  An end lives as long as a      *)
(* descriptor table or a running call holds its Arc<Pipe>.                  *)
EXTENDS Integers, Sequences

CONSTANTS
  Threads,            \* the kernel threads that use the pipe
  Bytes,              \* byte values; 0 is the initial contents of the array
  RING_BUFFER_SIZE,
  Bufs,               \* the buffers that callers pass to write()
  ReadLens,           \* the lengths of the buffers they pass to read()
  MaxFds,             \* bound: descriptors that refer to one end
  NoThread            \* the mutex is free

ASSUME PipeAssumption ==
  /\ RING_BUFFER_SIZE \in Nat \ {0}
  /\ Bufs \subseteq Seq(Bytes)
  /\ ReadLens \subseteq Nat
  /\ MaxFds \in Nat \ {0}
  /\ 0 \in Bytes
  /\ NoThread \notin Threads

EPERM == -1
EPIPE == -32

Ends == {"read", "write"}
Other(e) == IF e = "read" THEN "write" ELSE "read"

VARIABLES
  arr, head, tail, status,   \* PipeRingBuffer
  lock,                      \* holder of the mutex around it, or NoThread
  fds,                       \* fds[e]: descriptor-table entries holding end e
  pc,                        \* where each thread is in read() or write()
  call,                      \* the current or last call: "none", "read" or "write"
  want,                      \* its buf.len()
  data,                      \* read: bytes filled in; write: bytes not yet stored
  left,                      \* iterations left in the copy loop
  ret                        \* result of the last call (negative: errno)

vars == <<arr, head, tail, status, lock, fds, pc, call, want, data, left, ret>>

-----------------------------------------------------------------------------
(* The ring buffer.                                                        *)

new ==
  /\ arr = [i \in 0..(RING_BUFFER_SIZE - 1) |-> 0]
  /\ head = 0
  /\ tail = 0
  /\ status = "Empty"

write_byte(b) ==
  /\ arr' = [arr EXCEPT ![tail] = b]
  /\ tail' = (tail + 1) % RING_BUFFER_SIZE
  /\ status' = IF tail' = head THEN "Full" ELSE "Normal"
  /\ UNCHANGED head

read_byte ==
  /\ head' = (head + 1) % RING_BUFFER_SIZE
  /\ status' = IF head' = tail THEN "Empty" ELSE "Normal"
  /\ UNCHANGED <<arr, tail>>

available_read ==
  IF status = "Empty" THEN 0
  ELSE IF tail > head THEN tail - head
  ELSE tail + RING_BUFFER_SIZE - head

available_write ==
  IF status = "Full" THEN 0 ELSE RING_BUFFER_SIZE - available_read

-----------------------------------------------------------------------------
(* The two ends.                                                           *)

InRead(t) == pc[t] \in {"r_lock", "r_check", "r_copy"}
InWrite(t) == pc[t] \in {"w_entry", "w_lock", "w_check", "w_copy"}
Holds(t, e) == IF e = "read" THEN InRead(t) ELSE InWrite(t)

\* Some Arc<Pipe> of end e exists, so e's share of the buffer's Arc does.
Live(e) == fds[e] > 0 \/ \E t \in Threads : Holds(t, e)

\* Arc::strong_count(&self.buffer) == 1, asked by end e.
closed(e) == ~Live(Other(e))

Init ==
  /\ new
  /\ lock = NoThread
  /\ fds = [e \in Ends |-> 1]
  /\ pc = [t \in Threads |-> "user"]
  /\ call = [t \in Threads |-> "none"]
  /\ want = [t \in Threads |-> 0]
  /\ data = [t \in Threads |-> <<>>]
  /\ left = [t \in Threads |-> 0]
  /\ ret = [t \in Threads |-> 0]

Goto(t, l) == pc' = [pc EXCEPT ![t] = l]

\* The call returns r: the guard and the call's Arc are dropped.
Return(t, r) ==
  /\ Goto(t, "user")
  /\ ret' = [ret EXCEPT ![t] = r]

Unlock(t) == lock = t /\ lock' = NoThread

-----------------------------------------------------------------------------
(* read()                                                                  *)

BeginRead(t, e, n) ==
  /\ pc[t] = "user"
  /\ fds[e] > 0
  /\ call' = [call EXCEPT ![t] = "read"]
  /\ want' = [want EXCEPT ![t] = n]
  /\ data' = [data EXCEPT ![t] = <<>>]
  /\ IF e # "read" THEN Return(t, EPERM)
     ELSE IF n = 0 THEN Return(t, 0)
     ELSE Goto(t, "r_lock") /\ ret' = [ret EXCEPT ![t] = 0]
  /\ UNCHANGED <<arr, head, tail, status, lock, fds, left>>

Lock(t) ==
  /\ pc[t] \in {"r_lock", "w_lock"}
  /\ lock = NoThread
  /\ lock' = t
  /\ Goto(t, IF pc[t] = "r_lock" THEN "r_check" ELSE "w_check")
  /\ UNCHANGED <<arr, head, tail, status, fds, call, want, data, left, ret>>

\* Mutants: "closed" is asked before looking for data; never asked.
ReadCheck_closed_first(t) ==
  /\ pc[t] = "r_check"
  /\ LET size == IF available_read < want[t] THEN available_read ELSE want[t] IN
     IF closed("read")
     THEN Unlock(t) /\ Return(t, 0) /\ UNCHANGED left
     ELSE IF size = 0
     THEN Unlock(t) /\ Goto(t, "r_lock") /\ UNCHANGED <<left, ret>>
     ELSE Goto(t, "r_copy") /\ left' = [left EXCEPT ![t] = size] /\ UNCHANGED <<lock, ret>>
  /\ UNCHANGED <<arr, head, tail, status, fds, call, want, data>>
ReadCheck_never_closed(t) ==
  /\ pc[t] = "r_check"
  /\ LET size == IF available_read < want[t] THEN available_read ELSE want[t] IN
     IF size = 0
     THEN Unlock(t) /\ Goto(t, "r_lock") /\ UNCHANGED <<left, ret>>
     ELSE Goto(t, "r_copy") /\ left' = [left EXCEPT ![t] = size] /\ UNCHANGED <<lock, ret>>
  /\ UNCHANGED <<arr, head, tail, status, fds, call, want, data>>

\* Under the mutex: how much to copy; nothing and no writer is end of file,
\* nothing yet is a yield.
ReadCheck(t) ==
  /\ pc[t] = "r_check"
  /\ LET size == IF available_read < want[t] THEN available_read ELSE want[t] IN
     IF size = 0
     THEN /\ Unlock(t)
          /\ IF closed("read") THEN Return(t, 0)
             ELSE Goto(t, "r_lock") /\ UNCHANGED ret
          /\ UNCHANGED left
     ELSE /\ Goto(t, "r_copy")
          /\ left' = [left EXCEPT ![t] = size]
          /\ UNCHANGED <<lock, ret>>
  /\ UNCHANGED <<arr, head, tail, status, fds, call, want, data>>

ReadByte(t) ==
  /\ pc[t] = "r_copy"
  /\ data' = [data EXCEPT ![t] = Append(@, arr[head])]
  /\ read_byte
  /\ left' = [left EXCEPT ![t] = @ - 1]
  /\ IF left[t] = 1
     THEN Unlock(t) /\ Return(t, Len(data[t]) + 1)
     ELSE UNCHANGED <<lock, pc, ret>>
  /\ UNCHANGED <<fds, call, want>>

-----------------------------------------------------------------------------
(* write()                                                                 *)

BeginWrite(t, e, b) ==
  /\ pc[t] = "user"
  /\ fds[e] > 0
  /\ call' = [call EXCEPT ![t] = "write"]
  /\ want' = [want EXCEPT ![t] = Len(b)]
  /\ data' = [data EXCEPT ![t] = IF e = "write" THEN b ELSE <<>>]
  /\ IF e # "write" THEN Return(t, EPERM)
     ELSE Goto(t, "w_entry") /\ ret' = [ret EXCEPT ![t] = 0]
  /\ UNCHANGED <<arr, head, tail, status, lock, fds, left>>

\* The checks before the loop, made without the mutex.
WriteEntry(t) ==
  /\ pc[t] = "w_entry"
  /\ IF closed("write") THEN Return(t, EPIPE)
     ELSE IF want[t] = 0 THEN Return(t, 0)
     ELSE Goto(t, "w_lock") /\ UNCHANGED ret
  /\ UNCHANGED <<arr, head, tail, status, lock, fds, call, want, data, left>>

\* Mutant: the copy loop is as long as the whole ring.
WriteCheck_whole_ring(t) ==
  /\ pc[t] = "w_check"
  /\ IF available_write = 0
     THEN /\ Unlock(t)
          /\ IF closed("write") THEN Return(t, want[t] - Len(data[t]))
             ELSE Goto(t, "w_lock") /\ UNCHANGED ret
          /\ UNCHANGED left
     ELSE /\ Goto(t, "w_copy")
          /\ left' = [left EXCEPT ![t] = RING_BUFFER_SIZE]
          /\ UNCHANGED <<lock, ret>>
  /\ UNCHANGED <<arr, head, tail, status, fds, call, want, data>>

\* Mutant: the bytes that are left are returned, not those written.
WriteCheck_returns_left(t) ==
  /\ pc[t] = "w_check"
  /\ IF available_write = 0
     THEN /\ Unlock(t)
          /\ IF closed("write") THEN Return(t, Len(data[t]))
             ELSE Goto(t, "w_lock") /\ UNCHANGED ret
          /\ UNCHANGED left
     ELSE /\ Goto(t, "w_copy")
          /\ left' = [left EXCEPT ![t] = available_write]
          /\ UNCHANGED <<lock, ret>>
  /\ UNCHANGED <<arr, head, tail, status, fds, call, want, data>>

WriteCheck(t) ==
  /\ pc[t] = "w_check"
  /\ IF available_write = 0
     THEN /\ Unlock(t)
          /\ IF closed("write") THEN Return(t, want[t] - Len(data[t]))
             ELSE Goto(t, "w_lock") /\ UNCHANGED ret
          /\ UNCHANGED left
     ELSE /\ Goto(t, "w_copy")
          /\ left' = [left EXCEPT ![t] = available_write]
          /\ UNCHANGED <<lock, ret>>
  /\ UNCHANGED <<arr, head, tail, status, fds, call, want, data>>

\* One iteration of the copy loop: the loop is over and the mutex is
\* released at the end of the outer body; or everything is stored and the
\* call returns; or one more byte is stored.
WriteByte(t) ==
  /\ pc[t] = "w_copy"
  /\ IF left[t] = 0
     THEN Unlock(t) /\ Goto(t, "w_lock") /\ UNCHANGED <<arr, head, tail, status, data, left, ret>>
     ELSE IF data[t] = <<>>
     THEN Unlock(t) /\ Return(t, want[t]) /\ UNCHANGED <<arr, head, tail, status, data, left>>
     ELSE /\ write_byte(Head(data[t]))
          /\ data' = [data EXCEPT ![t] = Tail(@)]
          /\ left' = [left EXCEPT ![t] = @ - 1]
          /\ UNCHANGED <<lock, pc, ret>>
  /\ UNCHANGED <<fds, call, want>>

-----------------------------------------------------------------------------
(* Descriptors: dup and fork add a holder, close and exit remove one.      *)

DupFd(e) ==
  /\ fds[e] \in 1..(MaxFds - 1)
  /\ fds' = [fds EXCEPT ![e] = @ + 1]
  /\ UNCHANGED <<arr, head, tail, status, lock, pc, call, want, data, left, ret>>

CloseFd(e) ==
  /\ fds[e] > 0
  /\ fds' = [fds EXCEPT ![e] = @ - 1]
  /\ UNCHANGED <<arr, head, tail, status, lock, pc, call, want, data, left, ret>>

Running(t) == ReadCheck(t) \/ ReadByte(t) \/ WriteEntry(t) \/ WriteCheck(t) \/ WriteByte(t)

Next ==
  \/ \E t \in Threads :
       \/ \E e \in Ends, n \in ReadLens : BeginRead(t, e, n)
       \/ \E e \in Ends, b \in Bufs : BeginWrite(t, e, b)
       \/ Lock(t)
       \/ ReadCheck(t)
       \/ ReadByte(t)
       \/ WriteEntry(t)
       \/ WriteCheck(t)
       \/ WriteByte(t)
  \/ \E e \in Ends : DupFd(e) \/ CloseFd(e)

Spec == Init /\ [][Next]_vars

\* A running call keeps running (the scheduler is round robin or FIFO and the
\* loops yield), and a thread that waits for the mutex, which is free
\* infinitely often, gets it (losers sleep in the mutex's wait queue and are
\* woken by the unlock).  Nobody is obliged to start a call or to close.
Fairness == \A t \in Threads : WF_vars(Running(t)) /\ SF_vars(Lock(t))

FairSpec == Spec /\ Fairness

-----------------------------------------------------------------------------
(* Properties.                                                             *)

\* Every variable has its type; the indices stay inside the array.
TypeOK ==
  /\ arr \in [0..(RING_BUFFER_SIZE - 1) -> Bytes]
  /\ head \in 0..(RING_BUFFER_SIZE - 1)
  /\ tail \in 0..(RING_BUFFER_SIZE - 1)
  /\ status \in {"Full", "Empty", "Normal"}
  /\ lock \in Threads \cup {NoThread}
  /\ fds \in [Ends -> 0..MaxFds]
  /\ pc \in [Threads -> {"user", "r_lock", "r_check", "r_copy",
                         "w_entry", "w_lock", "w_check", "w_copy"}]
  /\ call \in [Threads -> {"none", "read", "write"}]
  /\ want \in [Threads -> Nat]
  /\ data \in [Threads -> Seq(Bytes)]
  /\ left \in [Threads -> 0..RING_BUFFER_SIZE]
  /\ ret \in [Threads -> Int]

InLoop(t) == pc[t] \in {"r_check", "r_copy", "w_check", "w_copy"}

\* The copy loops of read() and write() decide how many bytes to move once,
\* before the loop; while a thread is in such a loop the ring still has that
\* many bytes (room for that many bytes), so read_byte never takes a stale
\* byte and write_byte never overwrites one that was not read.  This needs
\* the three status values to agree with the two indices, and the mutex.
NoOverrun ==
  \A t \in Threads :
    /\ pc[t] = "r_copy" => left[t] \in 1..available_read
    /\ pc[t] = "w_copy" => left[t] \in 0..available_write

\* A call accounts for every byte: what read() has filled in so far and
\* still means to copy never exceeds the caller's buffer, what write() has
\* not stored never exceeds it either, and a write that returns a short
\* count does so only because the read end is gone.
CallAccounting ==
  /\ TypeOK
  /\ \A t \in Threads :
    /\ InRead(t) => Len(data[t]) + (IF pc[t] = "r_copy" THEN left[t] ELSE 0) <= want[t]
    /\ call[t] = "read" /\ pc[t] = "user" /\ ret[t] >= 0 => ret[t] = Len(data[t])
    /\ InWrite(t) => Len(data[t]) <= want[t]
    /\ /\ call[t] = "write" /\ pc[t] = "user" /\ ret[t] >= 0 /\ ret[t] < want[t]
       => ret[t] = want[t] - Len(data[t]) /\ ~Live("read")

\* The bytes between head and tail, oldest first.
Contents ==
  [i \in 1..available_read |->
     arr[IF head + i - 1 < RING_BUFFER_SIZE THEN head + i - 1
                                            ELSE head + i - 1 - RING_BUFFER_SIZE]]

Told(t) ==
  IF pc[t] # "user" THEN "none"
  ELSE IF call[t] = "read" /\ want[t] > 0 /\ ret[t] = 0 THEN "eof"
  ELSE IF ret[t] = EPIPE THEN "epipe" ELSE "none"

Channel == INSTANCE PipeChannel WITH
  Capacity <- RING_BUFFER_SIZE,
  q <- Contents,
  open <- {e \in Ends : Live(e)},
  got <- [t \in Threads |-> IF call[t] = "read" THEN data[t] ELSE <<>>],
  told <- [t \in Threads |-> Told(t)]

\* The pipe is a bounded FIFO channel: no byte is lost, duplicated or
\* reordered by any interleaving of readers and writers, read() reports end
\* of file only when the ring is empty and no writer is left, and write()
\* reports EPIPE only when no reader is left.
ImplementsChannel == Channel!Spec

\* Once the last holder of the other end is gone, a blocked call returns: a
\* read() with the remaining bytes or 0, a write() on a full ring with an error
\* or a short count, because the loop that yields sees closed().
BlockedCallReturns ==
  \A t \in Threads :
    /\ InRead(t) /\ ~Live("write") ~> pc[t] = "user"
    /\ InWrite(t) /\ ~Live("read") ~> pc[t] = "user"

\* A write() whose last byte is in the ring returns the written size, as
\* sys_write promises ("Return the written size if success").
StoredWriteReturns ==
  \A t \in Threads :
    InWrite(t) /\ want[t] > 0 /\ data[t] = <<>> ~> pc[t] = "user"
=============================================================================
