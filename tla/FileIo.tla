------------------------------- MODULE FileIo -------------------------------
(***************************************************************************)
(* Reading and writing through descriptors: sys_read, sys_readv, sys_write,*)
(* sys_writev and sys_lseek (api/src/imp/fs/io.rs) on regular files and    *)
(* directories (api/src/file/fs.rs), on the console                        *)
(* (api/src/file/stdio.rs) and on pipes (api/src/file/pipe.rs), while      *)
(* other threads change the descriptor table (module FdTable).             *)
(*                                                                         *)
(* A vector call looks its descriptor up again for every buffer.  The look *)
(* and the transfer under the object's mutex are steps.  The files opened  *)
(* are one file, each opening with its position, and of the data only what *)
(* is typed at the console is followed.  How bytes pass through a pipe is  *)
(* the subject of module Pipe; here it moves some or none, and which of    *)
(* its ends are open follows from the descriptors.                         *)
(***************************************************************************)
EXTENDS FdTable, Sequences

CONSTANTS Iovecs,   \* sequences of buffer lengths; Bad is a buffer not mapped
          Bad,
          Input,    \* what will be typed, "CR" and "LF" among it
          FileSize, \* length of the file at the start
          MaxLen,   \* file positions and lengths (bound)
          CAPACITY  \* size of the BufReader of standard input

ASSUME IoAssumption ==
    /\ Bad \in Int \ Nat /\ Iovecs \subseteq Seq(Nat \cup {Bad})
    /\ Input \in Seq(STRING)
    /\ FileSize \in Nat /\ MaxLen \in Nat /\ CAPACITY \in Nat \ {0}

VARIABLES io,       \* io[t]: the call of t, or NoIo
          offset,   \* offset[n]: the position of open file n
          length,   \* of the file
          typed, taken, \* how much has been typed, and read from the console
          buffer,   \* the unread bytes in the BufReader
          seen      \* the bytes handed to programs, in order
iovars == << io, offset, length, typed, taken, buffer, seen >>
allvars == << vars, iovars >>

NoIo == [op |-> "none"]
EBADF == -9
EPERM == -1
EFAULT == -14
EIO == -5
EPIPE == -32

IoInit ==
    /\ Init
    /\ io = [t \in Tids |-> NoIo]
    /\ offset = [n \in 1 .. MaxObjs |-> 0] /\ length = FileSize
    /\ typed = 0 /\ taken = 0
    /\ buffer = << >> /\ seen = << >>
-----------------------------------------------------------------------------
(* Standard input *)

\* A key is pressed.
Type ==
    /\ "type" \in calls /\ ~panicked /\ typed < Len(Input)
    /\ typed' = typed + 1
    /\ UNCHANGED << vars, io, offset, length, taken, buffer, seen >>

\* Mutant: the conversion is applied the wrong way round.
console_read_bytes_swapped(i) == << i, IF Input[i] = "LF" THEN "CR" ELSE Input[i] >>

\* Byte i of the console: a carriage return becomes a line feed.
console_read_bytes(i) == << i, IF Input[i] = "CR" THEN "LF" ELSE Input[i] >>

Least(a, b) == IF a < b THEN a ELSE b

\* StdinRaw::read: the console is asked until n bytes are there or it has none.
StdinRaw_read(n) == [i \in 1 .. Least(n, typed - taken) |-> console_read_bytes(taken + i)]

\* BufReader::read (external) of n bytes: what is handed out, what is kept, how
\* much the console gave.  A long read with an empty buffer goes past it.
BufReader_read(n) ==
    IF buffer = << >> /\ n >= CAPACITY
    THEN [out |-> StdinRaw_read(n), keep |-> << >>, more |-> Len(StdinRaw_read(n))]
    ELSE LET fill == IF buffer = << >> THEN StdinRaw_read(CAPACITY) ELSE << >>
             b == buffer \o fill
             k == Least(n, Len(b))
         IN [out |-> SubSeq(b, 1, k), keep |-> SubSeq(b, k + 1, Len(b)), more |-> Len(fill)]
-----------------------------------------------------------------------------
\* A call with these buffers begins; a vector call when v.  (moved and first are
\* history: what the call moved, and the object it had first.)
IoBegin(t, fd, op, v, iovs) ==
    /\ (IF v THEN "vec" ELSE "rw") \in calls /\ Running(t, "user") /\ io[t] = NoIo
    /\ io' = [io EXCEPT ![t] = [op |-> op, fd |-> fd, vec |-> v, iovs |-> iovs, ret |-> 0,
                                obj |-> NoObj, moved |-> 0, first |-> NoObj]]
    /\ UNCHANGED << vars, offset, length, typed, taken, buffer, seen >>

sys_read(t, fd, n) == IoBegin(t, fd, "read", FALSE, << n >>)
sys_readv(t, fd, iovs) == IoBegin(t, fd, "read", TRUE, iovs)
sys_write(t, fd, n) == IoBegin(t, fd, "write", FALSE, << n >>)
sys_writev(t, fd, iovs) == IoBegin(t, fd, "write", TRUE, iovs)

\* The call is over and returns r.
Return(t, r) == io' = [io EXCEPT ![t].op = "done", ![t].ret = r]

IoReturn(t) ==
    /\ io[t].op = "done"
    /\ io' = [io EXCEPT ![t] = NoIo]
    /\ UNCHANGED << vars, offset, length, typed, taken, buffer, seen >>

\* The next buffer is checked and the descriptor looked up.  After an error what
\* the call has moved is not reported.
Lookup(t, n, o) ==
    CASE n = Bad -> Return(t, EFAULT)
      [] n # Bad /\ o = NoObj -> Return(t, EBADF)
      [] OTHER -> io' = [io EXCEPT ![t].obj = o, ![t].first = IF @ = NoObj THEN o ELSE @]

\* A turn of the loop over the buffers; the vector calls skip an empty one.
IoLookup(t) ==
    /\ ~panicked /\ io[t].op \in {"read", "write"} /\ io[t].obj = NoObj
    /\ IF io[t].iovs = << >> THEN Return(t, io[t].ret)
       ELSE LET n == Head(io[t].iovs) IN
            IF io[t].vec /\ n = 0 THEN io' = [io EXCEPT ![t].iovs = Tail(@)]
            ELSE Lookup(t, n, tables[tab[t]][io[t].fd])
    /\ UNCHANGED << vars, offset, length, typed, taken, buffer, seen >>

\* The call is at the read or write of an object of this kind, whatever has
\* become of the descriptor since it was looked up.
At(t, op, kind) == ~panicked /\ io[t].op = op /\ io[t].obj[1] = kind

\* Mutant: the count of the last buffer is returned.
Moved_last(t, k) ==
    LET c == [io[t] EXCEPT !.moved = @ + k]
        last == k < Head(c.iovs) \/ Len(c.iovs) = 1
    IN io' = [io EXCEPT ![t] = IF last THEN [c EXCEPT !.op = "done", !.ret = k]
                               ELSE [c EXCEPT !.iovs = Tail(@), !.ret = @ + k, !.obj = NoObj,
                                              !.op = IF @ = "store" THEN "write" ELSE @]]

\* The object has moved k bytes to or from the buffer: a short transfer and the
\* last buffer end the call.
Moved(t, k) ==
    LET c == [io[t] EXCEPT !.moved = @ + k]
        last == k < Head(c.iovs) \/ Len(c.iovs) = 1
    IN io' = [io EXCEPT ![t] = IF last THEN [c EXCEPT !.op = "done", !.ret = @ + k]
                               ELSE [c EXCEPT !.iovs = Tail(@), !.ret = @ + k, !.obj = NoObj,
                                              !.op = IF @ = "store" THEN "write" ELSE @]]

\* Objects that cannot do it.
DirRefuses(t) ==
    /\ (At(t, "read", "dir") \/ At(t, "write", "dir")) /\ Return(t, EBADF)
    /\ UNCHANGED << vars, offset, length, typed, taken, buffer, seen >>

\* The console and the pipe, in the wrong direction.
WayRefuses(t) ==
    /\ \/ At(t, "write", "stdin") \/ At(t, "read", "stdout")
       \/ At(t, "write", "r") \/ At(t, "read", "w")
    /\ Return(t, EPERM)
    /\ UNCHANGED << vars, offset, length, typed, taken, buffer, seen >>

\* File::read and File::write: the position is advanced (axfs, which may also
\* write less than it was asked to, or fail).
FileRead(t) ==
    /\ At(t, "read", "file")
    /\ LET n == io[t].obj[2]
           k == IF offset[n] < length THEN Least(Head(io[t].iovs), length - offset[n]) ELSE 0
       IN offset' = [offset EXCEPT ![n] = @ + k] /\ Moved(t, k)
    /\ UNCHANGED << vars, length, typed, taken, buffer, seen >>

FileWrite(t) ==
    /\ At(t, "write", "file")
    /\ \E k \in 0 .. Head(io[t].iovs) :
          LET n == io[t].obj[2]
              end == offset[n] + k
          IN /\ end <= MaxLen
             /\ offset' = [offset EXCEPT ![n] = end]
             /\ length' = IF end > length THEN end ELSE length
             /\ Moved(t, k)
    /\ UNCHANGED << vars, typed, taken, buffer, seen >>

FileFails(t) ==
    /\ (At(t, "read", "file") \/ At(t, "write", "file")) /\ Return(t, EIO)
    /\ UNCHANGED << vars, offset, length, typed, taken, buffer, seen >>

\* Some descriptor or call in progress keeps the object open.
Open(o) ==
    \/ \E n \in Tids, fd \in Fds : tables[n][fd] = o
    \/ \E t \in Tids : held[t] = o \/ (io[t].op \in {"read", "write", "store"} /\ io[t].obj = o)

\* Pipe::closed, of the pipe that t is at: the other end is gone.
closed(t, other) == ~Open(<< other, io[t].obj[2] >>)

\* Pipe::read: bytes that are there, or none once the write end is closed.
PipeRead(t) ==
    /\ At(t, "read", "r")
    /\ \E k \in 0 .. Head(io[t].iovs) :
          /\ k = 0 => Head(io[t].iovs) = 0 \/ closed(t, "w")
          /\ Moved(t, k)
    /\ UNCHANGED << vars, offset, length, typed, taken, buffer, seen >>

\* Pipe::write fails on a pipe that nobody can read; otherwise it goes on until
\* all is written, or the read end is closed.
PipeEnter(t) ==
    /\ At(t, "write", "w")
    /\ IF closed(t, "r") THEN Return(t, EPIPE) ELSE io' = [io EXCEPT ![t].op = "store"]
    /\ UNCHANGED << vars, offset, length, typed, taken, buffer, seen >>

PipeWrite(t) ==
    /\ At(t, "store", "w")
    /\ \E k \in 0 .. Head(io[t].iovs) :
          /\ k < Head(io[t].iovs) => closed(t, "r")
          /\ Moved(t, k)
    /\ UNCHANGED << vars, offset, length, typed, taken, buffer, seen >>

StdoutWrite(t) ==
    /\ At(t, "write", "stdout")
    /\ Moved(t, Head(io[t].iovs))
    /\ UNCHANGED << vars, offset, length, typed, taken, buffer, seen >>

\* Mutant: the loop asks the console and forgets what is buffered.
read_blocked_unbuffered(t) ==
    /\ At(t, "read", "stdin")
    /\ LET r == BufReader_read(Head(io[t].iovs)) IN
       /\ Head(io[t].iovs) = 0 \/ typed > taken
       /\ buffer' = r.keep /\ taken' = taken + r.more /\ seen' = seen \o r.out
       /\ Moved(t, Len(r.out))
    /\ UNCHANGED << vars, offset, length, typed >>

\* Stdin::read_blocked: the loop ends, and the call has an effect, with the
\* first locked read that gives a byte; an empty buffer ends it at once.
read_blocked(t) ==
    /\ At(t, "read", "stdin")
    /\ LET r == BufReader_read(Head(io[t].iovs)) IN
       /\ Head(io[t].iovs) = 0 \/ r.out # << >>
       /\ buffer' = r.keep /\ taken' = taken + r.more /\ seen' = seen \o r.out
       /\ Moved(t, Len(r.out))
    /\ UNCHANGED << vars, offset, length, typed >>

\* sys_lseek of an open file; a negative position is an error (or, counted from
\* the start, one beyond MaxLen), and so is any other object (File::from_fd).
sys_lseek(t, fd, whence, off) ==
    LET o == tables[tab[t]][fd]
        p == CASE whence = 0 -> off [] whence = 1 -> offset[o[2]] + off [] whence = 2 -> length + off
    IN /\ "seek" \in calls /\ Running(t, "user") /\ io[t] = NoIo
       /\ o[1] = "file" /\ p \in 0 .. MaxLen
       /\ offset' = [offset EXCEPT ![o[2]] = p]
       /\ UNCHANGED << vars, io, length, typed, taken, buffer, seen >>
-----------------------------------------------------------------------------
IoStep(t) ==
    \/ IoLookup(t) \/ DirRefuses(t) \/ WayRefuses(t) \/ FileRead(t) \/ FileWrite(t)
    \/ FileFails(t) \/ PipeEnter(t) \/ StdoutWrite(t) \/ read_blocked(t) \/ IoReturn(t)

\* Transfers that wait for the other end of a pipe.
PipeStep(t) == PipeRead(t) \/ PipeWrite(t)

IoCall(t) ==
    \/ \E fd \in Fds, s \in Iovecs :
           \/ sys_readv(t, fd, s) \/ sys_writev(t, fd, s)
           \/ s # << >> /\ (sys_read(t, fd, Head(s)) \/ sys_write(t, fd, Head(s)))
    \/ \E fd \in Fds, w \in 0 .. 2, off \in -1 .. 1 : sys_lseek(t, fd, w, off)

IoNext ==
    \/ Type
    \/ \E t \in Tids : \/ io[t] = NoIo /\ (KernelStep(t) \/ UserCall(t)) /\ UNCHANGED iovars
                       \/ IoStep(t) \/ PipeStep(t) \/ IoCall(t)

IoSpec == IoInit /\ [][IoNext]_allvars

\* A thread in the kernel runs on, unless it waits at a pipe.
IoFairSpec ==
    /\ IoSpec
    /\ \A t \in Tids : WF_allvars(KernelStep(t) /\ UNCHANGED iovars) /\ WF_allvars(IoStep(t))
-----------------------------------------------------------------------------
(* Properties *)

\* However many threads read standard input, with whatever buffers, and share
\* its BufReader: what was read from the console has been handed out or is
\* buffered, every byte once and in order, a carriage return as a line feed.
InputExact ==
    seen \o buffer = [i \in 1 .. taken |-> << i, IF Input[i] = "CR" THEN "LF" ELSE Input[i] >>]

Unread == typed > taken \/ buffer # << >>

\* A read or write that succeeds returns the number of bytes it moved, which is
\* 0 for a read of standard input only when no byte was asked for.  One that
\* fails after moving bytes, and so hides them, met a bad buffer, a descriptor
\* that another thread closed or replaced between two buffers, an error of the
\* file system, or a pipe whose last reader went away between two buffers.
ResultHonest ==
    \A t \in Tids : io[t].op = "done" =>
        LET c == io[t] IN
        /\ c.ret >= 0 => c.ret = c.moved
        /\ c.ret = 0 /\ c.obj = Stdin => Head(c.iovs) = 0
        /\ c.ret < 0 /\ c.moved > 0 =>
               \/ Head(c.iovs) = Bad \/ c.obj # c.first
               \/ c.ret = EIO /\ c.obj[1] = "file"
               \/ c.ret = EPIPE /\ c.obj[1] = "w"

\* A thread that waits for input gets some of what is typed or another reader
\* does: input does not stay unread in the console or in the BufReader while a
\* thread waits for it.
InputRead ==
    \A t \in Tids : At(t, "read", "stdin") /\ Unread ~> ~At(t, "read", "stdin") \/ ~Unread

\* "Block until at least one byte is read": a call that has read something
\* does not wait for more.
ReadvReturnsWhatThereIs ==
    \A t \in Tids : At(t, "read", "stdin") /\ io[t].ret > 0 => Unread
=============================================================================
