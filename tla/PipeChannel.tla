---------------------------- MODULE PipeChannel ----------------------------
(* What a pipe promises, whatever its buffer looks like: a bounded first-in *)
(* first-out queue of bytes between two ends.  Bytes come out in the order  *)
(* they went in, each exactly once; a reader is told "end of file" only     *)
(* when the queue is empty and nobody can write any more, and a writer is   *)
(* told "broken pipe" only when nobody can read any more.                   *)
EXTENDS Naturals, Sequences

CONSTANTS Threads, Bytes, Capacity

VARIABLES
  q,        \* the bytes in the channel, oldest first
  open,     \* the ends that some descriptor or running call still holds
  got,      \* got[t]: the bytes t's current or last read call has received
  told      \* told[t]: the last negative answer t was given

chanVars == <<q, open, got, told>>

Init ==
  /\ q = <<>>
  /\ open = {"read", "write"}
  /\ got = [t \in Threads |-> <<>>]
  /\ told = [t \in Threads |-> "none"]

\* A new call forgets the answer of the previous one.
Begin(t) ==
  /\ got' = [got EXCEPT ![t] = <<>>]
  /\ told' = [told EXCEPT ![t] = "none"]
  /\ UNCHANGED <<q, open>>

Put(b) ==
  /\ "write" \in open
  /\ Len(q) < Capacity
  /\ q' = Append(q, b)
  /\ UNCHANGED <<open, got, told>>

\* A call may be the last holder of its end, and then closes it by returning.
CloseWith(e) == open' \in {open, open \ {e}}

Get(t) ==
  /\ "read" \in open
  /\ q # <<>>
  /\ got' = [got EXCEPT ![t] = Append(@, Head(q))]
  /\ q' = Tail(q)
  /\ CloseWith("read")
  /\ UNCHANGED told

Eof(t) ==
  /\ q = <<>>
  /\ "write" \notin open
  /\ told' = [told EXCEPT ![t] = "eof"]
  /\ CloseWith("read")
  /\ UNCHANGED <<q, got>>

BrokenPipe(t) ==
  /\ "read" \notin open
  /\ told' = [told EXCEPT ![t] = "epipe"]
  /\ CloseWith("write")
  /\ UNCHANGED <<q, got>>

\* The last descriptor or the last call holding an end goes away for good.
Close(e) ==
  /\ e \in open
  /\ open' = open \ {e}
  /\ UNCHANGED <<q, got, told>>

Next ==
  \/ \E b \in Bytes : Put(b)
  \/ \E t \in Threads : Begin(t) \/ Get(t) \/ Eof(t) \/ BrokenPipe(t)
  \/ \E e \in {"read", "write"} : Close(e)

Spec == Init /\ [][Next]_chanVars
=============================================================================
