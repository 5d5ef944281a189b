------------------------------- MODULE MCPipe -------------------------------
(* An instance of Pipe for TLC: a ring of two bytes, and callers' buffers   *)
(* that are empty, exactly as long as the ring and longer.                  *)
EXTENDS Pipe

MCBufs == {<<>>, <<0, 1>>, <<1, 0, 1>>}
MCReadLens == {1, 3}
=============================================================================
