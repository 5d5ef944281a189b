--------------------------- MODULE MCProcessLife ---------------------------
(* Instances of ProcessLife for model checking. *)
EXTENDS ProcessLife

\* Wait for any kind of child; look for a zombie of the usual kind and leave it.
Waits == {{"WALL"}, {"WNOHANG", "WNOWAIT"}}
Programs == {{"thread", "fork", "exit", "wait"}, {"thread", "kill", "tkill"}, {"fork", "kill"},
             {"thread", "kill", "mask", "block"}, {"clone", "parent", "exit"}}
Kills == {1, 0, -1}
Blocking == {{}}
=============================================================================
