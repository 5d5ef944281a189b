------------------------------ MODULE MCFileIo ------------------------------
(* Instances of FileIo for model checking. *)
EXTENDS FileIo

Unmapped == -1
Keys == << "CR", "x" >>
Buffers == {<< 0, 1, 1 >>, << 2, Unmapped >>}
Programs == {{"close", "rw", "vec", "type", "thread"}, {"open", "close", "rw", "vec", "seek"},
             {"pipe2", "close", "vec", "thread"},
             {"open", "close", "dup", "dup2", "pipe2", "thread", "files", "copy", "exit"}}
ValidTargets == 0 .. AX_FILE_LIMIT - 1
AnyTargets == 0 .. AX_FILE_LIMIT
=============================================================================
