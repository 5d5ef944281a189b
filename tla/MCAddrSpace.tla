---------------------------- MODULE MCAddrSpace ----------------------------
(* Instances of AddrSpace for model checking.  Pages of two bytes: 1 is the *)
(* program, 2 and 3 the heap, 4 and 5 are free, 6 is the stack, 7 the       *)
(* signal trampoline.                                                       *)
EXTENDS AddrSpace

CONSTANTS p1, p2

\* A hint inside the heap, with and without a file that cannot be read; a fixed
\* unaligned range of two pages; a fixed large page with such a file.
M(addr, length, fixed, pages, badFile) ==
    [addr |-> addr, length |-> length, fixed |-> fixed, pages |-> pages, badFile |-> badFile]
Mmaps == {M(4, 1, FALSE, 1, FALSE), M(4, 1, FALSE, 1, TRUE), M(9, 2, TRUE, 1, FALSE), M(9, 1, TRUE, 2, TRUE)}
Unmaps == {<< 9, 2 >>, << 10, 1 >>}

\* A program, a script of it, a script that names itself, a file that is none.
MCFiles == {"prog", "script", "loop", "text"}
MCKind == [f \in MCFiles |-> CASE f = "prog" -> "elf" [] f = "script" -> "prog" [] f = "loop" -> "loop"
                               [] f = "text" -> "invalid"]

\* argv[0] is the path, as shells and exec wrappers do; or it is another file.
SameArgs == {<< f, f >> : f \in MCFiles}
AnyArgs == MCFiles \X MCFiles
=============================================================================
