------------------------------ MODULE MCMount ------------------------------
(* Instances of Mount for model checking. *)
EXTENDS Mount

CONSTANTS t1, t2

\* A directory, one inside it, one whose name extends its name, and the first
\* with a trailing "/".
A == << "/", "a" >>
AinA == << "/", "a", "/", "a" >>
AB == << "/", "a", "b" >>
ASlash == << "/", "a", "/" >>

AllPaths == {A, AinA, AB, ASlash}
=============================================================================
