---------------------------- MODULE MCGetDents ----------------------------
(* Instances of GetDents for model checking. *)
EXTENDS GetDents
=============================================================================
