---------------------------- MODULE MCTimeStat ----------------------------
(* Instances of TimeStat for model checking. *)
EXTENDS TimeStat

\* Valid requests, and one with too many nanoseconds, one with negative seconds.
Naps == {<< 0, 0 >>, << 0, 2 >>, << 1, 1 >>, << 0, 3 >>, << -1, 0 >>}
=============================================================================
