------------------------------ MODULE TimeStat ------------------------------
(***************************************************************************)
(* The CPU time accounting of one task: TimeStat (core/src/time.rs), the   *)
(* calls of handle_syscall that drive it (src/syscall.rs), and the calls   *)
(* about time: sys_times, sys_clock_gettime (api/src/imp/time.rs) and      *)
(* sys_nanosleep (api/src/imp/task/schedule.rs), with the conversions of   *)
(* api/src/time.rs.                                                        *)
(*                                                                         *)
(* now is the monotonic clock in nanoseconds, and the wall clock is ahead  *)
(* of it by EPOCH_OFFSET (external, axhal: nothing sets it later).         *)
(* user_time and kernel_time are the times the task has really spent in    *)
(* user mode and in system calls; the program does not have them.  Nothing *)
(* in the repository calls set_timer, reset, switch_from_old_task or       *)
(* switch_to_new_task, so timer_type stays NONE.                           *)
(***************************************************************************)
EXTENDS Integers

CONSTANTS NANOS_PER_SEC, NANOS_PER_MICROS,
          EPOCH_OFFSET, \* the wall clock when the monotonic one is zero
          ClockIds, \* the clock_id arguments of sys_clock_gettime
          Requests, \* seconds and nanoseconds asked of sys_nanosleep
          Start,  \* values of the clock when the task first runs
          Ticks,  \* lengths of the intervals between two events
          Clock   \* the clock is followed up to this value (bound)

ASSUME TimeAssumption ==
    /\ Start \subseteq Nat /\ Ticks \subseteq Nat /\ Clock \in Nat
    /\ NANOS_PER_SEC \in Nat \ {0} /\ NANOS_PER_MICROS \in Nat \ {0}
    /\ Requests \subseteq Int \X Int /\ EPOCH_OFFSET \in Nat

VARIABLES now, mode, running, utime_ns, stime_ns, user_timestamp,
          kernel_timestamp, user_time, kernel_time,
          tms,    \* what sys_times wrote last
          ts,     \* what sys_clock_gettime wrote last, for each clock it knows
          tv,     \* what sys_gettimeofday wrote last
          nap     \* the sys_nanosleep in progress, or NoNap
vars == << now, mode, running, utime_ns, stime_ns, user_timestamp,
           kernel_timestamp, user_time, kernel_time, tms, ts, tv, nap >>
out == << tms, ts, tv, nap >>
stat == << utime_ns, stime_ns, user_timestamp, kernel_timestamp >>

\* The clocks of sys_clock_gettime.
Clocks == {"CLOCK_REALTIME", "CLOCK_MONOTONIC"}

NoNap == [dur |-> 0, from |-> 0, result |-> "none", rem |-> << 0, 0 >>]

\* TimeStat::new(); the task enters user space some time after boot.
Init ==
    /\ now \in Start
    /\ mode = "user" /\ running = TRUE
    /\ utime_ns = 0 /\ stime_ns = 0
    /\ user_timestamp = 0 /\ kernel_timestamp = 0
    /\ user_time = 0 /\ kernel_time = 0
    /\ tms = << 0, 0 >> /\ ts = [c \in Clocks |-> << 0, 0 >>] /\ tv = << 0, 0 >> /\ nap = NoNap

\* Time passes.
Tick(d) ==
    /\ now + d <= Clock
    /\ now' = now + d
    /\ IF running /\ mode = "user"
       THEN user_time' = user_time + d ELSE UNCHANGED user_time
    /\ IF mode # "user"
       THEN kernel_time' = kernel_time + d ELSE UNCHANGED kernel_time
    /\ UNCHANGED << mode, running, stat, out >>

\* The scheduler takes the CPU from a task in user mode, or gives it back.
Preempt ==
    /\ mode = "user"
    /\ running' = ~running
    /\ UNCHANGED << now, mode, stat, user_time, kernel_time, out >>

switch_into_kernel_mode(t) ==
    /\ utime_ns' = utime_ns + (t - kernel_timestamp)
    /\ kernel_timestamp' = t
    /\ UNCHANGED << stime_ns, user_timestamp >>

\* Mutant: the interval is measured from the last return to user mode.
switch_into_user_mode_stale(t) ==
    /\ stime_ns' = stime_ns + (t - user_timestamp)
    /\ user_timestamp' = t
    /\ UNCHANGED << utime_ns, kernel_timestamp >>

\* Mutant: += for =.
switch_into_user_mode_added(t) ==
    /\ stime_ns' = stime_ns + (t - kernel_timestamp)
    /\ user_timestamp' = user_timestamp + t
    /\ UNCHANGED << utime_ns, kernel_timestamp >>

switch_into_user_mode(t) ==
    /\ stime_ns' = stime_ns + (t - kernel_timestamp)
    /\ user_timestamp' = t
    /\ UNCHANGED << utime_ns, kernel_timestamp >>

\* handle_syscall: time_stat_from_user_to_kernel, the call,
\* time_stat_from_kernel_to_user.
EnterSyscall ==
    /\ mode = "user" /\ running
    /\ mode' = "kernel"
    /\ switch_into_kernel_mode(now)
    /\ UNCHANGED << now, running, user_time, kernel_time, out >>

LeaveSyscall ==
    /\ mode \in {"kernel", "return"}
    /\ mode' = "user"
    /\ switch_into_user_mode(now)
    /\ nap' = NoNap
    /\ UNCHANGED << now, running, user_time, kernel_time, tms, ts, tv >>
-----------------------------------------------------------------------------
(* Calls about time.  A TimeValue is a number of nanoseconds. *)

\* Mutant: the seconds are rounded up.
from_time_value_up(t) ==
    << (t + NANOS_PER_SEC - 1) \div NANOS_PER_SEC, t % NANOS_PER_SEC >>

\* timespec::from_time_value and to_time_value, timeval::from_time_value.
from_time_value(t) == << t \div NANOS_PER_SEC, t % NANOS_PER_SEC >>
to_time_value(spec) == spec[1] * NANOS_PER_SEC + spec[2]
timeval(t) == << t \div NANOS_PER_SEC, (t % NANOS_PER_SEC) \div NANOS_PER_MICROS >>

wall_time == now + EPOCH_OFFSET
clock_time(clock_id) == IF clock_id = "CLOCK_REALTIME" THEN wall_time ELSE now

\* time_stat_output, of which sys_times uses the microseconds.
time_stat_output == << utime_ns \div NANOS_PER_MICROS, stime_ns \div NANOS_PER_MICROS >>

Serve ==
    /\ mode = "kernel" /\ mode' = "return"
    /\ UNCHANGED << now, running, stat, user_time, kernel_time >>

sys_times == Serve /\ tms' = time_stat_output /\ UNCHANGED << ts, tv, nap >>
sys_gettimeofday == Serve /\ tv' = timeval(wall_time) /\ UNCHANGED << tms, ts, nap >>

\* Any other clock is EINVAL, and nothing is written.
sys_clock_gettime(clock_id) ==
    /\ Serve
    /\ ts' = IF clock_id \in Clocks
             THEN [ts EXCEPT ![clock_id] = from_time_value(clock_time(clock_id))]
             ELSE ts
    /\ UNCHANGED << tms, tv, nap >>

\* sys_nanosleep up to axtask::sleep.
NapBegin(req) ==
    LET ok == req[2] \in 0 .. NANOS_PER_SEC - 1 /\ req[1] >= 0 IN
    /\ mode = "kernel" /\ mode' = IF ok THEN "sleep" ELSE "return"
    /\ nap' = IF ok THEN [NoNap EXCEPT !.dur = to_time_value(req), !.from = now]
              ELSE [NoNap EXCEPT !.result = "EINVAL"]
    /\ UNCHANGED << now, running, stat, user_time, kernel_time, tms, ts, tv >>

\* Mutant: the operands of checked_sub are swapped.
NapEnd_swapped ==
    LET actual == now - nap.from IN
    /\ mode = "sleep" /\ actual >= nap.dur
    /\ mode' = "return"
    /\ nap' = IF nap.dur <= actual
              THEN [nap EXCEPT !.result = "EINTR", !.rem = from_time_value(actual - nap.dur)]
              ELSE [nap EXCEPT !.result = "OK"]
    /\ UNCHANGED << now, running, stat, user_time, kernel_time, tms, ts, tv >>

\* axtask::sleep (external) lasts at least dur; dur.checked_sub(actual) decides.
NapEnd ==
    LET actual == now - nap.from IN
    /\ mode = "sleep" /\ actual >= nap.dur
    /\ mode' = "return"
    /\ nap' = IF actual <= nap.dur
              THEN [nap EXCEPT !.result = "EINTR", !.rem = from_time_value(nap.dur - actual)]
              ELSE [nap EXCEPT !.result = "OK"]
    /\ UNCHANGED << now, running, stat, user_time, kernel_time, tms, ts, tv >>

Next ==
    \/ Preempt \/ EnterSyscall \/ LeaveSyscall \/ sys_times \/ sys_gettimeofday
    \/ NapEnd
    \/ \E clock_id \in ClockIds : sys_clock_gettime(clock_id)
    \/ \E d \in Ticks : Tick(d)
    \/ \E req \in Requests : NapBegin(req)
Spec == Init /\ [][Next]_vars
-----------------------------------------------------------------------------
(* Properties *)

\* All times are natural numbers, as the usize and u64 fields of the code.
TypeOK ==
    /\ now \in Nat /\ mode \in {"user", "kernel", "sleep", "return"} /\ running \in BOOLEAN
    /\ utime_ns \in Nat /\ stime_ns \in Nat
    /\ user_timestamp \in Nat /\ kernel_timestamp \in Nat
    /\ user_time \in Nat /\ kernel_time \in Nat
    /\ tms \in Nat \X Nat /\ ts \in [Clocks -> Nat \X Nat] /\ tv \in Nat \X Nat
    /\ nap \in [dur : Nat, from : Nat, result : {"none", "OK", "EINTR", "EINVAL"}, rem : Nat \X Nat]

\* The subtractions of usize values never underflow: the timestamps are never
\* ahead of the clock, and in a call the last one taken is kernel_timestamp.
NoUnderflow ==
    /\ TypeOK
    /\ kernel_timestamp <= now /\ user_timestamp <= now /\ nap.from <= now
    /\ mode # "user" => user_timestamp <= kernel_timestamp

\* tms_stime of sys_times is the time spent in the task's earlier system
\* calls, to the nanosecond, however the task was preempted in between; during
\* a call stime_ns lacks what that call has taken so far.
SystemTimeExact ==
    IF mode = "user" THEN stime_ns = kernel_time
    ELSE stime_ns + (now - kernel_timestamp) = kernel_time

\* sys_nanosleep has slept at least as long as it was asked to whatever it
\* returns, and never reports time left: EINTR means the sleep ended on the
\* nanosecond, with a remainder of zero.
SleepsEnough ==
    mode = "return" /\ nap.result \in {"OK", "EINTR"} =>
        /\ now - nap.from >= nap.dur
        /\ to_time_value(nap.rem) = 0

Before(a, b) == a[1] < b[1] \/ (a[1] = b[1] /\ a[2] <= b[2])

\* A timespec in the unit of a timeval.
micros(spec) == << spec[1], spec[2] \div NANOS_PER_MICROS >>

\* A step in which no report of the time goes back behind an earlier one.
Forward ==
    /\ \A c \in Clocks : Before(ts[c], ts'[c])
    /\ Before(tv, tv') /\ tms'[1] >= tms[1] /\ tms'[2] >= tms[2]
    /\ tv' # tv => Before(micros(ts["CLOCK_REALTIME"]), tv')
    /\ ts'["CLOCK_REALTIME"] # ts["CLOCK_REALTIME"] =>
           Before(tv, micros(ts'["CLOCK_REALTIME"]))

\* Time does not run backwards for a program, whatever is slept and preempted
\* in between: successive results of sys_clock_gettime for one clock and of
\* sys_gettimeofday are in order as pairs, those of sys_times never shrink,
\* and sys_gettimeofday and CLOCK_REALTIME, read in turn, never contradict
\* each other.
ReportsGrow == [][Forward]_vars

\* A sleep that has lasted as long as asked is a success.
SleepSucceeds == nap.result # "EINTR"

\* What sys_times reports as user time is never more than the time the task
\* has spent in user mode.
UserTimeBounded == utime_ns <= user_time
=============================================================================
