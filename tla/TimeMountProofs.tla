-------------------------- MODULE TimeMountProofs --------------------------
(***************************************************************************)
(* What TimeStat accounts, for every clock and every pattern of system     *)
(* calls and preemptions, and that the times a program reads are in order. *)
(* Then, for any paths and number of threads, that umount2 takes what is   *)
(* mounted at its target and nothing else (module Mount).                  *)
(***************************************************************************)
EXTENDS TimeStat, Mount, WellFoundedInduction, TLAPS

\* A finished sleep has lasted long enough, and no remainder is ever written.
NapInv ==
    /\ nap.rem = << 0, 0 >>
    /\ nap.result \in {"OK", "EINTR"} => mode = "return" /\ now - nap.from >= nap.dur

\* The invariants the runs check, with NapInv together inductive.
IInv == NoUnderflow /\ SystemTimeExact /\ NapInv

LEMMA NapTyped == NoNap \in [dur : Nat, from : Nat,
                            result : {"none", "OK", "EINTR", "EINVAL"}, rem : Nat \X Nat]
  BY Zenon DEF NoNap

LEMMA InitIInv == Init => IInv
  BY TimeAssumption, NapTyped
  DEF Init, IInv, TypeOK, NoUnderflow, SystemTimeExact, NapInv, NoNap

\* The conversions of a duration are pairs of natural numbers, and zero is zero.
LEMMA Converted ==
    ASSUME NEW t \in Nat
    PROVE  /\ from_time_value(t) \in Nat \X Nat
           /\ timeval(t) \in Nat \X Nat
           /\ t \div NANOS_PER_MICROS \in Nat
           /\ t = 0 => from_time_value(t) = << 0, 0 >>
<1>1. t \div NANOS_PER_SEC \in Nat /\ t % NANOS_PER_SEC \in Nat
    BY TimeAssumption
<1>2. \A n \in Nat : n \div NANOS_PER_MICROS \in Nat
    BY TimeAssumption
<1>3. t = 0 => t \div NANOS_PER_SEC = 0 /\ t % NANOS_PER_SEC = 0
    BY TimeAssumption
<1>4. QED
    BY Zenon, <1>1, <1>2, <1>3 DEF from_time_value, timeval

\* A valid request of sys_nanosleep is a natural number of nanoseconds.
LEMMA Duration ==
    ASSUME NEW req \in Requests, req[1] >= 0, req[2] \in 0 .. NANOS_PER_SEC - 1
    PROVE  to_time_value(req) \in Nat
<1>1. req[1] \in Nat /\ req[2] \in Nat /\ NANOS_PER_SEC \in Nat
    BY TimeAssumption
<1>2. req[1] * NANOS_PER_SEC \in Nat
    BY <1>1
<1>3. QED
    BY <1>1, <1>2 DEF to_time_value

\* Every step keeps the inductive invariant.
LEMMA NextIInv == IInv /\ [Next]_vars => IInv'
<1> SUFFICES ASSUME IInv, [Next]_vars PROVE IInv'
    BY Zenon
<1> USE DEF IInv, TypeOK, NoUnderflow, SystemTimeExact, NapInv
<1>1. CASE Preempt
    BY Zenon, <1>1 DEF Preempt, stat, out
<1>2. CASE EnterSyscall
    BY <1>2 DEF EnterSyscall, switch_into_kernel_mode, out
<1>3. CASE LeaveSyscall
  <2>1. nap'.result = "none" /\ nap'.rem = << 0, 0 >> /\ nap' = NoNap /\ nap'.from = 0
      BY Zenon, <1>3 DEF LeaveSyscall, NoNap
  <2>2. QED
      BY <1>3, <2>1, NapTyped DEF LeaveSyscall, switch_into_user_mode
<1>4. ASSUME NEW d \in Ticks, Tick(d) PROVE IInv'
  <2>1. d \in Nat
      BY Zenon, TimeAssumption
  <2>2. CASE mode = "user"
      BY <1>4, <2>1, <2>2 DEF Tick, stat, out
  <2>3. CASE mode # "user"
      BY <1>4, <2>1, <2>3 DEF Tick, stat, out
  <2>4. QED
      BY Zenon, <2>2, <2>3
<1>5. CASE sys_times
    BY Zenon, <1>5, Converted DEF sys_times, Serve, stat, time_stat_output
<1>6. ASSUME NEW c \in ClockIds, sys_clock_gettime(c) PROVE IInv'
  <2>1. from_time_value(clock_time(c)) \in Nat \X Nat
    <3>1. clock_time(c) \in Nat
        BY TimeAssumption DEF clock_time, wall_time
    <3>2. QED
        BY Zenon, <3>1, Converted
  <2>2. ts' \in [Clocks -> Nat \X Nat]
      BY Zenon, <1>6, <2>1 DEF sys_clock_gettime
  <2>3. QED
      BY Zenon, <1>6, <2>2 DEF sys_clock_gettime, Serve, stat
<1>7. CASE sys_gettimeofday
  <2>1. wall_time \in Nat
      BY TimeAssumption DEF wall_time
  <2>2. QED
      BY Zenon, <1>7, <2>1, Converted DEF sys_gettimeofday, Serve, stat
<1>8. ASSUME NEW req \in Requests, NapBegin(req) PROVE IInv'
  <2> DEFINE ok == req[2] \in 0 .. NANOS_PER_SEC - 1 /\ req[1] >= 0
  <2>1. CASE ok
    <3>1. nap' = [NoNap EXCEPT !.dur = to_time_value(req), !.from = now]
        BY Zenon, <1>8, <2>1 DEF NapBegin
    <3>2. nap'.result = "none" /\ nap'.rem = << 0, 0 >> /\ nap'.from = now
        BY Zenon, <3>1 DEF NoNap
    <3>3. nap' \in [dur : Nat, from : Nat,
                   result : {"none", "OK", "EINTR", "EINVAL"}, rem : Nat \X Nat]
        BY Zenon, <3>1, <2>1, Duration, NapTyped
    <3>4. QED
        BY <1>8, <2>1, <3>2, <3>3 DEF NapBegin, stat
  <2>2. CASE ~ok
    <3>1. nap' = [NoNap EXCEPT !.result = "EINVAL"] /\ mode' = "return"
        BY Zenon, <1>8, <2>2 DEF NapBegin
    <3>2. nap'.result = "EINVAL" /\ nap'.rem = << 0, 0 >> /\ nap'.from = 0
        BY Zenon, <3>1 DEF NoNap
    <3>3. nap' \in [dur : Nat, from : Nat,
                   result : {"none", "OK", "EINTR", "EINVAL"}, rem : Nat \X Nat]
        BY Zenon, <3>1, NapTyped
    <3>4. QED
        BY <1>8, <3>1, <3>2, <3>3 DEF NapBegin, stat
  <2>3. QED
      BY Zenon, <2>1, <2>2
<1>9. CASE NapEnd
  <2>1. now - nap.from >= nap.dur /\ mode = "sleep" /\ mode' = "return"
      BY Zenon, <1>9 DEF NapEnd
  <2>2. \/ nap' = [nap EXCEPT !.result = "EINTR", !.rem = from_time_value(0)]
        \/ nap' = [nap EXCEPT !.result = "OK"]
    <3>1. now - nap.from <= nap.dur => nap.dur - (now - nap.from) = 0
        BY <2>1
    <3>2. QED
        BY Zenon, <1>9, <3>1 DEF NapEnd
  <2>3. from_time_value(0) = << 0, 0 >>
      BY Zenon, Converted
  <2>4. /\ nap' \in [dur : Nat, from : Nat,
                     result : {"none", "OK", "EINTR", "EINVAL"}, rem : Nat \X Nat]
        /\ nap'.rem = << 0, 0 >> /\ nap'.from = nap.from /\ nap'.dur = nap.dur
      BY Zenon, <2>2, <2>3
  <2>5. QED
      BY Zenon, <1>9, <2>1, <2>4 DEF NapEnd, stat
<1>10. CASE UNCHANGED vars
    BY Zenon, <1>10 DEF vars
<1>11. QED
    BY Zenon, <1>1, <1>2, <1>3, <1>4, <1>5, <1>6, <1>7, <1>8, <1>9, <1>10 DEF Next

\* Every reachable state of the accounting satisfies the inductive invariant.
THEOREM Accounting == Spec => []IInv
  BY InitIInv, NextIInv, PTL DEF Spec

\* handle_syscall's two hooks never subtract a later time from an earlier one.
THEOREM NeverUnderflows == Spec => []NoUnderflow
<1>1. IInv => NoUnderflow
    BY Zenon DEF IInv
<1>2. QED
    BY <1>1, Accounting, PTL

\* The system time that sys_times reports is the time spent in system calls.
THEOREM SystemTime == Spec => []SystemTimeExact
<1>1. IInv => SystemTimeExact
    BY Zenon DEF IInv
<1>2. QED
    BY <1>1, Accounting, PTL

\* sys_nanosleep never returns early and never reports time left.
THEOREM SleepEnough == Spec => []SleepsEnough
<1>1. IInv => SleepsEnough
  <2>1. 0 * NANOS_PER_SEC + 0 = 0
      BY TimeAssumption
  <2>2. QED
      BY <2>1 DEF IInv, NapInv, SleepsEnough, to_time_value
<1>2. QED
    BY <1>1, Accounting, PTL

\* Times in order are converted to pairs in order.
LEMMA ConvertedInOrder ==
    ASSUME NEW a \in Nat, NEW b \in Nat, a <= b
    PROVE  /\ Before(from_time_value(a), from_time_value(b)) /\ Before(timeval(a), timeval(b))
           /\ a \div NANOS_PER_MICROS <= b \div NANOS_PER_MICROS
           /\ micros(from_time_value(a)) = timeval(a)
<1>1. \A n \in Nat \ {0} : \A x, y \in Nat : x <= y =>
          x \div n \in Nat /\ y \div n \in Nat /\ x \div n <= y \div n
  OBVIOUS
<1>2. \A n \in Nat \ {0} : \A x, y \in Nat : x <= y =>
          x % n \in Nat /\ y % n \in Nat /\ (x \div n = y \div n => x % n <= y % n)
  OBVIOUS
<1>3. PICK n, u : n = NANOS_PER_SEC /\ u = NANOS_PER_MICROS BY Zenon
<1>4. n \in Nat \ {0} /\ u \in Nat \ {0} BY Zenon, <1>3, TimeAssumption
<1>5. PICK qa, qb, ra, rb : qa = a \div n /\ qb = b \div n /\ ra = a % n /\ rb = b % n BY Zenon
<1>6. /\ qa \in Nat /\ qb \in Nat /\ qa <= qb /\ ra \in Nat /\ rb \in Nat BY Zenon, <1>1, <1>2, <1>4, <1>5
<1>7. qa = qb => ra <= rb BY Zenon, <1>2, <1>4, <1>5
<1>8. qa = qb => ra \div u <= rb \div u BY Zenon, <1>1, <1>4, <1>6, <1>7
<1>9. /\ from_time_value(a) = << qa, ra >> /\ from_time_value(b) = << qb, rb >>
      /\ timeval(a) = << qa, ra \div u >> /\ timeval(b) = << qb, rb \div u >>
  BY Zenon, <1>3, <1>5 DEF from_time_value, timeval
<1>10. Before(from_time_value(a), from_time_value(b)) BY <1>6, <1>7, <1>9 DEF Before
<1>11. Before(timeval(a), timeval(b)) BY <1>6, <1>8, <1>9 DEF Before
<1>12. micros(from_time_value(a)) = timeval(a) BY Zenon DEF micros, from_time_value, timeval
<1> QED BY Zenon, <1>1, <1>3, <1>4, <1>10, <1>11, <1>12

\* What a program was told is of the past: a time the clock has shown, and no
\* more than has been accounted since.
Shown ==
    /\ \A c \in Clocks : \E a \in 0 .. clock_time(c) : ts[c] = from_time_value(a)
    /\ \E a \in 0 .. wall_time : tv = timeval(a)
    /\ \E a \in 0 .. utime_ns, b \in 0 .. stime_ns :
          tms = << a \div NANOS_PER_MICROS, b \div NANOS_PER_MICROS >>

\* The clocks and the accounts only grow.
LEMMA Grows ==
    ASSUME IInv, [Next]_vars
    PROVE  /\ now \in Nat /\ utime_ns \in Nat /\ stime_ns \in Nat
           /\ now' \in Nat /\ utime_ns' \in Nat /\ stime_ns' \in Nat
           /\ now <= now' /\ utime_ns <= utime_ns' /\ stime_ns <= stime_ns'
<1>0. /\ now \in Nat /\ utime_ns \in Nat /\ stime_ns \in Nat
      /\ kernel_timestamp \in Nat /\ kernel_timestamp <= now
      /\ Ticks \subseteq Nat
  BY Zenon, TimeAssumption DEF IInv, NoUnderflow, TypeOK
<1>1. CASE EnterSyscall BY <1>0, <1>1 DEF EnterSyscall, switch_into_kernel_mode
<1>2. CASE LeaveSyscall BY <1>0, <1>2 DEF LeaveSyscall, switch_into_user_mode
<1>3. CASE \E d \in Ticks : Tick(d) BY <1>0, <1>3 DEF Tick, stat
<1>4. CASE UNCHANGED << now, utime_ns, stime_ns >> BY <1>0, <1>4
<1>5. CASE \/ sys_times \/ sys_gettimeofday \/ Preempt \/ NapEnd \/ UNCHANGED vars
           \/ (\E c \in ClockIds : sys_clock_gettime(c))
           \/ (\E req \in Requests : NapBegin(req))
  BY Zenon, <1>4, <1>5 DEF sys_times, sys_gettimeofday, sys_clock_gettime, Serve, Preempt,
                           NapEnd, NapBegin, vars, stat
<1> QED BY Zenon, <1>1, <1>2, <1>3, <1>5 DEF Next

\* A call writes the values of the clocks and of the accounts.
LEMMA Written ==
    ASSUME IInv, [Next]_vars
    PROVE  /\ \A c \in Clocks : ts'[c] = ts[c] \/ ts'[c] = from_time_value(clock_time(c))
           /\ tv' = tv \/ tv' = timeval(wall_time)
           /\ tms' = tms \/ tms' = time_stat_output
<1>0. ts \in [Clocks -> Nat \X Nat] BY Zenon DEF IInv, NoUnderflow, TypeOK
<1>1. CASE UNCHANGED << ts, tv, tms >> BY Zenon, <1>1
<1>2. CASE sys_times \/ sys_gettimeofday BY Zenon, <1>2 DEF sys_times, sys_gettimeofday
<1>3. ASSUME NEW c \in ClockIds, sys_clock_gettime(c)
      PROVE  /\ \A d \in Clocks : ts'[d] = ts[d] \/ ts'[d] = from_time_value(clock_time(d))
             /\ UNCHANGED << tv, tms >>
  BY Zenon, <1>0, <1>3 DEF sys_clock_gettime
<1>4. CASE \/ EnterSyscall \/ LeaveSyscall \/ Preempt \/ NapEnd \/ UNCHANGED vars
           \/ (\E d \in Ticks : Tick(d)) \/ (\E req \in Requests : NapBegin(req))
  BY Zenon, <1>1, <1>4 DEF EnterSyscall, LeaveSyscall, Preempt, NapEnd, NapBegin, Tick, vars, out
<1> QED BY Zenon, <1>2, <1>3, <1>4 DEF Next

\* One report that was of the past is followed by one in order with it.
LEMMA ReportKept ==
    ASSUME NEW t \in Nat, NEW u \in Nat, t <= u, NEW a \in 0 .. t
    PROVE  /\ a \in 0 .. u /\ t \in 0 .. u /\ a \in Nat /\ a <= t
           /\ Before(from_time_value(a), from_time_value(a))
           /\ Before(from_time_value(a), from_time_value(t))
           /\ Before(timeval(a), timeval(a)) /\ Before(timeval(a), timeval(t))
<1>1. /\ a \in Nat /\ a <= t /\ a <= a /\ a \in 0 .. u /\ t \in 0 .. u OBVIOUS
<1> QED BY Zenon, <1>1, ConvertedInOrder

LEMMA ShownKept ==
    ASSUME IInv, Shown, [Next]_vars
    PROVE  Shown' /\ Forward
<1>1. /\ now \in Nat /\ utime_ns \in Nat /\ stime_ns \in Nat
      /\ now' \in Nat /\ utime_ns' \in Nat /\ stime_ns' \in Nat
      /\ now <= now' /\ utime_ns <= utime_ns' /\ stime_ns <= stime_ns'
  BY Zenon, Grows
<1>2. /\ wall_time \in Nat /\ wall_time' \in Nat /\ wall_time <= wall_time'
      /\ \A c \in Clocks : /\ clock_time(c) \in Nat /\ clock_time(c)' \in Nat
                           /\ clock_time(c) <= clock_time(c)'
  <2>1. wall_time \in Nat /\ wall_time' \in Nat /\ wall_time <= wall_time'
    <3>1. EPOCH_OFFSET \in Nat BY Zenon, TimeAssumption
    <3>2. \A x, y, e \in Nat : x <= y => x + e \in Nat /\ y + e \in Nat /\ x + e <= y + e OBVIOUS
    <3> QED BY Zenon, <1>1, <3>1, <3>2 DEF wall_time
  <2>2. \A c \in Clocks : \/ clock_time(c) = wall_time /\ clock_time(c)' = wall_time'
                          \/ clock_time(c) = now /\ clock_time(c)' = now'
    BY Zenon DEF clock_time
  <2> QED BY Zenon, <1>1, <2>1, <2>2
<1>3. PICK b \in 0 .. wall_time : tv = timeval(b) BY Zenon DEF Shown
<1>4. PICK c \in 0 .. utime_ns, d \in 0 .. stime_ns :
          tms = << c \div NANOS_PER_MICROS, d \div NANOS_PER_MICROS >>
  BY Zenon DEF Shown
<1>5. \A k \in Clocks : /\ \E a \in 0 .. clock_time(k)' : ts'[k] = from_time_value(a)
                        /\ Before(ts[k], ts'[k])
  <2> TAKE k \in Clocks
  <2>1. PICK a \in 0 .. clock_time(k) : ts[k] = from_time_value(a) BY Zenon DEF Shown
  <2>2. PICK t, u : t = clock_time(k) /\ u = clock_time(k)' BY Zenon
  <2>3. /\ a \in 0 .. u /\ t \in 0 .. u
        /\ Before(from_time_value(a), from_time_value(a))
        /\ Before(from_time_value(a), from_time_value(t))
    BY Zenon, <1>2, <2>1, <2>2, ReportKept
  <2>4. ts'[k] = ts[k] \/ ts'[k] = from_time_value(t) BY Zenon, <2>2, Written
  <2> QED BY Zenon, <2>1, <2>2, <2>3, <2>4
<1>6. (\E a \in 0 .. wall_time' : tv' = timeval(a)) /\ Before(tv, tv')
  BY Zenon, <1>2, <1>3, ReportKept, Written
<1>7. PICK g \in Nat, h \in Nat :
          /\ c <= g /\ g <= utime_ns' /\ d <= h /\ h <= stime_ns'
          /\ tms' = << g \div NANOS_PER_MICROS, h \div NANOS_PER_MICROS >>
  <2>1. CASE tms' = tms BY <2>1, <1>1, <1>4
  <2>2. CASE tms' = time_stat_output BY <2>2, <1>1, <1>4 DEF time_stat_output
  <2> QED BY Zenon, <2>1, <2>2, Written
<1>8. Shown'
  <2>1. g \in 0 .. utime_ns' /\ h \in 0 .. stime_ns' BY <1>1, <1>7
  <2> QED BY Zenon, <2>1, <1>5, <1>6, <1>7 DEF Shown
<1>9. c \in Nat /\ d \in Nat BY <1>1
<1>10. tms'[1] >= tms[1] /\ tms'[2] >= tms[2]
  <2>1. /\ c \div NANOS_PER_MICROS <= g \div NANOS_PER_MICROS
        /\ d \div NANOS_PER_MICROS <= h \div NANOS_PER_MICROS
    BY Zenon, <1>7, <1>9, ConvertedInOrder
  <2>2. /\ c \div NANOS_PER_MICROS \in Int /\ g \div NANOS_PER_MICROS \in Int
        /\ d \div NANOS_PER_MICROS \in Int /\ h \div NANOS_PER_MICROS \in Int
    BY <1>7, <1>9, TimeAssumption
  <2> QED BY Zenon, <2>1, <2>2, <1>4, <1>7
<1>11. clock_time("CLOCK_REALTIME") = wall_time /\ "CLOCK_REALTIME" \in Clocks
  BY Zenon DEF clock_time, Clocks
<1>12. PICK a \in 0 .. wall_time : ts["CLOCK_REALTIME"] = from_time_value(a)
  BY Zenon, <1>11 DEF Shown
<1>13. tv' # tv => Before(micros(ts["CLOCK_REALTIME"]), tv')
  <2>1. micros(ts["CLOCK_REALTIME"]) = timeval(a) BY Zenon, <1>2, <1>12, ReportKept, ConvertedInOrder
  <2> QED BY Zenon, <2>1, <1>2, ReportKept, Written
<1>14. ts'["CLOCK_REALTIME"] # ts["CLOCK_REALTIME"] =>
           Before(tv, micros(ts'["CLOCK_REALTIME"]))
  <2>1. ts'["CLOCK_REALTIME"] # ts["CLOCK_REALTIME"] =>
            micros(ts'["CLOCK_REALTIME"]) = timeval(wall_time)
    BY Zenon, <1>2, <1>3, <1>11, ReportKept, Written, ConvertedInOrder
  <2> QED BY Zenon, <2>1, <1>2, <1>3, ReportKept
<1> QED BY Zenon, <1>5, <1>6, <1>8, <1>10, <1>13, <1>14 DEF Forward

\* Time does not run backwards in what sys_clock_gettime, for either clock,
\* sys_gettimeofday and sys_times write, and the two readings of the wall
\* clock agree, for any clock and any pattern of sleeps and preemptions.
THEOREM TimeRunsForward == Spec => ReportsGrow
<1>1. Init => Shown
  <2> SUFFICES ASSUME Init PROVE Shown BY Zenon
  <2>1. 0 \div NANOS_PER_MICROS = 0 /\ 0 \div NANOS_PER_SEC = 0 /\ 0 % NANOS_PER_SEC = 0 BY TimeAssumption
  <2>2. from_time_value(0) = << 0, 0 >> /\ timeval(0) = << 0, 0 >> BY Zenon, <2>1 DEF from_time_value, timeval
  <2>3. now \in Nat BY Zenon, TimeAssumption DEF Init
  <2>4. 0 \in 0 .. wall_time /\ \A c \in Clocks : 0 \in 0 .. clock_time(c)
    BY <2>3, TimeAssumption DEF wall_time, clock_time
  <2>5. 0 \in 0 .. utime_ns /\ 0 \in 0 .. stime_ns BY DEF Init
  <2> QED BY Zenon, <2>1, <2>2, <2>4, <2>5 DEF Init, Shown
<1>2. IInv /\ Shown /\ [Next]_vars => Shown' /\ Forward BY Zenon, ShownKept
<1> QED BY <1>1, <1>2, Accounting, PTL DEF Spec, ReportsGrow
-----------------------------------------------------------------------------
(* Mount: what Vec::retain keeps *)

NatLess == {p \in Nat \X Nat : p[1] < p[2]}

\* A set of natural numbers that is not empty has a least element.
LEMMA LeastNat == ASSUME NEW S \in SUBSET Nat, S # {}
                  PROVE  \E x \in S : \A y \in S : x =< y
<1>1. IsWellFoundedOn(NatLess, Nat)
  BY Zenon, NatLessThanWellFounded DEF NatLess, OpToRel
<1>2. PICK x \in S : \A y \in S : ~(<< y, x >> \in NatLess)
  BY Zenon, <1>1, WFMin
<1>3. \A y \in S : x =< y
  <2> SUFFICES ASSUME NEW y \in S, y < x PROVE FALSE
    OBVIOUS
  <2>1. << y, x >> \in Nat \X Nat /\ << y, x >>[1] < << y, x >>[2]
    BY Zenon
  <2> QED BY Zenon, <1>2, <2>1 DEF NatLess
<1> QED BY Zenon, <1>3

\* What retain has kept of s after looking at n places, when it had kept k before.
More(s, p, k, n) == IF n = 0 THEN << >>
                    ELSE IF s[n] = p THEN k[n - 1] ELSE Append(k[n - 1], s[n])

\* The recursion that defines kept has a solution, for a list of any length.
LEMMA KeptExists == ASSUME NEW s, NEW p, NEW m \in Nat
                    PROVE  \E k : k = [n \in 0 .. m |-> More(s, p, k, n)]
<1> DEFINE S == {i \in Nat : ~\E k : k = [n \in 0 .. i |-> More(s, p, k, n)]}
<1> SUFFICES ASSUME S # {} PROVE FALSE
  BY Zenon
<1>1. PICK x \in S : \A y \in S : x =< y
  <2>1. S \in SUBSET Nat
    BY Zenon
  <2> HIDE DEF S
  <2> QED BY Zenon, <2>1, LeastNat
<1>2. x \in Nat
  BY Zenon
<1>3. CASE x = 0
  <2> DEFINE k == [n \in 0 .. x |-> << >>]
  <2>1. \A n \in 0 .. x : n = 0
    BY <1>3
  <2>2. k = [n \in 0 .. x |-> More(s, p, k, n)]
    BY Zenon, <2>1 DEF More
  <2> QED BY Zenon, <2>2
<1>4. CASE x # 0
  <2>1. x - 1 \in Nat /\ x - 1 < x /\ ~(x =< x - 1)
    BY <1>2, <1>4
  <2>2. x - 1 \notin S
    BY Zenon, <1>1, <2>1
  <2>3. PICK k : k = [n \in 0 .. x - 1 |-> More(s, p, k, n)]
    BY Zenon, <2>1, <2>2
  <2>s. PICK k2 : k2 = [n \in 0 .. x |-> IF n = x THEN More(s, p, k, n) ELSE k[n]]
    BY Zenon
  <2>4. ASSUME NEW n \in 0 .. x PROVE k2[n] = More(s, p, k2, n)
    <3>1. CASE n = 0
      <4>1. n # x /\ n \in 0 .. x - 1
        BY <1>2, <1>4, <3>1
      <4>2. k2[n] = k[n]
        BY Zenon, <2>s, <4>1
      <4>3. k[n] = << >>
        BY Zenon, <2>3, <3>1, <4>1 DEF More
      <4> QED BY Zenon, <3>1, <4>2, <4>3 DEF More
    <3>2. CASE n # 0
      <4>1. n - 1 \in 0 .. x /\ n - 1 # x /\ (n # x => n \in 0 .. x - 1)
        BY <1>2, <3>2
      <4>2. k2[n - 1] = k[n - 1]
        BY Zenon, <2>s, <4>1
      <4>3. More(s, p, k2, n) = More(s, p, k, n)
        BY Zenon, <3>2, <4>2 DEF More
      <4>4. k2[n] = More(s, p, k, n)
        BY Zenon, <2>s, <2>3, <4>1
      <4> QED BY Zenon, <4>3, <4>4
    <3> QED BY Zenon, <3>1, <3>2
  <2>5. k2 = [n \in 0 .. x |-> More(s, p, k2, n)]
    BY Zenon, <2>s, <2>4
  <2> QED BY Zenon, <2>5
<1> QED BY Zenon, <1>3, <1>4

\* kept obeys its recursion.
LEMMA KeptStep ==
    ASSUME MOUNTED \in Seq(Paths), NEW p
    PROVE  /\ kept(p)[0] = << >>
           /\ \A n \in 1 .. Len(MOUNTED) :
                 kept(p)[n] = IF MOUNTED[n] = p THEN kept(p)[n - 1]
                              ELSE Append(kept(p)[n - 1], MOUNTED[n])
<1>1. Len(MOUNTED) \in Nat
  OBVIOUS
<1>2. kept(p) = CHOOSE k : k = [n \in 0 .. Len(MOUNTED) |-> More(MOUNTED, p, k, n)]
  BY Zenon DEF kept, More
<1>3. kept(p) = [n \in 0 .. Len(MOUNTED) |-> More(MOUNTED, p, kept(p), n)]
  BY Zenon, <1>1, <1>2, KeptExists
<1>4. \A n \in 0 .. Len(MOUNTED) : kept(p)[n] = More(MOUNTED, p, kept(p), n)
  BY Zenon, <1>3
<1>5. 0 \in 0 .. Len(MOUNTED) /\ \A n \in 1 .. Len(MOUNTED) : n \in 0 .. Len(MOUNTED) /\ n # 0
  BY <1>1
<1> QED BY Zenon, <1>4, <1>5 DEF More

\* What has been kept after n places: sequences of the paths among those places
\* other than p, of length n only if p is not there.
KeptOf(p, n) ==
    /\ kept(p)[n] \in Seq(Paths) /\ Len(kept(p)[n]) =< n
    /\ \A q : q \in Range(kept(p)[n]) <=> q # p /\ \E i \in 1 .. n : MOUNTED[i] = q
    /\ Len(kept(p)[n]) = n <=> \A i \in 1 .. n : MOUNTED[i] # p

LEMMA KeptAppend == ASSUME NEW s \in Seq(Paths), NEW x \in Paths
                    PROVE  /\ Append(s, x) \in Seq(Paths) /\ Len(Append(s, x)) = Len(s) + 1
                           /\ Range(Append(s, x)) = Range(s) \cup {x}
<1>1. /\ Append(s, x) \in Seq(Paths) /\ Len(Append(s, x)) = Len(s) + 1
      /\ \A i \in 1 .. Len(s) : Append(s, x)[i] = s[i]
      /\ Append(s, x)[Len(s) + 1] = x
  OBVIOUS
<1>2. /\ DOMAIN s = 1 .. Len(s) /\ DOMAIN Append(s, x) = 1 .. (Len(s) + 1)
      /\ 1 .. (Len(s) + 1) = (1 .. Len(s)) \cup {Len(s) + 1}
  BY <1>1
<1>3. PICK a : a = Append(s, x)
  BY Zenon
<1>4. PICK N : N = Len(s)
  BY Zenon
<1>5. /\ \A i \in 1 .. N : a[i] = s[i]
      /\ a[N + 1] = x /\ DOMAIN s = 1 .. N /\ DOMAIN a = (1 .. N) \cup {N + 1}
  BY Zenon, <1>1, <1>2, <1>3, <1>4
<1>6. Range(a) = Range(s) \cup {x}
  <2>1. ASSUME NEW y \in Range(a) PROVE y \in Range(s) \cup {x}
    BY Zenon, <1>5 DEF Range
  <2>2. ASSUME NEW y \in Range(s) \cup {x} PROVE y \in Range(a)
    BY Zenon, <1>5 DEF Range
  <2> QED BY Zenon, <2>1, <2>2
<1> QED BY Zenon, <1>1, <1>3, <1>6

\* After each place, by the least place where it would not hold.
LEMMA KeptAll == ASSUME MOUNTED \in Seq(Paths), NEW p, NEW m \in 0 .. Len(MOUNTED)
                 PROVE  KeptOf(p, m)
<1> DEFINE S == {n \in 0 .. Len(MOUNTED) : ~KeptOf(p, n)}
<1> SUFFICES ASSUME S # {} PROVE FALSE
  BY Zenon
<1>1. PICK x \in S : \A y \in S : x =< y
  <2>1. S \in SUBSET Nat
    OBVIOUS
  <2> HIDE DEF S
  <2> QED BY Zenon, <2>1, LeastNat
<1>2. x \in 0 .. Len(MOUNTED) /\ ~KeptOf(p, x) /\ x \in Nat
  OBVIOUS
<1>3. CASE x = 0
  <2>1. kept(p)[x] = << >>
    BY Zenon, <1>3, KeptStep
  <2>2. /\ << >> \in Seq(Paths) /\ Len(<< >>) = 0
        /\ \A q : q \notin Range(<< >>)
    BY DEF Range
  <2>3. 1 .. x = {}
    BY <1>3
  <2>4. PICK e : e = << >>
    BY Zenon
  <2>5. e \in Seq(Paths) /\ Len(e) = 0 /\ (\A q : q \notin Range(e)) /\ Len(e) =< x
    BY <1>3, <2>2, <2>4
  <2>6. kept(p)[x] = e
    BY Zenon, <2>1, <2>4
  <2> QED BY Zenon, <1>2, <1>3, <2>3, <2>5, <2>6 DEF KeptOf
<1>4. CASE x # 0
  <2>1. /\ x \in 1 .. Len(MOUNTED) /\ x - 1 \in 0 .. Len(MOUNTED) /\ ~(x =< x - 1)
        /\ 1 .. x = (1 .. (x - 1)) \cup {x}
    BY <1>2, <1>4
  <2>2. KeptOf(p, x - 1)
    BY Zenon, <1>1, <2>1
  <2>3. PICK k : k = kept(p)[x - 1]
    BY Zenon
  <2>4. /\ k \in Seq(Paths) /\ Len(k) =< x - 1
        /\ \A q : q \in Range(k) <=> q # p /\ \E i \in 1 .. (x - 1) : MOUNTED[i] = q
        /\ Len(k) = x - 1 <=> \A i \in 1 .. (x - 1) : MOUNTED[i] # p
    BY Zenon, <2>2, <2>3 DEF KeptOf
  <2>5. Len(k) \in Nat /\ MOUNTED[x] \in Paths
    BY <2>1, <2>4
  <2>6. kept(p)[x] = IF MOUNTED[x] = p THEN k ELSE Append(k, MOUNTED[x])
    BY Zenon, <2>1, <2>3, KeptStep
  <2>7. CASE MOUNTED[x] = p
    <3>1. Len(k) =< x /\ Len(k) # x
      BY <1>2, <2>4, <2>5
    <3>2. kept(p)[x] = k
      BY Zenon, <2>6, <2>7
    <3>3. \A q : q \in Range(k) <=> q # p /\ \E i \in 1 .. x : MOUNTED[i] = q
      BY Zenon, <2>1, <2>4, <2>7
    <3>4. ~\A i \in 1 .. x : MOUNTED[i] # p
      BY Zenon, <2>1, <2>7
    <3> QED BY Zenon, <1>2, <2>4, <3>1, <3>2, <3>3, <3>4 DEF KeptOf
  <2>8. CASE MOUNTED[x] # p
    <3>1. PICK a : a = Append(k, MOUNTED[x])
      BY Zenon
    <3>2. a \in Seq(Paths) /\ Len(a) = Len(k) + 1 /\ Range(a) = Range(k) \cup {MOUNTED[x]}
      BY Zenon, <2>4, <2>5, <3>1, KeptAppend
    <3>3. Len(a) =< x /\ (Len(a) = x <=> Len(k) = x - 1)
      BY <1>2, <2>4, <2>5, <3>2
    <3>4. kept(p)[x] = a
      BY Zenon, <2>6, <2>8, <3>1
    <3>5. \A q : q \in Range(a) <=> q # p /\ \E i \in 1 .. x : MOUNTED[i] = q
      BY Zenon, <2>1, <2>4, <2>8, <3>2
    <3>6. (\A i \in 1 .. x : MOUNTED[i] # p) <=> \A i \in 1 .. (x - 1) : MOUNTED[i] # p
      BY Zenon, <2>1, <2>8
    <3> QED BY Zenon, <1>2, <2>4, <3>2, <3>3, <3>4, <3>5, <3>6 DEF KeptOf
  <2> QED BY Zenon, <2>7, <2>8
<1> QED BY Zenon, <1>3, <1>4

\* What retain leaves of the list: all that is mounted elsewhere, and the list is
\* shorter exactly if something was mounted at p.
LEMMA Retained ==
    ASSUME MOUNTED \in Seq(Paths), NEW p
    PROVE  /\ retain(p) \in Seq(Paths)
           /\ Range(retain(p)) = Range(MOUNTED) \ {p}
           /\ Len(MOUNTED) > Len(retain(p)) <=> p \in Range(MOUNTED)
<1>1. /\ Len(MOUNTED) \in Nat /\ Len(MOUNTED) \in 0 .. Len(MOUNTED)
      /\ DOMAIN MOUNTED = 1 .. Len(MOUNTED)
  OBVIOUS
<1>2. KeptOf(p, Len(MOUNTED))
  BY Zenon, <1>1, KeptAll
<1>3. /\ retain(p) \in Seq(Paths) /\ Len(retain(p)) =< Len(MOUNTED)
      /\ \A q : q \in Range(retain(p)) <=> q # p /\ \E i \in 1 .. Len(MOUNTED) : MOUNTED[i] = q
      /\ Len(retain(p)) = Len(MOUNTED) <=> \A i \in 1 .. Len(MOUNTED) : MOUNTED[i] # p
  BY Zenon, <1>2 DEF KeptOf, retain
<1>4. \A q : q \in Range(MOUNTED) <=> \E i \in 1 .. Len(MOUNTED) : MOUNTED[i] = q
  BY Zenon, <1>1 DEF Range
<1>5. Range(retain(p)) = Range(MOUNTED) \ {p}
  BY Zenon, <1>3, <1>4
<1>6. Len(retain(p)) \in Nat
  BY <1>3
<1>7. Len(MOUNTED) > Len(retain(p)) <=> Len(retain(p)) # Len(MOUNTED)
  BY <1>1, <1>3, <1>6
<1> QED BY Zenon, <1>3, <1>4, <1>5, <1>7

\* Every call keeps the types.
LEMMA MountTypes == MountTypeOK /\ [MountNext]_mountvars => MountTypeOK'
<1> SUFFICES ASSUME MountTypeOK, [MountNext]_mountvars PROVE MountTypeOK'
  BY Zenon
<1> USE DEF MountTypeOK
<1>1. CASE UNCHANGED mountvars
  BY Zenon, <1>1 DEF mountvars
<1>2. ASSUME NEW t \in Threads, NEW p \in Paths, NEW f, MountBegin(t, p, f) PROVE MountTypeOK'
  BY Zenon, <1>2 DEF MountBegin, Goto, Return
<1>3. ASSUME NEW t \in Threads, MountExists(t) PROVE MountTypeOK'
  BY Zenon, <1>3 DEF MountExists, Goto, Return
<1>4. ASSUME NEW t \in Threads, MountCheck(t) PROVE MountTypeOK'
  BY Zenon, <1>4 DEF MountCheck, Goto, Return
<1>5. ASSUME NEW t \in Threads, MountExists2(t) PROVE MountTypeOK'
  BY Zenon, <1>5 DEF MountExists2, Goto, Return
<1>6. ASSUME NEW t \in Threads, MountPush(t) PROVE MountTypeOK'
  <2>1. MOUNTED' \in Seq(Paths)
    <3>1. mount_path[t] \in Paths
      BY Zenon
    <3> QED BY Zenon, <1>6, <3>1, KeptAppend DEF MountPush
  <2> QED BY Zenon, <1>6, <2>1 DEF MountPush, Goto, Return
<1>7. ASSUME NEW t \in Threads, NEW p \in Paths, NEW f, UmountBegin(t, p, f) PROVE MountTypeOK'
  BY Zenon, <1>7 DEF UmountBegin, Goto, Return
<1>8. ASSUME NEW t \in Threads, UmountRetain(t) PROVE MountTypeOK'
  <2>1. MOUNTED' \in Seq(Paths)
    BY Zenon, <1>8, Retained DEF UmountRetain
  <2> QED BY Zenon, <1>8, <2>1 DEF UmountRetain, Goto, Return
<1>9. ASSUME NEW t \in Threads, NEW p \in Paths, MakeDir(t, p) \/ RemoveDir(t, p)
      PROVE  MountTypeOK'
  BY Zenon, <1>9 DEF MakeDir, RemoveDir, Dirs
<1> QED BY Zenon, <1>1, <1>2, <1>3, <1>4, <1>5, <1>6, <1>7, <1>8, <1>9 DEF MountNext

\* What the return of umount_fat_fs means.
LEMMA Umounted ==
    ASSUME MountTypeOK, MountNext, NEW t \in Threads, pc[t] = "retain", pc'[t] = "user"
    PROVE  /\ Range(MOUNTED') = Range(MOUNTED) \ {mount_path[t]}
           /\ ret'[t] = "unmounted" <=> mount_path[t] \in Range(MOUNTED)
<1>1. ASSUME NEW u \in Threads, NEW l, pc' = [pc EXCEPT ![u] = l] PROVE u = t
  BY Zenon, <1>1 DEF MountTypeOK
<1>2. pc' # pc
  BY Zenon
<1>3. UmountRetain(t)
  <2>1. ASSUME NEW u \in Threads, MountExists(u) \/ MountCheck(u) \/ MountExists2(u) \/ MountPush(u)
        PROVE  FALSE
    BY Zenon, <1>1, <2>1 DEF MountExists, MountCheck, MountExists2, MountPush, Goto, Return
  <2>2. ASSUME NEW u \in Threads, NEW p, NEW f, MountBegin(u, p, f) \/ UmountBegin(u, p, f)
        PROVE  FALSE
    BY Zenon, <1>1, <2>2 DEF MountBegin, UmountBegin, Goto, Return
  <2>3. ASSUME NEW u \in Threads, NEW p, MakeDir(u, p) \/ RemoveDir(u, p) PROVE FALSE
    BY Zenon, <1>2, <2>3 DEF MakeDir, RemoveDir
  <2>4. ASSUME NEW u \in Threads, UmountRetain(u) PROVE u = t
    BY Zenon, <1>1, <2>4 DEF UmountRetain, Goto, Return
  <2> QED BY Zenon, <2>1, <2>2, <2>3, <2>4 DEF MountNext
<1>4. /\ MOUNTED' = retain(mount_path[t])
      /\ ret'[t] = IF Len(MOUNTED) > Len(MOUNTED') THEN "unmounted" ELSE "EPERM"
  BY Zenon, <1>3 DEF UmountRetain, Return, MountTypeOK
<1>5. MOUNTED \in Seq(Paths)
  BY Zenon DEF MountTypeOK
<1>6. ret'[t] = "unmounted" <=> Len(MOUNTED) > Len(MOUNTED')
  BY Zenon, <1>4
<1> QED BY Zenon, <1>4, <1>5, <1>6, Retained

\* For any paths, threads and number of mounts: sys_umount2 removes every file
\* system mounted at its target and no other, whatever mounts and umounts run beside
\* it, and reports success exactly if there was one.
THEOREM UmountExact == MountSpec => UmountClears
<1>1. MountInit => MountTypeOK
  <2>1. << >> \in Seq(Paths)
    OBVIOUS
  <2> QED BY Zenon, <2>1 DEF MountInit, MountTypeOK
<1>2. MountTypeOK /\ [MountNext]_mountvars =>
        [\A t \in Threads :
            pc[t] = "retain" /\ pc'[t] = "user" =>
                /\ Range(MOUNTED') = Range(MOUNTED) \ {mount_path[t]}
                /\ ret'[t] = "unmounted" <=> mount_path[t] \in Range(MOUNTED)]_mountvars
  BY Zenon, Umounted
<1> QED BY <1>1, <1>2, MountTypes, PTL DEF MountSpec, UmountClears
=============================================================================
