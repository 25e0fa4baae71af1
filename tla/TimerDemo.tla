------------------------------ MODULE TimerDemo ------------------------------
(***************************************************************************)
(* labs/6-interrupts/timer-int/timer.c: the timer interrupt handler counts *)
(* its calls and adds up the time between them; notmain waits for N of     *)
(* them and prints the average, with the interrupts still enabled.  In     *)
(* 2-gprof/gprof.c the same handler counts where it interrupted, instead   *)
(* of adding up.                                                           *)
(***************************************************************************)
EXTENDS Integers, Sequences, FiniteSets

CONSTANTS
  Width,   \* the microsecond counter and every sum wrap at this
  N,       \* interrupts notmain waits for: 20
  Code,    \* instructions of the program that is profiled
  Gaps,    \* microseconds between two interrupts
  MaxInts  \* bound: interrupts before the reboot

DemoAssumption ==
  /\ Width \in Nat \ {0} /\ N \in Nat /\ N > 1
  /\ Code # {} /\ Gaps \subseteq 0 .. Width - 1

VARIABLES
  pc,          \* notmain: "wait" for N, "report" the average, "reboot"; "profile"
  clk,         \* what the last timer_get_usec returned
  cnt, period, period_sum, last_clk,  \* the handler's statics
  average,     \* what notmain printed
  passed,      \* history: all the time since the first interrupt, what of it
               \* the handler saw, and what of it came by the N-th
  samples,     \* gprof: interrupts that found the program at each instruction
  found,       \* history: where each interrupt found it
  restarts     \* history: the interrupts that took themselves for the first

demovars == <<pc, clk, cnt, period, period_sum, last_clk, average, passed, samples, found, restarts>>

\* gprof_init clears the histogram before it enables the interrupts.
Init ==
  /\ \/ pc = "wait" /\ samples = <<>>
     \/ pc = "profile" /\ samples = [at \in Code |-> 0]
  /\ clk \in 0 .. Width - 1
  /\ cnt = 0 /\ period = 0 /\ period_sum = 0 /\ last_clk = 0
  /\ average = -1 /\ passed = [all |-> 0, seen |-> 0, byN |-> 0] /\ found = <<>> /\ restarts = {}

\* The time g passes before interrupt cnt + 1: of the first there is nothing
\* to count, and one that finds last_clk = 0 takes itself for the first.
Passes(g) ==
  passed' = [all |-> IF cnt = 0 THEN 0 ELSE passed.all + g,
             seen |-> IF last_clk = 0 THEN passed.seen ELSE passed.seen + g,
             byN |-> IF cnt \in 1 .. N - 1 THEN passed.byN + g ELSE passed.byN]

\* Fault: the period of the interrupt before is added.
interrupt_vectorLate ==
  /\ pc \in {"wait", "report"} /\ cnt < MaxInts
  /\ \E g \in Gaps : clk' = (clk + g) % Width /\ Passes(g)
  /\ cnt' = cnt + 1
  /\ period' = IF last_clk = 0 THEN 0 ELSE (clk' - last_clk) % Width
  /\ period_sum' = (period_sum + period) % Width
  /\ last_clk' = clk'
  /\ restarts' = IF last_clk = 0 THEN restarts \cup {cnt'} ELSE restarts
  /\ UNCHANGED <<pc, average, samples, found>>

\* Any other interrupt returns at once.  last_clk = 0 stands for "none yet".
interrupt_vector ==
  /\ pc \in {"wait", "report"} /\ cnt < MaxInts
  /\ \E g \in Gaps : clk' = (clk + g) % Width /\ Passes(g)
  /\ cnt' = cnt + 1
  /\ period' = IF last_clk = 0 THEN 0 ELSE (clk' - last_clk) % Width
  /\ period_sum' = (period_sum + period') % Width
  /\ last_clk' = clk'
  /\ restarts' = IF last_clk = 0 THEN restarts \cup {cnt'} ELSE restarts
  /\ UNCHANGED <<pc, average, samples, found>>

\* while(cnt < N) falls through; what it prints meanwhile changes nothing.
Counted ==
  /\ pc = "wait" /\ cnt >= N
  /\ pc' = "report"
  /\ UNCHANGED <<clk, cnt, period, period_sum, last_clk, average, passed, samples, found, restarts>>

\* period_sum is read later than cnt was.
Report ==
  /\ pc = "report"
  /\ average' = period_sum \div (N - 1)
  /\ pc' = "reboot"
  /\ UNCHANGED <<clk, cnt, period, period_sum, last_clk, passed, samples, found, restarts>>

gprof_inc(at) == samples' = [samples EXCEPT ![at] = @ + 1]

\* The handler of gprof.c: it takes the interrupted pc.
gprof_vector ==
  /\ pc = "profile" /\ cnt < MaxInts
  /\ \E at \in Code : gprof_inc(at) /\ found' = Append(found, at)
  /\ \E g \in Gaps : clk' = (clk + g) % Width
  /\ cnt' = cnt + 1
  /\ period' = IF last_clk = 0 THEN 0 ELSE (clk' - last_clk) % Width
  /\ last_clk' = clk'
  /\ UNCHANGED <<pc, period_sum, average, passed, restarts>>

\* Its notmain prints the samples as it waits, and ends.
Profiled ==
  /\ pc = "profile" /\ cnt >= N
  /\ pc' = "reboot"
  /\ UNCHANGED <<clk, cnt, period, period_sum, last_clk, average, passed, samples, found, restarts>>

Next == interrupt_vector \/ Counted \/ Report \/ gprof_vector \/ Profiled
Spec == Init /\ [][Next]_demovars
-----------------------------------------------------------------------------
(* The sum is the time between interrupts whatever wraps in between, except *)
(* for what a clock that read 0 loses; so the average notmain prints is the *)
(* average period when no interrupt came after the N-th, and is too large,  *)
(* never too small, when one did: the divisor stays N - 1.  The profile has *)
(* a sample for every interrupt, where it found the program, and the last   *)
(* period is a gap, or lost.                                                *)
AverageHonest ==
  LET whole == restarts \subseteq {1} /\ passed.all < Width
      profile == samples # <<>>
  IN /\ profile =>
          /\ \A at \in Code : samples[at] = Cardinality({i \in 1 .. cnt : found[i] = at})
          /\ period \in Gaps \cup {0}
     /\ cnt > 0 /\ ~profile => period_sum = passed.seen % Width
     /\ pc = "reboot" /\ whole /\ ~profile =>
          /\ average * (N - 1) <= passed.all
          /\ average >= passed.byN \div (N - 1)
          /\ cnt = N => average = passed.all \div (N - 1)
=============================================================================
