----------------------------- MODULE TimerWaits -----------------------------
(***************************************************************************)
(* Waiting by the free-running clock, which wraps: delay_us of             *)
(* libpi/staff-src/timer.c, delay_ncycles, wait_until_cyc and              *)
(* wait_until_usec of libpi/include/cycle-util.h, the timeouts of          *)
(* libpi/include/timeout.h, and wait_usec of the thread test               *)
(* labs/8-threads/code/7-test-realtime-yield.c.  A caller makes one wait   *)
(* after another; each look at the clock is a step, and interrupts, other  *)
(* threads or slow code let time pass in between.                          *)
(***************************************************************************)
EXTENDS Integers

CONSTANTS
  Width,    \* values of the clock: 2^32
  MaxGap,   \* bound: ticks between two looks at the clock
  MaxWait,  \* bound: ticks of one wait
  Calls,    \* the functions called
  Request   \* the times asked for

TimeoutCalls == {"timeout_usec"}
PinCalls == {"wait_until_cyc", "wait_until_usec"}
DelayCalls == {"delay_us", "delay_ncycles", "wait_usec"}

ASSUME ClockAssumption ==
  /\ Width \in Nat \ {0} /\ MaxGap \in Nat \ {0} /\ MaxGap < Width
  /\ MaxWait \in Nat /\ \A k \in Request : k + MaxGap < MaxWait
  /\ Request \subseteq Nat /\ Calls \subseteq TimeoutCalls \cup PinCalls \cup DelayCalls

VARIABLES
  clk,                    \* what timer_get_usec or cycle_cnt_read returns
  pin,                    \* whether the pin has the value waited for
  call, n,                \* the wait in progress and the time it asked for
  start,                  \* the clock when it began
  time_last, time_usecs,  \* timeout_t
  pc,                     \* what the wait reads next: the pin or the clock
  result,                 \* what ended the wait
  elapsed, gap            \* history: ticks since the wait began, since the last look

waitvars == <<call, n, start>>
timeout_t == <<time_last, time_usecs>>
vars == <<clk, pin, waitvars, timeout_t, pc, result, elapsed, gap>>

Init ==
  /\ clk \in 0 .. Width - 1 /\ pin \in BOOLEAN
  /\ call = "none" /\ n = 0 /\ start = 0
  /\ time_last = 0 /\ time_usecs = 0
  /\ pc = "clock" /\ result = "none" /\ elapsed = 0 /\ gap = 0

\* unsigned subtraction
Minus(a, b) == (a - b) % Width

\* A delay, or a time-limited wait, asks for what fits in the clock together
\* with the time between two looks.
Fits(c, k) == c \in TimeoutCalls \/ k + MaxGap < Width

Tick ==
  /\ call # "none" /\ result = "none" /\ gap < MaxGap /\ elapsed < MaxWait
  /\ clk' = (clk + 1) % Width
  /\ elapsed' = elapsed + 1 /\ gap' = gap + 1
  /\ UNCHANGED <<pin, waitvars, timeout_t, pc, result>>

\* What drives the pin does so at any time.
PinChange ==
  /\ call \in PinCalls /\ result = "none"
  /\ pin' = ~pin
  /\ UNCHANGED <<clk, waitvars, timeout_t, pc, result, elapsed, gap>>

\* The caller: start a wait, and go on when it has returned.
Begin ==
  /\ call = "none"
  /\ \E c \in Calls, k \in Request :
       /\ Fits(c, k) /\ call' = c /\ n' = k
       /\ pc' = IF c \in PinCalls THEN "pin" ELSE "clock"
  /\ start' = clk /\ time_last' = clk /\ time_usecs' = 0
  /\ UNCHANGED <<clk, pin, result, elapsed, gap>>

Resume ==
  /\ result # "none"
  /\ call' = "none" /\ n' = 0 /\ start' = 0 /\ result' = "none"
  /\ time_last' = 0 /\ time_usecs' = 0 /\ elapsed' = 0 /\ gap' = 0
  /\ pc' = "clock"
  /\ UNCHANGED <<clk, pin>>

\* A look at the clock: the wait is over, or it is not.
Look(over) ==
  /\ pc = "clock"
  /\ result' = IF over THEN "time" ELSE "none"
  /\ pc' = IF call \in PinCalls THEN "pin" ELSE "clock"
  /\ gap' = 0
  /\ UNCHANGED <<clk, pin, waitvars, elapsed>>
-----------------------------------------------------------------------------
(* Faults, none of them part of Next.                                      *)

\* Fault: the clock is compared with the time the wait should end.
delay_usAbsolute ==
  /\ call = "delay_us" /\ result = "none"
  /\ Look(clk >= (start + n) % Width)
  /\ UNCHANGED timeout_t

\* Fault: the total is kept in 32 bits.
timeout_get_usecNarrow ==
  /\ time_usecs' = (time_usecs + Minus(clk, time_last)) % Width
  /\ time_last' = clk
-----------------------------------------------------------------------------
delay_us ==
  /\ call = "delay_us" /\ result = "none"
  /\ Look(Minus(clk, start) >= n)
  /\ UNCHANGED timeout_t

delay_ncycles ==
  /\ call = "delay_ncycles" /\ result = "none"
  /\ Look(~ (Minus(clk, start) < n))
  /\ UNCHANGED timeout_t

timeout_get_usec ==
  /\ time_usecs' = time_usecs + Minus(clk, time_last)
  /\ time_last' = clk

timeout_usec ==
  /\ call = "timeout_usec" /\ result = "none"
  /\ timeout_get_usec
  /\ Look(time_usecs' >= n)

\* GPIO_READ_RAW: the pin is read first, the clock later.
ReadPin ==
  /\ pc = "pin" /\ result = "none"
  /\ result' = IF pin THEN "pin" ELSE "none"
  /\ pc' = "clock"
  /\ UNCHANGED <<clk, pin, waitvars, timeout_t, elapsed, gap>>

wait_until_cyc ==
  /\ call = "wait_until_cyc" /\ result = "none"
  /\ Look(Minus(clk, start) >= n)
  /\ UNCHANGED timeout_t

wait_until_usec ==
  /\ call = "wait_until_usec" /\ result = "none"
  /\ Look(Minus(clk, start) > n)
  /\ UNCHANGED timeout_t

\* Not yet over: rpi_yield, which is more time passing.
wait_usec ==
  /\ call = "wait_usec" /\ result = "none"
  /\ Look(Minus(clk, start) < n)
  /\ UNCHANGED timeout_t

Wait ==
  \/ delay_us \/ delay_ncycles \/ timeout_usec
  \/ ReadPin \/ wait_until_cyc \/ wait_until_usec \/ wait_usec

Next == Tick \/ PinChange \/ Begin \/ Resume \/ Wait

\* Time passes, the waiting loop runs and its caller goes on.
Spec ==
  /\ Init /\ [][Next]_vars
  /\ WF_vars(Tick) /\ WF_vars(Wait) /\ WF_vars(Resume)
-----------------------------------------------------------------------------
Clock == 0 .. Width - 1

\* wait_usec has its test the wrong way round.
SoundCalls == (TimeoutCalls \cup PinCalls \cup DelayCalls) \ {"wait_usec"}

(* The clock and what was read of it are 32-bit values.                    *)
TypeOK ==
  /\ clk \in Clock /\ start \in Clock /\ time_last \in Clock
  /\ time_usecs \in Nat /\ elapsed \in Nat /\ gap \in 0 .. MaxGap
  /\ call \in Calls \cup {"none"} /\ n \in Nat /\ pin \in BOOLEAN
  /\ pc \in {"pin", "clock"} /\ result \in {"none", "pin", "time"}

(* A wait that ends by the clock has lasted the time asked for, and one    *)
(* still going on had not reached it at the last look, although the clock  *)
(* wraps at any moment and the looks at it come at any distance.  The      *)
(* 64-bit total of timeout.h ("we might want to wait longer than wrap      *)
(* around can happen") is the true time at every look, however often the   *)
(* clock wrapped, because there is a look at least once per wrap.          *)
OnTime ==
  /\ TypeOK
  /\ call \in SoundCalls =>
       /\ result = "time" => elapsed >= n
       /\ result = "none" => elapsed - gap <= n
  /\ call \in TimeoutCalls => time_usecs = elapsed - gap

(* Every wait returns, a wait longer than the clock included.              *)
EveryWaitEnds == call \in SoundCalls ~> call = "none"
=============================================================================
