--------------------------- MODULE ProgramProofs ---------------------------
(***************************************************************************)
(* Programs proved each on its own, for every value of their constants:    *)
(* the waits by the wrapping clock (TimerWaits), the trials of the radio   *)
(* tests (NrfTrials), the average of the timer demo and the profile of     *)
(* gprof (TimerDemo), the memory of the fake Pis (FakePi), the exceptions  *)
(* (Exceptions), the set-up of the radios (NrfRegs), the shell of the      *)
(* ESP8266 (EspShell), the user programs (TrivialOs) and the exit string   *)
(* (BootUnix).  Each has its inductive invariant, the lemmas of its steps  *)
(* and its theorems; the clock's come first.                               *)
(***************************************************************************)
EXTENDS TimerWaits, Programs, Arithmetic, Sequences, SequenceTheorems, TLAPS
-----------------------------------------------------------------------------
(* Every wait by the wrapping clock lasts what it was asked for, for every *)
(* width of the clock, every distance of the looks at it and every time    *)
(* asked for.  The argument is the invariant IInv: the clock is the time   *)
(* since the wait began, less whole wraps, and no look comes a whole wrap  *)
(* after the one before.                                                   *)

\* What the clock shows t ticks after s.
After(s, t) == (s + t) % Width

\* Where the clock stands, and what the timeout has read of it.
ClockInv ==
  /\ gap <= elapsed
  /\ call = "none" => result = "none" /\ elapsed = 0 /\ gap = 0
  /\ pc = "pin" => call \in PinCalls
  /\ call # "none" => clk = After(start, elapsed) /\ Fits(call, n)
  /\ call \in TimeoutCalls =>
       /\ time_last = After(start, elapsed - gap)
       /\ time_usecs = elapsed - gap

\* How the wait stands to the time asked for.
WaitInv ==
  call \in SoundCalls =>
    /\ result = "time" => elapsed >= n
    /\ result = "none" => elapsed - gap <= n

IInv == TypeOK /\ ClockInv /\ WaitInv
-----------------------------------------------------------------------------
(* The clock is a clock whatever the time.                                 *)
LEMMA AfterType == \A s, t \in Nat : After(s, t) \in Clock
<1> SUFFICES ASSUME NEW s \in Nat, NEW t \in Nat PROVE After(s, t) \in Clock
  OBVIOUS
<1>1. s + t \in Int /\ Width \in Nat \ {0}
  BY ClockAssumption
<1> QED BY <1>1, ModDef DEF After, Clock

(* One tick later the clock shows one more, or has wrapped.                *)
LEMMA AfterNext ==
  \A s, t \in Nat : (After(s, t) + 1) % Width = After(s, t + 1)
<1> SUFFICES ASSUME NEW s \in Nat, NEW t \in Nat
             PROVE  (After(s, t) + 1) % Width = After(s, t + 1)
  OBVIOUS
<1>1. s + t \in Nat /\ Width \in Nat \ {0} /\ s + (t + 1) = (s + t) + 1
  BY ClockAssumption
<1>2. (((s + t) % Width) + 1) % Width = ((s + t) + 1) % Width
  BY <1>1, SuccMod
<1> QED BY <1>1, <1>2 DEF After

(* At the start the clock shows the start.                                 *)
LEMMA AfterStart == \A s \in Clock : After(s, 0) = s
<1> SUFFICES ASSUME NEW s \in Clock PROVE After(s, 0) = s
  OBVIOUS
<1>1. Width \in Nat \ {0} /\ s \in 0 .. Width - 1 /\ s + 0 = 0 * Width + s
  BY ClockAssumption DEF Clock
<1>2. (0 * Width + s) % Width = s
  BY <1>1, ModUnique
<1> QED BY <1>1, <1>2 DEF After

(* Two readings less than a wrap apart differ, as unsigned numbers, by the *)
(* time that passed between them.                                          *)
LEMMA MinusIsTime ==
  \A s, t, d \in Nat : d < Width => Minus(After(s, t + d), After(s, t)) = d
<1> SUFFICES ASSUME NEW s \in Nat, NEW t \in Nat, NEW d \in Nat, d < Width
             PROVE  Minus(After(s, t + d), After(s, t)) = d
  OBVIOUS
<1> DEFINE a == s + t
           b == s + (t + d)
           qa == a \div Width
           qb == b \div Width
           ra == a % Width
           rb == b % Width
           k == qa - qb
<1>0. Width \in Nat \ {0} /\ a \in Int /\ b \in Int
  BY ClockAssumption
<1> HIDE DEF a, b
<1>1. ra \in 0 .. Width - 1 /\ qa \in Int /\ a = qa * Width + ra
  BY <1>0, ModDef
<1>2. rb \in 0 .. Width - 1 /\ qb \in Int /\ b = qb * Width + rb
  BY <1>0, ModDef
<1>3. a \in Nat /\ b = a + d
  BY DEF a, b
<1> HIDE DEF qa, qb, ra, rb
<1>4. rb - ra = k * Width + d /\ k \in Int
  BY <1>0, <1>1, <1>2, <1>3, Z3
<1>5. (k * Width + d) % Width = d
  <2>1. d \in 0 .. Width - 1
    BY <1>0
  <2> QED BY <1>0, <1>4, <2>1, ModUnique
<1> QED BY <1>4, <1>5 DEF Minus, After, a, b, ra, rb

(* The clock at a look, seen from the start of the wait and from the last  *)
(* look of a timeout.                                                      *)
LEMMA LookAtClock ==
  IInv /\ result = "none" /\ call # "none" =>
    /\ elapsed - gap \in Nat
    /\ call \in SoundCalls \ TimeoutCalls => Minus(clk, start) = elapsed
    /\ call \in TimeoutCalls => Minus(clk, time_last) = gap
<1> SUFFICES ASSUME IInv, result = "none", call # "none"
             PROVE  /\ elapsed - gap \in Nat
                    /\ call \in SoundCalls \ TimeoutCalls =>
                         Minus(clk, start) = elapsed
                    /\ call \in TimeoutCalls => Minus(clk, time_last) = gap
  OBVIOUS
<1>1. /\ elapsed \in Nat /\ gap \in Nat /\ gap <= MaxGap /\ gap <= elapsed
      /\ n \in Nat /\ start \in Nat /\ Width \in Nat /\ Width # 0
      /\ MaxGap \in Nat /\ MaxGap < Width /\ start \in Clock
  BY ClockAssumption DEF IInv, TypeOK, ClockInv, Clock
<1>2. elapsed - gap \in Nat
  BY <1>1
<1>3. ASSUME call \in SoundCalls \ TimeoutCalls
      PROVE  Minus(clk, start) = elapsed
  <2>1. n + MaxGap < Width /\ elapsed - gap <= n
    BY <1>3 DEF IInv, ClockInv, WaitInv, Fits
  <2>2. elapsed < Width
    BY <2>1, <1>1
  <2>3. Minus(After(start, 0 + elapsed), After(start, 0)) = elapsed
    BY <1>1, <2>2, MinusIsTime
  <2>4. After(start, 0) = start /\ 0 + elapsed = elapsed
    BY <1>1, AfterStart
  <2> QED BY <2>3, <2>4 DEF IInv, ClockInv
<1>4. ASSUME call \in TimeoutCalls PROVE Minus(clk, time_last) = gap
  <2>1. Minus(After(start, (elapsed - gap) + gap), After(start, elapsed - gap))
          = gap
    <3>1. gap < Width
      BY <1>1
    <3> QED BY <1>1, <1>2, <3>1, MinusIsTime
  <2>2. (elapsed - gap) + gap = elapsed
    BY <1>1
  <2> QED BY <1>4, <2>1, <2>2 DEF IInv, ClockInv
<1> QED BY <1>2, <1>3, <1>4
-----------------------------------------------------------------------------
(* The clock advances.                                                     *)
LEMMA TickInv == IInv /\ Tick => IInv'
<1> SUFFICES ASSUME IInv, Tick PROVE IInv'
  OBVIOUS
<1> USE DEF IInv, Tick, waitvars, timeout_t
<1>1. /\ clk = After(start, elapsed) /\ start \in Nat /\ elapsed \in Nat
      /\ gap \in Nat /\ gap < MaxGap /\ MaxGap \in Nat
  BY ClockAssumption DEF ClockInv, TypeOK, Clock
<1>2. clk' = After(start, elapsed + 1)
  BY <1>1, AfterNext
<1>3. clk' \in Clock
  BY <1>1, <1>2, AfterType
<1>4. TypeOK'
  BY <1>1, <1>3 DEF TypeOK
<1>5. elapsed' - gap' = elapsed - gap /\ gap' <= elapsed'
  BY <1>1 DEF ClockInv
<1>6. ClockInv'
  BY <1>1, <1>2, <1>5 DEF ClockInv, After, Fits
<1>7. WaitInv'
  BY <1>5 DEF WaitInv
<1> QED BY <1>4, <1>6, <1>7

(* A wait begins, or its caller goes on.                                   *)
LEMMA CallerInv == IInv /\ (Begin \/ Resume) => IInv'
<1> SUFFICES ASSUME IInv, Begin \/ Resume PROVE IInv'
  OBVIOUS
<1>1. 0 \in Clock /\ Request \subseteq Nat
      /\ Calls \subseteq TimeoutCalls \cup PinCalls \cup DelayCalls
      /\ "none" \notin Calls
  BY ClockAssumption DEF Clock, TimeoutCalls, PinCalls, DelayCalls
<1>2. CASE Begin
  <2> USE <1>2 DEF Begin, IInv
  <2>1. call = "none" /\ result = "none" /\ elapsed = 0 /\ gap = 0
        /\ call' \in Calls /\ n' \in Nat /\ Fits(call', n')
        /\ result' = "none" /\ elapsed' = 0 /\ gap' = 0
        /\ start' = clk /\ clk' = clk /\ time_last' = clk /\ time_usecs' = 0
        /\ clk \in Clock /\ pin' = pin /\ pc' \in {"pin", "clock"}
    BY <1>1 DEF ClockInv, TypeOK
  <2>2. After(clk, 0) = clk
    BY <2>1, AfterStart
  <2>3. TypeOK'
    BY <2>1, ClockAssumption DEF TypeOK
  <2>4. ClockInv'
    BY <2>1, <2>2 DEF ClockInv, After, Fits
  <2>5. WaitInv'
    BY <2>1 DEF WaitInv
  <2> QED BY <2>3, <2>4, <2>5
<1>3. CASE Resume
  <2> USE <1>3 DEF Resume, IInv
  <2>1. TypeOK'
    BY <1>1, ClockAssumption DEF TypeOK
  <2>2. ClockInv'
    BY DEF ClockInv, TimeoutCalls
  <2>3. WaitInv'
    BY DEF WaitInv, SoundCalls, TimeoutCalls, PinCalls, DelayCalls
  <2> QED BY <2>1, <2>2, <2>3
<1> QED BY <1>2, <1>3

(* The pin changes or is read: the clock is not concerned.                 *)
LEMMA PinInv == IInv /\ (PinChange \/ ReadPin) => IInv'
<1> SUFFICES ASSUME IInv, PinChange \/ ReadPin PROVE IInv'
  OBVIOUS
<1>1. /\ UNCHANGED <<clk, waitvars, timeout_t, elapsed, gap>>
      /\ pin' \in BOOLEAN /\ pc' \in {"pin", "clock"}
      /\ result = "none" /\ result' \in {"none", "pin"} /\ call \in PinCalls
  BY DEF PinChange, ReadPin, IInv, TypeOK, ClockInv
<1> USE <1>1 DEF IInv, waitvars, timeout_t
<1>2. TypeOK'
  BY DEF TypeOK
<1>3. ClockInv'
  BY DEF ClockInv, PinCalls, After, Fits
<1>4. WaitInv'
  BY DEF WaitInv
<1> QED BY <1>2, <1>3, <1>4

\* A look at the clock whose answer is right about the time that passed.
RightLook ==
  \/ Look(TRUE) /\ (call \in SoundCalls => elapsed >= n)
  \/ Look(FALSE) /\ (call \in SoundCalls => elapsed <= n)

(* A right look keeps the invariant, when a timeout adds exactly the time  *)
(* that passed since the one before.                                       *)
LEMMA LookInv ==
  ASSUME IInv, result = "none", call # "none", RightLook,
         call \in TimeoutCalls => time_last' = clk /\ time_usecs' = elapsed,
         call \notin TimeoutCalls => UNCHANGED timeout_t
  PROVE  IInv'
<1>0. PICK r \in {"none", "time"} :
        /\ result' = r
        /\ call \in SoundCalls => (r = "time" => elapsed >= n)
                                  /\ (r = "none" => elapsed <= n)
  BY DEF RightLook, Look
<1> USE <1>0 DEF IInv, RightLook, Look, waitvars, timeout_t
<1>1. /\ elapsed \in Nat /\ elapsed - 0 = elapsed /\ 0 <= elapsed
      /\ clk = After(start, elapsed) /\ clk \in Clock /\ 0 \in 0 .. MaxGap
  BY ClockAssumption DEF TypeOK, ClockInv
<1>2. TypeOK'
  BY <1>1 DEF TypeOK
<1>3. ClockInv'
  BY <1>1 DEF ClockInv, After, Fits
<1>4. WaitInv'
  BY <1>1 DEF WaitInv, TypeOK
<1> QED BY <1>2, <1>3, <1>4

(* Each of the waits looks at the clock with a test that is right.         *)
LEMMA WaitStepInv == IInv /\ Wait => IInv'
<1> SUFFICES ASSUME IInv, Wait PROVE IInv'
  OBVIOUS
<1> USE DEF TimeoutCalls, PinCalls, DelayCalls, SoundCalls
<1>1. n \in Nat /\ elapsed \in Nat
  BY DEF IInv, TypeOK
<1>2. CASE delay_us
  <2>1. Minus(clk, start) = elapsed
    BY <1>2, LookAtClock DEF delay_us
  <2>2. /\ RightLook /\ call = "delay_us" /\ result = "none"
        /\ UNCHANGED timeout_t
    BY <1>1, <1>2, <2>1 DEF delay_us, RightLook, Look
  <2> QED BY <1>1, <2>2, LookInv
<1>3. CASE delay_ncycles
  <2>1. Minus(clk, start) = elapsed
    BY <1>3, LookAtClock DEF delay_ncycles
  <2>2. /\ RightLook /\ call = "delay_ncycles" /\ result = "none"
        /\ UNCHANGED timeout_t
    BY <1>1, <1>3, <2>1 DEF delay_ncycles, RightLook, Look
  <2> QED BY <1>1, <2>2, LookInv
<1>4. CASE timeout_usec
  <2>1. /\ Minus(clk, time_last) = gap /\ time_usecs = elapsed - gap
        /\ gap \in Nat
    BY <1>4, LookAtClock DEF timeout_usec, IInv, ClockInv, TypeOK
  <2>2. time_usecs' = elapsed /\ time_last' = clk
    BY <1>1, <1>4, <2>1 DEF timeout_usec, timeout_get_usec
  <2>3. RightLook /\ call = "timeout_usec" /\ result = "none"
    BY <1>1, <1>4, <2>2 DEF timeout_usec, RightLook, Look
  <2> QED BY <1>1, <2>2, <2>3, LookInv
<1>5. CASE ReadPin
  BY <1>5, PinInv
<1>6. CASE wait_until_cyc
  <2>1. Minus(clk, start) = elapsed
    BY <1>6, LookAtClock DEF wait_until_cyc
  <2>2. /\ RightLook /\ call = "wait_until_cyc" /\ result = "none"
        /\ UNCHANGED timeout_t
    BY <1>1, <1>6, <2>1 DEF wait_until_cyc, RightLook, Look
  <2> QED BY <1>1, <2>2, LookInv
<1>7. CASE wait_until_usec
  <2>1. Minus(clk, start) = elapsed
    BY <1>7, LookAtClock DEF wait_until_usec
  <2>2. /\ RightLook /\ call = "wait_until_usec" /\ result = "none"
        /\ UNCHANGED timeout_t
    BY <1>1, <1>7, <2>1 DEF wait_until_usec, RightLook, Look
  <2> QED BY <1>1, <2>2, LookInv
<1>8. CASE wait_usec
  <2>1. /\ RightLook /\ call = "wait_usec" /\ result = "none"
        /\ UNCHANGED timeout_t
    BY <1>8 DEF wait_usec, RightLook, Look
  <2> QED BY <2>1, LookInv
<1> QED BY <1>2, <1>3, <1>4, <1>5, <1>6, <1>7, <1>8 DEF Wait

-----------------------------------------------------------------------------
(* The invariant holds of every reachable state.                           *)
THEOREM ClockInvariant == Spec => []IInv
<1>1. Init => IInv
  <2> SUFFICES ASSUME Init PROVE IInv
    OBVIOUS
  <2>1. 0 \in Clock /\ 0 \in 0 .. MaxGap
    BY ClockAssumption DEF Clock
  <2>2. "none" \notin TimeoutCalls /\ "none" \notin SoundCalls
    BY DEF TimeoutCalls, PinCalls, DelayCalls, SoundCalls
  <2>3. TypeOK
    BY <2>1 DEF Init, TypeOK, Clock
  <2> QED BY <2>2, <2>3 DEF Init, IInv, ClockInv, WaitInv
<1>2. IInv /\ [Next]_vars => IInv'
  <2>1. IInv /\ Next => IInv'
    BY TickInv, CallerInv, PinInv, WaitStepInv DEF Next
  <2>2. IInv /\ UNCHANGED vars => IInv'
    BY DEF IInv, TypeOK, ClockInv, WaitInv, After, Fits, vars, waitvars,
           timeout_t
  <2> QED BY <2>1, <2>2
<1> QED BY <1>1, <1>2, PTL DEF Spec

(* A wait of timer.c, cycle-util.h or timeout.h that ends by the clock has *)
(* lasted the time asked for, one still going on had not reached it, and   *)
(* the 64-bit total of timeout.h is the true time, whatever the width of   *)
(* the clock, however often it wraps and whenever it is looked at.         *)
THEOREM WaitsAreOnTime == Spec => []OnTime
<1>1. IInv => OnTime
  BY DEF IInv, ClockInv, WaitInv, OnTime
<1> QED BY <1>1, ClockInvariant, PTL
-----------------------------------------------------------------------------
(* The sum of the trials of a radio test, and the search for the shortest  *)
(* timeout.                                                                *)
ATrial == [tot_usec : Nat, nsent : Nat, nlost : Nat, nrecv : Nat, bytes_per_sec : Nat]

\* What a trial or a sum shows is the rate of what it received, rounded down.
Rated(t) == 32000 * t.nrecv < (t.bytes_per_sec + 1) * (t.tot_usec \div 1000)

TrialsTypes ==
  /\ part \in {"trials", "search", "done", "assert"}
  /\ trials \in Seq(ATrial) /\ tsum \in ATrial
  /\ est \in [hi : Nat, lo : Nat, cur : Nat] /\ works \in Nat

SumInv ==
  /\ tsum.nsent = ntrial * Len(trials) /\ tsum.nsent = tsum.nrecv + tsum.nlost
  /\ Len(trials) = 0 => tsum.tot_usec = 0 /\ tsum.nrecv = 0 /\ tsum.nlost = 0
  /\ Len(trials) # 0 => tsum.tot_usec >= 1000
  /\ tsum = Trials!trial_mk(tsum.tot_usec, tsum.nsent, tsum.nlost, 32)
  /\ Len(trials) # 0 => \E i \in DOMAIN trials :
       /\ \A j \in DOMAIN trials : trials[j].bytes_per_sec <= trials[i].bytes_per_sec
       /\ 32000 * tsum.nrecv < (trials[i].bytes_per_sec + 1) * (tsum.tot_usec \div 1000)

SearchInv ==
  part # "trials" =>
    /\ est.lo < works /\ works <= est.hi /\ est.lo <= est.cur /\ est.cur <= est.hi
    /\ part = "search" => est.lo < est.cur
    /\ part = "done" => est.cur = works
    /\ part = "assert" => est.hi = works /\ est.lo = works - 1

TrialsInv == TrialsTypes /\ SumInv /\ SearchInv

(* The arithmetic of rates: the whole is below the quotient's successor.   *)
LEMMA RateBound ==
  ASSUME NEW k \in Nat, NEW d \in Nat \ {0}, NEW q, q = k \div d
  PROVE  q \in Nat /\ k < (q + 1) * d
<1> DEFINE r == k % d
<1>1. q \in Int /\ r \in 0 .. d - 1 /\ k = q * d + r
  <2>1. k \in Int
    OBVIOUS
  <2> QED BY <2>1, ModDef
<1> HIDE DEF r
<1>2. q \in Nat
  BY <1>1, Z3
<1>3. k < (q + 1) * d
  BY <1>1, <1>2, Z3
<1> QED BY <1>2, <1>3

(* So it is no more than any other bound of the whole.                     *)
LEMMA RateLeast ==
  ASSUME NEW k \in Nat, NEW d \in Nat \ {0}, NEW q, q = k \div d, NEW bound \in Nat, k < (bound + 1) * d
  PROVE  q <= bound
<1> DEFINE r == k % d
<1>1. q \in Int /\ r \in 0 .. d - 1 /\ k = q * d + r
  <2>1. k \in Int
    OBVIOUS
  <2> QED BY <2>1, ModDef
<1> HIDE DEF r
<1>2. q * d < (bound + 1) * d
  BY <1>1, Z3
<1> QED BY <1>1, <1>2, Z3

(* A greater rate bounds more.                                             *)
LEMMA TimesLeft ==
  ASSUME NEW a, NEW b, NEW c, a \in Nat, b \in Nat, c \in Nat, a <= b
  PROVE  (a + 1) * c <= (b + 1) * c
BY Z3

(* What two trials received together is below their common bound.          *)
LEMMA RatesAdd ==
  ASSUME NEW n0, NEW n1, NEW d0, NEW d1, NEW d, NEW m,
         n0 \in Nat, n1 \in Nat, d0 \in Nat, d1 \in Nat, d \in Nat, m \in Nat,
         n0 < (m + 1) * d0, n1 < (m + 1) * d1, d0 + d1 <= d
  PROVE  n0 + n1 < (m + 1) * d
<1>1. (m + 1) * d0 + (m + 1) * d1 = (m + 1) * (d0 + d1)
  BY Z3
<1>2. (m + 1) * (d0 + d1) <= (m + 1) * d
  BY Z3
<1> QED BY <1>1, <1>2, Z3

(* Whole milliseconds of two times are no more than those of their sum.    *)
LEMMA WholeMillis ==
  ASSUME NEW a \in Nat, NEW b \in Nat
  PROVE  /\ a \div 1000 \in Nat /\ (a >= 1000 => a \div 1000 > 0)
         /\ a \div 1000 + b \div 1000 <= (a + b) \div 1000
BY Z3

(* A trial's record, and a sum's, counts what was received and its rate.   *)
LEMMA TrialRate ==
  ASSUME NEW usec \in Nat, NEW nsent \in Nat, NEW nlost \in Nat, nlost <= nsent, usec >= 1000,
         NEW t, t = Trials!trial_mk(usec, nsent, nlost, 32)
  PROVE  t.bytes_per_sec = (32000 * (nsent - nlost)) \div (usec \div 1000)
<1> DEFINE k == nsent - nlost
           d == usec \div 1000
           rate == t.bytes_per_sec
<1>1. rate = (1000 * k * 32) \div d
  BY DEF Trials!trial_mk, Trials!bytes_per_sec
<1>2. k \in Nat
  OBVIOUS
<1> HIDE DEF k, d, rate
<1>3. 1000 * k * 32 = 32000 * k
  BY <1>2, Z3
<1>4. rate = (32000 * k) \div d
  BY <1>1, <1>3
<1> QED BY <1>4 DEF rate, k, d

(* So its fields are what went in, and the rate is that of what came in.   *)
LEMMA TrialMk ==
  ASSUME NEW usec \in Nat, NEW nsent \in Nat, NEW nlost \in Nat, nlost <= nsent, usec >= 1000,
         NEW t, t = Trials!trial_mk(usec, nsent, nlost, 32)
  PROVE  /\ t \in ATrial /\ Rated(t)
         /\ t.tot_usec = usec /\ t.nsent = nsent /\ t.nlost = nlost /\ t.nrecv = nsent - nlost
<1> DEFINE k == nsent - nlost
           d == usec \div 1000
           rate == t.bytes_per_sec
<1>1. k \in Nat /\ d \in Nat \ {0}
  BY WholeMillis
<1>2. rate = (32000 * k) \div d
  BY TrialRate
<1>3. t = [tot_usec |-> usec, nsent |-> nsent, nlost |-> nlost, nrecv |-> k, bytes_per_sec |-> rate]
  BY DEF Trials!trial_mk
<1> HIDE DEF k, d, rate
<1>4. rate \in Nat /\ 32000 * k < (rate + 1) * d
  <2> DEFINE K == 32000 * k
  <2>1. K \in Nat /\ rate = K \div d
    BY <1>1, <1>2
  <2> HIDE DEF K
  <2>2. rate \in Nat /\ K < (rate + 1) * d
    BY <2>1, <1>1, RateBound
  <2> QED BY <2>2 DEF K
<1>5. /\ t \in ATrial /\ t.tot_usec = usec /\ t.nsent = nsent /\ t.nlost = nlost /\ t.nrecv = k
      /\ t.bytes_per_sec = rate
  BY <1>1, <1>3, <1>4 DEF ATrial
<1>6. Rated(t)
  BY <1>4, <1>5 DEF Rated, d
<1> QED BY <1>5, <1>6 DEF k

(* One more trial keeps the account of the sum and its bound by the best.  *)
LEMMA TrialStep == ASSUME Trials!TrialsAssumption PROVE TrialsInv /\ Trials!Trial => TrialsInv'
<1> SUFFICES ASSUME TrialsInv, Trials!Trial PROVE TrialsInv'
  OBVIOUS
<1>1. PICK nlost \in Nat, usec \in Nat, nsent \in Nat :
        /\ usec >= 1000 /\ nlost <= ntrial /\ nsent = ntrial
        /\ trials' = Append(trials, Trials!trial_mk(usec, ntrial, nlost, 32))
        /\ tsum' = Trials!trial_add(tsum, Trials!trial_mk(usec, ntrial, nlost, 32), 32)
  BY DEF Trials!Trial, Trials!TrialsAssumption
<1> DEFINE t == Trials!trial_mk(usec, ntrial, nlost, 32)
           tot == tsum.tot_usec + usec
           d == tot \div 1000
<1>2. part = "trials" /\ UNCHANGED <<part, est, works>>
  BY DEF Trials!Trial
<1>3. /\ ntrial \in Nat /\ usec \in Nat /\ usec >= 1000 /\ nlost \in Nat /\ nlost <= ntrial
      /\ tsum \in ATrial /\ trials \in Seq(ATrial)
  BY <1>1 DEF Trials!TrialsAssumption, TrialsInv, TrialsTypes
<1>4. /\ t \in ATrial /\ Rated(t)
      /\ t.tot_usec = usec /\ t.nsent = ntrial /\ t.nlost = nlost /\ t.nrecv = ntrial - nlost
  <2> DEFINE u == t
  <2>1. u = Trials!trial_mk(usec, nsent, nlost, 32)
    BY <1>1
  <2> HIDE DEF u
  <2>1a. usec >= 1000 /\ nlost <= nsent
    BY <1>1
  <2>2. /\ u \in ATrial /\ Rated(u)
        /\ u.tot_usec = usec /\ u.nsent = nsent /\ u.nlost = nlost /\ u.nrecv = nsent - nlost
    BY <2>1, <2>1a, TrialMk
  <2> QED BY <1>1, <2>2 DEF u
<1> HIDE DEF t
<1>4a. t.tot_usec \in Nat /\ t.nrecv \in Nat /\ t.bytes_per_sec \in Nat /\ 32000 * t.nrecv \in Nat
  BY <1>4 DEF ATrial
<1>4b. /\ tsum.tot_usec \in Nat /\ tsum.nsent \in Nat /\ tsum.nlost \in Nat /\ tsum.nrecv \in Nat
       /\ 32000 * tsum.nrecv \in Nat
  BY <1>3 DEF ATrial
<1>4c. tsum.nsent = ntrial * Len(trials) /\ tsum.nsent = tsum.nrecv + tsum.nlost
  BY DEF TrialsInv, SumInv
<1>5. tsum' = Trials!trial_mk(tot, tsum.nsent + ntrial, tsum.nlost + nlost, 32)
  BY <1>1, <1>4 DEF Trials!trial_add, t
<1>6. /\ tot \in Nat /\ tot >= 1000 /\ tsum.nsent + ntrial \in Nat /\ tsum.nlost + nlost \in Nat
      /\ tsum.nlost + nlost <= tsum.nsent + ntrial
      /\ tsum.nsent + ntrial - (tsum.nlost + nlost) = tsum.nrecv + t.nrecv
  <2>1. tsum.nsent = tsum.nrecv + tsum.nlost /\ t.nrecv = ntrial - nlost
    BY <1>4, <1>4c
  <2>2. /\ tsum.nsent + ntrial \in Nat /\ tsum.nlost + nlost \in Nat
        /\ tsum.nlost + nlost <= tsum.nsent + ntrial
        /\ tsum.nsent + ntrial - (tsum.nlost + nlost) = tsum.nrecv + t.nrecv
    <3> DEFINE sent == tsum.nsent
               lost == tsum.nlost
               recv == tsum.nrecv
               now == t.nrecv
    <3>1. /\ ntrial \in Nat /\ nlost \in Nat /\ nlost <= ntrial /\ sent \in Nat /\ lost \in Nat /\ recv \in Nat
          /\ sent = recv + lost /\ now = ntrial - nlost
      BY <1>3, <1>4b, <2>1
    <3> HIDE DEF sent, lost, recv, now
    <3>2. /\ sent + ntrial \in Nat /\ lost + nlost \in Nat /\ lost + nlost <= sent + ntrial
          /\ sent + ntrial - (lost + nlost) = recv + now
      BY <3>1
    <3> QED BY <3>2 DEF sent, lost, recv, now
  <2>3. tot \in Nat /\ tot >= 1000
    BY <1>3, <1>4b DEF tot
  <2> QED BY <2>2, <2>3
<1>7. /\ tsum' \in ATrial /\ Rated(tsum')
      /\ tsum'.tot_usec = tot /\ tsum'.nsent = tsum.nsent + ntrial /\ tsum'.nlost = tsum.nlost + nlost
      /\ tsum'.nrecv = tsum.nrecv + t.nrecv
  <2> HIDE DEF tot
  <2>a. PICK k \in Nat : k = tsum.nsent + ntrial
    BY <1>6
  <2>b. PICK l \in Nat : l = tsum.nlost + nlost
    BY <1>6
  <2>c. PICK us \in Nat : us = tot
    BY <1>6
  <2>1a. us >= 1000
    BY <1>6, <2>c
  <2>1b. l <= k
    BY <1>6, <2>a, <2>b
  <2>1c. k - l = tsum.nrecv + t.nrecv
    BY <1>3, <1>4a, <1>4b, <1>6, <2>a, <2>b
  <2>1. us >= 1000 /\ l <= k /\ k - l = tsum.nrecv + t.nrecv
    BY <2>1a, <2>1b, <2>1c
  <2> DEFINE u == tsum'
  <2>2. u = Trials!trial_mk(us, k, l, 32)
    BY <1>5, <2>a, <2>b, <2>c
  <2> HIDE DEF u
  <2>3. /\ u \in ATrial /\ Rated(u) /\ u.tot_usec = us /\ u.nsent = k /\ u.nlost = l /\ u.nrecv = k - l
    BY <2>1, <2>2, TrialMk
  <2> QED BY <2>1, <2>3, <2>a, <2>b, <2>c DEF u
<1>8. /\ trials' \in Seq(ATrial) /\ Len(trials') = Len(trials) + 1 /\ Len(trials) \in Nat
      /\ trials'[Len(trials) + 1] = t /\ \A j \in 1 .. Len(trials) : trials'[j] = trials[j]
      /\ DOMAIN trials' = 1 .. Len(trials) + 1 /\ DOMAIN trials = 1 .. Len(trials)
  BY <1>1, <1>3, <1>4 DEF t
<1>9. TrialsTypes' /\ SearchInv'
  BY <1>2, <1>7, <1>8 DEF TrialsInv, TrialsTypes, SearchInv
<1>10. \E i \in 1 .. Len(trials) + 1 :
         /\ \A j \in 1 .. Len(trials) + 1 : trials'[j].bytes_per_sec <= trials'[i].bytes_per_sec
         /\ 32000 * tsum'.nrecv < (trials'[i].bytes_per_sec + 1) * d
  <2>1. 32000 * t.nrecv < (t.bytes_per_sec + 1) * (usec \div 1000)
    BY <1>4 DEF Rated
  <2>2. /\ usec \div 1000 \in Nat /\ tsum.tot_usec \div 1000 \in Nat /\ d \in Nat
        /\ tsum.tot_usec \div 1000 + usec \div 1000 <= d
    BY <1>3, <1>4b, WholeMillis
  <2>3. CASE Len(trials) = 0
    <3>1. tsum.nrecv = 0 /\ tot = usec
      BY <2>3, <1>3 DEF TrialsInv, SumInv
    <3>2. tsum'.nrecv = t.nrecv
      <4>1. tsum'.nrecv = tsum.nrecv + t.nrecv /\ t.nrecv \in Nat
        BY <1>4a, <1>7
      <4> QED BY <3>1, <4>1
    <3>3. Len(trials) + 1 = 1 /\ trials'[1] = t
      BY <1>8, <2>3
    <3>4. 1 \in 1 .. Len(trials) + 1 /\ \A j \in 1 .. Len(trials) + 1 : j = 1
      BY <3>3
    <3>5. d = usec \div 1000
      BY <3>1
    <3> DEFINE Bounded(got, kbps, ms) == 32000 * got < (kbps + 1) * ms
    <3>6. Bounded(tsum'.nrecv, trials'[1].bytes_per_sec, d)
      <4>1. Bounded(t.nrecv, t.bytes_per_sec, usec \div 1000)
        BY <2>1 DEF Bounded
      <4> HIDE DEF Bounded, d
      <4> QED BY <3>2, <3>3, <3>5, <4>1
    <3>7. trials'[1].bytes_per_sec <= trials'[1].bytes_per_sec
      BY <1>4a, <3>3
    <3> WITNESS 1 \in 1 .. Len(trials) + 1
    <3>8. \A j \in 1 .. Len(trials) + 1 : trials'[j].bytes_per_sec <= trials'[1].bytes_per_sec
      BY <3>4, <3>7, Zenon
    <3> HIDE DEF d, tot
    <3>9. 32000 * tsum'.nrecv < (trials'[1].bytes_per_sec + 1) * d
      BY <3>6, SMTT(30) DEF Bounded
    <3> HIDE DEF Bounded
    <3> QED BY <3>8, <3>9, SMTT(30)
  <2>4. CASE Len(trials) # 0
    <3>1. PICK i \in 1 .. Len(trials) :
            /\ \A j \in 1 .. Len(trials) : trials[j].bytes_per_sec <= trials[i].bytes_per_sec
            /\ 32000 * tsum.nrecv < (trials[i].bytes_per_sec + 1) * (tsum.tot_usec \div 1000)
      BY <2>4, <1>8 DEF TrialsInv, SumInv
    <3> DEFINE best == trials[i].bytes_per_sec
               new == t.bytes_per_sec
    <3>2. best \in Nat /\ new \in Nat /\ 32000 * tsum.nrecv \in Nat /\ 32000 * t.nrecv \in Nat
      <4>1. trials[i] \in ATrial
        BY <1>3
      <4> QED BY <1>4a, <1>4b, <4>1 DEF ATrial
    <3>3. 32000 * tsum'.nrecv = 32000 * tsum.nrecv + 32000 * t.nrecv
      <4>1. tsum'.nrecv = tsum.nrecv + t.nrecv /\ tsum.nrecv \in Nat /\ t.nrecv \in Nat
        BY <1>4a, <1>4b, <1>7
      <4> QED BY <4>1
    <3>4. CASE new <= best
      <4>1. 32000 * t.nrecv < (best + 1) * (usec \div 1000)
        <5>1. (new + 1) * (usec \div 1000) <= (best + 1) * (usec \div 1000)
          <6> DEFINE ms == usec \div 1000
          <6>1. best \in Nat /\ new \in Nat /\ ms \in Nat
            BY <3>2, <2>2
          <6>2. new <= best
            <7> HIDE DEF best, new
            <7> QED BY <3>4, <6>1
          <6> HIDE DEF best, new, ms
          <6>3. (new + 1) * ms <= (best + 1) * ms
            BY <6>1, <6>2, TimesLeft
          <6> QED BY <6>3 DEF ms
        <5>2. 32000 * t.nrecv < (new + 1) * (usec \div 1000)
          BY <2>1
        <5>3. (best + 1) * (usec \div 1000) \in Int /\ (new + 1) * (usec \div 1000) \in Int
          <6> HIDE DEF best, new, d, tot
          <6> QED BY <2>2, <3>2
        <5> HIDE DEF best, new, d, tot
        <5> QED BY <5>1, <5>2, <5>3, <3>2
      <4>2. 32000 * tsum'.nrecv < (best + 1) * d
        <5>1. 32000 * tsum.nrecv < (best + 1) * (tsum.tot_usec \div 1000)
          BY <3>1
        <5> HIDE DEF best, d, tot
        <5>2. 32000 * tsum.nrecv + 32000 * t.nrecv < (best + 1) * d
          <6> DEFINE n0 == 32000 * tsum.nrecv
                     n1 == 32000 * t.nrecv
                     d0 == tsum.tot_usec \div 1000
                     d1 == usec \div 1000
          <6>1. /\ n0 < (best + 1) * d0 /\ n1 < (best + 1) * d1 /\ d0 + d1 <= d
                /\ n0 \in Nat /\ n1 \in Nat /\ d0 \in Nat /\ d1 \in Nat /\ d \in Nat /\ best \in Nat
            BY <4>1, <5>1, <3>2, <2>2
          <6> HIDE DEF n0, n1, d0, d1
          <6>2. n0 + n1 < (best + 1) * d
            BY <6>1, RatesAdd
          <6> QED BY <6>2 DEF n0, n1
        <5> QED BY <3>3, <5>2
      <4>3. \A j \in 1 .. Len(trials) + 1 : trials'[j].bytes_per_sec <= trials'[i].bytes_per_sec
        BY <1>8, <3>1, <3>4
      <4> QED BY <4>2, <4>3, <1>8
    <3>5. CASE best < new
      <4>1. 32000 * tsum.nrecv < (new + 1) * (tsum.tot_usec \div 1000)
        <5>1. (best + 1) * (tsum.tot_usec \div 1000) <= (new + 1) * (tsum.tot_usec \div 1000)
          <6> DEFINE ms == tsum.tot_usec \div 1000
          <6>1. best \in Nat /\ new \in Nat /\ ms \in Nat
            BY <3>2, <2>2
          <6>2. best <= new
            <7> HIDE DEF best, new
            <7> QED BY <3>5, <6>1
          <6> HIDE DEF best, new, ms
          <6>3. (best + 1) * ms <= (new + 1) * ms
            BY <6>1, <6>2, TimesLeft
          <6> QED BY <6>3 DEF ms
        <5>2. 32000 * tsum.nrecv < (best + 1) * (tsum.tot_usec \div 1000)
          BY <3>1
        <5>3. (best + 1) * (tsum.tot_usec \div 1000) \in Int /\ (new + 1) * (tsum.tot_usec \div 1000) \in Int
          <6> HIDE DEF best, new, d, tot
          <6> QED BY <2>2, <3>2
        <5> HIDE DEF best, new, d, tot
        <5> QED BY <5>1, <5>2, <5>3, <3>2
      <4>2. 32000 * tsum'.nrecv < (new + 1) * d
        <5>1. 32000 * t.nrecv < (new + 1) * (usec \div 1000)
          BY <2>1
        <5> HIDE DEF new, d, tot
        <5>2. 32000 * tsum.nrecv + 32000 * t.nrecv < (new + 1) * d
          <6> DEFINE n0 == 32000 * tsum.nrecv
                     n1 == 32000 * t.nrecv
                     d0 == tsum.tot_usec \div 1000
                     d1 == usec \div 1000
          <6>1. /\ n0 < (new + 1) * d0 /\ n1 < (new + 1) * d1 /\ d0 + d1 <= d
                /\ n0 \in Nat /\ n1 \in Nat /\ d0 \in Nat /\ d1 \in Nat /\ d \in Nat /\ new \in Nat
            BY <4>1, <5>1, <3>2, <2>2
          <6> HIDE DEF n0, n1, d0, d1
          <6>2. n0 + n1 < (new + 1) * d
            BY <6>1, RatesAdd
          <6> QED BY <6>2 DEF n0, n1
        <5> QED BY <3>3, <5>2
      <4>3. \A j \in 1 .. Len(trials) + 1 : trials'[j].bytes_per_sec <= trials'[Len(trials) + 1].bytes_per_sec
        <5> SUFFICES ASSUME NEW j \in 1 .. Len(trials) + 1
                     PROVE  trials'[j].bytes_per_sec <= new
          BY <1>8
        <5>1. CASE j = Len(trials) + 1
          BY <5>1, <1>8, <3>2
        <5>2. CASE j \in 1 .. Len(trials)
          <6>1. trials[j].bytes_per_sec \in Nat /\ trials[j].bytes_per_sec <= best
            <7>1. trials[j] \in ATrial
              BY <5>2, <1>3
            <7> QED BY <7>1, <5>2, <3>1 DEF ATrial
          <6> QED BY <6>1, <3>5, <3>2, <1>8, <5>2
        <5> QED BY <5>1, <5>2, <1>8
      <4> QED BY <4>2, <4>3, <1>8
    <3> QED BY <3>2, <3>4, <3>5
  <2> QED BY <2>3, <2>4, <1>8
<1>11. tsum'.nsent = ntrial * Len(trials') /\ tsum'.nsent = tsum'.nrecv + tsum'.nlost
  <2>1. ntrial * (Len(trials) + 1) = ntrial * Len(trials) + ntrial
    BY <1>3, <1>8, Z3
  <2>2. tsum'.nsent = ntrial * Len(trials')
    BY <2>1, <1>4c, <1>7, <1>8
  <2>3. tsum'.nsent = tsum'.nrecv + tsum'.nlost
    BY <1>3, <1>4, <1>4a, <1>4b, <1>4c, <1>7
  <2> QED BY <2>2, <2>3
<1>12. tsum' = Trials!trial_mk(tsum'.tot_usec, tsum'.nsent, tsum'.nlost, 32)
  BY <1>5, <1>7
<1>13. SumInv'
  <2>1. Len(trials') # 0 /\ tsum'.tot_usec >= 1000
    BY <1>6, <1>7, <1>8
  <2>2. \E i \in DOMAIN trials' :
       /\ \A j \in DOMAIN trials' : trials'[j].bytes_per_sec <= trials'[i].bytes_per_sec
       /\ 32000 * tsum'.nrecv < (trials'[i].bytes_per_sec + 1) * (tsum'.tot_usec \div 1000)
    BY <1>7, <1>8, <1>10
  <2> QED BY <2>1, <2>2, <1>11, <1>12 DEF SumInv
<1> QED BY <1>9, <1>13 DEF TrialsInv

(* The search halves the interval that holds the shortest timeout.         *)
LEMMA SearchStep ==
  ASSUME Trials!TrialsAssumption
  PROVE  TrialsInv /\ (Trials!StartSearch \/ Trials!est_bsearch(Trials!est_get < works)) => TrialsInv'
<1>1. ASSUME TrialsInv, Trials!StartSearch PROVE TrialsInv'
  <2>1. PICK t \in Nat : /\ est' = [hi |-> t, lo |-> 0, cur |-> t]
                         /\ works' \in 1 .. t
    BY <1>1 DEF Trials!StartSearch, Trials!est_mk, Trials!TrialsAssumption
  <2>2. /\ part' = "search" /\ trials' = <<>> /\ tsum' = Trials!trial_mk(0, 0, 0, 32)
    BY <1>1 DEF Trials!StartSearch
  <2>3. tsum' = [tot_usec |-> 0, nsent |-> 0, nlost |-> 0, nrecv |-> 0, bytes_per_sec |-> 0]
    BY <2>2 DEF Trials!trial_mk
  <2>4. TrialsTypes' /\ SearchInv'
    BY <2>1, <2>2, <2>3 DEF TrialsTypes, SearchInv, ATrial
  <2>5. Len(trials') = 0 /\ ntrial * 0 = 0
    BY <2>2 DEF Trials!TrialsAssumption
  <2>6. SumInv'
    BY <2>2, <2>3, <2>5 DEF SumInv
  <2> QED BY <2>4, <2>6 DEF TrialsInv
<1>2. ASSUME TrialsInv, Trials!est_bsearch(Trials!est_get < works) PROVE TrialsInv'
  <2>1. /\ part = "search" /\ UNCHANGED <<trials, tsum, works>>
        /\ est \in [hi : Nat, lo : Nat, cur : Nat] /\ works \in Nat
        /\ est.lo < works /\ works <= est.hi /\ est.lo < est.cur /\ est.cur <= est.hi
    BY <1>2 DEF Trials!est_bsearch, Trials!est_increase, Trials!est_decrease, TrialsInv, TrialsTypes, SearchInv
  <2>2. SumInv'
    BY <1>2, <2>1 DEF TrialsInv, SumInv
  <2>3. CASE est.cur < works
    <3> DEFINE x == (est.hi + est.cur) \div 2
    <3>1. /\ part' = IF x >= est.hi THEN "done" ELSE IF x <= est.cur THEN "assert" ELSE part
          /\ est' = [est EXCEPT !.lo = est.cur, !.cur = IF x > est.cur /\ x < est.hi THEN x ELSE @]
      BY <1>2, <2>3 DEF Trials!est_bsearch, Trials!est_increase, Trials!est_get
    <3>2. x \in Nat /\ (est.cur < est.hi => x < est.hi) /\ (x <= est.cur => est.hi <= est.cur + 1)
          /\ est.cur <= x
      BY <2>1
    <3>3. est.cur < est.hi
      BY <2>1, <2>3
    <3> HIDE DEF x
    <3>4. TrialsTypes'
      BY <1>2, <2>1, <3>1, <3>2 DEF TrialsTypes, TrialsInv
    <3>5. SearchInv'
      BY <2>1, <2>3, <3>1, <3>2, <3>3 DEF SearchInv
    <3> QED BY <2>2, <3>4, <3>5 DEF TrialsInv
  <2>4. CASE ~ (est.cur < works)
    <3> DEFINE x == (est.cur + est.lo) \div 2
    <3>1. IF x <= est.lo THEN part' = "done" /\ est' = [est EXCEPT !.hi = est.cur]
          ELSE est' = [est EXCEPT !.hi = est.cur, !.cur = x] /\ UNCHANGED part
      BY <1>2, <2>4 DEF Trials!est_bsearch, Trials!est_decrease, Trials!est_get
    <3>2. x \in Nat /\ x <= est.cur /\ (x <= est.lo => est.cur <= est.lo + 1)
      BY <2>1
    <3> HIDE DEF x
    <3>4. TrialsTypes'
      BY <1>2, <2>1, <3>1, <3>2 DEF TrialsTypes, TrialsInv
    <3>5. SearchInv'
      <4>1. CASE x <= est.lo
        <5>1. est'.hi = est.cur /\ est'.lo = est.lo /\ est'.cur = est.cur /\ part' = "done" /\ works' = works
          BY <2>1, <3>1, <4>1
        <5>2. est.cur = works
          BY <2>1, <2>4, <3>2, <4>1
        <5> QED BY <2>1, <5>1, <5>2 DEF SearchInv
      <4>2. CASE ~ (x <= est.lo)
        <5>1. est'.hi = est.cur /\ est'.lo = est.lo /\ est'.cur = x /\ part' = "search" /\ works' = works
          BY <2>1, <3>1, <4>2
        <5>2. est.lo < x /\ works <= est.cur
          BY <2>1, <2>4, <3>2, <4>2
        <5> QED BY <2>1, <3>2, <5>1, <5>2 DEF SearchInv
      <4> QED BY <4>1, <4>2
    <3> QED BY <2>2, <3>4, <3>5 DEF TrialsInv
  <2> QED BY <2>3, <2>4
<1> QED BY <1>1, <1>2

(* A radio test's summary shows every packet and no better a rate than its *)
(* best trial's; the search for a timeout always keeps the shortest one    *)
(* that works in its interval and ends with it, or in the assertion right  *)
(* below it: for every number of trials and packets, any times they take   *)
(* (but less than a millisecond) and whatever timeout works.               *)
THEOREM TrialsAreSound == ASSUME Trials!TrialsAssumption PROVE Trials!Spec => []TrialsSound
<1>1. Trials!Init => TrialsInv
  <2> SUFFICES ASSUME Trials!Init PROVE TrialsInv
    OBVIOUS
  <2>1. /\ part = "trials" /\ trials = <<>> /\ works = 0 /\ est = [hi |-> 0, lo |-> 0, cur |-> 0]
        /\ tsum = Trials!trial_mk(0, 0, 0, 32)
    BY DEF Trials!Init, Trials!est_mk
  <2>2. tsum = [tot_usec |-> 0, nsent |-> 0, nlost |-> 0, nrecv |-> 0, bytes_per_sec |-> 0]
    BY <2>1 DEF Trials!trial_mk
  <2>3. Len(trials) = 0 /\ ntrial * 0 = 0
    BY <2>1 DEF Trials!TrialsAssumption
  <2>4. SumInv
    BY <2>1, <2>2, <2>3 DEF SumInv
  <2> QED BY <2>1, <2>2, <2>4 DEF TrialsInv, TrialsTypes, SearchInv, ATrial
<1>2. TrialsInv /\ [Trials!Next]_(Trials!trialvars) => TrialsInv'
  <2>1. TrialsInv /\ Trials!Next => TrialsInv'
    BY TrialStep, SearchStep DEF Trials!Next
  <2>2. TrialsInv /\ UNCHANGED Trials!trialvars => TrialsInv'
    BY DEF Trials!trialvars, TrialsInv, TrialsTypes, SumInv, SearchInv
  <2> QED BY <2>1, <2>2
<1>3. TrialsInv => Trials!TrialsSound
  <2> SUFFICES ASSUME TrialsInv PROVE Trials!TrialsSound
    OBVIOUS
  <2>1. tsum.nsent = ntrial * Len(trials) /\ tsum.nsent = tsum.nrecv + tsum.nlost
    BY DEF TrialsInv, SumInv
  <2>2. ASSUME trials # <<>>
        PROVE  tsum.bytes_per_sec <= Trials!Max({trials[i].bytes_per_sec : i \in DOMAIN trials})
    <3>1. Len(trials) # 0 /\ tsum \in ATrial /\ trials \in Seq(ATrial)
      BY <2>2 DEF TrialsInv, TrialsTypes
    <3>2. PICK i \in DOMAIN trials :
            /\ \A j \in DOMAIN trials : trials[j].bytes_per_sec <= trials[i].bytes_per_sec
            /\ 32000 * tsum.nrecv < (trials[i].bytes_per_sec + 1) * (tsum.tot_usec \div 1000)
      BY <3>1 DEF TrialsInv, SumInv
    <3> DEFINE best == trials[i].bytes_per_sec
               rates == {trials[j].bytes_per_sec : j \in DOMAIN trials}
    <3>3. best \in Nat /\ rates \subseteq Nat
      <4>1. \A j \in DOMAIN trials : trials[j] \in ATrial
        BY <3>1
      <4> QED BY <4>1, <3>2 DEF ATrial
    <3>4. best \in rates /\ \A r \in rates : best >= r
      BY <3>2, <3>3
    <3>5. Trials!Max(rates) = best
      <4>1. \A r \in rates : (\A y \in rates : r >= y) => r = best
        <5> HIDE DEF rates, best
        <5> QED BY <3>3, <3>4
      <4> HIDE DEF rates, best
      <4> QED BY <4>1, <3>4 DEF Trials!Max
    <3>6. tsum.bytes_per_sec <= best
      <4>1. tsum.bytes_per_sec = (32000 * tsum.nrecv) \div (tsum.tot_usec \div 1000)
        <5>a. PICK us \in Nat : us = tsum.tot_usec /\ us >= 1000
          BY <3>1 DEF TrialsInv, SumInv, ATrial
        <5>b. PICK k \in Nat : k = tsum.nsent
          BY <3>1 DEF ATrial
        <5>c. PICK l \in Nat : l = tsum.nlost
          BY <3>1 DEF ATrial
        <5>1. l <= k
          BY <2>1, <3>1, <5>b, <5>c DEF ATrial
        <5>2. tsum = Trials!trial_mk(us, k, l, 32)
          BY <5>a, <5>b, <5>c DEF TrialsInv, SumInv
        <5>3. tsum.bytes_per_sec = (32000 * tsum.nrecv) \div (us \div 1000)
          <6> DEFINE u == tsum
          <6>1. u = Trials!trial_mk(us, k, l, 32)
            BY <5>2
          <6>2. us >= 1000
            BY <5>a
          <6> HIDE DEF u
          <6>3. u.nrecv = k - l
            BY <5>1, <6>1, <6>2, TrialMk
          <6>4. u.bytes_per_sec = (32000 * (k - l)) \div (us \div 1000)
            BY <5>1, <6>1, <6>2, TrialRate
          <6> QED BY <6>3, <6>4 DEF u
        <5> QED BY <5>a, <5>3
      <4> DEFINE K == 32000 * tsum.nrecv
                 d == tsum.tot_usec \div 1000
                 q == tsum.bytes_per_sec
      <4>2. K \in Nat /\ d \in Nat \ {0} /\ q = K \div d /\ K < (best + 1) * d
        <5>1. tsum.tot_usec \in Nat /\ tsum.tot_usec >= 1000 /\ tsum.nrecv \in Nat
          BY <3>1 DEF TrialsInv, SumInv, ATrial
        <5> QED BY <4>1, <5>1, <3>2, WholeMillis
      <4> HIDE DEF K, d, q, best
      <4>3. q <= best
        BY <4>2, <3>3, RateLeast
      <4> QED BY <4>3 DEF q
    <3> QED BY <3>5, <3>6
  <2>3. /\ part \in {"search", "done", "assert"} => est.lo < works /\ works <= est.hi
        /\ part = "done" => est.cur = works
        /\ part = "assert" => est.hi = works /\ est.lo = works - 1
    BY DEF TrialsInv, TrialsTypes, SearchInv
  <2> QED BY <2>1, <2>2, <2>3 DEF Trials!TrialsSound
<1> QED BY <1>1, <1>2, <1>3, PTL DEF Trials!Spec, TrialsSound
-----------------------------------------------------------------------------
(* The average that timer-int prints is honest.  Of its counters the       *)
(* invariant says which times they are the sum of, and that no interrupt   *)
(* lost its time unless it is among the restarts; of the profile, which    *)
(* interrupts each sample counts.                                          *)

DemoTypes ==
  /\ clock \in 0 .. DemoWidth - 1 /\ last_clk \in 0 .. DemoWidth - 1 /\ cnt \in Nat
  /\ IF cnt = 0 THEN last_clk = 0 ELSE last_clk = clock

AverageInv ==
  /\ samples = <<>> /\ place # "profile"
  /\ passed \in [all : Nat, seen : Nat, byN : Nat] /\ passed.byN <= passed.all
  /\ cnt = 0 => passed.all = 0 /\ passed.seen = 0 /\ passed.byN = 0
  /\ period_sum = passed.seen % DemoWidth
  /\ restarts \subseteq {1} => passed.seen = passed.all
  /\ place = "reboot" => average = period_sum \div (N - 1)

ProfileInv ==
  /\ place \in {"profile", "reboot"} /\ samples \in [Samplable -> Nat]
  /\ found \in Seq(Samplable) /\ Len(found) = cnt
  /\ \A at \in Samplable : samples[at] = Cardinality({i \in 1 .. cnt : found[i] = at})
  /\ period \in Gaps \cup {0}

DemoInv == DemoTypes /\ (AverageInv \/ ProfileInv)

\* Two readings of the counter that are a gap apart differ by the gap.
LEMMA GapRead ==
  ASSUME Demo!DemoAssumption, NEW c \in 0 .. DemoWidth - 1, NEW g \in Gaps
  PROVE  /\ (c + g) % DemoWidth \in 0 .. DemoWidth - 1
         /\ (((c + g) % DemoWidth) - c) % DemoWidth = g
<1> DEFINE w == DemoWidth
           q == (c + g) \div w
           r == (c + g) % w
<1>1. w \in Nat \ {0} /\ c \in 0 .. w - 1 /\ g \in 0 .. w - 1 /\ c + g \in Int
  BY DEF Demo!DemoAssumption
<1> HIDE DEF w
<1>2. r \in 0 .. w - 1 /\ q \in Int /\ c + g = q * w + r
  BY <1>1, ModDef
<1> HIDE DEF q, r
<1>3. -q \in Int /\ r - c = (-q) * w + g
  <2>1. (-q) * w = -(q * w)
    BY <1>1, <1>2, Z3
  <2> QED BY <2>1, <1>1, <1>2
<1>4. ((-q) * w + g) % w = g
  BY <1>1, <1>3, ModUnique
<1> QED BY <1>2, <1>3, <1>4 DEF r, w

\* A sum that wraps goes on being the sum, wrapped.
LEMMA WrappedSum ==
  ASSUME NEW w \in Nat \ {0}, NEW a \in Nat, NEW g \in 0 .. w - 1
  PROVE  ((a % w) + g) % w = (a + g) % w
<1> DEFINE q == a \div w
           r == a % w
           p == (r + g) \div w
           s == (r + g) % w
<1>1. r \in 0 .. w - 1 /\ q \in Int /\ a = q * w + r
  BY ModDef
<1>2. r + g \in Int
  BY <1>1
<1>3. s \in 0 .. w - 1 /\ p \in Int /\ r + g = p * w + s
  <2> HIDE DEF r
  <2> QED BY <1>2, ModDef
<1> HIDE DEF q, r, p, s
<1>4. q + p \in Int /\ a + g = (q + p) * w + s
  BY <1>1, <1>3, Z3
<1>5. ((q + p) * w + s) % w = s
  BY <1>3, <1>4, ModUnique
<1> QED BY <1>4, <1>5 DEF r, s

\* A sum that has not wrapped is itself.
LEMMA SmallSum ==
  ASSUME NEW w \in Nat \ {0}, NEW a \in 0 .. w - 1
  PROVE  a % w = a
<1>1. 0 * w + a = a
  OBVIOUS
<1>2. (0 * w + a) % w = a
  BY ModUnique
<1> QED BY <1>1, <1>2

\* An average is at most the sum over the count, and grows with the sum.
LEMMA AverageBounds ==
  ASSUME NEW d \in Nat \ {0}, NEW a \in Nat, NEW b \in Nat, b <= a
  PROVE  (a \div d) * d <= a /\ a \div d >= b \div d
<1> DEFINE qa == a \div d
           ra == a % d
           qb == b \div d
           rb == b % d
<1>1. ra \in 0 .. d - 1 /\ qa \in Int /\ a = qa * d + ra
  BY ModDef
<1>2. rb \in 0 .. d - 1 /\ qb \in Int /\ b = qb * d + rb
  BY ModDef
<1> HIDE DEF qa, ra, qb, rb
<1>3. qa * d <= a
  BY <1>1, Z3
<1>4. qa >= qb
  <2> SUFFICES ASSUME qa < qb PROVE FALSE
    BY <1>1, <1>2
  <2>1. qb >= qa + 1
    BY <1>1, <1>2
  <2>2. qb * d >= (qa + 1) * d
    BY <2>1, <1>1, <1>2, Z3
  <2>3. (qa + 1) * d = qa * d + d
    BY <1>1, Z3
  <2>4. qb * d \in Int /\ qa * d \in Int
    BY <1>1, <1>2
  <2> QED BY <2>2, <2>3, <2>4, <1>1, <1>2
<1> QED BY <1>3, <1>4 DEF qa, qb

\* The count the module itself uses.
LEMMA DemoCardinality ==
  ASSUME NEW S
  PROVE  Demo!Cardinality(S) = Cardinality(S)
BY Zenon DEF Demo!Cardinality, Cardinality, Demo!IsFiniteSet, IsFiniteSet

\* What every handler does with the counter.
LEMMA HandlerReads ==
  ASSUME Demo!DemoAssumption, DemoTypes, NEW g \in Gaps, clock' = (clock + g) % DemoWidth,
         cnt' = cnt + 1, last_clk' = clock'
  PROVE  /\ DemoTypes' /\ (cnt = 0 => last_clk = 0)
         /\ last_clk # 0 => (clock' - last_clk) % DemoWidth = g
<1>1. clock' \in 0 .. DemoWidth - 1 /\ (clock' - clock) % DemoWidth = g
  BY GapRead DEF DemoTypes
<1> QED BY <1>1 DEF DemoTypes

\* Every interrupt, and every step of notmain, keeps the invariant.
LEMMA DemoStep ==
  ASSUME Demo!DemoAssumption, DemoInv, [Demo!Next]_Demo!demovars
  PROVE  DemoInv'
<1>w. DemoWidth \in Nat \ {0} /\ N \in Nat /\ N > 1 /\ Gaps \subseteq 0 .. DemoWidth - 1
  BY DEF Demo!DemoAssumption
<1>1. CASE UNCHANGED Demo!demovars
  BY <1>1 DEF Demo!demovars, DemoInv, DemoTypes, AverageInv, ProfileInv
<1>2. CASE Demo!interrupt_vector
  <2>1. PICK g \in Gaps : clock' = (clock + g) % DemoWidth /\ Demo!Passes(g)
    BY <1>2 DEF Demo!interrupt_vector
  <2>2. /\ place \in {"wait", "report"} /\ cnt' = cnt + 1 /\ last_clk' = clock'
        /\ period' = IF last_clk = 0 THEN 0 ELSE (clock' - last_clk) % DemoWidth
        /\ period_sum' = (period_sum + period') % DemoWidth
        /\ restarts' = IF last_clk = 0 THEN restarts \cup {cnt'} ELSE restarts
        /\ UNCHANGED <<place, average, samples, found>>
    BY <1>2 DEF Demo!interrupt_vector
  <2>3. DemoTypes /\ AverageInv
    BY <2>2 DEF DemoInv, ProfileInv
  <2>4. /\ DemoTypes' /\ (cnt = 0 => last_clk = 0)
        /\ period' = IF last_clk = 0 THEN 0 ELSE g
    BY <2>1, <2>2, <2>3, HandlerReads
  <2>5. /\ passed'.all = IF cnt = 0 THEN 0 ELSE passed.all + g
        /\ passed'.seen = IF last_clk = 0 THEN passed.seen ELSE passed.seen + g
        /\ passed'.byN = IF cnt \in 1 .. N - 1 THEN passed.byN + g ELSE passed.byN
        /\ passed' \in [all : Nat, seen : Nat, byN : Nat]
    BY <1>w, <2>1, <2>3 DEF Demo!Passes, AverageInv
  <2>6. passed.all \in Nat /\ passed.seen \in Nat /\ passed.byN \in Nat /\ g \in 0 .. DemoWidth - 1 /\ cnt \in Nat
    BY <1>w, <2>3 DEF AverageInv, DemoTypes
  <2>7. passed'.byN <= passed'.all
    BY <2>3, <2>5, <2>6 DEF AverageInv
  <2>8. period_sum' = passed'.seen % DemoWidth
    <3>1. CASE last_clk = 0
      <4>1. period_sum' = ((passed.seen % DemoWidth) + 0) % DemoWidth
        BY <2>2, <2>3, <2>4, <3>1 DEF AverageInv
      <4>2. 0 \in 0 .. DemoWidth - 1 /\ passed.seen + 0 = passed.seen
        BY <1>w, <2>6
      <4>3. ((passed.seen % DemoWidth) + 0) % DemoWidth = (passed.seen + 0) % DemoWidth
        BY <1>w, <2>6, <4>2, WrappedSum
      <4> QED BY <4>1, <4>2, <4>3, <2>5, <3>1
    <3>2. CASE last_clk # 0
      <4>1. period_sum' = ((passed.seen % DemoWidth) + g) % DemoWidth
        BY <2>2, <2>3, <2>4, <3>2 DEF AverageInv
      <4>2. ((passed.seen % DemoWidth) + g) % DemoWidth = (passed.seen + g) % DemoWidth
        BY <1>w, <2>6, WrappedSum
      <4> QED BY <4>1, <4>2, <2>5, <3>2
    <3> QED BY <3>1, <3>2
  <2>9. restarts' \subseteq {1} => passed'.seen = passed'.all
    <3> SUFFICES ASSUME restarts' \subseteq {1} PROVE passed'.seen = passed'.all
      OBVIOUS
    <3>1. restarts \subseteq {1} /\ (last_clk = 0 => cnt + 1 = 1)
      BY <2>2
    <3>2. last_clk = 0 <=> cnt = 0
      BY <2>4, <2>6, <3>1
    <3> QED BY <3>1, <3>2, <2>3, <2>5, <2>6 DEF AverageInv
  <2>10. AverageInv'
    <3>1. cnt' # 0 /\ place' # "reboot" /\ place' # "profile" /\ samples' = <<>>
      BY <2>2, <2>3, <2>6 DEF AverageInv
    <3> QED BY <3>1, <2>5, <2>7, <2>8, <2>9 DEF AverageInv
  <2> QED BY <2>4, <2>10 DEF DemoInv
<1>3. CASE Demo!Counted \/ Demo!Report
  <2>1. /\ place \in {"wait", "report"} /\ (place' = "report" \/ (place' = "reboot" /\ average' = period_sum \div (N - 1)))
        /\ UNCHANGED <<clock, cnt, period, period_sum, last_clk, passed, samples, found, restarts>>
    BY <1>3 DEF Demo!Counted, Demo!Report
  <2>2. DemoTypes /\ AverageInv
    BY <2>1 DEF DemoInv, ProfileInv
  <2>3. DemoTypes' /\ AverageInv'
    BY <2>1, <2>2 DEF DemoTypes, AverageInv
  <2> QED BY <2>3 DEF DemoInv
<1>4. CASE Demo!gprof_vector
  <2>1. PICK at \in Samplable : Demo!gprof_inc(at) /\ found' = Append(found, at)
    BY <1>4 DEF Demo!gprof_vector
  <2>2. PICK g \in Gaps : clock' = (clock + g) % DemoWidth
    BY <1>4 DEF Demo!gprof_vector
  <2>3. /\ place = "profile" /\ cnt' = cnt + 1 /\ last_clk' = clock' /\ place' = place
        /\ period' = IF last_clk = 0 THEN 0 ELSE (clock' - last_clk) % DemoWidth
    BY <1>4 DEF Demo!gprof_vector
  <2>4. DemoTypes /\ ProfileInv
    BY <2>3 DEF DemoInv, AverageInv
  <2>5. DemoTypes' /\ period' \in Gaps \cup {0}
    BY <2>2, <2>3, <2>4, HandlerReads
  <2>6. samples' = [samples EXCEPT ![at] = @ + 1] /\ samples' \in [Samplable -> Nat]
    BY <2>1, <2>4 DEF Demo!gprof_inc, ProfileInv
  <2>7. found' \in Seq(Samplable) /\ Len(found') = cnt' /\ found'[cnt + 1] = at /\ \A i \in 1 .. cnt : found'[i] = found[i]
    BY <2>1, <2>3, <2>4 DEF ProfileInv
  <2>8. ASSUME NEW a \in Samplable
        PROVE  samples'[a] = Cardinality({i \in 1 .. cnt' : found'[i] = a})
    <3> DEFINE S == {i \in 1 .. cnt : found[i] = a}
               T == {i \in 1 .. cnt' : found'[i] = a}
    <3>0. cnt \in Nat /\ cnt' = cnt + 1
      BY <2>3, <2>4 DEF DemoTypes
    <3>1. IsFiniteSet(S) /\ cnt + 1 \notin S
      <4>1. IsFiniteSet(1 .. cnt)
        BY <3>0, FS_Interval
      <4> QED BY <4>1, <3>0, FS_Subset
    <3>2. samples[a] = Cardinality(S) /\ samples[a] \in Nat
      BY <2>4 DEF ProfileInv
    <3>3. CASE a = at
      <4>1. T = S \cup {cnt + 1}
        BY <2>7, <3>0, <3>3
      <4>2. Cardinality(S \cup {cnt + 1}) = Cardinality(S) + 1
        <5> HIDE DEF S
        <5> QED BY <3>1, FS_AddElement
      <4>3. samples'[a] = samples[a] + 1
        BY <2>4, <2>6, <3>3 DEF ProfileInv
      <4> HIDE DEF S, T
      <4> QED BY <4>1, <4>2, <4>3, <3>2 DEF T
    <3>4. CASE a # at
      <4>1. T = S
        BY <2>7, <3>0, <3>4
      <4>2. samples'[a] = samples[a]
        BY <2>4, <2>6, <3>4 DEF ProfileInv
      <4> HIDE DEF S
      <4> QED BY <4>1, <4>2, <3>2
    <3> QED BY <3>3, <3>4
  <2>9. ProfileInv'
    BY <2>3, <2>5, <2>6, <2>7, <2>8 DEF ProfileInv
  <2> QED BY <2>5, <2>9 DEF DemoInv
<1>5. CASE Demo!Profiled
  <2>1. DemoTypes /\ ProfileInv /\ place' = "reboot"
    BY <1>5 DEF Demo!Profiled, DemoInv, AverageInv
  <2>2. UNCHANGED <<clock, cnt, period, last_clk, samples, found>>
    BY <1>5 DEF Demo!Profiled
  <2> QED BY <2>1, <2>2 DEF DemoInv, DemoTypes, ProfileInv
<1> QED BY <1>1, <1>2, <1>3, <1>4, <1>5 DEF Demo!Next

(* Whatever the width of the counter, the times between interrupts and the *)
(* number waited for, the average and the profile are honest.              *)
THEOREM AverageIsHonest ==
  ASSUME Demo!DemoAssumption
  PROVE  Demo!Spec => []AverageHonest
<1>1. Demo!Init => DemoInv
  <2> SUFFICES ASSUME Demo!Init PROVE DemoInv
    OBVIOUS
  <2>1. DemoTypes
    BY DEF Demo!Init, Demo!DemoAssumption, DemoTypes
  <2>2. CASE place = "wait" /\ samples = <<>>
    <3>1. 0 % DemoWidth = 0
      BY SmallSum DEF Demo!DemoAssumption
    <3>2. AverageInv
      BY <2>2, <3>1 DEF Demo!Init, AverageInv
    <3> QED BY <2>1, <3>2 DEF DemoInv
  <2>3. CASE place = "profile" /\ samples = [at \in Samplable |-> 0]
    <3>1. cnt = 0 /\ found = <<>> /\ period = 0
      BY DEF Demo!Init
    <3>2. \A at \in Samplable : {i \in 1 .. cnt : found[i] = at} = {}
      BY <3>1
    <3>3. \A at \in Samplable : samples[at] = Cardinality({i \in 1 .. cnt : found[i] = at})
      BY <2>3, <3>2, FS_EmptySet
    <3>4. ProfileInv
      BY <2>3, <3>1, <3>3 DEF ProfileInv
    <3> QED BY <2>1, <3>4 DEF DemoInv
  <2> QED BY <2>2, <2>3 DEF Demo!Init
<1>2. DemoInv /\ [Demo!Next]_Demo!demovars => DemoInv'
  BY DemoStep
<1>3. DemoInv => Demo!AverageHonest
  <2> SUFFICES ASSUME DemoInv PROVE Demo!AverageHonest
    OBVIOUS
  <2>1. CASE AverageInv
    <3>1. samples = <<>> /\ period_sum = passed.seen % DemoWidth
      BY <2>1 DEF AverageInv
    <3>2. ASSUME place = "reboot", restarts \subseteq {1}, passed.all < DemoWidth
          PROVE  /\ average * (N - 1) <= passed.all
                 /\ average >= passed.byN \div (N - 1)
                 /\ average = passed.all \div (N - 1)
      <4>1. /\ passed.all \in Nat /\ passed.byN \in Nat /\ passed.byN <= passed.all
            /\ period_sum = passed.all % DemoWidth /\ average = period_sum \div (N - 1)
        BY <2>1, <3>2 DEF AverageInv
      <4>2. N - 1 \in Nat \ {0} /\ DemoWidth \in Nat \ {0}
        BY DEF Demo!DemoAssumption
      <4>3. average = passed.all \div (N - 1)
        BY <3>2, <4>1, <4>2, SmallSum
      <4> QED BY <4>1, <4>2, <4>3, AverageBounds
    <3> QED BY <3>1, <3>2 DEF Demo!AverageHonest
  <2>2. CASE ProfileInv
    <3>1. samples # <<>>
      <4>1. samples \in [Samplable -> Nat] /\ Samplable # {}
        BY <2>2 DEF ProfileInv, Demo!DemoAssumption
      <4> QED BY <4>1
    <3>2. period \in Gaps \cup {0} /\ \A at \in Samplable : samples[at] = Cardinality({i \in 1 .. cnt : found[i] = at})
      BY <2>2 DEF ProfileInv
    <3>3. \A at \in Samplable : samples[at] = Demo!Cardinality({i \in 1 .. cnt : found[i] = at})
      BY <3>2, DemoCardinality, Zenon
    <3> QED BY <3>1, <3>2, <3>3, Zenon DEF Demo!AverageHonest
  <2> QED BY <2>1, <2>2 DEF DemoInv
<1> QED BY <1>1, <1>2, <1>3, PTL DEF Demo!Spec, AverageHonest
-----------------------------------------------------------------------------
(* The memory of the fake Pis is memory.  The invariant has, for every     *)
(* address whose value is known, the one entry that holds it, and counts   *)
(* what the lab has traced up to the statement that stops it.              *)
Entry == [addr : Fake!Addr, val : Int]
OneEntry == \A i, j \in 1 .. Len(mem) : mem[i].addr = mem[j].addr => i = j
Holding(a, v) == \E i \in 1 .. Len(mem) : mem[i].addr = a /\ mem[i].val = v

MemInv ==
  /\ fake \in {"lab", "lib"} /\ calls \in Nat
  /\ mem \in Seq(Entry) /\ known \in [Fake!Addr -> Int]
  /\ OneEntry
  /\ \A a \in Fake!Addr : known[a] # -1 /\ a \notin Fake!Volatile(fake) => Holding(a, known[a])
  /\ IF fake = "lab" THEN Len(mem) = 6 ELSE Len(mem) <= MEM_MAX

TraceInv ==
  /\ traced \in Nat /\ traced <= max_trace + 1
  /\ fake # "lab" => traced = 0
  /\ end = "no" => traced <= max_trace
  /\ end = "enough" => traced = max_trace + 1

FakeInv == MemInv /\ TraceInv

\* The search finds the entry of an address, if it has one.
LEMMA Lookup ==
  ASSUME MemInv, NEW a
  PROVE  /\ Fake!mem_lookup(a) \in 0 .. Len(mem)
         /\ Fake!mem_lookup(a) # 0 => mem[Fake!mem_lookup(a)].addr = a
         /\ \A i \in 1 .. Len(mem) : mem[i].addr = a => Fake!mem_lookup(a) = i
<1> DEFINE at == {i \in DOMAIN mem : mem[i].addr = a}
<1>1. /\ Len(mem) \in Nat /\ DOMAIN mem = 1 .. Len(mem) /\ OneEntry
  BY DEF MemInv
<1>2. Fake!mem_lookup(a) = IF at = {} THEN 0 ELSE CHOOSE i \in at : \A j \in at : i <= j
  BY DEF Fake!mem_lookup
<1>3. CASE at = {}
  BY <1>1, <1>2, <1>3
<1>4. CASE at # {}
  <2>1. PICK k \in at : TRUE
    BY <1>4
  <2>2. k \in 1 .. Len(mem) /\ mem[k].addr = a
    BY <2>1, <1>1
  <2>3. \A j \in at : j = k
    BY <2>2, <1>1 DEF OneEntry
  <2> HIDE DEF at
  <2>4. Fake!mem_lookup(a) = k
    <3>1. k <= k
      BY <2>2, <1>1
    <3> QED BY <3>1, <2>1, <2>3, <1>2, <1>4
  <2> QED BY <2>2, <2>3, <2>4, <1>1 DEF at
<1> QED BY <1>3, <1>4

\* A random number is one of the stream's.
LEMMA FakeRandom ==
  ASSUME Fake!FakeAssumption, NEW k \in Nat
  PROVE  Fake!fake_random(k) \in Int /\ (k + 1) % Len(Stream) \in Nat
<1>1. Len(Stream) \in Nat \ {0}
  BY DEF Fake!FakeAssumption
<1> DEFINE L == Len(Stream)
<1> HIDE DEF L
<1>2. k % Len(Stream) \in 0 .. Len(Stream) - 1 /\ (k + 1) % Len(Stream) \in 0 .. Len(Stream) - 1
  <2>1. L \in Nat \ {0} /\ k \in Int /\ k + 1 \in Int
    BY <1>1 DEF L
  <2>2. k % L \in 0 .. L - 1 /\ (k + 1) % L \in 0 .. L - 1
    BY <2>1, ModDef
  <2> QED BY <2>2 DEF L
<1>3. (k % Len(Stream)) + 1 \in 1 .. Len(Stream)
  BY <1>1, <1>2
<1> QED BY <1>1, <1>2, <1>3 DEF Fake!fake_random, Fake!FakeAssumption

\* A value that is stored where the address has its entry, or that makes one.
LEMMA PutStep ==
  ASSUME Fake!FakeAssumption, MemInv, NEW a \in Fake!Addr, NEW v \in Int, ~Fake!NoRoom(a), Fake!Put(a, v), calls' \in Nat
  PROVE  MemInv'
<1>1. /\ known' = [known EXCEPT ![a] = v] /\ fake' = fake
      /\ mem' = IF Fake!mem_lookup(a) # 0 THEN [mem EXCEPT ![Fake!mem_lookup(a)].val = v]
                ELSE Append(mem, Fake!mem_ent(a, v))
  BY DEF Fake!Put
<1>2. /\ mem \in Seq(Entry) /\ Len(mem) \in Nat /\ known \in [Fake!Addr -> Int] /\ OneEntry /\ fake \in {"lab", "lib"}
      /\ \A b \in Fake!Addr : known[b] # -1 /\ b \notin Fake!Volatile(fake) => Holding(b, known[b])
      /\ IF fake = "lab" THEN Len(mem) = 6 ELSE Len(mem) <= MEM_MAX
  BY DEF MemInv
<1>3. known' \in [Fake!Addr -> Int] /\ known'[a] = v /\ \A b \in Fake!Addr : b # a => known'[b] = known[b]
  BY <1>1, <1>2
<1>4. CASE Fake!mem_lookup(a) # 0
  <2>1. PICK k \in 1 .. Len(mem) : mem[k].addr = a /\ k = Fake!mem_lookup(a)
    BY <1>2, <1>4, Lookup
  <2>2. mem' = [mem EXCEPT ![k].val = v]
    BY <1>1, <1>4, <2>1
  <2>3. mem[k] \in Entry
    BY <1>2, <2>1
  <2>4. mem' = [mem EXCEPT ![k] = [addr |-> a, val |-> v]]
    <3>1. [mem[k] EXCEPT !.val = v] = [addr |-> a, val |-> v]
      BY <2>1, <2>3 DEF Entry
    <3> QED BY <2>2, <3>1, <2>1, <1>2
  <2>5. [addr |-> a, val |-> v] \in Entry
    BY DEF Entry
  <2>6. /\ mem' \in Seq(Entry) /\ Len(mem') = Len(mem)
        /\ mem'[k] = [addr |-> a, val |-> v] /\ \A i \in 1 .. Len(mem) : i # k => mem'[i] = mem[i]
    <3> DEFINE e == [addr |-> a, val |-> v]
    <3> HIDE DEF e, Entry
    <3> QED BY <1>2, <2>1, <2>4, <2>5 DEF e
  <2>7. \A i \in 1 .. Len(mem) : mem'[i].addr = mem[i].addr
    BY <2>1, <2>6
  <2>8. OneEntry'
    BY <1>2, <2>6, <2>7 DEF OneEntry
  <2>9. ASSUME NEW b \in Fake!Addr, known'[b] # -1, b \notin Fake!Volatile(fake)
        PROVE  Holding(b, known[b])'
    <3>1. CASE b = a
      BY <3>1, <1>3, <2>1, <2>6 DEF Holding
    <3>2. CASE b # a
      <4>1. PICK i \in 1 .. Len(mem) : mem[i].addr = b /\ mem[i].val = known[b]
        BY <3>2, <2>9, <1>2, <1>3 DEF Holding
      <4>2. i # k
        BY <4>1, <2>1, <3>2
      <4> QED BY <4>1, <4>2, <2>6, <1>3, <3>2 DEF Holding
    <3> QED BY <3>1, <3>2
  <2> QED BY <1>1, <1>2, <1>3, <2>6, <2>8, <2>9 DEF MemInv
<1>5. CASE Fake!mem_lookup(a) = 0
  <2>1. \A i \in 1 .. Len(mem) : mem[i].addr # a
    BY <1>2, <1>5, Lookup
  <2>2. fake = "lib" /\ Len(mem) + 1 <= MEM_MAX
    BY <1>2, <1>5 DEF Fake!NoRoom, Fake!FakeAssumption
  <2>3. [addr |-> a, val |-> v] \in Entry /\ mem' = Append(mem, [addr |-> a, val |-> v])
    BY <1>1, <1>5 DEF Entry, Fake!mem_ent
  <2>6. /\ mem' \in Seq(Entry) /\ Len(mem') = Len(mem) + 1
        /\ mem'[Len(mem) + 1] = [addr |-> a, val |-> v] /\ \A i \in 1 .. Len(mem) : mem'[i] = mem[i]
    <3> DEFINE e == [addr |-> a, val |-> v]
    <3> HIDE DEF e, Entry
    <3> QED BY <1>2, <2>3 DEF e
  <2>8. OneEntry'
    <3> SUFFICES ASSUME NEW i \in 1 .. Len(mem) + 1, NEW j \in 1 .. Len(mem) + 1, mem'[i].addr = mem'[j].addr
                 PROVE  i = j
      BY <2>6 DEF OneEntry
    <3>1. mem'[Len(mem) + 1].addr = a
      BY <2>6
    <3> QED BY <3>1, <1>2, <2>1, <2>6 DEF OneEntry
  <2>9. ASSUME NEW b \in Fake!Addr, known'[b] # -1, b \notin Fake!Volatile(fake)
        PROVE  Holding(b, known[b])'
    <3>1. CASE b = a
      <4>1. Len(mem) + 1 \in 1 .. Len(mem')
        BY <1>2, <2>6
      <4> QED BY <3>1, <4>1, <1>3, <2>6 DEF Holding
    <3>2. CASE b # a
      <4>1. PICK i \in 1 .. Len(mem) : mem[i].addr = b /\ mem[i].val = known[b]
        BY <3>2, <2>9, <1>2, <1>3 DEF Holding
      <4>2. i \in 1 .. Len(mem') /\ mem'[i] = mem[i]
        BY <4>1, <1>2, <2>6
      <4> QED BY <4>1, <4>2, <1>3, <3>2 DEF Holding
    <3> QED BY <3>1, <3>2
  <2> QED BY <1>1, <1>2, <1>3, <2>2, <2>6, <2>8, <2>9 DEF MemInv
<1> QED BY <1>4, <1>5

\* A call that ends the program, or leaves the memory alone.
LEMMA RestStep ==
  ASSUME MemInv, UNCHANGED <<fake, mem, known>>, calls' \in Nat
  PROVE  MemInv'
BY DEF MemInv, OneEntry, Holding

\* Each call is traced, and counted before it can be one too many.
LEMMA TracedStep ==
  ASSUME Fake!FakeAssumption, fake \in {"lab", "lib"}, fake' = fake, TraceInv, end = "no",
         \/ ~Fake!TraceFull /\ Fake!Traced /\ end' \in {"no", "panic"}
         \/ fake = "lib" /\ Fake!Traced /\ end' = "no"
         \/ UNCHANGED traced /\ end' \in {"panic", "exit"}
         \/ Fake!TraceFull /\ Fake!Traced /\ end' = "enough"
  PROVE  TraceInv'
<1>1. max_trace \in Nat
  BY DEF Fake!FakeAssumption
<1>2. /\ traced \in Nat /\ traced <= max_trace
      /\ fake # "lab" => traced = 0
  BY DEF TraceInv
<1>3. CASE ~Fake!TraceFull /\ Fake!Traced /\ end' \in {"no", "panic"}
  <2>1. traced' \in Nat /\ traced' <= max_trace /\ (fake # "lab" => traced' = 0)
    <3>1. CASE fake = "lab"
      <4>1. traced # max_trace /\ traced' = traced + 1
        BY <1>3, <3>1 DEF Fake!TraceFull, Fake!Traced
      <4> QED BY <4>1, <3>1, <1>1, <1>2
    <3>2. CASE fake # "lab"
      <4>1. traced' = traced
        BY <1>3, <3>2 DEF Fake!Traced
      <4> QED BY <4>1, <3>2, <1>2
    <3> QED BY <3>1, <3>2
  <2>2. end' # "enough"
    BY <1>3
  <2>3. traced' <= max_trace + 1
    BY <1>1, <2>1
  <2> QED BY <2>1, <2>2, <2>3 DEF TraceInv
<1>4. CASE fake = "lib" /\ Fake!Traced /\ end' = "no"
  <2>1. traced' = 0
    BY <1>2, <1>4 DEF Fake!Traced
  <2> QED BY <1>1, <1>4, <2>1 DEF TraceInv
<1>5. CASE UNCHANGED traced /\ end' \in {"panic", "exit"}
  BY <1>1, <1>2, <1>5 DEF TraceInv
<1>6. CASE Fake!TraceFull /\ Fake!Traced /\ end' = "enough"
  <2>1. traced' = max_trace + 1 /\ fake = "lab"
    BY <1>6 DEF Fake!TraceFull, Fake!Traced
  <2>2. end' # "no" /\ max_trace + 1 \in Nat /\ max_trace + 1 <= max_trace + 1
    BY <1>1, <1>6
  <2> QED BY <2>1, <2>2 DEF TraceInv
<1> QED BY <1>3, <1>4, <1>5, <1>6

\* Every call keeps the invariant.
LEMMA FakeStep ==
  ASSUME Fake!FakeAssumption, FakeInv, [Fake!Next]_Fake!fakevars
  PROVE  FakeInv'
<1>1. MemInv /\ TraceInv /\ calls \in Nat /\ fake \in {"lab", "lib"}
  BY DEF FakeInv, MemInv
<1>2. CASE UNCHANGED Fake!fakevars
  <2>1. TraceInv'
    BY <1>1, <1>2 DEF Fake!fakevars, TraceInv
  <2> QED BY <2>1, <1>1, <1>2, RestStep DEF Fake!fakevars, FakeInv
<1>3. ASSUME NEW a \in Fake!Addr, NEW v \in Written, Fake!PUT32(a, v)
      PROVE  FakeInv'
  <2>1. end = "no" /\ v \in Int
    BY <1>3 DEF Fake!PUT32, Fake!FakeAssumption
  <2>2. CASE ~Fake!TraceFull /\ Fake!Traced /\ ~Fake!NoRoom(a) /\ Fake!Put(a, v) /\ UNCHANGED calls
    <3>1. MemInv'
      BY <1>1, <2>1, <2>2, PutStep
    <3>2. TraceInv'
      BY <1>1, <2>1, <2>2, TracedStep DEF Fake!Put
    <3> QED BY <3>1, <3>2 DEF FakeInv
  <2>3. CASE ~Fake!TraceFull /\ Fake!Traced /\ Fake!Stops("panic")
    <3>1. MemInv' /\ TraceInv'
      BY <1>1, <2>1, <2>3, RestStep, TracedStep DEF Fake!Stops
    <3> QED BY <3>1 DEF FakeInv
  <2>4. CASE Fake!TraceFull /\ Fake!Traced /\ Fake!Stops("enough")
    <3>1. MemInv' /\ TraceInv'
      BY <1>1, <2>1, <2>4, RestStep, TracedStep DEF Fake!Stops
    <3> QED BY <3>1 DEF FakeInv
  <2> QED BY <1>3, <2>2, <2>3, <2>4 DEF Fake!PUT32
<1>4. ASSUME NEW a \in Fake!Addr, Fake!GET32(a)
      PROVE  FakeInv'
  <2>1. end = "no" /\ (calls + 1) % Len(Stream) \in Nat /\ Fake!fake_random(calls) \in Int
    BY <1>1, <1>4, FakeRandom DEF Fake!GET32
  <2>2. CASE /\ ~Fake!TraceFull /\ Fake!Traced /\ calls' = (calls + 1) % Len(Stream)
             /\ UNCHANGED <<fake, mem, end, known>>
    <3>1. MemInv' /\ TraceInv'
      BY <1>1, <2>1, <2>2, RestStep, TracedStep
    <3> QED BY <3>1 DEF FakeInv
  <2>3. CASE /\ a \notin Fake!Volatile(fake) /\ Fake!mem_lookup(a) # 0 /\ ~Fake!TraceFull /\ Fake!Traced
             /\ known' = [known EXCEPT ![a] = mem[Fake!mem_lookup(a)].val]
             /\ UNCHANGED <<fake, mem, calls, end>>
    <3>1. PICK k \in 1 .. Len(mem) : mem[k].addr = a /\ k = Fake!mem_lookup(a)
      BY <1>1, <2>3, Lookup DEF MemInv
    <3>2. mem[k].val \in Int /\ known' = [known EXCEPT ![a] = mem[k].val]
      <4>1. mem[k] \in Entry
        <5> HIDE DEF Entry
        <5>1. mem \in Seq(Entry)
          BY <1>1 DEF MemInv
        <5> QED BY <3>1, <5>1
      <4>2. mem[k].val \in Int
        BY <4>1 DEF Entry
      <4> QED BY <2>3, <3>1, <4>2
    <3>3. MemInv'
      <4>1. known' \in [Fake!Addr -> Int]
        BY <1>1, <3>2 DEF MemInv
      <4>2. ASSUME NEW b \in Fake!Addr, known'[b] # -1, b \notin Fake!Volatile(fake)
            PROVE  Holding(b, known'[b])
        <5>1. CASE b = a
          BY <5>1, <3>1, <3>2, <1>1 DEF Holding, MemInv
        <5>2. CASE b # a
          BY <5>2, <4>2, <3>2, <1>1 DEF MemInv
        <5> QED BY <5>1, <5>2
      <4>3. UNCHANGED <<fake, mem, calls>>
        BY <2>3
      <4> QED BY <1>1, <4>1, <4>2, <4>3 DEF MemInv, OneEntry, Holding
    <3>4. TraceInv'
      BY <1>1, <2>1, <2>3, TracedStep
    <3> QED BY <3>3, <3>4 DEF FakeInv
  <2>4. CASE /\ Fake!mem_lookup(a) = 0 /\ ~Fake!NoRoom(a) /\ Fake!Traced
             /\ Fake!Put(a, Fake!fake_random(calls)) /\ calls' = (calls + 1) % Len(Stream)
    <3>1. MemInv'
      BY <1>1, <2>1, <2>4, PutStep
    <3>2. fake = "lib" /\ fake' = fake /\ end' = end
      BY <1>1, <2>4 DEF Fake!NoRoom, Fake!Put
    <3>3. TraceInv'
      BY <1>1, <2>1, <2>4, <3>2, TracedStep
    <3> QED BY <3>1, <3>3 DEF FakeInv
  <2>5. CASE Fake!Stops("panic") /\ UNCHANGED traced
    <3>1. MemInv' /\ TraceInv'
      BY <1>1, <2>1, <2>5, RestStep, TracedStep DEF Fake!Stops
    <3> QED BY <3>1 DEF FakeInv
  <2>6. CASE Fake!TraceFull /\ Fake!Stops("enough") /\ Fake!Traced
    <3>1. MemInv' /\ TraceInv'
      BY <1>1, <2>1, <2>6, RestStep, TracedStep DEF Fake!Stops
    <3> QED BY <3>1 DEF FakeInv
  <2> QED BY <1>4, <2>2, <2>3, <2>4, <2>5, <2>6 DEF Fake!GET32
<1>5. CASE Fake!Exit
  <2>1. end = "no" /\ end' = "exit" /\ UNCHANGED <<fake, mem, calls, traced, known>>
    BY <1>5 DEF Fake!Exit
  <2>2. MemInv' /\ TraceInv'
    BY <1>1, <2>1, RestStep, TracedStep
  <2> QED BY <2>2 DEF FakeInv
<1> QED BY <1>2, <1>3, <1>4, <1>5 DEF Fake!Next

\* Before its first call the lab has drawn six values, the lib none.
LEMMA FakeStart ==
  ASSUME Fake!FakeAssumption, Fake!Init
  PROVE  FakeInv
<1>1. TraceInv
  <2>1. traced = (IF fake = "lab" THEN 1 ELSE 0) /\ end = "no" /\ max_trace \in Nat \ {0}
    BY Zenon DEF Fake!Init, Fake!FakeAssumption
  <2>2. traced \in 0 .. 1 /\ (fake # "lab" => traced = 0) /\ end # "enough"
    BY <2>1
  <2>3. traced <= max_trace
    BY <2>1, <2>2
  <2>4. traced <= max_trace + 1
    BY <2>1, <2>2, <2>3
  <2> QED BY <2>2, <2>3, <2>4 DEF TraceInv
<1>2. calls \in Nat
  <2>1. Len(Stream) \in Nat \ {0}
    BY DEF Fake!FakeAssumption
  <2>2. 7 % Len(Stream) \in Nat /\ 1 % Len(Stream) \in Nat
    <3> DEFINE L == Len(Stream)
    <3>1. L \in Nat \ {0}
      BY <2>1
    <3> HIDE DEF L
    <3>2. 7 % L \in 0 .. L - 1 /\ 1 % L \in 0 .. L - 1
      BY <3>1, ModDef
    <3> QED BY <3>1, <3>2 DEF L
  <2> QED BY <2>2 DEF Fake!Init
<1>3. CASE fake = "lib"
  <2>0. /\ known = [a \in Fake!Addr |-> IF fake = "lab" /\ a \in Fake!LabAddr THEN mem[Fake!mem_lookup(a)].val ELSE -1]
        /\ mem = <<>> /\ fake # "lab"
    BY <1>3 DEF Fake!Init
  <2>1. mem = <<>> /\ known = [a \in Fake!Addr |-> -1]
    BY <2>0, Zenon
  <2>2. known \in [Fake!Addr -> Int] /\ Len(mem) = 0 /\ mem \in Seq(Entry)
    BY <2>1
  <2>3. MemInv
    BY <1>2, <1>3, <2>1, <2>2 DEF MemInv, OneEntry, Fake!FakeAssumption
  <2> QED BY <1>1, <2>3 DEF FakeInv
<1>4. CASE fake = "lab"
  <2>1. mem = [i \in 1 .. 6 |-> Fake!mem_ent(Fake!LabLocations[i], Fake!fake_random(i))]
    BY <1>4 DEF Fake!Init
  <2>2. \A i \in 1 .. 6 : mem[i].addr = Fake!LabLocations[i] /\ mem[i].val \in Int /\ mem[i] \in Entry
    <3> SUFFICES ASSUME NEW i \in 1 .. 6
                 PROVE  mem[i].addr = Fake!LabLocations[i] /\ mem[i].val \in Int /\ mem[i] \in Entry
      OBVIOUS
    <3>1. Fake!fake_random(i) \in Int /\ Fake!LabLocations[i] \in Fake!Addr
      BY FakeRandom DEF Fake!Addr, Fake!LabAddr
    <3> QED BY <2>1, <3>1 DEF Fake!mem_ent, Entry
  <2>3. mem \in Seq(Entry) /\ Len(mem) = 6
    <3> HIDE DEF Entry
    <3> QED BY <2>1, <2>2
  <2>4. \A i, j \in 1 .. 6 : Fake!LabLocations[i] = Fake!LabLocations[j] => i = j
    BY DEF Fake!LabLocations
  <2>5. OneEntry
    BY <2>2, <2>3, <2>4 DEF OneEntry
  <2>6. known = [a \in Fake!Addr |-> IF a \in Fake!LabAddr THEN mem[Fake!mem_lookup(a)].val ELSE -1]
    <3>1. known = [a \in Fake!Addr |-> IF fake = "lab" /\ a \in Fake!LabAddr THEN mem[Fake!mem_lookup(a)].val ELSE -1]
      BY Zenon DEF Fake!Init
    <3> QED BY <3>1, <1>4, Zenon
  <2>7. ASSUME NEW a \in Fake!LabAddr
        PROVE  \E i \in 1 .. 6 : mem[i].addr = a /\ mem[i].val = known[a] /\ known[a] \in Int
    <3>1. PICK i \in 1 .. 6 : Fake!LabLocations[i] = a
      BY DEF Fake!LabAddr
    <3>2. Fake!mem_lookup(a) = i
      <4> DEFINE at == {k \in DOMAIN mem : mem[k].addr = a}
      <4>1. at = {i}
        BY <2>1, <2>2, <2>4, <3>1
      <4>2. Fake!mem_lookup(a) = IF at = {} THEN 0 ELSE CHOOSE k \in at : \A j \in at : k <= j
        BY DEF Fake!mem_lookup
      <4> HIDE DEF at
      <4>3. i <= i
        OBVIOUS
      <4> QED BY <4>1, <4>2, <4>3
    <3> QED BY <3>1, <3>2, <2>2, <2>6 DEF Fake!Addr
  <2>8. known \in [Fake!Addr -> Int] /\ \A a \in Fake!Addr : known[a] # -1 => Holding(a, known[a])
    <3>1. ASSUME NEW a \in Fake!Addr
          PROVE  known[a] \in Int /\ (known[a] # -1 => Holding(a, known[a]))
      <4>1. CASE a \in Fake!LabAddr
        BY <4>1, <2>3, <2>7 DEF Holding
      <4>2. CASE a \notin Fake!LabAddr
        BY <4>2, <2>6
      <4> QED BY <4>1, <4>2
    <3>2. known = [a \in Fake!Addr |-> known[a]]
      BY <2>6
    <3> QED BY <3>1, <3>2
  <2>9. MemInv
    BY <1>2, <1>4, <2>3, <2>5, <2>8 DEF MemInv
  <2> QED BY <1>1, <2>9 DEF FakeInv
<1> QED BY <1>3, <1>4 DEF Fake!Init

(* Whatever a program writes and the stream holds, for every size of the   *)
(* memory and of the trace, device memory reads back.                      *)
THEOREM MemoryIsMemory ==
  ASSUME Fake!FakeAssumption
  PROVE  Fake!Spec => []MemoryReadsBack
<1>1. Fake!Init => FakeInv
  BY FakeStart
<1>2. FakeInv /\ [Fake!Next]_Fake!fakevars => FakeInv'
  BY FakeStep
<1>3. FakeInv => Fake!MemoryReadsBack
  <2> SUFFICES ASSUME FakeInv PROVE Fake!MemoryReadsBack
    OBVIOUS
  <2>1. MemInv /\ TraceInv /\ DOMAIN mem = 1 .. Len(mem)
    BY DEF FakeInv, MemInv
  <2>2. ASSUME NEW a \in Fake!Addr, known[a] # -1, a \notin Fake!Volatile(fake)
        PROVE  Fake!mem_lookup(a) # 0 /\ mem[Fake!mem_lookup(a)].val = known[a]
    <3>1. PICK i \in 1 .. Len(mem) : mem[i].addr = a /\ mem[i].val = known[a]
      BY <2>1, <2>2 DEF MemInv, Holding
    <3>2. Fake!mem_lookup(a) = i
      BY <2>1, <3>1, Lookup
    <3> QED BY <3>1, <3>2
  <2>3. OneEntry /\ Len(mem) <= IF fake = "lab" THEN 6 ELSE MEM_MAX
    <3>1. OneEntry /\ (IF fake = "lab" THEN Len(mem) = 6 ELSE Len(mem) <= MEM_MAX)
      BY <2>1 DEF MemInv
    <3>2. CASE fake = "lab"
      <4>1. Len(mem) = 6
        BY <3>1, <3>2
      <4> QED BY <3>1, <3>2, <4>1
    <3>3. CASE fake # "lab"
      BY <3>1, <3>3
    <3> QED BY <3>2, <3>3
  <2> QED BY <2>1, <2>2, <2>3 DEF Fake!MemoryReadsBack, OneEntry, TraceInv
<1> QED BY <1>1, <1>2, <1>3, PTL DEF Fake!Spec, MemoryReadsBack
-----------------------------------------------------------------------------
(* Exceptions are invisible to the code they interrupt.  While a program   *)
(* runs, the invariant says where it may be, with what on its stack and    *)
(* which table in force; while a handler runs, that the machine still      *)
(* holds, in the banked registers and on the handler's stack, every part   *)
(* of the view the exception found, which the return puts back.            *)

Modes == {"super", "irq"}
Names ==
  {"timer", "vector_base", "trivial_os", "printk", "system_enable_interrupts", "swi_add", "syscall_invoke_asm",
   "swi_trivial_vector", "interrupt_asm", "swi_handler", "number", "super", "irq"}
Word == [of : Names, at : Int]
Link(routine, at) == [of |-> routine, at |-> at]

MachineType ==
  /\ cpu \in [mode : Modes, I : BOOLEAN, flag : BOOLEAN, pc : Word, r0 : Word, r1 : Word,
              sp : [Modes -> Int], spsr : [Modes -> {<<>>} \cup (Modes \X BOOLEAN \X BOOLEAN)],
              lr : [Modes -> Word]]
  /\ stack \in [Modes -> [1 .. 3 -> Word]]

\* What code that an exception may interrupt sees, and a view of it has.
Now == Excs!View(cpu, stack)
IsView(v) ==
  /\ v = [pc |-> v.pc, mode |-> v.mode, I |-> v.I, flag |-> v.flag, r0 |-> v.r0, r1 |-> v.r1,
          sp |-> v.sp, lr |-> v.lr, words |-> v.words]
  /\ v.mode = "super" /\ v.pc \in Word /\ v.I \in BOOLEAN /\ v.flag \in BOOLEAN

In(v, routine, places) == v.pc.of = routine /\ v.pc.at \in places

\* labs/6-interrupts/timer-int.
InTimer(v) ==
  /\ In(v, "timer", 1 .. 7) /\ v.sp = 0 /\ (v.I <=> v.pc.at <= 3)
  /\ v.pc.at >= 2 => table = "int_init"
InEnable(v) ==
  /\ In(v, "system_enable_interrupts", 1 .. 4) /\ v.sp = 0 /\ (v.I <=> v.pc.at <= 3) /\ table = "int_init"
  /\ v.lr = Link("timer", 4)
  /\ v.pc.at = 2 => v.r0 = Link("super", 1)
  /\ v.pc.at = 3 => v.r0 = Link("super", 0)
InPrintk(v) ==
  /\ In(v, "printk", 1 .. 5) /\ ~v.I /\ table = "int_init"
  /\ v.pc.at \in {1, 5} => v.sp = 0 /\ v.lr = Link("timer", 6)
  /\ v.pc.at \in 2 .. 4 => v.sp = 1 /\ v.words[1] = Link("timer", 6)
\* labs/7-device-interrupts/3-vector-base and 11-user-process/code/trivial-os.
InMain(v, program, last, tables) ==
  /\ In(v, program, 1 .. last) /\ v.sp = 0 /\ v.I
  /\ v.pc.at >= 2 => table \in tables
InCall(v, routine, backs, tables) ==
  /\ In(v, routine, 1 .. 4) /\ v.I /\ table \in tables
  /\ v.pc.at \in {1, 4} => v.sp = 0 /\ v.lr \in backs
  /\ v.pc.at \in {2, 3} => v.sp = 1 /\ v.words[1] \in backs
InVector(v) == InMain(v, "vector_base", 7, {"slow", "fast"})
InAdd(v) == InCall(v, "swi_add", {Link("vector_base", 4), Link("vector_base", 7)}, {"slow", "fast"})
InOs(v) == InMain(v, "trivial_os", 6, {"part1"})
InSyscall(v) == InCall(v, "syscall_invoke_asm", {Link("trivial_os", 4), Link("trivial_os", 6)}, {"part1"})

Interruptible(v) == InTimer(v) \/ InEnable(v) \/ InPrintk(v)
Program(v) == IsView(v) /\ (Interruptible(v) \/ InVector(v) \/ InAdd(v) \/ InOs(v) \/ InSyscall(v))

\* How the handler of an exception stands to what it interrupted.
Kept(v) == v.words = [i \in 1 .. v.sp |-> stack["super"][i]]
InIrq(v) ==
  /\ In(cpu, "interrupt_asm", 1 .. 6) /\ cpu.mode = "irq"
  /\ Interruptible(v) /\ ~v.I
  /\ cpu.spsr["irq"] = <<"super", FALSE, v.flag>>
  /\ cpu.sp["super"] = v.sp /\ cpu.lr["super"] = v.lr
  /\ cpu.pc.at \in {1, 2} => cpu.lr["irq"] = Excs!After(v.pc)
  /\ cpu.pc.at \in {3, 6} => cpu.lr["irq"] = v.pc
  /\ cpu.pc.at \in {2, 3, 6} => cpu.sp["irq"] = 0
  /\ cpu.pc.at \in {4, 5} =>
       cpu.sp["irq"] = 3 /\ stack["irq"][1] = v.r0 /\ stack["irq"][2] = v.r1 /\ stack["irq"][3] = v.pc
  /\ cpu.pc.at \in {1, 2, 3, 4, 6} => cpu.r0 = v.r0 /\ cpu.r1 = v.r1
Called(v) ==
  /\ v.I /\ cpu.mode = "super" /\ cpu.spsr["super"] = <<"super", TRUE, v.flag>> /\ v.sp = 1
InTrivial(v) ==
  /\ In(cpu, "swi_trivial_vector", 1 .. 2) /\ InAdd(v) /\ v.pc.at = 2 /\ Called(v)
  /\ cpu.sp["super"] = 1 /\ cpu.lr["super"] = Excs!After(v.pc) /\ cpu.r1 = v.r1
  /\ cpu.r0 = IF cpu.pc.at = 1 THEN v.r0 ELSE [v.r0 EXCEPT !.at = @ + 1]
InHandler(v) ==
  /\ In(cpu, "swi_handler", 1 .. 4) /\ InSyscall(v) /\ v.pc.at = 2 /\ Called(v)
  /\ cpu.pc.at \in {1, 4} => cpu.sp["super"] = 1 /\ cpu.lr["super"] = Excs!After(v.pc) /\ cpu.r1 = v.r1
  /\ cpu.pc.at \in {2, 3} =>
       cpu.sp["super"] = 3 /\ stack["super"][2] = v.r1 /\ stack["super"][3] = Excs!After(v.pc)
  /\ cpu.pc.at \in {3, 4} => cpu.r0 = Link("number", 0)
Handler ==
  \E v \in taken :
    /\ taken = {v} /\ IsView(v) /\ cpu.I /\ Kept(v)
    /\ InIrq(v) \/ InTrivial(v) \/ InHandler(v)

ExcInv ==
  /\ MachineType
  /\ run \in {"boot", "running", "rebooted"}
  /\ run = "boot" => taken = {} /\ table = "none" /\ cpu.pc \in {Link(program, 1) : program \in {"timer", "vector_base", "trivial_os"}}
  /\ run = "running" => Program(Now) \/ Handler

(* An instruction, or a call done whole, as against the hardware's own     *)
(* moves.                                                                  *)
Instruction ==
  \/ Excs!int_init \/ Excs!vector_base_set \/ Excs!timer_interrupt_init \/ Excs!Stops \/ Excs!interrupt_vector
  \/ Excs!do_syscall \/ Excs!OnRegisters \/ Excs!swi \/ Excs!push \/ Excs!pop

\* What the memory holds where the programs run.
LEMMA MainListings ==
  /\ In(cpu, "timer", 1 .. 7) =>
       \/ (cpu.pc.at = 1 /\ Excs!Op = "int_init") \/ (cpu.pc.at = 2 /\ Excs!Op = "timer_interrupt_init")
       \/ (cpu.pc.at = 3 /\ Excs!Op = "bl_system_enable_interrupts") \/ (cpu.pc.at = 4 /\ Excs!Op = "work")
       \/ (cpu.pc.at = 5 /\ Excs!Op = "bl_printk") \/ (cpu.pc.at = 6 /\ Excs!Op = "work")
       \/ (cpu.pc.at = 7 /\ Excs!Op = "rpi_reboot")
  /\ In(cpu, "vector_base", 1 .. 7) =>
       \/ (cpu.pc.at = 1 /\ Excs!Op = "set_slow") \/ (cpu.pc.at = 2 /\ Excs!Op = "work")
       \/ (cpu.pc.at = 3 /\ Excs!Op = "bl_swi_add") \/ (cpu.pc.at = 4 /\ Excs!Op = "set_fast")
       \/ (cpu.pc.at = 5 /\ Excs!Op = "work") \/ (cpu.pc.at = 6 /\ Excs!Op = "bl_swi_add")
       \/ (cpu.pc.at = 7 /\ Excs!Op = "rpi_reboot")
  /\ In(cpu, "trivial_os", 1 .. 6) =>
       \/ (cpu.pc.at = 1 /\ Excs!Op = "set_part1") \/ (cpu.pc.at = 2 /\ Excs!Op = "work")
       \/ (cpu.pc.at = 3 /\ Excs!Op = "bl_syscall_invoke_asm") \/ (cpu.pc.at = 4 /\ Excs!Op = "work")
       \/ (cpu.pc.at = 5 /\ Excs!Op = "bl_syscall_invoke_asm") \/ (cpu.pc.at = 6 /\ Excs!Op = "rpi_reboot")
<1>1. In(cpu, "timer", 1 .. 7) => Excs!Op = Excs!notmain_timer[cpu.pc.at] /\ cpu.pc.at \in 1 .. 7
  BY DEF In, Excs!Op, Excs!Code
<1>2. In(cpu, "vector_base", 1 .. 7) => Excs!Op = Excs!notmain_vector_base[cpu.pc.at] /\ cpu.pc.at \in 1 .. 7
  BY DEF In, Excs!Op, Excs!Code
<1>3. In(cpu, "trivial_os", 1 .. 6) => Excs!Op = Excs!notmain_trivial_os[cpu.pc.at] /\ cpu.pc.at \in 1 .. 6
  BY DEF In, Excs!Op, Excs!Code
<1> QED BY <1>1, <1>2, <1>3 DEF In, Excs!notmain_timer, Excs!notmain_vector_base, Excs!notmain_trivial_os

\* The routines they call.
LEMMA CalledListings ==
  /\ In(cpu, "printk", 1 .. 5) =>
       \/ (cpu.pc.at = 1 /\ Excs!Op = "push_lr") \/ (cpu.pc.at = 2 /\ Excs!Op = "work")
       \/ (cpu.pc.at = 3 /\ Excs!Op = "cmp") \/ (cpu.pc.at = 4 /\ Excs!Op = "pop_lr")
       \/ (cpu.pc.at = 5 /\ Excs!Op = "bx_lr")
  /\ In(cpu, "system_enable_interrupts", 1 .. 4) =>
       \/ (cpu.pc.at = 1 /\ Excs!Op = "mrs_cpsr") \/ (cpu.pc.at = 2 /\ Excs!Op = "bic_I")
       \/ (cpu.pc.at = 3 /\ Excs!Op = "msr_cpsr") \/ (cpu.pc.at = 4 /\ Excs!Op = "bx_lr")
  /\ In(cpu, "swi_add", 1 .. 4) \/ In(cpu, "syscall_invoke_asm", 1 .. 4) =>
       \/ (cpu.pc.at = 1 /\ Excs!Op = "push_lr") \/ (cpu.pc.at = 2 /\ Excs!Op = "swi")
       \/ (cpu.pc.at = 3 /\ Excs!Op = "pop_lr") \/ (cpu.pc.at = 4 /\ Excs!Op = "bx_lr")
<1>1. In(cpu, "printk", 1 .. 5) => Excs!Op = Excs!printk[cpu.pc.at] /\ cpu.pc.at \in 1 .. 5
  BY DEF In, Excs!Op, Excs!Code
<1>2. In(cpu, "system_enable_interrupts", 1 .. 4) =>
        Excs!Op = Excs!system_enable_interrupts[cpu.pc.at] /\ cpu.pc.at \in 1 .. 4
  BY DEF In, Excs!Op, Excs!Code
<1>3. In(cpu, "swi_add", 1 .. 4) => Excs!Op = Excs!swi_add[cpu.pc.at] /\ cpu.pc.at \in 1 .. 4
  BY DEF In, Excs!Op, Excs!Code
<1>4. In(cpu, "syscall_invoke_asm", 1 .. 4) => Excs!Op = Excs!syscall_invoke_asm[cpu.pc.at] /\ cpu.pc.at \in 1 .. 4
  BY DEF In, Excs!Op, Excs!Code
<1> QED BY <1>1, <1>2, <1>3, <1>4 DEF In, Excs!printk, Excs!system_enable_interrupts, Excs!swi_add, Excs!syscall_invoke_asm

\* The handlers.
LEMMA HandlerListings ==
  /\ In(cpu, "interrupt_asm", 1 .. 6) =>
       \/ (cpu.pc.at = 1 /\ Excs!Op = "mov_sp_INT_STACK_ADDR") \/ (cpu.pc.at = 2 /\ Excs!Op = "sub_lr_4")
       \/ (cpu.pc.at = 3 /\ Excs!Op = "push_r0_lr") \/ (cpu.pc.at = 4 /\ Excs!Op = "bl_interrupt_vector")
       \/ (cpu.pc.at = 5 /\ Excs!Op = "pop_r0_lr") \/ (cpu.pc.at = 6 /\ Excs!Op = "movs_pc_lr")
  /\ In(cpu, "swi_trivial_vector", 1 .. 2) =>
       \/ (cpu.pc.at = 1 /\ Excs!Op = "add_1") \/ (cpu.pc.at = 2 /\ Excs!Op = "movs_pc_lr")
  /\ In(cpu, "swi_handler", 1 .. 4) =>
       \/ (cpu.pc.at = 1 /\ Excs!Op = "push_r1_lr") \/ (cpu.pc.at = 2 /\ Excs!Op = "bl_do_syscall")
       \/ (cpu.pc.at = 3 /\ Excs!Op = "pop_r1_lr") \/ (cpu.pc.at = 4 /\ Excs!Op = "movs_pc_lr")
<1>1. In(cpu, "interrupt_asm", 1 .. 6) => Excs!Op = Excs!interrupt_asm[cpu.pc.at] /\ cpu.pc.at \in 1 .. 6
  BY DEF In, Excs!Op, Excs!Code
<1>2. In(cpu, "swi_trivial_vector", 1 .. 2) => Excs!Op = Excs!swi_trivial_vector[cpu.pc.at] /\ cpu.pc.at \in 1 .. 2
  BY DEF In, Excs!Op, Excs!Code
<1>3. In(cpu, "swi_handler", 1 .. 4) => Excs!Op = Excs!swi_handler[cpu.pc.at] /\ cpu.pc.at \in 1 .. 4
  BY DEF In, Excs!Op, Excs!Code
<1> QED BY <1>1, <1>2, <1>3 DEF In, Excs!interrupt_asm, Excs!swi_trivial_vector, Excs!swi_handler

\* Which instruction is executed.
LEMMA Decoded ==
  ASSUME Instruction
  PROVE  /\ run = "running" /\ ~Excs!IrqDue
         /\ \/ Excs!int_init /\ Excs!Op = "int_init"
            \/ Excs!vector_base_set /\ Excs!Op \in {"set_slow", "set_fast", "set_part1"}
            \/ Excs!timer_interrupt_init /\ Excs!Op = "timer_interrupt_init"
            \/ Excs!Stops /\ Excs!Op \in {"rpi_reboot", "panic"}
            \/ Excs!interrupt_vector /\ Excs!Op = "bl_interrupt_vector"
            \/ Excs!do_syscall /\ Excs!Op = "bl_do_syscall"
            \/ /\ Excs!Work \/ Excs!Move \/ Excs!Branch
               /\ UNCHANGED <<stack, table, irqtimer, taken, run>>
               /\ Excs!Work => Excs!Op = "work"
               /\ Excs!Move => Excs!Op \in {"cmp", "mrs_cpsr", "bic_I", "msr_cpsr",
                                            "add_1", "mov_sp_INT_STACK_ADDR", "sub_lr_4"}
               /\ Excs!Branch => Excs!Op \in {"bl_printk", "bl_system_enable_interrupts", "bl_swi_add",
                                              "bl_syscall_invoke_asm", "bx_lr", "movs_pc_lr"}
            \/ Excs!swi /\ Excs!Op = "swi"
            \/ Excs!push /\ Excs!Op \in {"push_lr", "push_r0_lr", "push_r1_lr"}
            \/ Excs!pop /\ Excs!Op \in {"pop_lr", "pop_r0_lr", "pop_r1_lr"}
<1> DEFINE ready == run = "running" /\ ~Excs!IrqDue
<1>1. Excs!int_init => ready /\ Excs!Op = "int_init"
  BY DEF Excs!int_init, Excs!At
<1>2. Excs!vector_base_set =>
        ready /\ Excs!Op \in {"set_slow", "set_fast", "set_part1"}
  BY DEF Excs!vector_base_set, Excs!At
<1>3. Excs!timer_interrupt_init => ready /\ Excs!Op = "timer_interrupt_init"
  BY DEF Excs!timer_interrupt_init, Excs!At
<1>4. Excs!Stops => ready /\ Excs!Op \in {"rpi_reboot", "panic"}
  BY DEF Excs!Stops, Excs!At
<1>5. Excs!interrupt_vector => ready /\ Excs!Op = "bl_interrupt_vector"
  BY DEF Excs!interrupt_vector, Excs!At
<1>6. Excs!do_syscall => ready /\ Excs!Op = "bl_do_syscall"
  BY DEF Excs!do_syscall, Excs!At
<1>7. Excs!Work => ready /\ Excs!Op = "work"
  BY DEF Excs!Work, Excs!At
<1>8. Excs!Move => ready /\ Excs!Op \in {"cmp", "mrs_cpsr", "bic_I", "msr_cpsr",
                                         "add_1", "mov_sp_INT_STACK_ADDR", "sub_lr_4"}
  BY DEF Excs!Move, Excs!At
<1>9. Excs!Branch => ready /\ Excs!Op \in {"bl_printk", "bl_system_enable_interrupts", "bl_swi_add",
                                           "bl_syscall_invoke_asm", "bx_lr", "movs_pc_lr"}
  BY DEF Excs!Branch, Excs!At
<1>10. Excs!swi => ready /\ Excs!Op = "swi"
  BY DEF Excs!swi, Excs!At
<1>11. Excs!push => ready /\ Excs!Op \in {"push_lr", "push_r0_lr", "push_r1_lr"}
  BY DEF Excs!push, Excs!At
<1>12. Excs!pop => ready /\ Excs!Op \in {"pop_lr", "pop_r0_lr", "pop_r1_lr"}
  BY DEF Excs!pop, Excs!At
<1> HIDE DEF ready
<1>13. ready
  BY <1>1, <1>2, <1>3, <1>4, <1>5, <1>6, <1>7, <1>8, <1>9, <1>10, <1>11, <1>12 DEF Instruction, Excs!OnRegisters
<1> QED BY <1>1, <1>2, <1>3, <1>4, <1>5, <1>6, <1>7, <1>8, <1>9, <1>10, <1>11, <1>12, <1>13
        DEF Instruction, Excs!OnRegisters, ready

\* The address after an address.
LEMMA NextAddress ==
  ASSUME NEW a, a \in Word
  PROVE  /\ Excs!After(a) \in Word /\ Excs!After(a) = Link(a.of, a.at + 1)
         /\ (Excs!After(a)).of = a.of /\ (Excs!After(a)).at = a.at + 1
BY DEF Excs!After, Word, Link

\* Which words the registers hold.
LEMMA Banks ==
  ASSUME MachineType
  PROVE  /\ cpu.pc \in Word /\ cpu.r0 \in Word /\ cpu.r1 \in Word /\ cpu.mode \in Modes /\ cpu.I \in BOOLEAN
         /\ cpu.flag \in BOOLEAN
         /\ cpu.sp["super"] \in Int /\ cpu.sp["irq"] \in Int
         /\ cpu.lr["super"] \in Word /\ cpu.lr["irq"] \in Word
BY DEF MachineType, Modes

\* What each kind of instruction does to the machine; first, only going on.
LEMMA AdvancedEffect ==
  ASSUME MachineType, cpu' = Excs!Advanced, stack' = stack
  PROVE  /\ MachineType'
         /\ cpu'.pc = Excs!After(cpu.pc) /\ cpu'.mode = cpu.mode /\ cpu'.I = cpu.I /\ cpu'.r0 = cpu.r0 /\ cpu'.r1 = cpu.r1
         /\ cpu'.sp = cpu.sp /\ cpu'.lr = cpu.lr
<1>1. cpu.pc \in Word /\ Excs!After(cpu.pc) \in Word
  BY NextAddress, Banks
<1> QED BY <1>1 DEF MachineType, Excs!Advanced

\* C code that works on the registers.
LEMMA WorkEffect ==
  ASSUME Excs!ExceptionsAssumption, MachineType, Excs!Work, stack' = stack
  PROVE  /\ MachineType'
         /\ cpu'.pc = Excs!After(cpu.pc) /\ cpu'.mode = cpu.mode /\ cpu'.I = cpu.I
         /\ cpu'.sp = cpu.sp /\ cpu'.lr = cpu.lr
<1>1. cpu.pc \in Word /\ Excs!After(cpu.pc) \in Word
  BY NextAddress, Banks
<1>2. PICK r0 \in Excs!Numbers, r1 \in Excs!Numbers : cpu' = [Excs!Advanced EXCEPT !.r0 = r0, !.r1 = r1]
  BY DEF Excs!At, Excs!Work
<1>3. r0 \in Word /\ r1 \in Word
  BY <1>2 DEF Excs!ExceptionsAssumption, Excs!Numbers, Excs!Number, Word, Names
<1> QED BY <1>1, <1>2, <1>3 DEF MachineType, Excs!Advanced

\* A call.
LEMMA CallsEffect ==
  ASSUME MachineType, cpu.mode = "super", NEW routine, routine \in Names, Excs!Calls(routine), stack' = stack
  PROVE  /\ MachineType'
         /\ cpu'.pc = Link(routine, 1) /\ cpu'.mode = cpu.mode /\ cpu'.I = cpu.I
         /\ cpu'.sp = cpu.sp /\ cpu'.lr["super"] = Excs!After(cpu.pc)
<1>1. cpu.pc \in Word /\ Excs!After(cpu.pc) \in Word
  BY NextAddress, Banks
<1>2. Link(routine, 1) \in Word
  BY DEF Link, Word
<1>3. cpu' = [cpu EXCEPT !.pc = Link(routine, 1), !.lr["super"] = Excs!After(cpu.pc)]
  BY DEF Excs!Calls, Excs!Address, Link
<1> QED BY <1>1, <1>2, <1>3 DEF MachineType, Modes

\* A return from a call.
LEMMA ReturnEffect ==
  ASSUME MachineType, cpu.mode = "super", cpu' = [cpu EXCEPT !.pc = cpu.lr[cpu.mode]], stack' = stack
  PROVE  /\ MachineType'
         /\ cpu'.pc = cpu.lr["super"] /\ cpu'.mode = cpu.mode /\ cpu'.I = cpu.I
         /\ cpu'.sp = cpu.sp /\ cpu'.lr = cpu.lr
BY DEF MachineType, Modes

\* A routine's push of lr on an empty stack.
LEMMA PushLinkEffect ==
  ASSUME MachineType, cpu.mode = "super", cpu.sp["super"] = 0, Excs!push, Excs!Op = "push_lr"
  PROVE  /\ MachineType'
         /\ cpu'.pc = Excs!After(cpu.pc) /\ cpu'.mode = cpu.mode /\ cpu'.I = cpu.I
         /\ cpu'.sp["super"] = 1 /\ stack'["super"][1] = cpu.lr["super"]
<1>1. cpu.pc \in Word /\ Excs!After(cpu.pc) \in Word /\ cpu.lr["super"] \in Word
  BY NextAddress, Banks
<1>2. Excs!Saved = <<cpu.lr["super"]>>
  BY DEF Excs!Saved
<1>3. Len(Excs!Saved) = 1 /\ Excs!Saved[1] = cpu.lr["super"]
  BY <1>2
<1>4. cpu' = [Excs!Advanced EXCEPT !.sp["super"] = 1]
  BY <1>3 DEF Excs!At, Excs!push, Excs!Sp
<1>5. stack' = [stack EXCEPT !["super"] =
                  [i \in DOMAIN @ |-> IF i \in 0 + 1 .. 0 + 1 THEN Excs!Saved[i - 0] ELSE @[i]]]
  BY <1>3 DEF Excs!At, Excs!push, Excs!Sp
<1>6. stack' \in [Modes -> [1 .. 3 -> Word]] /\ stack'["super"][1] = cpu.lr["super"]
  <2> DEFINE pushed == [i \in 1 .. 3 |-> IF i \in 0 + 1 .. 0 + 1 THEN Excs!Saved[i - 0] ELSE stack["super"][i]]
  <2>1. stack["super"] \in [1 .. 3 -> Word] /\ DOMAIN stack["super"] = 1 .. 3
    BY DEF MachineType, Modes
  <2>2. pushed \in [1 .. 3 -> Word] /\ pushed[1] = cpu.lr["super"]
    BY <2>1, <1>1, <1>3
  <2>3. stack' = [stack EXCEPT !["super"] = pushed]
    BY <1>5, <2>1
  <2> HIDE DEF pushed
  <2> QED BY <2>2, <2>3 DEF MachineType, Modes
<1> DEFINE sp == [cpu.sp EXCEPT !["super"] = 1]
<1>7. cpu' = [cpu EXCEPT !.pc = Excs!After(cpu.pc), !.sp = sp]
  BY <1>4 DEF MachineType, Excs!Advanced
<1>8. sp \in [Modes -> Int] /\ sp["super"] = 1
  BY DEF MachineType, Modes
<1> HIDE DEF sp
<1> QED BY <1>1, <1>6, <1>7, <1>8 DEF MachineType

\* And its pop.
LEMMA PopLinkEffect ==
  ASSUME MachineType, cpu.mode = "super", cpu.sp["super"] = 1, Excs!pop, Excs!Op = "pop_lr"
  PROVE  /\ MachineType'
         /\ cpu'.pc = Excs!After(cpu.pc) /\ cpu'.mode = cpu.mode /\ cpu'.I = cpu.I
         /\ cpu'.sp["super"] = 0 /\ cpu'.lr["super"] = stack["super"][1]
<1>1. cpu.pc \in Word /\ Excs!After(cpu.pc) \in Word /\ stack["super"][1] \in Word
  BY NextAddress, Banks DEF MachineType, Modes
<1>2. Excs!Saved = <<cpu.lr["super"]>>
  BY DEF Excs!Saved
<1>3. Len(Excs!Saved) = 1
  BY <1>2
<1>4. cpu' = [Excs!Advanced EXCEPT !.sp["super"] = 0, !.lr["super"] = stack["super"][1], !.r0 = @, !.r1 = @]
  <2> DEFINE saved == Excs!Saved
  <2>1. LET k == Len(saved)
            Word_(i) == stack["super"][1 - k + i]
        IN cpu' = [Excs!Advanced EXCEPT !.sp["super"] = 1 - k, !.lr["super"] = Word_(k),
                                        !.r0 = IF k = 3 THEN Word_(1) ELSE @,
                                        !.r1 = IF k > 1 THEN Word_(k - 1) ELSE @]
    BY DEF Excs!At, Excs!pop, Excs!Sp
  <2>2. Len(saved) = 1
    BY <1>3
  <2> HIDE DEF saved
  <2> QED BY <2>1, <2>2
<1>5. stack' = stack
  BY DEF Excs!At, Excs!pop
<1> DEFINE sp == [cpu.sp EXCEPT !["super"] = 0]
           lr == [cpu.lr EXCEPT !["super"] = stack["super"][1]]
<1>6. cpu' = [cpu EXCEPT !.pc = Excs!After(cpu.pc), !.sp = sp, !.lr = lr]
  BY <1>4 DEF MachineType, Excs!Advanced
<1>7. sp \in [Modes -> Int] /\ sp["super"] = 0 /\ lr \in [Modes -> Word] /\ lr["super"] = stack["super"][1]
  BY <1>1 DEF MachineType, Modes
<1> HIDE DEF sp, lr
<1> QED BY <1>1, <1>5, <1>6, <1>7 DEF MachineType

\* A view, field by field.
LEMMA NowIs ==
  /\ Now.pc = cpu.pc /\ Now.mode = cpu.mode /\ Now.I = cpu.I /\ Now.r0 = cpu.r0
  /\ Now.sp = cpu.sp["super"] /\ Now.lr = cpu.lr["super"]
  /\ cpu.sp["super"] = 1 => Now.words[1] = stack["super"][1]
  /\ Now'.pc = cpu'.pc /\ Now'.mode = cpu'.mode /\ Now'.I = cpu'.I /\ Now'.r0 = cpu'.r0
  /\ Now'.sp = cpu'.sp["super"] /\ Now'.lr = cpu'.lr["super"]
  /\ cpu'.sp["super"] = 1 => Now'.words[1] = stack'["super"][1]
BY DEF Now, Excs!View

\* At SUPER level the machine's view is one an exception may find.
LEMMA NowView ==
  /\ MachineType /\ cpu.mode = "super" => IsView(Now)
  /\ MachineType' /\ cpu'.mode = "super" => IsView(Now)'
BY DEF Now, Excs!View, IsView, MachineType

\* A comparison, and the first two instructions of system_enable_interrupts.
LEMMA MoveEffect ==
  ASSUME MachineType, Excs!Move, stack' = stack, Excs!Op \in {"cmp", "mrs_cpsr", "bic_I"}
  PROVE  /\ MachineType'
         /\ cpu'.pc = Excs!After(cpu.pc) /\ cpu'.mode = cpu.mode /\ cpu'.I = cpu.I /\ cpu'.sp = cpu.sp /\ cpu'.lr = cpu.lr
         /\ Excs!Op = "mrs_cpsr" => cpu'.r0 = Link(cpu.mode, IF cpu.I THEN 1 ELSE 0)
         /\ Excs!Op = "bic_I" => cpu'.r0 = Link(cpu.r0.of, 0)
<1>1. cpu.pc \in Word /\ Excs!After(cpu.pc) \in Word /\ cpu.r0 \in Word /\ cpu.mode \in Modes /\ cpu.I \in BOOLEAN
  BY NextAddress, Banks
<1>2. CASE Excs!Op = "cmp"
  <2>1. cpu' = [Excs!Advanced EXCEPT !.flag = cpu.r0 = cpu.r1]
    BY <1>2 DEF Excs!Move, Excs!At
  <2>2. cpu' = [cpu EXCEPT !.pc = Excs!After(cpu.pc), !.flag = cpu'.flag] /\ cpu'.flag \in BOOLEAN
    BY <2>1 DEF MachineType, Excs!Advanced
  <2> QED BY <1>1, <1>2, <2>2 DEF MachineType
<1>3. CASE Excs!Op = "mrs_cpsr"
  <2> DEFINE status == Link(cpu.mode, IF cpu.I THEN 1 ELSE 0)
  <2>1. cpu' = [Excs!Advanced EXCEPT !.r0 = status]
    BY <1>3 DEF Excs!Move, Excs!At, Excs!Status, Link
  <2>2. status \in Word
    BY <1>1 DEF Word, Names, Modes, Link
  <2> HIDE DEF status
  <2>3. cpu' = [cpu EXCEPT !.pc = Excs!After(cpu.pc), !.r0 = status]
    BY <2>1 DEF MachineType, Excs!Advanced
  <2>4. /\ MachineType'
        /\ cpu'.pc = Excs!After(cpu.pc) /\ cpu'.mode = cpu.mode /\ cpu'.I = cpu.I /\ cpu'.sp = cpu.sp /\ cpu'.lr = cpu.lr
        /\ cpu'.r0 = status
    BY <1>1, <2>2, <2>3 DEF MachineType
  <2> QED BY <2>4, <1>3 DEF status
<1>4. CASE Excs!Op = "bic_I"
  <2> DEFINE status == Link(cpu.r0.of, 0)
  <2>1. cpu' = [Excs!Advanced EXCEPT !.r0.at = 0]
    BY <1>4 DEF Excs!Move, Excs!At
  <2>2. status \in Word /\ status = [cpu.r0 EXCEPT !.at = 0]
    BY <1>1 DEF Word, Link
  <2>3. cpu' = [cpu EXCEPT !.pc = Excs!After(cpu.pc), !.r0 = status]
    BY <2>1, <2>2 DEF MachineType, Excs!Advanced
  <2> HIDE DEF status
  <2>4. /\ MachineType'
        /\ cpu'.pc = Excs!After(cpu.pc) /\ cpu'.mode = cpu.mode /\ cpu'.I = cpu.I /\ cpu'.sp = cpu.sp /\ cpu'.lr = cpu.lr
        /\ cpu'.r0 = status
    BY <1>1, <2>2, <2>3 DEF MachineType
  <2> QED BY <2>4, <1>4 DEF status
<1> QED BY <1>2, <1>3, <1>4

\* The third, which enables interrupts.
LEMMA EnablesEffect ==
  ASSUME MachineType, Excs!Move, stack' = stack, Excs!Op = "msr_cpsr", cpu.r0 = Link("super", 0)
  PROVE  /\ MachineType'
         /\ cpu'.pc = Excs!After(cpu.pc) /\ cpu'.mode = "super" /\ ~cpu'.I /\ cpu'.sp = cpu.sp /\ cpu'.lr = cpu.lr
<1>1. cpu.pc \in Word /\ Excs!After(cpu.pc) \in Word
  BY NextAddress, Banks
<1>2. cpu' = [Excs!Advanced EXCEPT !.mode = cpu.r0.of, !.I = cpu.r0.at = 1]
  BY DEF Excs!Move, Excs!At
<1>3. cpu.r0.of = "super" /\ (cpu.r0.at = 1) = FALSE
  BY DEF Link
<1>4. cpu' = [cpu EXCEPT !.pc = Excs!After(cpu.pc), !.mode = "super", !.I = FALSE]
  BY <1>2, <1>3 DEF MachineType, Excs!Advanced
<1> QED BY <1>1, <1>4 DEF MachineType, Modes

\* The end of a program.
LEMMA StopsEffect ==
  ASSUME MachineType, Excs!Stops, Excs!Op = "rpi_reboot"
  PROVE  MachineType' /\ run' = "rebooted"
BY DEF Excs!Stops, Excs!At, MachineType

\* A step of timer-int's notmain.
LEMMA TimerStep ==
  ASSUME Excs!ExceptionsAssumption, MachineType, IsView(Now), InTimer(Now), Instruction
  PROVE  MachineType' /\ (run' = "rebooted" \/ (run' = "running" /\ Program(Now)'))
<1>1. /\ cpu.pc.of = "timer" /\ cpu.pc.at \in 1 .. 7 /\ cpu.sp["super"] = 0 /\ (cpu.I <=> cpu.pc.at <= 3)
      /\ cpu.mode = "super"
      /\ cpu.pc.at >= 2 => table = "int_init"
  BY NowIs DEF InTimer, IsView, In
<1>2. cpu.pc \in Word /\ (Excs!After(cpu.pc)).of = cpu.pc.of /\ (Excs!After(cpu.pc)).at = cpu.pc.at + 1
  BY NextAddress, Banks
<1>3. run = "running"
  BY Decoded
<1>a. ASSUME MachineType', cpu'.mode = "super", run' = "running", InTimer(Now)' \/ InEnable(Now)' \/ InPrintk(Now)'
      PROVE  MachineType' /\ (run' = "rebooted" \/ (run' = "running" /\ Program(Now)'))
  BY <1>a, NowView DEF Program, Interruptible
<1>4. CASE cpu.pc.at = 1 /\ Excs!Op = "int_init"
  <2>1. Excs!int_init
    BY <1>4, Decoded
  <2>2. /\ MachineType' /\ cpu'.pc = Excs!After(cpu.pc) /\ cpu'.mode = cpu.mode /\ cpu'.I = cpu.I /\ cpu'.sp = cpu.sp
        /\ table' = "int_init" /\ run' = run
    BY <2>1, AdvancedEffect DEF Excs!int_init
  <2>3. InTimer(Now)'
    BY <2>2, <1>1, <1>2, <1>4, NowIs DEF InTimer, In
  <2> QED BY <2>2, <2>3, <1>1, <1>3, <1>a
<1>5. CASE cpu.pc.at = 2 /\ Excs!Op = "timer_interrupt_init"
  <2>1. Excs!timer_interrupt_init
    BY <1>5, Decoded
  <2>2. /\ MachineType' /\ cpu'.pc = Excs!After(cpu.pc) /\ cpu'.mode = cpu.mode /\ cpu'.I = cpu.I /\ cpu'.sp = cpu.sp
        /\ table' = table /\ run' = run
    BY <2>1, AdvancedEffect DEF Excs!timer_interrupt_init
  <2>3. InTimer(Now)'
    BY <2>2, <1>1, <1>2, <1>5, NowIs DEF InTimer, In
  <2> QED BY <2>2, <2>3, <1>1, <1>3, <1>a
<1>6. CASE cpu.pc.at = 3 /\ Excs!Op = "bl_system_enable_interrupts"
  <2>1. Excs!Calls("system_enable_interrupts") /\ UNCHANGED <<stack, table, run>>
    BY <1>6, Decoded DEF Excs!Branch, Excs!At
  <2>2. /\ MachineType' /\ cpu'.pc = Link("system_enable_interrupts", 1) /\ cpu'.mode = cpu.mode /\ cpu'.I = cpu.I
        /\ cpu'.sp = cpu.sp /\ cpu'.lr["super"] = Excs!After(cpu.pc)
    BY <2>1, <1>1, CallsEffect DEF Names
  <2>3. Excs!After(cpu.pc) = Link("timer", 4)
    BY <1>1, <1>2, <1>6, NextAddress
  <2>4. InEnable(Now)'
    BY <2>1, <2>2, <2>3, <1>1, <1>6, NowIs DEF InEnable, In, Link
  <2> QED BY <2>1, <2>2, <2>4, <1>1, <1>3, <1>a
<1>7. CASE cpu.pc.at \in {4, 6} /\ Excs!Op = "work"
  <2>1. Excs!Work /\ UNCHANGED <<stack, table, run>>
    BY <1>7, Decoded
  <2>2. /\ MachineType' /\ cpu'.pc = Excs!After(cpu.pc) /\ cpu'.mode = cpu.mode /\ cpu'.I = cpu.I /\ cpu'.sp = cpu.sp
    BY <2>1, WorkEffect
  <2>3. InTimer(Now)'
    BY <2>1, <2>2, <1>1, <1>2, <1>7, NowIs DEF InTimer, In
  <2> QED BY <2>1, <2>2, <2>3, <1>1, <1>3, <1>a
<1>8. CASE cpu.pc.at = 5 /\ Excs!Op = "bl_printk"
  <2>1. Excs!Calls("printk") /\ UNCHANGED <<stack, table, run>>
    BY <1>8, Decoded DEF Excs!Branch, Excs!At
  <2>2. /\ MachineType' /\ cpu'.pc = Link("printk", 1) /\ cpu'.mode = cpu.mode /\ cpu'.I = cpu.I
        /\ cpu'.sp = cpu.sp /\ cpu'.lr["super"] = Excs!After(cpu.pc)
    BY <2>1, <1>1, CallsEffect DEF Names
  <2>3. Excs!After(cpu.pc) = Link("timer", 6)
    BY <1>1, <1>2, <1>8, NextAddress
  <2>4. ~cpu.I
    BY <1>1, <1>8
  <2>5. InPrintk(Now)'
    BY <2>1, <2>2, <2>3, <2>4, <1>1, <1>8, NowIs DEF InPrintk, In, Link
  <2> QED BY <2>1, <2>2, <2>5, <1>1, <1>3, <1>a
<1>9. CASE cpu.pc.at = 7 /\ Excs!Op = "rpi_reboot"
  <2>1. Excs!Stops
    BY <1>9, Decoded
  <2>2. MachineType' /\ run' = "rebooted"
    BY <2>1, <1>9, StopsEffect
  <2> QED BY <2>2
<1> QED BY <1>1, <1>4, <1>5, <1>6, <1>7, <1>8, <1>9, MainListings DEF In

\* A step of system_enable_interrupts.
LEMMA EnableStep ==
  ASSUME MachineType, IsView(Now), InEnable(Now), Instruction
  PROVE  MachineType' /\ run' = "running" /\ Program(Now)'
<1>1. /\ cpu.pc.of = "system_enable_interrupts" /\ cpu.pc.at \in 1 .. 4 /\ cpu.sp["super"] = 0
      /\ (cpu.I <=> cpu.pc.at <= 3) /\ cpu.mode = "super" /\ table = "int_init" /\ cpu.lr["super"] = Link("timer", 4)
      /\ cpu.pc.at = 2 => cpu.r0 = Link("super", 1)
      /\ cpu.pc.at = 3 => cpu.r0 = Link("super", 0)
  BY NowIs DEF InEnable, IsView, In
<1>2. cpu.pc \in Word /\ (Excs!After(cpu.pc)).of = cpu.pc.of /\ (Excs!After(cpu.pc)).at = cpu.pc.at + 1
  BY NextAddress, Banks
<1>3. run = "running"
  BY Decoded
<1>a. ASSUME MachineType', cpu'.mode = "super", run' = "running", InTimer(Now)' \/ InEnable(Now)'
      PROVE  MachineType' /\ run' = "running" /\ Program(Now)'
  BY <1>a, NowView DEF Program, Interruptible
<1>4. CASE cpu.pc.at = 1 /\ Excs!Op = "mrs_cpsr"
  <2>1. Excs!Move /\ UNCHANGED <<stack, table, run>>
    BY <1>4, Decoded
  <2>2. /\ MachineType' /\ cpu'.pc = Excs!After(cpu.pc) /\ cpu'.mode = cpu.mode /\ cpu'.I = cpu.I
        /\ cpu'.sp = cpu.sp /\ cpu'.lr = cpu.lr /\ cpu'.r0 = Link(cpu.mode, IF cpu.I THEN 1 ELSE 0)
    BY <2>1, <1>4, MoveEffect
  <2>3. InEnable(Now)'
    <3>1. cpu.I /\ cpu'.r0 = Link("super", 1) /\ cpu'.pc.at = 2
      BY <2>2, <1>1, <1>2, <1>4
    <3> QED BY <3>1, <2>1, <2>2, <1>1, <1>2, NowIs DEF InEnable, In
  <2> QED BY <2>1, <2>2, <2>3, <1>1, <1>3, <1>a
<1>5. CASE cpu.pc.at = 2 /\ Excs!Op = "bic_I"
  <2>1. Excs!Move /\ UNCHANGED <<stack, table, run>>
    BY <1>5, Decoded
  <2>2. /\ MachineType' /\ cpu'.pc = Excs!After(cpu.pc) /\ cpu'.mode = cpu.mode /\ cpu'.I = cpu.I
        /\ cpu'.sp = cpu.sp /\ cpu'.lr = cpu.lr /\ cpu'.r0 = Link(cpu.r0.of, 0)
    BY <2>1, <1>5, MoveEffect
  <2>3. InEnable(Now)'
    BY <2>1, <2>2, <1>1, <1>2, <1>5, NowIs DEF InEnable, In, Link
  <2> QED BY <2>1, <2>2, <2>3, <1>1, <1>3, <1>a
<1>6. CASE cpu.pc.at = 3 /\ Excs!Op = "msr_cpsr"
  <2>1. Excs!Move /\ UNCHANGED <<stack, table, run>>
    BY <1>6, Decoded
  <2>2. /\ MachineType' /\ cpu'.pc = Excs!After(cpu.pc) /\ cpu'.mode = "super" /\ ~cpu'.I
        /\ cpu'.sp = cpu.sp /\ cpu'.lr = cpu.lr
    BY <2>1, <1>1, <1>6, EnablesEffect
  <2>4. InEnable(Now)'
    <3>1. cpu'.pc.at = 4
      BY <2>2, <1>2, <1>6
    <3> QED BY <3>1, <2>1, <2>2, <1>1, <1>2, NowIs DEF InEnable, In
  <2> QED BY <2>1, <2>2, <2>4, <1>1, <1>3, <1>a
<1>7. CASE cpu.pc.at = 4 /\ Excs!Op = "bx_lr"
  <2>1. cpu' = [cpu EXCEPT !.pc = cpu.lr[cpu.mode]] /\ UNCHANGED <<stack, table, run>>
    BY <1>7, Decoded DEF Excs!Branch, Excs!At
  <2>2. /\ MachineType' /\ cpu'.pc = Link("timer", 4) /\ cpu'.mode = cpu.mode /\ cpu'.I = cpu.I
        /\ cpu'.sp = cpu.sp
    BY <2>1, <1>1, ReturnEffect
  <2>3. InTimer(Now)'
    BY <2>1, <2>2, <1>1, <1>7, NowIs DEF InTimer, In, Link
  <2> QED BY <2>1, <2>2, <2>3, <1>1, <1>3, <1>a
<1> QED BY <1>1, <1>4, <1>5, <1>6, <1>7, CalledListings DEF In

\* A step of a C function, which an interrupt may find with lr on the stack.
LEMMA PrintkStep ==
  ASSUME Excs!ExceptionsAssumption, MachineType, IsView(Now), InPrintk(Now), Instruction
  PROVE  MachineType' /\ run' = "running" /\ Program(Now)'
<1>1. /\ cpu.pc.of = "printk" /\ cpu.pc.at \in 1 .. 5 /\ ~cpu.I /\ cpu.mode = "super" /\ table = "int_init"
      /\ cpu.pc.at \in {1, 5} => cpu.sp["super"] = 0 /\ cpu.lr["super"] = Link("timer", 6)
      /\ cpu.pc.at \in 2 .. 4 => cpu.sp["super"] = 1 /\ stack["super"][1] = Link("timer", 6)
  BY NowIs DEF InPrintk, IsView, In
<1>2. cpu.pc \in Word /\ (Excs!After(cpu.pc)).of = cpu.pc.of /\ (Excs!After(cpu.pc)).at = cpu.pc.at + 1
  BY NextAddress, Banks
<1>3. run = "running"
  BY Decoded
<1>a. ASSUME MachineType', cpu'.mode = "super", run' = "running", InTimer(Now)' \/ InPrintk(Now)'
      PROVE  MachineType' /\ run' = "running" /\ Program(Now)'
  BY <1>a, NowView DEF Program, Interruptible
<1>4. CASE cpu.pc.at = 1 /\ Excs!Op = "push_lr"
  <2>1. Excs!push /\ UNCHANGED <<table, run>>
    BY <1>4, Decoded DEF Excs!push
  <2>2. /\ MachineType' /\ cpu'.pc = Excs!After(cpu.pc) /\ cpu'.mode = cpu.mode /\ cpu'.I = cpu.I
        /\ cpu'.sp["super"] = 1 /\ stack'["super"][1] = cpu.lr["super"]
    BY <2>1, <1>1, <1>4, PushLinkEffect
  <2>3. InPrintk(Now)'
    BY <2>1, <2>2, <1>1, <1>2, <1>4, NowIs DEF InPrintk, In
  <2> QED BY <2>1, <2>2, <2>3, <1>1, <1>3, <1>a
<1>5. CASE cpu.pc.at = 2 /\ Excs!Op = "work"
  <2>1. Excs!Work /\ UNCHANGED <<stack, table, run>>
    BY <1>5, Decoded
  <2>2. /\ MachineType' /\ cpu'.pc = Excs!After(cpu.pc) /\ cpu'.mode = cpu.mode /\ cpu'.I = cpu.I /\ cpu'.sp = cpu.sp
    BY <2>1, WorkEffect
  <2>3. InPrintk(Now)'
    BY <2>1, <2>2, <1>1, <1>2, <1>5, NowIs DEF InPrintk, In
  <2> QED BY <2>1, <2>2, <2>3, <1>1, <1>3, <1>a
<1>6. CASE cpu.pc.at = 3 /\ Excs!Op = "cmp"
  <2>1. Excs!Move /\ UNCHANGED <<stack, table, run>>
    BY <1>6, Decoded
  <2>2. /\ MachineType' /\ cpu'.pc = Excs!After(cpu.pc) /\ cpu'.mode = cpu.mode /\ cpu'.I = cpu.I /\ cpu'.sp = cpu.sp
    BY <2>1, <1>6, MoveEffect
  <2>3. InPrintk(Now)'
    BY <2>1, <2>2, <1>1, <1>2, <1>6, NowIs DEF InPrintk, In
  <2> QED BY <2>1, <2>2, <2>3, <1>1, <1>3, <1>a
<1>7. CASE cpu.pc.at = 4 /\ Excs!Op = "pop_lr"
  <2>1. Excs!pop /\ UNCHANGED <<table, run>>
    BY <1>7, Decoded DEF Excs!pop
  <2>2. /\ MachineType' /\ cpu'.pc = Excs!After(cpu.pc) /\ cpu'.mode = cpu.mode /\ cpu'.I = cpu.I
        /\ cpu'.sp["super"] = 0 /\ cpu'.lr["super"] = stack["super"][1]
    BY <2>1, <1>1, <1>7, PopLinkEffect
  <2>3. InPrintk(Now)'
    BY <2>1, <2>2, <1>1, <1>2, <1>7, NowIs DEF InPrintk, In
  <2> QED BY <2>1, <2>2, <2>3, <1>1, <1>3, <1>a
<1>8. CASE cpu.pc.at = 5 /\ Excs!Op = "bx_lr"
  <2>1. cpu' = [cpu EXCEPT !.pc = cpu.lr[cpu.mode]] /\ UNCHANGED <<stack, table, run>>
    BY <1>8, Decoded DEF Excs!Branch, Excs!At
  <2>2. /\ MachineType' /\ cpu'.pc = Link("timer", 6) /\ cpu'.mode = cpu.mode /\ cpu'.I = cpu.I
        /\ cpu'.sp = cpu.sp
    BY <2>1, <1>1, <1>8, ReturnEffect
  <2>3. InTimer(Now)'
    <3>1. cpu'.pc.of = "timer" /\ cpu'.pc.at = 6 /\ ~cpu'.I /\ cpu'.sp["super"] = 0
      BY <2>2, <1>1, <1>3, <1>8 DEF Link
    <3> QED BY <3>1, <2>1, <1>1, NowIs DEF InTimer, In
  <2> QED BY <2>1, <2>2, <2>3, <1>1, <1>3, <1>a
<1> QED BY <1>1, <1>4, <1>5, <1>6, <1>7, <1>8, CalledListings DEF In

\* A step of swi_add or of syscall_invoke_asm, but for its system call.
LEMMA CallStep ==
  ASSUME MachineType, IsView(Now), Instruction, ~Excs!swi,
         NEW routine, NEW backs, NEW tables, InCall(Now, routine, backs, tables),
         routine \in {"swi_add", "syscall_invoke_asm"}
  PROVE  /\ MachineType' /\ run' = "running" /\ cpu'.mode = "super" /\ table' = table
         /\ \/ InCall(Now, routine, backs, tables)'
            \/ cpu'.pc \in backs /\ cpu'.sp["super"] = 0 /\ cpu'.I
<1>1. /\ cpu.pc.of = routine /\ cpu.pc.at \in 1 .. 4 /\ cpu.I /\ cpu.mode = "super" /\ table \in tables
      /\ cpu.pc.at \in {1, 4} => cpu.sp["super"] = 0 /\ cpu.lr["super"] \in backs
      /\ cpu.pc.at \in {2, 3} => cpu.sp["super"] = 1 /\ stack["super"][1] \in backs
  BY NowIs DEF InCall, IsView, In
<1>2. cpu.pc \in Word /\ (Excs!After(cpu.pc)).of = cpu.pc.of /\ (Excs!After(cpu.pc)).at = cpu.pc.at + 1
  BY NextAddress, Banks
<1>3. run = "running"
  BY Decoded
<1>4. CASE cpu.pc.at = 1 /\ Excs!Op = "push_lr"
  <2>1. Excs!push /\ UNCHANGED <<table, run>>
    BY <1>4, Decoded DEF Excs!push
  <2>2. /\ MachineType' /\ cpu'.pc = Excs!After(cpu.pc) /\ cpu'.mode = cpu.mode /\ cpu'.I = cpu.I
        /\ cpu'.sp["super"] = 1 /\ stack'["super"][1] = cpu.lr["super"]
    BY <2>1, <1>1, <1>4, PushLinkEffect
  <2>3. InCall(Now, routine, backs, tables)'
    BY <2>1, <2>2, <1>1, <1>2, <1>4, NowIs DEF InCall, In
  <2> QED BY <2>1, <2>2, <2>3, <1>1, <1>3
<1>5. CASE cpu.pc.at = 2 /\ Excs!Op = "swi"
  BY <1>5, Decoded
<1>6. CASE cpu.pc.at = 3 /\ Excs!Op = "pop_lr"
  <2>1. Excs!pop /\ UNCHANGED <<table, run>>
    BY <1>6, Decoded DEF Excs!pop
  <2>2. /\ MachineType' /\ cpu'.pc = Excs!After(cpu.pc) /\ cpu'.mode = cpu.mode /\ cpu'.I = cpu.I
        /\ cpu'.sp["super"] = 0 /\ cpu'.lr["super"] = stack["super"][1]
    BY <2>1, <1>1, <1>6, PopLinkEffect
  <2>3. InCall(Now, routine, backs, tables)'
    BY <2>1, <2>2, <1>1, <1>2, <1>6, NowIs DEF InCall, In
  <2> QED BY <2>1, <2>2, <2>3, <1>1, <1>3
<1>7. CASE cpu.pc.at = 4 /\ Excs!Op = "bx_lr"
  <2>1. cpu' = [cpu EXCEPT !.pc = cpu.lr[cpu.mode]] /\ UNCHANGED <<stack, table, run>>
    BY <1>7, Decoded DEF Excs!Branch, Excs!At
  <2>2. /\ MachineType' /\ cpu'.pc = cpu.lr["super"] /\ cpu'.mode = cpu.mode /\ cpu'.I = cpu.I
        /\ cpu'.sp = cpu.sp
    BY <2>1, <1>1, ReturnEffect
  <2> QED BY <2>1, <2>2, <1>1, <1>3, <1>7
<1> QED BY <1>1, <1>4, <1>5, <1>6, <1>7, CalledListings DEF In

\* A step of 3-vector-base, but for its system call.
LEMMA VectorStep ==
  ASSUME Excs!ExceptionsAssumption, MachineType, IsView(Now), Instruction, ~Excs!swi, InVector(Now) \/ InAdd(Now)
  PROVE  MachineType' /\ (run' = "rebooted" \/ (run' = "running" /\ Program(Now)'))
<1>3. run = "running"
  BY Decoded
<1>a. ASSUME MachineType', cpu'.mode = "super", run' = "running", InVector(Now)' \/ InAdd(Now)'
      PROVE  MachineType' /\ (run' = "rebooted" \/ (run' = "running" /\ Program(Now)'))
  BY <1>a, NowView DEF Program
<1>1. CASE InAdd(Now)
  <2> DEFINE backs == {Link("vector_base", 4), Link("vector_base", 7)}
             tables == {"slow", "fast"}
  <2>1. InCall(Now, "swi_add", backs, tables)
    BY <1>1 DEF InAdd
  <2>2. /\ MachineType' /\ run' = "running" /\ cpu'.mode = "super" /\ table' = table
        /\ \/ InCall(Now, "swi_add", backs, tables)'
           \/ cpu'.pc \in backs /\ cpu'.sp["super"] = 0 /\ cpu'.I
    <3> HIDE DEF backs, tables
    <3> QED BY <2>1, CallStep
  <2>3. CASE InCall(Now, "swi_add", backs, tables)'
    BY <2>2, <2>3, <1>a DEF InAdd
  <2>4. CASE cpu'.pc \in backs /\ cpu'.sp["super"] = 0 /\ cpu'.I
    <3>1. InVector(Now)'
      BY <2>1, <2>2, <2>4, NowIs DEF InVector, InMain, InCall, In, Link
    <3> QED BY <2>2, <3>1, <1>a
  <2> QED BY <2>2, <2>3, <2>4
<1>2. CASE InVector(Now)
  <2>1. /\ cpu.pc.of = "vector_base" /\ cpu.pc.at \in 1 .. 7 /\ cpu.sp["super"] = 0 /\ cpu.I
        /\ cpu.mode = "super"
        /\ cpu.pc.at >= 2 => table \in {"slow", "fast"}
    BY <1>2, NowIs DEF InVector, InMain, IsView, In
  <2>2. cpu.pc \in Word /\ (Excs!After(cpu.pc)).of = cpu.pc.of /\ (Excs!After(cpu.pc)).at = cpu.pc.at + 1
    BY NextAddress, Banks
  <2>4. CASE cpu.pc.at \in {1, 4} /\ Excs!Op \in {"set_slow", "set_fast"}
    <3>1. Excs!vector_base_set
      BY <2>4, Decoded
    <3>2. /\ MachineType' /\ cpu'.pc = Excs!After(cpu.pc) /\ cpu'.mode = cpu.mode /\ cpu'.I = cpu.I /\ cpu'.sp = cpu.sp
          /\ table' \in {"slow", "fast"} /\ run' = run
      BY <3>1, <2>4, AdvancedEffect DEF Excs!vector_base_set, Excs!At
    <3>3. InVector(Now)'
      BY <3>2, <2>1, <2>2, <2>4, NowIs DEF InVector, InMain, In
    <3> QED BY <3>2, <3>3, <2>1, <1>3, <1>a
  <2>5. CASE cpu.pc.at \in {2, 5} /\ Excs!Op = "work"
    <3>1. Excs!Work /\ UNCHANGED <<stack, table, run>>
      BY <2>5, Decoded
    <3>2. /\ MachineType' /\ cpu'.pc = Excs!After(cpu.pc) /\ cpu'.mode = cpu.mode /\ cpu'.I = cpu.I /\ cpu'.sp = cpu.sp
      BY <3>1, WorkEffect
    <3>3. InVector(Now)'
      BY <3>1, <3>2, <2>1, <2>2, <2>5, NowIs DEF InVector, InMain, In
    <3> QED BY <3>1, <3>2, <3>3, <2>1, <1>3, <1>a
  <2>6. CASE cpu.pc.at \in {3, 6} /\ Excs!Op = "bl_swi_add"
    <3>1. Excs!Calls("swi_add") /\ UNCHANGED <<stack, table, run>>
      BY <2>6, Decoded DEF Excs!Branch, Excs!At
    <3>2. /\ MachineType' /\ cpu'.pc = Link("swi_add", 1) /\ cpu'.mode = cpu.mode /\ cpu'.I = cpu.I
          /\ cpu'.sp = cpu.sp /\ cpu'.lr["super"] = Excs!After(cpu.pc)
      BY <3>1, <2>1, CallsEffect DEF Names
    <3>3. Excs!After(cpu.pc) \in {Link("vector_base", 4), Link("vector_base", 7)}
      BY <2>1, <2>2, <2>6, NextAddress
    <3>4. InAdd(Now)'
      BY <3>1, <3>2, <3>3, <2>1, <2>6, NowIs DEF InAdd, InCall, In, Link
    <3> QED BY <3>1, <3>2, <3>4, <2>1, <1>3, <1>a
  <2>7. CASE cpu.pc.at = 7 /\ Excs!Op = "rpi_reboot"
    <3>1. Excs!Stops
      BY <2>7, Decoded
    <3>2. MachineType' /\ run' = "rebooted"
      BY <3>1, <2>7, StopsEffect
    <3> QED BY <3>2
  <2> QED BY <2>1, <2>4, <2>5, <2>6, <2>7, MainListings DEF In
<1> QED BY <1>1, <1>2

\* A step of trivial-os, but for its system call.
LEMMA OsStep ==
  ASSUME Excs!ExceptionsAssumption, MachineType, IsView(Now), Instruction, ~Excs!swi, InOs(Now) \/ InSyscall(Now)
  PROVE  MachineType' /\ (run' = "rebooted" \/ (run' = "running" /\ Program(Now)'))
<1>3. run = "running"
  BY Decoded
<1>a. ASSUME MachineType', cpu'.mode = "super", run' = "running", InOs(Now)' \/ InSyscall(Now)'
      PROVE  MachineType' /\ (run' = "rebooted" \/ (run' = "running" /\ Program(Now)'))
  BY <1>a, NowView DEF Program
<1>1. CASE InSyscall(Now)
  <2> DEFINE backs == {Link("trivial_os", 4), Link("trivial_os", 6)}
             tables == {"part1"}
  <2>1. InCall(Now, "syscall_invoke_asm", backs, tables)
    BY <1>1 DEF InSyscall
  <2>2. /\ MachineType' /\ run' = "running" /\ cpu'.mode = "super" /\ table' = table
        /\ \/ InCall(Now, "syscall_invoke_asm", backs, tables)'
           \/ cpu'.pc \in backs /\ cpu'.sp["super"] = 0 /\ cpu'.I
    <3> HIDE DEF backs, tables
    <3> QED BY <2>1, CallStep
  <2>3. CASE InCall(Now, "syscall_invoke_asm", backs, tables)'
    BY <2>2, <2>3, <1>a DEF InSyscall
  <2>4. CASE cpu'.pc \in backs /\ cpu'.sp["super"] = 0 /\ cpu'.I
    <3>1. InOs(Now)'
      BY <2>1, <2>2, <2>4, NowIs DEF InOs, InMain, InCall, In, Link
    <3> QED BY <2>2, <3>1, <1>a
  <2> QED BY <2>2, <2>3, <2>4
<1>2. CASE InOs(Now)
  <2>1. /\ cpu.pc.of = "trivial_os" /\ cpu.pc.at \in 1 .. 6 /\ cpu.sp["super"] = 0 /\ cpu.I
        /\ cpu.mode = "super"
        /\ cpu.pc.at >= 2 => table = "part1"
    BY <1>2, NowIs DEF InOs, InMain, IsView, In
  <2>2. cpu.pc \in Word /\ (Excs!After(cpu.pc)).of = cpu.pc.of /\ (Excs!After(cpu.pc)).at = cpu.pc.at + 1
    BY NextAddress, Banks
  <2>4. CASE cpu.pc.at = 1 /\ Excs!Op = "set_part1"
    <3>1. Excs!vector_base_set
      BY <2>4, Decoded
    <3>2. /\ MachineType' /\ cpu'.pc = Excs!After(cpu.pc) /\ cpu'.mode = cpu.mode /\ cpu'.I = cpu.I /\ cpu'.sp = cpu.sp
          /\ table' = "part1" /\ run' = run
      BY <3>1, <2>4, AdvancedEffect DEF Excs!vector_base_set, Excs!At
    <3>3. InOs(Now)'
      BY <3>2, <2>1, <2>2, <2>4, NowIs DEF InOs, InMain, In
    <3> QED BY <3>2, <3>3, <2>1, <1>3, <1>a
  <2>5. CASE cpu.pc.at \in {2, 4} /\ Excs!Op = "work"
    <3>1. Excs!Work /\ UNCHANGED <<stack, table, run>>
      BY <2>5, Decoded
    <3>2. /\ MachineType' /\ cpu'.pc = Excs!After(cpu.pc) /\ cpu'.mode = cpu.mode /\ cpu'.I = cpu.I /\ cpu'.sp = cpu.sp
      BY <3>1, WorkEffect
    <3>3. InOs(Now)'
      BY <3>1, <3>2, <2>1, <2>2, <2>5, NowIs DEF InOs, InMain, In
    <3> QED BY <3>1, <3>2, <3>3, <2>1, <1>3, <1>a
  <2>6. CASE cpu.pc.at \in {3, 5} /\ Excs!Op = "bl_syscall_invoke_asm"
    <3>1. Excs!Calls("syscall_invoke_asm") /\ UNCHANGED <<stack, table, run>>
      BY <2>6, Decoded DEF Excs!Branch, Excs!At
    <3>2. /\ MachineType' /\ cpu'.pc = Link("syscall_invoke_asm", 1) /\ cpu'.mode = cpu.mode /\ cpu'.I = cpu.I
          /\ cpu'.sp = cpu.sp /\ cpu'.lr["super"] = Excs!After(cpu.pc)
      BY <3>1, <2>1, CallsEffect DEF Names
    <3>3. Excs!After(cpu.pc) \in {Link("trivial_os", 4), Link("trivial_os", 6)}
      BY <2>1, <2>2, <2>6, NextAddress
    <3>4. InSyscall(Now)'
      BY <3>1, <3>2, <3>3, <2>1, <2>6, NowIs DEF InSyscall, InCall, In, Link
    <3> QED BY <3>1, <3>2, <3>4, <2>1, <1>3, <1>a
  <2>7. CASE cpu.pc.at = 6 /\ Excs!Op = "rpi_reboot"
    <3>1. Excs!Stops
      BY <2>7, Decoded
    <3>2. MachineType' /\ run' = "rebooted"
      BY <3>1, <2>7, StopsEffect
    <3> QED BY <3>2
  <2> QED BY <2>1, <2>4, <2>5, <2>6, <2>7, MainListings DEF In
<1> QED BY <1>1, <1>2

\* An interrupt enters its handler with the view it interrupted to bring back.
LEMMA TakenIrq ==
  ASSUME MachineType, Program(Now), Excs!TakeIrq
  PROVE  MachineType' /\ run' = "running" /\ Handler'
<1>1. IsView(Now) /\ Interruptible(Now) /\ ~Now.I /\ table = "int_init" /\ run = "running" /\ cpu.mode = "super"
  <2>1. ~cpu.I /\ run = "running"
    BY DEF Excs!TakeIrq, Excs!IrqDue
  <2>2. ~Now.I /\ IsView(Now) /\ cpu.mode = "super"
    BY <2>1, NowIs DEF Program, IsView
  <2>3. Interruptible(Now)
    BY <2>2 DEF Program, InVector, InAdd, InOs, InSyscall, InMain, InCall
  <2>4. table = "int_init"
    BY <2>2, <2>3 DEF Interruptible, InTimer, InEnable, InPrintk, In
  <2> QED BY <2>1, <2>2, <2>3, <2>4
<1>2. cpu.pc \in Word /\ Excs!After(cpu.pc) \in Word /\ cpu.flag \in BOOLEAN /\ cpu.I = FALSE
  BY NextAddress, Banks, <1>1, NowIs
<1> DEFINE spsr == [cpu.spsr EXCEPT !["irq"] = <<"super", FALSE, cpu.flag>>]
           lr == [cpu.lr EXCEPT !["irq"] = Excs!After(cpu.pc)]
<1>3. /\ cpu' = [cpu EXCEPT !.mode = "irq", !.I = TRUE, !.lr = lr, !.spsr = spsr, !.pc = Link("interrupt_asm", 1)]
      /\ taken' = {Now} /\ stack' = stack /\ table' = table /\ run' = run
  BY <1>1, <1>2 DEF Excs!TakeIrq, Excs!Exception, Now, Excs!Entries, Excs!_interrupt_table, Excs!Address, Link, MachineType
<1>4. /\ spsr \in [Modes -> {<<>>} \cup (Modes \X BOOLEAN \X BOOLEAN)] /\ spsr["irq"] = <<"super", FALSE, cpu.flag>>
      /\ lr \in [Modes -> Word] /\ lr["irq"] = Excs!After(cpu.pc) /\ lr["super"] = cpu.lr["super"]
  BY <1>2 DEF MachineType, Modes
<1>5. Link("interrupt_asm", 1) \in Word
  BY DEF Link, Word, Names
<1> HIDE DEF spsr, lr
<1>6. /\ MachineType' /\ cpu'.mode = "irq" /\ cpu'.I /\ cpu'.lr = lr /\ cpu'.spsr = spsr
      /\ cpu'.pc = Link("interrupt_asm", 1) /\ cpu'.sp = cpu.sp /\ cpu'.r0 = cpu.r0 /\ cpu'.r1 = cpu.r1
  BY <1>3, <1>4, <1>5 DEF MachineType, Modes
<1>v. PICK v : v = Now
  OBVIOUS
<1>7. /\ v.pc = cpu.pc /\ v.flag = cpu.flag /\ v.r0 = cpu.r0 /\ v.r1 = cpu.r1
      /\ v.sp = cpu.sp["super"] /\ v.lr = cpu.lr["super"] /\ v.words = [i \in 1 .. v.sp |-> stack["super"][i]]
  BY <1>v DEF Now, Excs!View
<1>8. taken' = {v} /\ IsView(v) /\ Interruptible(v) /\ ~v.I
  BY <1>v, <1>1, <1>3
<1>9. /\ In(cpu', "interrupt_asm", 1 .. 6) /\ cpu'.pc.at = 1
  BY <1>6 DEF In, Link
<1>10. InIrq(v)'
  <2>1. Interruptible(v)'
    BY <1>3, <1>8 DEF Interruptible, InTimer, InEnable, InPrintk, In
  <2>2. /\ cpu'.spsr["irq"] = <<"super", FALSE, v.flag>> /\ cpu'.sp["super"] = v.sp /\ cpu'.lr["super"] = v.lr
        /\ cpu'.lr["irq"] = Excs!After(v.pc) /\ cpu'.r0 = v.r0 /\ cpu'.r1 = v.r1
    BY <1>4, <1>6, <1>7
  <2>3. cpu'.pc.of = "interrupt_asm" /\ cpu'.pc.at = 1 /\ cpu'.mode = "irq"
    BY <1>6 DEF Link
  <2> QED BY <2>1, <2>2, <2>3, <1>8 DEF InIrq, In
<1>11. Kept(v)'
  BY <1>3, <1>7 DEF Kept
<1> QED BY <1>1, <1>3, <1>6, <1>8, <1>10, <1>11 DEF Handler, IsView

\* A system call enters the handler of the table in force.
LEMMA TakenSwi ==
  ASSUME MachineType, Program(Now), Excs!swi
  PROVE  MachineType' /\ run' = "running" /\ Handler'
<1>1. /\ run = "running" /\ Excs!Op = "swi" /\ IsView(Now) /\ cpu.mode = "super"
  BY NowIs DEF Excs!swi, Excs!At, Program, IsView
<1>2. \/ InAdd(Now) /\ cpu.pc.of = "swi_add" /\ cpu.pc.at = 2 /\ table \in {"slow", "fast"}
      \/ InSyscall(Now) /\ cpu.pc.of = "syscall_invoke_asm" /\ cpu.pc.at = 2 /\ table = "part1"
  <2>1. ~InTimer(Now)
    BY <1>1, NowIs, MainListings DEF InTimer, In
  <2>2. ~InEnable(Now) /\ ~InPrintk(Now)
    BY <1>1, NowIs, CalledListings DEF InEnable, InPrintk, In
  <2>3. ~InVector(Now) /\ ~InOs(Now)
    BY <1>1, NowIs, MainListings DEF InVector, InOs, InMain, In
  <2>4. InAdd(Now) => cpu.pc.of = "swi_add" /\ cpu.pc.at = 2 /\ table \in {"slow", "fast"}
    BY <1>1, NowIs, CalledListings DEF InAdd, InCall, In
  <2>5. InSyscall(Now) => cpu.pc.of = "syscall_invoke_asm" /\ cpu.pc.at = 2 /\ table = "part1"
    BY <1>1, NowIs, CalledListings DEF InSyscall, InCall, In
  <2> QED BY <2>1, <2>2, <2>3, <2>4, <2>5 DEF Program, Interruptible
<1>3. cpu.I /\ cpu.sp["super"] = 1
  BY <1>2, NowIs DEF InAdd, InSyscall, InCall, In
<1>4. cpu.pc \in Word /\ Excs!After(cpu.pc) \in Word /\ cpu.flag \in BOOLEAN /\ cpu.I = TRUE
  BY NextAddress, Banks, <1>3
<1>5. PICK handler : handler = Excs!Entries[table]["swi"]
  OBVIOUS
<1>6. /\ handler \in {"swi_trivial_vector", "swi_handler"}
      /\ handler = "swi_trivial_vector" => InAdd(Now) /\ cpu.pc.at = 2
      /\ handler = "swi_handler" => InSyscall(Now) /\ cpu.pc.at = 2
  BY <1>2, <1>5
     DEF Excs!Entries, Excs!_interrupt_vector_slow, Excs!_interrupt_vector_fast, Excs!part1_swi_vec
<1> DEFINE spsr == [cpu.spsr EXCEPT !["super"] = <<"super", TRUE, cpu.flag>>]
           lr == [cpu.lr EXCEPT !["super"] = Excs!After(cpu.pc)]
<1>7. /\ cpu' = [cpu EXCEPT !.mode = "super", !.I = TRUE, !.lr = lr, !.spsr = spsr, !.pc = Link(handler, 1)]
      /\ taken' = {Now} /\ stack' = stack /\ table' = table /\ run' = run
  <2>1. table # "none" /\ Excs!Exception("swi", "super")
    BY <1>2 DEF Excs!swi
  <2> QED BY <2>1, <1>1, <1>4, <1>5 DEF Excs!Exception, Now, Excs!Address, Link, MachineType
<1>8. /\ spsr \in [Modes -> {<<>>} \cup (Modes \X BOOLEAN \X BOOLEAN)] /\ spsr["super"] = <<"super", TRUE, cpu.flag>>
      /\ lr \in [Modes -> Word] /\ lr["super"] = Excs!After(cpu.pc)
  BY <1>4 DEF MachineType, Modes
<1>9. Link(handler, 1) \in Word
  BY <1>6 DEF Link, Word, Names
<1> HIDE DEF spsr, lr
<1>10. /\ MachineType' /\ cpu'.mode = "super" /\ cpu'.I /\ cpu'.lr = lr /\ cpu'.spsr = spsr
       /\ cpu'.pc = Link(handler, 1) /\ cpu'.sp = cpu.sp /\ cpu'.r0 = cpu.r0 /\ cpu'.r1 = cpu.r1
  BY <1>7, <1>8, <1>9 DEF MachineType, Modes
<1>v. PICK v : v = Now
  OBVIOUS
<1>11. /\ v.pc = cpu.pc /\ v.flag = cpu.flag /\ v.r0 = cpu.r0 /\ v.r1 = cpu.r1 /\ v.I
       /\ v.sp = 1 /\ v.words = [i \in 1 .. v.sp |-> stack["super"][i]]
  BY <1>v, <1>3 DEF Now, Excs!View
<1>12. taken' = {v} /\ IsView(v)
  BY <1>v, <1>1, <1>7
<1>13. /\ cpu'.spsr["super"] = <<"super", TRUE, v.flag>> /\ cpu'.sp["super"] = 1
       /\ cpu'.lr["super"] = Excs!After(v.pc) /\ cpu'.r0 = v.r0 /\ cpu'.r1 = v.r1
       /\ cpu'.pc.of = handler /\ cpu'.pc.at = 1
  <2>1. cpu'.pc.of = handler /\ cpu'.pc.at = 1
    BY <1>10 DEF Link
  <2> QED BY <2>1, <1>3, <1>8, <1>10, <1>11
<1>14. Called(v)'
  BY <1>10, <1>11, <1>13 DEF Called
<1>15. ASSUME handler = "swi_trivial_vector" PROVE InTrivial(v)'
  <2>1. InAdd(v)' /\ v.pc.at = 2
    BY <1>6, <1>7, <1>11, <1>15, <1>v DEF InAdd, InCall, In
  <2> QED BY <2>1, <1>13, <1>14, <1>15 DEF InTrivial, In
<1>16. ASSUME handler = "swi_handler" PROVE InHandler(v)'
  <2>1. InSyscall(v)' /\ v.pc.at = 2
    BY <1>6, <1>7, <1>11, <1>16, <1>v DEF InSyscall, InCall, In
  <2> QED BY <2>1, <1>13, <1>14, <1>16 DEF InHandler, In
<1>17. InTrivial(v)' \/ InHandler(v)'
  BY <1>6, <1>15, <1>16
<1>18. Kept(v)'
  BY <1>7, <1>11 DEF Kept
<1> QED BY <1>1, <1>7, <1>10, <1>12, <1>17, <1>18 DEF Handler, IsView

(* A step of interrupt_asm keeps what brings back the view, or returns and *)
(* has brought it back.                                                    *)
LEMMA IrqStep ==
  ASSUME Excs!ExceptionsAssumption, MachineType, cpu.I, Instruction, NEW v, IsView(v), Kept(v), InIrq(v)
  PROVE  /\ MachineType' /\ UNCHANGED <<run, table, taken>> /\ Kept(v)'
         /\ \/ cpu'.I /\ InIrq(v)'
            \/ Now' = v
<1>1. /\ cpu.pc.of = "interrupt_asm" /\ cpu.pc.at \in 1 .. 6 /\ cpu.mode = "irq"
      /\ cpu.sp["super"] = v.sp /\ cpu.lr["super"] = v.lr
      /\ cpu.spsr["irq"] = <<"super", FALSE, v.flag>> /\ ~v.I
  BY DEF InIrq, In
<1>2. /\ cpu.pc.at \in {1, 2} => cpu.lr["irq"] = Excs!After(v.pc)
      /\ cpu.pc.at \in {3, 6} => cpu.lr["irq"] = v.pc
      /\ cpu.pc.at \in {2, 3, 6} => cpu.sp["irq"] = 0
      /\ cpu.pc.at \in {4, 5} =>
           cpu.sp["irq"] = 3 /\ stack["irq"][1] = v.r0 /\ stack["irq"][2] = v.r1 /\ stack["irq"][3] = v.pc
      /\ cpu.pc.at \in {1, 2, 3, 4, 6} => cpu.r0 = v.r0 /\ cpu.r1 = v.r1
  BY DEF InIrq
<1>3. /\ cpu.pc \in Word /\ Excs!After(cpu.pc) \in Word /\ (Excs!After(cpu.pc)).of = "interrupt_asm"
      /\ (Excs!After(cpu.pc)).at = cpu.pc.at + 1
  BY <1>1, NextAddress, Banks
<1>4. /\ v.pc \in Word /\ v.mode = "super" /\ Excs!After(v.pc) = Link(v.pc.of, v.pc.at + 1) /\ Excs!After(v.pc) \in Word
      /\ v.pc = Link(v.pc.of, v.pc.at)
  BY NextAddress DEF IsView, Word, Link
\* What every instruction but the last leaves: all but the return.
<1> DEFINE same == /\ MachineType' /\ stack'["super"] = stack["super"] /\ cpu'.mode = "irq" /\ cpu'.I
                   /\ cpu'.spsr = cpu.spsr /\ cpu'.sp["super"] = cpu.sp["super"] /\ cpu'.lr["super"] = cpu.lr["super"]
                   /\ cpu'.pc = Excs!After(cpu.pc) /\ UNCHANGED <<run, table, taken>>
<1>a. ASSUME same, cpu.pc.at \in 1 .. 5,
             cpu'.pc.at \in {1, 2} => cpu'.lr["irq"] = Excs!After(v.pc),
             cpu'.pc.at \in {3, 6} => cpu'.lr["irq"] = v.pc,
             cpu'.pc.at \in {2, 3, 6} => cpu'.sp["irq"] = 0,
             cpu'.pc.at \in {4, 5} =>
               cpu'.sp["irq"] = 3 /\ stack'["irq"][1] = v.r0 /\ stack'["irq"][2] = v.r1 /\ stack'["irq"][3] = v.pc,
             cpu'.pc.at \in {1, 2, 3, 4, 6} => cpu'.r0 = v.r0 /\ cpu'.r1 = v.r1
      PROVE  /\ MachineType' /\ UNCHANGED <<run, table, taken>> /\ Kept(v)'
             /\ (cpu'.I /\ InIrq(v)') \/ Now' = v
  <2>1. Kept(v)'
    BY <1>a DEF Kept
  <2>2. Interruptible(v)'
    BY <1>a DEF InIrq, Interruptible, InTimer, InEnable, InPrintk, In
  <2>3. cpu'.pc.of = "interrupt_asm" /\ cpu'.pc.at \in 1 .. 6
    BY <1>a, <1>1, <1>3
  <2>4. /\ cpu'.mode = "irq" /\ ~v.I /\ cpu'.spsr["irq"] = <<"super", FALSE, v.flag>>
        /\ cpu'.sp["super"] = v.sp /\ cpu'.lr["super"] = v.lr
    BY <1>a, <1>1
  <2>5. InIrq(v)'
    BY <1>a, <2>2, <2>3, <2>4 DEF InIrq, In
  <2> QED BY <1>a, <2>1, <2>5
<1>5. CASE cpu.pc.at = 1 /\ Excs!Op = "mov_sp_INT_STACK_ADDR"
  <2> DEFINE sp == [cpu.sp EXCEPT !["irq"] = 0]
  <2>1. Excs!Move /\ UNCHANGED <<stack, table, run, taken>>
    BY <1>5, Decoded
  <2>2. cpu' = [cpu EXCEPT !.pc = Excs!After(cpu.pc), !.sp = sp]
    BY <2>1, <1>5, <1>1 DEF Excs!Move, Excs!At, Excs!Advanced, MachineType
  <2>3. sp \in [Modes -> Int] /\ sp["irq"] = 0 /\ sp["super"] = cpu.sp["super"]
    BY DEF MachineType, Modes
  <2> HIDE DEF sp
  <2>4. /\ same /\ cpu'.sp["irq"] = 0 /\ cpu'.lr = cpu.lr /\ cpu'.r0 = cpu.r0 /\ cpu'.r1 = cpu.r1
    BY <2>1, <2>2, <2>3, <1>1, <1>3 DEF MachineType
  <2> QED BY <2>4, <1>1, <1>2, <1>3, <1>5, <1>a
<1>6. CASE cpu.pc.at = 2 /\ Excs!Op = "sub_lr_4"
  <2> DEFINE lr == [cpu.lr EXCEPT !["irq"] = v.pc]
  <2>1. Excs!Move /\ UNCHANGED <<stack, table, run, taken>>
    BY <1>6, Decoded
  <2>2. cpu' = [cpu EXCEPT !.pc = Excs!After(cpu.pc), !.lr = lr]
    <3>1. cpu' = [Excs!Advanced EXCEPT !.lr["irq"].at = @ - 1]
      BY <2>1, <1>6, <1>1 DEF Excs!Move, Excs!At
    <3>2. [cpu.lr["irq"] EXCEPT !.at = @ - 1] = v.pc
      <4>1. cpu.lr["irq"] = Link(v.pc.of, v.pc.at + 1) /\ v.pc.at \in Int
        BY <1>2, <1>4, <1>6 DEF Word
      <4> QED BY <4>1, <1>4 DEF Link
    <3>3. cpu' = [Excs!Advanced EXCEPT !.lr["irq"] = [cpu.lr["irq"] EXCEPT !.at = @ - 1]]
      BY <3>1 DEF Excs!Advanced, MachineType, Modes
    <3> QED BY <3>2, <3>3 DEF Excs!Advanced, MachineType
  <2>3. lr \in [Modes -> Word] /\ lr["irq"] = v.pc /\ lr["super"] = cpu.lr["super"]
    BY <1>4 DEF MachineType, Modes
  <2> HIDE DEF lr
  <2>4. /\ same /\ cpu'.lr["irq"] = v.pc /\ cpu'.sp = cpu.sp /\ cpu'.r0 = cpu.r0 /\ cpu'.r1 = cpu.r1
    BY <2>1, <2>2, <2>3, <1>1, <1>3 DEF MachineType
  <2> QED BY <2>4, <1>1, <1>2, <1>3, <1>6, <1>a
<1>7. CASE cpu.pc.at = 3 /\ Excs!Op = "push_r0_lr"
  <2> DEFINE saved == Excs!Saved
             sp == [cpu.sp EXCEPT !["irq"] = 3]
             pushed == [i \in 1 .. 3 |-> saved[i]]
  <2>1. Excs!push /\ UNCHANGED <<table, run, taken>>
    BY <1>7, Decoded DEF Excs!push
  <2>2. saved = <<v.r0, v.r1, v.pc>>
    BY <1>1, <1>2, <1>7 DEF Excs!Saved
  <2>3. Len(saved) = 3 /\ saved[1] = v.r0 /\ saved[2] = v.r1 /\ saved[3] = v.pc
    BY <2>2
  <2>4. /\ stack' = [stack EXCEPT !["irq"] =
                       [i \in DOMAIN @ |-> IF i \in 0 + 1 .. 0 + 3 THEN saved[i - 0] ELSE @[i]]]
        /\ cpu' = [Excs!Advanced EXCEPT !.sp["irq"] = 3]
    <3>1. Len(Excs!Saved) = 3 /\ cpu.sp["irq"] = 0 /\ cpu.mode = "irq"
      BY <2>3, <1>1, <1>2, <1>7
    <3> HIDE DEF pushed, sp
    <3>2. stack' = [stack EXCEPT !["irq"] =
                      [i \in DOMAIN @ |-> IF i \in 0 + 1 .. 0 + 3 THEN Excs!Saved[i - 0] ELSE @[i]]]
      BY <3>1, <2>1 DEF Excs!push, Excs!At, Excs!Sp
    <3>3. cpu' = [Excs!Advanced EXCEPT !.sp["irq"] = 3]
      BY <3>1, <2>1 DEF Excs!push, Excs!At, Excs!Sp
    <3> QED BY <3>2, <3>3
  <2>5. v.r0 \in Word /\ v.r1 \in Word /\ stack["irq"] \in [1 .. 3 -> Word]
    BY <1>2, <1>7, Banks DEF MachineType, Modes
  <2> HIDE DEF saved
  <2>6. pushed \in [1 .. 3 -> Word] /\ pushed[1] = v.r0 /\ pushed[2] = v.r1 /\ pushed[3] = v.pc
    BY <2>3, <2>5, <1>4
  <2>7. stack' = [stack EXCEPT !["irq"] = pushed]
    <3>1. [i \in 1 .. 3 |-> IF i \in 0 + 1 .. 0 + 3 THEN saved[i - 0] ELSE stack["irq"][i]] = pushed
      OBVIOUS
    <3>2. DOMAIN stack["irq"] = 1 .. 3
      BY <2>5
    <3> HIDE DEF pushed
    <3> QED BY <2>4, <3>1, <3>2
  <2> HIDE DEF pushed
  <2>8. /\ stack' \in [Modes -> [1 .. 3 -> Word]] /\ stack'["super"] = stack["super"] /\ stack'["irq"] = pushed
    BY <2>6, <2>7 DEF MachineType, Modes
  <2>9. cpu' = [cpu EXCEPT !.pc = Excs!After(cpu.pc), !.sp = sp]
    BY <2>4 DEF Excs!Advanced, MachineType
  <2>10. sp \in [Modes -> Int] /\ sp["irq"] = 3 /\ sp["super"] = cpu.sp["super"]
    BY DEF MachineType, Modes
  <2> HIDE DEF sp
  <2>11. /\ same /\ cpu'.sp["irq"] = 3 /\ cpu'.r0 = cpu.r0 /\ cpu'.r1 = cpu.r1
    BY <2>1, <2>8, <2>9, <2>10, <1>1, <1>3 DEF MachineType
  <2> QED BY <2>11, <2>6, <2>8, <1>1, <1>2, <1>3, <1>7, <1>a
<1>8. CASE cpu.pc.at = 4 /\ Excs!Op = "bl_interrupt_vector"
  <2>1. Excs!interrupt_vector /\ UNCHANGED <<stack, table, run, taken>>
    BY <1>8, Decoded DEF Excs!interrupt_vector
  <2>2. PICK r0 \in Excs!Numbers, r1 \in Excs!Numbers, flag \in BOOLEAN :
          cpu' = [Excs!Advanced EXCEPT !.r0 = r0, !.r1 = r1, !.flag = flag, !.lr["irq"] = Excs!After(cpu.pc)]
    BY <2>1, <1>1 DEF Excs!interrupt_vector, Excs!At
  <2>3. r0 \in Word /\ r1 \in Word
    BY <2>2 DEF Excs!ExceptionsAssumption, Excs!Numbers, Excs!Number, Word, Names
  <2> DEFINE lr == [cpu.lr EXCEPT !["irq"] = Excs!After(cpu.pc)]
  <2>4. cpu' = [cpu EXCEPT !.pc = Excs!After(cpu.pc), !.r0 = r0, !.r1 = r1, !.flag = flag, !.lr = lr]
    BY <2>2 DEF Excs!Advanced, MachineType
  <2>5. lr \in [Modes -> Word] /\ lr["super"] = cpu.lr["super"]
    BY <1>3 DEF MachineType, Modes
  <2> HIDE DEF lr
  <2>6. same /\ cpu'.sp = cpu.sp
    BY <2>1, <2>2, <2>3, <2>4, <2>5, <1>1, <1>3 DEF MachineType
  <2> QED BY <2>1, <2>6, <1>1, <1>2, <1>3, <1>8, <1>a
<1>9. CASE cpu.pc.at = 5 /\ Excs!Op = "pop_r0_lr"
  <2> DEFINE saved == Excs!Saved
             sp == [cpu.sp EXCEPT !["irq"] = 0]
             lr == [cpu.lr EXCEPT !["irq"] = v.pc]
  <2>1. Excs!pop /\ UNCHANGED <<stack, table, run, taken>>
    BY <1>9, Decoded DEF Excs!pop
  <2>2. saved = <<cpu.r0, cpu.r1, cpu.lr["irq"]>>
    BY <1>1, <1>9 DEF Excs!Saved
  <2>3. Len(saved) = 3
    BY <2>2
  <2>4. LET k == Len(saved)
            Word_(i) == stack["irq"][3 - k + i]
        IN cpu' = [Excs!Advanced EXCEPT !.sp["irq"] = 3 - k, !.lr["irq"] = Word_(k),
                                        !.r0 = IF k = 3 THEN Word_(1) ELSE @,
                                        !.r1 = IF k > 1 THEN Word_(k - 1) ELSE @]
    <3>1. cpu.sp["irq"] = 3
      BY <1>2, <1>9
    <3> QED BY <3>1, <2>1, <1>1 DEF Excs!At, Excs!pop, Excs!Sp
  <2> HIDE DEF saved
  <2>5. cpu' = [Excs!Advanced EXCEPT !.sp["irq"] = 0, !.lr["irq"] = stack["irq"][3],
                                     !.r0 = stack["irq"][1], !.r1 = stack["irq"][2]]
    BY <2>3, <2>4
  <2>6. v.r0 \in Word /\ v.r1 \in Word /\ stack["irq"][1] = v.r0 /\ stack["irq"][2] = v.r1 /\ stack["irq"][3] = v.pc
    BY <1>2, <1>9 DEF MachineType, Modes
  <2>7. cpu' = [cpu EXCEPT !.pc = Excs!After(cpu.pc), !.sp = sp, !.lr = lr, !.r0 = v.r0, !.r1 = v.r1]
    BY <2>5, <2>6 DEF Excs!Advanced, MachineType
  <2>8. /\ sp \in [Modes -> Int] /\ sp["irq"] = 0 /\ sp["super"] = cpu.sp["super"]
        /\ lr \in [Modes -> Word] /\ lr["irq"] = v.pc /\ lr["super"] = cpu.lr["super"]
    BY <1>4 DEF MachineType, Modes
  <2> HIDE DEF sp, lr
  <2>9. same /\ cpu'.sp["irq"] = 0 /\ cpu'.lr["irq"] = v.pc /\ cpu'.r0 = v.r0 /\ cpu'.r1 = v.r1
    BY <2>1, <2>6, <2>7, <2>8, <1>1, <1>3 DEF MachineType
  <2> QED BY <2>9, <1>1, <1>2, <1>3, <1>9, <1>a
<1>10. CASE cpu.pc.at = 6 /\ Excs!Op = "movs_pc_lr"
  <2>1. Excs!Branch /\ UNCHANGED <<stack, table, run, taken>>
    BY <1>10, Decoded
  <2>2. cpu' = [cpu EXCEPT !.pc = v.pc, !.mode = "super", !.I = FALSE, !.flag = v.flag]
    <3>1. cpu' = [cpu EXCEPT !.pc = cpu.lr["irq"], !.mode = cpu.spsr["irq"][1], !.I = cpu.spsr["irq"][2],
                             !.flag = cpu.spsr["irq"][3]]
      BY <2>1, <1>10, <1>1 DEF Excs!Branch, Excs!At
    <3>2. cpu.lr["irq"] = v.pc
      BY <1>2, <1>10
    <3>3. cpu.spsr["irq"][1] = "super" /\ cpu.spsr["irq"][2] = FALSE /\ cpu.spsr["irq"][3] = v.flag
      BY <1>1
    <3> QED BY <3>1, <3>2, <3>3
  <2>3. v.flag \in BOOLEAN
    BY DEF IsView
  <2>4. /\ MachineType' /\ cpu'.pc = v.pc /\ cpu'.mode = "super" /\ cpu'.I = FALSE /\ cpu'.flag = v.flag
        /\ cpu'.r0 = cpu.r0 /\ cpu'.r1 = cpu.r1 /\ cpu'.sp = cpu.sp /\ cpu'.lr = cpu.lr
    BY <2>1, <2>2, <2>3, <1>4 DEF MachineType, Modes
  <2>5. Now' = v
    <3>1. Now' = [pc |-> v.pc, mode |-> "super", I |-> FALSE, flag |-> v.flag, r0 |-> v.r0, r1 |-> v.r1,
                  sp |-> v.sp, lr |-> v.lr, words |-> [i \in 1 .. v.sp |-> stack["super"][i]]]
      BY <2>1, <2>4, <1>1, <1>2, <1>10 DEF Now, Excs!View
    <3>2. v.I = FALSE /\ v.mode = "super" /\ v.words = [i \in 1 .. v.sp |-> stack["super"][i]]
      BY <1>1 DEF IsView, Kept
    <3> QED BY <3>1, <3>2 DEF IsView
  <2>6. Kept(v)'
    BY <2>1 DEF Kept
  <2> QED BY <2>1, <2>4, <2>5, <2>6
<1> QED BY <1>1, <1>5, <1>6, <1>7, <1>8, <1>9, <1>10, HandlerListings DEF In

\* A step of swi_trivial_vector, which answers with r0 + 1.
LEMMA TrivialStep ==
  ASSUME MachineType, cpu.I, Instruction, NEW v, IsView(v), Kept(v), InTrivial(v)
  PROVE  /\ MachineType' /\ UNCHANGED <<run, table, taken>> /\ Kept(v)'
         /\ \/ cpu'.I /\ InTrivial(v)'
            \/ cpu'.mode = "super" /\ cpu'.pc.of = "swi_add" /\ Now' = Excs!Answered(v) /\ InAdd(Now)'
<1>1. /\ cpu.pc.of = "swi_trivial_vector" /\ cpu.pc.at \in 1 .. 2 /\ cpu.mode = "super" /\ v.I
      /\ cpu.sp["super"] = 1 /\ v.sp = 1 /\ cpu.lr["super"] = Excs!After(v.pc) /\ cpu.r1 = v.r1
      /\ cpu.spsr["super"] = <<"super", TRUE, v.flag>>
      /\ cpu.r0 = IF cpu.pc.at = 1 THEN v.r0 ELSE [v.r0 EXCEPT !.at = @ + 1]
  BY DEF InTrivial, Called, In
<1>2. /\ v.pc.of = "swi_add" /\ v.pc.at = 2 /\ table \in {"slow", "fast"}
      /\ v.words[1] \in {Link("vector_base", 4), Link("vector_base", 7)}
  BY DEF InTrivial, InAdd, InCall, In
<1>3. /\ cpu.pc \in Word /\ Excs!After(cpu.pc) \in Word /\ (Excs!After(cpu.pc)).of = "swi_trivial_vector"
      /\ (Excs!After(cpu.pc)).at = cpu.pc.at + 1
  BY <1>1, NextAddress, Banks
<1>4. Excs!After(v.pc) = Link("swi_add", 3) /\ Excs!After(v.pc) \in Word
  BY <1>2, NextAddress DEF IsView
<1>5. CASE cpu.pc.at = 1 /\ Excs!Op = "add_1"
  <2> DEFINE r == [v.r0 EXCEPT !.at = @ + 1]
  <2>1. Excs!Move /\ UNCHANGED <<stack, table, run, taken>>
    BY <1>5, Decoded
  <2>2. cpu.r0 = v.r0 /\ v.r0 \in Word
    BY <1>1, <1>5, Banks
  <2>3. cpu' = [cpu EXCEPT !.pc = Excs!After(cpu.pc), !.r0 = r]
    <3>1. cpu' = [Excs!Advanced EXCEPT !.r0.at = @ + 1]
      BY <2>1, <1>5 DEF Excs!Move, Excs!At
    <3> QED BY <3>1, <2>2 DEF Excs!Advanced, MachineType
  <2>4. r \in Word
    BY <2>2 DEF Word
  <2>5. (cpu' = [cpu EXCEPT !.pc = Excs!After(cpu.pc), !.r0 = r]) /\ cpu'.r0 = r
    BY <2>3 DEF MachineType
  <2> HIDE DEF r
  <2>6. /\ MachineType' /\ cpu'.pc = Excs!After(cpu.pc) /\ cpu'.mode = cpu.mode /\ cpu'.I = cpu.I /\ cpu'.r1 = cpu.r1
        /\ cpu'.sp = cpu.sp /\ cpu'.lr = cpu.lr /\ cpu'.spsr = cpu.spsr
    BY <2>1, <2>4, <2>5, <1>3 DEF MachineType
  <2>7. Kept(v)' /\ Called(v)' /\ InAdd(v)'
    BY <2>1, <2>6, <1>1 DEF Kept, Called, InAdd, InCall, InTrivial, In
  <2>8. cpu'.r0 = [v.r0 EXCEPT !.at = @ + 1]
    BY <2>5 DEF r
  <2>9. cpu'.pc.of = "swi_trivial_vector" /\ cpu'.pc.at = 2
    BY <2>6, <1>3, <1>5
  <2>10. InTrivial(v)'
    BY <2>6, <2>7, <2>8, <2>9, <1>1, <1>2 DEF InTrivial, In
  <2> QED BY <2>1, <2>6, <2>7, <2>10
<1>6. CASE cpu.pc.at = 2 /\ Excs!Op = "movs_pc_lr"
  <2>1. Excs!Branch /\ UNCHANGED <<stack, table, run, taken>>
    BY <1>6, Decoded
  <2>2. cpu' = [cpu EXCEPT !.pc = Excs!After(v.pc), !.mode = "super", !.I = TRUE, !.flag = v.flag]
    BY <2>1, <1>6, <1>1 DEF Excs!Branch, Excs!At
  <2>3. v.flag \in BOOLEAN
    BY DEF IsView
  <2>4. /\ MachineType' /\ cpu'.pc = Excs!After(v.pc) /\ cpu'.mode = "super" /\ cpu'.I = TRUE /\ cpu'.flag = v.flag
        /\ cpu'.r0 = cpu.r0 /\ cpu'.r1 = cpu.r1 /\ cpu'.sp = cpu.sp /\ cpu'.lr = cpu.lr
    BY <2>1, <2>2, <2>3, <1>4 DEF MachineType, Modes
  <2> DEFINE r == [v.r0 EXCEPT !.at = @ + 1]
  <2>5. Now' = [pc |-> Excs!After(v.pc), mode |-> "super", I |-> TRUE, flag |-> v.flag, r0 |-> r, r1 |-> v.r1,
                sp |-> v.sp, lr |-> Excs!After(v.pc), words |-> [i \in 1 .. v.sp |-> stack["super"][i]]]
    <3>1. cpu.r0 = r
      BY <1>1, <1>6
    <3> HIDE DEF r
    <3> QED BY <3>1, <2>1, <2>4, <1>1 DEF Now, Excs!View
  <2>6. Now' = Excs!Answered(v)
    <3>1. v.I = TRUE /\ v.mode = "super" /\ v.words = [i \in 1 .. v.sp |-> stack["super"][i]]
      BY <1>1 DEF IsView, Kept
    <3>2. Excs!Answered(v) = [v EXCEPT !.pc = Excs!After(v.pc), !.lr = Excs!After(v.pc), !.r0 = r]
      <4>1. Excs!Result(v) = r
        BY <1>1 DEF Excs!Result
      <4> HIDE DEF r
      <4> QED BY <4>1 DEF Excs!Answered
    <3> HIDE DEF r
    <3> QED BY <3>1, <3>2, <2>5 DEF IsView
  <2>7. Kept(v)'
    BY <2>1 DEF Kept
  <2>8. Now'.words[1] = v.words[1]
    BY <2>5, <1>1 DEF Kept
  <2>9. cpu'.pc.of = "swi_add" /\ cpu'.pc.at = 3
    BY <2>4, <1>4 DEF Link
  <2>10. InAdd(Now)'
    BY <2>1, <2>4, <2>8, <2>9, <1>1, <1>2, NowIs DEF InAdd, InCall, In
  <2> QED BY <2>1, <2>4, <2>6, <2>7, <2>9, <2>10
<1> QED BY <1>1, <1>5, <1>6, HandlerListings DEF In

\* A step of swi_handler, which keeps r1 to r12 on the caller's stack.
LEMMA HandlerStep ==
  ASSUME Excs!ExceptionsAssumption, MachineType, cpu.I, Instruction, NEW v, IsView(v), Kept(v), InHandler(v)
  PROVE  /\ MachineType' /\ UNCHANGED <<run, table, taken>> /\ Kept(v)'
         /\ \/ cpu'.I /\ InHandler(v)'
            \/ cpu'.mode = "super" /\ cpu'.pc.of = "syscall_invoke_asm" /\ Now' = Excs!Answered(v) /\ InSyscall(Now)'
<1>1. /\ cpu.pc.of = "swi_handler" /\ cpu.pc.at \in 1 .. 4 /\ cpu.mode = "super" /\ v.I /\ v.sp = 1
      /\ cpu.spsr["super"] = <<"super", TRUE, v.flag>>
  BY DEF InHandler, Called, In
<1>2. /\ cpu.pc.at \in {1, 4} => cpu.sp["super"] = 1 /\ cpu.lr["super"] = Excs!After(v.pc) /\ cpu.r1 = v.r1
      /\ cpu.pc.at \in {2, 3} =>
           cpu.sp["super"] = 3 /\ stack["super"][2] = v.r1 /\ stack["super"][3] = Excs!After(v.pc)
      /\ cpu.pc.at \in {3, 4} => cpu.r0 = Link("number", 0)
  BY DEF InHandler
<1>3. /\ v.pc.of = "syscall_invoke_asm" /\ v.pc.at = 2 /\ table = "part1"
      /\ v.words[1] \in {Link("trivial_os", 4), Link("trivial_os", 6)} /\ InSyscall(v)
  BY DEF InHandler, InSyscall, InCall, In
<1>4. /\ cpu.pc \in Word /\ Excs!After(cpu.pc) \in Word /\ (Excs!After(cpu.pc)).of = "swi_handler"
      /\ (Excs!After(cpu.pc)).at = cpu.pc.at + 1
  BY <1>1, NextAddress, Banks
<1>5. Excs!After(v.pc) = Link("syscall_invoke_asm", 3) /\ Excs!After(v.pc) \in Word
  BY <1>3, NextAddress DEF IsView
<1> DEFINE same == /\ MachineType' /\ Kept(v)' /\ cpu'.mode = "super" /\ cpu'.I
                   /\ cpu'.spsr = cpu.spsr /\ cpu'.pc = Excs!After(cpu.pc) /\ UNCHANGED <<run, table, taken>>
<1>a. ASSUME same, cpu.pc.at \in 1 .. 3,
             cpu'.pc.at = 4 => cpu'.sp["super"] = 1 /\ cpu'.lr["super"] = Excs!After(v.pc) /\ cpu'.r1 = v.r1,
             cpu'.pc.at \in {2, 3} =>
               cpu'.sp["super"] = 3 /\ stack'["super"][2] = v.r1 /\ stack'["super"][3] = Excs!After(v.pc),
             cpu'.pc.at \in {3, 4} => cpu'.r0 = Link("number", 0)
      PROVE  MachineType' /\ UNCHANGED <<run, table, taken>> /\ Kept(v)' /\ cpu'.I /\ InHandler(v)'
  <2>1. cpu'.pc.of = "swi_handler" /\ cpu'.pc.at \in 2 .. 4
    BY <1>a, <1>1, <1>4
  <2>2. InSyscall(v)'
    BY <1>a, <1>3 DEF InSyscall, InCall, In
  <2>3. Called(v)'
    BY <1>a, <1>1 DEF Called
  <2>4. InHandler(v)'
    BY <1>a, <1>3, <2>1, <2>2, <2>3 DEF InHandler, In
  <2> QED BY <1>a, <2>4
<1>6. CASE cpu.pc.at = 1 /\ Excs!Op = "push_r1_lr"
  <2> DEFINE saved == Excs!Saved
             sp == [cpu.sp EXCEPT !["super"] = 3]
             old == stack["super"]
             pushed == [i \in 1 .. 3 |-> IF i \in 1 + 1 .. 1 + 2 THEN saved[i - 1] ELSE old[i]]
  <2>1. Excs!push /\ UNCHANGED <<table, run, taken>>
    BY <1>6, Decoded DEF Excs!push
  <2>2. saved = <<v.r1, Excs!After(v.pc)>>
    BY <1>1, <1>2, <1>6 DEF Excs!Saved
  <2>3. Len(saved) = 2 /\ saved[1] = v.r1 /\ saved[2] = Excs!After(v.pc)
    BY <2>2
  <2>5. v.r1 \in Word /\ old \in [1 .. 3 -> Word]
    BY <1>2, <1>6, Banks DEF MachineType, Modes
  <2>4. stack' = [stack EXCEPT !["super"] = pushed] /\ cpu' = [Excs!Advanced EXCEPT !.sp["super"] = 3]
    <3>1. Len(Excs!Saved) = 2 /\ cpu.sp["super"] = 1 /\ cpu.mode = "super"
      BY <2>3, <1>1, <1>2, <1>6
    <3>2. stack' = [stack EXCEPT !["super"] =
                      [i \in DOMAIN @ |-> IF i \in 1 + 1 .. 1 + 2 THEN Excs!Saved[i - 1] ELSE @[i]]]
      <4> HIDE DEF pushed, sp, saved, old
      <4> QED BY <3>1, <2>1 DEF Excs!push, Excs!At, Excs!Sp
    <3>3. cpu' = [Excs!Advanced EXCEPT !.sp["super"] = 3]
      <4> HIDE DEF pushed, sp, saved, old
      <4> QED BY <3>1, <2>1 DEF Excs!push, Excs!At, Excs!Sp
    <3>4. DOMAIN stack["super"] = 1 .. 3
      BY <2>5
    <3> HIDE DEF sp
    <3> QED BY <3>2, <3>3, <3>4
  <2> HIDE DEF saved
  <2>6. pushed \in [1 .. 3 -> Word] /\ pushed[1] = old[1] /\ pushed[2] = v.r1 /\ pushed[3] = Excs!After(v.pc)
    BY <2>3, <2>5, <1>5
  <2> HIDE DEF pushed
  <2>8. stack' \in [Modes -> [1 .. 3 -> Word]] /\ stack'["super"] = pushed
    BY <2>4, <2>6 DEF MachineType, Modes
  <2>9. cpu' = [cpu EXCEPT !.pc = Excs!After(cpu.pc), !.sp = sp]
    BY <2>4 DEF Excs!Advanced, MachineType
  <2>10. sp \in [Modes -> Int] /\ sp["super"] = 3
    BY DEF MachineType, Modes
  <2> HIDE DEF sp
  <2>11. Kept(v)'
    <3>1. \A i \in 1 .. v.sp : pushed[i] = old[i]
      BY <2>6, <1>1
    <3>2. v.words = [i \in 1 .. v.sp |-> old[i]]
      BY DEF Kept
    <3>3. v.words = [i \in 1 .. v.sp |-> pushed[i]]
      BY <3>1, <3>2
    <3> QED BY <3>3, <2>8 DEF Kept
  <2>12. same /\ cpu'.sp["super"] = 3
    BY <2>1, <2>8, <2>9, <2>10, <2>11, <1>1, <1>4 DEF MachineType
  <2> QED BY <2>12, <2>6, <2>8, <1>1, <1>4, <1>6, <1>a
<1>7. CASE cpu.pc.at = 2 /\ Excs!Op = "bl_do_syscall"
  <2>1. Excs!do_syscall /\ UNCHANGED <<stack, table, run, taken>>
    BY <1>7, Decoded DEF Excs!do_syscall
  <2>2. PICK r1 \in Excs!Numbers, flag \in BOOLEAN :
          cpu' = [Excs!Advanced EXCEPT !.r0 = Excs!Number(0), !.r1 = r1, !.flag = flag, !.lr["super"] = Excs!After(cpu.pc)]
    BY <2>1, <1>1 DEF Excs!do_syscall, Excs!At
  <2>3. r1 \in Word /\ Excs!Number(0) \in Word /\ Excs!Number(0) = Link("number", 0)
    BY <2>2 DEF Excs!ExceptionsAssumption, Excs!Numbers, Excs!Number, Word, Names, Link
  <2> DEFINE lr == [cpu.lr EXCEPT !["super"] = Excs!After(cpu.pc)]
  <2>4. cpu' = [cpu EXCEPT !.pc = Excs!After(cpu.pc), !.r0 = Excs!Number(0), !.r1 = r1, !.flag = flag, !.lr = lr]
    BY <2>2 DEF Excs!Advanced, MachineType
  <2>5. lr \in [Modes -> Word]
    BY <1>4 DEF MachineType, Modes
  <2> HIDE DEF lr
  <2>7. Kept(v)'
    BY <2>1 DEF Kept
  <2>6. same /\ cpu'.sp = cpu.sp /\ cpu'.r0 = Link("number", 0)
    BY <2>1, <2>2, <2>3, <2>4, <2>5, <2>7, <1>1, <1>4 DEF MachineType
  <2> QED BY <2>1, <2>6, <1>1, <1>2, <1>4, <1>7, <1>a
<1>8. CASE cpu.pc.at = 3 /\ Excs!Op = "pop_r1_lr"
  <2> DEFINE saved == Excs!Saved
             sp == [cpu.sp EXCEPT !["super"] = 1]
             lr == [cpu.lr EXCEPT !["super"] = Excs!After(v.pc)]
  <2>1. Excs!pop /\ UNCHANGED <<stack, table, run, taken>>
    BY <1>8, Decoded DEF Excs!pop
  <2>2. saved = <<cpu.r1, cpu.lr["super"]>>
    BY <1>1, <1>8 DEF Excs!Saved
  <2>3. Len(saved) = 2
    BY <2>2
  <2>4. LET k == Len(saved)
            Word_(i) == stack["super"][3 - k + i]
        IN cpu' = [Excs!Advanced EXCEPT !.sp["super"] = 3 - k, !.lr["super"] = Word_(k),
                                        !.r0 = IF k = 3 THEN Word_(1) ELSE @,
                                        !.r1 = IF k > 1 THEN Word_(k - 1) ELSE @]
    <3>1. cpu.sp["super"] = 3
      BY <1>2, <1>8
    <3> QED BY <3>1, <2>1, <1>1 DEF Excs!At, Excs!pop, Excs!Sp
  <2> HIDE DEF saved
  <2>5. cpu' = [Excs!Advanced EXCEPT !.sp["super"] = 1, !.lr["super"] = stack["super"][3], !.r0 = @,
                                     !.r1 = stack["super"][2]]
    BY <2>3, <2>4
  <2>6. v.r1 \in Word /\ stack["super"][2] = v.r1 /\ stack["super"][3] = Excs!After(v.pc)
    BY <1>2, <1>8 DEF MachineType, Modes
  <2>7. cpu' = [cpu EXCEPT !.pc = Excs!After(cpu.pc), !.sp = sp, !.lr = lr, !.r1 = v.r1]
    BY <2>5, <2>6 DEF Excs!Advanced, MachineType
  <2>8. sp \in [Modes -> Int] /\ sp["super"] = 1 /\ lr \in [Modes -> Word] /\ lr["super"] = Excs!After(v.pc)
    BY <1>5 DEF MachineType, Modes
  <2> HIDE DEF sp, lr
  <2>10. Kept(v)'
    BY <2>1 DEF Kept
  <2>9. same /\ cpu'.sp["super"] = 1 /\ cpu'.lr["super"] = Excs!After(v.pc) /\ cpu'.r0 = cpu.r0 /\ cpu'.r1 = v.r1
    BY <2>1, <2>6, <2>7, <2>8, <2>10, <1>1, <1>4 DEF MachineType
  <2> QED BY <2>9, <1>1, <1>2, <1>4, <1>8, <1>a
<1>9. CASE cpu.pc.at = 4 /\ Excs!Op = "movs_pc_lr"
  <2>1. Excs!Branch /\ UNCHANGED <<stack, table, run, taken>>
    BY <1>9, Decoded
  <2>2. cpu' = [cpu EXCEPT !.pc = Excs!After(v.pc), !.mode = "super", !.I = TRUE, !.flag = v.flag]
    <3>1. cpu' = [cpu EXCEPT !.pc = cpu.lr["super"], !.mode = cpu.spsr["super"][1], !.I = cpu.spsr["super"][2],
                             !.flag = cpu.spsr["super"][3]]
      BY <2>1, <1>9, <1>1 DEF Excs!Branch, Excs!At
    <3>2. cpu.lr["super"] = Excs!After(v.pc)
      BY <1>2, <1>9
    <3>3. cpu.spsr["super"][1] = "super" /\ cpu.spsr["super"][2] = TRUE /\ cpu.spsr["super"][3] = v.flag
      BY <1>1
    <3> QED BY <3>1, <3>2, <3>3
  <2>3. v.flag \in BOOLEAN
    BY DEF IsView
  <2>4. /\ MachineType' /\ cpu'.pc = Excs!After(v.pc) /\ cpu'.mode = "super" /\ cpu'.I = TRUE /\ cpu'.flag = v.flag
        /\ cpu'.r0 = cpu.r0 /\ cpu'.r1 = cpu.r1 /\ cpu'.sp = cpu.sp /\ cpu'.lr = cpu.lr
    BY <2>1, <2>2, <2>3, <1>5 DEF MachineType, Modes
  <2>5. Now' = [pc |-> Excs!After(v.pc), mode |-> "super", I |-> TRUE, flag |-> v.flag, r0 |-> Link("number", 0),
                r1 |-> v.r1, sp |-> v.sp, lr |-> Excs!After(v.pc), words |-> [i \in 1 .. v.sp |-> stack["super"][i]]]
    BY <2>1, <2>4, <1>1, <1>2, <1>9 DEF Now, Excs!View
  <2>6. Now' = Excs!Answered(v)
    <3>1. v.I = TRUE /\ v.mode = "super" /\ v.words = [i \in 1 .. v.sp |-> stack["super"][i]]
      BY <1>1 DEF IsView, Kept
    <3>2. Excs!Answered(v) = [v EXCEPT !.pc = Excs!After(v.pc), !.lr = Excs!After(v.pc), !.r0 = Link("number", 0)]
      <4>1. Excs!Result(v) = Link("number", 0)
        BY <1>1 DEF Excs!Result, Excs!Number, Link
      <4> QED BY <4>1 DEF Excs!Answered
    <3> QED BY <3>1, <3>2, <2>5 DEF IsView
  <2>7. Kept(v)'
    BY <2>1 DEF Kept
  <2>8. Now'.words[1] = v.words[1]
    BY <2>5, <1>1 DEF Kept
  <2>9. cpu'.pc.of = "syscall_invoke_asm" /\ cpu'.pc.at = 3
    BY <2>4, <1>5 DEF Link
  <2>10. InSyscall(Now)'
    <3>1. cpu'.sp["super"] = 1
      BY <2>4, <1>2, <1>9
    <3> QED BY <3>1, <2>1, <2>4, <2>8, <2>9, <1>1, <1>3, NowIs DEF InSyscall, InCall, In
  <2> QED BY <2>1, <2>4, <2>6, <2>7, <2>9, <2>10
<1> QED BY <1>1, <1>6, <1>7, <1>8, <1>9, HandlerListings DEF In

\* Every routine of a program, and so none of the handlers.
LEMMA ProgramRoutines ==
  ASSUME Program(Now)
  PROVE  cpu.mode = "super" /\ cpu.pc.of \notin {"interrupt_asm", "swi_trivial_vector", "swi_handler"}
<1>1. Now.mode = "super" /\ cpu.mode = Now.mode /\ cpu.pc = Now.pc
  BY NowIs DEF Program, IsView
<1>2. Interruptible(Now) => Now.pc.of \in {"timer", "system_enable_interrupts", "printk"}
  BY DEF Interruptible, InTimer, InEnable, InPrintk, In
<1>3. InVector(Now) \/ InAdd(Now) => Now.pc.of \in {"vector_base", "swi_add"}
  BY DEF InVector, InAdd, InMain, InCall, In
<1>4. InOs(Now) \/ InSyscall(Now) => Now.pc.of \in {"trivial_os", "syscall_invoke_asm"}
  BY DEF InOs, InSyscall, InMain, InCall, In
<1> QED BY <1>1, <1>2, <1>3, <1>4 DEF Program

\* An instruction of a program.
LEMMA ProgramStep ==
  ASSUME Excs!ExceptionsAssumption, MachineType, Program(Now), Instruction
  PROVE  MachineType' /\ (run' = "rebooted" \/ (run' = "running" /\ (Program(Now)' \/ Handler')))
<1>1. IsView(Now)
  BY DEF Program
<1>2. CASE Excs!swi
  BY <1>2, TakenSwi
<1>3. CASE ~Excs!swi /\ Interruptible(Now)
  BY <1>1, <1>3, TimerStep, EnableStep, PrintkStep DEF Interruptible
<1>4. CASE ~Excs!swi /\ (InVector(Now) \/ InAdd(Now))
  BY <1>1, <1>4, VectorStep
<1>5. CASE ~Excs!swi /\ (InOs(Now) \/ InSyscall(Now))
  BY <1>1, <1>5, OsStep
<1> QED BY <1>2, <1>3, <1>4, <1>5 DEF Program

\* What the return from an exception must bring back.
Returned ==
  /\ cpu.pc.of = "interrupt_asm" /\ cpu'.pc.of # "interrupt_asm" => taken = {Now'}
  /\ \A view \in taken :
       cpu.pc.of \in {"swi_trivial_vector", "swi_handler"} /\ cpu'.pc.of \in {"swi_add", "syscall_invoke_asm"}
         => Now' = Excs!Answered(view)

\* An instruction of a handler.
LEMMA ExceptionStep ==
  ASSUME Excs!ExceptionsAssumption, MachineType, run = "running", Handler, Instruction
  PROVE  MachineType' /\ run' = "running" /\ (Program(Now)' \/ Handler') /\ Returned
<1>1. PICK v \in taken : taken = {v} /\ IsView(v) /\ cpu.I /\ Kept(v) /\ (InIrq(v) \/ InTrivial(v) \/ InHandler(v))
  BY DEF Handler
<1>2. IsView(v)'
  BY <1>1 DEF IsView
<1>3. ASSUME taken' = taken, Kept(v)', cpu'.I, InIrq(v)' \/ InTrivial(v)' \/ InHandler(v)'
      PROVE  Handler'
  BY <1>1, <1>2, <1>3 DEF Handler
<1>4. CASE InIrq(v)
  <2>1. /\ MachineType' /\ UNCHANGED <<run, table, taken>> /\ Kept(v)'
        /\ (cpu'.I /\ InIrq(v)') \/ Now' = v
    BY <1>1, <1>4, IrqStep
  <2>2. cpu.pc.of = "interrupt_asm" /\ Interruptible(v)
    BY <1>4 DEF InIrq, In
  <2>3. CASE cpu'.I /\ InIrq(v)'
    <3>1. cpu'.pc.of = "interrupt_asm"
      BY <2>3 DEF InIrq, In
    <3>2. Returned
      BY <2>2, <3>1 DEF Returned
    <3> QED BY <2>1, <2>3, <3>2, <1>3
  <2>4. CASE Now' = v
    <3>1. Program(Now)'
      BY <2>1, <2>2, <2>4, <1>1 DEF Program, IsView, Interruptible, InTimer, InEnable, InPrintk, In
    <3>2. Returned
      BY <2>2, <2>4, <1>1 DEF Returned
    <3> QED BY <2>1, <3>1, <3>2
  <2> QED BY <2>1, <2>3, <2>4
<1>5. CASE InTrivial(v)
  <2>1. /\ MachineType' /\ UNCHANGED <<run, table, taken>> /\ Kept(v)'
        /\ \/ cpu'.I /\ InTrivial(v)'
           \/ cpu'.mode = "super" /\ cpu'.pc.of = "swi_add" /\ Now' = Excs!Answered(v) /\ InAdd(Now)'
    BY <1>1, <1>5, TrivialStep
  <2>2. cpu.pc.of = "swi_trivial_vector"
    BY <1>5 DEF InTrivial, In
  <2>3. CASE cpu'.I /\ InTrivial(v)'
    <3>1. cpu'.pc.of = "swi_trivial_vector"
      BY <2>3 DEF InTrivial, In
    <3>2. Returned
      BY <2>2, <3>1 DEF Returned
    <3> QED BY <2>1, <2>3, <3>2, <1>3
  <2>4. CASE cpu'.mode = "super" /\ Now' = Excs!Answered(v) /\ InAdd(Now)'
    <3>1. Program(Now)'
      BY <2>1, <2>4, NowView DEF Program
    <3>2. Returned
      BY <2>2, <2>4, <1>1 DEF Returned
    <3> QED BY <2>1, <3>1, <3>2
  <2> QED BY <2>1, <2>3, <2>4
<1>6. CASE InHandler(v)
  <2>1. /\ MachineType' /\ UNCHANGED <<run, table, taken>> /\ Kept(v)'
        /\ \/ cpu'.I /\ InHandler(v)'
           \/ cpu'.mode = "super" /\ cpu'.pc.of = "syscall_invoke_asm" /\ Now' = Excs!Answered(v) /\ InSyscall(Now)'
    BY <1>1, <1>6, HandlerStep
  <2>2. cpu.pc.of = "swi_handler"
    BY <1>6 DEF InHandler, In
  <2>3. CASE cpu'.I /\ InHandler(v)'
    <3>1. cpu'.pc.of = "swi_handler"
      BY <2>3 DEF InHandler, In
    <3>2. Returned
      BY <2>2, <3>1 DEF Returned
    <3> QED BY <2>1, <2>3, <3>2, <1>3
  <2>4. CASE cpu'.mode = "super" /\ Now' = Excs!Answered(v) /\ InSyscall(Now)'
    <3>1. Program(Now)'
      BY <2>1, <2>4, NowView DEF Program
    <3>2. Returned
      BY <2>2, <2>4, <1>1 DEF Returned
    <3> QED BY <2>1, <3>1, <3>2
  <2> QED BY <2>1, <2>3, <2>4
<1> QED BY <1>1, <1>4, <1>5, <1>6

\* The machine starts in the invariant, whatever ran before.
LEMMA ExcInit ==
  ASSUME Excs!Init
  PROVE  ExcInv
<1>1. PICK program \in {"timer", "vector_base", "trivial_os"}, mode \in {"super", "irq"}, I \in BOOLEAN :
        cpu = [mode |-> mode, I |-> I, flag |-> FALSE, pc |-> Excs!Address(program), r0 |-> Excs!Number(0),
               r1 |-> Excs!Number(0), sp |-> [super |-> 0, irq |-> 0], spsr |-> [super |-> <<>>, irq |-> <<>>],
               lr |-> [super |-> Excs!Address(program), irq |-> Excs!Address(program)]]
  BY DEF Excs!Init
<1>2. Excs!Address(program) = Link(program, 1) /\ Link(program, 1) \in Word /\ Excs!Number(0) \in Word
  BY <1>1 DEF Excs!Address, Excs!Number, Link, Word, Names
<1>3. /\ [super |-> 0, irq |-> 0] \in [Modes -> Int]
      /\ [super |-> <<>>, irq |-> <<>>] \in [Modes -> {<<>>} \cup (Modes \X BOOLEAN \X BOOLEAN)]
      /\ [super |-> Excs!Address(program), irq |-> Excs!Address(program)] \in [Modes -> Word]
  BY <1>2 DEF Modes
<1>4. stack \in [Modes -> [1 .. 3 -> Word]] /\ table = "none" /\ taken = {} /\ run = "boot"
  BY <1>2 DEF Excs!Init, Modes
<1>5. MachineType
  BY <1>1, <1>2, <1>3, <1>4 DEF MachineType, Modes
<1>6. cpu.pc = Link(program, 1)
  BY <1>1, <1>2
<1> QED BY <1>1, <1>4, <1>5, <1>6 DEF ExcInv

\* staff_start leaves each program at its first instruction.
LEMMA StartStep ==
  ASSUME ExcInv, Excs!staff_start
  PROVE  ExcInv' /\ Returned
<1>1. PICK program \in {"timer", "vector_base", "trivial_os"} : cpu.pc = Link(program, 1)
  BY DEF Excs!staff_start, ExcInv
<1>2. MachineType /\ run = "boot" /\ table = "none" /\ taken = {}
  BY DEF Excs!staff_start, ExcInv
<1> DEFINE sp == [cpu.sp EXCEPT !["super"] = 0]
<1>3. /\ cpu' = [cpu EXCEPT !.mode = "super", !.I = TRUE, !.sp = sp] /\ run' = "running"
      /\ UNCHANGED <<stack, table, taken>>
  BY <1>2 DEF Excs!staff_start, MachineType
<1>4. sp \in [Modes -> Int] /\ sp["super"] = 0
  BY <1>2 DEF MachineType, Modes
<1> HIDE DEF sp
<1>5. MachineType' /\ cpu'.mode = "super" /\ cpu'.I /\ cpu'.sp["super"] = 0 /\ cpu'.pc = Link(program, 1)
  BY <1>1, <1>2, <1>3, <1>4 DEF MachineType, Modes
<1>6. InTimer(Now)' \/ InVector(Now)' \/ InOs(Now)'
  BY <1>1, <1>5, NowIs DEF InTimer, InVector, InOs, InMain, In, Link
<1>7. Program(Now)'
  BY <1>5, <1>6, NowView DEF Program, Interruptible
<1>8. Returned
  BY <1>1, <1>2 DEF Returned, Link
<1> QED BY <1>3, <1>5, <1>7, <1>8 DEF ExcInv

\* Every step keeps the invariant, and returns bring back what they must.
LEMMA ExcStep ==
  ASSUME Excs!ExceptionsAssumption, ExcInv, [Excs!Next]_Excs!exvars
  PROVE  ExcInv' /\ Returned
<1>1. MachineType /\ (run = "running" => Program(Now) \/ Handler)
  BY DEF ExcInv
<1>2. CASE UNCHANGED <<cpu, stack, table, taken, run>>
  <2>1. MachineType' /\ UNCHANGED Now
    BY <1>1, <1>2 DEF MachineType, Now
  <2>2. Program(Now) => Program(Now)'
    BY <1>2, <2>1 DEF Program, IsView, Interruptible, InTimer, InEnable, InPrintk, InVector, InAdd, InOs, InSyscall,
                      InMain, InCall, In
  <2>3. Handler => Handler'
    <3>1. ASSUME NEW v PROVE (IsView(v) => IsView(v)') /\ (Kept(v) => Kept(v)') /\ (InIrq(v) => InIrq(v)')
      BY <1>2 DEF IsView, Kept, InIrq, Interruptible, InTimer, InEnable, InPrintk, In
    <3>2. ASSUME NEW v PROVE (InTrivial(v) => InTrivial(v)') /\ (InHandler(v) => InHandler(v)')
      BY <1>2 DEF InTrivial, InHandler, Called, InAdd, InSyscall, InCall, In
    <3> QED BY <1>2, <3>1, <3>2 DEF Handler
  <2>4. ExcInv'
    BY <1>2, <2>1, <2>2, <2>3 DEF ExcInv
  <2>5. Returned
    BY <1>2 DEF Returned
  <2> QED BY <2>4, <2>5
<1>3. CASE Excs!staff_start
  BY <1>3, StartStep
<1>4. CASE Excs!TakeIrq
  <2>1. run = "running" /\ ~cpu.I
    BY <1>4 DEF Excs!TakeIrq, Excs!IrqDue
  <2>2. Program(Now)
    BY <1>1, <2>1 DEF Handler
  <2>3. MachineType' /\ run' = "running" /\ Handler'
    BY <1>1, <1>4, <2>2, TakenIrq
  <2>4. Returned
    BY <2>2, ProgramRoutines DEF Returned
  <2> QED BY <2>3, <2>4 DEF ExcInv
<1>5. CASE Instruction
  <2>1. run = "running"
    BY <1>5, Decoded
  <2>2. CASE Program(Now)
    <3>1. MachineType' /\ (run' = "rebooted" \/ (run' = "running" /\ (Program(Now)' \/ Handler')))
      BY <1>1, <1>5, <2>2, ProgramStep
    <3>2. Returned
      BY <2>2, ProgramRoutines DEF Returned
    <3> QED BY <3>1, <3>2 DEF ExcInv
  <2>3. CASE Handler
    BY <1>1, <1>5, <2>1, <2>3, ExceptionStep DEF ExcInv
  <2> QED BY <1>1, <2>1, <2>2, <2>3
<1>6. CASE Excs!TimerPeriod
  BY <1>2, <1>6 DEF Excs!TimerPeriod
<1> QED BY <1>2, <1>3, <1>4, <1>5, <1>6 DEF Excs!Next, Excs!exvars, Instruction

(* Whatever a C function may leave in a register, and however the timer's  *)
(* periods fall, an interrupt is invisible to the code it interrupts, a    *)
(* system call changes its result alone, and none comes before its table.  *)
THEOREM ExceptionsAreInvisible ==
  ASSUME Excs!ExceptionsAssumption
  PROVE  Excs!Spec => ExceptionsInvisible
<1>1. Excs!Init => ExcInv
  BY ExcInit
<1>2. ExcInv /\ [Excs!Next]_Excs!exvars => ExcInv'
  BY ExcStep
<1>3. ExcInv /\ [Excs!Next]_Excs!exvars => Returned
  BY ExcStep
<1>4. Returned =>
        /\ [cpu.pc.of = "interrupt_asm" /\ cpu'.pc.of # "interrupt_asm" => taken = {Excs!View(cpu', stack')}]_Excs!exvars
        /\ [\A view \in taken :
              cpu.pc.of \in {"swi_trivial_vector", "swi_handler"} /\ cpu'.pc.of \in {"swi_add", "syscall_invoke_asm"}
                => Excs!View(cpu', stack') = Excs!Answered(view)]_Excs!exvars
  BY DEF Returned, Now
<1>5. ExcInv => run \notin {"astray", "panicked"}
  BY DEF ExcInv
<1> QED BY <1>1, <1>2, <1>3, <1>4, <1>5, PTL DEF Excs!Spec, Excs!ExceptionsInvisible, ExceptionsInvisible
-----------------------------------------------------------------------------
(* What nrf_init returns is set up.  The invariant has, for each place in  *)
(* nrf_init, the registers written so far: until the last step the chip    *)
(* does not listen, so that nothing it did since can have been undone.     *)
AByte == SUBSET (0 .. 7)
AChip == [regs : [Regs!ByteRegs -> AByte], rxaddr : Seq(Int), intr : AByte, rx : Seq({"old", "new"}), tx : Nat, ce : {0, 1}]
SoundChip == {chip \in AChip : Len(chip.rxaddr) = 5 /\ chip.regs["DYNPD"] = {} /\ chip.regs["FEATURE"] = {}}
AnAddr == {addr \in Seq(Int) : Len(addr) = 3}
AConf ==
  [Mhz_delta : 0 .. 255, dr : {0, 8, 32}, db : 0 .. 6, addr_nbytes : 3 .. 5, retran_attempts : 0 .. 15,
   retran_delay : 0 .. 15, ce_pin : Nat, int_pin : Nat, spi_pin : Nat]
APipe == [rxaddr : Seq(Int), msg_nbytes : Nat, is_retran_p : BOOLEAN]
ANic == [up : BOOLEAN, c : AConf, pipe : APipe]

\* A setting was asked for that is refused, or none is set.
Excuse == \E s \in prog.asked : Regs!Refused(s)
Unrefused(c) == c.addr_nbytes = 3 /\ c.Mhz_delta < 128 /\ c.dr # 32 /\ c.db <= 3
Configured(k) ==
  /\ nic[k].pipe = Regs!nrf_pipe_mk(Regs!Addr(k), 32, prog.ack_p)
  /\ Unrefused(nic[k].c) \/ Excuse

\* Places in nrf_init, counted with its four steps for acknowledgements.
PlaceOf(at, ack_p) == IF ack_p \/ at <= 5 THEN at ELSE at + 4
Retr(c) == Regs!Bits(c.retran_attempts) \cup {4 + i : i \in Regs!Bits(c.retran_delay)}

\* What the steps before place p have done.
Written1(chip, c, ack_p, p) ==
  /\ p > 1 => chip.ce = 0
  /\ p > 4 => chip.regs["EN_AA"] = IF ack_p THEN {0, 1} ELSE {}
  /\ p > 5 => chip.regs["EN_RXADDR"] = IF ack_p THEN {0, 1} ELSE {1}
  /\ p > 7 /\ ack_p => chip.regs["SETUP_RETR"] = Retr(c)
  /\ p > 10 => c.addr_nbytes = 3
  /\ p > 11 => chip.regs["SETUP_AW"] = {0}
  /\ p > 12 => chip.regs["RX_PW_P1"] = {5}
Written2(chip, c, addr, p) ==
  /\ p > 13 => SubSeq(chip.rxaddr, 1, 3) = addr
  /\ p > 14 => chip.regs["RF_CH"] = Regs!Bits(c.Mhz_delta)
  /\ p > 16 => chip.regs["RF_SETUP"] = Regs!Bits(c.dr) \cup Regs!Bits(c.db)
  /\ p > 17 => chip.tx = 0
  /\ p > 18 => chip.rx = <<>>
  /\ p > 19 => chip.intr = {}

\* What nrf_init leaves, and a packet that arrives does not change.
IsReady(chip, c, ack_p, addr) ==
  /\ chip.ce = 1 /\ chip.regs["CONFIG"] = Regs!rx_config(c)
  /\ chip.regs["EN_AA"] = IF ack_p THEN {0, 1} ELSE {}
  /\ chip.regs["EN_RXADDR"] = IF ack_p THEN {0, 1} ELSE {1}
  /\ ack_p => chip.regs["SETUP_RETR"] = Retr(c)
  /\ chip.regs["SETUP_AW"] = {0} /\ chip.regs["RX_PW_P1"] = {5}
  /\ SubSeq(chip.rxaddr, 1, 3) = addr
  /\ chip.regs["RF_CH"] = Regs!Bits(c.Mhz_delta)
  /\ chip.regs["RF_SETUP"] = Regs!Bits(c.dr) \cup Regs!Bits(c.db)
  /\ chip.tx = 0 /\ chip.intr \subseteq {6}
  /\ \A i \in 1 .. Len(chip.rx) : chip.rx[i] = "new"

RegsTypes ==
  /\ radio \in [Regs!Chips -> SoundChip] /\ nic \in [Regs!Chips -> ANic]
  /\ prog \in [st : {"off", "start", "init", "dump", "idle", "stopped", "panic"}, runs : Nat, chip : Regs!Chips,
               pc : Nat, ack_p : BOOLEAN, asked : SUBSET (Changes \cup Redos)]

\* How far the program is.
RegsProgress ==
  /\ prog.st = "panic" => Excuse
  /\ prog.st \in {"start", "init", "dump"} => prog.asked \subseteq Changes
  /\ prog.st \in {"start", "init", "dump"} /\ prog.chip = 1 => nic[0].up
  /\ prog.st = "dump" => nic[prog.chip].up
  /\ prog.st = "idle" => nic[0].up /\ nic[1].up
  /\ prog.st = "init" =>
       LET k == prog.chip
           p == PlaceOf(prog.pc, prog.ack_p)
       IN /\ Configured(k) /\ ~nic[k].up
          /\ prog.pc \in 1 .. (IF prog.ack_p THEN 29 ELSE 25)
          /\ Written1(radio[k], nic[k].c, prog.ack_p, p) /\ Written2(radio[k], nic[k].c, Regs!Addr(k), p)

UpAreReady ==
  \A k \in Regs!Chips : nic[k].up =>
    /\ Configured(k)
    /\ nic[k].c.addr_nbytes = 3
    /\ prog.st # "stopped" => IsReady(radio[k], nic[k].c, prog.ack_p, Regs!Addr(k))

RegsInv == RegsTypes /\ RegsProgress /\ UpAreReady

(* The bits of the values that the registers are given.                    *)
LEMMA BitIs ==
  ASSUME NEW m \in Int, NEW i \in 0 .. 7
  PROVE  /\ i = 0 => (i \in Regs!Bits(m) <=> m % 2 = 1)
         /\ i = 1 => (i \in Regs!Bits(m) <=> (m \div 2) % 2 = 1)
         /\ i = 2 => (i \in Regs!Bits(m) <=> (m \div 4) % 2 = 1)
         /\ i = 3 => (i \in Regs!Bits(m) <=> (m \div 8) % 2 = 1)
         /\ i = 4 => (i \in Regs!Bits(m) <=> (m \div 16) % 2 = 1)
         /\ i = 5 => (i \in Regs!Bits(m) <=> (m \div 32) % 2 = 1)
         /\ i = 6 => (i \in Regs!Bits(m) <=> (m \div 64) % 2 = 1)
         /\ i = 7 => (i \in Regs!Bits(m) <=> (m \div 128) % 2 = 1)
<1>1. i \in Regs!Bits(m) <=> (m \div Regs!Power[i + 1]) % 2 = 1
  BY DEF Regs!Bits
<1>2. /\ Regs!Power[1] = 1 /\ Regs!Power[2] = 2 /\ Regs!Power[3] = 4 /\ Regs!Power[4] = 8
      /\ Regs!Power[5] = 16 /\ Regs!Power[6] = 32 /\ Regs!Power[7] = 64 /\ Regs!Power[8] = 128
  BY DEF Regs!Power
<1> QED BY <1>1, <1>2

LEMMA BitsAreAByte == ASSUME NEW m \in Int PROVE Regs!Bits(m) \in SUBSET (0 .. 7)
BY DEF Regs!Bits

LEMMA BitsOf1 == Regs!Bits(1) = {0}
<1>1. \A i \in 0 .. 7 : i \in Regs!Bits(1) <=> i = 0
  BY BitIs
<1> QED BY <1>1, BitsAreAByte

LEMMA BitsOf32 == Regs!Bits(32) = {5}
<1>1. \A i \in 0 .. 7 : i \in Regs!Bits(32) <=> i = 5
  BY BitIs
<1> QED BY <1>1, BitsAreAByte

LEMMA BitsBelow128 ==
  ASSUME NEW m \in 0 .. 255
  PROVE  Regs!Bits(m) \subseteq 0 .. 6 <=> m < 128
<1>1. 7 \in Regs!Bits(m) <=> m >= 128
  BY BitIs
<1> QED BY <1>1, BitsAreAByte

LEMMA BitsOfPower ==
  ASSUME NEW m \in 0 .. 6
  PROVE  Regs!Bits(m) \subseteq 0 .. 2
<1>1. \A i \in 3 .. 7 : i \notin Regs!Bits(m)
  BY BitIs
<1> QED BY <1>1, BitsAreAByte

LEMMA BitsOfRate ==
  ASSUME NEW m \in {0, 8, 32}
  PROVE  Regs!Bits(m) \subseteq {3, 5} /\ (5 \in Regs!Bits(m) => m = 32)
<1>1. \A i \in 0 .. 7 : i \in Regs!Bits(m) => i \in {3, 5} /\ (i = 5 => m = 32)
  <2>1. CASE m = 0 BY <2>1, BitIs
  <2>2. CASE m = 8 BY <2>2, BitIs
  <2>3. CASE m = 32 BY <2>3, BitIs
  <2> QED BY <2>1, <2>2, <2>3
<1> QED BY <1>1, BitsAreAByte

\* The two fields of SETUP_RETR.
LEMMA BitsOfTwoFields ==
  ASSUME NEW a \in 0 .. 15, NEW d \in 0 .. 15
  PROVE  Regs!Bits(a + 16 * d) = Regs!Bits(a) \cup {4 + i : i \in Regs!Bits(d)}
<1> DEFINE s == a + 16 * d
<1>1. s \in Int /\ a \in Int /\ d \in Int
  OBVIOUS
<1>2. \A i \in 0 .. 3 : i \in Regs!Bits(s) <=> i \in Regs!Bits(a)
  BY <1>1, BitIs
<1>3. \A i \in 0 .. 3 : 4 + i \in Regs!Bits(s) <=> i \in Regs!Bits(d)
  <2> TAKE i \in 0 .. 3
  <2>1. CASE i = 0 BY <2>1, <1>1, BitIs
  <2>2. CASE i = 1 BY <2>2, <1>1, BitIs
  <2>3. CASE i = 2 BY <2>3, <1>1, BitIs
  <2>4. CASE i = 3 BY <2>4, <1>1, BitIs
  <2> QED BY <2>1, <2>2, <2>3, <2>4
<1>4. \A i \in 4 .. 7 : i \notin Regs!Bits(a) /\ i \notin Regs!Bits(d)
  BY <1>1, BitIs
<1>5. \A i \in Int : i \in Regs!Bits(s) \/ i \in Regs!Bits(a) \/ i \in Regs!Bits(d) => i \in 0 .. 7
  BY <1>1, BitsAreAByte
<1>6. \A x \in Regs!Bits(s) \cup Regs!Bits(a) \cup Regs!Bits(d) : x \in Int
  BY <1>1, BitsAreAByte
<1> HIDE DEF s
<1>7. \A i \in Int : i \in Regs!Bits(s) <=> i \in Regs!Bits(a) \cup {4 + j : j \in Regs!Bits(d)}
  <2> TAKE i \in Int
  <2>1. CASE i \in 0 .. 3
    BY <2>1, <1>2, <1>5, <1>6
  <2>2. CASE i \in 4 .. 7
    <3>1. i - 4 \in 0 .. 3 /\ 4 + (i - 4) = i
      BY <2>2
    <3>2. i \in Regs!Bits(s) <=> i - 4 \in Regs!Bits(d)
      BY <3>1, <1>3
    <3> QED BY <3>1, <3>2, <1>4, <1>6, <2>2
  <2>3. CASE i \notin 0 .. 7
    BY <2>3, <1>4, <1>5, <1>6
  <2> QED BY <2>1, <2>2, <2>3
<1>8. \A x \in Regs!Bits(a) \cup {4 + j : j \in Regs!Bits(d)} : x \in Int
  BY <1>6
<1> QED BY <1>6, <1>7, <1>8 DEF s

(* What a step of nrf_init does to the chip.                               *)
LEMMA ChipParts ==
  ASSUME NEW chip \in AChip
  PROVE  /\ chip.regs \in [Regs!ByteRegs -> AByte] /\ chip.rxaddr \in Seq(Int) /\ chip.intr \in AByte
         /\ chip.rx \in Seq({"old", "new"}) /\ chip.tx \in Nat /\ chip.ce \in {0, 1}
         /\ \A r \in Regs!ByteRegs : chip.regs[r] \in AByte
BY DEF AChip

LEMMA WritableBits ==
  /\ \A r \in Regs!ByteRegs : Regs!Writable[r] \subseteq 0 .. 7
  /\ \A r \in {"EN_AA", "EN_RXADDR", "RX_PW_P1", "DYNPD"} : Regs!Writable[r] = 0 .. 5
  /\ Regs!Writable["SETUP_AW"] = {0, 1} /\ Regs!Writable["FEATURE"] = 0 .. 2
  /\ Regs!Writable["CONFIG"] = 0 .. 6 /\ Regs!Writable["RF_CH"] = 0 .. 6
  /\ Regs!Writable["SETUP_RETR"] = 0 .. 7 /\ Regs!Writable["RF_SETUP"] = 0 .. 7
BY DEF Regs!Writable, Regs!ByteRegs

\* One register of the chip is changed, and nothing else.
OnlyReg(chip2, chip, reg) ==
  /\ \A r \in Regs!ByteRegs : r # reg => chip2.regs[r] = chip.regs[r]
  /\ chip2.rxaddr = chip.rxaddr /\ chip2.intr = chip.intr /\ chip2.rx = chip.rx
  /\ chip2.tx = chip.tx /\ chip2.ce = chip.ce

LEMMA PutFx ==
  ASSUME NEW chip \in SoundChip, NEW reg \in Regs!ByteRegs, NEW v \in AByte,
         v = {} \/ (reg # "DYNPD" /\ reg # "FEATURE"),
         NEW chip2, chip2 = Regs!nrf_put8(chip, reg, v)
  PROVE  /\ chip2 \in SoundChip /\ chip2.regs[reg] = v \cap Regs!Writable[reg]
         /\ OnlyReg(chip2, chip, reg)
<1> DEFINE w == v \cap Regs!Writable[reg]
<1>1. reg # "STATUS" /\ reg # "FIFO_STATUS"
  BY DEF Regs!ByteRegs
<1>2. chip2 = [chip EXCEPT !.regs[reg] = w]
  BY <1>1 DEF Regs!nrf_put8
<1>3. w \in AByte /\ (w = {} \/ (reg # "DYNPD" /\ reg # "FEATURE"))
  BY DEF AByte
<1> DEFINE regs2 == [chip.regs EXCEPT ![reg] = w]
<1> HIDE DEF w
<1>4. chip2 \in AChip /\ chip2.regs[reg] = w /\ OnlyReg(chip2, chip, reg)
  <2>1. chip2 = [chip EXCEPT !.regs = regs2]
    BY <1>2
  <2>2. chip \in AChip /\ chip.regs \in [Regs!ByteRegs -> AByte]
    BY ChipParts DEF SoundChip
  <2>3. regs2 \in [Regs!ByteRegs -> AByte] /\ regs2[reg] = w
        /\ \A r \in Regs!ByteRegs : r # reg => regs2[r] = chip.regs[r]
    BY <1>3, <2>2
  <2> HIDE DEF regs2
  <2>4. chip2 \in AChip /\ chip2.regs = regs2
    BY <2>1, <2>2, <2>3 DEF AChip
  <2>5. chip2.rxaddr = chip.rxaddr /\ chip2.intr = chip.intr /\ chip2.rx = chip.rx
        /\ chip2.tx = chip.tx /\ chip2.ce = chip.ce
    BY <2>1, <2>2 DEF AChip
  <2> QED BY <2>3, <2>4, <2>5 DEF OnlyReg
<1>5. "DYNPD" \in Regs!ByteRegs /\ "FEATURE" \in Regs!ByteRegs
  BY DEF Regs!ByteRegs
<1>6. chip2.regs["DYNPD"] = {} /\ chip2.regs["FEATURE"] = {} /\ Len(chip2.rxaddr) = 5
  BY <1>3, <1>4, <1>5 DEF OnlyReg, SoundChip
<1> QED BY <1>4, <1>6 DEF SoundChip, w

LEMMA ChkFx ==
  ASSUME NEW chip \in SoundChip, NEW c, NEW reg \in Regs!ByteRegs, NEW v \in AByte,
         v = {} \/ (reg # "DYNPD" /\ reg # "FEATURE"),
         NEW s, s.op = "put8_chk", s.reg = reg, s.v = v, NEW chip2, chip2 = Regs!After(chip, s, c)
  PROVE  /\ chip2 \in SoundChip /\ chip2.regs[reg] = v \cap Regs!Writable[reg]
         /\ OnlyReg(chip2, chip, reg)
         /\ (Regs!Passes(chip2, s) <=> (v \subseteq Regs!Writable[reg]))
<1>1. s.op = "put8_chk" /\ s.reg = reg /\ s.v = v
  OBVIOUS
<1>2. chip2 = Regs!nrf_put8(chip, reg, v)
  BY <1>1 DEF Regs!After
<1>3. Regs!Passes(chip2, s) <=> Regs!nrf_get8(chip2, reg) = v
  BY <1>1 DEF Regs!Passes
<1>4. Regs!nrf_get8(chip2, reg) = chip2.regs[reg]
  <2>1. reg # "STATUS" /\ reg # "FIFO_STATUS"
    BY DEF Regs!ByteRegs
  <2> QED BY <2>1 DEF Regs!nrf_get8
<1>5. /\ chip2 \in SoundChip /\ chip2.regs[reg] = v \cap Regs!Writable[reg]
      /\ OnlyReg(chip2, chip, reg)
  BY <1>2, PutFx
<1>6. Regs!Passes(chip2, s) <=> v \cap Regs!Writable[reg] = v
  BY <1>3, <1>4, <1>5
<1> QED BY <1>5, <1>6

LEMMA IsFx ==
  ASSUME NEW chip, NEW c, NEW reg, NEW v, NEW s, s.op = "is", s.reg = reg, s.v = v, NEW chip2, chip2 = Regs!After(chip, s, c)
  PROVE  /\ chip2 = chip
         /\ (Regs!Passes(chip2, s) <=> (Regs!nrf_get8(chip, reg) = v))
<1>1. s.op = "is" /\ s.reg = reg /\ s.v = v
  OBVIOUS
<1>2. chip2 = chip
  BY <1>1 DEF Regs!After
<1>3. Regs!Passes(chip2, s) <=> Regs!nrf_get8(chip2, reg) = v
  BY <1>1 DEF Regs!Passes
<1> QED BY <1>2, <1>3

LEMMA HoldsFx ==
  ASSUME NEW chip, NEW c, NEW v \in BOOLEAN, NEW s, s = Regs!Holds(v), NEW chip2, chip2 = Regs!After(chip, s, c)
  PROVE  chip2 = chip /\ (Regs!Passes(chip2, s) <=> v)
<1>1. s.op = "assert" /\ s.v = v
  BY DEF Regs!Holds, Regs!Step
<1>2. chip2 = chip
  BY <1>1 DEF Regs!After
<1>3. Regs!Passes(chip2, s) <=> s.v
  BY <1>1 DEF Regs!Passes
<1> QED BY <1>1, <1>2, <1>3

\* The other accesses leave the registers as they are.
SameRegs(chip2, chip) == \A r \in Regs!ByteRegs : chip2.regs[r] = chip.regs[r]

LEMMA DoFx ==
  ASSUME NEW chip \in SoundChip, NEW c, NEW op \in {"nrf_gpio_init", "nrf_tx_flush", "nrf_rx_flush"},
         NEW s, s = Regs!Do(op), NEW chip2, chip2 = Regs!After(chip, s, c)
  PROVE  /\ chip2 \in SoundChip /\ SameRegs(chip2, chip) /\ chip2.rxaddr = chip.rxaddr /\ chip2.intr = chip.intr
         /\ chip2.ce = IF op = "nrf_gpio_init" THEN 0 ELSE chip.ce
         /\ chip2.tx = IF op = "nrf_tx_flush" THEN 0 ELSE chip.tx
         /\ chip2.rx = IF op = "nrf_rx_flush" THEN <<>> ELSE chip.rx
         /\ Regs!Passes(chip2, s)
<1>1. s.op = op
  BY DEF Regs!Do, Regs!Step
<1>2. Regs!Passes(chip2, s)
  BY <1>1 DEF Regs!Passes
<1>3. CASE op = "nrf_gpio_init"
  <2>1. chip2 = [chip EXCEPT !.ce = 0]
    BY <1>1, <1>3 DEF Regs!After, Regs!nrf_gpio_init
  <2> QED BY <1>2, <1>3, <2>1 DEF SoundChip, AChip, SameRegs
<1>4. CASE op = "nrf_tx_flush"
  <2>1. chip2 = [chip EXCEPT !.tx = 0]
    BY <1>1, <1>4 DEF Regs!After, Regs!nrf_tx_flush
  <2>2. chip2 \in SoundChip /\ SameRegs(chip2, chip) /\ chip2.rxaddr = chip.rxaddr /\ chip2.intr = chip.intr
        /\ chip2.ce = chip.ce /\ chip2.tx = 0 /\ chip2.rx = chip.rx
    BY <2>1 DEF SoundChip, AChip, SameRegs
  <2> QED BY <1>2, <1>4, <2>2
<1>5. CASE op = "nrf_rx_flush"
  <2>1. chip2 = [chip EXCEPT !.rx = <<>>]
    BY <1>1, <1>5 DEF Regs!After, Regs!nrf_rx_flush
  <2>2. <<>> \in Seq({"old", "new"})
    OBVIOUS
  <2>3. chip2 \in SoundChip /\ SameRegs(chip2, chip) /\ chip2.rxaddr = chip.rxaddr /\ chip2.intr = chip.intr
        /\ chip2.ce = chip.ce /\ chip2.tx = chip.tx /\ chip2.rx = <<>>
    BY <2>1, <2>2 DEF SoundChip, AChip, SameRegs
  <2> QED BY <1>2, <1>5, <2>3
<1> QED BY <1>3, <1>4, <1>5

LEMMA StatusFx ==
  ASSUME NEW chip \in SoundChip, NEW c,
         NEW s, s = Regs!Step("put8", "STATUS", 0 .. 7), NEW chip2, chip2 = Regs!After(chip, s, c)
  PROVE  /\ chip2 \in SoundChip /\ SameRegs(chip2, chip) /\ chip2.rxaddr = chip.rxaddr /\ chip2.intr = {}
         /\ chip2.ce = chip.ce /\ chip2.tx = chip.tx /\ chip2.rx = chip.rx /\ Regs!Passes(chip2, s)
<1>1. s.op = "put8" /\ s.reg = "STATUS" /\ s.v = 0 .. 7
  BY DEF Regs!Step
<1>2. chip2 = [chip EXCEPT !.intr = @ \ (0 .. 7)]
  BY <1>1 DEF Regs!After, Regs!nrf_put8
<1>3. Regs!Passes(chip2, s)
  BY <1>1 DEF Regs!Passes
<1>4. chip.intr \ (0 .. 7) = {}
  BY DEF SoundChip, AChip, AByte
<1>5. chip2 = [chip EXCEPT !.intr = {}]
  BY <1>2, <1>4
<1>6. {} \in AByte
  BY DEF AByte
<1> QED BY <1>3, <1>5, <1>6 DEF SoundChip, AChip, SameRegs

LEMMA Spliced ==
  ASSUME NEW S, NEW a \in Seq(S), Len(a) = 3, NEW b \in Seq(S), Len(b) = 5
  PROVE  /\ a \o SubSeq(b, 4, 5) \in Seq(S) /\ Len(a \o SubSeq(b, 4, 5)) = 5
         /\ SubSeq(a \o SubSeq(b, 4, 5), 1, 3) = a
<1> DEFINE tail == SubSeq(b, 4, 5)
           both == a \o tail
           head == SubSeq(both, 1, 3)
<1>1. tail \in Seq(S) /\ Len(tail) = 2
  <2>1. \A i \in 1 .. Len(b) : b[i] \in S
    BY ElementOfSeq
  <2>2. \A i \in 4 .. 5 : i \in 1 .. Len(b)
    OBVIOUS
  <2>3. \A i \in 4 .. 5 : b[i] \in S
    BY <2>1, <2>2
  <2> QED BY <2>3, SubSeqProperties
<1> HIDE DEF tail
<1>2. both \in Seq(S) /\ Len(both) = Len(a) + Len(tail) /\ \A i \in 1 .. Len(a) : both[i] = a[i]
  <2>1. tail \in Seq(S)
    BY <1>1
  <2>2. /\ both \in Seq(S) /\ Len(both) = Len(a) + Len(tail)
        /\ \A i \in 1 .. Len(a) + Len(tail) : both[i] = IF i <= Len(a) THEN a[i] ELSE tail[i - Len(a)]
    BY <2>1, ConcatProperties
  <2>3. \A i \in 1 .. Len(a) : i \in 1 .. Len(a) + Len(tail) /\ i <= Len(a)
    BY <1>1
  <2> QED BY <2>2, <2>3
<1> HIDE DEF both
<1>3. head \in Seq(S) /\ Len(head) = 3 /\ \A i \in 1 .. 3 : head[i] = both[i]
  <2>1. \A i \in 1 .. 3 : both[i] \in S
    BY <1>1, <1>2, ElementOfSeq
  <2> QED BY <2>1, SubSeqProperties
<1> HIDE DEF head
<1>4. head = a
  BY <1>2, <1>3, SeqEqual
<1> QED BY <1>1, <1>2, <1>4 DEF tail, both, head

LEMMA AddrFx ==
  ASSUME NEW chip \in SoundChip, NEW c, NEW addr \in AnAddr,
         NEW s, s = Regs!Step("nrf_set_addr", "none", addr), NEW chip2, chip2 = Regs!After(chip, s, c)
  PROVE  /\ chip2 \in SoundChip /\ SameRegs(chip2, chip) /\ SubSeq(chip2.rxaddr, 1, 3) = addr /\ chip2.intr = chip.intr
         /\ chip2.ce = chip.ce /\ chip2.tx = chip.tx /\ chip2.rx = chip.rx /\ Regs!Passes(chip2, s)
<1> DEFINE old == chip.rxaddr
           new == addr \o SubSeq(old, 4, 5)
<1>1. s.op = "nrf_set_addr" /\ s.v = addr
  BY DEF Regs!Step
<1>4. old \in Seq(Int) /\ Len(old) = 5 /\ addr \in Seq(Int) /\ Len(addr) = 3
  BY DEF SoundChip, AChip, AnAddr
<1>2. chip2 = [chip EXCEPT !.rxaddr = addr \o SubSeq(@, Len(addr) + 1, 5)]
  BY <1>1 DEF Regs!After, Regs!nrf_set_addr
<1>3. chip2 = [chip EXCEPT !.rxaddr = new]
  BY <1>2, <1>4
<1> HIDE DEF old
<1>5. new \in Seq(Int) /\ Len(new) = 5 /\ SubSeq(new, 1, 3) = addr
  BY <1>4, Spliced
<1> HIDE DEF new
<1>6. SubSeq(new, 1, 3) = addr
  BY <1>5
<1>7. chip2 \in SoundChip /\ SameRegs(chip2, chip) /\ chip2.rxaddr = new /\ chip2.intr = chip.intr
      /\ chip2.ce = chip.ce /\ chip2.tx = chip.tx /\ chip2.rx = chip.rx
  BY <1>3, <1>5 DEF SoundChip, AChip, SameRegs
<1>8. Regs!Passes(chip2, s)
  BY <1>1, <1>6, <1>7 DEF Regs!Passes, Regs!nrf_get_addr
<1> QED BY <1>6, <1>7, <1>8

\* CONFIG is written before, and so the or ends as any write of it.
LEMMA OrFx ==
  ASSUME NEW chip \in SoundChip, NEW c,
         NEW s, s = Regs!Step("nrf_or8", "CONFIG", {1}), NEW chip2, chip2 = Regs!After(chip, s, c)
  PROVE  chip2 \in SoundChip /\ OnlyReg(chip2, chip, "CONFIG") /\ Regs!Passes(chip2, s)
<1> DEFINE v == chip.regs["CONFIG"] \cup {1}
<1>1. s.op = "nrf_or8" /\ s.reg = "CONFIG" /\ s.v = {1}
  BY DEF Regs!Step
<1>2. "CONFIG" \in Regs!ByteRegs
  BY DEF Regs!ByteRegs
<1>3. chip2 = Regs!nrf_put8(chip, "CONFIG", v)
  BY <1>1 DEF Regs!After, Regs!nrf_or8, Regs!nrf_get8
<1>4. v \in AByte
  BY <1>2, ChipParts DEF SoundChip, AByte
<1>5. Regs!Passes(chip2, s)
  BY <1>1 DEF Regs!Passes
<1> HIDE DEF v
<1> QED BY <1>2, <1>3, <1>4, <1>5, PutFx

LEMMA RxModeFx ==
  ASSUME NEW chip \in SoundChip, NEW c \in AConf,
         NEW s, s = Regs!Do("nrf_rx_mode"), NEW chip2, chip2 = Regs!After(chip, s, c)
  PROVE  /\ chip2 \in SoundChip /\ chip2.regs["CONFIG"] = Regs!rx_config(c) /\ chip2.ce = 1
         /\ \A r \in Regs!ByteRegs : r # "CONFIG" => chip2.regs[r] = chip.regs[r]
         /\ chip2.rxaddr = chip.rxaddr /\ chip2.intr = chip.intr /\ chip2.tx = chip.tx /\ chip2.rx = chip.rx
         /\ Regs!Passes(chip2, s)
<1> DEFINE v == Regs!rx_config(c)
           mid == Regs!nrf_put8(chip, "CONFIG", v)
<1>1. s.op = "nrf_rx_mode"
  BY DEF Regs!Do, Regs!Step
<1>2. "CONFIG" \in Regs!ByteRegs
  BY DEF Regs!ByteRegs
<1>3. v \in AByte /\ 0 \in v /\ v \subseteq 0 .. 6
  BY DEF AByte, Regs!rx_config
<1>4. chip2 = [mid EXCEPT !.ce = 1]
  BY <1>1 DEF Regs!After
<1> HIDE DEF v, mid
<1>5. mid \in SoundChip /\ mid.regs["CONFIG"] = v \cap Regs!Writable["CONFIG"] /\ OnlyReg(mid, chip, "CONFIG")
  BY <1>2, <1>3, PutFx DEF mid
<1>6. mid.regs["CONFIG"] = v
  BY <1>3, <1>5, WritableBits
<1>7. chip2 \in SoundChip /\ chip2.regs = mid.regs /\ chip2.ce = 1 /\ chip2.rxaddr = mid.rxaddr
      /\ chip2.intr = mid.intr /\ chip2.tx = mid.tx /\ chip2.rx = mid.rx
  BY <1>4, <1>5 DEF SoundChip, AChip
<1>8. Regs!Passes(chip2, s)
  BY <1>1, <1>3, <1>6, <1>7 DEF Regs!Passes, Regs!nrf_bit_isset, Regs!nrf_get8
<1> QED BY <1>5, <1>6, <1>7, <1>8 DEF OnlyReg, v

\* The step of nrf_init at each place.
PlaceIs(s, at, ack_p, c, addr) ==
  /\ at = 1 => s = Regs!Do("nrf_gpio_init")
  /\ at = 2 => s = Regs!Chk("CONFIG", {})
  /\ at = 3 => s = Regs!Chk("EN_RXADDR", {})
  /\ at = 4 => s = Regs!Chk("EN_AA", IF ack_p THEN {0, 1} ELSE {})
  /\ at = 5 => s = Regs!Chk("EN_RXADDR", IF ack_p THEN {0, 1} ELSE {1})
  /\ at = 6 => ack_p /\ s = Regs!Holds(c.retran_delay < 16)
  /\ at = 7 => ack_p /\ s = Regs!Chk("SETUP_RETR", Regs!Bits(c.retran_attempts + 16 * c.retran_delay))
  /\ at = 8 => ack_p /\ s = Regs!Is("EN_RXADDR", {0, 1})
  /\ at = 9 => ack_p /\ s = Regs!Is("EN_AA", {0, 1})
  /\ at = 10 => s = Regs!Holds(c.addr_nbytes = 3)
  /\ at = 11 => s = Regs!Chk("SETUP_AW", Regs!Bits(c.addr_nbytes - 2))
  /\ at = 12 => s = Regs!Chk("RX_PW_P1", Regs!Bits(32))
  /\ at = 13 => s = Regs!Step("nrf_set_addr", "none", addr)
  /\ at = 14 => s = Regs!Chk("RF_CH", Regs!Bits(c.Mhz_delta))
  /\ at = 15 => s = Regs!Holds(Regs!Bits(c.dr) \cap Regs!Bits(c.db) = {})
  /\ at = 16 => s = Regs!Chk("RF_SETUP", Regs!Bits(c.dr) \cup Regs!Bits(c.db))
  /\ at \in {17, 25} => s = Regs!Do("nrf_tx_flush")
  /\ at \in {18, 26} => s = Regs!Do("nrf_rx_flush")
  /\ at = 19 => s = Regs!Step("put8", "STATUS", 0 .. 7)
  /\ at \in {20, 22} => s = Regs!Is("STATUS", {1, 2, 3})
  /\ at \in {21, 27} => s = Regs!Is("FIFO_STATUS", {0, 4})
  /\ at = 23 => s = Regs!Is("DYNPD", {})
  /\ at = 24 => s = Regs!Chk("FEATURE", {})
  /\ at = 28 => s = Regs!Step("nrf_or8", "CONFIG", {1})
  /\ at = 29 => s = Regs!Do("nrf_rx_mode")


\* nrf_init, step by step, with acknowledgements and without.
LEMMA AckedSteps ==
  ASSUME NEW c, NEW pipe, NEW addr, Regs!nrf_pipe_acked(pipe) = TRUE, pipe.rxaddr = addr, pipe.msg_nbytes = 32
  PROVE  /\ Len(Regs!nrf_init(c, pipe)) = 29
         /\ \A at \in 1 .. 29 : PlaceIs(Regs!nrf_init(c, pipe)[at], PlaceOf(at, TRUE), TRUE, c, addr)
<1> DEFINE steps == Regs!nrf_init(c, pipe)
           a1 == Regs!Do("nrf_gpio_init")
           a2 == Regs!Chk("CONFIG", {})
           a3 == Regs!Chk("EN_RXADDR", {})
           a4 == Regs!Chk("EN_AA", {0, 1})
           a5 == Regs!Chk("EN_RXADDR", {0, 1})
           a6 == Regs!Holds(c.retran_delay < 16)
           a7 == Regs!Chk("SETUP_RETR", Regs!Bits(c.retran_attempts + 16 * c.retran_delay))
           a8 == Regs!Is("EN_RXADDR", {0, 1})
           a9 == Regs!Is("EN_AA", {0, 1})
           a10 == Regs!Holds(c.addr_nbytes = 3)
           a11 == Regs!Chk("SETUP_AW", Regs!Bits(c.addr_nbytes - 2))
           a12 == Regs!Chk("RX_PW_P1", Regs!Bits(32))
           a13 == Regs!Step("nrf_set_addr", "none", addr)
           a14 == Regs!Chk("RF_CH", Regs!Bits(c.Mhz_delta))
           a15 == Regs!Holds(Regs!Bits(c.dr) \cap Regs!Bits(c.db) = {})
           a16 == Regs!Chk("RF_SETUP", Regs!Bits(c.dr) \cup Regs!Bits(c.db))
           a17 == Regs!Do("nrf_tx_flush")
           a18 == Regs!Do("nrf_rx_flush")
           a19 == Regs!Step("put8", "STATUS", 0 .. 7)
           a20 == Regs!Is("STATUS", {1, 2, 3})
           a21 == Regs!Is("FIFO_STATUS", {0, 4})
           a23 == Regs!Is("DYNPD", {})
           a24 == Regs!Chk("FEATURE", {})
           a28 == Regs!Step("nrf_or8", "CONFIG", {1})
           a29 == Regs!Do("nrf_rx_mode")
<1>1. Regs!Acks(c, Regs!nrf_pipe_acked(pipe)) = <<a4, a5, a6, a7, a8, a9>>
  BY Zenon DEF Regs!Acks
<1>2. steps = <<a1, a2, a3>> \o Regs!Acks(c, Regs!nrf_pipe_acked(pipe))
        \o <<a10, a11, a12, a13, a14, a15, a16>> \o <<a17, a18>> \o <<a19, a20>> \o <<a21, a20>> \o <<a23, a24>> \o <<a17, a18>> \o <<a21, a28, a29>>
  BY Zenon DEF Regs!nrf_init, Regs!Flushes, Regs!NothingPending
<1> HIDE DEF steps, a1, a2, a3, a4, a5, a6, a7, a8, a9, a10, a11, a12, a13, a14, a15, a16, a17, a18, a19, a20, a21, a23, a24, a28, a29
<1>3. steps = <<a1, a2, a3>> \o <<a4, a5, a6, a7, a8, a9>>
        \o <<a10, a11, a12, a13, a14, a15, a16>> \o <<a17, a18>> \o <<a19, a20>> \o <<a21, a20>> \o <<a23, a24>> \o <<a17, a18>> \o <<a21, a28, a29>>
  BY Zenon, <1>1, <1>2
<1>4. /\ Len(steps) = 29
      /\ steps[1] = a1 /\ steps[2] = a2 /\ steps[3] = a3 /\ steps[4] = a4 /\ steps[5] = a5 /\ steps[6] = a6
      /\ steps[7] = a7 /\ steps[8] = a8 /\ steps[9] = a9 /\ steps[10] = a10 /\ steps[11] = a11 /\ steps[12] = a12
      /\ steps[13] = a13 /\ steps[14] = a14 /\ steps[15] = a15 /\ steps[16] = a16 /\ steps[17] = a17 /\ steps[18] = a18
      /\ steps[19] = a19 /\ steps[20] = a20 /\ steps[21] = a21 /\ steps[22] = a20 /\ steps[23] = a23 /\ steps[24] = a24
      /\ steps[25] = a17 /\ steps[26] = a18 /\ steps[27] = a21 /\ steps[28] = a28 /\ steps[29] = a29
  BY SMTT(60), <1>3
<1> SUFFICES ASSUME NEW at \in 1 .. 29
             PROVE  PlaceIs(steps[at], PlaceOf(at, TRUE), TRUE, c, addr)
  BY <1>4 DEF steps
<1> DEFINE b == PlaceOf(at, TRUE)
<1>5. b = at
  BY DEF PlaceOf
<1> HIDE DEF b
<1>6. /\ b = 1 => steps[at] = a1
      /\ b = 2 => steps[at] = a2
      /\ b = 3 => steps[at] = a3
      /\ b = 4 => steps[at] = a4
      /\ b = 5 => steps[at] = a5
      /\ b = 6 => steps[at] = a6
      /\ b = 7 => steps[at] = a7
      /\ b = 8 => steps[at] = a8
      /\ b = 9 => steps[at] = a9
      /\ b = 10 => steps[at] = a10
      /\ b = 11 => steps[at] = a11
      /\ b = 12 => steps[at] = a12
      /\ b = 13 => steps[at] = a13
      /\ b = 14 => steps[at] = a14
      /\ b = 15 => steps[at] = a15
      /\ b = 16 => steps[at] = a16
      /\ b \in {17, 25} => steps[at] = a17
      /\ b \in {18, 26} => steps[at] = a18
      /\ b = 19 => steps[at] = a19
      /\ b \in {20, 22} => steps[at] = a20
      /\ b \in {21, 27} => steps[at] = a21
      /\ b = 23 => steps[at] = a23
      /\ b = 24 => steps[at] = a24
      /\ b = 28 => steps[at] = a28
      /\ b = 29 => steps[at] = a29
  BY <1>4, <1>5
<1> QED BY Zenon, <1>6 DEF PlaceIs, b, a1, a2, a3, a4, a5, a6, a7, a8, a9, a10, a11, a12, a13, a14, a15, a16, a17, a18, a19, a20, a21, a23, a24, a28, a29


LEMMA UnackedSteps ==
  ASSUME NEW c, NEW pipe, NEW addr, Regs!nrf_pipe_acked(pipe) = FALSE, pipe.rxaddr = addr, pipe.msg_nbytes = 32
  PROVE  /\ Len(Regs!nrf_init(c, pipe)) = 25
         /\ \A at \in 1 .. 25 : PlaceIs(Regs!nrf_init(c, pipe)[at], PlaceOf(at, FALSE), FALSE, c, addr)
<1> DEFINE steps == Regs!nrf_init(c, pipe)
           a1 == Regs!Do("nrf_gpio_init")
           a2 == Regs!Chk("CONFIG", {})
           a3 == Regs!Chk("EN_RXADDR", {})
           a4 == Regs!Chk("EN_AA", {})
           a5 == Regs!Chk("EN_RXADDR", {1})
           a10 == Regs!Holds(c.addr_nbytes = 3)
           a11 == Regs!Chk("SETUP_AW", Regs!Bits(c.addr_nbytes - 2))
           a12 == Regs!Chk("RX_PW_P1", Regs!Bits(32))
           a13 == Regs!Step("nrf_set_addr", "none", addr)
           a14 == Regs!Chk("RF_CH", Regs!Bits(c.Mhz_delta))
           a15 == Regs!Holds(Regs!Bits(c.dr) \cap Regs!Bits(c.db) = {})
           a16 == Regs!Chk("RF_SETUP", Regs!Bits(c.dr) \cup Regs!Bits(c.db))
           a17 == Regs!Do("nrf_tx_flush")
           a18 == Regs!Do("nrf_rx_flush")
           a19 == Regs!Step("put8", "STATUS", 0 .. 7)
           a20 == Regs!Is("STATUS", {1, 2, 3})
           a21 == Regs!Is("FIFO_STATUS", {0, 4})
           a23 == Regs!Is("DYNPD", {})
           a24 == Regs!Chk("FEATURE", {})
           a28 == Regs!Step("nrf_or8", "CONFIG", {1})
           a29 == Regs!Do("nrf_rx_mode")
<1>1. Regs!Acks(c, Regs!nrf_pipe_acked(pipe)) = <<a4, a5>>
  BY Zenon DEF Regs!Acks
<1>2. steps = <<a1, a2, a3>> \o Regs!Acks(c, Regs!nrf_pipe_acked(pipe))
        \o <<a10, a11, a12, a13, a14, a15, a16>> \o <<a17, a18>> \o <<a19, a20>> \o <<a21, a20>> \o <<a23, a24>> \o <<a17, a18>> \o <<a21, a28, a29>>
  BY Zenon DEF Regs!nrf_init, Regs!Flushes, Regs!NothingPending
<1> HIDE DEF steps, a1, a2, a3, a4, a5, a10, a11, a12, a13, a14, a15, a16, a17, a18, a19, a20, a21, a23, a24, a28, a29
<1>3. steps = <<a1, a2, a3>> \o <<a4, a5>>
        \o <<a10, a11, a12, a13, a14, a15, a16>> \o <<a17, a18>> \o <<a19, a20>> \o <<a21, a20>> \o <<a23, a24>> \o <<a17, a18>> \o <<a21, a28, a29>>
  BY Zenon, <1>1, <1>2
<1>4. /\ Len(steps) = 25
      /\ steps[1] = a1 /\ steps[2] = a2 /\ steps[3] = a3 /\ steps[4] = a4 /\ steps[5] = a5 /\ steps[6] = a10
      /\ steps[7] = a11 /\ steps[8] = a12 /\ steps[9] = a13 /\ steps[10] = a14 /\ steps[11] = a15 /\ steps[12] = a16
      /\ steps[13] = a17 /\ steps[14] = a18 /\ steps[15] = a19 /\ steps[16] = a20 /\ steps[17] = a21 /\ steps[18] = a20
      /\ steps[19] = a23 /\ steps[20] = a24 /\ steps[21] = a17 /\ steps[22] = a18 /\ steps[23] = a21 /\ steps[24] = a28
      /\ steps[25] = a29
  BY SMTT(60), <1>3
<1> SUFFICES ASSUME NEW at \in 1 .. 25
             PROVE  PlaceIs(steps[at], PlaceOf(at, FALSE), FALSE, c, addr)
  BY <1>4 DEF steps
<1> DEFINE b == PlaceOf(at, FALSE)
<1>5. b = IF at <= 5 THEN at ELSE at + 4
  BY DEF PlaceOf
<1> HIDE DEF b
<1>6. /\ b = 1 => steps[at] = a1
      /\ b = 2 => steps[at] = a2
      /\ b = 3 => steps[at] = a3
      /\ b = 4 => steps[at] = a4
      /\ b = 5 => steps[at] = a5
      /\ b = 10 => steps[at] = a10
      /\ b = 11 => steps[at] = a11
      /\ b = 12 => steps[at] = a12
      /\ b = 13 => steps[at] = a13
      /\ b = 14 => steps[at] = a14
      /\ b = 15 => steps[at] = a15
      /\ b = 16 => steps[at] = a16
      /\ b \in {17, 25} => steps[at] = a17
      /\ b \in {18, 26} => steps[at] = a18
      /\ b = 19 => steps[at] = a19
      /\ b \in {20, 22} => steps[at] = a20
      /\ b \in {21, 27} => steps[at] = a21
      /\ b = 23 => steps[at] = a23
      /\ b = 24 => steps[at] = a24
      /\ b = 28 => steps[at] = a28
      /\ b = 29 => steps[at] = a29
      /\ b \notin 6 .. 9
  BY <1>4, <1>5
<1>7. b # 6 /\ b # 7 /\ b # 8 /\ b # 9
  BY <1>6
<1> QED BY Zenon, <1>6, <1>7 DEF PlaceIs, b, a1, a2, a3, a4, a5, a10, a11, a12, a13, a14, a15, a16, a17, a18, a19, a20, a21, a23, a24, a28, a29

\* Each step leaves a chip as far as the next place needs it, or is refused.
StepGoal(chip2, s, c, ack_p, addr, at) ==
  /\ chip2 \in SoundChip
  /\ ~Regs!Passes(chip2, s) => ~Unrefused(c)
  /\ Regs!Passes(chip2, s) /\ at < 29 => Written1(chip2, c, ack_p, at + 1) /\ Written2(chip2, c, addr, at + 1)
  /\ at = 29 => IsReady(chip2, c, ack_p, addr) /\ c.addr_nbytes = 3

LEMMA ConfParts ==
  ASSUME NEW c \in AConf
  PROVE  /\ c.Mhz_delta \in 0 .. 255 /\ c.dr \in {0, 8, 32} /\ c.db \in 0 .. 6 /\ c.addr_nbytes \in 3 .. 5
         /\ c.retran_attempts \in 0 .. 15 /\ c.retran_delay \in 0 .. 15
         /\ Regs!Bits(c.Mhz_delta) \in AByte /\ Regs!Bits(c.dr) \cup Regs!Bits(c.db) \in AByte
         /\ Retr(c) \in AByte /\ Retr(c) = Regs!Bits(c.retran_attempts + 16 * c.retran_delay)
         /\ Regs!Bits(c.dr) \cap Regs!Bits(c.db) = {}
         /\ c.addr_nbytes = 3 => Regs!Bits(c.addr_nbytes - 2) = {0}
         /\ Regs!Bits(c.addr_nbytes - 2) \in AByte
         /\ 5 \in Regs!Bits(c.dr) \cup Regs!Bits(c.db) => c.dr = 32
<1>1. /\ c.Mhz_delta \in 0 .. 255 /\ c.dr \in {0, 8, 32} /\ c.db \in 0 .. 6 /\ c.addr_nbytes \in 3 .. 5
      /\ c.retran_attempts \in 0 .. 15 /\ c.retran_delay \in 0 .. 15
  BY DEF AConf
<1>2. Regs!Bits(c.Mhz_delta) \in AByte /\ Regs!Bits(c.dr) \in AByte /\ Regs!Bits(c.db) \in AByte
      /\ Regs!Bits(c.addr_nbytes - 2) \in AByte
  BY <1>1, BitsAreAByte DEF AByte
<1>3. Regs!Bits(c.retran_attempts + 16 * c.retran_delay) \in AByte
  BY <1>1, BitsAreAByte DEF AByte
<1>4. Retr(c) = Regs!Bits(c.retran_attempts + 16 * c.retran_delay)
  BY <1>1, BitsOfTwoFields DEF Retr
<1>5. Regs!Bits(c.dr) \subseteq {3, 5} /\ (5 \in Regs!Bits(c.dr) => c.dr = 32) /\ Regs!Bits(c.db) \subseteq 0 .. 2
  BY <1>1, BitsOfRate, BitsOfPower
<1>6. c.addr_nbytes = 3 => Regs!Bits(c.addr_nbytes - 2) = {0}
  BY BitsOf1
<1>7. Regs!Bits(c.dr) \cup Regs!Bits(c.db) \in AByte
  BY <1>2 DEF AByte
<1>8. Regs!Bits(c.dr) \cap Regs!Bits(c.db) = {} /\ (5 \in Regs!Bits(c.dr) \cup Regs!Bits(c.db) => c.dr = 32)
  BY <1>5
<1> QED BY <1>1, <1>2, <1>3, <1>4, <1>6, <1>7, <1>8

LEMMA StepOfInit ==
  ASSUME FifoSize # 0, NEW chip \in SoundChip, NEW c \in AConf, NEW addr \in AnAddr,
         NEW ack_p \in BOOLEAN, NEW at \in 1 .. 29, NEW s, PlaceIs(s, at, ack_p, c, addr),
         NEW chip2, chip2 = Regs!After(chip, s, c),
         Written1(chip, c, ack_p, at), Written2(chip, c, addr, at)
  PROVE  StepGoal(chip2, s, c, ack_p, addr, at)
<1>1. CASE at = 1
  <2>1. s = Regs!Do("nrf_gpio_init")
    BY <1>1 DEF PlaceIs
  <2>2. /\ chip2 \in SoundChip /\ SameRegs(chip2, chip) /\ chip2.rxaddr = chip.rxaddr /\ chip2.intr = chip.intr
        /\ chip2.ce = 0 /\ chip2.tx = chip.tx /\ chip2.rx = chip.rx
        /\ Regs!Passes(chip2, s)
    BY <2>1, DoFx
  <2>3. Written1(chip2, c, ack_p, at + 1) /\ Written2(chip2, c, addr, at + 1)
    BY <1>1, <2>2 DEF Written1, Written2, SameRegs, Regs!ByteRegs
  <2> QED BY <1>1, <2>2, <2>3 DEF StepGoal
<1>2. CASE at = 2
  <2> DEFINE v == {}
  <2>1. s.op = "put8_chk" /\ s.reg = "CONFIG" /\ s.v = v
    BY <1>2 DEF PlaceIs, Regs!Chk, Regs!Step
  <2>2. "CONFIG" \in Regs!ByteRegs
    BY DEF Regs!ByteRegs
  <2>3. v \in AByte
    BY DEF AByte
  <2> HIDE DEF v
  <2>4. chip2 \in SoundChip /\ chip2.regs["CONFIG"] = v \cap Regs!Writable["CONFIG"]
        /\ OnlyReg(chip2, chip, "CONFIG") /\ (Regs!Passes(chip2, s) <=> v \subseteq Regs!Writable["CONFIG"])
    BY <2>1, <2>2, <2>3, ChkFx
  <2>5. Regs!Passes(chip2, s) => chip2.regs["CONFIG"] = v
    BY <2>4
  <2>6. ~Regs!Passes(chip2, s) => ~Unrefused(c)
    BY <2>4, WritableBits DEF v
  <2>7. Regs!Passes(chip2, s) => Written1(chip2, c, ack_p, at + 1) /\ Written2(chip2, c, addr, at + 1)
    BY <1>2, <2>1, <2>4, <2>5 DEF Written1, Written2, OnlyReg, Regs!ByteRegs, v
  <2> QED BY <1>2, <2>4, <2>6, <2>7 DEF StepGoal
<1>3. CASE at = 3
  <2> DEFINE v == {}
  <2>1. s.op = "put8_chk" /\ s.reg = "EN_RXADDR" /\ s.v = v
    BY <1>3 DEF PlaceIs, Regs!Chk, Regs!Step
  <2>2. "EN_RXADDR" \in Regs!ByteRegs
    BY DEF Regs!ByteRegs
  <2>3. v \in AByte
    BY DEF AByte
  <2> HIDE DEF v
  <2>4. chip2 \in SoundChip /\ chip2.regs["EN_RXADDR"] = v \cap Regs!Writable["EN_RXADDR"]
        /\ OnlyReg(chip2, chip, "EN_RXADDR") /\ (Regs!Passes(chip2, s) <=> v \subseteq Regs!Writable["EN_RXADDR"])
    BY <2>1, <2>2, <2>3, ChkFx
  <2>5. Regs!Passes(chip2, s) => chip2.regs["EN_RXADDR"] = v
    BY <2>4
  <2>6. ~Regs!Passes(chip2, s) => ~Unrefused(c)
    BY <2>4, WritableBits DEF v
  <2>7. Regs!Passes(chip2, s) => Written1(chip2, c, ack_p, at + 1) /\ Written2(chip2, c, addr, at + 1)
    BY <1>3, <2>1, <2>4, <2>5 DEF Written1, Written2, OnlyReg, Regs!ByteRegs, v
  <2> QED BY <1>3, <2>4, <2>6, <2>7 DEF StepGoal
<1>4. CASE at = 4
  <2> DEFINE v == IF ack_p THEN {0, 1} ELSE {}
  <2>1. s.op = "put8_chk" /\ s.reg = "EN_AA" /\ s.v = v
    BY <1>4 DEF PlaceIs, Regs!Chk, Regs!Step
  <2>2. "EN_AA" \in Regs!ByteRegs
    BY DEF Regs!ByteRegs
  <2>3. v \in AByte
    BY DEF AByte
  <2> HIDE DEF v
  <2>4. chip2 \in SoundChip /\ chip2.regs["EN_AA"] = v \cap Regs!Writable["EN_AA"]
        /\ OnlyReg(chip2, chip, "EN_AA") /\ (Regs!Passes(chip2, s) <=> v \subseteq Regs!Writable["EN_AA"])
    BY <2>1, <2>2, <2>3, ChkFx
  <2>5. Regs!Passes(chip2, s) => chip2.regs["EN_AA"] = v
    BY <2>4
  <2>6. ~Regs!Passes(chip2, s) => ~Unrefused(c)
    BY <2>4, WritableBits DEF v
  <2>7. Regs!Passes(chip2, s) => Written1(chip2, c, ack_p, at + 1) /\ Written2(chip2, c, addr, at + 1)
    BY <1>4, <2>1, <2>4, <2>5 DEF Written1, Written2, OnlyReg, Regs!ByteRegs, v
  <2> QED BY <1>4, <2>4, <2>6, <2>7 DEF StepGoal
<1>5. CASE at = 5
  <2> DEFINE v == IF ack_p THEN {0, 1} ELSE {1}
  <2>1. s.op = "put8_chk" /\ s.reg = "EN_RXADDR" /\ s.v = v
    BY <1>5 DEF PlaceIs, Regs!Chk, Regs!Step
  <2>2. "EN_RXADDR" \in Regs!ByteRegs
    BY DEF Regs!ByteRegs
  <2>3. v \in AByte
    BY DEF AByte
  <2> HIDE DEF v
  <2>4. chip2 \in SoundChip /\ chip2.regs["EN_RXADDR"] = v \cap Regs!Writable["EN_RXADDR"]
        /\ OnlyReg(chip2, chip, "EN_RXADDR") /\ (Regs!Passes(chip2, s) <=> v \subseteq Regs!Writable["EN_RXADDR"])
    BY <2>1, <2>2, <2>3, ChkFx
  <2>5. Regs!Passes(chip2, s) => chip2.regs["EN_RXADDR"] = v
    BY <2>4
  <2>6. ~Regs!Passes(chip2, s) => ~Unrefused(c)
    BY <2>4, WritableBits DEF v
  <2>7. Regs!Passes(chip2, s) => Written1(chip2, c, ack_p, at + 1) /\ Written2(chip2, c, addr, at + 1)
    BY <1>5, <2>1, <2>4, <2>5 DEF Written1, Written2, OnlyReg, Regs!ByteRegs, v
  <2> QED BY <1>5, <2>4, <2>6, <2>7 DEF StepGoal
<1>6. CASE at = 6
  <2> DEFINE v == c.retran_delay < 16
  <2>1. s = Regs!Holds(v)
    BY Zenon, <1>6 DEF PlaceIs
  <2>2. v \in BOOLEAN
    OBVIOUS
  <2>3. v
    BY DEF AConf
  <2> HIDE DEF v
  <2>4. chip2 = chip /\ (Regs!Passes(chip2, s) <=> v)
    BY Zenon, <2>1, <2>2, HoldsFx
  <2> QED BY <1>6, <2>3, <2>4 DEF StepGoal, Written1, Written2
<1>7. CASE at = 7
  <2> DEFINE v == Regs!Bits(c.retran_attempts + 16 * c.retran_delay)
  <2>1. s.op = "put8_chk" /\ s.reg = "SETUP_RETR" /\ s.v = v /\ ack_p
    BY <1>7 DEF PlaceIs, Regs!Chk, Regs!Step
  <2>2. "SETUP_RETR" \in Regs!ByteRegs
    BY DEF Regs!ByteRegs
  <2>3. v \in AByte
    BY ConfParts
  <2> HIDE DEF v
  <2>4. chip2 \in SoundChip /\ chip2.regs["SETUP_RETR"] = v \cap Regs!Writable["SETUP_RETR"]
        /\ OnlyReg(chip2, chip, "SETUP_RETR") /\ (Regs!Passes(chip2, s) <=> v \subseteq Regs!Writable["SETUP_RETR"])
    BY <2>1, <2>2, <2>3, ChkFx
  <2>5. Regs!Passes(chip2, s) => chip2.regs["SETUP_RETR"] = v
    BY <2>4
  <2>6. ~Regs!Passes(chip2, s) => ~Unrefused(c)
    BY <2>3, <2>4, WritableBits DEF AByte
  <2>8. v = Retr(c)
    BY ConfParts DEF v
  <2>7. Regs!Passes(chip2, s) => Written1(chip2, c, ack_p, at + 1) /\ Written2(chip2, c, addr, at + 1)
    BY <1>7, <2>1, <2>4, <2>5, <2>8 DEF Written1, Written2, OnlyReg, Regs!ByteRegs
  <2> QED BY <1>7, <2>4, <2>6, <2>7 DEF StepGoal
<1>8. CASE at = 8
  <2>1. s.op = "is" /\ s.reg = "EN_RXADDR" /\ s.v = {0, 1}
    BY <1>8 DEF PlaceIs, Regs!Is, Regs!Step
  <2>2. chip2 = chip /\ (Regs!Passes(chip2, s) <=> Regs!nrf_get8(chip, "EN_RXADDR") = {0, 1})
    BY <2>1, IsFx
  <2>3. Regs!nrf_get8(chip, "EN_RXADDR") = {0, 1}
    BY <1>8 DEF Written1, PlaceIs, Regs!nrf_get8
  <2> QED BY <1>8, <2>2, <2>3 DEF StepGoal, Written1, Written2
<1>9. CASE at = 9
  <2>1. s.op = "is" /\ s.reg = "EN_AA" /\ s.v = {0, 1}
    BY <1>9 DEF PlaceIs, Regs!Is, Regs!Step
  <2>2. chip2 = chip /\ (Regs!Passes(chip2, s) <=> Regs!nrf_get8(chip, "EN_AA") = {0, 1})
    BY <2>1, IsFx
  <2>3. Regs!nrf_get8(chip, "EN_AA") = {0, 1}
    BY <1>9 DEF Written1, PlaceIs, Regs!nrf_get8
  <2> QED BY <1>9, <2>2, <2>3 DEF StepGoal, Written1, Written2
<1>10. CASE at = 10
  <2> DEFINE v == c.addr_nbytes = 3
  <2>1. s = Regs!Holds(v)
    BY Zenon, <1>10 DEF PlaceIs
  <2>2. v \in BOOLEAN
    OBVIOUS
  <2>3. v \/ ~Unrefused(c)
    BY DEF Unrefused
  <2> HIDE DEF v
  <2>4. chip2 = chip /\ (Regs!Passes(chip2, s) <=> v)
    BY Zenon, <2>1, <2>2, HoldsFx
  <2> QED BY <1>10, <2>3, <2>4 DEF StepGoal, Written1, Written2, v
<1>11. CASE at = 11
  <2> DEFINE v == Regs!Bits(c.addr_nbytes - 2)
  <2>1. s.op = "put8_chk" /\ s.reg = "SETUP_AW" /\ s.v = v
    BY <1>11 DEF PlaceIs, Regs!Chk, Regs!Step
  <2>2. "SETUP_AW" \in Regs!ByteRegs
    BY DEF Regs!ByteRegs
  <2>3. v \in AByte
    BY ConfParts
  <2> HIDE DEF v
  <2>4. chip2 \in SoundChip /\ chip2.regs["SETUP_AW"] = v \cap Regs!Writable["SETUP_AW"]
        /\ OnlyReg(chip2, chip, "SETUP_AW") /\ (Regs!Passes(chip2, s) <=> v \subseteq Regs!Writable["SETUP_AW"])
    BY <2>1, <2>2, <2>3, ChkFx
  <2>5. Regs!Passes(chip2, s) => chip2.regs["SETUP_AW"] = v
    BY <2>4
  <2>8. c.addr_nbytes = 3
    BY <1>11 DEF Written1
  <2>9. v = {0}
    BY <2>8, ConfParts DEF v
  <2>6. ~Regs!Passes(chip2, s) => ~Unrefused(c)
    BY <2>4, <2>9, WritableBits
  <2>7. Regs!Passes(chip2, s) => Written1(chip2, c, ack_p, at + 1) /\ Written2(chip2, c, addr, at + 1)
    BY <1>11, <2>1, <2>4, <2>5, <2>8, <2>9 DEF Written1, Written2, OnlyReg, Regs!ByteRegs
  <2> QED BY <1>11, <2>4, <2>6, <2>7 DEF StepGoal
<1>12. CASE at = 12
  <2> DEFINE v == Regs!Bits(32)
  <2>1. s.op = "put8_chk" /\ s.reg = "RX_PW_P1" /\ s.v = v
    BY <1>12 DEF PlaceIs, Regs!Chk, Regs!Step
  <2>2. "RX_PW_P1" \in Regs!ByteRegs
    BY DEF Regs!ByteRegs
  <2>3. v \in AByte
    BY BitsOf32 DEF AByte
  <2> HIDE DEF v
  <2>4. chip2 \in SoundChip /\ chip2.regs["RX_PW_P1"] = v \cap Regs!Writable["RX_PW_P1"]
        /\ OnlyReg(chip2, chip, "RX_PW_P1") /\ (Regs!Passes(chip2, s) <=> v \subseteq Regs!Writable["RX_PW_P1"])
    BY <2>1, <2>2, <2>3, ChkFx
  <2>5. Regs!Passes(chip2, s) => chip2.regs["RX_PW_P1"] = v
    BY <2>4
  <2>6. ~Regs!Passes(chip2, s) => ~Unrefused(c)
    BY <2>4, BitsOf32, WritableBits DEF v
  <2>7. Regs!Passes(chip2, s) => Written1(chip2, c, ack_p, at + 1) /\ Written2(chip2, c, addr, at + 1)
    BY <1>12, <2>1, <2>4, <2>5, BitsOf32 DEF Written1, Written2, OnlyReg, Regs!ByteRegs, v
  <2> QED BY <1>12, <2>4, <2>6, <2>7 DEF StepGoal
<1>13. CASE at = 13
  <2>1. s = Regs!Step("nrf_set_addr", "none", addr)
    BY <1>13 DEF PlaceIs
  <2>2. /\ chip2 \in SoundChip /\ SameRegs(chip2, chip) /\ SubSeq(chip2.rxaddr, 1, 3) = addr /\ chip2.intr = chip.intr
        /\ chip2.ce = chip.ce /\ chip2.tx = chip.tx /\ chip2.rx = chip.rx /\ Regs!Passes(chip2, s)
    BY <2>1, AddrFx
  <2>3. Written1(chip2, c, ack_p, at + 1) /\ Written2(chip2, c, addr, at + 1)
    BY <1>13, <2>2 DEF Written1, Written2, SameRegs, Regs!ByteRegs
  <2> QED BY <1>13, <2>2, <2>3 DEF StepGoal
<1>14. CASE at = 14
  <2> DEFINE v == Regs!Bits(c.Mhz_delta)
  <2>1. s.op = "put8_chk" /\ s.reg = "RF_CH" /\ s.v = v
    BY <1>14 DEF PlaceIs, Regs!Chk, Regs!Step
  <2>2. "RF_CH" \in Regs!ByteRegs
    BY DEF Regs!ByteRegs
  <2>3. v \in AByte
    BY ConfParts
  <2> HIDE DEF v
  <2>4. chip2 \in SoundChip /\ chip2.regs["RF_CH"] = v \cap Regs!Writable["RF_CH"]
        /\ OnlyReg(chip2, chip, "RF_CH") /\ (Regs!Passes(chip2, s) <=> v \subseteq Regs!Writable["RF_CH"])
    BY <2>1, <2>2, <2>3, ChkFx
  <2>5. Regs!Passes(chip2, s) => chip2.regs["RF_CH"] = v
    BY <2>4
  <2>6. ~Regs!Passes(chip2, s) => ~Unrefused(c)
    BY <2>4, ConfParts, BitsBelow128, WritableBits DEF v, Unrefused
  <2>7. Regs!Passes(chip2, s) => Written1(chip2, c, ack_p, at + 1) /\ Written2(chip2, c, addr, at + 1)
    BY <1>14, <2>1, <2>4, <2>5 DEF Written1, Written2, OnlyReg, Regs!ByteRegs, v
  <2> QED BY <1>14, <2>4, <2>6, <2>7 DEF StepGoal
<1>15. CASE at = 15
  <2> DEFINE v == Regs!Bits(c.dr) \cap Regs!Bits(c.db) = {}
  <2>1. s = Regs!Holds(v)
    BY Zenon, <1>15 DEF PlaceIs
  <2>2. v \in BOOLEAN
    OBVIOUS
  <2>3. v
    BY ConfParts
  <2> HIDE DEF v
  <2>4. chip2 = chip /\ (Regs!Passes(chip2, s) <=> v)
    BY Zenon, <2>1, <2>2, HoldsFx
  <2> QED BY <1>15, <2>3, <2>4 DEF StepGoal, Written1, Written2
<1>16. CASE at = 16
  <2> DEFINE v == Regs!Bits(c.dr) \cup Regs!Bits(c.db)
  <2>1. s.op = "put8_chk" /\ s.reg = "RF_SETUP" /\ s.v = v
    BY <1>16 DEF PlaceIs, Regs!Chk, Regs!Step
  <2>2. "RF_SETUP" \in Regs!ByteRegs
    BY DEF Regs!ByteRegs
  <2>3. v \in AByte
    BY ConfParts
  <2> HIDE DEF v
  <2>4. chip2 \in SoundChip /\ chip2.regs["RF_SETUP"] = v \cap Regs!Writable["RF_SETUP"]
        /\ OnlyReg(chip2, chip, "RF_SETUP") /\ (Regs!Passes(chip2, s) <=> v \subseteq Regs!Writable["RF_SETUP"])
    BY <2>1, <2>2, <2>3, ChkFx
  <2>5. Regs!Passes(chip2, s) => chip2.regs["RF_SETUP"] = v
    BY <2>4
  <2>6. ~Regs!Passes(chip2, s) => ~Unrefused(c)
    BY <2>3, <2>4, WritableBits DEF AByte
  <2>7. Regs!Passes(chip2, s) => Written1(chip2, c, ack_p, at + 1) /\ Written2(chip2, c, addr, at + 1)
    BY <1>16, <2>1, <2>4, <2>5 DEF Written1, Written2, OnlyReg, Regs!ByteRegs, v
  <2> QED BY <1>16, <2>4, <2>6, <2>7 DEF StepGoal
<1>17. CASE at = 17
  <2>1. s = Regs!Do("nrf_tx_flush")
    BY <1>17 DEF PlaceIs
  <2>2. /\ chip2 \in SoundChip /\ SameRegs(chip2, chip) /\ chip2.rxaddr = chip.rxaddr /\ chip2.intr = chip.intr
        /\ chip2.ce = chip.ce /\ chip2.tx = 0 /\ chip2.rx = chip.rx
        /\ Regs!Passes(chip2, s)
    BY <2>1, DoFx
  <2>3. Written1(chip2, c, ack_p, at + 1) /\ Written2(chip2, c, addr, at + 1)
    BY <1>17, <2>2 DEF Written1, Written2, SameRegs, Regs!ByteRegs
  <2> QED BY <1>17, <2>2, <2>3 DEF StepGoal
<1>18. CASE at = 18
  <2>1. s = Regs!Do("nrf_rx_flush")
    BY <1>18 DEF PlaceIs
  <2>2. /\ chip2 \in SoundChip /\ SameRegs(chip2, chip) /\ chip2.rxaddr = chip.rxaddr /\ chip2.intr = chip.intr
        /\ chip2.ce = chip.ce /\ chip2.tx = chip.tx /\ chip2.rx = <<>>
        /\ Regs!Passes(chip2, s)
    BY <2>1, DoFx
  <2>3. Written1(chip2, c, ack_p, at + 1) /\ Written2(chip2, c, addr, at + 1)
    BY <1>18, <2>2 DEF Written1, Written2, SameRegs, Regs!ByteRegs
  <2> QED BY <1>18, <2>2, <2>3 DEF StepGoal
<1>19. CASE at = 19
  <2>1. s = Regs!Step("put8", "STATUS", 0 .. 7)
    BY <1>19 DEF PlaceIs
  <2>2. /\ chip2 \in SoundChip /\ SameRegs(chip2, chip) /\ chip2.rxaddr = chip.rxaddr /\ chip2.intr = {}
        /\ chip2.ce = chip.ce /\ chip2.tx = chip.tx /\ chip2.rx = chip.rx /\ Regs!Passes(chip2, s)
    BY <2>1, StatusFx
  <2>3. Written1(chip2, c, ack_p, at + 1) /\ Written2(chip2, c, addr, at + 1)
    BY <1>19, <2>2 DEF Written1, Written2, SameRegs, Regs!ByteRegs
  <2> QED BY <1>19, <2>2, <2>3 DEF StepGoal
<1>20. CASE at = 20
  <2>1. s.op = "is" /\ s.reg = "STATUS" /\ s.v = {1, 2, 3}
    BY <1>20 DEF PlaceIs, Regs!Is, Regs!Step
  <2>2. chip2 = chip /\ (Regs!Passes(chip2, s) <=> Regs!nrf_get8(chip, "STATUS") = {1, 2, 3})
    BY <2>1, IsFx
  <2>3. Regs!nrf_get8(chip, "STATUS") = {1, 2, 3}
    BY <1>20 DEF Written2, Regs!nrf_get8, Regs!STATUS
  <2> QED BY <1>20, <2>2, <2>3 DEF StepGoal, Written1, Written2
<1>21. CASE at = 21
  <2>1. s.op = "is" /\ s.reg = "FIFO_STATUS" /\ s.v = {0, 4}
    BY <1>21 DEF PlaceIs, Regs!Is, Regs!Step
  <2>2. chip2 = chip /\ (Regs!Passes(chip2, s) <=> Regs!nrf_get8(chip, "FIFO_STATUS") = {0, 4})
    BY <2>1, IsFx
  <2>3. Regs!nrf_get8(chip, "FIFO_STATUS") = {0, 4}
    BY <1>21 DEF Written2, Regs!nrf_get8, Regs!FIFO_STATUS
  <2> QED BY <1>21, <2>2, <2>3 DEF StepGoal, Written1, Written2
<1>22. CASE at = 22
  <2>1. s.op = "is" /\ s.reg = "STATUS" /\ s.v = {1, 2, 3}
    BY <1>22 DEF PlaceIs, Regs!Is, Regs!Step
  <2>2. chip2 = chip /\ (Regs!Passes(chip2, s) <=> Regs!nrf_get8(chip, "STATUS") = {1, 2, 3})
    BY <2>1, IsFx
  <2>3. Regs!nrf_get8(chip, "STATUS") = {1, 2, 3}
    BY <1>22 DEF Written2, Regs!nrf_get8, Regs!STATUS
  <2> QED BY <1>22, <2>2, <2>3 DEF StepGoal, Written1, Written2
<1>23. CASE at = 23
  <2>1. s.op = "is" /\ s.reg = "DYNPD" /\ s.v = {}
    BY <1>23 DEF PlaceIs, Regs!Is, Regs!Step
  <2>2. chip2 = chip /\ (Regs!Passes(chip2, s) <=> Regs!nrf_get8(chip, "DYNPD") = {})
    BY <2>1, IsFx
  <2>3. Regs!nrf_get8(chip, "DYNPD") = {}
    BY DEF SoundChip, Regs!nrf_get8
  <2> QED BY <1>23, <2>2, <2>3 DEF StepGoal, Written1, Written2
<1>24. CASE at = 24
  <2>1. s.op = "put8_chk" /\ s.reg = "FEATURE" /\ s.v = {}
    BY <1>24 DEF PlaceIs, Regs!Chk, Regs!Step
  <2>2. "FEATURE" \in Regs!ByteRegs /\ {} \in AByte
    BY DEF Regs!ByteRegs, AByte
  <2>3. chip2 = Regs!nrf_put8(chip, "FEATURE", {})
    BY <2>1 DEF Regs!After
  <2>4. chip2 \in SoundChip /\ OnlyReg(chip2, chip, "FEATURE")
    <3> DEFINE e == {}
    <3>1. chip2 = Regs!nrf_put8(chip, "FEATURE", e) /\ e \in AByte /\ e = {}
      BY <2>2, <2>3
    <3> HIDE DEF e
    <3> QED BY <2>2, <3>1, PutFx
  <2>5. Regs!Passes(chip2, s)
    BY <2>1, <2>4 DEF Regs!Passes, Regs!nrf_get8, SoundChip
  <2>6. Written1(chip2, c, ack_p, at + 1) /\ Written2(chip2, c, addr, at + 1)
    BY <1>24, <2>4 DEF Written1, Written2, OnlyReg, Regs!ByteRegs
  <2> QED BY <1>24, <2>4, <2>5, <2>6 DEF StepGoal
<1>25. CASE at = 25
  <2>1. s = Regs!Do("nrf_tx_flush")
    BY <1>25 DEF PlaceIs
  <2>2. /\ chip2 \in SoundChip /\ SameRegs(chip2, chip) /\ chip2.rxaddr = chip.rxaddr /\ chip2.intr = chip.intr
        /\ chip2.ce = chip.ce /\ chip2.tx = 0 /\ chip2.rx = chip.rx
        /\ Regs!Passes(chip2, s)
    BY <2>1, DoFx
  <2>3. Written1(chip2, c, ack_p, at + 1) /\ Written2(chip2, c, addr, at + 1)
    BY <1>25, <2>2 DEF Written1, Written2, SameRegs, Regs!ByteRegs
  <2> QED BY <1>25, <2>2, <2>3 DEF StepGoal
<1>26. CASE at = 26
  <2>1. s = Regs!Do("nrf_rx_flush")
    BY <1>26 DEF PlaceIs
  <2>2. /\ chip2 \in SoundChip /\ SameRegs(chip2, chip) /\ chip2.rxaddr = chip.rxaddr /\ chip2.intr = chip.intr
        /\ chip2.ce = chip.ce /\ chip2.tx = chip.tx /\ chip2.rx = <<>>
        /\ Regs!Passes(chip2, s)
    BY <2>1, DoFx
  <2>3. Written1(chip2, c, ack_p, at + 1) /\ Written2(chip2, c, addr, at + 1)
    BY <1>26, <2>2 DEF Written1, Written2, SameRegs, Regs!ByteRegs
  <2> QED BY <1>26, <2>2, <2>3 DEF StepGoal
<1>27. CASE at = 27
  <2>1. s.op = "is" /\ s.reg = "FIFO_STATUS" /\ s.v = {0, 4}
    BY <1>27 DEF PlaceIs, Regs!Is, Regs!Step
  <2>2. chip2 = chip /\ (Regs!Passes(chip2, s) <=> Regs!nrf_get8(chip, "FIFO_STATUS") = {0, 4})
    BY <2>1, IsFx
  <2>3. Regs!nrf_get8(chip, "FIFO_STATUS") = {0, 4}
    BY <1>27 DEF Written2, Regs!nrf_get8, Regs!FIFO_STATUS
  <2> QED BY <1>27, <2>2, <2>3 DEF StepGoal, Written1, Written2
<1>28. CASE at = 28
  <2>1. s = Regs!Step("nrf_or8", "CONFIG", {1})
    BY <1>28 DEF PlaceIs
  <2>2. chip2 \in SoundChip /\ OnlyReg(chip2, chip, "CONFIG") /\ Regs!Passes(chip2, s)
    BY <2>1, OrFx
  <2>3. Written1(chip2, c, ack_p, at + 1) /\ Written2(chip2, c, addr, at + 1)
    BY <1>28, <2>2 DEF Written1, Written2, OnlyReg, Regs!ByteRegs
  <2> QED BY <1>28, <2>2, <2>3 DEF StepGoal
<1>29. CASE at = 29
  <2>1. s = Regs!Do("nrf_rx_mode")
    BY <1>29 DEF PlaceIs
  <2>2. /\ chip2 \in SoundChip /\ chip2.regs["CONFIG"] = Regs!rx_config(c) /\ chip2.ce = 1
        /\ \A r \in Regs!ByteRegs : r # "CONFIG" => chip2.regs[r] = chip.regs[r]
        /\ chip2.rxaddr = chip.rxaddr /\ chip2.intr = chip.intr /\ chip2.tx = chip.tx /\ chip2.rx = chip.rx
        /\ Regs!Passes(chip2, s)
    BY <2>1, RxModeFx
  <2>3. chip.rx = <<>>
    BY <1>29 DEF Written2
  <2>4. \A i \in 1 .. Len(chip2.rx) : chip2.rx[i] = "new"
    BY <2>2, <2>3
  <2>5. IsReady(chip2, c, ack_p, addr) /\ c.addr_nbytes = 3
    BY <1>29, <2>2, <2>4 DEF Written1, Written2, IsReady, Regs!ByteRegs
  <2> QED BY <1>29, <2>2, <2>5 DEF StepGoal
<1> QED BY <1>1, <1>2, <1>3, <1>4, <1>5, <1>6, <1>7, <1>8, <1>9, <1>10, <1>11, <1>12, <1>13, <1>14, <1>15, <1>16, <1>17, <1>18, <1>19, <1>20, <1>21, <1>22, <1>23, <1>24, <1>25, <1>26, <1>27, <1>28, <1>29

(* The actions keep the invariant.                                         *)
LEMMA ChipsAre == Regs!Chips = {0, 1}
BY DEF Regs!Chips

LEMMA NoNicIsNic == Regs!NoNic \in ANic /\ ~Regs!NoNic.up
<1>1. Regs!nrf_conf_unreliable_mk \in AConf
  BY DEF AConf, Regs!nrf_conf_unreliable_mk
<1>2. Regs!nrf_pipe_mk(<<>>, 0, FALSE) \in APipe
  BY DEF APipe, Regs!nrf_pipe_mk
<1> QED BY <1>1, <1>2 DEF ANic, Regs!NoNic

LEMMA AddrIsAddr ==
  ASSUME NEW k \in Regs!Chips
  PROVE  Regs!Addr(k) \in AnAddr /\ Regs!Addr(k) # <<>>
<1>1. Regs!Addr(k) \in Seq(Int) /\ Len(Regs!Addr(k)) = 3
  <2>1. CASE k = 0
    BY <2>1 DEF Regs!Addr
  <2>2. CASE k # 0
    BY <2>2 DEF Regs!Addr
  <2> QED BY <2>1, <2>2
<1>2. Len(Regs!Addr(k)) # Len(<<>>)
  BY <1>1, EmptySeq
<1>3. Regs!Addr(k) # <<>>
  BY Zenon, <1>2
<1> QED BY <1>1, <1>3 DEF AnAddr

\* A setter that does not panic keeps a configuration one.
LEMMA SetFx ==
  ASSUME NEW c \in AConf, NEW s, s.setter \in Regs!Setters, s.value \in Nat, Regs!Legal(s)
  PROVE  /\ Regs!Set(c, s) \in AConf
         /\ Unrefused(c) /\ ~Unrefused(Regs!Set(c, s)) => Regs!Refused(s)
         /\ s.setter # "addr_nbytes" => Regs!Set(c, s).addr_nbytes = c.addr_nbytes
         /\ s.setter \in {"dr", "db"} => /\ Regs!rx_config(Regs!Set(c, s)) = Regs!rx_config(c)
                                         /\ Retr(Regs!Set(c, s)) = Retr(c)
                                         /\ Regs!Set(c, s).Mhz_delta = c.Mhz_delta
<1> DEFINE v == Regs!Stored(s)
           d == [c EXCEPT ![s.setter] = v]
<1>1. Regs!Set(c, s) = d
  BY DEF Regs!Set
<1> HIDE DEF v
<1>2. CASE s.setter = "retran_delay"
  <2>1. v = s.value \div 250 - 1 /\ v \in 0 .. 15
    BY <1>2 DEF v, Regs!Stored, Regs!Legal
  <2>2. d = [c EXCEPT !.retran_delay = v]
    BY <1>2
  <2> QED BY <1>1, <1>2, <2>1, <2>2 DEF AConf, Unrefused
<1>3. CASE s.setter # "retran_delay"
  <2>1. v = s.value
    BY <1>3 DEF v, Regs!Stored
  <2>2. CASE s.setter = "Mhz_delta"
    <3>1. d = [c EXCEPT !.Mhz_delta = v] /\ v \in 0 .. 255
      BY <2>1, <2>2 DEF Regs!Legal
    <3> QED BY <1>1, <2>1, <2>2, <3>1 DEF AConf, Unrefused, Regs!Refused
  <2>3. CASE s.setter = "dr"
    <3>1. d = [c EXCEPT !.dr = v] /\ v \in {0, 8, 32}
      BY <2>1, <2>3 DEF Regs!Legal
    <3> QED BY <1>1, <2>1, <2>3, <3>1 DEF AConf, Unrefused, Regs!Refused, Regs!rx_config, Retr
  <2>4. CASE s.setter = "db"
    <3>1. d = [c EXCEPT !.db = v] /\ v \in 0 .. 6
      BY <2>1, <2>4 DEF Regs!Legal
    <3> QED BY <1>1, <2>1, <2>4, <3>1 DEF AConf, Unrefused, Regs!Refused, Regs!rx_config, Retr
  <2>5. CASE s.setter = "addr_nbytes"
    <3>1. d = [c EXCEPT !.addr_nbytes = v] /\ v \in 3 .. 5
      BY <2>1, <2>5 DEF Regs!Legal
    <3> QED BY <1>1, <2>1, <2>5, <3>1 DEF AConf, Unrefused, Regs!Refused
  <2>6. CASE s.setter = "retran_attempts"
    <3>1. d = [c EXCEPT !.retran_attempts = v] /\ v \in 0 .. 15
      BY <2>1, <2>6 DEF Regs!Legal
    <3> QED BY <1>1, <2>1, <2>6, <3>1 DEF AConf, Unrefused
  <2>7. CASE s.setter = "ce_pin"
    <3>1. d = [c EXCEPT !.ce_pin = v] /\ v \in Nat
      BY <2>1, <2>7
    <3> QED BY <1>1, <2>1, <2>7, <3>1 DEF AConf, Unrefused
  <2>8. CASE s.setter = "int_pin"
    <3>1. d = [c EXCEPT !.int_pin = v] /\ v \in Nat
      BY <2>1, <2>8
    <3> QED BY <1>1, <2>1, <2>8, <3>1 DEF AConf, Unrefused
  <2>9. CASE s.setter = "spi_pin"
    <3>1. d = [c EXCEPT !.spi_pin = v] /\ v \in Nat
      BY <2>1, <2>9
    <3> QED BY <1>1, <2>1, <2>9, <3>1 DEF AConf, Unrefused
  <2> QED BY <1>3, <2>2, <2>3, <2>4, <2>5, <2>6, <2>7, <2>8, <2>9 DEF Regs!Setters
<1> QED BY <1>2, <1>3

LEMMA TestConfigFx ==
  ASSUME NEW k \in Regs!Chips, NEW ack_p \in BOOLEAN
  PROVE  Regs!TestConfig(k, ack_p) \in AConf /\ Unrefused(Regs!TestConfig(k, ack_p))
<1> DEFINE u == Regs!nrf_conf_unreliable_mk
           r == Regs!nrf_conf_reliable_mk(2, 250)
<1>1. u \in AConf /\ Unrefused(u)
  BY DEF AConf, Unrefused, Regs!nrf_conf_unreliable_mk
<1> DEFINE a == [u EXCEPT !.retran_attempts = 2]
           q == [setter |-> "retran_delay", value |-> 250]
<1> HIDE DEF u
<1>2. r = Regs!Set(a, q)
  BY DEF Regs!nrf_conf_reliable_mk, u
<1>3. r \in AConf /\ Unrefused(r)
  <2>1. a \in AConf /\ Unrefused(a)
    BY <1>1 DEF AConf, Unrefused
  <2>2. q.setter = "retran_delay" /\ q.value = 250
    OBVIOUS
  <2> HIDE DEF a, q, r
  <2>3. Regs!Stored(q) = 0
    BY <2>2 DEF Regs!Stored
  <2>4. r = [a EXCEPT !.retran_delay = 0]
    BY <1>2, <2>2, <2>3 DEF Regs!Set
  <2> QED BY <2>1, <2>4 DEF AConf, Unrefused
<1> HIDE DEF r
<1> DEFINE b == IF ack_p THEN r ELSE u
<1>4. b \in AConf /\ Unrefused(b)
  BY <1>1, <1>3
<1>5. Regs!TestConfig(k, ack_p) = [b EXCEPT !.spi_pin = k, !.ce_pin = 20 + k]
  BY DEF Regs!TestConfig, u, r
<1> HIDE DEF b
<1>6. k \in Nat /\ 20 + k \in Nat
  BY ChipsAre
<1> DEFINE d == [b EXCEPT !.spi_pin = k]
<1>7. d \in AConf /\ Unrefused(d)
  BY <1>4, <1>6 DEF AConf, Unrefused
<1>8. Regs!TestConfig(k, ack_p) = [d EXCEPT !.ce_pin = 20 + k]
  BY <1>5
<1> HIDE DEF d
<1> QED BY <1>6, <1>7, <1>8 DEF AConf, Unrefused

LEMMA RegsInit == Regs!RegsAssumption /\ Regs!Init => RegsInv
<1> SUFFICES ASSUME Regs!RegsAssumption, Regs!Init PROVE RegsInv
  OBVIOUS
<1> DEFINE fresh == [regs |-> Regs!ResetValue, rxaddr |-> <<194, 194, 194, 194, 194>>, intr |-> {}, rx |-> <<>>, tx |-> 0, ce |-> 0]
<1>1. fresh \in SoundChip
  <2>1. Regs!ResetValue \in [Regs!ByteRegs -> AByte] /\ Regs!ResetValue["DYNPD"] = {} /\ Regs!ResetValue["FEATURE"] = {}
    <3>1. Regs!ByteRegs = {"CONFIG", "EN_AA", "EN_RXADDR", "SETUP_AW", "SETUP_RETR", "RF_CH", "RF_SETUP", "RX_PW_P1", "DYNPD", "FEATURE"}
      BY DEF Regs!ByteRegs
    <3> QED BY <3>1 DEF Regs!ResetValue, AByte
  <2>2. <<194, 194, 194, 194, 194>> \in Seq(Int) /\ Len(<<194, 194, 194, 194, 194>>) = 5
    OBVIOUS
  <2>3. {} \in AByte /\ <<>> \in Seq({"old", "new"})
    BY EmptySeq DEF AByte
  <2> DEFINE t == Regs!ResetValue
             a == <<194, 194, 194, 194, 194>>
             e == <<>>
  <2> HIDE DEF t, a, e
  <2>4. fresh = [regs |-> t, rxaddr |-> a, intr |-> {}, rx |-> e, tx |-> 0, ce |-> 0]
    BY DEF t, a, e
  <2>5. /\ t \in [Regs!ByteRegs -> AByte] /\ t["DYNPD"] = {} /\ t["FEATURE"] = {} /\ a \in Seq(Int) /\ Len(a) = 5
        /\ {} \in AByte /\ e \in Seq({"old", "new"})
    BY <2>1, <2>2, <2>3 DEF t, a, e
  <2> HIDE DEF fresh
  <2> QED BY <2>4, <2>5 DEF SoundChip, AChip
<1>2. radio = [k \in Regs!Chips |-> fresh] /\ nic = [k \in Regs!Chips |-> Regs!NoNic]
      /\ prog = [st |-> "off", runs |-> 0, chip |-> 0, pc |-> 0, ack_p |-> FALSE, asked |-> {}]
  BY Zenon DEF Regs!Init
<1> HIDE DEF fresh
<1>3. RegsTypes
  BY <1>1, <1>2, ChipsAre, NoNicIsNic DEF RegsTypes
<1>4. UpAreReady
  BY <1>2, NoNicIsNic DEF UpAreReady
<1>5. RegsProgress
  BY <1>2 DEF RegsProgress
<1> QED BY <1>3, <1>4, <1>5 DEF RegsInv

LEMMA RegsRestart ==
  ASSUME Regs!RegsAssumption, RegsInv, Regs!Restart
  PROVE  RegsInv'
<1>1. PICK ack_p \in BOOLEAN, asked \in {{}} \cup {{s} : s \in Changes} :
        prog' = [st |-> "start", runs |-> prog.runs + 1, chip |-> 0, pc |-> 0, ack_p |-> ack_p, asked |-> asked]
  BY DEF Regs!Restart
<1>2. PICK ce \in {0, 1} :
        radio' = [k \in Regs!Chips |-> [radio[k] EXCEPT !.ce = ce, !.rx = [i \in DOMAIN @ |-> "old"]]]
  BY DEF Regs!Restart
<1>3. nic' = [k \in Regs!Chips |-> Regs!NoNic]
  BY DEF Regs!Restart
<1>4. \A k \in Regs!Chips : radio'[k] \in SoundChip
  <2> TAKE k \in Regs!Chips
  <2> DEFINE chip == radio[k]
             old == [i \in DOMAIN chip.rx |-> "old"]
             mid == [chip EXCEPT !.ce = ce]
  <2>1. chip \in SoundChip
    BY DEF RegsInv, RegsTypes
  <2>2. radio'[k] = [mid EXCEPT !.rx = old]
    BY <1>2
  <2> HIDE DEF chip
  <2>3. mid \in SoundChip
    BY <2>1 DEF SoundChip, AChip
  <2>4. old \in Seq({"old", "new"})
    <3>1. chip.rx \in Seq({"old", "new"})
      BY <2>1, ChipParts DEF SoundChip
    <3>2. DOMAIN chip.rx = 1 .. Len(chip.rx) /\ Len(chip.rx) \in Nat
      BY <3>1
    <3> QED BY <3>2
  <2> HIDE DEF mid, old
  <2> QED BY <2>2, <2>3, <2>4 DEF SoundChip, AChip
<1>5. asked \subseteq Changes
  OBVIOUS
<1>6. prog.runs + 1 \in Nat /\ 0 \in Regs!Chips
  BY ChipsAre DEF RegsInv, RegsTypes
<1>7. radio' \in [Regs!Chips -> SoundChip] /\ nic' \in [Regs!Chips -> ANic]
  <2>1. nic' \in [Regs!Chips -> ANic]
    BY <1>3, NoNicIsNic
  <2>2. radio' = [k \in Regs!Chips |-> radio'[k]]
    BY Zenon, <1>2
  <2> QED BY <1>4, <2>1, <2>2
<1>8. RegsTypes'
  BY <1>1, <1>5, <1>6, <1>7 DEF RegsTypes
<1>9. RegsProgress'
  BY <1>1, <1>5 DEF RegsProgress
<1>10. UpAreReady'
  BY <1>3, NoNicIsNic DEF UpAreReady
<1> QED BY <1>8, <1>9, <1>10 DEF RegsInv

\* What the invariant says of the program's record.
LEMMA ProgParts ==
  ASSUME RegsInv
  PROVE  /\ prog.chip \in Regs!Chips /\ prog.pc \in Nat /\ prog.ack_p \in BOOLEAN /\ prog.runs \in Nat
         /\ prog.asked \in SUBSET (Changes \cup Redos)
         /\ prog.st \in {"off", "start", "init", "dump", "idle", "stopped", "panic"}
         /\ prog \in [st : {"off", "start", "init", "dump", "idle", "stopped", "panic"}, runs : Nat, chip : Regs!Chips,
                      pc : Nat, ack_p : BOOLEAN, asked : SUBSET (Changes \cup Redos)]
BY DEF RegsInv, RegsTypes

\* The program panics, for a setting that is refused.
LEMMA RegsPanic ==
  ASSUME RegsInv, Excuse, prog.st # "stopped", prog' = [prog EXCEPT !.st = "panic"], UNCHANGED nic,
         radio' \in [Regs!Chips -> SoundChip],
         \A k \in Regs!Chips : nic[k].up => radio'[k] = radio[k]
  PROVE  RegsInv'
<1>1. /\ prog'.st = "panic" /\ prog'.asked = prog.asked /\ prog'.ack_p = prog.ack_p
      /\ prog' \in [st : {"off", "start", "init", "dump", "idle", "stopped", "panic"}, runs : Nat, chip : Regs!Chips,
                    pc : Nat, ack_p : BOOLEAN, asked : SUBSET (Changes \cup Redos)]
  BY ProgParts
<1>2. RegsTypes'
  BY <1>1 DEF RegsInv, RegsTypes
<1>3. Excuse'
  BY <1>1 DEF Excuse
<1>4. RegsProgress'
  BY <1>1, <1>3 DEF RegsProgress
<1>5. UpAreReady'
  BY <1>1 DEF RegsInv, UpAreReady, Configured, Excuse
<1> QED BY <1>2, <1>4, <1>5 DEF RegsInv

LEMMA RegsConfigure ==
  ASSUME Regs!RegsAssumption, RegsInv, Regs!Configure
  PROVE  RegsInv'
<1>0. PICK k \in Regs!Chips : k = prog.chip
  BY ProgParts
<1> DEFINE c == Regs!TestConfig(k, prog.ack_p)
<1>1. prog.st = "start" /\ UNCHANGED radio
  BY DEF Regs!Configure
<1>2. prog.asked \subseteq Changes /\ (\A s \in Changes : s.setter \in Regs!Setters /\ s.value \in Nat)
  BY <1>1 DEF RegsInv, RegsProgress, Regs!RegsAssumption
<1>3. radio \in [Regs!Chips -> SoundChip]
  BY DEF RegsInv, RegsTypes
<1>4. CASE /\ \E s \in prog.asked : ~Regs!Legal(s)
           /\ prog' = [prog EXCEPT !.st = "panic"] /\ UNCHANGED nic
  <2>1. Excuse
    BY <1>4 DEF Excuse, Regs!Refused
  <2> QED BY <1>1, <1>3, <1>4, <2>1, RegsPanic
<1>5. CASE /\ \A s \in prog.asked : Regs!Legal(s)
           /\ \E d \in IF prog.asked = {} THEN {c} ELSE {Regs!Set(c, s) : s \in prog.asked} :
                nic' = [nic EXCEPT ![k] = [up |-> FALSE, c |-> d, pipe |-> Regs!nrf_pipe_mk(Regs!Addr(k), 32, prog.ack_p)]]
           /\ prog' = [prog EXCEPT !.st = "init", !.pc = 1]
  <2> DEFINE pipe == Regs!nrf_pipe_mk(Regs!Addr(k), 32, prog.ack_p)
  <2>1. PICK d \in IF prog.asked = {} THEN {c} ELSE {Regs!Set(c, s) : s \in prog.asked} :
          nic' = [nic EXCEPT ![k] = [up |-> FALSE, c |-> d, pipe |-> pipe]]
    BY <1>5
  <2>2. k \in Regs!Chips /\ prog.ack_p \in BOOLEAN
    BY ProgParts
  <2>3. c \in AConf /\ Unrefused(c)
    BY <2>2, TestConfigFx
  <2>4. d \in AConf /\ (Unrefused(d) \/ Excuse)
    <3>1. CASE prog.asked = {}
      BY <3>1, <2>3
    <3>2. CASE prog.asked # {}
      <4>1. PICK s \in prog.asked : d = Regs!Set(c, s)
        BY <3>2
      <4>2. Regs!Legal(s) /\ s.setter \in Regs!Setters /\ s.value \in Nat
        BY <1>2, <1>5
      <4>3. d \in AConf /\ (~Unrefused(d) => Regs!Refused(s))
        BY <2>3, <4>1, <4>2, SetFx
      <4> QED BY <4>3 DEF Excuse
    <3> QED BY <3>1, <3>2
  <2>5. pipe \in APipe
    BY <2>2, AddrIsAddr DEF APipe, Regs!nrf_pipe_mk, AnAddr
  <2> DEFINE new == [up |-> FALSE, c |-> d, pipe |-> pipe]
  <2>6. new \in ANic /\ new.up = FALSE /\ new.c = d /\ new.pipe = pipe
    BY <2>4, <2>5 DEF ANic
  <2> HIDE DEF new, c
  <2>7. nic' = [nic EXCEPT ![k] = new]
    BY <2>1 DEF new
  <2>8. nic \in [Regs!Chips -> ANic]
    BY DEF RegsInv, RegsTypes
  <2>9. nic' \in [Regs!Chips -> ANic] /\ nic'[k] = new /\ \A j \in Regs!Chips : j # k => nic'[j] = nic[j]
    BY <2>2, <2>6, <2>7, <2>8
  <2>10. /\ prog'.st = "init" /\ prog'.pc = 1 /\ prog'.asked = prog.asked /\ prog'.ack_p = prog.ack_p
         /\ prog'.chip = prog.chip
         /\ prog' \in [st : {"off", "start", "init", "dump", "idle", "stopped", "panic"}, runs : Nat, chip : Regs!Chips,
                       pc : Nat, ack_p : BOOLEAN, asked : SUBSET (Changes \cup Redos)]
    BY <1>5, ProgParts
  <2>11. RegsTypes'
    BY <1>1, <1>3, <2>9, <2>10 DEF RegsTypes
  <2>12. Configured(k)' /\ ~nic'[k].up
    <3>1. Excuse => Excuse'
      BY <2>10 DEF Excuse
    <3>2. (nic'[k]).pipe = Regs!nrf_pipe_mk(Regs!Addr(k), 32, prog'.ack_p)
      BY <2>6, <2>9, <2>10
    <3>3. (nic'[k]).c = d /\ ~(nic'[k]).up
      BY <2>6, <2>9
    <3> QED BY <2>4, <3>1, <3>2, <3>3 DEF Configured
  <2>13. PlaceOf(1, prog'.ack_p) = 1 /\ Written1(radio'[k], nic'[k].c, prog'.ack_p, 1) /\ Written2(radio'[k], nic'[k].c, Regs!Addr(k), 1)
    BY DEF PlaceOf, Written1, Written2
  <2>14. RegsProgress'
    <3>1. prog'.chip = 1 => nic'[0].up
      <4>1. prog.chip = 1 => nic[0].up
        BY <1>1 DEF RegsInv, RegsProgress
      <4> QED BY <1>0, <4>1, <2>9, <2>10, ChipsAre
    <3> QED BY <1>0, <1>2, <2>10, <2>12, <2>13, <3>1 DEF RegsProgress
  <2>15. UpAreReady'
    <3> SUFFICES ASSUME NEW j \in Regs!Chips, nic'[j].up
                 PROVE  /\ Configured(j)' /\ nic'[j].c.addr_nbytes = 3
                        /\ IsReady(radio'[j], nic'[j].c, prog'.ack_p, Regs!Addr(j))
      BY DEF UpAreReady
    <3>1. j # k /\ nic'[j] = nic[j]
      BY <2>9, <2>12
    <3>2. Configured(j) /\ nic[j].c.addr_nbytes = 3 /\ IsReady(radio[j], nic[j].c, prog.ack_p, Regs!Addr(j))
      BY <1>1, <3>1 DEF RegsInv, UpAreReady
    <3> QED BY <1>1, <2>10, <3>1, <3>2 DEF Configured, Excuse
  <2> QED BY <2>11, <2>14, <2>15 DEF RegsInv
<1> QED BY <1>0, <1>4, <1>5 DEF Regs!Configure

\* The step the program is at, and what it leaves.
LEMMA AtItsPlace ==
  ASSUME NEW k \in Regs!Chips, NEW ack_p \in BOOLEAN, NEW c, NEW pipe, pipe = Regs!nrf_pipe_mk(Regs!Addr(k), 32, ack_p)
  PROVE  LET steps == Regs!nrf_init(c, pipe)
             last == IF ack_p THEN 29 ELSE 25
         IN  /\ Len(steps) = last
             /\ \A i \in 1 .. last : PlaceIs(steps[i], PlaceOf(i, ack_p), ack_p, c, Regs!Addr(k))
<1>1. pipe.rxaddr = Regs!Addr(k) /\ pipe.msg_nbytes = 32 /\ pipe.is_retran_p = ack_p
  BY DEF Regs!nrf_pipe_mk
<1>2. Regs!Addr(k) # <<>>
  BY AddrIsAddr
<1>3. CASE ack_p = TRUE
  <2>0. pipe.msg_nbytes # 0
    BY <1>1
  <2>1. Regs!nrf_pipe_acked(pipe) = TRUE
    BY Zenon, <1>1, <1>2, <1>3, <2>0 DEF Regs!nrf_pipe_acked, Regs!nrf_pipe_active
  <2>2. /\ Len(Regs!nrf_init(c, pipe)) = 29
        /\ \A i \in 1 .. 29 : PlaceIs(Regs!nrf_init(c, pipe)[i], PlaceOf(i, TRUE), TRUE, c, Regs!Addr(k))
    BY Zenon, <1>1, <2>1, AckedSteps
  <2> QED BY Zenon, <1>3, <2>2
<1>4. CASE ack_p = FALSE
  <2>1. Regs!nrf_pipe_acked(pipe) = FALSE
    BY <1>1, <1>4 DEF Regs!nrf_pipe_acked, Regs!nrf_pipe_active
  <2>2. /\ Len(Regs!nrf_init(c, pipe)) = 25
        /\ \A i \in 1 .. 25 : PlaceIs(Regs!nrf_init(c, pipe)[i], PlaceOf(i, FALSE), FALSE, c, Regs!Addr(k))
    BY Zenon, <1>1, <2>1, UnackedSteps
  <2> QED BY Zenon, <1>4, <2>2
<1> QED BY <1>3, <1>4

LEMMA WrittenOn ==
  ASSUME NEW chip, NEW c, NEW addr, NEW ack_p \in BOOLEAN, NEW i \in 1 .. 28, ack_p \/ i < 25,
         Written1(chip, c, ack_p, PlaceOf(i, ack_p) + 1), Written2(chip, c, addr, PlaceOf(i, ack_p) + 1)
  PROVE  Written1(chip, c, ack_p, PlaceOf(i + 1, ack_p)) /\ Written2(chip, c, addr, PlaceOf(i + 1, ack_p))
<1>1. CASE PlaceOf(i, ack_p) + 1 = PlaceOf(i + 1, ack_p)
  BY <1>1
<1>2. CASE PlaceOf(i, ack_p) + 1 # PlaceOf(i + 1, ack_p)
  <2>1. ~ack_p /\ i = 5 /\ PlaceOf(i, ack_p) = 5 /\ PlaceOf(i + 1, ack_p) = 10
    BY <1>2 DEF PlaceOf
  <2> QED BY <2>1 DEF Written1, Written2
<1> QED BY <1>1, <1>2

LEMMA RegsAccess ==
  ASSUME Regs!RegsAssumption, RegsInv, Regs!Access
  PROVE  RegsInv'
<1>1. PICK k \in Regs!Chips : k = prog.chip
  BY ProgParts
<1>2. PICK ack_p \in BOOLEAN : ack_p = prog.ack_p
  BY ProgParts
<1>3. PICK i : i = prog.pc
  OBVIOUS
<1>4. PICK c : c = nic[k].c
  OBVIOUS
<1>5. PICK s : s = Regs!nrf_init(c, nic[k].pipe)[i]
  OBVIOUS
<1>6. PICK chip : chip = Regs!After(radio[k], s, c)
  OBVIOUS
<1> DEFINE at == PlaceOf(i, ack_p)
           last == IF ack_p THEN 29 ELSE 25
<1>7. /\ prog.st = "init" /\ nic[k].pipe = Regs!nrf_pipe_mk(Regs!Addr(k), 32, ack_p) /\ ~nic[k].up
      /\ Unrefused(c) \/ Excuse
      /\ i \in 1 .. last /\ Written1(radio[k], c, ack_p, at) /\ Written2(radio[k], c, Regs!Addr(k), at)
  <2>1. prog.st = "init"
    BY DEF Regs!Access
  <2> QED BY <1>1, <1>2, <1>3, <1>4, <2>1 DEF RegsInv, RegsProgress, Configured
<1>8. radio \in [Regs!Chips -> SoundChip] /\ nic \in [Regs!Chips -> ANic] /\ radio[k] \in SoundChip /\ c \in AConf
  <2>1. radio \in [Regs!Chips -> SoundChip] /\ nic \in [Regs!Chips -> ANic]
    BY DEF RegsInv, RegsTypes
  <2> QED BY <1>4, <2>1 DEF ANic
<1>9. Len(Regs!nrf_init(c, nic[k].pipe)) = last /\ PlaceIs(s, at, ack_p, c, Regs!Addr(k))
  <2>1. /\ Len(Regs!nrf_init(c, nic[k].pipe)) = last
        /\ \A j \in 1 .. last : PlaceIs(Regs!nrf_init(c, nic[k].pipe)[j], PlaceOf(j, ack_p), ack_p, c, Regs!Addr(k))
    BY Zenon, <1>7, AtItsPlace
  <2> HIDE DEF last
  <2> QED BY Zenon, <1>5, <1>7, <2>1
<1>10. at \in 1 .. 29 /\ (at = 29 <=> i = last)
  BY <1>7 DEF PlaceOf
<1>11. StepGoal(chip, s, c, ack_p, Regs!Addr(k), at)
  <2>1. Regs!Addr(k) \in AnAddr
    BY AddrIsAddr
  <2>2. FifoSize # 0
    BY DEF Regs!RegsAssumption
  <2>3. Written1(radio[k], c, ack_p, at) /\ Written2(radio[k], c, Regs!Addr(k), at)
    BY <1>7
  <2> HIDE DEF at
  <2> QED BY Zenon, <1>6, <1>8, <1>9, <1>10, <2>1, <2>2, <2>3, StepOfInit
<1>12. radio' = [radio EXCEPT ![k] = chip]
  BY <1>1, <1>3, <1>4, <1>5, <1>6, Zenon DEF Regs!Access
<1>13. radio' \in [Regs!Chips -> SoundChip] /\ radio'[k] = chip /\ \A j \in Regs!Chips : j # k => radio'[j] = radio[j]
  BY <1>8, <1>11, <1>12 DEF StepGoal
<1>14. \A j \in Regs!Chips : nic[j].up => j # k
  BY <1>7
<1> HIDE DEF at, last
<1>15. \/ /\ Regs!Passes(chip, s) /\ prog.pc < last
          /\ prog' = [prog EXCEPT !.pc = @ + 1] /\ UNCHANGED nic
       \/ /\ Regs!Passes(chip, s) /\ prog.pc = last
          /\ prog' = [prog EXCEPT !.st = "dump"] /\ nic' = [nic EXCEPT ![k].up = TRUE]
       \/ /\ ~Regs!Passes(chip, s)
          /\ prog' = [prog EXCEPT !.st = "panic"] /\ UNCHANGED nic
  BY <1>1, <1>3, <1>4, <1>5, <1>6, <1>9, Zenon DEF Regs!Access
<1>16. CASE /\ ~Regs!Passes(chip, s)
            /\ prog' = [prog EXCEPT !.st = "panic"] /\ UNCHANGED nic
  <2>1. Excuse
    BY <1>7, <1>11, <1>16 DEF StepGoal
  <2> QED BY <1>7, <1>13, <1>14, <1>16, <2>1, RegsPanic
<1>17. CASE /\ Regs!Passes(chip, s) /\ prog.pc < last
            /\ prog' = [prog EXCEPT !.pc = @ + 1] /\ UNCHANGED nic
  <2>1. /\ prog'.st = "init" /\ prog'.pc = i + 1 /\ prog'.asked = prog.asked /\ prog'.ack_p = prog.ack_p
        /\ prog'.chip = prog.chip
        /\ prog' \in [st : {"off", "start", "init", "dump", "idle", "stopped", "panic"}, runs : Nat, chip : Regs!Chips,
                      pc : Nat, ack_p : BOOLEAN, asked : SUBSET (Changes \cup Redos)]
    BY <1>3, <1>7, <1>17, ProgParts
  <2>2. i < last /\ at < 29
    BY <1>3, <1>10, <1>17 DEF last
  <2>3. Written1(chip, c, ack_p, at + 1) /\ Written2(chip, c, Regs!Addr(k), at + 1)
    BY <1>11, <1>17, <2>2 DEF StepGoal
  <2>4. Written1(chip, c, ack_p, PlaceOf(i + 1, ack_p)) /\ Written2(chip, c, Regs!Addr(k), PlaceOf(i + 1, ack_p))
    <3>1. i \in 1 .. 28 /\ (ack_p \/ i < 25)
      BY <1>7, <2>2 DEF last
    <3> QED BY <2>3, <3>1, WrittenOn DEF at
  <2>5. RegsTypes'
    BY <1>8, <1>13, <1>17, <2>1 DEF RegsTypes
  <2>6. RegsProgress'
    <3>1. (prog'.chip = 1 => nic'[0].up) /\ prog'.asked \subseteq Changes
      BY <1>7, <1>17, <2>1 DEF RegsInv, RegsProgress
    <3>2. Configured(k)' /\ ~nic'[k].up
      BY <1>2, <1>4, <1>7, <1>17, <2>1 DEF Configured, Excuse
    <3>3. prog'.pc \in 1 .. last
      BY <1>7, <2>1, <2>2 DEF last
    <3>4. /\ Written1(radio'[k], nic'[k].c, prog'.ack_p, PlaceOf(prog'.pc, prog'.ack_p))
          /\ Written2(radio'[k], nic'[k].c, Regs!Addr(k), PlaceOf(prog'.pc, prog'.ack_p))
      BY <1>2, <1>4, <1>13, <1>17, <2>1, <2>4
    <3> QED BY <1>1, <1>2, <2>1, <3>1, <3>2, <3>3, <3>4 DEF RegsProgress, last
  <2>7. UpAreReady'
    BY <1>7, <1>13, <1>14, <1>17, <2>1 DEF RegsInv, UpAreReady, Configured, Excuse
  <2> QED BY <2>5, <2>6, <2>7 DEF RegsInv
<1>18. CASE /\ Regs!Passes(chip, s) /\ prog.pc = last
            /\ prog' = [prog EXCEPT !.st = "dump"] /\ nic' = [nic EXCEPT ![k].up = TRUE]
  <2>1. /\ prog'.st = "dump" /\ prog'.asked = prog.asked /\ prog'.ack_p = prog.ack_p /\ prog'.chip = prog.chip
        /\ prog' \in [st : {"off", "start", "init", "dump", "idle", "stopped", "panic"}, runs : Nat, chip : Regs!Chips,
                      pc : Nat, ack_p : BOOLEAN, asked : SUBSET (Changes \cup Redos)]
    BY <1>18, ProgParts
  <2>2. at = 29
    BY <1>3, <1>10, <1>18
  <2>3. IsReady(chip, c, ack_p, Regs!Addr(k)) /\ c.addr_nbytes = 3
    BY <1>11, <2>2 DEF StepGoal
  <2>4. /\ nic' \in [Regs!Chips -> ANic] /\ nic'[k].up /\ nic'[k].c = c /\ nic'[k].pipe = nic[k].pipe
        /\ \A j \in Regs!Chips : j # k => nic'[j] = nic[j]
    <3> DEFINE new == [nic[k] EXCEPT !.up = TRUE]
    <3>1. nic' = [nic EXCEPT ![k] = new]
      BY <1>18
    <3>2. new \in ANic /\ new.up = TRUE /\ new.c = c /\ new.pipe = nic[k].pipe
      BY <1>4, <1>8 DEF ANic
    <3> HIDE DEF new
    <3> QED BY <1>8, <3>1, <3>2
  <2>5. RegsTypes'
    BY <1>13, <2>1, <2>4 DEF RegsTypes
  <2>6. RegsProgress'
    <3>1. (prog.chip = 1 => nic[0].up) /\ prog.asked \subseteq Changes
      BY <1>7 DEF RegsInv, RegsProgress
    <3> QED BY <1>1, <2>1, <2>4, <3>1, ChipsAre DEF RegsProgress
  <2>7. UpAreReady'
    <3> SUFFICES ASSUME NEW j \in Regs!Chips, nic'[j].up
                 PROVE  /\ Configured(j)' /\ nic'[j].c.addr_nbytes = 3
                        /\ IsReady(radio'[j], nic'[j].c, prog'.ack_p, Regs!Addr(j))
      BY DEF UpAreReady
    <3>1. CASE j = k
      <4>1. Configured(k)'
        BY <1>2, <1>7, <2>1, <2>4 DEF Configured, Excuse
      <4> QED BY <1>2, <1>13, <2>1, <2>3, <2>4, <3>1, <4>1
    <3>2. CASE j # k
      <4>1. Configured(j) /\ nic[j].c.addr_nbytes = 3 /\ IsReady(radio[j], nic[j].c, prog.ack_p, Regs!Addr(j))
        BY <1>7, <2>4, <3>2 DEF RegsInv, UpAreReady
      <4> QED BY <1>13, <2>1, <2>4, <3>2, <4>1 DEF Configured, Excuse
    <3> QED BY <3>1, <3>2
  <2> QED BY <2>5, <2>6, <2>7 DEF RegsInv
<1> QED BY <1>15, <1>16, <1>17, <1>18

LEMMA RegsDump ==
  ASSUME Regs!RegsAssumption, RegsInv, Regs!Dump
  PROVE  RegsInv'
<1>1. PICK k \in Regs!Chips : k = prog.chip
  BY ProgParts
<1>2. prog.st = "dump" /\ UNCHANGED radio /\ UNCHANGED nic
  BY DEF Regs!Dump
<1>3. nic[k].up /\ radio[k] \in SoundChip /\ nic[k].c \in AConf
  BY <1>1, <1>2 DEF RegsInv, RegsProgress, RegsTypes, ANic
<1>4. Configured(k) /\ IsReady(radio[k], nic[k].c, prog.ack_p, Regs!Addr(k))
  BY <1>2, <1>3 DEF RegsInv, UpAreReady
<1>5. Regs!nrf_dump(radio[k]) \/ Excuse
  <2>1. radio[k].regs["SETUP_AW"] = {0} /\ radio[k].regs["FEATURE"] = {} /\ radio[k].regs["DYNPD"] = {}
    BY <1>3, <1>4 DEF IsReady, SoundChip
  <2>2. 5 \in radio[k].regs["RF_SETUP"] => Excuse
    <3>1. 5 \in radio[k].regs["RF_SETUP"] => nic[k].c.dr = 32
      BY <1>3, <1>4, ConfParts DEF IsReady
    <3> QED BY <1>4, <3>1 DEF Configured, Unrefused
  <2> QED BY <2>1, <2>2 DEF Regs!nrf_dump, Regs!nrf_get8, Regs!nrf_bit_isset
<1>6. CASE ~Regs!nrf_dump(radio[k]) /\ prog' = [prog EXCEPT !.st = "panic"]
  <2>1. radio' \in [Regs!Chips -> SoundChip] /\ \A j \in Regs!Chips : nic[j].up => radio'[j] = radio[j]
    BY <1>2 DEF RegsInv, RegsTypes
  <2> QED BY <1>2, <1>5, <1>6, <2>1, RegsPanic
<1>7. CASE \/ k = 0 /\ prog' = [prog EXCEPT !.st = "start", !.chip = 1]
           \/ k = 1 /\ prog' = [prog EXCEPT !.st = "idle"]
  <2>1. /\ prog'.asked = prog.asked /\ prog'.ack_p = prog.ack_p /\ prog'.st \in {"start", "idle"}
        /\ k = 0 => prog'.st = "start" /\ prog'.chip = 1
        /\ k = 1 => prog'.st = "idle" /\ prog'.chip = prog.chip
    <3>1. CASE k = 0 /\ prog' = [prog EXCEPT !.st = "start", !.chip = 1]
      BY <3>1, ProgParts
    <3>2. CASE k = 1 /\ prog' = [prog EXCEPT !.st = "idle"]
      BY <3>2, ProgParts
    <3> QED BY <1>7, <3>1, <3>2
  <2>2. prog' \in [st : {"off", "start", "init", "dump", "idle", "stopped", "panic"}, runs : Nat, chip : Regs!Chips,
                   pc : Nat, ack_p : BOOLEAN, asked : SUBSET (Changes \cup Redos)]
    BY <1>7, ProgParts, ChipsAre
  <2>3. RegsTypes'
    BY <1>2, <2>2 DEF RegsInv, RegsTypes
  <2>4. k = 1 => nic[0].up
    BY <1>1, <1>2 DEF RegsInv, RegsProgress
  <2>5. prog.asked \subseteq Changes
    BY <1>2 DEF RegsInv, RegsProgress
  <2>6. RegsProgress'
    BY <1>1, <1>2, <1>3, <2>1, <2>4, <2>5, ChipsAre DEF RegsProgress
  <2>7. UpAreReady'
    BY <1>2, <2>1 DEF RegsInv, UpAreReady, Configured, Excuse
  <2> QED BY <2>3, <2>6, <2>7 DEF RegsInv
<1> QED BY <1>1, <1>6, <1>7 DEF Regs!Dump

\* The chips change, and the program does not.
LEMMA RegsStray ==
  ASSUME Regs!RegsAssumption, RegsInv, NEW k \in Regs!Chips, Regs!Stray(k)
  PROVE  RegsInv'
<1>1. UNCHANGED nic /\ UNCHANGED prog /\ Regs!Listens(radio[k])
  BY DEF Regs!Stray
<1>2. radio \in [Regs!Chips -> SoundChip] /\ radio[k] \in SoundChip
  BY DEF RegsInv, RegsTypes
<1> DEFINE rx2 == Append(radio[k].rx, "new")
           intr2 == radio[k].intr \cup {6}
           chip == [radio[k] EXCEPT !.rx = rx2, !.intr = intr2]
<1>3. radio' = [radio EXCEPT ![k] = chip]
  BY DEF Regs!Stray
<1>4. rx2 \in Seq({"old", "new"}) /\ Len(rx2) = Len(radio[k].rx) + 1 /\ rx2[Len(rx2)] = "new"
      /\ \A i \in 1 .. Len(radio[k].rx) : rx2[i] = radio[k].rx[i]
  <2>1. radio[k].rx \in Seq({"old", "new"})
    BY <1>2, ChipParts DEF SoundChip
  <2> DEFINE r == radio[k].rx
  <2> HIDE DEF r
  <2>2. r \in Seq({"old", "new"})
    BY <2>1 DEF r
  <2>3. Append(r, "new") \in Seq({"old", "new"}) /\ Len(Append(r, "new")) = Len(r) + 1 /\ Append(r, "new")[Len(r) + 1] = "new"
        /\ \A i \in 1 .. Len(r) : Append(r, "new")[i] = r[i]
    BY <2>2, AppendProperties
  <2> QED BY <2>3 DEF r
<1>5. intr2 \in AByte
  BY <1>2, ChipParts DEF SoundChip, AByte
<1> HIDE DEF rx2, intr2
<1>6. chip \in SoundChip /\ chip.regs = radio[k].regs /\ chip.rxaddr = radio[k].rxaddr /\ chip.intr = intr2
      /\ chip.rx = rx2 /\ chip.tx = radio[k].tx /\ chip.ce = radio[k].ce
  BY <1>2, <1>4, <1>5 DEF SoundChip, AChip
<1> HIDE DEF chip
<1>7. radio' \in [Regs!Chips -> SoundChip] /\ radio'[k] = chip /\ \A j \in Regs!Chips : j # k => radio'[j] = radio[j]
  BY <1>2, <1>3, <1>6
<1>8. RegsTypes'
  BY <1>1, <1>7 DEF RegsInv, RegsTypes
\* Until its last step nrf_init keeps the chip from listening.
<1>9. ASSUME prog.st = "init", prog.chip = k, NEW at, at = PlaceOf(prog.pc, prog.ack_p),
             Written1(radio[k], nic[k].c, prog.ack_p, at), Written2(radio[k], nic[k].c, Regs!Addr(k), at)
      PROVE  Written1(chip, nic[k].c, prog.ack_p, at) /\ Written2(chip, nic[k].c, Regs!Addr(k), at)
  <2>1. radio[k].ce = 1
    BY <1>1 DEF Regs!Listens
  <2>2. at = 1
    <3>1. prog.pc \in 1 .. 29
      BY <1>9 DEF RegsInv, RegsProgress
    <3>2. at \in 1 .. 33
      BY <1>9, <3>1 DEF PlaceOf
    <3> QED BY <1>9, <2>1, <3>2 DEF Written1
  <2> QED BY <2>2 DEF Written1, Written2
<1>10. RegsProgress'
  <2>1. ASSUME prog.st = "init"
        PROVE  /\ Written1(radio'[prog.chip], nic[prog.chip].c, prog.ack_p, PlaceOf(prog.pc, prog.ack_p))
               /\ Written2(radio'[prog.chip], nic[prog.chip].c, Regs!Addr(prog.chip), PlaceOf(prog.pc, prog.ack_p))
    <3>1. /\ Written1(radio[prog.chip], nic[prog.chip].c, prog.ack_p, PlaceOf(prog.pc, prog.ack_p))
          /\ Written2(radio[prog.chip], nic[prog.chip].c, Regs!Addr(prog.chip), PlaceOf(prog.pc, prog.ack_p))
      BY <2>1 DEF RegsInv, RegsProgress
    <3>2. CASE prog.chip = k
      BY <1>7, <1>9, <2>1, <3>1, <3>2
    <3>3. CASE prog.chip # k
      BY <1>7, <3>1, <3>3, ProgParts
    <3> QED BY <3>2, <3>3
  <2> QED BY <1>1, <2>1 DEF RegsInv, RegsProgress, Configured, Excuse
<1>11. UpAreReady'
  <2> SUFFICES ASSUME NEW j \in Regs!Chips, nic[j].up
               PROVE  /\ Configured(j)' /\ nic[j].c.addr_nbytes = 3
                      /\ prog.st # "stopped" => IsReady(radio'[j], nic[j].c, prog.ack_p, Regs!Addr(j))
    BY <1>1 DEF UpAreReady
  <2>1. Configured(j) /\ nic[j].c.addr_nbytes = 3 /\ (prog.st # "stopped" => IsReady(radio[j], nic[j].c, prog.ack_p, Regs!Addr(j)))
    BY DEF RegsInv, UpAreReady
  <2>2. Configured(j)'
    BY <1>1, <2>1 DEF Configured, Excuse
  <2>3. CASE j # k
    BY <1>7, <2>1, <2>2, <2>3
  <2>4. CASE j = k
    <3>1. ASSUME IsReady(radio[k], nic[k].c, prog.ack_p, Regs!Addr(k))
          PROVE  IsReady(chip, nic[k].c, prog.ack_p, Regs!Addr(k))
      <4>1. intr2 \subseteq {6}
        BY <3>1 DEF IsReady, intr2
      <4>2. \A i \in 1 .. Len(rx2) : rx2[i] = "new"
        <5>1. \A i \in 1 .. Len(radio[k].rx) : radio[k].rx[i] = "new"
          BY <3>1 DEF IsReady
        <5>2. Len(radio[k].rx) \in Nat
          BY <1>2, ChipParts DEF SoundChip
        <5> QED BY <1>4, <5>1, <5>2
      <4> QED BY <1>6, <3>1, <4>1, <4>2 DEF IsReady
    <3> QED BY <1>7, <2>1, <2>2, <2>4, <3>1
  <2> QED BY <2>3, <2>4
<1> QED BY <1>8, <1>10, <1>11 DEF RegsInv

LEMMA RegsSendCutShort ==
  ASSUME Regs!RegsAssumption, RegsInv, NEW k \in Regs!Chips, Regs!SendCutShort(k)
  PROVE  RegsInv'
<1>1. PICK left \in {<<{}, 1>>, <<{5}, 0>>, <<{4}, 1>>} :
        radio' = [radio EXCEPT ![k].regs["CONFIG"] = @ \ {0}, ![k].ce = 0,
                               ![k].intr = @ \cup left[1], ![k].tx = left[2]]
  BY DEF Regs!SendCutShort
<1>2. prog.st = "idle" /\ prog' = [prog EXCEPT !.st = "stopped"] /\ UNCHANGED nic
  BY DEF Regs!SendCutShort
<1>3. left[1] \in AByte /\ left[2] \in Nat
  BY DEF AByte
<1>4. radio \in [Regs!Chips -> SoundChip] /\ radio[k] \in SoundChip
  BY DEF RegsInv, RegsTypes
<1> DEFINE old == radio[k]
           config == old.regs["CONFIG"] \ {0}
           intr2 == old.intr \cup left[1]
           tx2 == left[2]
           regs2 == [old.regs EXCEPT !["CONFIG"] = config]
           chip == [old EXCEPT !.regs = regs2, !.ce = 0, !.intr = intr2, !.tx = tx2]
<1>5. radio' = [radio EXCEPT ![k] = chip]
  BY <1>1, <1>4
<1>6. chip \in SoundChip
  <2>1. old \in SoundChip /\ old \in AChip
    BY <1>4 DEF SoundChip
  <2> HIDE DEF old
  <2>2. old.regs \in [Regs!ByteRegs -> AByte] /\ old.intr \in AByte /\ "CONFIG" \in Regs!ByteRegs
    BY <2>1, ChipParts DEF Regs!ByteRegs
  <2>3. config \in AByte /\ intr2 \in AByte /\ tx2 \in Nat
    BY <1>3, <2>2 DEF AByte
  <2> HIDE DEF config, intr2, tx2
  <2>4. regs2 \in [Regs!ByteRegs -> AByte] /\ regs2["DYNPD"] = old.regs["DYNPD"] /\ regs2["FEATURE"] = old.regs["FEATURE"]
    BY <2>2, <2>3 DEF Regs!ByteRegs
  <2> HIDE DEF regs2
  <2> QED BY <2>1, <2>3, <2>4 DEF SoundChip, AChip
<1> HIDE DEF chip
<1>7. radio' \in [Regs!Chips -> SoundChip]
  BY <1>4, <1>5, <1>6
<1>8. /\ prog'.st = "stopped" /\ prog'.asked = prog.asked /\ prog'.ack_p = prog.ack_p
      /\ prog' \in [st : {"off", "start", "init", "dump", "idle", "stopped", "panic"}, runs : Nat, chip : Regs!Chips,
                    pc : Nat, ack_p : BOOLEAN, asked : SUBSET (Changes \cup Redos)]
  BY <1>2, ProgParts
<1>9. RegsTypes'
  BY <1>2, <1>7, <1>8 DEF RegsInv, RegsTypes
<1>10. RegsProgress'
  BY <1>8 DEF RegsProgress
<1>11. UpAreReady'
  BY <1>2, <1>8 DEF RegsInv, UpAreReady, Configured, Excuse
<1> QED BY <1>9, <1>10, <1>11 DEF RegsInv

LEMMA RegsRedo ==
  ASSUME Regs!RegsAssumption, RegsInv, Regs!Redo
  PROVE  RegsInv'
<1>1. prog.st = "idle" /\ nic[0].up
  BY DEF Regs!Redo, RegsInv, RegsProgress
<1>2. PICK k \in Regs!Chips : k = 0
  BY ChipsAre
<1> DEFINE c == nic[k].c
<1>3. PICK s \in Redos :
        LET d == Regs!Set(c, s)
            fine == /\ Regs!nrf_is_standbyI(radio[k]) /\ Regs!Legal(s) /\ Regs!Bits(d.dr) \cap Regs!Bits(d.db) = {}
                    /\ s.setter = "db" => {s.value, c.db} \subseteq 0 .. 3
        IN \/ /\ fine /\ prog' = [prog EXCEPT !.asked = @ \cup {s}]
              /\ nic' = [nic EXCEPT ![k].c = d]
              /\ radio' = [radio EXCEPT ![k] = Regs!nrf_put8(@, "RF_SETUP", Regs!Bits(d.dr) \cup Regs!Bits(d.db))]
           \/ /\ ~fine /\ prog' = [prog EXCEPT !.st = "panic", !.asked = @ \cup {s}]
              /\ UNCHANGED <<radio, nic>>
  BY <1>2, Zenon DEF Regs!Redo
<1> DEFINE d == Regs!Set(c, s)
           fine == /\ Regs!nrf_is_standbyI(radio[k]) /\ Regs!Legal(s) /\ Regs!Bits(d.dr) \cap Regs!Bits(d.db) = {}
                   /\ s.setter = "db" => {s.value, c.db} \subseteq 0 .. 3
<1>4. s.setter \in {"dr", "db"} /\ s.setter \in Regs!Setters /\ s.value \in Nat
  BY DEF Regs!RegsAssumption, Regs!Setters
<1>5. c \in AConf /\ radio \in [Regs!Chips -> SoundChip] /\ nic \in [Regs!Chips -> ANic] /\ radio[k] \in SoundChip
  <2>1. radio \in [Regs!Chips -> SoundChip] /\ nic \in [Regs!Chips -> ANic]
    BY DEF RegsInv, RegsTypes
  <2> QED BY <2>1 DEF ANic
<1>6. Configured(k) /\ c.addr_nbytes = 3 /\ IsReady(radio[k], c, prog.ack_p, Regs!Addr(k))
  BY <1>1, <1>2 DEF RegsInv, UpAreReady
<1>7. prog'.asked = prog.asked \cup {s} /\ prog'.ack_p = prog.ack_p /\ prog'.chip = prog.chip
      /\ prog' \in [st : {"off", "start", "init", "dump", "idle", "stopped", "panic"}, runs : Nat, chip : Regs!Chips,
                    pc : Nat, ack_p : BOOLEAN, asked : SUBSET (Changes \cup Redos)]
  <2>1. CASE prog' = [prog EXCEPT !.asked = @ \cup {s}]
    BY <2>1, ProgParts
  <2>2. CASE prog' = [prog EXCEPT !.st = "panic", !.asked = @ \cup {s}]
    BY <2>2, ProgParts
  <2> QED BY <1>3, <2>1, <2>2
<1>8. Excuse => Excuse'
  BY <1>7 DEF Excuse
<1>9. Regs!Refused(s) => Excuse'
  BY <1>7 DEF Excuse
<1>10. Regs!Legal(s) => /\ d \in AConf /\ (Unrefused(c) /\ ~Unrefused(d) => Regs!Refused(s))
                        /\ d.addr_nbytes = 3 /\ Regs!rx_config(d) = Regs!rx_config(c) /\ Retr(d) = Retr(c)
                        /\ d.Mhz_delta = c.Mhz_delta
  BY <1>4, <1>5, <1>6, SetFx
<1>11. CASE ~fine /\ prog' = [prog EXCEPT !.st = "panic", !.asked = @ \cup {s}] /\ UNCHANGED <<radio, nic>>
  <2>1. prog'.st = "panic"
    BY <1>11, ProgParts
  <2>2. Excuse'
    <3>1. CASE ~Regs!Legal(s)
      BY <1>9, <3>1 DEF Regs!Refused
    <3>2. CASE Regs!Legal(s)
      <4>1. Regs!Bits(d.dr) \cap Regs!Bits(d.db) = {}
        BY <1>10, <3>2, ConfParts
      <4>2. Regs!nrf_is_standbyI(radio[k])
        BY <1>6 DEF IsReady, Regs!nrf_is_standbyI, Regs!nrf_bit_isset, Regs!nrf_get8, Regs!rx_config
      <4>3. s.setter = "db" /\ ~({s.value, c.db} \subseteq 0 .. 3)
        BY <1>11, <3>2, <4>1, <4>2
      <4>4. c.db \in 0 .. 6
        BY <1>5 DEF AConf
      <4>5. CASE s.value > 3
        BY <1>9, <4>3, <4>5 DEF Regs!Refused
      <4>6. CASE ~(s.value > 3)
        <5>1. c.db > 3
          BY <1>4, <4>3, <4>4, <4>6
        <5>2. Excuse
          BY <1>6, <4>4, <5>1 DEF Configured, Unrefused
        <5> QED BY <1>8, <5>2
      <4> QED BY <4>5, <4>6
    <3> QED BY <3>1, <3>2
  <2>3. RegsTypes'
    BY <1>5, <1>7, <1>11 DEF RegsTypes
  <2>4. RegsProgress'
    BY <2>1, <2>2 DEF RegsProgress
  <2>5. UpAreReady'
    BY <1>1, <1>7, <1>8, <1>11 DEF RegsInv, UpAreReady, Configured
  <2> QED BY <2>3, <2>4, <2>5 DEF RegsInv
<1>12. CASE /\ fine /\ prog' = [prog EXCEPT !.asked = @ \cup {s}]
            /\ nic' = [nic EXCEPT ![k].c = d]
            /\ radio' = [radio EXCEPT ![k] = Regs!nrf_put8(@, "RF_SETUP", Regs!Bits(d.dr) \cup Regs!Bits(d.db))]
  <2>1. prog'.st = "idle"
    BY <1>1, <1>12, ProgParts
  <2> DEFINE v == Regs!Bits(d.dr) \cup Regs!Bits(d.db)
             chip == Regs!nrf_put8(radio[k], "RF_SETUP", v)
             new == [nic[k] EXCEPT !.c = d]
  <2>2. v \in AByte /\ d \in AConf
    BY <1>10, <1>12, ConfParts
  <2>3. radio' = [radio EXCEPT ![k] = chip] /\ nic' = [nic EXCEPT ![k] = new]
    BY <1>12
  <2> HIDE DEF c, d
  <2>4. new \in ANic /\ new.up = nic[k].up /\ new.c = d /\ new.pipe = nic[k].pipe
    BY <1>5, <2>2 DEF ANic
  <2> HIDE DEF v, new
  <2>5. chip \in SoundChip /\ chip.regs["RF_SETUP"] = v /\ OnlyReg(chip, radio[k], "RF_SETUP")
    <3>1. "RF_SETUP" \in Regs!ByteRegs
      BY DEF Regs!ByteRegs
    <3>2. chip \in SoundChip /\ chip.regs["RF_SETUP"] = v \cap Regs!Writable["RF_SETUP"] /\ OnlyReg(chip, radio[k], "RF_SETUP")
      BY <1>5, <2>2, <3>1, PutFx
    <3> QED BY <2>2, <3>2, WritableBits DEF AByte
  <2> HIDE DEF chip
  <2>6. /\ radio' \in [Regs!Chips -> SoundChip] /\ radio'[k] = chip /\ nic' \in [Regs!Chips -> ANic] /\ nic'[k] = new
        /\ \A j \in Regs!Chips : j # k => radio'[j] = radio[j] /\ nic'[j] = nic[j]
    BY <1>5, <2>3, <2>4, <2>5
  <2>7. RegsTypes'
    BY <1>7, <2>6 DEF RegsTypes
  <2>8. RegsProgress'
    <3>1. nic[1].up
      BY <1>1 DEF RegsInv, RegsProgress
    <3> QED BY <1>1, <1>2, <2>1, <2>4, <2>6, <3>1, ChipsAre DEF RegsProgress
  <2>9. Unrefused(d) \/ Excuse'
    <3>1. Unrefused(c) \/ Excuse'
      BY <1>6, <1>8 DEF Configured, c
    <3> QED BY <1>9, <1>10, <1>12, <3>1
  <2>10. IsReady(chip, d, prog'.ack_p, Regs!Addr(k))
    <3>1. d.addr_nbytes = 3 /\ Regs!rx_config(d) = Regs!rx_config(c) /\ Retr(d) = Retr(c) /\ d.Mhz_delta = c.Mhz_delta
      BY <1>10, <1>12
    <3> QED BY <1>6, <1>7, <2>5, <3>1 DEF IsReady, OnlyReg, Regs!ByteRegs, v
  <2>11. UpAreReady'
    <3> SUFFICES ASSUME NEW j \in Regs!Chips, nic'[j].up
                 PROVE  /\ Configured(j)' /\ nic'[j].c.addr_nbytes = 3
                        /\ IsReady(radio'[j], nic'[j].c, prog'.ack_p, Regs!Addr(j))
      BY DEF UpAreReady
    <3>1. CASE j = k
      <4>1. Configured(k)'
        BY <1>6, <1>7, <2>4, <2>6, <2>9 DEF Configured
      <4>2. d.addr_nbytes = 3
        BY <1>10, <1>12
      <4> QED BY <2>4, <2>6, <2>10, <3>1, <4>1, <4>2
    <3>2. CASE j # k
      <4>1. Configured(j) /\ nic[j].c.addr_nbytes = 3 /\ IsReady(radio[j], nic[j].c, prog.ack_p, Regs!Addr(j))
        BY <1>1, <2>6, <3>2 DEF RegsInv, UpAreReady
      <4> QED BY <1>7, <1>8, <2>6, <3>2, <4>1 DEF Configured
    <3> QED BY <3>1, <3>2
  <2> QED BY <2>7, <2>8, <2>11 DEF RegsInv
<1> QED BY <1>3, <1>11, <1>12

LEMMA RegsNext ==
  ASSUME Regs!RegsAssumption, RegsInv, [Regs!Next]_(Regs!nrfvars)
  PROVE  RegsInv'
<1>1. CASE UNCHANGED Regs!nrfvars
  <2>1. UNCHANGED radio /\ UNCHANGED nic /\ UNCHANGED prog
    BY <1>1 DEF Regs!nrfvars
  <2> QED BY <2>1 DEF RegsInv, RegsTypes, RegsProgress, UpAreReady, Configured, Excuse
<1>2. CASE Regs!Next
  <2>1. CASE Regs!Restart
    BY <2>1, RegsRestart
  <2>2. CASE Regs!Configure
    BY <2>2, RegsConfigure
  <2>3. CASE Regs!Access
    BY <2>3, RegsAccess
  <2>4. CASE Regs!Dump
    BY <2>4, RegsDump
  <2>5. CASE Regs!Redo
    BY <2>5, RegsRedo
  <2>6. CASE \E k \in Regs!Chips : Regs!Stray(k) \/ Regs!SendCutShort(k)
    BY <2>6, RegsStray, RegsSendCutShort
  <2> QED BY <1>2, <2>1, <2>2, <2>3, <2>4, <2>5, <2>6 DEF Regs!Next
<1> QED BY <1>1, <1>2

LEMMA RegsReady ==
  ASSUME RegsInv
  PROVE  ReadyMeansConfigured
<1>1. ASSUME NEW k \in Regs!Chips, nic[k].up, prog.st # "stopped"
      PROVE  LET c == nic[k].c
                 pipe == nic[k].pipe
                 reg == radio[k].regs
             IN /\ Regs!nrf_pipe_active(pipe) /\ Regs!Listens(radio[k]) /\ reg["CONFIG"] = Regs!rx_config(c)
                /\ reg["EN_AA"] = IF Regs!nrf_pipe_acked(pipe) THEN {0, 1} ELSE {}
                /\ Regs!nrf_pipe_acked(pipe) => reg["SETUP_RETR"] = Retr(c)
                /\ reg["SETUP_AW"] = {0} /\ Regs!nrf_get_addr(radio[k]) = pipe.rxaddr /\ pipe.rxaddr = Regs!Addr(k)
                /\ reg["RF_CH"] = Regs!Bits(c.Mhz_delta) /\ reg["RX_PW_P1"] = Regs!Bits(pipe.msg_nbytes)
                /\ reg["RF_SETUP"] = Regs!Bits(c.dr) \cup Regs!Bits(c.db)
                /\ \A i \in DOMAIN radio[k].rx : radio[k].rx[i] = "new"
                /\ radio[k].tx = 0 /\ radio[k].intr \subseteq {6}
  <2>1. Configured(k) /\ IsReady(radio[k], nic[k].c, prog.ack_p, Regs!Addr(k))
    BY <1>1 DEF RegsInv, UpAreReady
  <2>2. nic[k].pipe.rxaddr = Regs!Addr(k) /\ nic[k].pipe.msg_nbytes = 32 /\ nic[k].pipe.is_retran_p = prog.ack_p
    BY <2>1 DEF Configured, Regs!nrf_pipe_mk
  <2>3. Regs!nrf_pipe_active(nic[k].pipe)
    BY <2>2, AddrIsAddr DEF Regs!nrf_pipe_active
  <2>4. Regs!nrf_pipe_acked(nic[k].pipe) <=> prog.ack_p
    BY <2>2, <2>3 DEF Regs!nrf_pipe_acked
  <2>5. Regs!Listens(radio[k])
    <3>1. {0, 1} \subseteq Regs!rx_config(nic[k].c)
      BY DEF Regs!rx_config
    <3> QED BY <2>1, <3>1 DEF IsReady, Regs!Listens
  <2>6. Regs!nrf_get_addr(radio[k]) = nic[k].pipe.rxaddr
    BY <2>1, <2>2 DEF IsReady, Regs!nrf_get_addr
  <2>7. radio[k].regs["RX_PW_P1"] = Regs!Bits(nic[k].pipe.msg_nbytes)
    BY <2>1, <2>2, BitsOf32 DEF IsReady
  <2>8. \A i \in DOMAIN radio[k].rx : radio[k].rx[i] = "new"
    <3>1. radio[k].rx \in Seq({"old", "new"})
      BY ChipParts DEF RegsInv, RegsTypes, SoundChip
    <3>2. DOMAIN radio[k].rx = 1 .. Len(radio[k].rx)
      BY <3>1
    <3> QED BY <2>1, <3>2 DEF IsReady
  <2> QED BY <2>1, <2>2, <2>3, <2>4, <2>5, <2>6, <2>7, <2>8 DEF IsReady
<1>2. prog.st = "panic" => \E s \in prog.asked : Regs!Refused(s)
  BY DEF RegsInv, RegsProgress, Excuse
<1> QED BY <1>1, <1>2, Zenon DEF ReadyMeansConfigured, Regs!ReadyMeansConfigured, Retr

\* Whatever an earlier run left in the chips, and wherever it was cut short, a
\* radio that nrf_init returned holds its configuration, and a run panics only
\* over a setting that is refused.
THEOREM ReadyRadiosAreConfigured ==
  ASSUME Regs!RegsAssumption
  PROVE  Regs!Spec => []ReadyMeansConfigured
<1>1. Regs!Init => RegsInv
  BY RegsInit
<1>2. RegsInv /\ [Regs!Next]_(Regs!nrfvars) => RegsInv'
  BY RegsNext
<1>3. RegsInv => ReadyMeansConfigured
  BY RegsReady
<1> QED BY <1>1, <1>2, <1>3, PTL DEF Regs!Spec
-----------------------------------------------------------------------------
(* The shell of the ESP8266.  What the shell has read and what is on its   *)
(* way to it are one stream; Hears lists how far a reader of the rest of   *)
(* the stream comes, character by character: from what the shell has, to   *)
(* what the chip has said.  Neither end needs to know how a stream is      *)
(* divided into lines, so that there is no induction over it.              *)

Letter == STRING \cup {"cr", "nl", "busy"}
Text == Seq(Letter)
Heap == [lines : Seq(Text), line : Text]

\* What a reader with the lines a has after the character c.
Heard(a, c) ==
  CASE c = "cr" -> a
    [] c = "nl" -> [lines |-> Shell!With(a.lines, a.line), line |-> <<>>]
    [] OTHER -> [a EXCEPT !.line = Append(@, c)]

Pref(s, t) == Len(s) <= Len(t) /\ \A k \in 1 .. Len(s) : t[k] = s[k]

\* h says what a reader has after each character of s, from a to b.
Hears(h, s, a, b) ==
  /\ h \in [0 .. Len(s) -> Heap] /\ h[0] = a /\ h[Len(s)] = b
  /\ \A i \in 1 .. Len(s) : h[i] = Heard(h[i - 1], s[i])
  /\ \A i, j \in 0 .. Len(s) : i <= j => Pref(h[i].lines, h[j].lines)

\* One character more, and one less.
More(h, s, c) == [i \in 0 .. Len(s) + 1 |-> IF i <= Len(s) THEN h[i] ELSE Heard(h[Len(s)], c)]
Less(h, s) == [i \in 0 .. Len(s) - 1 |-> h[i + 1]]

LEMMA WithText ==
  ASSUME NEW ls \in Seq(Text), NEW l \in Text
  PROVE  Shell!With(ls, l) \in Seq(Text) /\ Pref(ls, Shell!With(ls, l))
<1> DEFINE T == Text
<1>1. ls \in Seq(T) /\ l \in T
  OBVIOUS
<1> HIDE DEF T
<1>2. CASE l = <<>>
  BY <1>1, <1>2 DEF Shell!With, Pref, T
<1>3. CASE l # <<>>
  <2>1. Append(ls, l) \in Seq(T) /\ Len(Append(ls, l)) = Len(ls) + 1 /\ Len(ls) \in Nat
    BY <1>1
  <2>2. \A k \in 1 .. Len(ls) : Append(ls, l)[k] = ls[k]
    BY <1>1
  <2>3. Shell!With(ls, l) = Append(ls, l)
    BY <1>3 DEF Shell!With
  <2> QED BY <2>1, <2>2, <2>3 DEF Pref, T
<1> QED BY <1>2, <1>3

LEMMA HeardText ==
  ASSUME NEW a \in Heap, NEW c \in Letter
  PROVE  Heard(a, c) \in Heap /\ Pref(a.lines, Heard(a, c).lines)
<1> DEFINE T == Text
<1>1. a.lines \in Seq(T) /\ a.line \in T
  BY DEF Heap
<1>2. Pref(a.lines, a.lines)
  BY <1>1 DEF Pref
<1>3. CASE c = "cr"
  BY <1>2, <1>3 DEF Heard
<1>4. CASE c = "nl"
  <2>1. Shell!With(a.lines, a.line) \in Seq(T) /\ Pref(a.lines, Shell!With(a.lines, a.line))
    BY <1>1, WithText
  <2>2. Heard(a, c) = [lines |-> Shell!With(a.lines, a.line), line |-> <<>>]
    BY <1>4 DEF Heard
  <2>3. <<>> \in T
    BY DEF Text
  <2> QED BY <2>1, <2>2, <2>3 DEF Heap
<1>5. CASE c # "cr" /\ c # "nl"
  <2>1. Heard(a, c) = [a EXCEPT !.line = Append(@, c)]
    BY <1>5 DEF Heard
  <2>2. Append(a.line, c) \in T
    BY <1>1 DEF Text
  <2>3. Heard(a, c) \in Heap
    BY <1>1, <2>1, <2>2 DEF Heap
  <2>4. Heard(a, c).lines = a.lines
    BY <2>1 DEF Heap
  <2> QED BY <1>2, <2>3, <2>4
<1> QED BY <1>3, <1>4, <1>5

LEMMA PrefTransitive ==
  ASSUME NEW r \in Seq(Text), NEW s \in Seq(Text), NEW t \in Seq(Text), Pref(r, s), Pref(s, t)
  PROVE  Pref(r, t)
<1> DEFINE T == Text
<1>1. r \in Seq(T) /\ s \in Seq(T) /\ t \in Seq(T)
  OBVIOUS
<1> HIDE DEF T
<1>2. Len(r) \in Nat /\ Len(s) \in Nat /\ Len(t) \in Nat
  BY <1>1
<1> QED BY <1>2 DEF Pref

LEMMA TextGrows ==
  ASSUME NEW s \in Text, NEW c \in Letter
  PROVE  /\ Len(s) \in Nat /\ Append(s, c) \in Text /\ Len(Append(s, c)) = Len(s) + 1
         /\ Append(s, c)[Len(s) + 1] = c /\ \A i \in 1 .. Len(s) : Append(s, c)[i] = s[i]
BY AppendProperties DEF Text

LEMMA HearsMore ==
  ASSUME NEW s \in Text, NEW c \in Letter, NEW h, NEW a, NEW b, Hears(h, s, a, b)
  PROVE  Hears(More(h, s, c), Append(s, c), a, Heard(b, c))
<1> DEFINE len == Len(s)
           g == More(h, s, c)
           t == Append(s, c)
<1>1. len \in Nat /\ Len(t) = len + 1 /\ t[len + 1] = c /\ \A i \in 1 .. len : t[i] = s[i]
  BY TextGrows
<1>2. h \in [0 .. len -> Heap] /\ h[0] = a /\ h[len] = b
  BY DEF Hears
<1>3. \A i \in 1 .. len : h[i] = Heard(h[i - 1], s[i])
  BY DEF Hears
<1>4. \A i, j \in 0 .. len : i <= j => Pref(h[i].lines, h[j].lines)
  BY DEF Hears
<1>5. g = [i \in 0 .. len + 1 |-> IF i <= len THEN h[i] ELSE Heard(h[len], c)]
  BY DEF More
<1>6. b \in Heap /\ Heard(b, c) \in Heap /\ Pref(b.lines, Heard(b, c).lines)
  BY <1>1, <1>2, HeardText
<1> HIDE DEF len, g, t
<1>7. g \in [0 .. len + 1 -> Heap] /\ (\A i \in 0 .. len : g[i] = h[i]) /\ g[len + 1] = Heard(b, c)
  BY <1>1, <1>2, <1>5, <1>6
<1>8. \A i \in 1 .. len + 1 : g[i] = Heard(g[i - 1], t[i])
  <2> TAKE i \in 1 .. len + 1
  <2>1. CASE i <= len
    BY <1>1, <1>3, <1>7, <2>1
  <2>2. CASE i = len + 1
    <3>1. g[i - 1] = b
      BY <1>1, <1>2, <1>7, <2>2
    <3> QED BY <1>1, <1>7, <2>2, <3>1
  <2> QED BY <1>1, <2>1, <2>2
<1>9. \A i, j \in 0 .. len + 1 : i <= j => Pref(g[i].lines, g[j].lines)
  <2> TAKE i \in 0 .. len + 1, j \in 0 .. len + 1
  <2> HAVE i <= j
  <2>1. CASE j <= len
    BY <1>1, <1>4, <1>7, <2>1
  <2>2. CASE i <= len /\ j = len + 1
    <3>1. Pref(h[i].lines, b.lines) /\ h[i] \in Heap
      BY <1>1, <1>2, <1>4, <2>2
    <3>2. h[i].lines \in Seq(Text) /\ b.lines \in Seq(Text) /\ Heard(b, c).lines \in Seq(Text)
      BY <3>1, <1>6 DEF Heap
    <3>3. Pref(h[i].lines, Heard(b, c).lines)
      BY <1>6, <3>1, <3>2, PrefTransitive
    <3> QED BY <3>3, <1>1, <1>7, <2>2
  <2>3. CASE i = len + 1 /\ j = len + 1
    <3>1. Heard(b, c).lines \in Seq(Text)
      BY <1>6 DEF Heap
    <3>2. Pref(Heard(b, c).lines, Heard(b, c).lines)
      BY <3>1 DEF Pref
    <3> QED BY <3>2, <1>7, <2>3
  <2> QED BY <1>1, <2>1, <2>2, <2>3
<1> QED BY <1>1, <1>2, <1>7, <1>8, <1>9 DEF Hears, g, t

LEMMA HearsLess ==
  ASSUME NEW s \in Text, s # <<>>, NEW h, NEW a, NEW b, Hears(h, s, a, b)
  PROVE  Hears(Less(h, s), Tail(s), Heard(a, Head(s)), b)
<1> DEFINE len == Len(s)
           g == Less(h, s)
           t == Tail(s)
<1>1. len \in Nat \ {0} /\ Len(t) = len - 1 /\ (\A i \in 1 .. len - 1 : t[i] = s[i + 1]) /\ Head(s) = s[1]
  BY DEF Text
<1>2. h \in [0 .. len -> Heap] /\ h[0] = a /\ h[len] = b
  BY DEF Hears
<1>3. \A i \in 1 .. len : h[i] = Heard(h[i - 1], s[i])
  BY DEF Hears
<1>4. \A i, j \in 0 .. len : i <= j => Pref(h[i].lines, h[j].lines)
  BY DEF Hears
<1>5. g = [i \in 0 .. len - 1 |-> h[i + 1]]
  BY DEF Less
<1> HIDE DEF len, g, t
<1>6. \A i \in 0 .. len - 1 : g[i] = h[i + 1]
  BY <1>5
<1>7. g \in [0 .. len - 1 -> Heap] /\ g[len - 1] = b
  BY <1>1, <1>2, <1>5
<1>8. g[0] = Heard(a, Head(s))
  <2>1. h[1] = Heard(h[0], s[1])
    BY <1>1, <1>3
  <2> QED BY <2>1, <1>1, <1>2, <1>6
<1>9. \A i \in 1 .. len - 1 : g[i] = Heard(g[i - 1], t[i])
  <2> TAKE i \in 1 .. len - 1
  <2>1. h[i + 1] = Heard(h[i], s[i + 1])
    BY <1>1, <1>3
  <2>2. g[i] = h[i + 1] /\ g[i - 1] = h[i]
    BY <1>1, <1>6
  <2> QED BY <1>1, <2>1, <2>2
<1>10. \A i, j \in 0 .. len - 1 : i <= j => Pref(g[i].lines, g[j].lines)
  BY <1>1, <1>4, <1>6
<1> QED BY <1>1, <1>7, <1>8, <1>9, <1>10 DEF Hears, g, t

(* What ends an answer.                                                    *)

\* With --ack, before a command: nothing is to come that ends an answer.
Settled(h, s, out, f) ==
  ~f /\ ~Shell!Done(s) /\ ~Shell!Done(out) /\ \A j \in 0 .. Len(s) : ~Shell!Done(h[j].line)

\* And after it: behind what ends the answer comes nothing that ends one, and
\* once it is said, the chip is not answering.
Waiting(h, s, out, f) ==
  /\ Shell!OneMark(out)
  /\ \A j, k \in 1 .. Len(out) : Shell!Done(h[Len(s)].line) /\ j < k /\ out[j] = "nl" => out[k] \notin Shell!Mark
  /\ \A j \in 1 .. Len(s) : s[j] = "nl" /\ Shell!Done(h[j - 1].line) =>
       /\ ~f /\ ~Shell!Done(out)
       /\ \A k \in 1 .. Len(s) : j < k => s[k] \notin Shell!Mark
       /\ \A k \in 0 .. Len(s) : j <= k => ~Shell!Done(h[k].line)

LEMMA HeardDone ==
  ASSUME NEW a \in Heap, NEW c \in Letter
  PROVE  /\ c = "nl" => ~Shell!Done(Heard(a, c).line) /\ c \notin Shell!Mark
         /\ Shell!Done(Heard(a, c).line) => Shell!Done(a.line) \/ c \in Shell!Mark
<1> DEFINE T == Text
<1>1. a.lines \in Seq(T) /\ a.line \in T
  BY DEF Heap
<1>2. CASE c = "nl"
  <2>1. Heard(a, c) = [lines |-> Shell!With(a.lines, a.line), line |-> <<>>]
    BY <1>2 DEF Heard
  <2>2. ~Shell!Done(<<>>)
    BY DEF Shell!Done
  <2>3. c \notin Shell!Mark
    BY <1>2 DEF Shell!Mark
  <2> QED BY <2>1, <2>2, <2>3
<1>3. CASE c = "cr"
  BY <1>3 DEF Heard
<1>4. CASE c # "nl" /\ c # "cr"
  <2>1. Heard(a, c).line = Append(a.line, c)
    BY <1>4 DEF Heard, Heap
  <2>2. /\ Len(a.line) \in Nat /\ Len(Append(a.line, c)) = Len(a.line) + 1
        /\ Append(a.line, c)[Len(a.line) + 1] = c
        /\ \A i \in 1 .. Len(a.line) : Append(a.line, c)[i] = a.line[i]
    BY <1>1, TextGrows
  <2> DEFINE t == Append(a.line, c)
             M == Shell!Mark
  <2> HIDE DEF t, M
  <2>3. (\E i \in 1 .. Len(t) : t[i] \in M) => (\E i \in 1 .. Len(a.line) : a.line[i] \in M) \/ c \in M
    <3> SUFFICES ASSUME NEW i \in 1 .. Len(t), t[i] \in M
                 PROVE  (\E k \in 1 .. Len(a.line) : a.line[k] \in M) \/ c \in M
      OBVIOUS
    <3>1. CASE i = Len(a.line) + 1
      BY <2>2, <3>1 DEF t
    <3>2. CASE i <= Len(a.line)
      BY <2>2, <3>2 DEF t
    <3> QED BY <2>2, <3>1, <3>2 DEF t
  <2> QED BY <1>4, <2>1, <2>3, Zenon DEF t, M, Shell!Done
<1> QED BY <1>2, <1>3, <1>4

LEMMA TextShrinks ==
  ASSUME NEW s \in Text, s # <<>>
  PROVE  /\ Len(s) \in Nat \ {0} /\ Tail(s) \in Text /\ Len(Tail(s)) = Len(s) - 1
         /\ Head(s) \in Letter /\ s[1] = Head(s) /\ \A i \in 1 .. Len(s) - 1 : Tail(s)[i] = s[i + 1]
BY DEF Text

LEMMA SettledSend ==
  ASSUME NEW s \in Text, NEW out \in Text, out # <<>>, NEW h, NEW a, NEW b, Hears(h, s, a, b),
         NEW f, Settled(h, s, out, f)
  PROVE  LET c == Head(out)
         IN Settled(More(h, s, c), Append(s, c), Tail(out), FALSE)
<1> DEFINE len == Len(s)
           c == Head(out)
           g == More(h, s, c)
           t == Append(s, c)
           r == Tail(out)
           M == Shell!Mark
<1>1. /\ len \in Nat /\ Len(t) = len + 1 /\ t[len + 1] = c /\ (\A i \in 1 .. len : t[i] = s[i])
      /\ Len(out) \in Nat \ {0} /\ Len(r) = Len(out) - 1 /\ c \in Letter /\ out[1] = c
      /\ \A i \in 1 .. Len(out) - 1 : r[i] = out[i + 1]
  BY TextShrinks, TextGrows
<1>2. h \in [0 .. len -> Heap] /\ h[len] = b /\ b \in Heap
  BY <1>1 DEF Hears
<1>3. g = [i \in 0 .. len + 1 |-> IF i <= len THEN h[i] ELSE Heard(b, c)]
  BY <1>2 DEF More
<1>4. (\A i \in 1 .. len : s[i] \notin M) /\ (\A i \in 1 .. Len(out) : out[i] \notin M)
  BY DEF Settled, Shell!Done
<1>5. \A j \in 0 .. len : ~Shell!Done(h[j].line)
  BY DEF Settled
<1>6. Shell!Done(Heard(b, c).line) => Shell!Done(b.line) \/ c \in M
  BY <1>1, <1>2, HeardDone
<1> HIDE DEF len, c, g, t, r, M
<1>7. (\A i \in 1 .. Len(t) : t[i] \notin M) /\ (\A i \in 1 .. Len(r) : r[i] \notin M)
  BY <1>1, <1>4
<1>8. ~Shell!Done(Heard(b, c).line)
  BY <1>1, <1>2, <1>4, <1>5, <1>6
<1>9. \A j \in 0 .. len + 1 : ~Shell!Done(g[j].line)
  BY <1>1, <1>3, <1>5, <1>8
<1>10. ~Shell!Done(t) /\ ~Shell!Done(r)
  BY <1>7 DEF Shell!Done, M
<1> QED BY <1>1, <1>9, <1>10 DEF Settled, len, c, g, t, r

LEMMA SettledRead ==
  ASSUME NEW s \in Text, s # <<>>, NEW out \in Text, NEW h, NEW f, Settled(h, s, out, f)
  PROVE  Settled(Less(h, s), Tail(s), out, f)
<1> DEFINE len == Len(s)
           g == Less(h, s)
           t == Tail(s)
           M == Shell!Mark
<1>1. len \in Nat \ {0} /\ Len(t) = len - 1 /\ \A i \in 1 .. len - 1 : t[i] = s[i + 1]
  BY TextShrinks
<1>2. g = [i \in 0 .. len - 1 |-> h[i + 1]]
  BY DEF Less
<1>3. \A i \in 1 .. len : s[i] \notin M
  BY DEF Settled, Shell!Done
<1>4. \A j \in 0 .. len : ~Shell!Done(h[j].line)
  BY DEF Settled
<1> HIDE DEF len, g, t, M
<1>5. \A i \in 1 .. Len(t) : t[i] \notin M
  BY <1>1, <1>3
<1>6. \A j \in 0 .. len - 1 : ~Shell!Done(g[j].line)
  BY <1>1, <1>2, <1>4
<1>7. ~Shell!Done(t)
  BY <1>5 DEF Shell!Done, M
<1> QED BY <1>1, <1>6, <1>7 DEF Settled, len, g, t

LEMMA WaitingSend ==
  ASSUME NEW s \in Text, NEW out \in Text, out # <<>>, NEW h, NEW a, NEW b, Hears(h, s, a, b),
         NEW f \in BOOLEAN, Waiting(h, s, out, f)
  PROVE  LET c == Head(out)
         IN Waiting(More(h, s, c), Append(s, c), Tail(out), f /\ ~(c = "nl" /\ Shell!Done(b.line)))
<1> DEFINE len == Len(s)
           c == Head(out)
           g == More(h, s, c)
           t == Append(s, c)
           r == Tail(out)
           M == Shell!Mark
           D(l) == Shell!Done(l)
           e == f /\ ~(c = "nl" /\ D(b.line))
           e2 == Heard(b, c)
<1>1. /\ len \in Nat /\ Len(t) = len + 1 /\ t[len + 1] = c /\ (\A i \in 1 .. len : t[i] = s[i])
      /\ Len(out) \in Nat \ {0} /\ Len(r) = Len(out) - 1 /\ c \in Letter /\ out[1] = c
      /\ \A i \in 1 .. Len(out) - 1 : r[i] = out[i + 1]
  BY TextShrinks, TextGrows
<1>2. h \in [0 .. len -> Heap] /\ h[len] = b /\ b \in Heap
  BY <1>1 DEF Hears
<1>3. g = [i \in 0 .. len + 1 |-> IF i <= len THEN h[i] ELSE e2]
  BY <1>2 DEF More
<1>4. \A i, j, k \in 1 .. Len(out) : i < j /\ j < k /\ out[i] \in M /\ out[j] = "nl" => out[k] \notin M
  BY DEF Waiting, Shell!OneMark
<1>5. \A j, k \in 1 .. Len(out) : D(b.line) /\ j < k /\ out[j] = "nl" => out[k] \notin M
  BY <1>2 DEF Waiting
<1>6. \A j \in 1 .. len : s[j] = "nl" /\ D(h[j - 1].line) =>
        /\ ~f /\ (\A i \in 1 .. Len(out) : out[i] \notin M)
        /\ \A k \in 1 .. len : j < k => s[k] \notin M
        /\ \A k \in 0 .. len : j <= k => ~D(h[k].line)
  BY DEF Waiting, Shell!Done
<1>7. /\ c = "nl" => ~D(e2.line) /\ c \notin M
      /\ D(e2.line) => D(b.line) \/ c \in M
  BY <1>1, <1>2, HeardDone
<1>8. e \in BOOLEAN /\ (e => f) /\ (c = "nl" /\ D(b.line) => ~e)
  OBVIOUS
<1> HIDE DEF len, c, g, t, r, M, D, e, e2
<1>9. (\A i \in 0 .. len : g[i] = h[i]) /\ g[len + 1] = e2
  BY <1>1, <1>3
<1>10. \A i, j, k \in 1 .. Len(r) : i < j /\ j < k /\ r[i] \in M /\ r[j] = "nl" => r[k] \notin M
  <2> SUFFICES ASSUME NEW i \in 1 .. Len(r), NEW j \in 1 .. Len(r), NEW k \in 1 .. Len(r),
                      i < j, j < k, r[i] \in M, r[j] = "nl"
               PROVE  r[k] \notin M
    OBVIOUS
  <2>1. i + 1 \in 1 .. Len(out) /\ j + 1 \in 1 .. Len(out) /\ k + 1 \in 1 .. Len(out)
    BY <1>1
  <2>2. out[i + 1] \in M /\ out[j + 1] = "nl" /\ r[k] = out[k + 1]
    BY <1>1
  <2> QED BY <1>4, <2>1, <2>2
<1>11. \A j, k \in 1 .. Len(r) : D(g[len + 1].line) /\ j < k /\ r[j] = "nl" => r[k] \notin M
  <2> SUFFICES ASSUME NEW j \in 1 .. Len(r), NEW k \in 1 .. Len(r), D(e2.line), j < k, r[j] = "nl"
               PROVE  r[k] \notin M
    BY <1>9
  <2>1. 1 \in 1 .. Len(out) /\ j + 1 \in 1 .. Len(out) /\ k + 1 \in 1 .. Len(out)
    BY <1>1
  <2>2. out[j + 1] = "nl" /\ r[k] = out[k + 1] /\ j + 1 < k + 1 /\ 1 < j + 1
    BY <1>1
  <2>3. CASE D(b.line)
    BY <1>5, <2>1, <2>2, <2>3
  <2>4. CASE c \in M
    BY <1>1, <1>4, <2>1, <2>2, <2>4
  <2> QED BY <1>7, <2>3, <2>4
<1>12. ASSUME NEW j \in 1 .. len + 1, t[j] = "nl", D(g[j - 1].line)
       PROVE  /\ ~e /\ (\A i \in 1 .. Len(r) : r[i] \notin M)
              /\ \A k \in 1 .. len + 1 : j < k => t[k] \notin M
              /\ \A k \in 0 .. len + 1 : j <= k => ~D(g[k].line)
  <2>1. CASE j = len + 1
    <3>1. c = "nl" /\ D(b.line)
      BY <1>1, <1>2, <1>9, <1>12, <2>1
    <3>2. \A i \in 1 .. Len(r) : r[i] \notin M
      <4> TAKE i \in 1 .. Len(r)
      <4>1. 1 \in 1 .. Len(out) /\ i + 1 \in 1 .. Len(out) /\ 1 < i + 1 /\ r[i] = out[i + 1]
        BY <1>1
      <4> QED BY <1>1, <1>5, <3>1, <4>1
    <3>3. ~D(g[len + 1].line)
      BY <1>7, <1>9, <3>1
    <3>4. (\A k \in 1 .. len + 1 : ~(j < k)) /\ (\A k \in 0 .. len + 1 : j <= k => k = len + 1)
      BY <1>1, <2>1
    <3> QED BY <1>8, <3>1, <3>2, <3>3, <3>4
  <2>2. CASE j <= len
    <3>1. j \in 1 .. len /\ s[j] = "nl" /\ D(h[j - 1].line)
      BY <1>1, <1>9, <1>12, <2>2
    <3>2. /\ ~f /\ (\A i \in 1 .. Len(out) : out[i] \notin M)
          /\ \A k \in 1 .. len : j < k => s[k] \notin M
          /\ \A k \in 0 .. len : j <= k => ~D(h[k].line)
      BY <1>6, <3>1
    <3>3. c \notin M /\ ~D(b.line) /\ ~D(e2.line)
      BY <1>1, <1>2, <1>7, <2>2, <3>2
    <3>4. \A i \in 1 .. Len(r) : r[i] \notin M
      BY <1>1, <3>2
    <3>5. \A k \in 1 .. len + 1 : j < k => t[k] \notin M
      BY <1>1, <3>2, <3>3
    <3>6. \A k \in 0 .. len + 1 : j <= k => ~D(g[k].line)
      BY <1>1, <1>9, <3>2, <3>3
    <3> QED BY <1>8, <3>2, <3>4, <3>5, <3>6
  <2> QED BY <1>1, <2>1, <2>2
<1>13. Shell!OneMark(r)
  BY <1>10 DEF Shell!OneMark, M
<1>14. \A j \in 1 .. len + 1 : t[j] = "nl" /\ D(g[j - 1].line) =>
         /\ ~e /\ ~Shell!Done(r)
         /\ \A k \in 1 .. len + 1 : j < k => t[k] \notin M
         /\ \A k \in 0 .. len + 1 : j <= k => ~D(g[k].line)
  BY <1>12 DEF Shell!Done, M
<1>15. Waiting(g, t, r, e)
  BY <1>1, <1>11, <1>13, <1>14 DEF Waiting, D, M
<1> QED BY <1>15 DEF len, c, g, t, r, e, D

LEMMA WaitingRead ==
  ASSUME NEW s \in Text, s # <<>>, NEW out \in Text, NEW h, NEW f, Waiting(h, s, out, f)
  PROVE  /\ Waiting(Less(h, s), Tail(s), out, f)
         /\ Head(s) = "nl" /\ Shell!Done(h[0].line) => Settled(Less(h, s), Tail(s), out, f)
<1> DEFINE len == Len(s)
           g == Less(h, s)
           t == Tail(s)
           M == Shell!Mark
           D(l) == Shell!Done(l)
           P == ~f /\ ~Shell!Done(out)
<1>1. len \in Nat \ {0} /\ Len(t) = len - 1 /\ (\A i \in 1 .. len - 1 : t[i] = s[i + 1]) /\ s[1] = Head(s)
  BY TextShrinks
<1>2. g = [i \in 0 .. len - 1 |-> h[i + 1]]
  BY DEF Less
<1>3. \A j, k \in 1 .. Len(out) : D(h[len].line) /\ j < k /\ out[j] = "nl" => out[k] \notin M
  BY DEF Waiting
<1>4. \A j \in 1 .. len : s[j] = "nl" /\ D(h[j - 1].line) =>
        /\ P
        /\ \A k \in 1 .. len : j < k => s[k] \notin M
        /\ \A k \in 0 .. len : j <= k => ~D(h[k].line)
  BY DEF Waiting
<1> HIDE DEF len, g, t, M, D, P
<1>5. \A i \in 0 .. len - 1 : g[i] = h[i + 1]
  BY <1>2
<1>6. g[len - 1] = h[len]
  BY <1>1, <1>5
<1>7. ASSUME NEW j \in 1 .. len - 1, t[j] = "nl", D(g[j - 1].line)
      PROVE  /\ P
             /\ \A k \in 1 .. len - 1 : j < k => t[k] \notin M
             /\ \A k \in 0 .. len - 1 : j <= k => ~D(g[k].line)
  <2>1. j + 1 \in 1 .. len /\ s[j + 1] = "nl" /\ D(h[(j + 1) - 1].line)
    BY <1>1, <1>5, <1>7
  <2>2. /\ P
        /\ \A k \in 1 .. len : j + 1 < k => s[k] \notin M
        /\ \A k \in 0 .. len : j + 1 <= k => ~D(h[k].line)
    BY <1>4, <2>1
  <2>3. \A k \in 1 .. len - 1 : j < k => t[k] \notin M
    BY <1>1, <2>2
  <2>4. \A k \in 0 .. len - 1 : j <= k => ~D(g[k].line)
    BY <1>1, <1>5, <2>2
  <2> QED BY <2>2, <2>3, <2>4
<1>8. Waiting(g, t, out, f)
  <2>1. Len(t) = len - 1
    BY <1>1
  <2>2. \A j, k \in 1 .. Len(out) : D(g[Len(t)].line) /\ j < k /\ out[j] = "nl" => out[k] \notin M
    BY <1>3, <1>6, <2>1
  <2>3. Shell!OneMark(out)
    BY DEF Waiting
  <2>4. \A j \in 1 .. Len(t) : t[j] = "nl" /\ D(g[j - 1].line) =>
          /\ P
          /\ \A k \in 1 .. Len(t) : j < k => t[k] \notin M
          /\ \A k \in 0 .. Len(t) : j <= k => ~D(g[k].line)
    BY <1>7, <2>1
  <2> QED BY <2>2, <2>3, <2>4 DEF Waiting, D, M, P
<1>9. ASSUME Head(s) = "nl", D(h[0].line)
      PROVE  Settled(g, t, out, f)
  <2>1. /\ P
        /\ \A k \in 1 .. len : 1 < k => s[k] \notin M
        /\ \A k \in 0 .. len : 1 <= k => ~D(h[k].line)
    BY <1>1, <1>4, <1>9
  <2>2. \A k \in 1 .. Len(t) : t[k] \notin M
    BY <1>1, <2>1
  <2>3. \A k \in 0 .. Len(t) : ~D(g[k].line)
    BY <1>1, <1>5, <2>1
  <2>4. ~Shell!Done(t)
    BY <2>2 DEF Shell!Done, M
  <2> QED BY <2>1, <2>3, <2>4 DEF Settled, D, P
<1> QED BY <1>8, <1>9 DEF g, t, D

LEMMA TextsJoin ==
  ASSUME NEW s \in Text, NEW t \in Text
  PROVE  /\ s \o t \in Text /\ Len(s) \in Nat /\ Len(t) \in Nat /\ Len(s \o t) = Len(s) + Len(t)
         /\ \A i \in 1 .. Len(s) : (s \o t)[i] = s[i]
         /\ \A i \in 1 .. Len(t) : (s \o t)[Len(s) + i] = t[i]
BY DEF Text

LEMMA MarkBehind ==
  ASSUME NEW s \in Text, NEW t \in Text, ~Shell!Done(s), Shell!OneMark(t)
  PROVE  Shell!OneMark(s \o t)
<1> DEFINE len == Len(s)
           u == s \o t
           M == Shell!Mark
<1>1. /\ len \in Nat /\ Len(t) \in Nat /\ Len(u) = len + Len(t) /\ (\A i \in 1 .. len : u[i] = s[i])
      /\ \A i \in 1 .. Len(t) : u[len + i] = t[i]
  BY TextsJoin
<1>2. \A i \in 1 .. len : s[i] \notin M
  BY DEF Shell!Done
<1>3. \A i, j, k \in 1 .. Len(t) : i < j /\ j < k /\ t[i] \in M /\ t[j] = "nl" => t[k] \notin M
  BY DEF Shell!OneMark
<1> HIDE DEF len, u, M
<1>4. ASSUME NEW i \in 1 .. Len(u), NEW j \in 1 .. Len(u), NEW k \in 1 .. Len(u),
             i < j, j < k, u[i] \in M, u[j] = "nl"
      PROVE  u[k] \notin M
  <2>1. ~(i <= len)
    BY <1>1, <1>2, <1>4
  <2>2. i - len \in 1 .. Len(t) /\ j - len \in 1 .. Len(t) /\ k - len \in 1 .. Len(t)
    BY <1>1, <1>4, <2>1
  <2>3. u[len + (i - len)] = t[i - len] /\ u[len + (j - len)] = t[j - len] /\ u[len + (k - len)] = t[k - len]
    BY <1>1, <2>2
  <2>4. len + (i - len) = i /\ len + (j - len) = j /\ len + (k - len) = k /\ i - len < j - len /\ j - len < k - len
    BY <1>1, <1>4
  <2>5. t[i - len] \in M /\ t[j - len] = "nl" /\ u[k] = t[k - len]
    BY <1>4, <2>3, <2>4
  <2> QED BY <1>3, <2>2, <2>4, <2>5
<1>5. \A i, j, k \in 1 .. Len(u) : i < j /\ j < k /\ u[i] \in M /\ u[j] = "nl" => u[k] \notin M
  BY <1>4
<1> QED BY <1>5 DEF Shell!OneMark, u, M

LEMMA CommandAwaited ==
  ASSUME NEW s \in Text, NEW out \in Text, NEW x \in Text, NEW h, NEW f, Settled(h, s, out, f), Shell!OneMark(x)
  PROVE  Waiting(h, s, out \o x, TRUE)
<1>1. Shell!OneMark(out \o x)
  BY MarkBehind DEF Settled
<1>2. Len(s) \in Nat /\ \A j \in 0 .. Len(s) : ~Shell!Done(h[j].line)
  BY TextsJoin DEF Settled
<1>3. ~Shell!Done(h[Len(s)].line) /\ \A j \in 1 .. Len(s) : ~Shell!Done(h[j - 1].line)
  BY <1>2
<1> QED BY <1>1, <1>3, Zenon DEF Waiting

LEMMA EventAwaited ==
  ASSUME NEW s \in Text, NEW x \in Text, NEW h, NEW f, ~Shell!Done(x)
  PROVE  /\ Settled(h, s, <<>>, f) => Settled(h, s, x, f)
         /\ Waiting(h, s, <<>>, f) => Waiting(h, s, x, f)
<1>1. \A i \in 1 .. Len(x) : x[i] \notin Shell!Mark
  BY DEF Shell!Done
<1>2. Shell!OneMark(x)
  BY <1>1 DEF Shell!OneMark
<1> QED BY <1>1, <1>2, Zenon DEF Settled, Waiting

(* How lines end.                                                          *)
NlFirst(s) == Len(s) > 0 /\ s[1] = "nl"

LEMMA EndedJoin ==
  ASSUME NEW s \in Text, NEW t \in Text, Shell!Ended(s), Shell!Ended(t)
  PROVE  Shell!Ended(s \o t)
<1> DEFINE len == Len(s)
           u == s \o t
<1>1. /\ len \in Nat /\ Len(t) \in Nat /\ Len(u) = len + Len(t) /\ (\A i \in 1 .. len : u[i] = s[i])
      /\ \A i \in 1 .. Len(t) : u[len + i] = t[i]
  BY TextsJoin
<1>2. /\ \A i \in 1 .. len : s[i] = "cr" => i < len /\ s[i + 1] = "nl"
      /\ \A i \in 1 .. Len(t) : t[i] = "cr" => i < Len(t) /\ t[i + 1] = "nl"
  BY DEF Shell!Ended
<1> HIDE DEF len, u
<1>3. ASSUME NEW i \in 1 .. Len(u), u[i] = "cr"
      PROVE  i < Len(u) /\ u[i + 1] = "nl"
  <2>1. CASE i <= len
    <3>1. i \in 1 .. len /\ i < len /\ s[i + 1] = "nl"
      BY <1>1, <1>2, <1>3, <2>1
    <3> QED BY <1>1, <3>1
  <2>2. CASE i > len
    <3>1. i - len \in 1 .. Len(t) /\ len + (i - len) = i
      BY <1>1, <2>2
    <3>2. t[i - len] = "cr"
      BY <1>1, <1>3, <3>1
    <3>3. i - len < Len(t) /\ t[(i - len) + 1] = "nl" /\ (i - len) + 1 \in 1 .. Len(t)
      BY <1>1, <1>2, <3>1, <3>2
    <3>4. u[len + ((i - len) + 1)] = "nl" /\ len + ((i - len) + 1) = i + 1
      BY <1>1, <3>3
    <3> QED BY <1>1, <3>3, <3>4
  <2> QED BY <1>1, <2>1, <2>2
<1> QED BY <1>3, Zenon DEF Shell!Ended, u

LEMMA EndedRest ==
  ASSUME NEW s \in Text, s # <<>>, Shell!Ended(s)
  PROVE  Shell!Ended(Tail(s)) /\ (Head(s) = "cr" => NlFirst(Tail(s)))
<1> DEFINE len == Len(s)
           t == Tail(s)
<1>1. len \in Nat \ {0} /\ Len(t) = len - 1 /\ (\A i \in 1 .. len - 1 : t[i] = s[i + 1]) /\ s[1] = Head(s)
  BY TextShrinks
<1>2. \A i \in 1 .. len : s[i] = "cr" => i < len /\ s[i + 1] = "nl"
  BY DEF Shell!Ended
<1> HIDE DEF len, t
<1>3. ASSUME NEW i \in 1 .. Len(t), t[i] = "cr"
      PROVE  i < Len(t) /\ t[i + 1] = "nl"
  <2>1. i + 1 \in 1 .. len /\ s[i + 1] = "cr"
    BY <1>1, <1>3
  <2>2. i + 1 < len /\ s[(i + 1) + 1] = "nl"
    BY <1>2, <2>1
  <2>3. i + 1 \in 1 .. len - 1
    BY <1>1, <2>2
  <2> QED BY <1>1, <2>2, <2>3
<1>4. s[1] = "cr" => Len(t) > 0 /\ t[1] = "nl"
  <2> HAVE s[1] = "cr"
  <2>1. 1 < len /\ s[1 + 1] = "nl"
    BY <1>1, <1>2
  <2>2. t[1] = s[1 + 1] /\ Len(t) > 0
    BY <1>1, <2>1
  <2> QED BY <2>1, <2>2
<1> QED BY <1>1, <1>3, <1>4, Zenon DEF Shell!Ended, NlFirst, t

\* The stream is the same on its way, and is read from its front.
LEMMA StreamFlows ==
  ASSUME NEW s \in Text, NEW t \in Text
  PROVE  /\ t # <<>> => Append(s, Head(t)) \o Tail(t) = s \o t
         /\ s # <<>> => Tail(s) \o t = Tail(s \o t) /\ Head(s) = Head(s \o t) /\ s \o t # <<>>
<1>1. t # <<>> => Append(s, Head(t)) \o Tail(t) = s \o t
  BY DEF Text
<1>2. s # <<>> => Tail(s) \o t = Tail(s \o t)
  BY DEF Text
<1>3. s # <<>> => Head(s) = Head(s \o t) /\ s \o t # <<>>
  BY DEF Text
<1> QED BY <1>1, <1>2, <1>3

LEMMA NlKept ==
  ASSUME NEW s \in Text, NEW t \in Text, NlFirst(s)
  PROVE  NlFirst(s \o t)
<1>1. Len(s) \in Nat /\ Len(t) \in Nat /\ Len(s \o t) = Len(s) + Len(t) /\ \A i \in 1 .. Len(s) : (s \o t)[i] = s[i]
  BY TextsJoin
<1>2. Len(s) > 0 /\ s[1] = "nl"
  BY DEF NlFirst
<1>3. (s \o t)[1] = s[1]
  BY <1>1, <1>2
<1> QED BY <1>1, <1>2, <1>3 DEF NlFirst
-----------------------------------------------------------------------------
ShellTypes ==
  /\ opt \in BOOLEAN /\ unix_fd \in Seq(Commands) /\ esp_fd \in Text
  /\ esp \in [out : Text, answering : BOOLEAN]
  /\ shell \in [at : {"command", "reply", "died"}, line : Text, begun : BOOLEAN, saw_cmd_p : BOOLEAN, early : BOOLEAN]
  /\ said \in Heap /\ shown \in Seq(Text)

\* A line is begun where one is read; a cr is followed by its nl.
Lines ==
  /\ shell.at = "command" => ~shell.begun
  /\ ~shell.begun => shell.line = <<>>
  /\ Shell!Ended(esp_fd \o esp.out)
  /\ shell.begun /\ shell.line = <<>> => NlFirst(esp_fd \o esp.out)
  /\ shell.at = "died" => shell.begun /\ esp_fd = <<>> /\ esp.out = <<>>

\* No command is under way.
NoCommand == shell.at = "command" \/ ~shell.saw_cmd_p

Acks(h) ==
  opt /\ shell.at # "died" =>
    IF NoCommand THEN Settled(h, esp_fd, esp.out, esp.answering) ELSE Waiting(h, esp_fd, esp.out, esp.answering)

Have == [lines |-> shown, line |-> shell.line]

OneStream == \E h : Hears(h, esp_fd, Have, said) /\ Acks(h)

ShellInv == ShellTypes /\ Lines /\ ~shell.early /\ OneStream

LEMMA Constants ==
  ASSUME Shell!ShellAssumption
  PROVE  /\ \A c \in Commands : c \in Text /\ Answer[c] \in Text /\ ~Shell!Done(c) /\ Shell!Ended(c)
                                /\ Shell!Ended(Answer[c]) /\ Shell!OneMark(Answer[c])
         /\ \A e \in Events : e \in Text /\ ~Shell!Done(e) /\ Shell!Ended(e)
         /\ Shell!Eol \in Text /\ Shell!Ended(Shell!Eol) /\ ~Shell!Done(Shell!Eol)
         /\ <<"busy">> \in Text /\ Shell!Ended(<<"busy">>)
         /\ <<>> \in Text /\ Shell!Ended(<<>>) /\ ~Shell!Done(<<>>)
<1>0. Seq(STRING) \subseteq Text
  <2>1. STRING \subseteq Letter
    BY DEF Letter
  <2> DEFINE C == STRING
  <2> SUFFICES ASSUME NEW x \in Seq(C)
               PROVE  x \in Seq(Letter)
    BY DEF Text
  <2> HIDE DEF C
  <2>2. C \subseteq Letter
    BY <2>1 DEF C
  <2> QED BY <2>2
<1>1. \A c \in Commands : c \in Text /\ Answer[c] \in Text
  BY <1>0 DEF Shell!ShellAssumption
<1>2. \A e \in Events : e \in Text
  BY <1>0 DEF Shell!ShellAssumption
<1>3. \A c \in Commands : ~Shell!Done(c) /\ Shell!Ended(c) /\ Shell!Ended(Answer[c]) /\ Shell!OneMark(Answer[c])
  BY DEF Shell!ShellAssumption
<1>4. \A e \in Events : ~Shell!Done(e) /\ Shell!Ended(e)
  BY DEF Shell!ShellAssumption
<1>5. Shell!Eol \in Text /\ <<"busy">> \in Text /\ <<>> \in Text
  <2>1. "cr" \in Letter /\ "nl" \in Letter /\ "busy" \in Letter
    BY DEF Letter
  <2>2. <<"cr", "nl">> \in Seq(Letter)
    BY <2>1
  <2>3. <<"busy">> \in Seq(Letter) /\ <<>> \in Seq(Letter)
    BY <2>1
  <2> QED BY <2>2, <2>3 DEF Shell!Eol, Text
<1>6. Shell!Ended(Shell!Eol)
  BY DEF Shell!Ended, Shell!Eol
<1>7. ~Shell!Done(Shell!Eol)
  BY DEF Shell!Done, Shell!Eol, Shell!Mark
<1>8. Shell!Ended(<<"busy">>)
  BY DEF Shell!Ended
<1>9. Shell!Ended(<<>>) /\ ~Shell!Done(<<>>)
  BY DEF Shell!Ended, Shell!Done
<1> QED BY <1>1, <1>2, <1>3, <1>4, <1>5, <1>6, <1>7, <1>8, <1>9

LEMMA ShellInit ==
  ASSUME Shell!ShellAssumption, Shell!Init
  PROVE  ShellInv
<1> DEFINE h == [i \in 0 .. 0 |-> [lines |-> <<>>, line |-> <<>>]]
<1>1. /\ opt \in BOOLEAN /\ unix_fd = <<>> /\ esp_fd = <<>> /\ shown = <<>>
      /\ said = [lines |-> <<>>, line |-> <<>>] /\ esp = [out |-> <<>>, answering |-> FALSE]
      /\ shell = [at |-> "command", line |-> <<>>, begun |-> FALSE, saw_cmd_p |-> FALSE, early |-> FALSE]
  BY DEF Shell!Init
<1>2. <<>> \in Text /\ Shell!Ended(<<>>) /\ ~Shell!Done(<<>>)
  BY Constants
<1>3. <<>> \in Seq(Text) /\ [lines |-> <<>>, line |-> <<>>] \in Heap
  BY <1>2 DEF Heap
<1>4. ShellTypes
  BY <1>1, <1>2, <1>3 DEF ShellTypes
<1>5. Lines
  BY <1>1, <1>2 DEF Lines
<1>6. Hears(h, <<>>, [lines |-> <<>>, line |-> <<>>], [lines |-> <<>>, line |-> <<>>])
  <2>1. Pref(<<>>, <<>>)
    BY DEF Pref
  <2>2. Len(<<>>) = 0 /\ h[0] = [lines |-> <<>>, line |-> <<>>] /\ h \in [0 .. 0 -> Heap]
    BY <1>3
  <2> QED BY <2>1, <2>2 DEF Hears
<1>7. Settled(h, <<>>, <<>>, FALSE)
  BY <1>2 DEF Settled
<1>8. OneStream
  <2>1. Have = [lines |-> <<>>, line |-> <<>>]
    BY <1>1 DEF Have
  <2>2. Acks(h)
    BY <1>1, <1>7 DEF Acks, NoCommand
  <2> QED BY <1>1, <1>6, <2>1, <2>2 DEF OneStream
<1> QED BY <1>1, <1>4, <1>5, <1>8 DEF ShellInv

\* What the shell shows.
LEMMA ShellShows ==
  ASSUME ShellInv
  PROVE  Shell!ShellSafe
<1> PICK h : Hears(h, esp_fd, Have, said)
  BY DEF ShellInv, OneStream
<1>1. said.lines \in Seq(Text) /\ shown \in Seq(Text) /\ Len(esp_fd) \in Nat /\ shell.line \in Text
  BY TextsJoin DEF ShellInv, ShellTypes, Heap
<1>2. Have.lines = shown /\ Have.line = shell.line
  BY DEF Have
<1>3. h[0] = Have /\ h[Len(esp_fd)] = said
  BY DEF Hears
<1>4. Pref(shown, said.lines)
  <2>1. 0 \in 0 .. Len(esp_fd) /\ Len(esp_fd) \in 0 .. Len(esp_fd) /\ 0 <= Len(esp_fd)
    BY <1>1
  <2>2. Pref(h[0].lines, h[Len(esp_fd)].lines)
    BY <2>1 DEF Hears
  <2> QED BY <2>2, <1>2, <1>3
<1>5. shown = SubSeq(said.lines, 1, Len(shown))
  <2> DEFINE T == Text
             ls == said.lines
  <2>1. shown \in Seq(T) /\ ls \in Seq(T) /\ Len(shown) <= Len(ls) /\ \A k \in 1 .. Len(shown) : ls[k] = shown[k]
    BY <1>1, <1>4 DEF Pref
  <2> HIDE DEF T, ls
  <2>2. SubSeq(ls, 1, Len(shown)) \in Seq(T) /\ Len(SubSeq(ls, 1, Len(shown))) = Len(shown)
    BY <2>1
  <2>3. \A k \in 1 .. Len(shown) : SubSeq(ls, 1, Len(shown))[k] = ls[k]
    BY <2>1
  <2>4. shown = SubSeq(ls, 1, Len(shown))
    BY <2>1, <2>2, <2>3, SeqEqual
  <2> QED BY <2>4 DEF ls
<1>6. esp_fd = <<>> => said = Have
  <2>1. Len(<<>>) = 0
    OBVIOUS
  <2> QED BY <1>3, <2>1
<1>7. shell.at = "died" => shell.line # <<>> /\ said.line = shell.line
  <2> HAVE shell.at = "died"
  <2>1. shell.begun /\ esp_fd = <<>> /\ esp.out = <<>>
    BY DEF ShellInv, Lines
  <2>2. ~NlFirst(esp_fd \o esp.out)
    BY <2>1 DEF NlFirst
  <2> QED BY <1>2, <1>6, <2>1, <2>2 DEF ShellInv, Lines
<1>8. ~shell.early
  BY DEF ShellInv
<1> QED BY <1>2, <1>5, <1>6, <1>7, <1>8 DEF Shell!ShellSafe, Shell!PrintsInOrder, Shell!NeverEarly, Shell!DiesMidLine
-----------------------------------------------------------------------------
LEMMA ShellIdle ==
  ASSUME ShellInv, UNCHANGED <<opt, esp_fd, esp, shell, said, shown>>, unix_fd' \in Seq(Commands)
  PROVE  ShellInv'
<1>1. ShellTypes'
  BY DEF ShellInv, ShellTypes
<1>2. Lines' /\ ~shell'.early
  BY DEF ShellInv, Lines
<1>3. OneStream'
  <2>1. PICK h : Hears(h, esp_fd, Have, said) /\ Acks(h)
    BY DEF ShellInv, OneStream
  <2>2. Have' = Have /\ Acks(h)'
    BY <2>1 DEF Have, Acks, NoCommand
  <2> QED BY <2>1, <2>2 DEF OneStream
<1> QED BY <1>1, <1>2, <1>3 DEF ShellInv

LEMMA ShellTypeStep ==
  ASSUME Shell!ShellAssumption, ShellInv, Shell!Type
  PROVE  ShellInv'
<1>1. UNCHANGED <<opt, esp_fd, esp, shell, said, shown>>
  BY DEF Shell!Type
<1>2. PICK c \in Commands : unix_fd' = Append(unix_fd, c)
  BY DEF Shell!Type
<1>3. unix_fd' \in Seq(Commands)
  BY <1>2, AppendProperties DEF ShellInv, ShellTypes
<1> QED BY <1>1, <1>3, ShellIdle

LEMMA ShellHappen ==
  ASSUME Shell!ShellAssumption, ShellInv, Shell!Happen
  PROVE  ShellInv'
<1>1. UNCHANGED <<opt, unix_fd, esp_fd, shell, said, shown>> /\ esp.out = <<>> /\ shell.at # "died"
  BY DEF Shell!Happen
<1>2. PICK e \in Events : esp' = [esp EXCEPT !.out = e]
  BY DEF Shell!Happen
<1>3. e \in Text /\ ~Shell!Done(e) /\ Shell!Ended(e)
  BY Constants
<1>4. esp \in [out : Text, answering : BOOLEAN] /\ esp_fd \in Text
  BY DEF ShellInv, ShellTypes
<1>5. esp'.out = e /\ esp'.answering = esp.answering /\ esp' \in [out : Text, answering : BOOLEAN]
  BY <1>2, <1>3, <1>4
<1>6. ShellTypes'
  BY <1>1, <1>5 DEF ShellInv, ShellTypes
<1>7. esp_fd \o esp.out = esp_fd
  BY <1>1, <1>4 DEF Text
<1>8. Lines'
  <2>1. Shell!Ended(esp_fd \o e)
    BY <1>3, <1>4, <1>7, EndedJoin DEF ShellInv, Lines
  <2>2. shell.begun /\ shell.line = <<>> => NlFirst(esp_fd \o e)
    BY <1>3, <1>4, <1>7, NlKept DEF ShellInv, Lines
  <2> QED BY <1>1, <1>5, <2>1, <2>2 DEF ShellInv, Lines
<1>9. OneStream'
  <2>1. PICK h : Hears(h, esp_fd, Have, said) /\ Acks(h)
    BY DEF ShellInv, OneStream
  <2>2. Have' = Have
    BY <1>1 DEF Have
  <2>3. Acks(h)'
    <3>1. /\ Settled(h, esp_fd, <<>>, esp.answering) => Settled(h, esp_fd, e, esp.answering)
          /\ Waiting(h, esp_fd, <<>>, esp.answering) => Waiting(h, esp_fd, e, esp.answering)
      BY <1>3, <1>4, EventAwaited
    <3> QED BY <1>1, <1>5, <2>1, <3>1 DEF Acks, NoCommand
  <2> QED BY <1>1, <2>1, <2>2, <2>3 DEF OneStream
<1> QED BY <1>1, <1>6, <1>8, <1>9 DEF ShellInv

LEMMA ShellSend ==
  ASSUME Shell!ShellAssumption, ShellInv, Shell!Send
  PROVE  ShellInv'
<1> DEFINE c == Head(esp.out)
<1>1. UNCHANGED <<opt, unix_fd, shell, shown>> /\ esp.out # <<>> /\ esp_fd' = Append(esp_fd, c)
  BY DEF Shell!Send
<1>2. esp' = [out |-> Tail(esp.out), answering |-> esp.answering /\ ~ (c = "nl" /\ Shell!Done(said.line))]
  BY DEF Shell!Send
<1>3. said' = Heard(said, c)
  BY DEF Shell!Send, Heard
<1>4. esp.out \in Text /\ esp.answering \in BOOLEAN /\ esp_fd \in Text /\ said \in Heap
  BY DEF ShellInv, ShellTypes
<1>5. c \in Letter /\ Tail(esp.out) \in Text
  BY <1>1, <1>4, TextShrinks
<1>6. esp_fd' \in Text /\ said' \in Heap
  BY <1>1, <1>3, <1>4, <1>5, TextGrows, HeardText
<1>7. ShellTypes'
  BY <1>1, <1>2, <1>5, <1>6 DEF ShellInv, ShellTypes
<1>8. Lines'
  <2>1. (esp_fd \o esp.out)' = esp_fd \o esp.out
    BY <1>1, <1>2, <1>4, StreamFlows
  <2>2. shell.at # "died"
    BY <1>1 DEF ShellInv, Lines
  <2> QED BY <1>1, <2>1, <2>2 DEF ShellInv, Lines
<1>9. OneStream'
  <2>1. PICK h : Hears(h, esp_fd, Have, said) /\ Acks(h)
    BY DEF ShellInv, OneStream
  <2> PICK g : g = More(h, esp_fd, c)
    OBVIOUS
  <2> DEFINE f == esp.answering /\ ~ (c = "nl" /\ Shell!Done(said.line))
  <2>2. Have' = Have
    BY <1>1 DEF Have
  <2>3. Hears(g, esp_fd', Have', said')
    BY <1>1, <1>3, <1>4, <1>5, <2>1, <2>2, HearsMore
  <2>4. Settled(h, esp_fd, esp.out, esp.answering) => Settled(g, esp_fd', Tail(esp.out), FALSE) /\ ~esp.answering
    BY <1>1, <1>4, <2>1, SettledSend DEF Settled
  <2>5. Waiting(h, esp_fd, esp.out, esp.answering) => Waiting(g, esp_fd', Tail(esp.out), f)
    BY <1>1, <1>4, <2>1, WaitingSend
  <2>6. esp'.out = Tail(esp.out) /\ esp'.answering = f
    BY <1>2
  <2>7. Acks(g)'
    <3>1. CASE opt /\ shell.at # "died" /\ NoCommand
      <4>1. Settled(h, esp_fd, esp.out, esp.answering)
        BY <2>1, <3>1 DEF Acks
      <4>2. esp'.answering = FALSE
        BY <2>4, <2>6, <4>1
      <4>3. Settled(g, esp_fd', esp'.out, esp'.answering)
        BY <2>4, <2>6, <4>1, <4>2
      <4> QED BY <1>1, <3>1, <4>3, Zenon DEF Acks, NoCommand
    <3>2. CASE opt /\ shell.at # "died" /\ ~NoCommand
      <4>1. Waiting(h, esp_fd, esp.out, esp.answering)
        BY <2>1, <3>2 DEF Acks
      <4>2. Waiting(g, esp_fd', esp'.out, esp'.answering)
        BY <2>5, <2>6, <4>1
      <4> QED BY <1>1, <3>2, <4>2, Zenon DEF Acks, NoCommand
    <3>3. CASE ~(opt /\ shell.at # "died")
      BY <1>1, <3>3 DEF Acks
    <3> QED BY <3>1, <3>2, <3>3
  <2> QED BY <2>3, <2>7 DEF OneStream
<1> QED BY <1>1, <1>7, <1>8, <1>9 DEF ShellInv

\* What a step that reads a character leaves of the stream.
LEMMA ShellReads ==
  ASSUME ShellInv, esp_fd # <<>>, esp_fd' = Tail(esp_fd), UNCHANGED <<opt, esp, said>>,
         Have' = Heard(Have, Head(esp_fd)), shell.at = "reply", shell'.saw_cmd_p = shell.saw_cmd_p,
         shell'.at \in {"command", "reply"},
         opt /\ shell.saw_cmd_p /\ shell'.at = "command" => Head(esp_fd) = "nl" /\ Shell!Done(shell.line)
  PROVE  /\ OneStream'
         /\ esp_fd' \in Text /\ Shell!Ended((esp_fd \o esp.out)')
         /\ Head(esp_fd) = "cr" => NlFirst((esp_fd \o esp.out)')
<1>1. esp_fd \in Text /\ esp.out \in Text
  BY DEF ShellInv, ShellTypes
<1>2. OneStream'
  <2>1. PICK h : Hears(h, esp_fd, Have, said) /\ Acks(h)
    BY DEF ShellInv, OneStream
  <2> PICK g : g = Less(h, esp_fd)
    OBVIOUS
  <2>2. Hears(g, esp_fd', Have', said')
    BY <1>1, <2>1, HearsLess
  <2>3. h[0].line = shell.line
    BY <2>1 DEF Hears, Have
  <2>4. Settled(h, esp_fd, esp.out, esp.answering) => Settled(g, esp_fd', esp.out, esp.answering)
    BY <1>1, SettledRead
  <2>5. Waiting(h, esp_fd, esp.out, esp.answering) =>
          /\ Waiting(g, esp_fd', esp.out, esp.answering)
          /\ Head(esp_fd) = "nl" /\ Shell!Done(shell.line) => Settled(g, esp_fd', esp.out, esp.answering)
    BY <1>1, <2>3, WaitingRead
  <2>6. Acks(g)'
    <3> SUFFICES ASSUME opt
                 PROVE  IF NoCommand' THEN Settled(g, esp_fd', esp.out, esp.answering)
                                      ELSE Waiting(g, esp_fd', esp.out, esp.answering)
      BY Zenon DEF Acks
    <3>1. CASE ~shell.saw_cmd_p
      <4>1. NoCommand /\ NoCommand'
        BY <3>1 DEF NoCommand
      <4>2. Settled(h, esp_fd, esp.out, esp.answering)
        BY <2>1, <4>1 DEF Acks
      <4> QED BY <2>4, <4>1, <4>2
    <3>2. CASE shell.saw_cmd_p
      <4>1. ~NoCommand /\ (NoCommand' <=> shell'.at = "command")
        BY <3>2 DEF NoCommand
      <4>2. Waiting(h, esp_fd, esp.out, esp.answering)
        BY <2>1, <4>1 DEF Acks
      <4> QED BY <2>5, <3>2, <4>1, <4>2
    <3> QED BY <3>1, <3>2
  <2> QED BY <2>2, <2>6 DEF OneStream
<1>3. Tail(esp_fd) \o esp.out = Tail(esp_fd \o esp.out) /\ Head(esp_fd) = Head(esp_fd \o esp.out) /\ esp_fd \o esp.out # <<>>
  BY <1>1, StreamFlows
<1>4. esp_fd \o esp.out \in Text /\ Shell!Ended(esp_fd \o esp.out)
  BY <1>1, TextsJoin DEF ShellInv, Lines
<1>5. /\ Shell!Ended(Tail(esp_fd) \o esp.out)
      /\ Head(esp_fd) = "cr" => NlFirst(Tail(esp_fd) \o esp.out)
  BY <1>3, <1>4, EndedRest
<1>6. (esp_fd \o esp.out)' = Tail(esp_fd) \o esp.out /\ Tail(esp_fd) \in Text
  BY <1>1, TextShrinks
<1> QED BY <1>2, <1>5, <1>6

LEMMA ShellChar ==
  ASSUME ShellInv, Shell!Char
  PROVE  ShellInv'
<1> DEFINE c == Head(esp_fd)
<1>1. /\ esp_fd # <<>> /\ esp_fd' = Tail(esp_fd) /\ UNCHANGED <<opt, unix_fd, esp, said, shown>>
      /\ shell.at = "reply" /\ c # "nl"
      /\ shell' = [shell EXCEPT !.begun = TRUE, !.line = IF c = "cr" THEN @ ELSE Append(@, c)]
  BY DEF Shell!Char, Shell!can_read
<1>2. shell \in [at : {"command", "reply", "died"}, line : Text, begun : BOOLEAN, saw_cmd_p : BOOLEAN, early : BOOLEAN]
  BY DEF ShellInv, ShellTypes
<1>3. c \in Letter
  BY <1>1, TextShrinks DEF ShellInv, ShellTypes
<1>4. shell.line \in Text /\ Append(shell.line, c) \in Text /\ Append(shell.line, c) # <<>>
  <2>1. Append(shell.line, c) # <<>>
    BY <1>2, <1>3, AppendProperties DEF Text
  <2> QED BY <1>2, <1>3, <2>1, TextGrows
<1>5. /\ shell'.at = "reply" /\ shell'.begun = TRUE /\ shell'.saw_cmd_p = shell.saw_cmd_p /\ shell'.early = shell.early
      /\ shell'.line = IF c = "cr" THEN shell.line ELSE Append(shell.line, c)
      /\ shell' \in [at : {"command", "reply", "died"}, line : Text, begun : BOOLEAN, saw_cmd_p : BOOLEAN, early : BOOLEAN]
  BY <1>1, <1>2, <1>4
<1>6. Have' = Heard(Have, c)
  <2>1. Have' = [lines |-> shown, line |-> IF c = "cr" THEN shell.line ELSE Append(shell.line, c)]
    BY <1>1, <1>5 DEF Have
  <2> QED BY <1>1, <2>1 DEF Have, Heard
<1>7. /\ OneStream' /\ esp_fd' \in Text /\ Shell!Ended((esp_fd \o esp.out)')
      /\ c = "cr" => NlFirst((esp_fd \o esp.out)')
  BY <1>1, <1>5, <1>6, ShellReads
<1>8. ShellTypes'
  BY <1>1, <1>5, <1>7 DEF ShellInv, ShellTypes
<1>9. Lines'
  BY <1>4, <1>5, <1>7 DEF Lines
<1> QED BY <1>5, <1>7, <1>8, <1>9 DEF ShellInv

LEMMA ShellLine ==
  ASSUME ShellInv, Shell!Line
  PROVE  ShellInv'
<1> DEFINE S == [at : {"command", "reply", "died"}, line : Text, begun : BOOLEAN, saw_cmd_p : BOOLEAN, early : BOOLEAN]
<1>1. /\ esp_fd # <<>> /\ esp_fd' = Tail(esp_fd) /\ UNCHANGED <<opt, unix_fd, esp, said>>
      /\ shell.at = "reply" /\ Head(esp_fd) = "nl"
  BY DEF Shell!Line, Shell!can_read
<1>2. shell \in S /\ shown \in Seq(Text) /\ <<>> \in Text
  BY DEF ShellInv, ShellTypes, Text
<1>3. /\ shell'.begun = FALSE /\ shell'.line = <<>> /\ shell'.saw_cmd_p = shell.saw_cmd_p /\ shell'.early = shell.early
      /\ shell' \in S /\ shell'.at \in {"command", "reply"}
      /\ shown' = Shell!With(shown, shell.line)
      /\ opt /\ shell.saw_cmd_p /\ shell'.at = "command" => Shell!Done(shell.line)
  <2>1. CASE shell.line = <<>>
    <3>1. shell' = [shell EXCEPT !.begun = FALSE, !.at = Shell!Again] /\ shown' = shown
      BY <2>1 DEF Shell!Line
    <3>2. Shell!Again \in {"command", "reply"} /\ (opt /\ shell.saw_cmd_p => Shell!Again = "reply")
      BY DEF Shell!Again
    <3>3. Shell!With(shown, shell.line) = shown
      BY <2>1 DEF Shell!With
    <3> HIDE DEF S
    <3>4. /\ shell'.begun = FALSE /\ shell'.line = <<>> /\ shell'.saw_cmd_p = shell.saw_cmd_p /\ shell'.early = shell.early
          /\ shell' \in S /\ shell'.at = Shell!Again
      BY <1>2, <2>1, <3>1, <3>2 DEF S
    <3> QED BY <3>1, <3>2, <3>3, <3>4
  <2>2. CASE shell.line # <<>>
    <3> DEFINE next == IF Shell!Done(shell.line) THEN "command" ELSE "reply"
    <3>1. shell' = [shell EXCEPT !.line = <<>>, !.begun = FALSE, !.at = next] /\ shown' = Append(shown, shell.line)
      BY <2>2 DEF Shell!Line
    <3>2. next \in {"command", "reply"} /\ (next = "command" => Shell!Done(shell.line))
      OBVIOUS
    <3>3. Shell!With(shown, shell.line) = Append(shown, shell.line)
      BY <2>2 DEF Shell!With
    <3> HIDE DEF next
    <3>4. /\ shell'.begun = FALSE /\ shell'.line = <<>> /\ shell'.saw_cmd_p = shell.saw_cmd_p /\ shell'.early = shell.early
          /\ shell' \in S /\ shell'.at = next
      BY <1>2, <3>1, <3>2
    <3> QED BY <3>1, <3>2, <3>3, <3>4
  <2> QED BY <2>1, <2>2
<1>4. shown' \in Seq(Text)
  BY <1>2, <1>3, WithText
<1>5. Have' = Heard(Have, Head(esp_fd))
  BY <1>1, <1>3 DEF Have, Heard
<1>6. OneStream' /\ esp_fd' \in Text /\ Shell!Ended((esp_fd \o esp.out)')
  BY <1>1, <1>3, <1>5, ShellReads
<1>7. ShellTypes'
  BY <1>1, <1>3, <1>4, <1>6 DEF ShellInv, ShellTypes
<1>8. Lines'
  BY <1>3, <1>6 DEF Lines
<1> QED BY <1>3, <1>6, <1>7, <1>8 DEF ShellInv

\* What the chip will say of a command.
LEMMA SaysEnded ==
  ASSUME Shell!ShellAssumption, NEW c \in Commands
  PROVE  LET x == c \o Shell!Eol \o Answer[c]
             y == <<"busy">> \o Shell!Eol
         IN /\ x \in Text /\ Shell!Ended(x) /\ Shell!OneMark(x)
            /\ y \in Text /\ Shell!Ended(y)
<1> DEFINE p == c \o Shell!Eol
<1>1. /\ c \in Text /\ Answer[c] \in Text /\ ~Shell!Done(c) /\ Shell!Ended(c)
      /\ Shell!Ended(Answer[c]) /\ Shell!OneMark(Answer[c])
  BY Constants
<1>2. /\ Shell!Eol \in Text /\ Shell!Ended(Shell!Eol) /\ ~Shell!Done(Shell!Eol)
      /\ <<"busy">> \in Text /\ Shell!Ended(<<"busy">>)
  BY Constants
<1>3. p \in Text /\ Shell!Ended(p)
  BY <1>1, <1>2, TextsJoin, EndedJoin
<1>4. <<"busy">> \o Shell!Eol \in Text /\ Shell!Ended(<<"busy">> \o Shell!Eol)
  BY <1>2, TextsJoin, EndedJoin
<1>5. p \o Answer[c] \in Text /\ Shell!Ended(p \o Answer[c])
  BY <1>1, <1>3, TextsJoin, EndedJoin
<1>6. ~Shell!Done(p)
  <2> DEFINE len == Len(c)
             e == Shell!Eol
  <2>1. /\ len \in Nat /\ Len(e) \in Nat /\ Len(p) = len + Len(e) /\ (\A i \in 1 .. len : p[i] = c[i])
        /\ \A i \in 1 .. Len(e) : p[len + i] = e[i]
    BY <1>1, <1>2, TextsJoin
  <2>2. (\A i \in 1 .. len : c[i] \notin Shell!Mark) /\ (\A i \in 1 .. Len(e) : e[i] \notin Shell!Mark)
    BY <1>1, <1>2 DEF Shell!Done
  <2> HIDE DEF len, e, p
  <2>3. \A i \in 1 .. Len(p) : p[i] \notin Shell!Mark
    <3> TAKE i \in 1 .. Len(p)
    <3>1. CASE i <= len
      BY <2>1, <2>2, <3>1
    <3>2. CASE i > len
      <4>1. i - len \in 1 .. Len(e) /\ len + (i - len) = i
        BY <2>1, <3>2
      <4>2. p[len + (i - len)] = e[i - len]
        BY <2>1, <4>1
      <4> QED BY <2>2, <4>1, <4>2
    <3> QED BY <2>1, <3>1, <3>2
  <2> QED BY <2>3 DEF Shell!Done
<1>7. Shell!OneMark(p \o Answer[c])
  BY <1>1, <1>3, <1>6, MarkBehind
<1> QED BY <1>4, <1>5, <1>7

LEMMA ShellCommand ==
  ASSUME Shell!ShellAssumption, ShellInv, Shell!Command
  PROVE  ShellInv'
<1> DEFINE S == [at : {"command", "reply", "died"}, line : Text, begun : BOOLEAN, saw_cmd_p : BOOLEAN, early : BOOLEAN]
<1>1. UNCHANGED <<opt, esp_fd, said, shown>> /\ shell.at = "command"
  BY DEF Shell!Command
<1>2. /\ shell \in S /\ unix_fd \in Seq(Commands) /\ esp_fd \in Text /\ opt \in BOOLEAN /\ shell.early = FALSE
      /\ esp \in [out : Text, answering : BOOLEAN] /\ <<>> \in Text
  BY DEF ShellInv, ShellTypes, Text
<1>3. shell.begun = FALSE /\ shell.line = <<>>
  BY <1>1, <1>2 DEF ShellInv, Lines
<1>4. PICK h : Hears(h, esp_fd, Have, said) /\ Acks(h)
  BY DEF ShellInv, OneStream
<1>5. opt => Settled(h, esp_fd, esp.out, esp.answering)
  BY <1>1, <1>4 DEF Acks, NoCommand
<1>6. CASE /\ unix_fd # <<>> /\ Shell!Sent(Head(unix_fd)) /\ unix_fd' = Tail(unix_fd)
           /\ shell' = [shell EXCEPT !.at = "reply", !.line = <<>>, !.saw_cmd_p = TRUE, !.early = opt /\ esp.answering]
  <2> DEFINE c == Head(unix_fd)
             x == c \o Shell!Eol \o Answer[c]
             y == <<"busy">> \o Shell!Eol
             u == IF esp.answering THEN y ELSE x
  <2>1. c \in Commands /\ unix_fd' \in Seq(Commands)
    BY <1>2, <1>6
  <2>2. x \in Text /\ Shell!Ended(x) /\ Shell!OneMark(x) /\ y \in Text /\ Shell!Ended(y)
    BY <2>1, SaysEnded
  <2>3. esp' = [out |-> esp.out \o u, answering |-> TRUE]
    BY <1>6 DEF Shell!Sent
  <2>4. opt => ~esp.answering
    BY <1>5 DEF Settled
  <2> HIDE DEF c, x, y
  <2>5. u \in Text /\ Shell!Ended(u) /\ (opt => u = x)
    BY <2>2, <2>4
  <2> HIDE DEF u
  <2>6. esp.out \o u \in Text /\ esp' \in [out : Text, answering : BOOLEAN] /\ esp'.out = esp.out \o u /\ esp'.answering = TRUE
    BY <1>2, <2>3, <2>5, TextsJoin
  <2>7. shell' \in S /\ shell'.at = "reply" /\ shell'.line = <<>> /\ shell'.begun = FALSE /\ shell'.saw_cmd_p = TRUE /\ shell'.early = FALSE
    <3>1. (opt /\ esp.answering) = FALSE
      BY <1>2, <2>4
    <3>2. shell' = [shell EXCEPT !.at = "reply", !.line = <<>>, !.saw_cmd_p = TRUE, !.early = FALSE]
      BY <1>6, <3>1, Zenon
    <3> QED BY <1>2, <1>3, <3>2
  <2>8. ShellTypes'
    BY <1>1, <2>1, <2>6, <2>7 DEF ShellInv, ShellTypes
  <2>9. Lines'
    <3>1. esp_fd \o (esp.out \o u) = (esp_fd \o esp.out) \o u
      BY <1>2, <2>5 DEF Text
    <3>2. esp_fd \o esp.out \in Text /\ Shell!Ended(esp_fd \o esp.out)
      BY <1>2, TextsJoin DEF ShellInv, Lines
    <3>3. Shell!Ended((esp_fd \o esp.out) \o u)
      BY <2>5, <3>2, EndedJoin
    <3> QED BY <1>1, <2>6, <2>7, <3>1, <3>3 DEF Lines
  <2>10. OneStream'
    <3>1. Have' = Have
      BY <1>1, <1>3, <2>7 DEF Have
    <3>2. opt => Waiting(h, esp_fd, esp.out \o x, TRUE)
      BY <1>2, <1>5, <2>2, CommandAwaited
    <3>3. ~NoCommand'
      BY <2>7 DEF NoCommand
    <3>4. Acks(h)'
      BY <1>1, <2>5, <2>6, <3>2, <3>3, Zenon DEF Acks
    <3> QED BY <1>1, <1>4, <3>1, <3>4 DEF OneStream
  <2> QED BY <2>7, <2>8, <2>9, <2>10 DEF ShellInv
<1>7. CASE /\ unix_fd' \in Seq(Commands) /\ UNCHANGED esp
           /\ shell' = [shell EXCEPT !.at = "reply", !.line = <<>>, !.saw_cmd_p = FALSE]
  <2>1. shell' \in S /\ shell'.at = "reply" /\ shell'.line = <<>> /\ shell'.begun = FALSE /\ shell'.saw_cmd_p = FALSE /\ shell'.early = FALSE
    BY <1>2, <1>3, <1>7
  <2>2. ShellTypes'
    BY <1>1, <1>7, <2>1 DEF ShellInv, ShellTypes
  <2>3. Lines'
    BY <1>1, <1>7, <2>1 DEF ShellInv, Lines
  <2>4. OneStream'
    <3>1. Have' = Have
      BY <1>1, <1>3, <2>1 DEF Have
    <3>2. NoCommand'
      BY <2>1 DEF NoCommand
    <3>3. Acks(h)'
      BY <1>1, <1>5, <1>7, <3>2, Zenon DEF Acks
    <3> QED BY <1>1, <1>4, <3>1, <3>3 DEF OneStream
  <2> QED BY <2>1, <2>2, <2>3, <2>4 DEF ShellInv
<1>8. unix_fd # <<>> => Tail(unix_fd) \in Seq(Commands)
  BY <1>2
<1> QED BY <1>2, <1>6, <1>7, <1>8, Zenon DEF Shell!Command

LEMMA ShellTimedOut ==
  ASSUME ShellInv, Shell!TimedOut
  PROVE  ShellInv'
<1> DEFINE S == [at : {"command", "reply", "died"}, line : Text, begun : BOOLEAN, saw_cmd_p : BOOLEAN, early : BOOLEAN]
<1>1. /\ UNCHANGED <<opt, unix_fd, esp_fd, esp, said, shown>> /\ shell.at = "reply" /\ ~shell.begun
      /\ shell' = [shell EXCEPT !.at = Shell!Again]
  BY DEF Shell!TimedOut
<1>2. Shell!Again \in {"command", "reply"} /\ (opt /\ shell.saw_cmd_p => Shell!Again = "reply")
  BY DEF Shell!Again
<1>3. shell \in S
  BY DEF ShellInv, ShellTypes
<1>4. /\ shell' \in S /\ shell'.at \in {"command", "reply"} /\ shell'.line = shell.line /\ shell'.begun = shell.begun
      /\ shell'.saw_cmd_p = shell.saw_cmd_p /\ shell'.early = shell.early
      /\ opt /\ shell.saw_cmd_p => shell'.at = "reply"
  BY <1>1, <1>2, <1>3
<1>5. ShellTypes'
  BY <1>1, <1>4 DEF ShellInv, ShellTypes
<1>6. Lines'
  BY <1>1, <1>4 DEF ShellInv, Lines
<1>7. OneStream'
  <2>1. PICK h : Hears(h, esp_fd, Have, said) /\ Acks(h)
    BY DEF ShellInv, OneStream
  <2>2. Have' = Have
    BY <1>1, <1>4 DEF Have
  <2>3. opt => (NoCommand' <=> NoCommand)
    BY <1>1, <1>4 DEF NoCommand
  <2>4. Acks(h)'
    BY <1>1, <2>1, <2>3, Zenon DEF Acks
  <2> QED BY <1>1, <2>1, <2>2, <2>4 DEF OneStream
<1> QED BY <1>4, <1>5, <1>6, <1>7 DEF ShellInv

LEMMA ShellReadsNothing ==
  ASSUME ShellInv, Shell!ReadsNothing
  PROVE  ShellInv'
<1> DEFINE S == [at : {"command", "reply", "died"}, line : Text, begun : BOOLEAN, saw_cmd_p : BOOLEAN, early : BOOLEAN]
<1>1. /\ UNCHANGED <<opt, unix_fd, esp_fd, esp, said, shown>> /\ esp_fd = <<>> /\ esp.out = <<>> /\ shell.begun
      /\ shell' = [shell EXCEPT !.at = "died"]
  BY DEF Shell!ReadsNothing, Shell!can_read
<1>2. shell \in S
  BY DEF ShellInv, ShellTypes
<1>3. /\ shell' \in S /\ shell'.at = "died" /\ shell'.line = shell.line /\ shell'.begun = shell.begun
      /\ shell'.saw_cmd_p = shell.saw_cmd_p /\ shell'.early = shell.early
  BY <1>1, <1>2
<1>4. ShellTypes'
  BY <1>1, <1>3 DEF ShellInv, ShellTypes
<1>5. Lines'
  BY <1>1, <1>3 DEF ShellInv, Lines
<1>6. OneStream'
  <2>1. PICK h : Hears(h, esp_fd, Have, said)
    BY DEF ShellInv, OneStream
  <2>2. Have' = Have
    BY <1>1, <1>3 DEF Have
  <2>3. Acks(h)'
    BY <1>3 DEF Acks
  <2> QED BY <1>1, <2>1, <2>2, <2>3 DEF OneStream
<1> QED BY <1>3, <1>4, <1>5, <1>6 DEF ShellInv

\* Whatever arrives when, the shell prints the chip's lines, each once and in
\* order, sends no command before the answer to another when it is to wait, and
\* dies only over a line that the chip does not end.
THEOREM ShellIsSafe ==
  ASSUME Shell!ShellAssumption
  PROVE  Shell!Spec => []Shell!ShellSafe
<1>1. Shell!Init => ShellInv
  BY ShellInit
<1>2. ShellInv /\ [Shell!Next]_(Shell!shellvars) => ShellInv'
  <2> SUFFICES ASSUME ShellInv, [Shell!Next]_(Shell!shellvars)
               PROVE  ShellInv'
    OBVIOUS
  <2>1. CASE UNCHANGED Shell!shellvars
    <3>1. UNCHANGED <<opt, unix_fd, esp_fd, esp, shell, said, shown>>
      BY <2>1 DEF Shell!shellvars
    <3>2. unix_fd' \in Seq(Commands)
      BY <3>1 DEF ShellInv, ShellTypes
    <3> QED BY <3>1, <3>2, ShellIdle
  <2>2. CASE Shell!Type
    BY <2>2, ShellTypeStep
  <2>3. CASE Shell!Happen
    BY <2>3, ShellHappen
  <2>4. CASE Shell!Send
    BY <2>4, ShellSend
  <2>5. CASE Shell!Command
    BY <2>5, ShellCommand
  <2>6. CASE Shell!Char
    BY <2>6, ShellChar
  <2>7. CASE Shell!Line
    BY <2>7, ShellLine
  <2>8. CASE Shell!TimedOut
    BY <2>8, ShellTimedOut
  <2>9. CASE Shell!ReadsNothing
    BY <2>9, ShellReadsNothing
  <2> QED BY <2>1, <2>2, <2>3, <2>4, <2>5, <2>6, <2>7, <2>8, <2>9 DEF Shell!Next, Shell!esp_echo
<1>3. ShellInv => Shell!ShellSafe
  BY ShellShows
<1> QED BY <1>1, <1>2, <1>3, PTL DEF Shell!Spec
-----------------------------------------------------------------------------
(* The user programs.  A program's system calls are put together with      *)
(* FlattenSeq, whose value is a recursive function's; that there is one    *)
(* is shown by induction first.                                            *)

LEMMA Flattens ==
  ASSUME NEW X, NEW s \in Seq(Seq(X))
  PROVE  Os!FlattenSeq(s) \in Seq(X)
<1>1. CASE Len(s) = 0
  <2>1. s = <<>>
    BY <1>1, EmptySeq
  <2>2. Os!FlattenSeq(s) = s
    BY <1>1, Zenon DEF Os!FlattenSeq
  <2>3. <<>> \in Seq(X)
    OBVIOUS
  <2> QED BY <2>1, <2>2, <2>3, Zenon
<1>2. CASE Len(s) # 0
  <2> DEFINE len == Len(s)
             Ext(g, i) == IF i = 1 THEN s[i] ELSE g[i - 1] \o s[i]
             IsFlat(g) == g = [i \in 1 .. len |-> IF i = 1 THEN s[i] ELSE g[i - 1] \o s[i]]
             Flat(k) == \E g \in [1 .. k -> Seq(X)] : \A i \in 1 .. k : g[i] = Ext(g, i)
             K == {k \in Nat : k \in 1 .. len => Flat(k)}
  <2>1. len \in Nat \ {0} /\ \A i \in 1 .. len : s[i] \in Seq(X)
    BY <1>2
  <2>2. 0 \in K
    OBVIOUS
  <2>3. ASSUME NEW k \in Nat, k \in K
        PROVE  k + 1 \in K
    <3> HIDE DEF Flat, len
    <3> SUFFICES ASSUME k + 1 \in 1 .. len
                 PROVE  Flat(k + 1)
      OBVIOUS
    <3>0. k \in 1 .. len => Flat(k)
      BY <2>3
    <3>1. CASE k = 0
      <4> DEFINE g == [i \in 1 .. 1 |-> s[1]]
      <4>1. g \in [1 .. 1 -> Seq(X)] /\ \A i \in 1 .. 1 : g[i] = Ext(g, i)
        BY <2>1
      <4>2. Flat(1)
        BY <4>1, Zenon DEF Flat
      <4>3. k + 1 = 1
        BY <3>1
      <4> QED BY <4>2, <4>3
    <3>2. CASE k # 0
      <4>1. k \in 1 .. len
        BY <2>1, <3>2
      <4>2. PICK g \in [1 .. k -> Seq(X)] : \A i \in 1 .. k : g[i] = Ext(g, i)
        BY <3>0, <4>1 DEF Flat
      <4> DEFINE f == [i \in 1 .. k + 1 |-> IF i <= k THEN g[i] ELSE g[k] \o s[k + 1]]
      <4>3. g[k] \in Seq(X) /\ s[k + 1] \in Seq(X)
        BY <2>1, <4>1, <4>2
      <4>4. g[k] \o s[k + 1] \in Seq(X)
        BY <4>3
      <4>5. f \in [1 .. k + 1 -> Seq(X)]
        BY <4>2, <4>4
      <4>6. \A i \in 1 .. k + 1 : f[i] = Ext(f, i)
        <5> TAKE i \in 1 .. k + 1
        <5>1. CASE i <= k
          <6>1. i \in 1 .. k /\ (i # 1 => i - 1 \in 1 .. k)
            BY <5>1
          <6>2. f[i] = g[i] /\ (i # 1 => f[i - 1] = g[i - 1])
            BY <6>1
          <6>3. g[i] = Ext(g, i)
            BY <4>2, <6>1, Zenon
          <6> HIDE DEF f
          <6>4. Ext(f, i) = Ext(g, i)
            BY <6>2
          <6> QED BY <6>2, <6>3, <6>4
        <5>2. CASE i = k + 1
          <6>1. i # 1 /\ i - 1 = k /\ ~(i <= k) /\ k <= k /\ k \in 1 .. k + 1
            BY <3>2, <5>2
          <6>2. f[i] = g[k] \o s[k + 1] /\ f[k] = g[k]
            BY <6>1
          <6> HIDE DEF f
          <6>3. Ext(f, i) = f[k] \o s[k + 1]
            BY <5>2, <6>1
          <6> QED BY <6>2, <6>3
        <5> QED BY <5>1, <5>2
      <4> QED BY <4>5, <4>6 DEF Flat
    <3> QED BY <3>1, <3>2
  <2>4. \E g : IsFlat(g)
    <3>1. len \in K
      <4> HIDE DEF K
      <4>1. Nat \subseteq K
        BY <2>2, <2>3, SetInduction
      <4> QED BY <2>1, <4>1
    <3> HIDE DEF len, Flat
    <3>2. Flat(len)
      BY <2>1, <3>1
    <3>3. PICK g \in [1 .. len -> Seq(X)] : \A i \in 1 .. len : g[i] = Ext(g, i)
      BY <3>2 DEF Flat
    <3>4. IsFlat(g)
      BY <3>3
    <3> QED BY <3>4
  <2>5. PICK g : g = CHOOSE h : IsFlat(h)
    OBVIOUS
  <2>6. IsFlat(g)
    BY <2>4, <2>5, Zenon
  <2>7. Os!FlattenSeq(s) = g[len]
    BY <1>2, <2>5, Zenon DEF Os!FlattenSeq
  <2> DEFINE T == {k \in Nat : k \in 1 .. len => g[k] \in Seq(X)}
  <2> HIDE DEF len, IsFlat
  <2>8. \A i \in 1 .. len : g[i] = Ext(g, i)
    BY <2>6 DEF IsFlat
  <2>9. 0 \in T
    OBVIOUS
  <2>10. \A k \in Nat : k \in T => k + 1 \in T
    <3> SUFFICES ASSUME NEW k \in Nat, k \in T, k + 1 \in 1 .. len
                 PROVE  g[k + 1] \in Seq(X)
      OBVIOUS
    <3>1. s[k + 1] \in Seq(X) /\ g[k + 1] = Ext(g, k + 1)
      BY <2>1, <2>8
    <3>2. CASE k = 0
      BY <3>1, <3>2
    <3>3. CASE k # 0
      <4>1. g[k] \in Seq(X)
        BY <2>1, <3>3
      <4> QED BY <3>1, <3>3, <4>1
    <3> QED BY <3>2, <3>3
  <2>11. len \in T
    <3> HIDE DEF T
    <3>1. Nat \subseteq T
      BY <2>9, <2>10, SetInduction
    <3> QED BY <2>1, <3>1
  <2> QED BY <2>1, <2>7, <2>11
<1> QED BY <1>1, <1>2

(* The system calls of the programs.                                       *)
Args == STRING \cup {"0", "-1", "1", "b", "a", "d", "hex", "h", "i", "sp", "%x", "none"}
ProgNames == STRING \cup {"0-test-exit", "0-test-nop", "1-test-hello"}
Call == [call : {"user_putk", "user_printk", "sys_get_cpsr", "sys_exit"}, arg : Seq(Args)]
SysCall(Nos) == [no : Nos, arg : Args]

Prog(p) ==
  /\ p \in [name : ProgNames, notmain : Seq(Call)]
  /\ \A i \in 1 .. Len(p.notmain) : p.notmain[i].call = "sys_exit" => p.notmain[i].arg # <<>>

LEMMA SeqWidens ==
  ASSUME NEW X, NEW Y, X \subseteq Y
  PROVE  Seq(X) \subseteq Seq(Y)
OBVIOUS

LEMMA ProgramsAre ==
  ASSUME Os!OsAssumption
  PROVE  \A p \in Os!Programs : Prog(p)
<1>1. STRING \subseteq Args /\ STRING \subseteq ProgNames
  BY DEF Args, ProgNames
<1>2. ASSUME NEW p \in OtherPrograms
      PROVE  Prog(p)
  <2> DEFINE C == [call : {"user_putk", "user_printk", "sys_get_cpsr", "sys_exit"}, arg : Seq(STRING)]
  <2>1. C \subseteq Call
    BY <1>1, SeqWidens DEF Call
  <2>2. Seq(C) \subseteq Seq(Call)
    BY <2>1, SeqWidens
  <2>3. p \in [name : STRING, notmain : Seq(C)]
    BY DEF Os!OsAssumption, Os!IsProgram
  <2> HIDE DEF C
  <2>4. p \in [name : ProgNames, notmain : Seq(Call)]
    BY <1>1, <2>2, <2>3
  <2> QED BY <2>4 DEF Prog, Os!OsAssumption, Os!IsProgram
<1>3. /\ "0" \in Args /\ "h" \in Args /\ "i" \in Args /\ "sp" \in Args /\ "%x" \in Args
      /\ "0-test-exit" \in ProgNames /\ "0-test-nop" \in ProgNames /\ "1-test-hello" \in ProgNames
  BY DEF Args, ProgNames
<1>4. <<"0">> \in Seq(Args) /\ <<"h", "i">> \in Seq(Args) /\ <<"sp", "%x">> \in Seq(Args) /\ <<>> \in Seq(Args)
  BY <1>3
<1>5. /\ Os!Calling("sys_exit", <<"0">>) \in Call /\ Os!Calling("sys_get_cpsr", <<>>) \in Call
      /\ Os!Calling("user_putk", <<"h", "i">>) \in Call /\ Os!Calling("user_printk", <<"sp", "%x">>) \in Call
  BY <1>4 DEF Os!Calling, Call
<1>6. /\ Os!Calling("sys_exit", <<"0">>).arg # <<>> /\ Os!Calling("sys_get_cpsr", <<>>).call # "sys_exit"
      /\ Os!Calling("user_putk", <<"h", "i">>).call # "sys_exit" /\ Os!Calling("user_printk", <<"sp", "%x">>).call # "sys_exit"
  BY DEF Os!Calling
<1> DEFINE E == Os!Calling("sys_exit", <<"0">>)
           G == Os!Calling("sys_get_cpsr", <<>>)
           P == Os!Calling("user_putk", <<"h", "i">>)
           F == Os!Calling("user_printk", <<"sp", "%x">>)
<1> HIDE DEF E, G, P, F
<1>7. /\ Os!test_exit = <<E>> /\ Os!test_nop = <<>> /\ Os!test_hello = <<P, F, G, E>>
  BY Zenon DEF Os!test_exit, Os!test_nop, Os!test_hello, E, F, G, P
<1>8. E \in Call /\ F \in Call /\ G \in Call /\ P \in Call /\ E.arg # <<>> /\ F.call # "sys_exit" /\ G.call # "sys_exit" /\ P.call # "sys_exit"
  BY <1>5, <1>6, Zenon DEF E, F, G, P
<1>9. Prog([name |-> "0-test-exit", notmain |-> Os!test_exit])
  BY <1>3, <1>7, <1>8 DEF Prog
<1>10. Prog([name |-> "0-test-nop", notmain |-> Os!test_nop])
  BY <1>3, <1>7 DEF Prog
<1>11. Prog([name |-> "1-test-hello", notmain |-> Os!test_hello])
  <2>1. <<P, F, G, E>> \in Seq(Call) /\ Len(<<P, F, G, E>>) = 4
    BY <1>8
  <2>2. \A i \in 1 .. 4 : <<P, F, G, E>>[i].call = "sys_exit" => <<P, F, G, E>>[i].arg # <<>>
    BY <1>8
  <2> QED BY <1>3, <1>7, <2>1, <2>2 DEF Prog
<1> QED BY <1>2, <1>9, <1>10, <1>11, Zenon DEF Os!Programs

LEMMA CallsIn ==
  ASSUME NEW Nos, "PUTC" \in Nos, "PUT_HEX" \in Nos, "EXIT" \in Nos, NEW c \in Call,
         c.call = "sys_exit" => c.arg # <<>>, c.call = "sys_get_cpsr" => "GET_CPSR" \in Nos
  PROVE  Os!Calls(c) \in Seq(SysCall(Nos))
<1> DEFINE X == SysCall(Nos)
<1>1. c.arg \in Seq(Args) /\ c.call \in {"user_putk", "user_printk", "sys_get_cpsr", "sys_exit"}
  BY DEF Call
<1>2. \A no \in Nos, arg \in Args : Os!Sys(no, arg) \in Seq(X)
  <2> TAKE no \in Nos, arg \in Args
  <2>1. [no |-> no, arg |-> arg] \in X
    BY DEF SysCall
  <2> HIDE DEF X
  <2> QED BY <2>1 DEF Os!Sys
<1>3. "b" \in Args /\ "a" \in Args /\ "d" \in Args /\ "1" \in Args /\ "hex" \in Args /\ "none" \in Args
  BY DEF Args
<1> HIDE DEF X
<1>4. ASSUME NEW msg \in Seq(Args)
      PROVE  Os!user_putk(msg) \in Seq(X)
  <2>1. \A i \in 1 .. Len(msg) : Os!Sys("PUTC", msg[i]) \in Seq(X)
    BY <1>2
  <2>2. [i \in 1 .. Len(msg) |-> Os!Sys("PUTC", msg[i])] \in Seq(Seq(X))
    BY <2>1
  <2> QED BY <2>2, Flattens DEF Os!user_putk
<1>5. ASSUME NEW msg \in Seq(Args)
      PROVE  Os!die(msg) \in Seq(X)
  <2>1. Os!user_putk(msg) \in Seq(X) /\ Os!sys_exit("1") \in Seq(X)
    BY <1>2, <1>3, <1>4 DEF Os!sys_exit
  <2> QED BY <2>1 DEF Os!die
<1>6. ASSUME NEW fmt \in Seq(Args)
      PROVE  Os!user_printk(fmt) \in Seq(X)
  <2> DEFINE it(i) == IF fmt[i] = "%x" THEN Os!Sys("PUT_HEX", "hex")
                      ELSE IF fmt[i] = "%" THEN Os!die(<<"b", "a", "d">>)
                      ELSE Os!Sys("PUTC", fmt[i])
  <2>1. <<"b", "a", "d">> \in Seq(Args)
    BY <1>3
  <2>2. Os!die(<<"b", "a", "d">>) \in Seq(X) /\ Os!Sys("PUT_HEX", "hex") \in Seq(X)
    BY <1>2, <1>3, <1>5, <2>1
  <2>3. \A i \in 1 .. Len(fmt) : Os!Sys("PUTC", fmt[i]) \in Seq(X)
    BY <1>2
  <2>4. \A i \in 1 .. Len(fmt) : it(i) \in Seq(X)
    BY <2>2, <2>3, Zenon
  <2> HIDE DEF it
  <2>5. [i \in 1 .. Len(fmt) |-> it(i)] \in Seq(Seq(X))
    BY <2>4
  <2>6. Os!FlattenSeq([i \in 1 .. Len(fmt) |-> it(i)]) \in Seq(X)
    BY <2>5, Flattens
  <2> QED BY <2>6, Zenon DEF Os!user_printk, it
<1>7. CASE c.call = "user_putk"
  <2>1. Os!Calls(c) = Os!user_putk(c.arg)
    BY <1>7, Zenon DEF Os!Calls
  <2> QED BY <1>1, <1>4, <2>1 DEF X
<1>8. CASE c.call = "user_printk"
  <2>1. c.call # "user_putk"
    BY <1>8
  <2>2. Os!Calls(c) = Os!user_printk(c.arg)
    BY <1>8, <2>1, Zenon DEF Os!Calls
  <2> QED BY <1>1, <1>6, <2>2 DEF X
<1>9. CASE c.call = "sys_get_cpsr"
  <2>1. c.call # "user_putk" /\ c.call # "user_printk"
    BY <1>9
  <2>2. Os!Calls(c) = Os!Sys("GET_CPSR", "none") /\ "GET_CPSR" \in Nos
    BY <1>9, <2>1, Zenon DEF Os!Calls, Os!sys_get_cpsr
  <2> QED BY <1>2, <1>3, <2>2 DEF X
<1>10. CASE c.call = "sys_exit"
  <2>1. c.arg[1] \in Args
    BY <1>1, <1>10
  <2>2. c.call # "user_putk" /\ c.call # "user_printk" /\ c.call # "sys_get_cpsr"
    BY <1>10
  <2>3. Os!Calls(c) = Os!Sys("EXIT", c.arg[1])
    BY <1>10, <2>2, Zenon DEF Os!Calls, Os!sys_exit
  <2> QED BY <1>2, <2>1, <2>3 DEF X
<1> QED BY <1>1, <1>7, <1>8, <1>9, <1>10 DEF X

\* The calls a program makes end with the exit of start.S.
LEMMA ProgramCalls ==
  ASSUME NEW p, Prog(p), NEW Nos, "PUTC" \in Nos, "PUT_HEX" \in Nos, "EXIT" \in Nos,
         Os!Undefined(p) => "GET_CPSR" \in Nos
  PROVE  LET all == Os!_start(p.notmain)
         IN all \in Seq(SysCall(Nos)) /\ Len(all) > 0 /\ all[Len(all)].no = "EXIT"
<1> DEFINE X == SysCall(Nos)
           s == [i \in 1 .. Len(p.notmain) |-> Os!Calls(p.notmain[i])]
           last == Os!sys_exit("-1")
<1>1. p.notmain \in Seq(Call) /\ Len(p.notmain) \in Nat
  BY DEF Prog
<1>2. \A i \in 1 .. Len(p.notmain) : Os!Calls(p.notmain[i]) \in Seq(X)
  <2> TAKE i \in 1 .. Len(p.notmain)
  <2>1. p.notmain[i] \in Call
    BY <1>1
  <2>2. p.notmain[i].call = "sys_exit" => p.notmain[i].arg # <<>>
    BY DEF Prog
  <2>3. p.notmain[i].call = "sys_get_cpsr" => "GET_CPSR" \in Nos
    BY DEF Os!Undefined
  <2> QED BY <2>1, <2>2, <2>3, CallsIn
<1>3. last = <<[no |-> "EXIT", arg |-> "-1"]>> /\ [no |-> "EXIT", arg |-> "-1"] \in X
  BY DEF Os!sys_exit, Os!Sys, SysCall, Args
<1>4. Os!_start(p.notmain) = Os!FlattenSeq(s) \o last
  BY Zenon DEF Os!_start
<1> HIDE DEF X
<1>5. s \in Seq(Seq(X))
  BY <1>1, <1>2
<1> HIDE DEF s
<1>6. Os!FlattenSeq(s) \in Seq(X)
  BY <1>5, Flattens
<1> DEFINE f == Os!FlattenSeq(s)
           e == [no |-> "EXIT", arg |-> "-1"]
<1>7. e.no = "EXIT" /\ e \in X /\ last = <<e>>
  BY <1>3
<1> HIDE DEF f, e, last
<1>8. f \in Seq(X) /\ Os!_start(p.notmain) = f \o <<e>>
  BY <1>4, <1>6, <1>7 DEF f
<1>9. f \o <<e>> \in Seq(X) /\ Len(f \o <<e>>) = Len(f) + 1 /\ (f \o <<e>>)[Len(f) + 1] = e /\ Len(f) \in Nat
  BY <1>7, <1>8
<1>10. Len(f \o <<e>>) > 0
  BY <1>9
<1> QED BY <1>7, <1>8, <1>9, <1>10 DEF X

(* The words in memory.                                                    *)
RamWord ==
  {Os!BIN_TAG, Os!LINK_ADDR, Os!Zero, Os!Garbage} \cup {Os!Count(k) : k \in Nat}
    \cup {<<"call", c>> : c \in Call} \cup {<<"name", x>> : x \in ProgNames}

LEMMA Joined ==
  ASSUME NEW X, NEW s \in Seq(X), NEW t \in Seq(X)
  PROVE  /\ s \o t \in Seq(X) /\ Len(s \o t) = Len(s) + Len(t)
         /\ \A i \in 1 .. Len(s) : (s \o t)[i] = s[i]
         /\ \A i \in 1 .. Len(t) : (s \o t)[Len(s) + i] = t[i]
OBVIOUS

\* The binary of p behind the kernel: where the loader looks, and what it
\* finds there.
LEMMA Images ==
  ASSUME NEW p, Prog(p)
  PROVE  LET img == Os!pitag_linker(p)
             m == Len(p.notmain)
         IN /\ m \in Nat /\ img \in Seq(RamWord) /\ Len(img) = m + 6
            /\ img[3] = Os!Count(m + 1) /\ img[5] = Os!LINK_ADDR /\ img[6 + m] = <<"name", p.name>>
            /\ \A i \in 1 .. m : img[5 + i] = <<"call", p.notmain[i]>>
            /\ Os!Binary(p) \in Seq(RamWord) /\ Len(Os!Binary(p)) = m + 1
            /\ \A i \in 1 .. m + 1 : Os!Binary(p)[i] = img[4 + i]
<1> DEFINE m == Len(p.notmain)
           words == [i \in 1 .. m |-> <<"call", p.notmain[i]>>]
           name == <<"name", p.name>>
<1>1. m \in Nat /\ p.notmain \in Seq(Call) /\ p.name \in ProgNames
  BY DEF Prog
<1>2. \A i \in 1 .. m : <<"call", p.notmain[i]>> \in RamWord
  <2>1. \A i \in 1 .. m : p.notmain[i] \in Call
    BY <1>1
  <2> QED BY <2>1, Zenon DEF RamWord
<1>3. name \in RamWord /\ Os!BIN_TAG \in RamWord /\ Os!LINK_ADDR \in RamWord
  BY <1>1, Zenon DEF RamWord
<1>4. \A k \in Nat : Os!Count(k) \in RamWord
  BY Zenon DEF RamWord
<1> DEFINE head == <<Os!BIN_TAG, Os!Count(m + 1 + 2), Os!Count(m + 1), Os!Count(0)>>
           addr == <<Os!LINK_ADDR>>
<1>5. words \in Seq(RamWord) /\ Len(words) = m /\ \A i \in 1 .. m : words[i] = <<"call", p.notmain[i]>>
  <2> HIDE DEF m
  <2>1. \A i \in 1 .. m : words[i] = <<"call", p.notmain[i]>>
    BY Zenon
  <2>2. words \in [1 .. m -> RamWord]
    BY <1>2, Zenon
  <2> HIDE DEF words
  <2>3. words \in Seq(RamWord) /\ Len(words) = m
    BY <1>1, <2>2
  <2> QED BY <2>1, <2>3, Zenon
<1>6. Os!Binary(p) = addr \o words
  BY Zenon DEF Os!Binary
<1> HIDE DEF m, words, name
<1>7. /\ addr \in Seq(RamWord) /\ Len(addr) = 1 /\ addr[1] = Os!LINK_ADDR
  BY <1>3
<1> DEFINE bin == addr \o words
<1> HIDE DEF addr
<1>8. /\ bin \in Seq(RamWord) /\ Len(bin) = m + 1 /\ bin[1] = Os!LINK_ADDR
      /\ \A i \in 1 .. m : bin[1 + i] = words[i]
  <2>1. /\ bin \in Seq(RamWord) /\ Len(bin) = Len(addr) + Len(words)
        /\ \A i \in 1 .. Len(addr) : bin[i] = addr[i]
        /\ \A i \in 1 .. Len(words) : bin[Len(addr) + i] = words[i]
    <3>1. addr \in Seq(RamWord) /\ words \in Seq(RamWord)
      BY <1>5, <1>7
    <3> QED BY <3>1, Joined
  <2> HIDE DEF bin
  <2> QED BY <1>1, <1>5, <1>7, <2>1
<1>9. Os!pitag_linker(p) = head \o bin \o <<name>>
  <2> HIDE DEF bin
  <2>1. Os!Binary(p) = bin /\ Len(bin) = m + 1
    BY <1>6, <1>8 DEF bin
  <2> QED BY <2>1, Zenon DEF Os!pitag_linker, name
<1> HIDE DEF bin
<1>10. m + 1 \in Nat /\ m + 1 + 2 \in Nat /\ 0 \in Nat
  BY <1>1
<1> DEFINE c1 == Os!Count(m + 1 + 2)
           c2 == Os!Count(m + 1)
           c3 == Os!Count(0)
           t == Os!BIN_TAG
<1>11. c1 \in RamWord /\ c2 \in RamWord /\ c3 \in RamWord /\ t \in RamWord
  BY <1>3, <1>4, <1>10
<1>12. head = <<t, c1, c2, c3>>
  OBVIOUS
<1> HIDE DEF c1, c2, c3, t
<1>13. head \in Seq(RamWord) /\ Len(head) = 4 /\ head[3] = c2
  BY <1>11, <1>12
<1> HIDE DEF head
<1> DEFINE hb == head \o bin
<1>14. /\ hb \in Seq(RamWord) /\ Len(hb) = m + 5 /\ hb[3] = c2
       /\ \A i \in 1 .. m + 1 : hb[4 + i] = bin[i]
  <2>1. /\ hb \in Seq(RamWord) /\ Len(hb) = Len(head) + Len(bin)
        /\ \A i \in 1 .. Len(head) : hb[i] = head[i]
        /\ \A i \in 1 .. Len(bin) : hb[Len(head) + i] = bin[i]
    <3>1. head \in Seq(RamWord) /\ bin \in Seq(RamWord)
      BY <1>8, <1>13
    <3> QED BY <3>1, Joined
  <2> HIDE DEF hb
  <2> QED BY <1>1, <1>8, <1>13, <2>1
<1>15. <<name>> \in Seq(RamWord) /\ Len(<<name>>) = 1 /\ <<name>>[1] = name
  BY <1>3
<1> DEFINE last == <<name>>
<1> HIDE DEF last, hb
<1>16. /\ hb \o last \in Seq(RamWord) /\ Len(hb \o last) = Len(hb) + Len(last)
       /\ \A i \in 1 .. Len(hb) : (hb \o last)[i] = hb[i]
       /\ \A i \in 1 .. Len(last) : (hb \o last)[Len(hb) + i] = last[i]
  BY <1>14, <1>15, Joined DEF last
<1> DEFINE img == hb \o last
<1> HIDE DEF img
<1>22. Len(last) = 1 /\ last[1] = name
  BY <1>15 DEF last
<1>17. /\ img \in Seq(RamWord) /\ Len(img) = m + 6 /\ img[6 + m] = name
       /\ img[3] = c2 /\ \A i \in 1 .. m + 1 : img[4 + i] = bin[i]
  <2>1. img[m + 5 + 1] = last[1] /\ Len(img) = m + 5 + 1
    BY <1>1, <1>14, <1>16, <1>22 DEF img
  <2>2. img[3] = hb[3] /\ \A i \in 1 .. m + 1 : img[4 + i] = hb[4 + i]
    BY <1>1, <1>14, <1>16 DEF img
  <2> QED BY <1>1, <1>14, <1>16, <1>22, <2>1, <2>2 DEF img
<1>18. img[5] = Os!LINK_ADDR
  BY <1>1, <1>8, <1>17
<1>19. \A i \in 1 .. m : img[5 + i] = words[i]
  BY <1>1, <1>8, <1>17
<1>20. Os!pitag_linker(p) = img /\ Os!Binary(p) = bin
  BY <1>6, <1>9, Zenon DEF img, bin, hb, last
<1>21. \A i \in 1 .. m : img[5 + i] = <<"call", p.notmain[i]>>
  BY <1>5, <1>19, Zenon
<1> QED BY <1>1, <1>8, <1>17, <1>18, <1>20, <1>21 DEF m, name, c2

\* The image of p at the beginning of the words, the first z of them cleared.
Holds(tail, p, z) ==
  /\ Len(Os!pitag_linker(p)) <= Len(tail)
  /\ \A i \in 1 .. Len(Os!pitag_linker(p)) : tail[i] = IF i <= z THEN Os!Zero ELSE Os!pitag_linker(p)[i]

LEMMA LinkHolds ==
  ASSUME NEW p, Prog(p), NEW tail \in Seq(RamWord)
  PROVE  LET img == Os!pitag_linker(p)
             t == img \o SubSeq(tail, Len(img) + 1, Len(tail))
         IN t \in Seq(RamWord) /\ Holds(t, p, 0)
<1> DEFINE img == Os!pitag_linker(p)
           rest == SubSeq(tail, Len(img) + 1, Len(tail))
<1>1. img \in Seq(RamWord)
  BY Images
<1> HIDE DEF img
<1>2. rest \in Seq(RamWord)
  <2>1. Len(img) \in Nat /\ Len(tail) \in Nat
    BY <1>1
  <2>2. CASE Len(img) <= Len(tail)
    <3>1. Len(img) + 1 \in 1 .. Len(tail) + 1 /\ Len(tail) \in (Len(img) + 1) - 1 .. Len(tail)
      BY <2>1, <2>2
    <3> QED BY <3>1, SubSeqProperties
  <2>3. CASE Len(tail) < Len(img)
    <3>1. rest = <<>>
      BY <2>1, <2>3
    <3>2. <<>> \in Seq(RamWord)
      OBVIOUS
    <3> HIDE DEF rest
    <3> QED BY <3>1, <3>2
  <2> QED BY <2>1, <2>2, <2>3
<1> HIDE DEF rest
<1> DEFINE t == img \o rest
<1>3. /\ t \in Seq(RamWord) /\ Len(t) = Len(img) + Len(rest) /\ \A i \in 1 .. Len(img) : t[i] = img[i]
  BY <1>1, <1>2, Joined
<1> HIDE DEF t
<1>4. Len(img) <= Len(t)
  BY <1>1, <1>2, <1>3
<1>5. \A i \in 1 .. Len(img) : ~(i <= 0)
  BY <1>1
<1>6. Holds(t, p, 0)
  BY <1>3, <1>4, <1>5, Zenon DEF Holds, img
<1> QED BY <1>3, <1>6, Zenon DEF t, rest, img

LEMMA Different ==
  /\ Os!Zero # Os!LINK_ADDR /\ Os!Garbage # Os!LINK_ADDR /\ Os!Zero[2] = 0 /\ Os!LINK_ADDR[1] = "addr"
  /\ \A k : Os!Count(k)[2] = k
  /\ \A x : <<"name", x>>[1] = "name" /\ <<"name", x>>[2] = x /\ <<"call", x>>[2] = x
BY DEF Os!Zero, Os!LINK_ADDR, Os!Garbage, Os!Count

LEMMA ClearHolds ==
  ASSUME NEW tail \in Seq(RamWord), NEW b \in Nat
  PROVE  LET t == [i \in DOMAIN tail |-> IF i <= b THEN Os!Zero ELSE tail[i]]
         IN /\ t \in Seq(RamWord) /\ Len(t) = Len(tail)
            /\ Len(tail) >= 5 /\ tail[5] # Os!LINK_ADDR => t[5] # Os!LINK_ADDR
            /\ \A p, z : Prog(p) /\ z \in Nat /\ Holds(tail, p, z) => \E y \in Nat : Holds(t, p, y)
<1> DEFINE t == [i \in DOMAIN tail |-> IF i <= b THEN Os!Zero ELSE tail[i]]
<1>1. Os!Zero \in RamWord
  BY Zenon DEF RamWord
<1>2. /\ t \in Seq(RamWord) /\ Len(t) = Len(tail)
      /\ \A i \in 1 .. Len(tail) : t[i] = IF i <= b THEN Os!Zero ELSE tail[i]
  BY <1>1
<1> HIDE DEF t
<1>3. Len(tail) >= 5 /\ tail[5] # Os!LINK_ADDR => t[5] # Os!LINK_ADDR
  BY <1>2, Different
<1>4. ASSUME NEW p, NEW z \in Nat, Prog(p), Holds(tail, p, z)
      PROVE  \E y \in Nat : Holds(t, p, y)
  <2> DEFINE img == Os!pitag_linker(p)
             y == IF z <= b THEN b ELSE z
  <2>1. img \in Seq(RamWord)
    BY <1>4, Images
  <2>2. Len(img) <= Len(tail) /\ \A i \in 1 .. Len(img) : tail[i] = IF i <= z THEN Os!Zero ELSE img[i]
    BY <1>4 DEF Holds
  <2> HIDE DEF img
  <2>3. y \in Nat
    OBVIOUS
  <2>4. \A i \in 1 .. Len(img) : t[i] = IF i <= y THEN Os!Zero ELSE img[i]
    BY <1>2, <2>1, <2>2
  <2> HIDE DEF y
  <2>5. Holds(t, p, y)
    BY <1>2, <2>2, <2>4 DEF Holds, img
  <2> QED BY <2>3, <2>5
<1> QED BY <1>2, <1>3, <1>4 DEF t

LEMMA LoadHolds ==
  ASSUME NEW p, Prog(p), NEW tail \in Seq(RamWord), NEW z \in Nat, Holds(tail, p, z), tail[5] = Os!LINK_ADDR
  PROVE  LET b == tail[3][2]
             user == SubSeq(tail, 5, 4 + b)
         IN /\ user \in Seq(RamWord) /\ tail[5 + b] \in RamWord
            /\ \/ user = Os!Binary(p) /\ tail[5 + b] = <<"name", p.name>>
               \/ z # 0 /\ tail[5 + b] = Os!LINK_ADDR
<1> DEFINE img == Os!pitag_linker(p)
           m == Len(p.notmain)
           b == tail[3][2]
           user == SubSeq(tail, 5, 4 + b)
<1>1. /\ m \in Nat /\ img \in Seq(RamWord) /\ Len(img) = m + 6
      /\ img[3] = Os!Count(m + 1) /\ img[5] = Os!LINK_ADDR /\ img[6 + m] = <<"name", p.name>>
      /\ Os!Binary(p) \in Seq(RamWord) /\ Len(Os!Binary(p)) = m + 1
      /\ \A i \in 1 .. m + 1 : Os!Binary(p)[i] = img[4 + i]
  BY Images
<1>2. Len(img) <= Len(tail) /\ \A i \in 1 .. Len(img) : tail[i] = IF i <= z THEN Os!Zero ELSE img[i]
  BY DEF Holds
<1> HIDE DEF img, m
<1>3. z <= 4
  <2>1. 5 \in 1 .. Len(img)
    BY <1>1
  <2> QED BY <1>2, <2>1, Different
<1>4. CASE z <= 2
  <2>1. tail[3] = img[3]
    BY <1>1, <1>2, <1>4
  <2>2. b = m + 1
    BY <1>1, <2>1, Different
  <2> HIDE DEF b
  <2>3. tail[5 + b] = img[6 + m]
    BY <1>1, <1>2, <1>4, <2>2
  <2>4. 4 + b \in 4 .. Len(tail) /\ 5 \in 1 .. Len(tail) + 1 /\ 5 - 1 = 4
    BY <1>1, <1>2, <2>2
  <2>5. /\ user \in Seq(RamWord) /\ Len(user) = m + 1 /\ \A i \in 1 .. m + 1 : user[i] = tail[4 + i]
    <3>1. user \in Seq(RamWord)
      BY <2>4, SubSeqProperties
    <3>2. Len(user) = m + 1 /\ \A i \in 1 .. m + 1 : user[i] = tail[4 + i]
      BY <1>1, <2>2, <2>4
    <3> QED BY <3>1, <3>2
  <2> HIDE DEF user
  <2>6. \A i \in 1 .. m + 1 : user[i] = Os!Binary(p)[i]
    BY <1>1, <1>2, <1>4, <2>5
  <2>7. user = Os!Binary(p)
    BY <1>1, <2>5, <2>6, SeqEqual
  <2>8. tail[5 + b] \in RamWord
    BY <1>1, <1>2, <2>2
  <2>9. tail[5 + b] = <<"name", p.name>>
    BY <1>1, <2>3, Zenon
  <2> QED BY <2>5, <2>7, <2>8, <2>9, Zenon DEF user, b
<1>5. CASE z > 2
  <2>1. tail[3] = Os!Zero
    BY <1>1, <1>2, <1>5
  <2>2. b = 0
    BY <2>1, Different
  <2> HIDE DEF b
  <2>3. user = <<>> /\ z # 0
    BY <1>5, <2>2
  <2>4. tail[5 + b] = Os!LINK_ADDR /\ tail[5 + b] \in RamWord /\ <<>> \in Seq(RamWord)
    BY <1>1, <1>2, <2>2
  <2> HIDE DEF user
  <2>5. user \in Seq(RamWord)
    BY <2>3, <2>4
  <2> QED BY <2>3, <2>4, <2>5, Zenon DEF user, b
<1> QED BY <1>4, <1>5

(* What the kernel knows of the program linked last.                       *)
OsState ==
  /\ os \in [part : Parts, bss : BssSizes] /\ linked \in Os!Programs
  /\ ram \in [tail : Seq(RamWord), user : Seq(RamWord), prog_name : RamWord]
  /\ osstep \in {"off", "custom_loader", "bss", "notmain", "user", "exited", "panicked"}
TailHolds ==
  \/ ~boots.whole /\ Len(ram.tail) >= 5 /\ ram.tail[5] # Os!LINK_ADDR
  \/ \E z \in Nat : Holds(ram.tail, linked, z) /\ (osstep = "custom_loader" /\ boots.whole => z = 0)
Loaded == ram.user = Os!Binary(linked) /\ ram.prog_name = <<"name", linked.name>>
LoaderLoads ==
  /\ osstep \in {"custom_loader", "bss", "notmain"} => printed = <<>>
  /\ osstep \in {"bss", "notmain"} => Loaded \/ (~boots.whole /\ ram.prog_name = Os!LINK_ADDR)
\* After k calls of all.
Made(all, k) ==
  /\ k < Len(all) /\ todo = SubSeq(all, k + 1, Len(all)) /\ printed = [i \in 1 .. k |-> all[i].arg]
  /\ \A j \in 1 .. k : all[j].no # "EXIT"
UserCalls == osstep = "user" => Loaded /\ \E k \in Nat : Made(Os!_start(linked.notmain), k)
OsInv == OsState /\ TailHolds /\ LoaderLoads /\ UserCalls /\ Os!ExitsAsLinked

LEMMA OsStarts ==
  ASSUME Os!OsAssumption, Os!Init
  PROVE  OsInv
<1>1. Os!Garbage \in RamWord
  BY Zenon DEF RamWord
<1> DEFINE blank == [i \in 1 .. 10 |-> Os!Garbage]
<1>2. blank \in Seq(RamWord) /\ Len(blank) = 10 /\ blank[5] = Os!Garbage /\ <<>> \in Seq(RamWord)
  BY <1>1
<1> HIDE DEF blank
<1>3. ram = [tail |-> blank, user |-> <<>>, prog_name |-> Os!Garbage] /\ osstep = "off" /\ boots.whole = FALSE
  BY DEF Os!Init, blank
<1>4. OsState
  BY <1>1, <1>2, <1>3 DEF OsState, Os!Init
<1>5. TailHolds
  <2>1. ram.tail = blank /\ ~boots.whole /\ blank[5] # Os!LINK_ADDR /\ Len(blank) >= 5
    BY <1>2, <1>3, Different
  <2> QED BY <2>1, Zenon DEF TailHolds
<1> QED BY <1>3, <1>4, <1>5 DEF OsInv, LoaderLoads, UserCalls, Os!ExitsAsLinked

LEMMA BootKeeps ==
  ASSUME Os!OsAssumption, OsInv, Os!Boot
  PROVE  OsInv'
<1>1. Os!Garbage \in RamWord
  BY Zenon DEF RamWord
<1>2. osstep' = "custom_loader" /\ os' = os /\ printed' = <<>>
  BY DEF Os!Boot
<1>3. LoaderLoads' /\ UserCalls' /\ Os!ExitsAsLinked'
  BY <1>2 DEF LoaderLoads, UserCalls, Os!ExitsAsLinked
<1>4. ram.tail \in Seq(RamWord) /\ ram.user \in Seq(RamWord)
  BY DEF OsInv, OsState
<1>5. ASSUME NEW p \in Os!Programs, linked' = p,
             ram' = [ram EXCEPT !.tail = Os!pitag_linker(p) \o SubSeq(@, Len(Os!pitag_linker(p)) + 1, Len(@)),
                                !.prog_name = Os!Garbage]
      PROVE  OsState' /\ TailHolds'
  <2>1. Prog(p)
    BY ProgramsAre
  <2>2. PICK t : t = Os!pitag_linker(p) \o SubSeq(ram.tail, Len(Os!pitag_linker(p)) + 1, Len(ram.tail))
    OBVIOUS
  <2>3. t \in Seq(RamWord) /\ Holds(t, p, 0)
    BY <1>4, <2>1, <2>2, LinkHolds, Zenon
  <2>4. ram' = [ram EXCEPT !.tail = t, !.prog_name = Os!Garbage]
    BY <1>5, <2>2, Zenon
  <2>5. ram' \in [tail : Seq(RamWord), user : Seq(RamWord), prog_name : RamWord] /\ ram'.tail = t
    BY <1>1, <2>3, <2>4 DEF OsInv, OsState
  <2>6. OsState'
    BY <1>2, <1>5, <2>5 DEF OsInv, OsState
  <2>7. Holds(ram'.tail, linked', 0) /\ 0 \in Nat
    BY <1>5, <2>3, <2>5
  <2>8. TailHolds'
    BY <2>7, Zenon DEF TailHolds
  <2> QED BY <2>6, <2>8
<1>6. ASSUME linked' = linked, ram' = [ram EXCEPT !.prog_name = Os!Garbage], boots'.whole = FALSE
      PROVE  OsState' /\ TailHolds'
  <2>1. ram' \in [tail : Seq(RamWord), user : Seq(RamWord), prog_name : RamWord] /\ ram'.tail = ram.tail
    BY <1>1, <1>6 DEF OsInv, OsState
  <2>2. OsState'
    BY <1>2, <1>6, <2>1 DEF OsInv, OsState
  <2>3. PICK t, l : t = ram.tail /\ l = linked
    OBVIOUS
  <2>4. (Len(t) >= 5 /\ t[5] # Os!LINK_ADDR) \/ \E z \in Nat : Holds(t, l, z)
    BY <2>3 DEF OsInv, TailHolds
  <2>5. ram'.tail = t /\ linked' = l
    BY <1>6, <2>1, <2>3
  <2>6. TailHolds'
    BY <1>6, <2>4, <2>5, Zenon DEF TailHolds
  <2> QED BY <2>2, <2>6
<1>7. boots' = [n |-> boots.n + 1, whole |-> FALSE] => boots'.whole = FALSE
  OBVIOUS
<1>8. OsState' /\ TailHolds'
  BY <1>5, <1>6, <1>7, Zenon DEF Os!Boot
<1> QED BY <1>3, <1>8 DEF OsInv

LEMMA LoadKeeps ==
  ASSUME Os!OsAssumption, OsInv, Os!_cstart, osstep = "custom_loader"
  PROVE  OsInv'
<1>1. PICK t, l : t = ram.tail /\ l = linked
  OBVIOUS
<1>2. os' = os /\ linked' = l /\ boots' = boots /\ printed' = printed /\ printed = <<>> /\ t \in Seq(RamWord) /\ l \in Os!Programs /\ Prog(l)
  BY <1>1, ProgramsAre DEF Os!_cstart, OsInv, OsState, LoaderLoads
<1>3. \/ ~boots.whole /\ Len(t) >= 5 /\ t[5] # Os!LINK_ADDR
      \/ \E z \in Nat : Holds(t, l, z) /\ (boots.whole => z = 0)
  BY <1>1 DEF OsInv, TailHolds
<1>4. CASE t[5] = Os!LINK_ADDR
  <2>1. PICK z \in Nat : Holds(t, l, z) /\ (boots.whole => z = 0)
    BY <1>3, <1>4
  <2>2. PICK b, user : b = t[3][2] /\ user = SubSeq(t, 5, 4 + b)
    OBVIOUS
  <2>3. /\ user \in Seq(RamWord) /\ t[5 + b] \in RamWord
        /\ \/ user = Os!Binary(l) /\ t[5 + b] = <<"name", l.name>>
           \/ z # 0 /\ t[5 + b] = Os!LINK_ADDR
    BY <1>2, <1>4, <2>1, <2>2, LoadHolds, Zenon
  <2>4. osstep' = "bss" /\ ram' = [ram EXCEPT !.user = user, !.prog_name = t[5 + b]]
    BY <1>1, <1>4, <2>2 DEF Os!_cstart, Os!LoadOk, Os!custom_loader
  <2>5. /\ ram' \in [tail : Seq(RamWord), user : Seq(RamWord), prog_name : RamWord]
        /\ ram'.tail = t /\ ram'.user = user /\ ram'.prog_name = t[5 + b]
    BY <1>1, <2>3, <2>4 DEF OsInv, OsState
  <2>6. OsState'
    BY <1>2, <2>4, <2>5 DEF OsInv, OsState
  <2>7. TailHolds'
    BY <1>2, <2>1, <2>4, <2>5 DEF TailHolds
  <2>8. LoaderLoads'
    BY <1>2, <2>1, <2>3, <2>5 DEF LoaderLoads, Loaded
  <2>9. UserCalls' /\ Os!ExitsAsLinked'
    BY <2>4 DEF UserCalls, Os!ExitsAsLinked
  <2> QED BY <2>6, <2>7, <2>8, <2>9 DEF OsInv
<1>5. CASE t[5] # Os!LINK_ADDR
  <2>1. osstep' = "panicked" /\ ram' = ram
    BY <1>1, <1>5 DEF Os!_cstart, Os!LoadOk
  <2>2. ~boots.whole
    <3> SUFFICES ASSUME boots.whole
                 PROVE  FALSE
      OBVIOUS
    <3>1. Holds(t, l, 0)
      BY <1>3
    <3>2. Len(Os!pitag_linker(l)) >= 5 /\ Os!pitag_linker(l)[5] = Os!LINK_ADDR /\ Len(Os!pitag_linker(l)) \in Nat
      BY <1>2, Images
    <3> QED BY <1>5, <3>1, <3>2 DEF Holds
  <2>3. OsState'
    BY <1>1, <1>2, <2>1 DEF OsInv, OsState
  <2>4. TailHolds'
    BY <1>1, <1>2, <1>3, <2>1 DEF TailHolds
  <2>5. LoaderLoads' /\ UserCalls' /\ Os!ExitsAsLinked'
    BY <1>2, <2>1, <2>2 DEF LoaderLoads, UserCalls, Os!ExitsAsLinked
  <2> QED BY <2>3, <2>4, <2>5 DEF OsInv
<1> QED BY <1>4, <1>5

LEMMA ClearKeeps ==
  ASSUME Os!OsAssumption, OsInv, Os!_cstart, osstep = "bss"
  PROVE  OsInv'
<1>1. PICK t, l, b : t = ram.tail /\ l = linked /\ b = os.bss
  OBVIOUS
<1>2. /\ os' = os /\ linked' = l /\ boots' = boots /\ printed' = printed /\ t \in Seq(RamWord) /\ l \in Os!Programs /\ Prog(l)
      /\ b \in Nat /\ osstep' = "notmain"
  BY <1>1, ProgramsAre DEF Os!_cstart, OsInv, OsState, Os!OsAssumption
<1>3. PICK c : c = [i \in DOMAIN t |-> IF i <= b THEN Os!Zero ELSE t[i]]
  OBVIOUS
<1>4. /\ c \in Seq(RamWord) /\ Len(c) = Len(t)
      /\ Len(t) >= 5 /\ t[5] # Os!LINK_ADDR => c[5] # Os!LINK_ADDR
      /\ \A p, z : Prog(p) /\ z \in Nat /\ Holds(t, p, z) => \E y \in Nat : Holds(c, p, y)
  BY <1>2, <1>3, ClearHolds, Zenon
<1>5. ram' = [ram EXCEPT !.tail = c]
  BY <1>1, <1>3 DEF Os!_cstart, Os!ClearBss
<1>6. /\ ram' \in [tail : Seq(RamWord), user : Seq(RamWord), prog_name : RamWord]
      /\ ram'.tail = c /\ ram'.user = ram.user /\ ram'.prog_name = ram.prog_name
  BY <1>4, <1>5 DEF OsInv, OsState
<1>7. OsState'
  BY <1>1, <1>2, <1>6 DEF OsInv, OsState
<1>8. (~boots.whole /\ Len(t) >= 5 /\ t[5] # Os!LINK_ADDR) \/ \E z \in Nat : Holds(t, l, z)
  BY <1>1 DEF OsInv, TailHolds
<1>9. (~boots.whole /\ Len(c) >= 5 /\ c[5] # Os!LINK_ADDR) \/ \E z \in Nat : Holds(c, l, z)
  BY <1>2, <1>4, <1>8
<1>10. TailHolds'
  BY <1>2, <1>6, <1>9 DEF TailHolds
<1>11. LoaderLoads'
  BY <1>1, <1>2, <1>6 DEF OsInv, LoaderLoads, Loaded
<1>12. UserCalls' /\ Os!ExitsAsLinked'
  BY <1>2 DEF UserCalls, Os!ExitsAsLinked
<1> QED BY <1>7, <1>10, <1>11, <1>12 DEF OsInv

\* What the loader copied is called as the program was written.
LEMMA CopiedCalls ==
  ASSUME NEW p, Prog(p)
  PROVE  [i \in 1 .. Len(Os!Binary(p)) - 1 |-> Os!Binary(p)[i + 1][2]] = p.notmain
<1> DEFINE m == Len(p.notmain)
           bin == Os!Binary(p)
<1>1. m \in Nat /\ p.notmain \in Seq(Call)
  BY DEF Prog
<1>2. Len(bin) - 1 = m /\ \A i \in 1 .. m : bin[i + 1] = <<"call", p.notmain[i]>>
  <2>1. /\ Len(bin) = m + 1 /\ \A i \in 1 .. m + 1 : bin[i] = Os!pitag_linker(p)[4 + i]
        /\ \A i \in 1 .. m : Os!pitag_linker(p)[5 + i] = <<"call", p.notmain[i]>>
    BY Images
  <2> HIDE DEF m, bin
  <2>2. Len(bin) - 1 = m
    BY <1>1, <2>1
  <2>3. ASSUME NEW i \in 1 .. m
        PROVE  bin[i + 1] = <<"call", p.notmain[i]>>
    <3>1. i + 1 \in 1 .. m + 1 /\ 4 + (i + 1) = 5 + i
      BY <1>1
    <3> QED BY <2>1, <3>1, Zenon
  <2> QED BY <2>2, <2>3
<1> HIDE DEF bin, m
<1>3. \A i \in 1 .. m : bin[i + 1][2] = p.notmain[i]
  BY <1>2, Different, Zenon
<1> DEFINE f == [i \in 1 .. m |-> bin[i + 1][2]]
<1>4. \A i \in 1 .. m : f[i] = p.notmain[i]
  BY <1>3, Zenon
<1>5. f = [i \in 1 .. m |-> f[i]]
  OBVIOUS
<1> HIDE DEF f
<1>6. f = p.notmain
  <2>1. PICK q : q = p.notmain
    OBVIOUS
  <2>2. q \in Seq(Call) /\ m = Len(q)
    BY <1>1, <2>1 DEF m
  <2>3. \A i \in 1 .. m : f[i] = q[i] /\ q[i] \in Call
    BY <1>4, <2>1, <2>2
  <2>4. f \in [1 .. m -> Call]
    BY <1>5, <2>3, Zenon
  <2>5. f \in Seq(Call) /\ Len(f) = m
    BY <1>1, <2>4
  <2>6. f = q
    BY <2>2, <2>3, <2>5, SeqEqual
  <2> QED BY <2>1, <2>6
<1> QED BY <1>2, <1>6, Zenon DEF f, bin

LEMMA NotmainKeeps ==
  ASSUME Os!OsAssumption, OsInv, Os!notmain
  PROVE  OsInv'
<1>1. osstep = "notmain" /\ os' = os /\ linked' = linked /\ ram' = ram /\ printed' = printed /\ boots' = boots
  BY DEF Os!notmain
<1>2. Loaded \/ (~boots.whole /\ ram.prog_name = Os!LINK_ADDR)
  BY <1>1 DEF OsInv, LoaderLoads
<1>3. Prog(linked) /\ linked \in Os!Programs
  BY ProgramsAre DEF OsInv, OsState
<1>4. CASE Os!program_get /\ os.part = 0
  <2>1. /\ osstep' = "user"
        /\ todo' = Os!_start([i \in 1 .. Len(ram.user) - 1 |-> ram.user[i + 1][2]])
    BY <1>4, Zenon DEF Os!notmain
  <2>2. Loaded
    <3> SUFFICES ASSUME ram.prog_name = Os!LINK_ADDR
                 PROVE  FALSE
      BY <1>2
    <3>1. ram.prog_name[1] = "addr"
      BY Different
    <3>2. Os!NameNow = ram.prog_name
      BY <3>1 DEF Os!NameNow
    <3> QED BY <1>4, <3>1, <3>2 DEF Os!program_get
  <2>3. PICK all : all = Os!_start(linked.notmain)
    OBVIOUS
  <2>4. todo' = all
    BY <1>3, <2>1, <2>2, <2>3, CopiedCalls, Zenon DEF Loaded
  <2>5. all \in Seq(SysCall({"PUTC", "PUT_HEX", "EXIT", "GET_CPSR"})) /\ Len(all) > 0
    <3> DEFINE Nos == {"PUTC", "PUT_HEX", "EXIT", "GET_CPSR"}
    <3>1. "PUTC" \in Nos /\ "PUT_HEX" \in Nos /\ "EXIT" \in Nos /\ "GET_CPSR" \in Nos
      OBVIOUS
    <3> HIDE DEF Nos
    <3>2. all \in Seq(SysCall(Nos)) /\ Len(all) > 0
      BY <1>3, <2>3, <3>1, ProgramCalls, Zenon
    <3> QED BY <3>2 DEF Nos
  <2>6. printed = <<>>
    BY <1>1 DEF OsInv, LoaderLoads
  <2>7. all = SubSeq(all, 0 + 1, Len(all)) /\ <<>> = [i \in 1 .. 0 |-> all[i].arg]
    BY <2>5
  <2> HIDE DEF Made
  <2>8. Made(all, 0)'
    <3>1. 0 < Len(all) /\ \A j \in 1 .. 0 : all[j].no # "EXIT"
      BY <2>5
    <3> QED BY <1>1, <2>4, <2>6, <2>7, <3>1, Zenon DEF Made
  <2>9. UserCalls'
    <3>1. Loaded'
      BY <1>1, <2>2 DEF Loaded
    <3>2. all = Os!_start(linked'.notmain) /\ 0 \in Nat
      BY <1>1, <2>3
    <3> QED BY <2>8, <3>1, <3>2, Zenon DEF UserCalls
  <2>10. OsState' /\ TailHolds'
    BY <1>1, <2>1 DEF OsInv, OsState, TailHolds
  <2>11. LoaderLoads' /\ Os!ExitsAsLinked'
    BY <2>1 DEF LoaderLoads, Os!ExitsAsLinked
  <2> QED BY <2>9, <2>10, <2>11 DEF OsInv
<1>5. CASE ~(Os!program_get /\ os.part = 0)
  <2>1. osstep' = "panicked" /\ todo' = todo
    BY <1>5, Zenon DEF Os!notmain
  <2>2. OsState' /\ TailHolds'
    BY <1>1, <2>1 DEF OsInv, OsState, TailHolds
  <2>3. boots.whole => os.part # 0
    <3> SUFFICES ASSUME boots.whole
                 PROVE  Os!program_get
      BY <1>5
    <3>1. ram.prog_name = <<"name", linked.name>>
      BY <1>2 DEF Loaded
    <3>2. ram.prog_name[1] = "name"
      BY <3>1
    <3>3. Os!NameNow = ram.prog_name
      BY <3>2 DEF Os!NameNow
    <3> QED BY <3>2, <3>3 DEF Os!program_get
  <2>4. LoaderLoads' /\ UserCalls' /\ Os!ExitsAsLinked'
    BY <1>1, <2>1, <2>3 DEF LoaderLoads, UserCalls, Os!ExitsAsLinked
  <2> QED BY <2>2, <2>4 DEF OsInv
<1> QED BY <1>4, <1>5

LEMMA SyscallKeeps ==
  ASSUME Os!OsAssumption, OsInv, Os!do_syscall
  PROVE  OsInv'
<1>1. osstep = "user" /\ os' = os /\ linked' = linked /\ ram' = ram /\ boots' = boots /\ todo' = Tail(todo)
  BY DEF Os!do_syscall
<1>2. Prog(linked) /\ linked \in Os!Programs
  BY ProgramsAre DEF OsInv, OsState
<1>3. PICK all, l : all = Os!_start(linked.notmain) /\ l = linked
  OBVIOUS
<1> DEFINE Served == {"PUTC", "PUT_HEX", "EXIT"}
           Nos == {"PUTC", "PUT_HEX", "EXIT", "GET_CPSR"}
<1>4. all \in Seq(SysCall(Nos)) /\ Len(all) > 0 /\ all[Len(all)].no = "EXIT"
  <2>1. "PUTC" \in Nos /\ "PUT_HEX" \in Nos /\ "EXIT" \in Nos /\ "GET_CPSR" \in Nos
    OBVIOUS
  <2> HIDE DEF Nos
  <2> QED BY <1>2, <1>3, <2>1, ProgramCalls, Zenon
<1>5. ~Os!Undefined(l) => all \in Seq(SysCall(Served))
  <2>1. "PUTC" \in Served /\ "PUT_HEX" \in Served /\ "EXIT" \in Served
    OBVIOUS
  <2> HIDE DEF Served
  <2> QED BY <1>2, <1>3, <2>1, ProgramCalls, Zenon
<1>6. PICK k \in Nat : Made(all, k)
  BY <1>1, <1>3 DEF OsInv, UserCalls
<1>7. Loaded
  BY <1>1 DEF OsInv, UserCalls
<1>8. PICK s : s = all[k + 1]
  OBVIOUS
<1>9. /\ k + 1 \in 1 .. Len(all) /\ s.no \in Nos /\ (~Os!Undefined(l) => s.no \in Served)
      /\ \A j \in 1 .. k : all[j].no # "EXIT"
  <2>1. k + 1 \in 1 .. Len(all) /\ \A j \in 1 .. k : all[j].no # "EXIT"
    BY <1>4, <1>6 DEF Made
  <2>2. s \in SysCall(Nos)
    BY <1>4, <1>8, <2>1
  <2>3. ~Os!Undefined(l) => s \in SysCall(Served)
    BY <1>5, <1>8, <2>1
  <2> QED BY <2>1, <2>2, <2>3 DEF SysCall
<1>10. /\ Head(todo) = s /\ todo' = SubSeq(all, k + 1 + 1, Len(all))
       /\ printed = [i \in 1 .. k |-> all[i].arg]
  <2>1. todo = SubSeq(all, k + 1, Len(all)) /\ printed = [i \in 1 .. k |-> all[i].arg]
    BY <1>6 DEF Made
  <2>2. Head(SubSeq(all, k + 1, Len(all))) = all[k + 1]
    BY <1>4, <1>9
  <2>3. Tail(SubSeq(all, k + 1, Len(all))) = SubSeq(all, k + 1 + 1, Len(all))
    BY <1>4, <1>9
  <2> QED BY <1>1, <1>8, <2>1, <2>2, <2>3
<1>11. osstep' \in {"user", "exited", "panicked"} => OsState' /\ TailHolds' /\ LoaderLoads'
  BY <1>1 DEF OsInv, OsState, TailHolds, LoaderLoads
<1>12. Loaded' /\ all = Os!_start(linked'.notmain)
  BY <1>1, <1>3, <1>7 DEF Loaded
<1> HIDE DEF Made
<1>13. CASE s.no \in {"PUTC", "PUT_HEX"}
  <2>1. osstep' = "user" /\ printed' = Append(printed, s.arg)
    BY <1>1, <1>10, <1>13, Zenon DEF Os!do_syscall
  <2>2. k + 1 < Len(all)
    BY <1>4, <1>8, <1>9, <1>13
  <2>3. printed' = [i \in 1 .. k + 1 |-> all[i].arg]
    <3>1. Append([i \in 1 .. k |-> all[i].arg], all[k + 1].arg) = [i \in 1 .. k + 1 |-> all[i].arg]
      OBVIOUS
    <3> QED BY <1>8, <1>10, <2>1, <3>1
  <2>4. \A j \in 1 .. k + 1 : all[j].no # "EXIT"
    BY <1>8, <1>9, <1>13
  <2>5. Made(all, k + 1)'
    BY <1>10, <2>2, <2>3, <2>4, Zenon DEF Made
  <2>6. UserCalls' /\ k + 1 \in Nat
    BY <1>12, <2>5 DEF UserCalls
  <2>7. Os!ExitsAsLinked'
    BY <2>1 DEF Os!ExitsAsLinked
  <2> QED BY <1>11, <2>1, <2>6, <2>7 DEF OsInv
<1>14. CASE s.no = "EXIT"
  <2>1. s.no \notin {"PUTC", "PUT_HEX"}
    BY <1>14
  <2>2. osstep' = "exited" /\ printed' = printed \o <<Os!NameNow[2], s.arg>>
    BY <1>10, <1>14, <2>1, Zenon DEF Os!do_syscall
  <2>3. Os!NameNow[2] = l.name
    <3>1. ram.prog_name = <<"name", l.name>>
      BY <1>3, <1>7 DEF Loaded
    <3>2. ram.prog_name[1] = "name" /\ ram.prog_name[2] = l.name
      BY <3>1
    <3>3. Os!NameNow = ram.prog_name
      BY <3>2 DEF Os!NameNow
    <3> QED BY <3>2, <3>3
  <2> DEFINE IsExit(i) == i \in 1 .. Len(all) /\ all[i].no = "EXIT" /\ \A j \in 1 .. i - 1 : all[j].no # "EXIT"
  <2>4. IsExit(k + 1)
    BY <1>4, <1>8, <1>9, <1>14
  <2>5. \A i : IsExit(i) => i = k + 1
    BY <1>4, <1>9, <2>4
  <2>6. k + 1 = CHOOSE i \in 1 .. Len(all) : all[i].no = "EXIT" /\ \A j \in 1 .. i - 1 : all[j].no # "EXIT"
    BY <2>4, <2>5
  <2>7. Os!Said(l) = [i \in 1 .. (k + 1) - 1 |-> all[i].arg] \o <<l.name, all[k + 1].arg>>
    BY <1>3, <2>6, Zenon DEF Os!Said
  <2>8. (k + 1) - 1 = k
    OBVIOUS
  <2>9. printed' = Os!Said(l)
    BY <1>8, <1>10, <2>2, <2>3, <2>7, <2>8, Zenon
  <2>10. Os!ExitsAsLinked'
    BY <1>1, <1>3, <2>2, <2>9 DEF Os!ExitsAsLinked
  <2>11. UserCalls'
    BY <2>2 DEF UserCalls
  <2> QED BY <1>11, <2>2, <2>10, <2>11 DEF OsInv
<1>15. CASE s.no = "GET_CPSR"
  <2>1. s.no \notin {"PUTC", "PUT_HEX"} /\ s.no # "EXIT"
    BY <1>15
  <2>2. osstep' = "panicked"
    BY <1>10, <2>1, Zenon DEF Os!do_syscall
  <2>3. Os!Undefined(l)
    BY <1>9, <1>15
  <2>4. Os!ExitsAsLinked' /\ UserCalls'
    BY <1>1, <1>3, <2>2, <2>3 DEF Os!ExitsAsLinked, UserCalls
  <2> QED BY <1>11, <2>2, <2>4 DEF OsInv
<1> QED BY <1>9, <1>13, <1>14, <1>15

(* A run that exits has printed what the program linked last prints, in    *)
(* order, with its name and its exit code, and one that panics although a  *)
(* program was linked is of a part that has no user mode, or made a call   *)
(* the kernel does not know: for every set of programs, every size of the  *)
(* bss, and any number of boots with and without a program.                *)
THEOREM ProgramsExitAsLinked ==
  ASSUME Os!OsAssumption
  PROVE  Os!Spec => []Os!ExitsAsLinked
<1>1. Os!Init => OsInv
  BY OsStarts
<1>2. OsInv /\ [Os!Next]_Os!osvars => OsInv'
  <2> SUFFICES ASSUME OsInv, [Os!Next]_Os!osvars
               PROVE  OsInv'
    OBVIOUS
  <2>1. CASE Os!Boot
    BY <2>1, BootKeeps
  <2>2. CASE Os!_cstart
    <3>1. osstep = "custom_loader" \/ osstep = "bss"
      BY <2>2 DEF Os!_cstart
    <3> QED BY <2>2, <3>1, LoadKeeps, ClearKeeps
  <2>3. CASE Os!notmain
    BY <2>3, NotmainKeeps
  <2>4. CASE Os!do_syscall
    BY <2>4, SyscallKeeps
  <2>5. CASE UNCHANGED Os!osvars
    <3>1. UNCHANGED <<os, linked, ram, osstep, todo, printed, boots>>
      BY <2>5, Zenon DEF Os!osvars
    <3> QED BY <3>1 DEF OsInv, OsState, TailHolds, LoaderLoads, Loaded, UserCalls, Made, Os!ExitsAsLinked
  <2> QED BY <2>1, <2>2, <2>3, <2>4, <2>5, Zenon DEF Os!Next, Os!Runs
<1>3. OsInv => Os!ExitsAsLinked
  BY DEF OsInv
<1> QED BY <1>1, <1>2, <1>3, PTL DEF Os!Spec
-----------------------------------------------------------------------------
(* The exit string.  Reach lists the static position of pi_done after each *)
(* character seen, through however many reads; what stands before a        *)
(* position is the beginning of the exit string of that length.            *)
Char == STRING \cup {"D", "O", "N", "E", "!", "nl", "sp"}
Exit == Boot!exit_string
Reach(h, s, from) ==
  /\ h \in [0 .. Len(s) -> 0 .. 8] /\ h[0] = from
  /\ \A i \in 1 .. Len(s) : h[i] = Boot!Matched(h[i - 1], s[i])

LEMMA ExitIs == Exit \in Seq(Char) /\ Len(Exit) = 8
BY DEF Exit, Boot!exit_string, Char

LEMMA MatchedIs ==
  ASSUME NEW p \in 0 .. 8, NEW c
  PROVE  /\ Boot!Matched(p, c) \in 0 .. 8
         /\ p = 8 => Boot!Matched(p, c) = 8
         /\ p # 8 /\ c = Exit[p + 1] => Boot!Matched(p, c) = p + 1
         /\ p # 8 /\ c # Exit[p + 1] => Boot!Matched(p, c) = 0
<1> DEFINE E == Exit
<1>1. Boot!Matched(p, c) = IF p = 8 THEN p ELSE IF c = E[p + 1] THEN p + 1 ELSE 0
  BY ExitIs, Zenon DEF Boot!Matched, Exit
<1> HIDE DEF E
<1>2. p \in Int /\ 0 <= p /\ p <= 8
  OBVIOUS
<1>3. /\ Boot!Matched(p, c) \in 0 .. 8
      /\ p = 8 => Boot!Matched(p, c) = 8
      /\ p # 8 /\ c = E[p + 1] => Boot!Matched(p, c) = p + 1
      /\ p # 8 /\ c # E[p + 1] => Boot!Matched(p, c) = 0
  BY <1>1, <1>2
<1> QED BY <1>3, Zenon DEF E

\* There is such a list, and pi_done is its last entry.
LEMMA DoneReaches ==
  ASSUME NEW s \in Seq(Char), NEW from \in 0 .. 8
  PROVE  \E h : Reach(h, s, from) /\ Boot!pi_done(from, s) = h[Len(s)]
<1> DEFINE len == Len(s)
           Ext(g, i) == IF i = 0 THEN from ELSE Boot!Matched(g[i - 1], s[i])
           IsRun(g) == g = [i \in 0 .. len |-> IF i = 0 THEN from ELSE Boot!Matched(g[i - 1], s[i])]
           Run(k) == \E g \in [0 .. k -> 0 .. 8] : \A i \in 0 .. k : g[i] = Ext(g, i)
           K == {k \in Nat : Run(k)}
<1>1. len \in Nat
  OBVIOUS
<1>2. 0 \in K
  <2> DEFINE g == [i \in 0 .. 0 |-> from]
  <2>1. g \in [0 .. 0 -> 0 .. 8] /\ \A i \in 0 .. 0 : g[i] = from /\ i = 0
    OBVIOUS
  <2> HIDE DEF g
  <2>2. \A i \in 0 .. 0 : g[i] = Ext(g, i)
    BY <2>1
  <2>3. Run(0)
    BY <2>1, <2>2, Zenon
  <2> QED BY <2>3
<1>3. ASSUME NEW k \in Nat, k \in K
      PROVE  k + 1 \in K
  <2>1. PICK g \in [0 .. k -> 0 .. 8] : \A i \in 0 .. k : g[i] = Ext(g, i)
    BY <1>3
  <2> DEFINE last == Boot!Matched(g[k], s[k + 1])
             f == [i \in 0 .. k + 1 |-> IF i <= k THEN g[i] ELSE last]
  <2>2. last \in 0 .. 8
    <3>1. g[k] \in 0 .. 8
      OBVIOUS
    <3> QED BY <3>1, MatchedIs
  <2>3. f \in [0 .. k + 1 -> 0 .. 8]
    <3> HIDE DEF last
    <3> QED BY <2>2
  <2>4. \A i \in 0 .. k + 1 : f[i] = Ext(f, i)
    <3> TAKE i \in 0 .. k + 1
    <3>1. CASE i <= k
      <4>1. i \in 0 .. k /\ (i # 0 => i - 1 \in 0 .. k)
        BY <3>1
      <4> HIDE DEF last
      <4>2. f[i] = g[i] /\ (i # 0 => f[i - 1] = g[i - 1])
        BY <4>1
      <4> HIDE DEF f
      <4>3. Ext(f, i) = Ext(g, i)
        BY <4>2
      <4>4. g[i] = Ext(g, i)
        BY <2>1, <4>1, Zenon
      <4> QED BY <4>2, <4>3, <4>4
    <3>2. CASE i = k + 1
      <4>1. i # 0 /\ i - 1 = k /\ ~(i <= k) /\ k \in 0 .. k + 1 /\ k <= k
        BY <3>2
      <4> HIDE DEF last
      <4>2. f[i] = last /\ f[k] = g[k]
        BY <4>1
      <4> HIDE DEF f
      <4>3. Ext(f, i) = Boot!Matched(g[k], s[k + 1])
        BY <3>2, <4>1, <4>2
      <4> QED BY <4>2, <4>3, Zenon DEF last
    <3> QED BY <3>1, <3>2
  <2>5. Run(k + 1)
    <3> HIDE DEF f
    <3> QED BY <2>3, <2>4, Zenon
  <2> QED BY <2>5
<1>4. PICK g \in [0 .. len -> 0 .. 8] : \A i \in 0 .. len : g[i] = Ext(g, i)
  <2> HIDE DEF K
  <2>1. Nat \subseteq K
    BY <1>2, <1>3, SetInduction
  <2> USE DEF K
  <2> HIDE DEF Run, len
  <2>2. Run(len)
    BY <1>1, <2>1
  <2> QED BY <2>2 DEF Run
<1> HIDE DEF len
<1>5. IsRun(g)
  BY <1>4
<1>6. PICK h : h = CHOOSE f : IsRun(f)
  OBVIOUS
<1>7. IsRun(h)
  BY <1>5, <1>6, Zenon
<1>8. Boot!pi_done(from, s) = h[len]
  BY <1>6, Zenon DEF Boot!pi_done, len
<1>9. \A i \in 0 .. len : h[i] = Ext(h, i)
  BY <1>7
<1> DEFINE T == {k \in Nat : k \in 0 .. len => h[k] \in 0 .. 8}
<1>10. \A k \in Nat : k \in T => k + 1 \in T
  <2> SUFFICES ASSUME NEW k \in Nat, k \in T, k + 1 \in 0 .. len
               PROVE  h[k + 1] \in 0 .. 8
    OBVIOUS
  <2>1. h[k] \in 0 .. 8
    BY <1>1
  <2>2. h[k + 1] = Boot!Matched(h[k], s[k + 1])
    <3>1. h[k + 1] = Ext(h, k + 1) /\ k + 1 # 0 /\ (k + 1) - 1 = k
      BY <1>9
    <3> QED BY <3>1
  <2>3. Boot!Matched(h[k], s[k + 1]) \in 0 .. 8
    BY <2>1, MatchedIs
  <2> QED BY <2>2, <2>3
<1>11. 0 \in T
  BY <1>1, <1>9
<1>12. \A k \in 0 .. len : h[k] \in 0 .. 8
  <2> HIDE DEF T
  <2>1. Nat \subseteq T
    BY <1>10, <1>11, SetInduction
  <2> QED BY <1>1, <2>1 DEF T
<1>13. h = [i \in 0 .. len |-> h[i]]
  BY <1>7
<1>14. h \in [0 .. len -> 0 .. 8]
  BY <1>12, <1>13
<1>15. h[0] = from
  BY <1>1, <1>9
<1>16. \A i \in 1 .. len : h[i] = Boot!Matched(h[i - 1], s[i])
  BY <1>1, <1>9
<1>17. Reach(h, s, from)
  BY <1>14, <1>15, <1>16 DEF Reach, len
<1> QED BY <1>8, <1>17 DEF len

\* Reading on.
LEMMA ReachMore ==
  ASSUME NEW s \in Seq(Char), NEW t \in Seq(Char), NEW from \in 0 .. 8, NEW h, Reach(h, s, from),
         NEW g, Reach(g, t, h[Len(s)])
  PROVE  \E f : Reach(f, s \o t, from) /\ f[Len(s \o t)] = g[Len(t)]
<1> DEFINE a == Len(s)
           b == Len(t)
           f == [i \in 0 .. a + b |-> IF i <= a THEN h[i] ELSE g[i - a]]
<1>1. /\ a \in Nat /\ b \in Nat /\ Len(s \o t) = a + b
      /\ \A i \in 1 .. a : (s \o t)[i] = s[i]
      /\ \A i \in 1 .. b : (s \o t)[a + i] = t[i]
  OBVIOUS
<1>2. /\ h \in [0 .. a -> 0 .. 8] /\ h[0] = from /\ \A i \in 1 .. a : h[i] = Boot!Matched(h[i - 1], s[i])
      /\ g \in [0 .. b -> 0 .. 8] /\ g[0] = h[a] /\ \A i \in 1 .. b : g[i] = Boot!Matched(g[i - 1], t[i])
  BY DEF Reach
<1> DEFINE u == s \o t
<1> HIDE DEF a, b, u
<1>3. \A i \in 0 .. a + b : f[i] = IF i <= a THEN h[i] ELSE g[i - a]
  OBVIOUS
<1>4. f \in [0 .. a + b -> 0 .. 8]
  BY <1>1, <1>2
<1> HIDE DEF f
<1>5. ASSUME NEW i \in 1 .. a + b
      PROVE  f[i] = Boot!Matched(f[i - 1], u[i])
  <2>1. CASE i <= a
    <3>1. f[i] = h[i] /\ f[i - 1] = h[i - 1] /\ i \in 1 .. a
      <4>1. i \in 0 .. a + b /\ i - 1 \in 0 .. a + b /\ i - 1 <= a /\ i \in 1 .. a
        BY <1>1, <2>1
      <4> QED BY <1>3, <2>1, <4>1
    <3>2. u[i] = s[i]
      BY <1>1, <3>1 DEF u
    <3> QED BY <1>2, <3>1, <3>2
  <2>2. CASE i > a
    <3>1. PICK j \in 1 .. b : i = a + j
      <4>1. i - a \in 1 .. b /\ i = a + (i - a)
        BY <1>1, <2>2
      <4> QED BY <4>1
    <3>2. f[i] = g[j]
      BY <1>1, <1>3, <3>1
    <3>3. f[i - 1] = g[j - 1]
      <4>1. CASE j = 1
        <5>1. i - 1 = a /\ i - 1 \in 0 .. a + b /\ i - 1 <= a
          BY <1>1, <3>1, <4>1
        <5> QED BY <1>2, <1>3, <4>1, <5>1
      <4>2. CASE j # 1
        <5>1. i - 1 \in 0 .. a + b /\ ~(i - 1 <= a) /\ (i - 1) - a = j - 1
          BY <1>1, <3>1, <4>2
        <5> QED BY <1>3, <5>1
      <4> QED BY <4>1, <4>2
    <3>4. u[i] = t[j]
      BY <1>1, <3>1 DEF u
    <3> QED BY <1>2, <3>2, <3>3, <3>4
  <2> QED BY <1>1, <2>1, <2>2
<1>6. f[0] = from
  BY <1>1, <1>2, <1>3
<1>7. f[a + b] = g[b]
  <2>1. CASE b = 0
    <3>1. a + b \in 0 .. a + b /\ a + b <= a /\ a + b = a
      BY <1>1, <2>1
    <3> QED BY <1>2, <1>3, <2>1, <3>1
  <2>2. CASE b # 0
    <3>1. a + b \in 0 .. a + b /\ ~(a + b <= a) /\ (a + b) - a = b
      BY <1>1, <2>2
    <3> QED BY <1>3, <3>1
  <2> QED BY <2>1, <2>2
<1>8. Len(u) = a + b
  BY <1>1 DEF u
<1>9. Reach(f, u, from)
  BY <1>4, <1>5, <1>6, <1>8 DEF Reach
<1> QED BY <1>7, <1>8, <1>9 DEF u, b

\* The first k characters of the exit string end at m.
EndsAt(s, m, k) == k <= m /\ \A j \in 1 .. k : s[(m - k) + j] = Exit[j]

LEMMA ReachSays ==
  ASSUME NEW s \in Seq(Char), NEW h, Reach(h, s, 0)
  PROVE  \A i \in 0 .. Len(s) :
           /\ h[i] # 8 => EndsAt(s, i, h[i])
           /\ h[i] = 8 => \E m \in 0 .. i : EndsAt(s, m, 8)
<1> DEFINE len == Len(s)
           Says(i) == /\ h[i] # 8 => EndsAt(s, i, h[i])
                      /\ h[i] = 8 => \E m \in 0 .. i : EndsAt(s, m, 8)
           K == {k \in Nat : k \in 0 .. len => Says(k)}
<1>1. /\ len \in Nat /\ h \in [0 .. len -> 0 .. 8] /\ h[0] = 0
      /\ \A i \in 1 .. len : h[i] = Boot!Matched(h[i - 1], s[i])
  BY DEF Reach
<1>2. 0 \in K
  <2>1. EndsAt(s, 0, 0)
    BY DEF EndsAt
  <2>2. Says(0)
    BY <1>1, <2>1
  <2> QED BY <2>2
<1>3. ASSUME NEW k \in Nat, k \in K
      PROVE  k + 1 \in K
  <2> HIDE DEF len, Says
  <2> SUFFICES ASSUME k + 1 \in 0 .. len
               PROVE  Says(k + 1)
    OBVIOUS
  <2>1. k \in 0 .. len /\ k + 1 \in 1 .. len /\ (k + 1) - 1 = k
    BY <1>1
  <2>2. Says(k)
    BY <1>3, <2>1
  <2>3. h[k] \in 0 .. 8 /\ h[k + 1] = Boot!Matched(h[k], s[k + 1])
    BY <1>1, <2>1
  <2>4. CASE h[k] = 8
    <3>1. h[k + 1] = 8
      BY <2>3, <2>4, MatchedIs
    <3>2. PICK m \in 0 .. k : EndsAt(s, m, 8)
      BY <2>2, <2>4 DEF Says
    <3>3. m \in 0 .. k + 1
      OBVIOUS
    <3> QED BY <3>1, <3>2, <3>3 DEF Says
  <2>5. CASE h[k] # 8 /\ s[k + 1] = Exit[h[k] + 1]
    <3>1. h[k + 1] = h[k] + 1
      BY <2>3, <2>5, MatchedIs
    <3>2. EndsAt(s, k, h[k])
      BY <2>2, <2>5 DEF Says
    <3>3. PICK p \in 0 .. 8 : p = h[k]
      BY <2>3
    <3>4. EndsAt(s, k + 1, p + 1)
      <4>1. p <= k /\ \A j \in 1 .. p : s[(k - p) + j] = Exit[j]
        BY <3>2, <3>3 DEF EndsAt
      <4>2. s[k + 1] = Exit[p + 1]
        BY <2>5, <3>3
      <4>3. ASSUME NEW j \in 1 .. p + 1
            PROVE  s[((k + 1) - (p + 1)) + j] = Exit[j]
        <5>1. ((k + 1) - (p + 1)) + j = (k - p) + j /\ (j = p + 1 => (k - p) + j = k + 1)
          OBVIOUS
        <5>2. CASE j = p + 1
          BY <4>2, <5>1, <5>2
        <5>3. CASE j # p + 1
          <6>1. j \in 1 .. p
            BY <5>3
          <6> QED BY <4>1, <5>1, <6>1
        <5> QED BY <5>2, <5>3
      <4> QED BY <4>1, <4>3 DEF EndsAt
    <3>5. h[k + 1] = p + 1 /\ k + 1 \in 0 .. k + 1
      BY <3>1, <3>3
    <3>6. h[k + 1] # 8 => EndsAt(s, k + 1, h[k + 1])
      BY <3>4, <3>5
    <3>7. h[k + 1] = 8 => \E m \in 0 .. k + 1 : EndsAt(s, m, 8)
      BY <3>4, <3>5
    <3> QED BY <3>6, <3>7 DEF Says
  <2>6. CASE h[k] # 8 /\ s[k + 1] # Exit[h[k] + 1]
    <3>1. h[k + 1] = 0
      BY <2>3, <2>6, MatchedIs
    <3>2. EndsAt(s, k + 1, 0)
      BY DEF EndsAt
    <3> QED BY <3>1, <3>2 DEF Says
  <2> QED BY <2>4, <2>5, <2>6
<1>4. \A i \in 0 .. len : Says(i)
  <2> HIDE DEF K
  <2>1. Nat \subseteq K
    BY <1>2, <1>3, SetInduction
  <2> USE DEF K
  <2> HIDE DEF Says, len
  <2> QED BY <1>1, <2>1
<1> QED BY <1>4

LEMMA NextPlace ==
  ASSUME NEW a \in Nat, NEW p \in 0 .. 7, NEW len \in Nat, a + 8 <= len
  PROVE  a + (p + 1) \in 1 .. len /\ (a + (p + 1)) - 1 = a + p /\ p + 1 \in 1 .. 8 /\ p \in 0 .. 8 /\ p # 8
OBVIOUS

\* From position 0 on an exit string is followed; and what is recognised stays
\* so.
LEMMA ReachFollows ==
  ASSUME NEW s \in Seq(Char), NEW h, Reach(h, s, 0), NEW a \in Nat, a + 8 <= Len(s),
         \A j \in 1 .. 8 : s[a + j] = Exit[j], h[a] = 0
  PROVE  h[a + 8] = 8
<1> DEFINE len == Len(s)
<1>1. /\ len \in Nat /\ a + 8 <= len /\ h \in [0 .. len -> 0 .. 8]
      /\ \A i \in 1 .. len : h[i] = Boot!Matched(h[i - 1], s[i])
  BY DEF Reach
<1> HIDE DEF len
<1>11. len \in Nat /\ a + 8 <= len
  BY <1>1
<1>2. ASSUME NEW p \in 0 .. 7, h[a + p] = p
      PROVE  h[a + (p + 1)] = p + 1
  <2>1. a + (p + 1) \in 1 .. len /\ (a + (p + 1)) - 1 = a + p /\ p + 1 \in 1 .. 8 /\ p \in 0 .. 8 /\ p # 8
    BY <1>11, NextPlace
  <2>2. h[a + (p + 1)] = Boot!Matched(p, s[a + (p + 1)]) /\ s[a + (p + 1)] = Exit[p + 1]
    BY <1>1, <1>2, <2>1
  <2> QED BY <2>1, <2>2, MatchedIs
<1>3. h[a + 0] = 0
  OBVIOUS
<1>4. h[a + 1] = 1
  BY <1>2, <1>3
<1>5. h[a + 2] = 2
  BY <1>2, <1>4
<1>6. h[a + 3] = 3
  BY <1>2, <1>5
<1>7. h[a + 4] = 4
  BY <1>2, <1>6
<1>8. h[a + 5] = 5
  BY <1>2, <1>7
<1>9. h[a + 6] = 6
  BY <1>2, <1>8
<1>10. h[a + 7] = 7
  BY <1>2, <1>9
<1> QED BY <1>2, <1>10

LEMMA ReachStays ==
  ASSUME NEW s \in Seq(Char), NEW h, Reach(h, s, 0), h[Len(s)] # 8
  PROVE  \A i \in 0 .. Len(s) : h[i] # 8
<1> DEFINE len == Len(s)
<1>1. /\ len \in Nat /\ h \in [0 .. len -> 0 .. 8] /\ h[len] # 8
      /\ \A i \in 1 .. len : h[i] = Boot!Matched(h[i - 1], s[i])
  BY DEF Reach
<1> HIDE DEF len
<1> DEFINE K == {k \in Nat : k \in 0 .. len => h[len - k] # 8}
<1>2. 0 \in K
  BY <1>1
<1>3. ASSUME NEW k \in Nat, k \in K
      PROVE  k + 1 \in K
  <2> SUFFICES ASSUME k + 1 \in 0 .. len, h[len - (k + 1)] = 8
               PROVE  FALSE
    OBVIOUS
  <2>1. len - k \in 1 .. len /\ (len - k) - 1 = len - (k + 1) /\ k \in 0 .. len
    BY <1>1
  <2>2. h[len - k] = Boot!Matched(8, s[len - k]) /\ h[len - k] # 8
    BY <1>1, <1>3, <2>1
  <2>3. 8 \in 0 .. 8
    OBVIOUS
  <2> QED BY <2>2, <2>3, MatchedIs
<1>4. ASSUME NEW i \in 0 .. len
      PROVE  h[i] # 8
  <2> HIDE DEF K
  <2>1. Nat \subseteq K
    BY <1>2, <1>3, SetInduction
  <2>2. len - i \in K /\ len - i \in 0 .. len /\ len - (len - i) = i
    BY <1>1, <2>1
  <2> QED BY <2>2 DEF K
<1> QED BY <1>4 DEF len

\* What the property says, of a sequence.
LEMMA InsideIs ==
  ASSUME NEW s \in Seq(Char), NEW w \in Seq(Char)
  PROVE  Boot!HasInside(s, w) <=>
           \E a \in Nat : a + Len(w) <= Len(s) /\ \A j \in 1 .. Len(w) : s[a + j] = w[j]
<1>1. Len(s) \in Nat /\ Len(w) \in Nat
  OBVIOUS
<1>2. ASSUME NEW a \in 0 .. Len(s) - Len(w)
      PROVE  SubSeq(s, a + 1, a + Len(w)) = w <=> \A j \in 1 .. Len(w) : s[a + j] = w[j]
  <2> DEFINE t == SubSeq(s, a + 1, a + Len(w))
  <2>1. a + 1 \in 1 .. Len(s) + 1 /\ a + Len(w) \in (a + 1) - 1 .. Len(s)
    BY <1>1
  <2>2. t \in Seq(Char)
    BY <2>1, SubSeqProperties
  <2>3. Len(t) = Len(w) /\ \A j \in 1 .. Len(w) : t[j] = s[a + j]
    BY <1>1, <2>1
  <2> HIDE DEF t
  <2>4. t = w => \A j \in 1 .. Len(w) : s[a + j] = w[j]
    BY <2>3
  <2>5. (\A j \in 1 .. Len(w) : s[a + j] = w[j]) => t = w
    BY <2>2, <2>3, SeqEqual
  <2> QED BY <2>4, <2>5 DEF t
<1>3. \A a \in Nat : a + Len(w) <= Len(s) => a \in 0 .. Len(s) - Len(w)
  BY <1>1
<1>4. \A a \in 0 .. Len(s) - Len(w) : a \in Nat /\ a + Len(w) <= Len(s)
  BY <1>1
<1> QED BY <1>2, <1>3, <1>4 DEF Boot!HasInside

LEMMA RecognisedIs ==
  ASSUME NEW s \in Seq(Char), NEW h, Reach(h, s, 0)
  PROVE  /\ h[Len(s)] = 8 => Boot!HasInside(s, Boot!exit_string)
         /\ h[Len(s)] # 8 /\ Boot!HasInside(s, Boot!exit_string) => Boot!Hidden(s)
<1> DEFINE E == Exit
           len == Len(s)
<1>1. E \in Seq(Char) /\ Len(E) = 8
  BY ExitIs
<1>2. Boot!HasInside(s, E) <=> \E a \in Nat : a + 8 <= len /\ \A j \in 1 .. 8 : s[a + j] = E[j]
  <2> HIDE DEF E
  <2> QED BY <1>1, InsideIs
<1>3. len \in Nat /\ h \in [0 .. len -> 0 .. 8]
  BY DEF Reach
<1>4. \A i \in 0 .. len :
        /\ h[i] # 8 => EndsAt(s, i, h[i])
        /\ h[i] = 8 => \E m \in 0 .. i : EndsAt(s, m, 8)
  BY ReachSays
<1>5. h[len] # 8 => \A i \in 0 .. len : h[i] # 8
  BY ReachStays
<1> HIDE DEF len
<1>6. ASSUME h[len] = 8
      PROVE  Boot!HasInside(s, E)
  <2>1. PICK m \in 0 .. len : EndsAt(s, m, 8)
    BY <1>3, <1>4, <1>6
  <2>2. 8 <= m /\ \A j \in 1 .. 8 : s[(m - 8) + j] = E[j]
    BY <2>1 DEF EndsAt
  <2>3. m - 8 \in Nat /\ (m - 8) + 8 <= len
    BY <1>3, <2>2
  <2> HIDE DEF E
  <2> QED BY <1>2, <2>2, <2>3
<1>7. ASSUME h[len] # 8, Boot!HasInside(s, E)
      PROVE  Boot!Hidden(s)
  <2>1. PICK a \in Nat : a + 8 <= len /\ \A j \in 1 .. 8 : s[a + j] = E[j]
    BY <1>2, <1>7
  <2>2. a \in 0 .. len
    BY <1>3, <2>1
  <2>3. PICK k \in 0 .. 8 : k = h[a]
    BY <1>3, <2>2
  <2>4. k # 8 /\ EndsAt(s, a, k)
    BY <1>4, <1>5, <1>7, <2>2, <2>3
  <2>5. k # 0
    <3> SUFFICES ASSUME h[a] = 0
                 PROVE  FALSE
      BY <2>3
    <3>1. h[a + 8] = 8
      BY <2>1, ReachFollows DEF len
    <3>2. a + 8 \in 0 .. len
      BY <1>3, <2>1
    <3> QED BY <1>5, <1>7, <3>1, <3>2
  <2>6. k \in 1 .. 7 /\ k <= a
    BY <2>4, <2>5 DEF EndsAt
  <2>7. \A j \in 1 .. k : s[(a - k) + j] = E[j]
    BY <2>4 DEF EndsAt
  <2> HIDE DEF E
  <2> DEFINE p == SubSeq(E, 1, k)
             w == p \o E
  <2>8. p \in Seq(Char) /\ Len(p) = k /\ \A j \in 1 .. k : p[j] = E[j]
    <3>1. 1 \in 1 .. Len(E) + 1 /\ k \in 1 - 1 .. Len(E)
      BY <1>1, <2>6
    <3>2. p \in Seq(Char)
      <4>1. PICK e \in Seq(Char) : e = E
        BY <1>1
      <4>2. SubSeq(e, 1, k) \in Seq(Char)
        BY <3>1, <4>1, SubSeqProperties
      <4> QED BY <4>1, <4>2
    <3>3. Len(p) = k /\ \A j \in 1 .. k : p[j] = E[j]
      BY <1>1, <2>6
    <3> QED BY <3>2, <3>3
  <2> HIDE DEF p
  <2>9. /\ w \in Seq(Char) /\ Len(w) = k + 8
        /\ \A j \in 1 .. k : w[j] = p[j]
        /\ \A j \in 1 .. 8 : w[k + j] = E[j]
    <3>1. /\ w \in Seq(Char) /\ Len(w) = Len(p) + Len(E)
          /\ \A j \in 1 .. Len(p) : w[j] = p[j]
          /\ \A j \in 1 .. Len(E) : w[Len(p) + j] = E[j]
      <4>1. p \in Seq(Char) /\ E \in Seq(Char)
        BY <1>1, <2>8
      <4> QED BY <4>1, Joined
    <3> HIDE DEF w
    <3> QED BY <1>1, <2>8, <3>1
  <2> HIDE DEF w
  <2>10. a - k \in Nat /\ (a - k) + (k + 8) <= len
    BY <1>3, <2>1, <2>6
  <2>11. ASSUME NEW j \in 1 .. k + 8
         PROVE  s[(a - k) + j] = w[j]
    <3>1. CASE j <= k
      <4>1. j \in 1 .. k
        BY <2>6, <3>1
      <4> QED BY <2>7, <2>8, <2>9, <4>1
    <3>2. CASE j > k
      <4>1. PICK i \in 1 .. 8 : j = k + i
        <5>1. j - k \in 1 .. 8 /\ j = k + (j - k)
          BY <2>6, <3>2
        <5> QED BY <5>1
      <4>2. (a - k) + j = a + i
        BY <2>6, <4>1
      <4> QED BY <2>1, <2>9, <4>1, <4>2
    <3> QED BY <2>6, <3>1, <3>2
  <2>12. Boot!HasInside(s, w)
    <3>1. /\ (a - k) + Len(w) <= Len(s) /\ \A j \in 1 .. Len(w) : s[(a - k) + j] = w[j]
      BY <2>9, <2>10, <2>11 DEF len
    <3>2. \E b \in Nat : b + Len(w) <= Len(s) /\ \A j \in 1 .. Len(w) : s[b + j] = w[j]
      BY <2>10, <3>1
    <3> QED BY <2>9, <3>2, InsideIs
  <2>13. k \in 1 .. Len(E) - 1
    BY <1>1, <2>6
  <2> QED BY <2>12, <2>13, Zenon DEF Boot!Hidden, w, p, E, Exit
<1> QED BY <1>6, <1>7, Zenon DEF len, E, Exit

(* What the host has shown, and how far pi_done is in it.                  *)
Shows == {"cat", "echo", "closed", "clean_exit"}
BootInv ==
  phase \in Shows =>
    /\ seen \in Seq(Char) /\ tty \in Seq(Char) /\ pos \in 0 .. 8
    /\ \E h : Reach(h, seen, 0) /\ h[Len(seen)] = pos
    /\ phase = "clean_exit" <=> pos = 8

LEMMA BootStarts ==
  ASSUME Boot!BootAssumption, Boot!Init
  PROVE  BootInv
<1> SUFFICES ASSUME phase \in Shows
             PROVE  BootInv
  BY DEF BootInv
<1>1. STRING \subseteq Char
  BY DEF Char
<1>2. (phase = "cat" \/ phase = "echo") /\ pos = 0 /\ seen = <<>> /\ (tty = <<>> \/ tty \in Texts)
  BY DEF Boot!Init, Shows
<1>3. <<>> \in Seq(Char) /\ Len(<<>>) = 0
  OBVIOUS
<1>4. tty \in Seq(Char)
  <2>1. Seq(STRING) \subseteq Seq(Char)
    BY <1>1, SeqWidens
  <2> QED BY <1>2, <1>3, <2>1 DEF Boot!BootAssumption
<1>5. \E h : Reach(h, <<>>, 0) /\ h[0] = 0
  <2> DEFINE h == [i \in 0 .. 0 |-> 0]
  <2>1. h \in [0 .. Len(<<>>) -> 0 .. 8] /\ h[0] = 0 /\ \A i \in 1 .. Len(<<>>) : h[i] = Boot!Matched(h[i - 1], <<>>[i])
    BY <1>3
  <2> HIDE DEF h
  <2> QED BY <2>1 DEF Reach
<1>6. \E h : Reach(h, seen, 0) /\ h[Len(seen)] = pos
  BY <1>2, <1>3, <1>5
<1>7. seen \in Seq(Char) /\ pos \in 0 .. 8 /\ phase # "clean_exit" /\ pos # 8
  BY <1>2, <1>3
<1> QED BY <1>4, <1>6, <1>7 DEF BootInv

LEMMA ReadsKeeps ==
  ASSUME BootInv, phase \in {"cat", "echo"}, Boot!Reads
  PROVE  BootInv'
<1>1. PICK t, u, p, got : t = tty /\ u = seen /\ p = pos /\ got \in 1 .. Len(t) /\
        LET s == Boot!remove_nonprint(SubSeq(t, 1, got))
        IN /\ tty' = SubSeq(t, got + 1, Len(t))
           /\ seen' = u \o s
           /\ pos' = Boot!pi_done(p, s)
           /\ phase' = IF pos' = Len(Boot!exit_string) THEN "clean_exit" ELSE phase
  BY Zenon DEF Boot!Reads
<1>2. u \in Seq(Char) /\ t \in Seq(Char) /\ p \in 0 .. 8
  BY <1>1 DEF BootInv, Shows
<1>3. PICK h : Reach(h, u, 0) /\ h[Len(u)] = p
  BY <1>1 DEF BootInv, Shows
<1>4. PICK s : s = Boot!remove_nonprint(SubSeq(t, 1, got))
  OBVIOUS
<1>5. s \in Seq(Char)
  <2> DEFINE c == SubSeq(t, 1, got)
  <2>1. c \in Seq(Char)
    <3>1. 1 \in 1 .. Len(t) + 1 /\ got \in 1 - 1 .. Len(t)
      BY <1>1, <1>2
    <3> QED BY <1>2, <3>1, SubSeqProperties
  <2> HIDE DEF c
  <2>2. "sp" \in Char
    BY DEF Char
  <2>3. [i \in DOMAIN c |-> IF c[i] \in {"nul", "cr"} THEN "sp" ELSE c[i]] \in Seq(Char)
    BY <2>1, <2>2
  <2> QED BY <1>4, <2>3, Zenon DEF Boot!remove_nonprint, c
<1>6. PICK g : Reach(g, s, p) /\ Boot!pi_done(p, s) = g[Len(s)]
  BY <1>2, <1>5, DoneReaches
<1>7. PICK f : Reach(f, u \o s, 0) /\ f[Len(u \o s)] = g[Len(s)]
  <2>1. 0 \in 0 .. 8 /\ Reach(g, s, h[Len(u)])
    BY <1>3, <1>6
  <2> QED BY <1>2, <1>3, <1>5, <2>1, ReachMore
<1>8. tty' \in Seq(Char)
  <2>1. got + 1 \in 1 .. Len(t) + 1 /\ Len(t) \in (got + 1) - 1 .. Len(t)
    BY <1>1, <1>2
  <2>2. SubSeq(t, got + 1, Len(t)) \in Seq(Char)
    BY <1>2, <2>1, SubSeqProperties
  <2> QED BY <1>1, <2>2
<1>9. u \o s \in Seq(Char) /\ g[Len(s)] \in 0 .. 8
  <2>1. Len(s) \in 0 .. Len(s)
    <3>1. Len(s) \in Nat
      BY <1>5
    <3> QED BY <3>1
  <2>2. g \in [0 .. Len(s) -> 0 .. 8]
    BY <1>6 DEF Reach
  <2>3. g[Len(s)] \in 0 .. 8
    BY <2>1, <2>2, Zenon
  <2>4. u \o s \in Seq(Char)
    BY <1>2, <1>5
  <2> QED BY <2>3, <2>4
<1>10. seen' = u \o s /\ pos' = g[Len(s)]
  BY <1>1, <1>4, <1>6
<1>11. phase' = IF pos' = 8 THEN "clean_exit" ELSE phase
  BY <1>1, ExitIs, Zenon DEF Exit
<1>12. phase' = "clean_exit" <=> pos' = 8
  BY <1>11
<1>13. \E e : Reach(e, seen', 0) /\ e[Len(seen')] = pos'
  BY <1>7, <1>10
<1> QED BY <1>8, <1>9, <1>10, <1>12, <1>13 DEF BootInv

(* The host's ends recognise the exit string whatever a program prints and *)
(* however the reads cut it, but one right behind the beginning of         *)
(* another, and nothing else.                                              *)
THEOREM ExitIsRecognised ==
  ASSUME Boot!BootAssumption
  PROVE  Boot!Spec => []Boot!ExitRecognised
<1>1. Boot!Init => BootInv
  BY BootStarts
<1>2. BootInv /\ [Boot!Next]_Boot!bootvars => BootInv'
  <2> SUFFICES ASSUME BootInv, [Boot!Next]_Boot!bootvars
               PROVE  BootInv'
    OBVIOUS
  <2>1. CASE Boot!WaitForData
    BY <2>1 DEF Boot!WaitForData, BootInv, Shows
  <2>2. CASE Boot!drain
    <3>1. phase = "drain" /\ phase' \in {"info", "dead", "drain"}
      BY <2>2, Zenon DEF Boot!drain
    <3> QED BY <3>1 DEF BootInv, Shows
  <2>3. CASE Boot!boot_success
    <3>1. phase' \in {"booted", "dead"}
      BY <2>3, Zenon DEF Boot!boot_success
    <3> QED BY <3>1 DEF BootInv, Shows
  <2>4. CASE Boot!pi_cat
    BY <2>4, ReadsKeeps DEF Boot!pi_cat
  <2>5. CASE Boot!pi_echo
    <3>1. CASE Boot!Reads
      BY <2>5, <3>1, ReadsKeeps DEF Boot!pi_echo
    <3>2. CASE boot' \in Texts /\ tty' = boot' /\ UNCHANGED <<phase, pos, seen>>
      <4>1. phase' = phase /\ pos' = pos /\ seen' = seen /\ phase = "echo"
        BY <2>5, <3>2 DEF Boot!pi_echo
      <4>2. STRING \subseteq Char
        BY DEF Char
      <4>3. tty' \in Seq(Char)
        <5>1. Seq(STRING) \subseteq Seq(Char)
          BY <4>2, SeqWidens
        <5> QED BY <3>2, <5>1 DEF Boot!BootAssumption
      <4> QED BY <4>1, <4>3 DEF BootInv, Shows
    <3> QED BY <2>5, <3>1, <3>2 DEF Boot!pi_echo
  <2>6. CASE Boot!TtyGone
    BY <2>6 DEF Boot!TtyGone, BootInv, Shows
  <2>7. CASE UNCHANGED Boot!bootvars
    <3>1. UNCHANGED <<phase, tty, boot, pos, seen>>
      BY <2>7, Zenon DEF Boot!bootvars
    <3> QED BY <3>1 DEF BootInv
  <2> QED BY <2>1, <2>2, <2>3, <2>4, <2>5, <2>6, <2>7, Zenon DEF Boot!Next
<1>3. BootInv => Boot!ExitRecognised
  <2> SUFFICES ASSUME BootInv
               PROVE  Boot!ExitRecognised
    OBVIOUS
  <2>1. CASE phase \in Shows
    <3>1. seen \in Seq(Char) /\ (phase = "clean_exit" <=> pos = 8)
      BY <2>1 DEF BootInv
    <3>2. PICK h : Reach(h, seen, 0) /\ h[Len(seen)] = pos
      BY <2>1 DEF BootInv
    <3>3. /\ pos = 8 => Boot!HasInside(seen, Boot!exit_string)
          /\ pos # 8 /\ Boot!HasInside(seen, Boot!exit_string) => Boot!Hidden(seen)
      BY <3>1, <3>2, RecognisedIs
    <3>4. phase \in {"cat", "echo", "closed"} => phase # "clean_exit"
      OBVIOUS
    <3> QED BY <3>1, <3>3, <3>4, Zenon DEF Boot!ExitRecognised
  <2>2. CASE phase \notin Shows
    BY <2>2 DEF Boot!ExitRecognised, Shows
  <2> QED BY <2>1, <2>2
<1> QED BY <1>1, <1>2, <1>3, PTL DEF Boot!Spec
=============================================================================
