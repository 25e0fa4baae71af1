------------------------------ MODULE NrfTrials ------------------------------
(***************************************************************************)
(* What the radio tests of labs/17-nrf24l01p measure with: the trials of   *)
(* tests/rf-support.h, summed up the way tests/3-loop-msg.c does, with the *)
(* binary search for the shortest timeout that loses nothing.              *)
(***************************************************************************)
EXTENDS Integers, Sequences, FiniteSetsExt

CONSTANTS
  ntrial,    \* packets of one trial
  Usecs,     \* how long a trial takes
  MaxTrials, \* bound: trials of one run
  Timeouts   \* the timeout the search starts from

\* A trial sends its packets over the air, which takes longer than the
\* millisecond below which the rate is a division by zero.
TrialsAssumption ==
  /\ ntrial \in Nat /\ Timeouts \subseteq Nat
  /\ Usecs \subseteq Nat /\ \A usec \in Usecs : usec >= 1000

VARIABLES
  part,      \* trials, then the search; or how it ended
  trials,    \* history: the trials
  tsum,      \* their sum
  est,       \* estimate_t
  works      \* the shortest timeout that works

trialvars == <<part, trials, tsum, est, works>>

\* Packets and bytes of the sum stay far from 2^32; less than a millisecond is
\* a division by zero.
bytes_per_sec(npackets, nbytes, usec) == (1000 * npackets * nbytes) \div (usec \div 1000)
trial_mk(usec, nsent, nlost, nbytes) ==
  [tot_usec |-> usec, nsent |-> nsent, nlost |-> nlost, nrecv |-> nsent - nlost,
   bytes_per_sec |-> IF usec < 1000 THEN 0 ELSE bytes_per_sec(nsent - nlost, nbytes, usec)]
\* Fault: the rates are averaged.
trial_addMean(t0, t1, nbytes) ==
  [trial_mk(t0.tot_usec + t1.tot_usec, t0.nsent + t1.nsent, t0.nlost + t1.nlost, nbytes)
     EXCEPT !.bytes_per_sec = t0.bytes_per_sec + t1.bytes_per_sec]
trial_add(t0, t1, nbytes) ==
  trial_mk(t0.tot_usec + t1.tot_usec, t0.nsent + t1.nsent, t0.nlost + t1.nlost, nbytes)

est_get == est.cur
est_mk(hi, lo) == [hi |-> hi, lo |-> lo, cur |-> hi]

Init ==
  /\ part = "trials" /\ trials = <<>>
  /\ tsum = trial_mk(0, 0, 0, 32)
  /\ est = est_mk(0, 0) /\ works = 0

\* one_way_test and the line after it.
Trial ==
  /\ part = "trials" /\ Len(trials) < MaxTrials
  /\ \E nlost \in 0 .. ntrial, usec \in Usecs :
       LET t == trial_mk(usec, ntrial, nlost, 32)
       IN trials' = Append(trials, t) /\ tsum' = trial_add(tsum, t, 32)
  /\ UNCHANGED <<part, est, works>>

StartSearch ==
  /\ part = "trials" /\ part' = "search"
  /\ \E t \in Timeouts : est' = est_mk(t, 0) /\ works' \in 1 .. t
  /\ trials' = <<>> /\ tsum' = trial_mk(0, 0, 0, 32)

\* Nothing was lost: shorten the timeout.
est_decrease ==
  /\ part = "search"
  /\ LET x == (est.cur + est.lo) \div 2
     IN IF x <= est.lo THEN part' = "done" /\ est' = [est EXCEPT !.hi = est.cur]
        ELSE est' = [est EXCEPT !.hi = est.cur, !.cur = x] /\ UNCHANGED part
  /\ UNCHANGED <<trials, tsum, works>>

\* Packets were lost: lengthen it.  With lo and hi adjacent the midpoint is lo,
\* and the assertion that it is not fails.
est_increase ==
  /\ part = "search"
  /\ LET x == (est.hi + est.cur) \div 2
     IN /\ part' = IF x >= est.hi THEN "done" ELSE IF x <= est.cur THEN "assert" ELSE part
        /\ est' = [est EXCEPT !.lo = est.cur, !.cur = IF x > est.cur /\ x < est.hi THEN x ELSE @]
  /\ UNCHANGED <<trials, tsum, works>>

\* A timeout that is too short loses packets.
est_bsearch(increase_p) == IF increase_p THEN est_increase ELSE est_decrease

Next == Trial \/ StartSearch \/ est_bsearch(est_get < works)
Spec == Init /\ [][Next]_trialvars
-----------------------------------------------------------------------------
(* The summary accounts for every packet and shows no better a rate        *)
(* than the best trial; the search always keeps the shortest timeout that  *)
(* works between lo and hi, ends with it when its last try worked, and     *)
(* ends in est_increase's assertion, one above, when it did not.           *)
TrialsSound ==
  /\ tsum.nsent = ntrial * Len(trials) /\ tsum.nsent = tsum.nrecv + tsum.nlost
  /\ trials # <<>> => tsum.bytes_per_sec <= Max({trials[i].bytes_per_sec : i \in DOMAIN trials})
  /\ part \in {"search", "done", "assert"} => est.lo < works /\ works <= est.hi
  /\ part = "done" => est.cur = works
  /\ part = "assert" => est.hi = works /\ est.lo = works - 1
=============================================================================
