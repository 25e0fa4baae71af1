------------------------- MODULE CircularExample32 -------------------------
(***************************************************************************)
(* labs/7-device-interrupts/0-circular-example/1-circular-example32.c: the *)
(* timer interrupt handler passes consecutive 32-bit integers to the main  *)
(* loop through a circular queue of bytes.  The handler preempts the loop  *)
(* between any two of its accesses and runs to completion.                 *)
(***************************************************************************)
EXTENDS CircularQueue

CONSTANTS
  WordBytes,  \* sizeof(uint32_t)
  MaxFail     \* bound: push_fail is a statistic and saturates here

max_push == CQ_N * 2

\* The object representation of x, the view cq_push32 takes through &x:
\* <<x, k>> stands for the k-th byte of x.
Word(x) == [k \in 1 .. WordBytes |-> <<x, k>>]

\* What an element may be: a byte of an integer passed, or what is in the
\* slots no push has written.
Unwritten == <<max_push, 1>>
PassedBytes == ((0 .. max_push - 1) \X (1 .. WordBytes)) \cup {Unwritten}

ASSUME WordAssumption ==
  /\ WordBytes \in Nat \ {0}
  /\ WordBytes < CQ_N
  /\ MaxFail \in Nat
  /\ \A x \in 0 .. max_push - 1 : Word(x) \in Seq(Elem)
ASSUME HandlerAssumption == Atomic = "producer"
ASSUME MainAssumption == ConsumerOps = {"pop_n"}

VARIABLES
  push_success, push_fail,  \* the handler's counters
  i,                        \* the integer notmain expects next
  mismatch                  \* notmain panicked: "expected %d, have %d"

exvars == <<push_success, push_fail, i, mismatch>>
allvars == <<vars, exvars>>

ExInit ==
  /\ Init
  /\ push_success = 0 /\ push_fail = 0 /\ i = 0 /\ mismatch = FALSE

(* Faults, none of them part of ExNext.                                    *)

\* Fault: the last integer is never passed.
TimerInterruptOneLess ==
  /\ ppc = "idle"
  /\ push_success < max_push - 1
  /\ PushCall(Word(push_success), TRUE)
  /\ UNCHANGED exvars

\* Fault: the result of cq_push32 is ignored.
HandlerReturnUnchecked ==
  /\ PushReturn
  /\ push_success' = push_success + 1
  /\ UNCHANGED <<push_fail, i, mismatch>>
-----------------------------------------------------------------------------
\* interrupt_vector: the timer fired and fewer than max_push were passed.
\* Any other interrupt leaves the state as it is.
TimerInterrupt ==
  /\ ppc = "idle"
  /\ push_success < max_push
  /\ PushCall(Word(push_success), TRUE)
  /\ UNCHANGED exvars

\* The result of cq_push32 decides which counter moves.
HandlerReturn ==
  /\ PushReturn
  /\ \/ /\ pret = 0
        /\ push_fail' = IF push_fail < MaxFail THEN push_fail + 1 ELSE push_fail
        /\ UNCHANGED push_success
     \/ /\ pret = 1
        /\ push_success' = push_success + 1
        /\ UNCHANGED push_fail
  /\ UNCHANGED <<i, mismatch>>

Handler ==
  /\ Running /\ ~mismatch
  /\ TimerInterrupt \/ HandlerReturn \/ (PushStep /\ UNCHANGED exvars)

\* notmain: x = cq_pop32(&putQ)
MainPop ==
  /\ i < max_push
  /\ PopCall("pop_n", WordBytes)
  /\ UNCHANGED exvars

\* if(x != i) panic(...)
MainCheck ==
  /\ PopReturn
  /\ IF cdata = Word(i)
       THEN i' = i + 1 /\ UNCHANGED mismatch
       ELSE mismatch' = TRUE /\ UNCHANGED i
  /\ UNCHANGED <<push_success, push_fail>>

Main ==
  /\ ConsumerRuns /\ ~mismatch
  /\ MainPop \/ MainCheck \/ (PopStep /\ UNCHANGED exvars)

ExNext == Handler \/ Main

\* The timer keeps firing and a started handler finishes.  The loop makes
\* progress between interrupts although each of them disables it for a while.
ExSpec == ExInit /\ [][ExNext]_allvars /\ WF_allvars(Handler) /\ SF_allvars(Main)
-----------------------------------------------------------------------------
\* Types of the counters.
ExTypeOK ==
  /\ TypeOK
  /\ push_success \in 0 .. max_push /\ push_fail \in 0 .. MaxFail
  /\ i \in 0 .. max_push /\ mismatch \in BOOLEAN

(* The check of notmain never fails and cq_push32 is all or nothing:       *)
(* outside the handler the queue has taken whole integers, exactly those   *)
(* push_success counts, and the loop never runs ahead of that count, which *)
(* the final report relies on, however often the queue wraps or refuses.   *)
WordsAreWhole ==
  /\ ExTypeOK /\ ~mismatch /\ Running
  /\ ppc = "idle" =>
       /\ Len(sent) = WordBytes * push_success
       /\ i <= push_success
       /\ cpc = "idle" => Len(rcvd) = WordBytes * i

(* With a timer that keeps firing the loop receives every integer and the  *)
(* example reaches its SUCCESS line.                                       *)
EveryIntegerArrives == <>(i = max_push)
=============================================================================
