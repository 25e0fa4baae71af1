----------------------------- MODULE ThreadTests -----------------------------
(***************************************************************************)
(* The tests of labs/8-threads/code as programs over RpiThread.  In        *)
(* 7-test-ping-pong.c two threads bat a byte back and forth through two    *)
(* circular queues until it reaches n; threads are not preempted, so the   *)
(* queues' operations are atomic here.  Each other test forks threads that *)
(* run the same code, starts them, and checks what they left when          *)
(* rpi_thread_start returns; 5-test-restart does so several times, after   *)
(* starting the package with nothing to run.  Beside the tests, any other  *)
(* program: its threads fork, yield and exit as they like.                 *)
(***************************************************************************)
EXTENDS RpiThread, FiniteSetsExt

CONSTANTS
  n,        \* iterations of the ping-pong test
  Width,    \* values of a byte: 256
  Threads,  \* bound: threads of one run (30 and 10 in the tests)
  Runs      \* bound: runs of the package in one test (10 in 5-test-restart)

ASSUME TestAssumption ==
  /\ n \in Nat /\ Width \in Nat \ {0}
  /\ Threads \in Nat \ {0} /\ Threads + 1 <= MaxTid
  /\ Runs \in Nat \ {0} /\ 2 * Runs <= MaxTid

VARIABLES
  cq,    \* the circular queues q0 and q1, as what they hold
  main,  \* where notmain is; "any" or "test" for another program
  at,    \* where each thread is
  iter,
  v      \* the local of each thread

ppvars == <<cq, main, at, iter, v>>
allvars == <<vars, ppvars>>

\* The first thread forked gets the end e0, the second e1.
In(b) == IF tids[b] = 1 THEN "q1" ELSE "q0"
Out(b) == IF tids[b] = 1 THEN "q0" ELSE "q1"
Byte(x) == x % Width

PPInit ==
  /\ Init
  /\ cq = [q0 |-> <<1>>, q1 |-> <<>>]
  /\ main \in {"fork", "any"} /\ iter = 0
  /\ at = [b \in Elem |-> "while"] /\ v = [b \in Elem |-> 0]

Fork ==
  /\ main = "fork" /\ rpi_fork
  /\ main' = IF tid = 2 THEN "start" ELSE "fork"
  /\ UNCHANGED <<cq, at, iter, v>>

Start ==
  /\ main = "start" /\ rpi_thread_start
  /\ main' = "threads"
  /\ UNCHANGED <<cq, at, iter, v>>

\* rpi_thread_start has returned; assert(iter == n+1).
Returned ==
  /\ main = "threads" /\ cur_thread = null
  /\ main' = IF iter = n + 1 THEN "reboot" ELSE "assert"
  /\ UNCHANGED <<vars, cq, at, iter, v>>

\* Fault: a thread with nothing to do spins.
WaitSpins(b) ==
  /\ at[b] = "wait"
  /\ at' = IF cq[In(b)] = <<>> THEN at ELSE [at EXCEPT ![b] = "pop"]
  /\ UNCHANGED <<vars, cq, main, iter, v>>

While(b) ==
  /\ at[b] = "while"
  /\ at' = [at EXCEPT ![b] = IF v[b] < n THEN "wait" ELSE "exit"]
  /\ UNCHANGED <<vars, cq, main, iter, v>>

Wait(b) ==
  /\ at[b] = "wait"
  /\ IF cq[In(b)] = <<>> THEN rpi_yield /\ UNCHANGED at
     ELSE at' = [at EXCEPT ![b] = "pop"] /\ UNCHANGED vars
  /\ UNCHANGED <<cq, main, iter, v>>

PopPush(b) ==
  /\ at[b] = "pop"
  /\ v' = [v EXCEPT ![b] = Head(cq[In(b)])]
  /\ cq' = [cq EXCEPT ![In(b)] = Tail(@), ![Out(b)] = Append(@, Byte(v'[b] + 1))]
  /\ iter' = iter + 1
  /\ at' = [at EXCEPT ![b] = "while"]
  /\ UNCHANGED <<vars, main>>

Exit(b) ==
  /\ at[b] = "exit"
  /\ rpi_exit
  /\ UNCHANGED ppvars

pingpong(b) == While(b) \/ Wait(b) \/ PopPush(b) \/ Exit(b)

PingPong ==
  \/ Fork \/ Start \/ Returned
  \/ main = "threads" /\ cur_thread # null /\ pingpong(cur_thread)

AnyProgram(step) == main = "any" /\ step /\ UNCHANGED ppvars

PPNext == PingPong \/ AnyProgram(Next)
-----------------------------------------------------------------------------
(* The other tests.                                                        *)
\* Yield before and between, then exit: 5-test-thread.c, 7-test-thread.c.
Yields == <<"tid", "yield", "count", "yield", "sum", "yield", "exit">>

Counting(code) == [n |-> Threads, runs |-> 1, code |-> code, counts |-> TRUE, back |-> TRUE]
Plain(k, code) == [n |-> k, runs |-> 1, code |-> code, counts |-> FALSE, back |-> TRUE]

test_run_n == Counting(<<"tid", "count", "sum", "exit">>)
test_implicit_exit == Counting(<<"tid", "count", "sum", "exit">>)
test_thread == Counting(Yields)
test_thread7 == Counting(Yields)
\* Its only thread gets x = 1 and finds tid == x: the argument and one.
test_run_one == [n |-> 1, runs |-> 1, code |-> <<"tid", "count", "exit">>, counts |-> TRUE, back |-> TRUE]
test_one_fork == [Plain(1, <<"tid", "reboot">>) EXCEPT !.back = FALSE]
test_exit == Plain(Threads, <<"exit">>)
test_yield == Plain(Threads, <<"yield", "exit">>)
test_yield_fail == Plain(1, <<"yield", "exit">>)
test_restart == [Plain(1, <<"exit">>) EXCEPT !.runs = Runs]

Tests == {test_run_n, test_implicit_exit, test_thread, test_thread7, test_run_one,
          test_one_fork, test_exit, test_yield, test_yield_fail, test_restart}

VARIABLES
  test,      \* the test that runs
  phase,     \* where its main program is
  run,       \* runs of the package left
  forked,    \* threads forked in this run
  pc, arg,   \* each thread's next instruction, and its argument
  thread_count, thread_sum

tstvars == <<test, phase, run, forked, pc, arg, thread_count, thread_sum>>
everything == <<allvars, tstvars>>

TTInit ==
  /\ test \in Tests
  /\ run = test.runs /\ forked = 0
  /\ phase = IF test = test_restart THEN "empty" ELSE "fork"
  /\ pc = [b \in Elem |-> 1] /\ arg = [b \in Elem |-> 0]
  /\ thread_count = 0 /\ thread_sum = 0

\* rpi_thread_start with nothing on the run queue returns at once.
StartEmpty ==
  /\ phase = "empty" /\ runq.head = null
  /\ phase' = "fork"
  /\ UNCHANGED <<vars, test, run, forked, pc, arg, thread_count, thread_sum>>

ForkOne ==
  /\ phase = "fork" /\ forked < test.n
  /\ rpi_fork
  /\ forked' = forked + 1
  /\ arg' = [arg EXCEPT ![Allocated] = forked]
  /\ pc' = [pc EXCEPT ![Allocated] = 1]
  /\ UNCHANGED <<test, phase, run, thread_count, thread_sum>>

StartThreads ==
  /\ phase = "fork" /\ forked = test.n
  /\ rpi_thread_start
  /\ phase' = "threads"
  /\ UNCHANGED <<test, run, forked, pc, arg, thread_count, thread_sum>>

\* The assertions on what the threads left; then the next run, or the end.
BackInMain ==
  /\ phase = "threads" /\ cur_thread = null
  /\ phase' = IF \/ ~test.back
                 \/ test.counts /\ thread_count # test.n
                 \/ test.counts /\ "sum" \in {test.code[k] : k \in DOMAIN test.code}
                      /\ thread_sum # SumSet(0 .. test.n - 1)
              THEN "assert" ELSE IF run > 1 THEN "fork" ELSE "reboot"
  /\ run' = run - 1 /\ forked' = 0
  /\ UNCHANGED <<vars, test, pc, arg, thread_count, thread_sum>>

\* The next instruction of the running thread.
thread_code(b) ==
  /\ pc' = [pc EXCEPT ![b] = @ + 1]
  /\ \/ /\ test.code[pc[b]] = "tid"  \* demand(tid == *x + 1)
        /\ phase' = IF tids[b] = arg[b] + 1 THEN phase ELSE "assert"
        /\ UNCHANGED <<vars, thread_count, thread_sum>>
     \/ /\ test.code[pc[b]] = "count"
        /\ thread_count' = thread_count + 1
        /\ UNCHANGED <<vars, phase, thread_sum>>
     \/ /\ test.code[pc[b]] = "sum"
        /\ thread_sum' = thread_sum + arg[b]
        /\ UNCHANGED <<vars, phase, thread_count>>
     \/ /\ test.code[pc[b]] = "yield" /\ rpi_yield
        /\ UNCHANGED <<phase, thread_count, thread_sum>>
     \/ /\ test.code[pc[b]] = "exit" /\ rpi_exit
        /\ UNCHANGED <<phase, thread_count, thread_sum>>
     \/ /\ test.code[pc[b]] = "reboot" /\ phase' = "reboot"
        /\ UNCHANGED <<vars, thread_count, thread_sum>>
  /\ UNCHANGED <<test, run, forked, arg>>

TestStep ==
  \/ StartEmpty \/ ForkOne \/ StartThreads \/ BackInMain
  \/ phase = "threads" /\ cur_thread # null /\ thread_code(cur_thread)

Testing == main = "test" /\ TestStep /\ UNCHANGED ppvars
Other == main # "test" /\ PPNext /\ UNCHANGED tstvars

ThreadInit ==
  \/ PPInit /\ test = test_exit /\ phase = "reboot" /\ run = 0 /\ forked = 0
       /\ pc = [b \in Elem |-> 1] /\ arg = [b \in Elem |-> 0]
       /\ thread_count = 0 /\ thread_sum = 0
  \/ TTInit /\ Init /\ main = "test" /\ cq = [q0 |-> <<1>>, q1 |-> <<>>] /\ iter = 0
       /\ at = [b \in Elem |-> "while"] /\ v = [b \in Elem |-> 0]

Do(step) == main # "test" /\ step /\ UNCHANGED tstvars

\* A test's program runs on: nothing preempts it.  The threads of another
\* program each yield or exit in the end, and its main program starts what it
\* forked.
ThreadSpec ==
  /\ ThreadInit /\ [][Other \/ Testing]_everything
  /\ WF_everything(Testing)
  /\ WF_everything(Do(PingPong))
  /\ WF_everything(Do(AnyProgram((rpi_yield /\ runq.head # null) \/ rpi_exit)))
  /\ WF_everything(Do(AnyProgram(rpi_thread_start)))
-----------------------------------------------------------------------------
(* Every test of the directory reaches its clean_reboot with its checks    *)
(* met: each thread finds the id it was forked with in a block that an     *)
(* earlier thread may have used, every thread runs to its end however      *)
(* often it yields, and only then does rpi_thread_start return; the two    *)
(* ping-pong threads play n rounds and meet iter == n + 1.                 *)
EveryTestEnds ==
  <>(main \in {"any", "reboot"} \/ (main = "test" /\ phase = "reboot"))
=============================================================================
