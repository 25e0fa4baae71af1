----------------------------- MODULE UnixExamples -----------------------------
(***************************************************************************)
(* labs/5-replay/useful-examples: small programs that show pipes, sockets, *)
(* signals and waiting.  Each is a parent "p" and mostly a kid "k"; their  *)
(* programs are tables of system calls, executed one at a time in any      *)
(* interleaving over the part of Unix they rely on (external): pipes and   *)
(* sockets that carry bytes between two ends and report end of file when   *)
(* no process holds the other end, processes that stay zombies until they  *)
(* are waited for, and signals.  Messages are short enough for the buffers.*)
(***************************************************************************)
EXTENDS Integers, Sequences, FiniteSets, SequencesExt

CONSTANTS
  NVal,    \* bound: rounds of socket-ex (10)
  NLoop,   \* bound: kids of local-socket (10)
  MaxEnv   \* bound: lines typed, and interrupts sent, by the user

ASSUME ExampleAssumption == NVal \in Nat /\ NLoop \in Nat \ {0} /\ MaxEnv \in Nat

Procs == {"p", "k"}
Peer == [x \in {"0", "1", "in0", "in1", "out0", "out1", "master", "slave", "stdin", "user"} |->
  CASE x = "0" -> "1" [] x = "1" -> "0" [] x = "in0" -> "in1" [] x = "in1" -> "in0"
    [] x = "out0" -> "out1" [] x = "out1" -> "out0" [] x = "stdin" -> "user"
    [] x = "user" -> "stdin" [] x = "master" -> "slave" [] x = "slave" -> "master"]
Ends == DOMAIN Peer
Hello == <<"h", "i">>

\* Exit codes of processes a signal killed, as the shell reports them.
SIGINT == 130
SIGPIPE == 141
-----------------------------------------------------------------------------
(* The programs: <<call, file descriptor or argument>>.                    *)

\* Fault: the parent keeps the write end of the pipe.
pipe_exHoldsEnd == [
  p |-> <<<<"pair", "0">>, <<"fork">>, <<"echo", "0">>, <<"waitpid">>, <<"exit", 0>>>>,
  k |-> <<<<"close", "0">>, <<"write", "1", Hello>>, <<"exit", 10>>>>]

pipe_ex == [
  p |-> <<<<"pair", "0">>, <<"fork">>, <<"close", "1">>, <<"echo", "0">>, <<"waitpid">>, <<"exit", 0>>>>,
  k |-> <<<<"close", "0">>, <<"write", "1", Hello>>, <<"exit", 10>>>>]

pipe_read_exit_ex == [pipe_ex EXCEPT !.p =
  <<<<"pair", "0">>, <<"fork">>, <<"close", "1">>, <<"waitpid">>, <<"echo", "0">>, <<"exit", 0>>>>]

pipe_detect_parent_died == [
  p |-> <<<<"pair", "0">>, <<"fork">>, <<"exit", 0>>>>,
  k |-> <<<<"close", "1">>, <<"eof", "0">>, <<"parent_gone">>, <<"exit", 0>>>>]

\* make_kid and a wait, four times: by pid, any child, wait(), and polling.
wait_ex == [
  p |-> FlattenSeq([i \in 1 .. 4 |->
          <<<<"fork">>, <<IF i = 4 THEN "poll" ELSE "waitpid">>, <<"status", 9 + i>>, <<"inc">>>>])
        \o <<<<"exit", 0>>>>,
  k |-> <<<<"exit_val", 10>>>>]

kill_ex == [
  p |-> <<<<"ignore", "SIGPIPE">>, <<"handle", "SIGUSR1">>, <<"fork">>, <<"handle", "SIGINT">>,
          <<"until_sigint">>, <<"kill", "SIGUSR1">>, <<"waitpid">>, <<"status", 0>>, <<"exit", 0>>>>,
  k |-> <<<<"setsid">>, <<"loop_forever">>>>]

signal_ex == [
  p |-> <<<<"pair", "0">>, <<"fork">>, <<"close", "0">>, <<"waitpid">>, <<"write", "1", <<"c">>>>, <<"exit", 0>>>>,
  k |-> <<<<"close", "0">>, <<"exit", 0>>>>]

\* redir: the kid's stdin and stdout are in[0] and out[1] when it calls exec.
redirect(program) == [
  p |-> <<<<"pair", "in0">>, <<"pair", "out0">>, <<"fork">>, <<"close", "out1">>, <<"close", "in0">>,
          <<"write", "in1", <<"h">>>>, <<"echo", "out0">>, <<"exit", 0>>>>,
  k |-> <<<<"close", "in1">>, <<"close", "out0">>>> \o program]

\* stderr is not buffered; what printf wrote comes out at the end.
test_redirect == redirect(<<<<"write", "out1", <<"world">>>>, <<"read", "in0">>,
                            <<"write", "out1", <<"hello", "got">>>>, <<"exit", 0>>>>)
redirect_ls == redirect(<<<<"write", "out1", Hello>>, <<"exit", 0>>>>)
redirect_cat == redirect(<<<<"echo", "in0">>, <<"exit", 0>>>>)

select_ex == [p |-> <<<<"select">>, <<"select">>, <<"select">>, <<"exit", 0>>>>, k |-> <<>>]

fork_echo == <<<<"pair", "0">>, <<"fork">>, <<"read", "0">>, <<"waitpid">>, <<"write", "0", <<"b">>>>>>
local_socket == [
  p |-> FlattenSeq([i \in 1 .. NLoop |-> fork_echo]) \o <<<<"exit", 0>>>>,
  k |-> <<<<"write", "1", Hello>>, <<"no_data", "1">>, <<"exit", 0>>>>]

\* Fault: SIGPIPE is not ignored.
socket_exDies == [
  p |-> <<<<"pair", "0">>, <<"fork">>, <<"close", "1">>,
          <<"read_val", "0">>, <<"inc">>, <<"write_val", "0">>, <<"while", 4>>,
          <<"eof", "0">>, <<"waitpid">>, <<"status", 10>>,
          <<"write_val", "0">>, <<"exit", 0>>>>,
  k |-> <<<<"close", "0">>, <<"write_val", "1">>, <<"read_val", "1">>, <<"while", 2>>, <<"exit", 10>>>>]

socket_ex == [
  p |-> <<<<"pair", "0">>, <<"fork">>, <<"close", "1">>,
          <<"read_val", "0">>, <<"inc">>, <<"write_val", "0">>, <<"while", 4>>,
          <<"eof", "0">>, <<"waitpid">>, <<"status", 10>>, <<"ignore", "SIGPIPE">>,
          <<"write_val", "0">>, <<"exit", 0>>>>,
  k |-> <<<<"close", "0">>, <<"write_val", "1">>, <<"read_val", "1">>, <<"while", 2>>, <<"exit", 10>>>>]

\* A pseudo-terminal whose reads give up after a second (set_tty_to_8n1).
pty_ex == [
  p |-> <<<<"pair", "master">>, <<"write", "slave", <<"x">>>>, <<"read", "master">>,
          <<"write", "master", <<"y">>>>, <<"read_8n1", "slave">>, <<"try_8n1", "slave">>,
          <<"close", "master">>, <<"try_8n1", "slave">>, <<"exit", 0>>>>,
  k |-> <<>>]

Examples == [pipe_ex |-> pipe_ex, pipe_read_exit_ex |-> pipe_read_exit_ex,
  pipe_detect_parent_died |-> pipe_detect_parent_died, wait_ex |-> wait_ex,
  kill_ex |-> kill_ex, signal_ex |-> signal_ex, test_redirect |-> test_redirect,
  redirect_ls |-> redirect_ls, redirect_cat |-> redirect_cat, select_ex |-> select_ex,
  local_socket |-> local_socket, socket_ex |-> socket_ex, pty_ex |-> pty_ex]
-----------------------------------------------------------------------------
VARIABLES
  ex,      \* the example that runs
  pr,      \* each process: next call, state, exit code, the variable val, output
  fds,     \* the processes that hold each end open
  buf,     \* what waits to be read at each end
  sigs,    \* <<process, signal, what it does>>
  env,     \* lines typed and interrupts sent, and the kid's own session
  failed   \* the checks that failed

unixvars == <<ex, pr, fds, buf, sigs, env, failed>>

Process(v) == [pc |-> 1, st |-> "run", code |-> 0, val |-> v, out |-> <<>>]

Init ==
  /\ ex \in DOMAIN Examples
  /\ pr = [p |-> Process(0), k |-> [Process(0) EXCEPT !.st = "none"]]
  /\ fds = [e \in Ends |-> IF e = "stdin" THEN {"p"} ELSE {}]
  /\ buf = [e \in Ends |-> <<>>]
  /\ sigs = {} /\ failed = {}
  /\ env = [typed |-> 0, sigints |-> 0, session |-> FALSE, caught |-> FALSE, cause |-> {}]

At(p, call) ==
  /\ pr[p].st = "run"
  /\ Examples[ex][p][pr[p].pc][1] = call
Arg(p) == Examples[ex][p][pr[p].pc][2]
Go(p) == pr' = [pr EXCEPT ![p].pc = @ + 1]

\* A process that ends closes what it holds, and waits to be waited for.
Closed(p) == [e \in Ends |-> fds[e] \ {p}]
Dead(p, c) == [pr EXCEPT ![p].st = "zombie", ![p].code = c]
Exit(p, c) == pr' = Dead(p, c) /\ fds' = Closed(p) /\ UNCHANGED <<ex, buf, sigs, env, failed>>
Fails(p, why) ==
  /\ pr' = Dead(p, 1) /\ fds' = Closed(p) /\ failed' = failed \cup {why}
  /\ UNCHANGED <<ex, buf, sigs, env>>
Only(p) == Go(p) /\ UNCHANGED <<ex, fds, buf, sigs, env, failed>>

\* Both ends are fresh: a pair of an earlier turn is left open and unused.
Pair(p) ==
  /\ At(p, "pair") /\ Go(p)
  /\ fds' = [fds EXCEPT ![Arg(p)] = {p}, ![Peer[Arg(p)]] = {p}]
  /\ buf' = [buf EXCEPT ![Arg(p)] = <<>>, ![Peer[Arg(p)]] = <<>>]
  /\ UNCHANGED <<ex, sigs, env, failed>>

Fork(p) ==
  /\ At(p, "fork")
  /\ pr' = [pr EXCEPT ![p].pc = @ + 1, !["k"] = Process(pr[p].val)]
  /\ fds' = [e \in Ends |-> IF p \in fds[e] THEN fds[e] \cup {"k"} ELSE fds[e]]
  /\ sigs' = sigs \cup {<<"k", s[2], s[3]>> : s \in sigs}
  /\ UNCHANGED <<ex, buf, env, failed>>

Close(p) ==
  /\ At(p, "close") /\ Go(p)
  /\ fds' = [fds EXCEPT ![Arg(p)] = @ \ {p}]
  /\ UNCHANGED <<ex, buf, sigs, env, failed>>

\* Writing where nobody reads kills the process, unless it ignores SIGPIPE.
Write(p) ==
  /\ \/ At(p, "write") \/ At(p, "write_val")
  /\ LET to == Peer[Arg(p)]
         data == IF At(p, "write") THEN Examples[ex][p][pr[p].pc][3] ELSE <<pr[p].val>>
     IN \/ /\ fds[to] # {} /\ Go(p)
           /\ buf' = [buf EXCEPT ![to] = @ \o data]
           /\ UNCHANGED <<ex, fds, sigs, env, failed>>
        \/ /\ fds[to] = {} /\ <<p, "SIGPIPE", "ignore">> \in sigs
           /\ Only(p)
        \/ /\ fds[to] = {} /\ <<p, "SIGPIPE", "ignore">> \notin sigs
           /\ Exit(p, SIGPIPE)

Eof(e) == buf[e] = <<>> /\ fds[Peer[e]] = {}

Take(p, e, got) ==
  /\ pr' = [pr EXCEPT ![p].pc = IF At(p, "echo") THEN @ ELSE @ + 1,
                      ![p].out = @ \o got,
                      ![p].val = IF At(p, "read_val") THEN Head(got) ELSE @]
  /\ buf' = [buf EXCEPT ![e] = SubSeq(@, Len(got) + 1, Len(@))]
  /\ UNCHANGED <<ex, fds, sigs, env, failed>>

\* A read blocks until there is something; it returns what there is.
Read(p) ==
  \E call \in {"echo", "read", "read_val", "eof"} :
    /\ At(p, call)
    /\ LET e == Arg(p)
       IN \/ /\ buf[e] # <<>> /\ call # "eof"
             /\ Take(p, e, IF call \in {"echo", "read_val"} THEN <<Head(buf[e])>> ELSE buf[e])
          \/ /\ buf[e] # <<>> /\ call = "eof" /\ Fails(p, "expected EOF")
          \/ /\ Eof(e) /\ call # "read_val" /\ Only(p)
          \/ /\ Eof(e) /\ call = "read_val" /\ Fails(p, "read should not fail")

\* async_read with no timeout: anything there is one thing too many.
AsyncRead(p) ==
  /\ At(p, "no_data")
  /\ IF buf[Arg(p)] # <<>> THEN Fails(p, "read should return 0 bytes") ELSE Only(p)

\* With VMIN = 0 and VTIME set a read may return without data.
Read8n1(p) ==
  \E call \in {"read_8n1", "try_8n1"} :
    /\ At(p, call)
    /\ \/ /\ buf[Arg(p)] # <<>> /\ Take(p, Arg(p), buf[Arg(p)])
       \/ /\ call = "try_8n1" /\ buf[Arg(p)] = <<>> /\ Only(p)

\* wait and waitpid block for a kid; the poll tries again.
WaitPid(p) ==
  /\ At(p, "waitpid") \/ At(p, "poll")
  /\ pr["k"].st = "zombie"
  /\ pr' = [pr EXCEPT ![p].pc = @ + 1, !["k"].st = "gone"]
  /\ UNCHANGED <<ex, fds, buf, sigs, env, failed>>

\* assert(status == exit_code); a kid killed by a signal has no exit code.
Status(p) ==
  /\ At(p, "status")
  /\ IF pr["k"].code = Arg(p) THEN Only(p) ELSE Fails(p, "status")

Inc(p) ==
  /\ At(p, "inc")
  /\ pr' = [pr EXCEPT ![p].pc = @ + 1, ![p].val = @ + 1]
  /\ UNCHANGED <<ex, fds, buf, sigs, env, failed>>

While(p) ==
  /\ At(p, "while")
  /\ pr' = [pr EXCEPT ![p].pc = IF pr[p].val < NVal THEN Arg(p) ELSE @ + 1]
  /\ UNCHANGED <<ex, fds, buf, sigs, env, failed>>

ExitCall(p) ==
  \/ At(p, "exit") /\ Exit(p, Arg(p))
  \/ At(p, "exit_val") /\ Exit(p, Arg(p) + pr[p].val)

SetSignal(p) ==
  \E how \in {"ignore", "handle"} :
    /\ At(p, how) /\ Go(p)
    /\ sigs' = sigs \cup {<<p, Arg(p), how>>}
    /\ UNCHANGED <<ex, fds, buf, env, failed>>

SetSid(p) ==
  /\ At(p, "setsid") /\ Go(p)
  /\ env' = [env EXCEPT !.session = TRUE]
  /\ UNCHANGED <<ex, fds, buf, sigs, failed>>

\* while(!caught_sigint) ;
UntilSigint(p) == At(p, "until_sigint") /\ env.caught /\ Only(p)

\* A kid that is a zombie already is sent the signal in vain.
Kill(p) ==
  /\ At(p, "kill") /\ Go(p)
  /\ sigs' = sigs \cup {<<"k", Arg(p), "pending">>}
  /\ UNCHANGED <<ex, fds, buf, env, failed>>

\* catch_siguser, whatever the kid is doing.
CatchSigUser ==
  /\ pr["k"].st = "run" /\ <<"k", "SIGUSR1", "pending">> \in sigs
  /\ Exit("k", 0)

\* kill(parent_pid, 0) succeeds until the parent has been waited for.
ParentGone(p) ==
  /\ At(p, "parent_gone")
  /\ IF pr["p"].st = "gone" THEN Only(p) ELSE Fails(p, "parent still alive")

\* select: data, or two seconds without.
Select(p) ==
  /\ At(p, "select")
  /\ \/ /\ buf["stdin"] = <<>> /\ Only(p)
     \/ /\ buf["stdin"] # <<>> /\ Head(buf["stdin"]) # "EOF"
        /\ Take(p, "stdin", <<Head(buf["stdin"])>>)
     \/ /\ buf["stdin"] # <<>> /\ Head(buf["stdin"]) = "EOF" /\ Fails(p, "read failed")

Call(p) ==
  \/ Pair(p) \/ Fork(p) \/ Close(p) \/ Write(p) \/ Read(p) \/ AsyncRead(p) \/ Read8n1(p)
  \/ WaitPid(p) \/ Status(p) \/ Inc(p) \/ While(p) \/ ExitCall(p) \/ SetSignal(p)
  \/ SetSid(p) \/ UntilSigint(p) \/ Kill(p) \/ ParentGone(p) \/ Select(p)
-----------------------------------------------------------------------------
(* The user, and the shell that waits for the parent.                      *)
Reap ==
  /\ pr["p"].st = "zombie"
  /\ pr' = [pr EXCEPT !["p"].st = "gone"]
  /\ UNCHANGED <<ex, fds, buf, sigs, env, failed>>

Type ==
  /\ ex = "select_ex" /\ env.typed < MaxEnv /\ pr["p"].st = "run"
  /\ \E l \in {"line", "EOF"} : buf' = [buf EXCEPT !["stdin"] = Append(@, l)]
  /\ env' = [env EXCEPT !.typed = @ + 1]
  /\ UNCHANGED <<ex, pr, fds, sigs, failed>>

\* Control-C reaches the parent, and the kid until it has its own session.
\* A handler interrupts a wait that has not found its kid yet.
ControlC ==
  /\ ex = "kill_ex" /\ env.sigints < MaxEnv /\ pr["p"].st = "run"
  /\ LET handled == <<"p", "SIGINT", "handle">> \in sigs
         kid == pr["k"].st = "run" /\ ~env.session
         waiting == At("p", "waitpid") /\ pr["k"].st = "run"
         dies == (IF ~handled \/ waiting THEN {"p"} ELSE {}) \cup (IF kid THEN {"k"} ELSE {})
     IN /\ pr' = [x \in Procs |-> IF x \in dies
                    THEN [pr[x] EXCEPT !.st = "zombie", !.code = IF x = "p" /\ handled THEN 1 ELSE SIGINT]
                    ELSE pr[x]]
        /\ fds' = [e \in Ends |-> fds[e] \ dies]
        /\ failed' = IF handled /\ waiting THEN failed \cup {"waitpid failed"} ELSE failed
        /\ env' = [env EXCEPT !.sigints = @ + 1, !.caught = @ \/ handled,
                     !.cause = @ \cup (IF dies # {} THEN {"early"} ELSE {})]
  /\ UNCHANGED <<ex, buf, sigs>>

User == Type \/ ControlC

Runs(p) == Call(p) \/ (p = "k" /\ CatchSigUser)

Next == (\E p \in Procs : Runs(p)) \/ Reap \/ User

\* Both processes run on, the shell waits for its child, and the user sends the
\* interrupt that kill-ex asks for.
Spec ==
  /\ Init /\ [][Next]_unixvars
  /\ \A p \in Procs : WF_unixvars(Runs(p))
  /\ WF_unixvars(Reap) /\ WF_unixvars(~env.caught /\ ControlC)
-----------------------------------------------------------------------------
\* What the parent has printed when it is done.
Output == [pipe_ex |-> Hello, pipe_read_exit_ex |-> Hello, redirect_ls |-> Hello,
  test_redirect |-> <<"world", "hello", "got">>, pty_ex |-> <<"x", "y">>,
  local_socket |-> FlattenSeq([i \in 1 .. NLoop |-> Hello])]

(* Every example does what its comments announce, whichever process runs   *)
(* first: all the kid wrote is read, before or after it is gone; a failed  *)
(* check or a death by signal is the SIGPIPE that signal-ex shows, or one  *)
(* of the races the programs leave open: a parent whose shell has not      *)
(* waited for it yet, an interrupt before kill-ex is ready or after it is  *)
(* done waiting, the end of input typed at select-ex, and a redirected     *)
(* program that ends without reading.  And every example ends, both        *)
(* processes with it, unless it is interrupted early or the redirected     *)
(* program reads its input to the end: redir keeps the other end open, and *)
(* the two wait for each other.                                            *)
AsAnnounced ==
  /\ [](failed # {} =>
          \/ ex = "pipe_detect_parent_died" /\ failed = {"parent still alive"}
          \/ ex = "kill_ex" /\ env.cause # {}
          \/ ex = "select_ex" /\ "EOF" \in ToSet(buf["stdin"]))
  /\ [](pr["p"].st \in {"zombie", "gone"} =>
          \/ pr["p"].code = 0 /\ (ex \in DOMAIN Output => pr["p"].out = Output[ex])
          \/ failed # {}
          \/ pr["p"].code = SIGPIPE /\ ex \in {"signal_ex", "redirect_ls"}
          \/ pr["p"].code = SIGINT /\ env.cause # {})
  /\ <>(ex = "redirect_cat" \/ env.cause # {} \/ \A p \in Procs : pr[p].st # "run")
=============================================================================
