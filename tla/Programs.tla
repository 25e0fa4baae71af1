------------------------------- MODULE Programs -------------------------------
(***************************************************************************)
(* Eight programs that have nothing to do with each other but that each is *)
(* model-checked beside other programs (MCHost) and proved for every value *)
(* of its constants (ProgramProofs): the radio's trials and its set-up,    *)
(* the timer demo and gprof, the fake Pis, the exceptions, the shell of    *)
(* the ESP8266, the kernel that runs a user program, and the host's ends   *)
(* of a boot session.                                                      *)
(***************************************************************************)

\* NrfTrials.
CONSTANTS ntrial, Usecs, MaxTrials, Timeouts
VARIABLES part, trials, tsum, est, works
Trials == INSTANCE NrfTrials

\* TimerDemo, with its own program counter and clock.
CONSTANTS DemoWidth, N, Samplable, Gaps, MaxInts
VARIABLES place, clock, cnt, period, period_sum, last_clk, average, passed, samples, found, restarts
Demo == INSTANCE TimerDemo WITH Width <- DemoWidth, Code <- Samplable, pc <- place, clk <- clock

\* FakePi.
CONSTANTS Others, Written, Stream, MEM_MAX, max_trace
VARIABLES fake, mem, calls, traced, end, known
Fake == INSTANCE FakePi WITH Other <- Others, Val <- Written

\* Exceptions.
CONSTANTS Val, MaxPeriods
VARIABLES cpu, stack, table, irqtimer, taken, run
Excs == INSTANCE Exceptions WITH timer <- irqtimer

\* NrfRegs.
CONSTANTS Changes, Redos, MaxRuns, FifoSize
VARIABLES radio, nic, prog
Regs == INSTANCE NrfRegs

\* EspShell.
CONSTANTS Commands, Answer, Events, MaxTyped, MaxEvents
VARIABLES opt, unix_fd, esp_fd, esp, shell, said, shown, typed
Shell == INSTANCE EspShell WITH printed <- shown, count <- typed

\* TrivialOs.
CONSTANTS OtherPrograms, Parts, BssSizes, MaxBoots
VARIABLES os, linked, ram, osstep, todo, printed, boots
Os == INSTANCE TrivialOs WITH step <- osstep

\* BootUnix.
CONSTANTS OldBytes, Messages, Texts
VARIABLES phase, tty, boot, pos, seen
Boot == INSTANCE BootUnix WITH Garbage <- OldBytes, Prints <- Messages
-----------------------------------------------------------------------------
(* Their properties, see there.                                            *)
TrialsSound == Trials!TrialsSound
AverageHonest == Demo!AverageHonest
MemoryReadsBack == Fake!MemoryReadsBack
ExceptionsInvisible == Excs!ExceptionsInvisible
ReadyMeansConfigured == Regs!ReadyMeansConfigured
ShellFaithful == Shell!ShellFaithful
UserRunsAsLinked == Os!UserRunsAsLinked
StreamUnderstood == Boot!StreamUnderstood
=============================================================================
