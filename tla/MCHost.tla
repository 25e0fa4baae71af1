-------------------------------- MODULE MCHost --------------------------------
(* The programs and helpers that run beside a Pi program, each on its own: *)
(* `which` says whose turn it is in this behaviour, the rest stands still. *)
EXTENDS UnixExamples, Programs

VARIABLES
  which,
  dirs, files,
  fmt, n, out, all, ret,
  msgphase, data, m, got,
  rdata, arr, result, ref, lost, rcalls,
  vm, proc, vtest, vram,
  imp, dbg, faults, dtest,
  card, ftest, fstate, before,
  lab, pins, irq, evq, edges, etest

-----------------------------------------------------------------------------
(* Instances, beside those of Programs.  The directory: 4 entries, long     *)
(* names of 4 characters per entry; the printk words: 8 bits.               *)
Digit(c) == c \in 48 .. 57
Raw(base, ext) == base \o [i \in 1 .. 8 - Len(base) |-> 32] \o ext
File(base, ext, lower, long) == [raw |-> Raw(base, ext), lower |-> lower, long |-> long]
MCHostFiles ==
  { File(<<65>>, <<66, 67, 68>>, FALSE, <<97, 246, 8364>>),
    File(<<65, 126, 49>>, <<66, 67, 68>>, FALSE, <<97, 98, 99, 100, 1046, 102>>),
    File(<<66, 50>>, <<32, 32, 32>>, TRUE, <<>>) }
MCPiNames ==
  { <<65, 46, 66, 67, 68>>, <<70, 79, 79>>, <<97>>, <<46, 66, 67, 68>>,
    <<65, 66, 67, 68, 69, 70, 71, 72, 46, 49, 50, 51>> }

MCWords == {0, 1, 9, 10, 15, 16, 127, 128, 200, 255}
MCItem(ch, width, hi, lo, text) == [ch |-> ch, width |-> width, hi |-> hi, lo |-> lo, text |-> text]
MCFormats ==
  {<<MCItem("plain", 0, 0, 0, <<"h">>), MCItem(ch, width, hi, lo, <<>>), MCItem("%%", 0, 0, 0, <<>>)>> :
     ch \in {"d", "u", "x", "b", "lld", "llx"}, width \in {0, 1, 4}, hi \in {0, 1, 255}, lo \in MCWords}
  \cup {<<>>, <<MCItem("s", 4, 0, 0, <<"a", "b", "c">>), MCItem("c", 3, 0, 0, <<"z">>), MCItem("p", 0, 0, 0, <<>>)>>}

MCGarbage ==
  UNION {[1 .. k -> {0, 34, 17}] : k \in 0 .. 4}
  \cup {<<238, 238, 221, 221>>, <<238, 238, 221>>, <<34, 34, 17, 17, 9>>}
Done == <<"D", "O", "N", "E", "!", "!", "!", "nl">>
MCTexts ==
  {p \o Done \o t : p \in {<<>>, <<"x">>, <<"D">>, <<"D", "O">>, Front(Done), <<"nul", "nl">>}, t \in {<<>>, <<"x">>}}
  \cup {Front(Done) \o <<"cr", "nl">>}

MCPrints == {<<104>>, <<104, 10>>}

MCSetting(setter, value) == [setter |-> setter, value |-> value]
MCChanges ==
  {MCSetting("Mhz_delta", 128), MCSetting("dr", 32), MCSetting("addr_nbytes", 4),
   MCSetting("retran_delay", 4250)}

MCCommands == {<<>>, <<"AT">>, <<"SEND">>}
MCEol == <<"cr", "nl">>
MCAnswer ==
  [c \in MCCommands |-> IF c = <<"SEND">> THEN <<"OK">> \o MCEol \o <<">">> ELSE MCEol \o <<"v">> \o MCEol \o <<"OK">> \o MCEol]
MCEvents == {<<"W">> \o MCEol, MCEol}

MCOtherPrograms == {[name |-> "format", notmain |-> <<[call |-> "user_printk", arg |-> <<"a", "%">>]>>]}

MCStream == <<3, 4, 5>>
MCRedos == {MCSetting("db", 0), MCSetting("db", 6)}

Fat == INSTANCE FatDirectory WITH NDir <- 4, HostFiles <- MCHostFiles, PiNames <- MCPiNames, Parts <- <<2, 1, 1>>
Printk == INSTANCE Printk WITH Word <- 256, Formats <- MCFormats, Sizes <- {1, 4, 16}
Msg == INSTANCE Msg2 WITH Maxbytes <- {4, 7}, Sizes <- {0, 1, 2, 4}, out <- got
Random == INSTANCE PiRandom WITH
  Arrays <- {"A", "B"}, Sizes <- {4, 8, 32, 200}, Seeds <- {0, 3}, breaks <- <<8, 32, 64, 128, 256>>, degrees <- <<0, 3, 4, 5, 7>>,
  seps <- <<0, 1, 1, 2, 1>>, Word <- 64, lcg <- [m |-> 31, a |-> 3], Rounds <- 2, MaxCalls <- 5, buf <- rdata, calls <- rcalls
Vm == INSTANCE VmTests
Debug == INSTANCE DebugTests WITH n <- 3
Device == INSTANCE DeviceTests WITH hello <- <<104, 101, 108, 108, 111>>, n <- 3

MCSystem ==
  [f \in {"BOOTCODE.BIN", "START.ELF", "HELLO-F.BIN", "BOOTLO~1.BIN", "CONFIG.TXT", "KERNEL.IMG"} |-> "intact"]
FatProgs == INSTANCE FatTests WITH Cards <- {}
MCCard == FatProgs!card_mk(MCSystem)
MCCards ==
  {MCCard, FatProgs!card_mk(<<>>)}
  \cup {[MCCard EXCEPT !.files = FatProgs!With(MCSystem, name, as)] : name \in {"B.TXT", "CONFIG.TXT"}, as \in {"intact", "corrupted"}}
  \cup {[MCCard EXCEPT !.mbr.parts = types] : types \in {<<11, 0, 0, 0>>, <<131, 0, 0, 0>>, <<12, 0, 11, 0>>}}
  \cup {[MCCard EXCEPT !.boot.sec_per_cluster = k] : k \in {0, 3}}
  \cup {[MCCard EXCEPT !.fat[1].low = x] : x \in {FatProgs!FREE_CLUSTER, FatProgs!BAD_CLUSTER, 268435440}}
  \cup {[MCCard EXCEPT !.mbr.sigval = 0], [MCCard EXCEPT !.boot.nfats = 1], [MCCard EXCEPT !.boot.bytes_per_sec = 4096],
        [MCCard EXCEPT !.fsinfo[3] = "0x000055aa"]}
FatProg == INSTANCE FatTests WITH Cards <- MCCards
ASSUME MCTrialsAssumption == Trials!TrialsAssumption
ASSUME MCFakeAssumption == Fake!FakeAssumption
ASSUME MCDemoAssumption == Demo!DemoAssumption
ASSUME MCExceptionsAssumption == Excs!ExceptionsAssumption
ASSUME MCRegsAssumption == Regs!RegsAssumption
ASSUME MCShellAssumption == Shell!ShellAssumption
ASSUME MCOsAssumption == Os!OsAssumption
ASSUME MCBootAssumption == Boot!BootAssumption
-----------------------------------------------------------------------------
unixv == <<ex, pr, fds, buf, sigs, env, failed>>
bootv == <<phase, tty, boot, pos, seen>>
timerv == <<place, clock, cnt, period, period_sum, last_clk, average, passed, samples, found, restarts>>
fatv == <<dirs, files>>
printkv == <<fmt, n, out, all, ret>>
fakev == <<fake, mem, calls, traced, end, known>>
msgv == <<msgphase, data, m, got>>
trialv == <<part, trials, tsum, est, works>>
regv == <<radio, nic, prog>>
excv == <<cpu, stack, table, irqtimer, taken, run>>
userv == <<os, linked, ram, osstep, todo, printed, boots>>
randomv == <<rdata, arr, result, ref, lost, rcalls>>
shellv == <<opt, unix_fd, esp_fd, esp, shell, said, shown, typed>>
vmv == <<vm, proc, vtest, vram>>
debugv == <<imp, dbg, faults, dtest>>
cardv == <<card, ftest, fstate, before>>
devicev == <<lab, pins, irq, evq, edges, etest>>
hostvars == <<which, unixv, bootv, timerv, fatv, printkv, fakev, msgv, trialv, regv, excv, userv, randomv, shellv,
              vmv, debugv, cardv, devicev>>

\* What stands still.
UnixOff ==
  /\ ex = "none" /\ fds = <<>> /\ buf = <<>> /\ sigs = {} /\ failed = {}
  /\ pr = [p \in Procs |-> [st |-> "gone", code |-> 0]]
  /\ env = [cause |-> {}, caught |-> TRUE]
BootOff == phase = "off" /\ tty = <<>> /\ boot = <<>> /\ pos = 0 /\ seen = <<>>
TimerOff ==
  /\ place = "off" /\ clock = 0 /\ cnt = 0 /\ period = 0 /\ period_sum = 0 /\ last_clk = 0
  /\ average = -1 /\ passed = <<>> /\ samples = <<>> /\ found = <<>> /\ restarts = {}
FatOff == dirs = <<>> /\ files = {}
PrintkOff == fmt = <<>> /\ n = 1 /\ out = <<>> /\ all = <<>> /\ ret = 0
FakeOff == fake = "lib" /\ mem = <<>> /\ calls = 0 /\ traced = 0 /\ end = "off" /\ known = [a \in Fake!Addr |-> -1]
MsgOff == msgphase = "off" /\ data = <<>> /\ m = [msg |-> <<>>, off |-> 0, nbytes |-> 0] /\ got = <<>>
TrialsOff ==
  /\ part = "off" /\ trials = <<>> /\ works = 0
  /\ tsum = Trials!trial_mk(0, 0, 0, 32) /\ est = Trials!est_mk(0, 0)

ExcOff ==
  /\ cpu = [pc |-> Excs!Address("off")] /\ stack = <<>> /\ table = "none" /\ irqtimer = <<>> /\ taken = {} /\ run = "off"
UserOff ==
  /\ os = <<>> /\ linked = <<>> /\ ram = <<>> /\ osstep = "off" /\ todo = <<>> /\ printed = <<>> /\ boots = <<>>
ShellOff ==
  /\ opt = FALSE /\ unix_fd = <<>> /\ esp_fd = <<>> /\ esp = [out |-> <<>>, answering |-> FALSE]
  /\ shell = [at |-> "off", line |-> <<>>, begun |-> FALSE, saw_cmd_p |-> FALSE, early |-> FALSE]
  /\ said = [lines |-> <<>>, line |-> <<>>] /\ shown = <<>> /\ typed = [typed |-> 0, events |-> 0]
VmOff == vm = <<>> /\ proc = <<>> /\ vtest = [end |-> ""] /\ vram = <<>>
DebugOff == imp = <<>> /\ dbg = <<>> /\ faults = <<>> /\ dtest = [end |-> ""]
DeviceOff == lab = <<>> /\ pins = <<>> /\ irq = <<>> /\ evq = <<>> /\ edges = <<>> /\ etest = [end |-> ""]
CardOff == card = MCCard /\ ftest = FatProg!NotRun /\ fstate = {} /\ before = MCSystem

HostInit ==
  /\ which \in {"unix", "boot", "timer", "fat", "printk", "fake", "msg", "trials", "regs", "excs", "user", "random", "shell", "vm", "debug", "card", "device"}
  /\ IF which = "unix" THEN Init ELSE UnixOff
  /\ IF which = "boot" THEN Boot!Init ELSE BootOff
  /\ IF which = "timer" THEN Demo!Init ELSE TimerOff
  /\ IF which = "fat" THEN Fat!Init ELSE FatOff
  /\ IF which = "printk" THEN Printk!Init ELSE PrintkOff
  /\ IF which = "fake" THEN Fake!Init ELSE FakeOff
  /\ IF which = "msg" THEN Msg!Init ELSE MsgOff
  /\ IF which = "trials" THEN Trials!Init ELSE TrialsOff
  /\ IF which = "excs" THEN Excs!Init ELSE ExcOff
  /\ IF which = "user" THEN Os!Init ELSE UserOff
  /\ IF which = "shell" THEN Shell!Init ELSE ShellOff
  /\ IF which = "vm" THEN Vm!Init ELSE VmOff
  /\ IF which = "debug" THEN Debug!Init ELSE DebugOff
  /\ IF which = "card" THEN FatProg!Init ELSE CardOff
  /\ IF which = "device" THEN Device!Init ELSE DeviceOff
  /\ Regs!Init /\ Random!Init

\* The others stand still.
Alone(w) ==
  /\ UNCHANGED which
  /\ IF w = "unix" THEN TRUE ELSE UNCHANGED unixv
  /\ IF w = "boot" THEN TRUE ELSE UNCHANGED bootv
  /\ IF w = "timer" THEN TRUE ELSE UNCHANGED timerv
  /\ IF w = "fat" THEN TRUE ELSE UNCHANGED fatv
  /\ IF w = "printk" THEN TRUE ELSE UNCHANGED printkv
  /\ IF w = "fake" THEN TRUE ELSE UNCHANGED fakev
  /\ IF w = "msg" THEN TRUE ELSE UNCHANGED msgv
  /\ IF w = "trials" THEN TRUE ELSE UNCHANGED trialv
  /\ IF w = "regs" THEN TRUE ELSE UNCHANGED regv
  /\ IF w = "excs" THEN TRUE ELSE UNCHANGED excv
  /\ IF w = "user" THEN TRUE ELSE UNCHANGED userv
  /\ IF w = "random" THEN TRUE ELSE UNCHANGED randomv
  /\ IF w = "shell" THEN TRUE ELSE UNCHANGED shellv
  /\ IF w = "vm" THEN TRUE ELSE UNCHANGED vmv
  /\ IF w = "debug" THEN TRUE ELSE UNCHANGED debugv
  /\ IF w = "card" THEN TRUE ELSE UNCHANGED cardv
  /\ IF w = "device" THEN TRUE ELSE UNCHANGED devicev

Unix(move) == which = "unix" /\ move /\ Alone("unix")
Booting(move) == which = "boot" /\ move /\ Alone("boot")
UserRuns(move) == which = "user" /\ move /\ Alone("user")
Shelling(move) == which = "shell" /\ move /\ Alone("shell")
Paging(move) == which = "vm" /\ move /\ Alone("vm")
Debugging(move) == which = "debug" /\ move /\ Alone("debug")
Interrupting(move) == which = "device" /\ move /\ Alone("device")
Helpers ==
  \/ which = "timer" /\ Demo!Next /\ Alone("timer")
  \/ which = "fat" /\ Fat!Next /\ Alone("fat")
  \/ which = "printk" /\ Printk!Next /\ Alone("printk")
  \/ which = "fake" /\ Fake!Next /\ Alone("fake")
  \/ which = "msg" /\ Msg!Next /\ Alone("msg")
  \/ which = "trials" /\ Trials!Next /\ Alone("trials")
  \/ which = "regs" /\ Regs!Next /\ Alone("regs")
  \/ which = "excs" /\ Excs!Next /\ Alone("excs")
  \/ which = "random" /\ Random!Next /\ Alone("random")
  \/ which = "card" /\ FatProg!Next /\ Alone("card")

HostNext ==
  \/ Unix(Next) \/ Booting(Boot!Next) \/ UserRuns(Os!Next) \/ Shelling(Shell!Next)
  \/ Paging(Vm!Next) \/ Debugging(Debug!Next) \/ Interrupting(Device!Next) \/ Helpers

\* The fairness of UnixExamples, BootUnix, TrivialOs and EspShell; the Pi runs
\* the tests of the virtual memory and of the debug hardware to their end, and
\* its timer leaves the main program time between two interrupts.
HostSpec ==
  /\ HostInit /\ [][HostNext]_hostvars
  /\ WF_hostvars(Unix(Runs("p"))) /\ WF_hostvars(Unix(Runs("k")))
  /\ WF_hostvars(Unix(Reap)) /\ WF_hostvars(Unix(~env.caught /\ ControlC))
  /\ WF_hostvars(Booting(Boot!WaitForData)) /\ WF_hostvars(Booting(Boot!drain))
  /\ WF_hostvars(UserRuns(Os!Runs)) /\ WF_hostvars(Shelling(Shell!Send)) /\ WF_hostvars(Shelling(Shell!esp_echo))
  /\ WF_hostvars(Paging(Vm!Step)) /\ WF_hostvars(Debugging(Debug!Next))
  /\ WF_hostvars(Interrupting(Device!Interrupts)) /\ SF_hostvars(Interrupting(Device!Main))
-----------------------------------------------------------------------------
(* The properties of the modules composed, see there and Programs.         *)
DirectoryListed == Fat!DirectoryListed
ComputationsExact == Printk!PrintsExactly /\ Msg!MessagesReadBack /\ Random!NumbersResume

(* The labs' test programs can be believed.  With the MMU on, an access     *)
(* goes through only as the page table has it, and each test of the virtual *)
(* memory ends, as it says (VmTests); SUCCESS of a test of the debug        *)
(* hardware or of the device interrupts is earned (DebugTests, DeviceTests) *)
(* and each of them ends; and the tests of the FAT32 driver can be run      *)
(* again after any others (FatTests).                                       *)
LabTestsSound ==
  /\ Vm!AccessesObeyTable
  /\ [](Vm!EndsAsSaid /\ Debug!SuccessIsEarned /\ Device!SuccessIsEarned /\ FatProg!TestsRunAgain)
  /\ <>(which = "vm" => vtest.end # "") /\ <>(which = "debug" => dtest.end # "") /\ <>(which = "device" => etest.end # "")
=============================================================================
