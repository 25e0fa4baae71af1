------------------------------ MODULE TrivialOs ------------------------------
(***************************************************************************)
(* labs/11-user-process/code: pitag-linker appends a user program to the   *)
(* kernel's binary, where the kernel's bss will be; after the boot the     *)
(* kernel moves it to its link address before anything is cleared, jumps   *)
(* to it, and serves its system calls until it exits and the Pi reboots.   *)
(* What the binary left behind the kernel's data stays in memory over a    *)
(* reboot, so the kernel can also be booted alone.                         *)
(*                                                                         *)
(* A word of memory is a pair: what it is, and its value.                  *)
(***************************************************************************)
EXTENDS Integers, Sequences, SequencesExt

CONSTANTS
  OtherPrograms, \* user programs but the directory's: name and notmain, a sequence of calls
  Parts,      \* values of part, which the source is changed to
  BssSizes,   \* words the kernel's bss may take
  MaxBoots    \* bound: boots

VARIABLES
  os,      \* the build: part, and words of bss
  linked,  \* the program last linked behind the kernel
  ram,     \* the words after the kernel's data, those at the link address,
           \* and the loader's prog_name
  step,    \* off, custom_loader, bss, notmain, user, exited, panicked
  todo,    \* system calls the user program has yet to make
  printed, \* what this run has printed
  boots    \* boots so far; whether this one's binary holds a program

osvars == <<os, linked, ram, step, todo, printed, boots>>

LINK_ADDR == <<"addr", 4194304>>
BIN_TAG == <<"tag", 0>>
Count(k) == <<"bytes", k>>
Zero == <<"zero", 0>>
Garbage == <<"garbage", 0>>
-----------------------------------------------------------------------------
(* The user's library, as the system calls it makes.                       *)
Sys(no, arg) == <<[no |-> no, arg |-> arg]>>
sys_exit(code) == Sys("EXIT", code)
user_putk(msg) == FlattenSeq([i \in 1 .. Len(msg) |-> Sys("PUTC", msg[i])])
die(msg) == user_putk(msg) \o sys_exit("1")
\* The only format is %x.
user_printk(fmt) ==
  FlattenSeq([i \in 1 .. Len(fmt) |->
    IF fmt[i] = "%x" THEN Sys("PUT_HEX", "hex")
    ELSE IF fmt[i] = "%" THEN die(<<"b", "a", "d">>)
    ELSE Sys("PUTC", fmt[i])])
sys_get_cpsr == Sys("GET_CPSR", "none")

\* The programs of the directory, as calls.
Calling(call, arg) == [call |-> call, arg |-> arg]
test_exit == <<Calling("sys_exit", <<"0">>)>>
test_nop == <<>>
test_hello ==
  <<Calling("user_putk", <<"h", "i">>), Calling("user_printk", <<"sp", "%x">>), Calling("sys_get_cpsr", <<>>),
    Calling("sys_exit", <<"0">>)>>

\* A program calls what there is, and sys_exit with a code.
IsProgram(p) ==
  /\ p \in [name : STRING, notmain : Seq([call : {"user_putk", "user_printk", "sys_get_cpsr", "sys_exit"}, arg : Seq(STRING)])]
  /\ \A i \in 1 .. Len(p.notmain) : p.notmain[i].call = "sys_exit" => p.notmain[i].arg # <<>>
OsAssumption == BssSizes \subseteq Nat /\ \A p \in OtherPrograms : IsProgram(p)

Programs ==
  OtherPrograms \cup
  {[name |-> "0-test-exit", notmain |-> test_exit], [name |-> "0-test-nop", notmain |-> test_nop],
   [name |-> "1-test-hello", notmain |-> test_hello]}

Calls(c) ==
  CASE c.call = "user_putk" -> user_putk(c.arg)
    [] c.call = "user_printk" -> user_printk(c.arg)
    [] c.call = "sys_get_cpsr" -> sys_get_cpsr
    [] c.call = "sys_exit" -> sys_exit(c.arg[1])

\* start.S exits for a notmain that returns.
_start(notmain) == FlattenSeq([i \in 1 .. Len(notmain) |-> Calls(notmain[i])]) \o sys_exit("-1")
-----------------------------------------------------------------------------
(* The linker.  The program's own first word is its link address.          *)
Binary(p) == <<LINK_ADDR>> \o [i \in 1 .. Len(p.notmain) |-> <<"call", p.notmain[i]>>]
pitag_linker(p) ==
  LET b_nbytes == Len(Binary(p))
  IN <<BIN_TAG, Count(b_nbytes + 2), Count(b_nbytes), Count(0)>> \o Binary(p) \o <<<<"name", p.name>>>>

(* The loader reads the words behind its data, whatever they are.          *)
LoadOk(m) == m.tail[5] = LINK_ADDR
\* Fault: the name is left where it was.
custom_loaderInPlace(m) ==
  LET b_nbytes == m.tail[3][2]
  IN [m EXCEPT !.user = SubSeq(m.tail, 5, 4 + b_nbytes), !.prog_name = <<"at", 5 + b_nbytes>>]
custom_loader(m) ==
  LET b_nbytes == m.tail[3][2]
  IN [m EXCEPT !.user = SubSeq(m.tail, 5, 4 + b_nbytes), !.prog_name = m.tail[5 + b_nbytes]]
ClearBss(m) == [m EXCEPT !.tail = [i \in DOMAIN m.tail |-> IF i <= os.bss THEN Zero ELSE m.tail[i]]]
-----------------------------------------------------------------------------
Init ==
  /\ os \in [part : Parts, bss : BssSizes]
  /\ linked \in Programs
  /\ ram = [tail |-> [i \in 1 .. 10 |-> Garbage], user |-> <<>>, prog_name |-> Garbage]
  /\ step = "off" /\ todo = <<>> /\ printed = <<>>
  /\ boots = [n |-> 0, whole |-> FALSE]

\* The bootloader writes the binary from the kernel's start: the kernel with
\* a program linked behind it, or alone.
Boot ==
  /\ step \in {"off", "exited", "panicked"} /\ boots.n < MaxBoots
  /\ step' = "custom_loader" /\ printed' = <<>> /\ todo' = <<>>
  /\ \/ \E p \in Programs :
          /\ linked' = p
          /\ ram' = [ram EXCEPT !.tail = pitag_linker(p) \o SubSeq(@, Len(pitag_linker(p)) + 1, Len(@)),
                                !.prog_name = Garbage]
          /\ boots' = [n |-> boots.n + 1, whole |-> TRUE]
     \/ /\ ram' = [ram EXCEPT !.prog_name = Garbage]
        /\ boots' = [n |-> boots.n + 1, whole |-> FALSE]
        /\ UNCHANGED linked
  /\ UNCHANGED os

\* _cstart: the loader, the bss, notmain.
_cstart ==
  /\ \/ /\ step = "custom_loader"
        /\ IF LoadOk(ram) THEN ram' = custom_loader(ram) /\ step' = "bss"
           ELSE step' = "panicked" /\ UNCHANGED ram
     \/ step = "bss" /\ ram' = ClearBss(ram) /\ step' = "notmain"
  /\ UNCHANGED <<os, linked, todo, printed, boots>>

\* program_get asserts that there is a name.
NameNow == IF ram.prog_name[1] = "at" THEN ram.tail[ram.prog_name[2]] ELSE ram.prog_name
program_get == NameNow[1] = "name"

\* Only part 0 jumps to the user's code: user_mode_run_fn, which the others
\* use, with single stepping or without, is not implemented.
notmain ==
  /\ step = "notmain"
  /\ IF program_get /\ os.part = 0
     THEN /\ step' = "user"
          /\ todo' = _start([i \in 1 .. Len(ram.user) - 1 |-> ram.user[i + 1][2]])
     ELSE step' = "panicked" /\ UNCHANGED todo
  /\ UNCHANGED <<os, linked, ram, printed, boots>>

do_syscall ==
  /\ step = "user"
  /\ LET s == Head(todo)
     IN CASE s.no \in {"PUTC", "PUT_HEX"} -> printed' = Append(printed, s.arg) /\ UNCHANGED step
          [] s.no = "EXIT" -> printed' = printed \o <<NameNow[2], s.arg>> /\ step' = "exited"
          [] OTHER -> step' = "panicked" /\ UNCHANGED printed
  /\ todo' = Tail(todo)
  /\ UNCHANGED <<os, linked, ram, boots>>

Runs == _cstart \/ notmain \/ do_syscall
Next == Boot \/ Runs
Spec == Init /\ [][Next]_osvars /\ WF_osvars(Runs)
-----------------------------------------------------------------------------
\* What the source of p says it prints, and with which code it exits.
Said(p) ==
  LET all == _start(p.notmain)
      exit == CHOOSE i \in 1 .. Len(all) : all[i].no = "EXIT" /\ \A j \in 1 .. i - 1 : all[j].no # "EXIT"
  IN [i \in 1 .. exit - 1 |-> all[i].arg] \o <<p.name, all[exit].arg>>
Undefined(p) == \E i \in 1 .. Len(p.notmain) : p.notmain[i].call = "sys_get_cpsr"

(* A run that exits has printed what the program linked last prints, in    *)
(* order, with its name and its exit code, although the bss the kernel     *)
(* clears lies over it and an earlier program lay there before; in part 0  *)
(* one that was linked, and makes only calls the kernel knows, does exit;  *)
(* and no run hangs.                                                       *)
ExitsAsLinked ==
  /\ step = "exited" => printed = Said(linked)
  /\ step = "panicked" /\ boots.whole => os.part # 0 \/ Undefined(linked)
UserRunsAsLinked ==
  /\ [](step \in {"exited", "panicked"} => ExitsAsLinked)
  /\ [](step = "custom_loader" => <>(step \in {"exited", "panicked"}))
=============================================================================
