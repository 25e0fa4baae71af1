----------------------------- MODULE Exceptions -----------------------------
(***************************************************************************)
(* Exceptions on the Pi, instruction by instruction, in three programs:    *)
(* labs/6-interrupts/timer-int/timer.c, which the timer interrupts where   *)
(* it likes, through interrupt_asm and the C function interrupt_vector;    *)
(* 7-device-interrupts/3-vector-base, whose system call is one addition;   *)
(* and part 0 of 11-user-process/code/trivial-os, whose user code runs at  *)
(* SUPER level and calls do_syscall.  All start in libpi/staff-start.S.    *)
(*                                                                         *)
(* r0 and r1 stand for the registers a C function may change.  A word is   *)
(* an address (a routine and the number of an instruction in it), a number *)
(* or a status (a mode and its I bit).                                     *)
(***************************************************************************)
EXTENDS Integers, Sequences

CONSTANTS
  Val,         \* what a C function may leave in a register
  MaxPeriods   \* bound: timer periods that end while the program runs

ExceptionsAssumption == Val \subseteq Int

VARIABLES
  cpu,      \* mode, I bit, flag, pc, r0, r1, and sp, lr, spsr of each mode
  stack,    \* the words of the two stacks
  table,    \* the exception table in force
  timer,    \* on; periods ended so far; an interrupt is pending
  taken,    \* history: the machine as the last exception found it
  run       \* boot, running, rebooted, panicked, or astray

exvars == <<cpu, stack, table, timer, taken, run>>
-----------------------------------------------------------------------------
(* The code.  What the C programs do between the calls is "work", which    *)
(* changes a register, and "cmp", which changes the flags; printk stands   *)
(* for the functions they call.  push_r0_lr and pop_r0_lr are the push and *)
(* the pop of r0 to r12 and lr, push_r1_lr and pop_r1_lr of all but r0,    *)
(* bl_f a call of f, bic_I the bic that clears the status's I bit, add_1   *)
(* and sub_lr_4 the add on r0 and the sub on lr, mrs_cpsr and msr_cpsr the *)
(* moves between r0 and the status, and movs_pc_lr the return from an      *)
(* exception.                                                              *)
notmain_timer ==
  <<"int_init", "timer_interrupt_init", "bl_system_enable_interrupts", "work", "bl_printk", "work", "rpi_reboot">>
notmain_vector_base ==
  <<"set_slow", "work", "bl_swi_add", "set_fast", "work", "bl_swi_add", "rpi_reboot">>
notmain_trivial_os ==
  <<"set_part1", "work", "bl_syscall_invoke_asm", "work", "bl_syscall_invoke_asm", "rpi_reboot">>
printk == <<"push_lr", "work", "cmp", "pop_lr", "bx_lr">>
system_enable_interrupts == <<"mrs_cpsr", "bic_I", "msr_cpsr", "bx_lr">>
swi_add == <<"push_lr", "swi", "pop_lr", "bx_lr">>
syscall_invoke_asm == <<"push_lr", "swi", "pop_lr", "bx_lr">>

swi_trivial_vector == <<"add_1", "movs_pc_lr">>
bad_exception_asm == <<"panic">>
software_interrupt_asm == <<"sub_lr_4", "panic">>
\* Fault: the handler returns with mov, which leaves the status as it is.
interrupt_asmMov ==
  <<"mov_sp_INT_STACK_ADDR", "sub_lr_4", "push_r0_lr", "bl_interrupt_vector",
    "pop_r0_lr", "bx_lr">>
interrupt_asm ==
  <<"mov_sp_INT_STACK_ADDR", "sub_lr_4", "push_r0_lr", "bl_interrupt_vector",
    "pop_r0_lr", "movs_pc_lr">>
swi_handler ==
  <<"push_r1_lr", "bl_do_syscall", "pop_r1_lr", "movs_pc_lr">>

Code ==
  [timer |-> notmain_timer, vector_base |-> notmain_vector_base, trivial_os |-> notmain_trivial_os,
   printk |-> printk, system_enable_interrupts |-> system_enable_interrupts, swi_add |-> swi_add,
   syscall_invoke_asm |-> syscall_invoke_asm, swi_trivial_vector |-> swi_trivial_vector,
   bad_exception_asm |-> bad_exception_asm, software_interrupt_asm |-> software_interrupt_asm,
   interrupt_asm |-> interrupt_asm, swi_handler |-> swi_handler]

\* The tables' entries for a system call and for an interrupt.
_interrupt_table == [swi |-> "software_interrupt_asm", irq |-> "interrupt_asm"]
_interrupt_vector_slow == [swi |-> "swi_trivial_vector", irq |-> "bad_exception_asm"]
_interrupt_vector_fast == [swi |-> "swi_trivial_vector", irq |-> "bad_exception_asm"]
part1_swi_vec == [swi |-> "swi_handler", irq |-> "bad_exception_asm"]
Entries ==
  [int_init |-> _interrupt_table, slow |-> _interrupt_vector_slow, fast |-> _interrupt_vector_fast, part1 |-> part1_swi_vec]

Address(routine) == [of |-> routine, at |-> 1]
After(a) == [a EXCEPT !.at = @ + 1]
Number(v) == [of |-> "number", at |-> v]
Numbers == {Number(v) : v \in Val}
Status(mode, I) == [of |-> mode, at |-> IF I THEN 1 ELSE 0]

\* What the interrupted code can see: its registers, status and stack.
View(c, s) ==
  [pc |-> c.pc, mode |-> c.mode, I |-> c.I, flag |-> c.flag, r0 |-> c.r0, r1 |-> c.r1,
   sp |-> c.sp["super"], lr |-> c.lr["super"], words |-> [i \in 1 .. c.sp["super"] |-> s["super"][i]]]
-----------------------------------------------------------------------------
\* Whatever ran before may leave any mode, interrupts enabled, its timer on
\* and one of its interrupts pending.
Init ==
  /\ \E program \in {"timer", "vector_base", "trivial_os"}, mode \in {"super", "irq"}, I \in BOOLEAN :
       cpu = [mode |-> mode, I |-> I, flag |-> FALSE, pc |-> Address(program), r0 |-> Number(0), r1 |-> Number(0),
              sp |-> [super |-> 0, irq |-> 0], spsr |-> [super |-> <<>>, irq |-> <<>>],
              lr |-> [super |-> Address(program), irq |-> Address(program)]]
  /\ stack = [mode \in {"super", "irq"} |-> [i \in 1 .. 3 |-> Number(0)]]
  /\ table = "none" /\ taken = {} /\ run = "boot"
  /\ timer \in [on : BOOLEAN, ended : {0}, pending : BOOLEAN]

\* The first instructions, before which no table can be relied on.
staff_start ==
  /\ run = "boot" /\ run' = "running"
  /\ cpu' = [cpu EXCEPT !.mode = "super", !.I = TRUE, !.sp["super"] = 0]
  /\ UNCHANGED <<stack, table, timer, taken>>

\* Hardware: an exception banks the return address and the status, disables
\* interrupts and goes through the table.
Exception(kind, mode) ==
  /\ taken' = {View(cpu, stack)}
  /\ IF table = "none" THEN run' = "astray" /\ UNCHANGED cpu
     ELSE /\ cpu' = [cpu EXCEPT !.mode = mode, !.I = TRUE, !.lr[mode] = After(cpu.pc),
                                !.spsr[mode] = <<cpu.mode, cpu.I, cpu.flag>>,
                                !.pc = Address(Entries[table][kind])]
          /\ UNCHANGED run
  /\ UNCHANGED <<stack, table, timer>>
IrqDue == run = "running" /\ timer.pending /\ ~cpu.I
TakeIrq == IrqDue /\ Exception("irq", "irq")

\* Hardware: a period of the timer ends.
TimerPeriod ==
  /\ run = "running" /\ timer.on /\ timer.ended < MaxPeriods
  /\ timer' = [timer EXCEPT !.ended = @ + 1, !.pending = TRUE]
  /\ UNCHANGED <<cpu, stack, table, taken, run>>

Op == Code[cpu.pc.of][cpu.pc.at]
At(ops) == run = "running" /\ ~IrqDue /\ Op \in ops
Advanced == [cpu EXCEPT !.pc = After(@)]
Sp == cpu.sp[cpu.mode]

\* Calls of C functions and of hardware set-up, whole.
int_init ==
  /\ At({"int_init"}) /\ table' = "int_init" /\ cpu' = Advanced
  /\ UNCHANGED <<stack, timer, taken, run>>
vector_base_set ==
  /\ \/ At({"set_slow"}) /\ table' = "slow"
     \/ At({"set_fast"}) /\ table' = "fast"
     \/ At({"set_part1"}) /\ table' = "part1"
  /\ cpu' = Advanced
  /\ UNCHANGED <<stack, timer, taken, run>>
timer_interrupt_init ==
  /\ At({"timer_interrupt_init"}) /\ timer' = [timer EXCEPT !.on = TRUE] /\ cpu' = Advanced
  /\ UNCHANGED <<stack, table, taken, run>>
Stops ==
  /\ At({"rpi_reboot", "panic"}) /\ run' = IF Op = "panic" THEN "panicked" ELSE "rebooted"
  /\ UNCHANGED <<cpu, stack, table, timer, taken>>
\* It finds what interrupted: if the timer did, it clears that interrupt.
interrupt_vector ==
  /\ At({"bl_interrupt_vector"})
  /\ \E r0 \in Numbers, r1 \in Numbers, flag \in BOOLEAN :
       cpu' = [Advanced EXCEPT !.r0 = r0, !.r1 = r1, !.flag = flag, !.lr[cpu.mode] = After(cpu.pc)]
  /\ timer' = [timer EXCEPT !.pending = FALSE]
  /\ UNCHANGED <<stack, table, taken, run>>
do_syscall ==
  /\ At({"bl_do_syscall"})
  /\ \E r1 \in Numbers, flag \in BOOLEAN :
       cpu' = [Advanced EXCEPT !.r0 = Number(0), !.r1 = r1, !.flag = flag, !.lr[cpu.mode] = After(cpu.pc)]
  /\ UNCHANGED <<stack, table, timer, taken, run>>

\* Instructions on registers.
Work == At({"work"}) /\ \E r0 \in Numbers, r1 \in Numbers : cpu' = [Advanced EXCEPT !.r0 = r0, !.r1 = r1]
Move ==
  /\ At({"cmp", "mrs_cpsr", "bic_I", "msr_cpsr", "add_1",
         "mov_sp_INT_STACK_ADDR", "sub_lr_4"})
  /\ cpu' = CASE Op = "cmp" -> [Advanced EXCEPT !.flag = cpu.r0 = cpu.r1]
              [] Op = "mrs_cpsr" -> [Advanced EXCEPT !.r0 = Status(cpu.mode, cpu.I)]
              [] Op = "bic_I" -> [Advanced EXCEPT !.r0.at = 0]
              [] Op = "msr_cpsr" -> [Advanced EXCEPT !.mode = cpu.r0.of, !.I = cpu.r0.at = 1]
              [] Op = "add_1" -> [Advanced EXCEPT !.r0.at = @ + 1]
              [] Op = "mov_sp_INT_STACK_ADDR" -> [Advanced EXCEPT !.sp[cpu.mode] = 0]
              [] Op = "sub_lr_4" -> [Advanced EXCEPT !.lr[cpu.mode].at = @ - 1]
Calls(routine) == cpu' = [cpu EXCEPT !.pc = Address(routine), !.lr[cpu.mode] = After(cpu.pc)]
Branch ==
  \/ At({"bl_printk"}) /\ Calls("printk")
  \/ At({"bl_system_enable_interrupts"}) /\ Calls("system_enable_interrupts")
  \/ At({"bl_swi_add"}) /\ Calls("swi_add")
  \/ At({"bl_syscall_invoke_asm"}) /\ Calls("syscall_invoke_asm")
  \/ At({"bx_lr"}) /\ cpu' = [cpu EXCEPT !.pc = cpu.lr[cpu.mode]]
  \/ /\ At({"movs_pc_lr"})
     /\ LET status == cpu.spsr[cpu.mode]
        IN cpu' = [cpu EXCEPT !.pc = cpu.lr[cpu.mode], !.mode = status[1], !.I = status[2], !.flag = status[3]]
OnRegisters == (Work \/ Move \/ Branch) /\ UNCHANGED <<stack, table, timer, taken, run>>

swi == At({"swi"}) /\ Exception("swi", "super")

\* Instructions on the stack of the mode, and the registers they name.
Saved ==
  CASE Op \in {"push_lr", "pop_lr"} -> <<cpu.lr[cpu.mode]>>
    [] Op \in {"push_r0_lr", "pop_r0_lr"} -> <<cpu.r0, cpu.r1, cpu.lr[cpu.mode]>>
    [] Op \in {"push_r1_lr", "pop_r1_lr"} -> <<cpu.r1, cpu.lr[cpu.mode]>>
push ==
  /\ At({"push_lr", "push_r0_lr", "push_r1_lr"})
  /\ stack' = [stack EXCEPT ![cpu.mode] =
                 [i \in DOMAIN @ |-> IF i \in Sp + 1 .. Sp + Len(Saved) THEN Saved[i - Sp] ELSE @[i]]]
  /\ cpu' = [Advanced EXCEPT !.sp[cpu.mode] = Sp + Len(Saved)]
  /\ UNCHANGED <<table, timer, taken, run>>
pop ==
  /\ At({"pop_lr", "pop_r0_lr", "pop_r1_lr"})
  /\ LET k == Len(Saved)
         Word(i) == stack[cpu.mode][Sp - k + i]
     IN cpu' = [Advanced EXCEPT !.sp[cpu.mode] = Sp - k, !.lr[cpu.mode] = Word(k),
                                !.r0 = IF k = 3 THEN Word(1) ELSE @,
                                !.r1 = IF k > 1 THEN Word(k - 1) ELSE @]
  /\ UNCHANGED <<stack, table, timer, taken, run>>

Next ==
  \/ staff_start \/ TakeIrq \/ TimerPeriod
  \/ int_init \/ vector_base_set \/ timer_interrupt_init \/ Stops \/ interrupt_vector \/ do_syscall
  \/ OnRegisters \/ swi \/ push \/ pop
Spec == Init /\ [][Next]_exvars
-----------------------------------------------------------------------------
\* The machine a system call must leave: the next instruction, with the
\* result in r0; lr is the hardware's, the caller has saved its own.
Result(view) == IF cpu.pc.of = "swi_trivial_vector" THEN [view.r0 EXCEPT !.at = @ + 1] ELSE Number(0)
Answered(view) == [view EXCEPT !.pc = After(view.pc), !.lr = After(view.pc), !.r0 = Result(view)]

(* However the timer's periods fall, the code interrupted goes on exactly  *)
(* where it was, with the registers, flags, status and stack it had,       *)
(* though the C handler ran on the same registers; a system call changes   *)
(* its result and nothing else; and no exception is taken before a table   *)
(* is in place, whatever was pending at the start, nor ends in a handler   *)
(* that panics.                                                            *)
ExceptionsInvisible ==
  /\ [][cpu.pc.of = "interrupt_asm" /\ cpu'.pc.of # "interrupt_asm" => taken = {View(cpu', stack')}]_exvars
  /\ [][\A view \in taken :
          cpu.pc.of \in {"swi_trivial_vector", "swi_handler"} /\ cpu'.pc.of \in {"swi_add", "syscall_invoke_asm"}
            => View(cpu', stack') = Answered(view)]_exvars
  /\ [](run \notin {"astray", "panicked"})
=============================================================================
