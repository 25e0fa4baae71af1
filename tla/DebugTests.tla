------------------------------ MODULE DebugTests ------------------------------
(***************************************************************************)
(* The debug hardware lab, labs/9-debug-hardware/code: one breakpoint and  *)
(* one watchpoint, and five programs that test an implementation of them.  *)
(* The implementation is the student's: it may miss an access, or fail to  *)
(* switch a register off, and the question is what the tests then say.     *)
(***************************************************************************)
EXTENDS Naturals, Sequences, SequencesExt

CONSTANT n    \* how often the breakpoint tests repeat the fault: 10

VARIABLES
  imp,      \* the implementation: the accesses it misses; its disable does nothing
  dbg,      \* bcr0 and wcr0: the address each watches and its enable bit; cp14
  faults,   \* n_faults, load_fault_n, store_fault_n, and the handlers set
  dtest     \* the program: its name, what is left of it, the abort taken, its end
dbgvars == <<imp, dbg, faults, dtest>>

null == 0
foo == 8      \* an address as well
Hit(kind, at) == [kind |-> kind, at |-> at]
Accesses == {Hit("fetch", foo)} \cup {Hit(kind, at) : kind \in {"load", "store"}, at \in 0 .. 3}
Counter(kind) == CASE kind = "fetch" -> "n_faults" [] kind = "load" -> "load_fault_n" [] kind = "store" -> "store_fault_n"
Register(kind) == IF kind = "fetch" THEN "bcr0" ELSE "wcr0"
-----------------------------------------------------------------------------
(* The programs.                                                           *)
Do(op, what, val) == [op |-> op, what |-> what, val |-> val]
IsOn(r) == Do("assert on", r, 0)
IsOff(r) == Do("assert off", r, 0)
Enable(r) == Do("enable", r, 0)
Access(kind, at) == Do(kind, Register(kind), at)
Seen(kind) == Do("saw", Counter(kind), 0)

\* debug_fault_init looks at the breakpoint twice and never at the watchpoint.
debug_fault_init == <<Do("cp14_enable", "", 0), IsOff("bcr0"), IsOff("bcr0")>>
brkpt_set0(addr) == <<Do("set", "bcr0", addr), IsOn("bcr0"), Do("handler", "bcr0", 0)>>
watchpt_set0(addr) == <<Do("set", "wcr0", addr), IsOn("wcr0"), Do("handler", "wcr0", 0)>>

StoreThenLoad(at) ==
  <<Access("store", at), Seen("store"), IsOff("wcr0"), Enable("wcr0"), IsOn("wcr0"), Access("load", at), Seen("load")>>
watchpt_test == <<Do("handler", "wcr0", 0), Do("cp14_enable", "", 0), IsOff("wcr0"), Do("set", "wcr0", null), IsOn("wcr0")>> \o StoreThenLoad(null)
debug_watchpt == debug_fault_init \o watchpt_set0(null) \o <<IsOn("wcr0")>> \o StoreThenLoad(null)
test_bad_addr(i) == watchpt_set0(i) \o <<IsOn("wcr0")>> \o StoreThenLoad(i)
debug_byte_access == debug_fault_init \o FlattenSeq([i \in 1 .. 4 |-> test_bad_addr(i - 1)])

Repeat(i) == <<Enable("bcr0"), IsOn("bcr0"), Access("fetch", foo), IsOff("bcr0"), Do("equals", "n_faults", i)>>
ThenRepeat == <<Do("equals", "n_faults", 1), Do("reset", "n_faults", 0)>> \o FlattenSeq([i \in 1 .. n |-> Repeat(i)])
brkpt_test ==
  <<Do("handler", "bcr0", 0), Do("cp14_enable", "", 0), IsOff("bcr0"), Do("set", "bcr0", foo), IsOn("bcr0"),
    Access("fetch", foo), IsOff("bcr0")>> \o ThenRepeat
debug_brkpt ==
  debug_fault_init \o brkpt_set0(foo) \o <<IsOn("bcr0"), Access("fetch", foo), IsOff("bcr0")>> \o ThenRepeat

Test ==
  [watchpt_test |-> watchpt_test, brkpt_test |-> brkpt_test, debug_brkpt |-> debug_brkpt,
   debug_watchpt |-> debug_watchpt, debug_byte_access |-> debug_byte_access]

Off == [addr |-> null, on |-> FALSE]
Init ==
  /\ imp \in [misses : {{}} \cup {{a} : a \in Accesses}, sticky : BOOLEAN]
  /\ dbg = [cp14 |-> FALSE, bcr0 |-> Off, wcr0 |-> Off]
  /\ faults = [n_faults |-> 0, load_fault_n |-> 0, store_fault_n |-> 0, handlers |-> {}]
  /\ \E t \in DOMAIN Test : dtest = [name |-> t, left |-> Test[t], abort |-> "", end |-> ""]
-----------------------------------------------------------------------------
Stmt == Head(dtest.left)
At(ops) == dtest.end = "" /\ dtest.abort = "" /\ dtest.left # <<>> /\ Stmt.op \in ops
Onward == dtest' = [dtest EXCEPT !.left = Tail(@), !.abort = ""]
Stops(why) == dtest' = [dtest EXCEPT !.end = why] /\ UNCHANGED <<dbg, faults>>

cp14_enable ==
  /\ At({"cp14_enable"})
  /\ IF dbg.cp14 THEN Stops("already enabled") ELSE dbg' = [dbg EXCEPT !.cp14 = TRUE] /\ Onward /\ UNCHANGED faults

\* The value is written, then the control register, with its enable bit.
SetRegister ==
  /\ At({"set", "enable"})
  /\ dbg' = [dbg EXCEPT ![Stmt.what] = [addr |-> IF Stmt.op = "set" THEN Stmt.val ELSE @.addr, on |-> TRUE]]
  /\ Onward /\ UNCHANGED faults
SetHandler ==
  /\ At({"handler"}) /\ faults' = [faults EXCEPT !.handlers = @ \cup {Stmt.what}] /\ Onward /\ UNCHANGED dbg

\* assert, or panic("did not see a fault").
Holds ==
  CASE Stmt.op = "assert on" -> dbg[Stmt.what].on
    [] Stmt.op = "assert off" -> ~dbg[Stmt.what].on
    [] Stmt.op = "saw" -> faults[Stmt.what] # 0
    [] Stmt.op = "equals" -> faults[Stmt.what] = Stmt.val
Check ==
  /\ At({"assert on", "assert off", "saw", "equals"})
  /\ IF Holds THEN Onward /\ UNCHANGED <<dbg, faults>> ELSE Stops("failed")
Reset == At({"reset"}) /\ faults' = [faults EXCEPT !.n_faults = 0] /\ Onward /\ UNCHANGED dbg

\* The hardware compares each access; the fault is a prefetch abort, with foo
\* not run yet, or a data abort, with the access done.
Matches ==
  /\ dbg.cp14 /\ dbg[Stmt.what].on /\ dbg[Stmt.what].addr = Stmt.val
  /\ Hit(Stmt.op, Stmt.val) \notin imp.misses
Touch ==
  /\ At({"fetch", "load", "store"})
  /\ IF Matches THEN dtest' = [dtest EXCEPT !.abort = Stmt.op] ELSE Onward
  /\ UNCHANGED <<dbg, faults>>

\* The fault's status registers tell which abort it was.
was_brkpt_fault == dtest.abort = "fetch"
was_watchpt_fault == dtest.abort \in {"load", "store"}
datafault_from_ld == dtest.abort = "load"
Cause == IF datafault_from_ld THEN "load" ELSE "store"

Disable(r) == dbg' = IF imp.sticky THEN dbg ELSE [dbg EXCEPT ![r].on = FALSE]
Count(kind) == faults' = [faults EXCEPT ![Counter(kind)] = @ + 1]

\* Counts, disables, asserts that it is disabled, and returns to foo.
brkpt_handler ==
  /\ Count("fetch") /\ Disable("bcr0")
  /\ dtest' = IF dbg'.bcr0.on THEN [dtest EXCEPT !.end = "failed"] ELSE [dtest EXCEPT !.abort = ""]
\* Fault: the register is left on, for the next fault.
watchpt_handlerLeavesOn == Count(Cause) /\ UNCHANGED dbg /\ Onward
watchpt_handler == Count(Cause) /\ Disable("wcr0") /\ Onward

prefetch_abort_vector == dtest.end = "" /\ was_brkpt_fault /\ "bcr0" \in faults.handlers /\ brkpt_handler
data_abort_vector ==
  /\ dtest.end = "" /\ was_watchpt_fault
  /\ IF "wcr0" \in faults.handlers THEN watchpt_handler ELSE Stops("no handler")
SUCCESS == dtest.end = "" /\ dtest.left = <<>> /\ Stops("SUCCESS")

Next ==
  /\ \/ cp14_enable \/ SetRegister \/ SetHandler \/ Check \/ Reset \/ Touch
     \/ prefetch_abort_vector \/ data_abort_vector \/ SUCCESS
  /\ UNCHANGED imp
-----------------------------------------------------------------------------
(* What SUCCESS is worth: a correct implementation reaches it, one that    *)
(* cannot switch its register off never does, and one that misses a fault  *)
(* the program announces does not either.  The exception is the byte test: *)
(* it never resets load_fault_n, so after the load of byte 0 has faulted   *)
(* it does not notice a load of the bytes 1 to 3 that goes unseen.         *)
Announced == {Hit(s.op, s.val) : s \in {Test[dtest.name][i] : i \in DOMAIN Test[dtest.name]}} \cap Accesses
Unnoticed == IF dtest.name = "debug_byte_access" THEN {Hit("load", at) : at \in 1 .. 3} ELSE {}
SuccessIsEarned ==
  dtest.end # "" =>
    (dtest.end = "SUCCESS") = (~imp.sticky /\ imp.misses \cap Announced \subseteq Unnoticed)
=============================================================================
