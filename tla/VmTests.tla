-------------------------------- MODULE VmTests --------------------------------
(***************************************************************************)
(* The virtual memory lab, labs/12-vm/code: identity mappings of 1MB       *)
(* sections, the MMU switched on and off, and the test programs, which     *)
(* write where they may not and have the abort handlers set it right or    *)
(* die.  The page table, the TLB and the handlers (the staff's; the lab's  *)
(* README says what they do) are modelled by section; the routines that    *)
(* the source leaves to the student do what their comments say.            *)
(***************************************************************************)
EXTENDS Naturals, Sequences

VARIABLES
  vm,      \* page table, TLB, MMU switch, domain access control, address space
  proc,    \* fault_addr, die_addr, fault_count, dom_id
  vtest,   \* the program: its name, what is left of it, the access that faulted
  vram     \* physical memory, one word for each section
vmvars == <<vm, proc, vtest, vram>>

\* STACK_ADDR - OneMB and INT_STACK_ADDR - OneMB; p of the stack tests;
\* STACK_ADDR + 4 * OneMB of the others.
Section == {"0x0", "0x100000", "0x20000000", "0x20100000", "0x20200000",
            "stack", "interrupt stack", "below stack", "above stack"}
Uart == "0x20200000"

dom_id == 1
Domain == 0 .. 15
AP_no_access == 0
AP_rw == 3
DOM_no_access == 0
DOM_client == 1

\* A first level descriptor: the fields the tests change, the rest is 0.
NoEntry == [tag |-> 0, AP |-> 0, domain |-> 0, sec_base_addr |-> "0x0"]
fld_mk == [NoEntry EXCEPT !.tag = 2]
fld_check_valid(e) == e.tag = 2

\* mmu_pt_init: an empty table, at an address that is aligned to 2^14.
mmu_pt_init == [s \in Section |-> NoEntry]
mmu_pt_alloc(heap) == [addr |-> ((heap + 16383) \div 16384) * 16384, pt |-> mmu_pt_init]

\* What these assert holds of every section and domain: an address of a
\* section is aligned, and the entry made is valid.
fld_set_base_addr(f, addr) == [f EXCEPT !.sec_base_addr = addr]
mmu_map_section(pt, va, pa, dom) ==
  [pt EXCEPT ![va] = fld_set_base_addr([fld_mk EXCEPT !.AP = AP_rw, !.domain = dom], pa)]
mmu_map_sections(pt, secs, dom) == [s \in Section |-> IF s \in secs THEN mmu_map_section(pt, s, s, dom)[s] ELSE pt[s]]

\* Reset, with nothing in the TLB, and still off.
mmu_is_enabled(v) == v.MMU_enabled
mmu_init(v) == [v EXCEPT !.tlb = mmu_pt_init]
\* The whole register: every other domain is shut.
domain_access_ctrl_set(v, r) == [v EXCEPT !.dacr = r]

\* vm_ident_mmu_init maps the program, its page table, the devices and, where
\* the lab leaves it to the student, the two stacks.
IdentitySections ==
  {"0x0", "0x100000", "0x20000000", "0x20100000", Uart, "stack", "interrupt stack"}
-----------------------------------------------------------------------------
(* The programs.                                                           *)
Do(op, at, val) == [op |-> op, at |-> at, val |-> val]
Setup == <<Do("kmalloc_init", "0x100000", 0), Do("vm_ident_mmu_init", "", 0), Do("vm_ident_mmu_on", "", 0)>>
Prints == Do("get32", Uart, 0)

test_setup ==
  <<Do("put32", "stack", 5), Do("get32", "stack", 5), Prints, Do("put32", "stack", 6), Do("get32", "stack", 6),
    Do("vm_ident_mmu_off", "", 0), Do("get32", "stack", 6)>>
stack_write ==
  <<Prints, Do("fault_addr", "below stack", 0), Do("put32", "below stack", 11), Do("get32", "below stack", 11),
    Do("get32", "below stack", 11), Prints, Do("vm_ident_mmu_off", "", 0), Do("get32", "below stack", 11)>>
no_access_write ==
  <<Do("fault_addr", "below stack", 0), Do("put32", "below stack", 11), Do("get32", "below stack", 11), Prints,
    Do("fault_addr", "below stack", 0), Do("mmu_mark_sec_no_access", "below stack", 0), Prints,
    Do("fault_count", "", 1), Do("put32", "below stack", 12), Do("fault_count", "", 2), Do("get32", "below stack", 12), Prints,
    Do("vm_ident_mmu_off", "", 0), Do("get32", "below stack", 12)>>
\* The die tests: they try what they should not get away with.
NotReached == Do("panic", "", 0)
unmapped(op) == <<Prints, Do("die_addr", "above stack", 0), Do(op, "above stack", 1), NotReached>>
permission(op) ==
  <<Prints, Do("die_addr", "above stack", 0), Do("mmu_map_section", "above stack", 0),
    Do("mmu_mark_sec_no_access", "above stack", 0), Do(op, "above stack", 1), NotReached>>
die_unmapped_read == unmapped("get32")
die_unmapped_write == unmapped("put32")
die_unmapped_run == unmapped("run")
die_permission_error == permission("run")
die_permission_error_write == permission("put32")

Test ==
  [setup |-> test_setup, stack_write |-> stack_write, no_access_write |-> no_access_write,
   die_unmapped_read |-> die_unmapped_read, die_unmapped_write |-> die_unmapped_write,
   die_unmapped_run |-> die_unmapped_run, die_permission_error |-> die_permission_error,
   die_permission_error_write |-> die_permission_error_write]

Init ==
  /\ vm = [pt |-> mmu_pt_init, tlb |-> mmu_pt_init, MMU_enabled |-> FALSE, dacr |-> [d \in Domain |-> DOM_no_access],
           asid |-> 0, heap |-> 0]
  /\ proc = [fault_addr |-> "", die_addr |-> "", fault_count |-> 0, dom_id |-> dom_id]
  /\ \E t \in DOMAIN Test : vtest = [name |-> t, left |-> Setup \o Test[t], abort |-> "", end |-> ""]
  /\ vram = [s \in Section |-> 0]
-----------------------------------------------------------------------------
(* The MMU: the TLB's entry for a section if it has one, else the table's. *)
Entry(s) == IF fld_check_valid(vm.tlb[s]) THEN vm.tlb[s] ELSE vm.pt[s]
Forbidden(e) ==
  CASE ~fld_check_valid(e) -> "unmapped"
    [] vm.dacr[e.domain] = DOM_no_access -> "domain"
    [] vm.dacr[e.domain] = DOM_client /\ e.AP = AP_no_access -> "permission"
    [] OTHER -> ""
Fault(s) == IF vm.MMU_enabled THEN Forbidden(Entry(s)) ELSE ""
Physical(s) == IF vm.MMU_enabled THEN Entry(s).sec_base_addr ELSE s

Stmt == Head(vtest.left)
\* A statement runs when the program and its stack can be reached.
At(ops) ==
  /\ vtest.end = "" /\ vtest.abort = "" /\ vtest.left # <<>> /\ Stmt.op \in ops
  /\ Fault("0x0") = "" /\ Fault("stack") = ""
Onward == vtest' = [vtest EXCEPT !.left = Tail(@)]
\* panic and a failed assertion reboot, and reboot_callout has the MMU off by then.
reboot_callout == vm' = [vm EXCEPT !.MMU_enabled = FALSE]
Dies(why) == vtest' = [vtest EXCEPT !.end = why] /\ reboot_callout /\ UNCHANGED <<proc, vram>>

kmalloc_init_set_start == At({"kmalloc_init"}) /\ Onward /\ vm' = [vm EXCEPT !.heap = 1048576] /\ UNCHANGED <<proc, vram>>

vm_ident_mmu_init ==
  /\ At({"vm_ident_mmu_init"})
  /\ LET table == mmu_pt_alloc(vm.heap)
         mapped == [mmu_init(vm) EXCEPT !.pt = mmu_map_sections(table.pt, IdentitySections, dom_id)]
     IN IF mmu_is_enabled(vm) \/ table.addr # 1048576 THEN Dies("assert")
        ELSE /\ vm' = domain_access_ctrl_set(mapped, [d \in Domain |-> IF d = dom_id THEN DOM_client ELSE DOM_no_access])
             /\ Onward /\ UNCHANGED <<proc, vram>>

\* set_procid_ttbr0 asserts on the two numbers, then the MMU is enabled, with
\* nothing of before in the TLB.
set_procid_ttbr0(pid, asid) == pid > 64 /\ asid \in 1 .. 63
mmu_enable ==
  IF mmu_is_enabled(vm) THEN Dies("assert")
  ELSE vm' = [vm EXCEPT !.MMU_enabled = TRUE, !.asid = dom_id, !.tlb = mmu_pt_init] /\ Onward /\ UNCHANGED <<proc, vram>>
mmu_disable ==
  IF ~mmu_is_enabled(vm) THEN Dies("assert")
  ELSE vm' = [vm EXCEPT !.MMU_enabled = FALSE] /\ Onward /\ UNCHANGED <<proc, vram>>
vm_ident_mmu_on == At({"vm_ident_mmu_on"}) /\ IF set_procid_ttbr0(5134, dom_id) THEN mmu_enable ELSE Dies("assert")
vm_ident_mmu_off == At({"vm_ident_mmu_off"}) /\ mmu_disable

\* Every change of an entry is followed by staff_mmu_sync_pte_mods.
staff_mmu_sync_pte_mods(pt) == vm' = [vm EXCEPT !.pt = pt, !.tlb = mmu_pt_init]
\* Fault: it is not.
mmu_mprotectStale(va, perm) == vm' = [vm EXCEPT !.pt[va].AP = perm]
mmu_mprotect(va, perm) == staff_mmu_sync_pte_mods([vm.pt EXCEPT ![va].AP = perm])
ChangeTable ==
  /\ \/ At({"mmu_map_section"})
        /\ vm' = [vm EXCEPT !.pt = mmu_map_section(vm.pt, Stmt.at, Stmt.at, proc.dom_id)]
     \/ At({"mmu_mark_sec_no_access"}) /\ mmu_mprotect(Stmt.at, AP_no_access)
  /\ Onward /\ UNCHANGED <<proc, vram>>

SetProc ==
  /\ \/ At({"fault_addr"}) /\ proc' = [proc EXCEPT !.fault_addr = Stmt.at]
     \/ At({"die_addr"}) /\ proc' = [proc EXCEPT !.die_addr = Stmt.at]
  /\ Onward /\ UNCHANGED <<vm, vram>>

\* An access that goes through leaves its entry in the TLB.
Access ==
  /\ At({"get32", "put32", "run"}) /\ Fault(Stmt.at) = ""
  /\ IF Stmt.op = "get32" /\ Stmt.at # Uart /\ vram[Physical(Stmt.at)] # Stmt.val THEN Dies("assert")
     ELSE /\ vm' = IF vm.MMU_enabled THEN [vm EXCEPT !.tlb[Stmt.at] = Entry(Stmt.at)] ELSE vm
          /\ vram' = IF Stmt.op = "put32" THEN [vram EXCEPT ![Physical(Stmt.at)] = Stmt.val] ELSE vram
          /\ Onward /\ UNCHANGED proc
Aborts ==
  /\ At({"get32", "put32", "run"}) /\ Fault(Stmt.at) # ""
  /\ vtest' = [vtest EXCEPT !.abort = Fault(Stmt.at)] /\ UNCHANGED <<vm, proc, vram>>
\* The TLB may lose an entry at any time.
Evict(s) ==
  /\ vtest.end = "" /\ fld_check_valid(vm.tlb[s])
  /\ vm' = [vm EXCEPT !.tlb[s] = NoEntry] /\ UNCHANGED <<proc, vtest, vram>>

\* assert(proc.fault_count == val), and the panic after what kills the test.
Check ==
  /\ At({"fault_count", "panic"})
  /\ IF Stmt.op = "panic" \/ proc.fault_count # Stmt.val THEN Dies("panic") ELSE Onward /\ UNCHANGED <<vm, proc, vram>>
success ==
  /\ vtest.end = "" /\ vtest.left = <<>>
  /\ vtest' = [vtest EXCEPT !.end = "success"] /\ reboot_callout /\ UNCHANGED <<proc, vram>>

\* The handlers run on the interrupt stack: they repair the one fault that the
\* test expects and die of the other.
Handling == vtest.end = "" /\ vtest.abort # "" /\ Fault("0x0") = "" /\ Fault("interrupt stack") = ""
Resume == proc' = [proc EXCEPT !.fault_count = @ + 1] /\ vtest' = [vtest EXCEPT !.abort = ""] /\ UNCHANGED vram
Repairable == Stmt.op # "run" /\ Stmt.at = proc.fault_addr
data_abort_vector ==
  /\ Handling /\ Repairable /\ Resume
  /\ \/ vtest.abort = "unmapped" /\ staff_mmu_sync_pte_mods(mmu_map_section(vm.pt, Stmt.at, Stmt.at, proc.dom_id))
     \/ vtest.abort = "permission" /\ mmu_mprotect(Stmt.at, AP_rw)
abort_dies ==
  /\ Handling /\ ~(Repairable /\ vtest.abort \in {"unmapped", "permission"})
  /\ Dies(IF Stmt.at = proc.die_addr THEN "died" ELSE "unexpected")

Step ==
  \/ kmalloc_init_set_start \/ vm_ident_mmu_init \/ vm_ident_mmu_on \/ vm_ident_mmu_off
  \/ ChangeTable \/ SetProc \/ Access \/ Aborts \/ Check \/ success
  \/ data_abort_vector \/ abort_dies
Next == Step \/ \E s \in Section : Evict(s)
-----------------------------------------------------------------------------
(* Whatever the TLB keeps, an access goes through only where the page      *)
(* table lets it at that moment; each test ends as it says, the die tests  *)
(* at the address they name and the others with success, and always with   *)
(* the MMU off, as the bootloader needs it.                                *)
AccessesObeyTable ==
  [][vram' # vram /\ vm.MMU_enabled => Forbidden(vm.pt[Stmt.at]) = "" /\ vm.pt[Stmt.at].sec_base_addr = Stmt.at]_vmvars
EndsAsSaid ==
  vtest.end # "" => /\ vtest.end = IF NotReached \in {Test[vtest.name][i] : i \in DOMAIN Test[vtest.name]} THEN "died" ELSE "success"
                    /\ ~vm.MMU_enabled
=============================================================================
