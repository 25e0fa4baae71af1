-------------------------------- MODULE FakePi --------------------------------
(***************************************************************************)
(* The two fake Pis that run Pi programs on a host and trace what they do  *)
(* to device memory: labs/2-cross-check/1-fake-pi ("lab"), which knows six *)
(* locations and a random input, and libpi-fake ("lib"), whose memory      *)
(* grows with the program.  The program makes any call.                    *)
(***************************************************************************)
EXTENDS Integers, Sequences

CONSTANTS
  Other,      \* addresses neither of the two treats specially
  Val,        \* what the program writes
  Stream,     \* what fake_random returns, call by call: the same for any seed
  MEM_MAX,    \* 128
  max_trace   \* 128

FakeAssumption ==
  /\ Val \subseteq Int /\ Stream \in Seq(Int) /\ Stream # <<>>
  /\ MEM_MAX \in Nat /\ max_trace \in Nat \ {0}

VARIABLES
  fake,       \* "lab" or "lib"
  mem,        \* fake_mem, or the lab's six variables: addresses and values
  calls,      \* nrandom_calls
  traced,     \* trace statements printed
  end,        \* "no": it runs; else how the program ended
  known       \* history: what the program has written or read last, by address

fakevars == <<fake, mem, calls, traced, end, known>>

LabLocations == <<"fsel0", "fsel1", "fsel2", "fsel3", "set0", "clr0">>
Volatile(f) == IF f = "lab" THEN {"lev0"} ELSE {"lev0", "uart_mu_stat", "uart_lsr"}
LabAddr == {LabLocations[i] : i \in 1 .. 6}
Addr == LabAddr \cup Volatile("lib") \cup Other

\* fake_random_seed takes a seed and does not use it.  The counter of the calls
\* runs modulo the stream's length: a bound.
fake_random(k) == Stream[(k % Len(Stream)) + 1]

mem_ent(a, v) == [addr |-> a, val |-> v]
\* The first entry for a, 0 if there is none.
mem_lookup(a) ==
  LET at == {i \in DOMAIN mem : mem[i].addr = a}
  IN IF at = {} THEN 0 ELSE CHOOSE i \in at : \A j \in at : i <= j

\* main: the lab's memory starts with random values, and fake_random_init has
\* taken one before.
Init ==
  /\ fake \in {"lab", "lib"}
  /\ mem = IF fake = "lab" THEN [i \in 1 .. 6 |-> mem_ent(LabLocations[i], fake_random(i))] ELSE <<>>
  /\ calls = (IF fake = "lab" THEN 7 ELSE 1) % Len(Stream)
  /\ traced = IF fake = "lab" THEN 1 ELSE 0
  /\ end = "no"
  /\ known = [a \in Addr |-> IF fake = "lab" /\ a \in LabAddr THEN mem[mem_lookup(a)].val ELSE -1]

\* The lab prints the statement, counts it, and stops when there were enough;
\* the lib prints all there are (traced saturates in the model).
TraceFull == fake = "lab" /\ traced = max_trace
Traced == traced' = IF fake = "lab" THEN traced + 1 ELSE traced

Stops(why) == end' = why /\ UNCHANGED <<fake, mem, calls, known>>

\* The value is stored or the entry made.
Put(a, v) ==
  /\ mem' = IF mem_lookup(a) # 0 THEN [mem EXCEPT ![mem_lookup(a)].val = v] ELSE Append(mem, mem_ent(a, v))
  /\ known' = [known EXCEPT ![a] = v]
  /\ UNCHANGED <<fake, end>>

NoRoom(a) == mem_lookup(a) = 0 /\ (fake = "lab" \/ Len(mem) = MEM_MAX)

\* Fault: every write makes an entry.
PUT32Appends(a, v) ==
  /\ end = "no" /\ Traced
  /\ \/ a # "lev0" /\ ~TraceFull /\ ~NoRoom(a)
        /\ mem' = Append(mem, mem_ent(a, v)) /\ known' = [known EXCEPT ![a] = v]
        /\ UNCHANGED <<fake, end, calls>>
     \/ ~TraceFull /\ (a = "lev0" \/ NoRoom(a)) /\ Stops("panic")
     \/ TraceFull /\ Stops("enough")

\* The lab traces before it looks at the address, the lib after.
PUT32(a, v) ==
  /\ end = "no" /\ Traced
  /\ \/ a # "lev0" /\ ~TraceFull /\ ~NoRoom(a) /\ Put(a, v) /\ UNCHANGED calls
     \/ ~TraceFull /\ (a = "lev0" \/ NoRoom(a)) /\ Stops("panic")
     \/ TraceFull /\ Stops("enough")

\* The value is there, is drawn for good, or drawn anew each time; then it is
\* traced.
GET32(a) ==
  /\ end = "no"
  /\ \/ /\ a \in Volatile(fake) /\ ~TraceFull /\ Traced
        /\ calls' = (calls + 1) % Len(Stream)
        /\ UNCHANGED <<fake, mem, end, known>>
     \/ /\ a \notin Volatile(fake) /\ mem_lookup(a) # 0 /\ ~TraceFull /\ Traced
        /\ known' = [known EXCEPT ![a] = mem[mem_lookup(a)].val]
        /\ UNCHANGED <<fake, mem, calls, end>>
     \/ /\ a \notin Volatile(fake) /\ mem_lookup(a) = 0 /\ ~NoRoom(a) /\ Traced
        /\ Put(a, fake_random(calls)) /\ calls' = (calls + 1) % Len(Stream)
     \/ /\ a \notin Volatile(fake) /\ NoRoom(a)
        /\ Stops("panic") /\ UNCHANGED traced
     \/ /\ TraceFull /\ ~ (a \notin Volatile(fake) /\ NoRoom(a))
        /\ Stops("enough") /\ Traced

\* fake_pi_exit, or main returns.
Exit == end = "no" /\ end' = "exit" /\ UNCHANGED <<fake, mem, calls, traced, known>>

Next == (\E a \in Addr : GET32(a) \/ \E v \in Val : PUT32(a, v)) \/ Exit
Spec == Init /\ [][Next]_fakevars
-----------------------------------------------------------------------------
(* Device memory is memory: an address has one entry, which holds what the *)
(* program last wrote to it or, before it wrote, what it first read there; *)
(* two programs with the same calls therefore leave the same trace.  Only  *)
(* a write to the input, an address the lab does not know or one more than *)
(* MEM_MAX stops a program, and the lab stops it after max_trace + 1       *)
(* statements.                                                             *)
MemoryReadsBack ==
  /\ \A i, j \in DOMAIN mem : mem[i].addr = mem[j].addr => i = j
  /\ \A a \in Addr : known[a] # -1 /\ a \notin Volatile(fake) => mem_lookup(a) # 0 /\ mem[mem_lookup(a)].val = known[a]
  /\ Len(mem) <= IF fake = "lab" THEN 6 ELSE MEM_MAX
  /\ traced <= max_trace + 1 /\ (end = "enough" => traced = max_trace + 1)
=============================================================================
