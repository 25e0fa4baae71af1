# A verification project for cs140e (22win)

The repository holds a bare-metal library for the Raspberry Pi A+ (`libpi`), the
host-side programs that boot and talk to the Pi (`libunix`, `pi-install`), a fake
Pi to run driver code on a host (`libpi-fake`), and the labs that build threads,
interrupts, processes, a file system and two network drivers on top. Many lab
routines are left unimplemented or ship as object files. What is modelled here is
what the sources contain: the shared queues, the thread package and its tests, the
waits and timeouts, the radio driver with its set-up and its measurements, the
ESP8266 library from its lexer to its two ping-pong programs, the host's side of a
boot session, exception entry and a small user-level operating system, the fake
Pi, and the test programs of the hardware labs.

## 1. Inventory

Components with logic of their own. "Status" is where this project stands.

| Component | State | Operations | What is hard | Status |
|---|---|---|---|---|
| circular queue, `libpi/libc/circular.h` | `c_buf`, `head`, `tail`, `overflow` | push, push_n, pop in four variants, peek, peek_n | two sides interleave at every access; a blocking pop needs interrupts on; the capacity is one less than the array | modelled, proved |
| interrupt examples, `1-circular-example32.c`, `0-circular-example.c` | the handler's counters, the loop's position | `interrupt_vector`, `notmain` | elements narrower than the values passed; a handler preempts the pop | modelled, proved |
| intrusive queue, `libpi/libc/Q.h` | `Q_t`, one `next` per element | init, pop, append, push, insert_after | all queues share the links, and a popped element keeps its own | modelled, proved |
| threads and their tests, `8-threads/code` | `runq`, `freeq`, `cur_thread`, `scheduler_thread`, `tid` | fork, yield, exit, start | blocks are reused; a thread runs only when another yields | partly (switches are binary); proved |
| waits and timeouts, `timer.c`, `cycle-util.h`, `timeout.h`, `7-test-realtime-yield.c` | a start time, or `timeout_t` | delays, pin waits, timeouts, `wait_usec` | the 32-bit clock wraps; looks at it come at any distance | modelled, proved |
| radio driver, `17-nrf24l01p/code` | the chip's registers and FIFOs, `recvq`, totals | get_pkts, the three reads, the two sends | packets arrive between SPI transfers; loss, retries, a full FIFO | partly (mode switches are binary); proved |
| radio tests, messages, set-up and trial search, `tests/*`, `msg2.h`, `nrf-config.h`, `rf-support.h` | trial counters, `nrf_config_t`, `estimate_t` | one-way, loop, puts and gets, `nrf_init`, `est_bsearch` | a lost packet must not shift the values; the chip keeps its registers over a restart; boundaries | modelled; the tests proved |
| esp8266 library, `16-esp8266/libesp`, `1-ping-pong` | input buffer and checkpoints, `esp_t` | lex, match, commands, send, receive | characters trickle in; failed matches are undone; unsolicited messages; a reset finds old output | modelled; reset, connection and turns proved |
| esp8266 shell, `16-esp8266/esp-shell` | the line being typed, the line being read | echo loop, `readline` | the chip and the user speak at once | modelled |
| bootloader, `3-bootloader`, `libunix` | the byte stream, the protocol position | opcode reads, resynchronisation, print strings, exit string | garbage before the first opcode; a word cut by the reads | partly: steps 1 to 4 and `get_code` are unimplemented |
| host process examples, `5-replay/useful-examples` | processes, pipes, signals, a tty | fork, exec, wait, kill, select | any interleaving of parent, kid and shell | partly |
| fake Pis, `2-cross-check/1-fake-pi`, `libpi-fake` | memory, trace, random states | PUT32, GET32, `pi_random` | the same program must leave the same trace | partly |
| timer interrupt demo and profiler, `6-interrupts/timer-int/timer.c`, `2-gprof/gprof.c` | `cnt`, `period`, `period_sum`, the histogram | handlers, `notmain` | the loop reads what the handler goes on changing | modelled |
| exception entry, `libpi/staff-start.S`, `interrupts-asm.S`, `3-vector-base`, `trivial-os-asm.S` | registers, banked registers, stacks, table | entry, save, handler, restore, return | every instruction can be interrupted | partly |
| user processes, `11-user-process/code` | memory over reboots, the tag, the linked program | link, boot, relocate, system calls | what an earlier boot left; the bss lies over the program | partly |
| virtual memory tests, `12-vm/code` | page table, TLB, domains | map, mark, switch, the tests | the TLB keeps what the table no longer says | partly (the routines are objects) |
| debug hardware tests, `9-debug-hardware/code` | breakpoint and watchpoint registers, fault counts | five tests | a test may pass though the driver is wrong | partly (the accessors are the student's) |
| device interrupt tests, `7-device-interrupts` | event queue, pins, counters | edge counting, logic analyzer | edges come while earlier ones are served | partly (gpio is the student's) |
| fat32 helpers and tests, `15-fat32/code` | sectors, directory entries, files by name | names, long names, listing, the checks, thirteen programs | encodings; power cut between two of the programs' steps | partly; `fat32.c` checks its arguments, the rest of it is unimplemented |
| printk, `libpi/libc/va-printk.c` | the buffer | every conversion but `%f` | the smallest int, padding, the end of the buffer | partly |

How they interact: handlers and main loops share a circular queue; threads share
two intrusive queues and call each other by yielding; the ping-pong threads share
two circular queues; the radio driver keeps its bytes in a circular queue, reads
the chip over SPI and gives up by `timeout_usec`; the radio tests and the trial
search drive it from `notmain`. The ESP8266 programs on two hosts meet only through
their chips. A Pi program meets its host through the tty, byte by byte: the boot
loop, then `pi_cat` or `pi_echo`; the trivial OS prints through the same. The other programs run
alone.

## 2. Modules

| Module | Models | Uses |
|---|---|---|
| `Fifo` | what a bounded channel promises | |
| `CircularQueue` | every operation of `circular.h`, one step per volatile access | `Fifo` as abstract specification |
| `CircularExample32` | the handler and loop of `1-circular-example32.c` | extends `CircularQueue` |
| `Lists` | what intrusive queues promise a careful client | |
| `LinkedQ`, `LinkedQueue` | the operations of `Q.h` as operators; their clients, any number of queues sharing links | `Lists` as abstract specification |
| `RpiThread` | the thread package, over two of those queues | `LinkedQ` |
| `ThreadTests` | the ping-pong test, every other test program of the directory that forks threads, and any other program of the package | extends `RpiThread` |
| `TimerWaits` | every wait by the wrapping clock | |
| `LossyLink` | what a radio link promises in one direction | |
| `NrfDriver` | any number of Pis with their chips and the air between them | |
| `NrfLink` | one direction of the radio: what goes from one node to its peer | extends `NrfDriver`; `LossyLink` as abstract specification |
| `NrfOneWay` | the loopback tests over the driver | extends `NrfDriver` |
| `EspParse` | the ESP8266 receive path | |
| `EspPingPong` | the two ping-pong programs and their chips | |
| `EspShell` | the shell over the chip | |
| `UnixExamples` | the process examples over the Unix they use | |
| `BootUnix` | the host's ends of a boot session | |
| `TimerDemo`, `Exceptions`, `TrivialOs` | the timer demo's counters and the profiler's samples; exceptions instruction by instruction; the trivial OS from linker to exit | |
| `FakePi`, `PiRandom` | the fake Pis' memory and trace; their random numbers | |
| `FatDirectory`, `Printk`, `Msg2` | directory names; the conversions; radio messages | |
| `NrfRegs`, `NrfTrials` | `nrf_init` and the setters on the chip's registers; trials and the search | |
| `VmTests`, `DebugTests`, `DeviceTests`, `FatTests` | the test programs of four labs against what they test | |
| `Programs` | instances of the eight small programs that theorems are about, and their properties | `NrfTrials`, `TimerDemo`, `FakePi`, `Exceptions`, `NrfRegs`, `EspShell`, `TrivialOs`, `BootUnix` |
| `MCHost` | the small programs side by side, one of which each behaviour picks | `Programs`, and eight of the modules above |
| `MCEsp` | the receive path, with the streams it is fed, and the ping-pong programs side by side | `EspParse`, `EspPingPong` |
| `CircularQueueProofs`, `CircularExample32Proofs`, `LinkedQueueProofs`, `RpiThreadProofs`, `NrfProofs`, `EspPingPongProofs` | the theorems about the module each is named after; `NrfProofs` about `NrfDriver`, `NrfLink` and `NrfOneWay` | the module they are about |
| `ProgramProofs` | the theorems about programs of their own: the waits, the trials, the timer demo, the fake Pis' memory, the exceptions, the radios' set-up, the ESP8266 shell, the user programs, the exit string | `TimerWaits`, `Programs` |
| `Arithmetic` | lemmas about `%`, least numbers and induction | |
| other `MC*` | instances for TLC | |

How states and actions correspond to the code:

- **CircularQueue.** `ppc` and `cpc` are where the producer's and the consumer's
  calls are. A call is split where it reads or writes the variable the other side
  writes: `cq_push` is PushFull/PushNotFull (the test), PushAssert, PushStore,
  PushPublish. `Atomic` names the side that runs as an interrupt handler.
  Reads of `head` and `tail` are modulo `UINT`, as `unsigned` is. `sent` and
  `rcvd` are history.
- **CircularExample32.** The handler calls `cq_push32` with the bytes of the next
  integer; the loop pops and compares. The handler runs to completion, between
  any two accesses of the loop.
- **LinkedQ / LinkedQueue.** A `Q_t` is a record; `next` is one function for all
  elements, so that a stale link is seen. `list` is the client's own view.
- **RpiThread.** One action per call. Blocks come from `freeq` or, when that is
  empty, fresh from `kmalloc`. What `rpi_exit` does is in a staff binary; it is
  taken from the comments and the recorded runs, and marked external.
- **ThreadTests.** A thread is a sequence of calls to the package;
  since threads are not preempted, a step is what happens between two calls.
  `main` says whether the ping-pong test, a test program, or any program runs.
- **TimerWaits.** One wait after another; each look at the clock is a step, each
  tick another. The pin waits look at the pin and at the clock in turn.
- **NrfDriver.** A step of a node is one access to its chip. `Air` is one
  transmission: it may be lost, and so may its acknowledgement; the receiving
  chip drops what its FIFO cannot hold and does not store a retransmission twice.
  `acked_p` is chosen at `nrf_init`. Mode switches and the payload write
  (`staff-nrf-driver.o`) are external.
- **NrfLink.** Names what `LossyLink` is about in the state of `NrfDriver`, for the
  node `Source` and its peer: its `reliable` is whether the packets are
  acknowledged, `sent` how many packets Source's driver has handed over,
  `arrived` what the peer's chip took in, `read` what the peer's client got, and
  `confirmed` how many sends Source's driver saw succeed.
- **NrfOneWay.** The test's loop around the driver's calls; `trial` alternates
  the direction as `3-loop-msg.c` does.
- **NrfRegs.** `nrf_init` is a sequence of register accesses, executed one per
  step on chips that keep their registers when the Pi restarts, at any step. The
  state an earlier run left is reached by that run.
- **EspParse.** A lexer is a stream, the places where one `read` ends, a cursor
  and how much was read. A matcher is a function of it; a failed one restores the
  checkpoint. `log` compares each call with the same call on the whole stream.
- **EspPingPong.** Each program is a sequence of steps on its serial line, line by
  line; the chip answers, may be busy, may have old output from an earlier
  session, and speaks unasked when the network has news.
- **UnixExamples, TrivialOs, VmTests, DebugTests, DeviceTests, FatTests.** A
  program is data: a sequence of calls or statements named as in the source, with
  one action per kind of call. What a student or the staff supplies is external;
  in `DebugTests` and `DeviceTests` it may also be wrong, and the property says
  what a test's SUCCESS is then worth.
  `VmTests` writes the page table as `mmu.c` does where it has a body; of
  `fat32.c` only the checks at the head of each operation are code, and what the
  operations then do is taken from its comments.
- **BootUnix.** The tty is a byte sequence; each `read` takes any part of what has
  arrived. What a user types into `pi_echo` comes back from a program that echoes.
- **Exceptions.** One action per kind of instruction; `Code` holds the routines.
  A register holds an address, a number or a status word. Only `r0` and `r1`
  stand for the registers a C function may change.
- **FatDirectory, Printk, Msg2, PiRandom, NrfTrials.** Computation with state kept
  between the calls; one action per call, the data small.

Operators whose comment begins with "Fault:" are mistakes a change to the code
could make. No specification uses them; each property is known to fail when one
of them replaces the right definition (`PROJECT.json`, "mutants").

## 3. Runs

| Run | Shows | Distinct states |
|---|---|---|
| `cq_lockfree` | Both sides interleave at every access, without `cq_peek_n`, or the consumer is the handler, with it: a FIFO channel (`ImplementsFifo`), no slot read while written (`NoDataRace`), the only panic is the announced one (`OnlyDeadlockPanics`), the non-blocking calls never spin (`NoblkNeverSpins`), peeks take nothing (`PeekIsNonDestructive`), refusals are honest (`RefusalIsHonest`) | 224 272 |
| `cq_peek_interrupted` | **violation**: a push during `cq_peek_n` fails its closing assertion (`PeekNCountStable`) | |
| `cq_example32` | Integers wider than an element arrive whole, in order (`WordsAreWhole`), and all of them (`EveryIntegerArrives`) | 7 280 |
| `linked_queue` | Queues sharing links behave as independent lists (`ImplementsLists`), and an empty one passes its assertions (`EmptyAssertsHold`) | 11 009 |
| `threads` | Any program: no block lost or queued twice (`EveryBlockOnce`), every thread gets its turn (`EveryThreadRuns`). The directory's tests reach their ends with their checks met (`EveryTestEnds`) | 14 621 |
| `timer_waits` | No wait but `wait_usec` ends early or misses its end, long timeouts keep true time (`OnTime`), and none of them hangs (`EveryWaitEnds`), whatever the clock at its start | 11 552 |
| `nrf_driver` | Both radios send and read: every packet a chip took in is in one place, in order (`EveryPacketOnceInOrder`); no interrupt is lost (`InterruptNotLost`); the assertions hold but the one below (`AssertionsHold`); the link is a lossy ordered stream (`ImplementsLossyLink`); nothing is stranded (`DrainedInTheEnd`) | 1.03 million |
| `nrf_ack_both` | **violation**: a packet between drain and TX mode fails the sender's assertion (`DrainedBeforeAckSend`) | |
| `nrf_loop` | The tests, acknowledged or not: values match, timeouts are exactly the losses (`TimeoutsAreLosses`), the test ends or a send gives up (`TestEnds`) | 121 740 |
| `esp` | The receive path over some 260 streams cut into reads in every way: the pieces change nothing a caller sees (`ChunkingInvisible`), and no call waits for input that only its success can bring (`InputAccounted`). The two ping-pong programs: in step after a reset (`InStepAfterReset`), no connection announced lost unless the client started early (`ConnectNotLost`), one value under way at a time (`RoundTrips`), and a session without faults completes (`ChosenSessionCompletes`) | 633 030 |
| `esp_va_list` | **violation**: a line that begins like the awaited answer makes `cmd_responsev` store the answer's number through the wrong argument (`NumbersReachCaller`) | |
| `host` | The small programs, see the next table | 161 073 |

`host` puts seventeen programs side by side; a behaviour picks one at its start and
the others stand still. One TLC run then answers one question per property:

| Property | Program | Says |
|---|---|---|
| `AsAnnounced` | `UnixExamples` | each example ends, and prints what it announces, but for the races named there |
| `StreamUnderstood` | `BootUnix` | the Pi's words are found behind garbage and the exit string however the reads cut them |
| `AverageHonest` | `TimerDemo` | the sum is exact whatever wraps; the printed average lies between what N interrupts and what all of them took; the profile counts every interrupt where it found the program |
| `ExceptionsInvisible` | `Exceptions` | interrupted code goes on with what it had; a system call changes its result only; none is taken before a table is in place |
| `UserRunsAsLinked` | `TrivialOs` | what was linked last is what runs and prints, whatever lay in memory |
| `MemoryReadsBack` | `FakePi` | device memory is memory, so equal programs leave equal traces; a program is stopped only where it must be |
| `ComputationsExact` | `Printk`, `Msg2`, `PiRandom` | numbers print as themselves, cut only at the buffer; messages read back as they were filled, and the sizes of the puts leave no trace; exchanged random states resume where they were left |
| `DirectoryListed` | `FatDirectory` | a listing shows the files there are under their own names, whatever entries were reused |
| `ReadyMeansConfigured` | `NrfRegs` | a radio `nrf_init` returned is set up as asked, whatever an earlier run cut short had left |
| `TrialsSound` | `NrfTrials` | the summary accounts for every packet; the search ends at the least timeout that works, or in the assertion one above |
| `ShellFaithful` | `EspShell` | the chip's lines are printed once, in order; with `--ack`, no command during another's answer |
| `LabTestsSound` | `VmTests`, `DebugTests`, `DeviceTests`, `FatTests` | an access obeys the page table whatever the TLB keeps; what each lab test's success is worth; every test ends; the FAT32 tests can be run again after any others |

### Bounds, and why they are enough

- Queue: `CQ_N = 4` and at most 5 elements sent let the indices wrap, the queue
  fill and empty, and a call of two elements straddle the end. `MaxN = 2` is the
  least that tells push_n from push. `UINT = 16` is a multiple of `CQ_N`, as 2^32
  is of the default 8192 and of any power of two; for another `CQ_N`, which the
  header does not forbid, `cq_nelem` is wrong whenever `head < tail`.
- Example: `CQ_N = 8` and integers of two bytes (four in the code) leave room for
  three; 16 integers fill and wrap the queue several times and meet refusals.
  `push_fail` is a statistic and saturates.
- Linked queues: two queues and four elements give every queue a first, a middle
  and a last element while another holds one. The proofs are for any number.
- Threads: seven ids leave room for a scheduler thread, restarts and reuse of
  blocks; `n = 30` and 8-bit values are the ping-pong test's own. The other tests
  fork `Threads = 5` threads and start `Runs = 3` times, fewer than theirs.
- Waits: the clock has 8 values, starts anywhere, and up to 3 ticks separate two
  looks. Requests reach beyond the clock's range for timeouts and stay within it
  for delays, as `Fits` says. `MaxWait` matters only to `wait_usec`, which may not
  end.
- Radio: the link is the one from the server (`Source`) to the client.
  `msg_nbytes = 2` and `ReadBytes = 3` make reads straddle packets;
  `RxDepth = 2` and `CQ_N = 6` let the chip's FIFO and `recvq` both fill. A packet
  too many, and the driver's panic about it, is a state of the run. One
  retransmission separates lost, repeated and given up. The tests run three
  packets in four trials, twice in each direction.
- ESP8266: each conversation's answer stands among lines of every other kind the
  code looks for, two of them at the most; every cut of the stream is tried. Two
  round trips let a late message of one meet the next; one "busy" a session.
- Host examples: three values, two kids, two lines or interrupts from the user.
- Boot: up to four garbage bytes of three kinds, words that begin like the Pi's,
  and texts that begin like the exit string.
- Exceptions: two timer periods, so that one ends inside the handler of the other
  and one between any two instructions of the program.
- Trivial OS: bss sizes at, below and above the words of the tag; three boots.
- printk: words of 8 bits at and around every boundary; buffers of 1, 4 and 16.
- Directory: four entries, names that need none, one or more long entries.
- Random states: two arrays, three of the five types of state; five calls.
- Radio set-up: two runs, each with at most one changed setting, legal or not;
  the second meets what the first left at any of its steps. One stray packet per
  chip. Trials: three of two packets.
- Shell: two commands, one line unasked. Lab tests: their own sizes, with three
  rounds where the source has ten; cards that are right or wrong in one place.

The proofs (section 5) keep none of these bounds, only the assumptions on the
constants named there.

### Fairness

- `cq_example32`: the timer keeps firing (weak fairness of the handler). The loop
  needs strong fairness, because each interrupt disables it for a while; the code
  relies on the same, an interrupt rate that leaves the loop time to run.
- `threads`: threads are not preempted, so progress needs the programs to be
  cooperative: a thread yields or exits in the end, and the main program starts
  what it forked. The tests have weak fairness of their own steps only.
- `timer_waits`: time passes, the loop runs, and the caller goes on.
- `nrf_driver`: each Pi executes and each chip transmits what it was given.
- `nrf_loop`: additionally, a wait on the clock ends (strong fairness of the
  time-out, which each look disables and enables again). Loss is never assumed to
  stop: the test may end in the send's panic after its last retry.
- `esp`: both programs run on, and the chips answer and deliver.
- `host`: the operating system runs every process and delivers ^C once typed;
  the host reads what is in the tty; the kernel of the trivial OS runs; the shell
  sends and echoes what is ready; the lab tests execute. All of these are weak.
  The main program of a device-interrupt test has strong fairness, because the
  timer's period (and the UART's bit) is longer than a handler's run.

## 4. Findings

1. `circular.h:140`. `cq_peek_n` compares the count before and after. With a
   producer in an interrupt handler the count may have grown, and the assertion
   stops the program. When the consumer runs with interrupts off the peek is exact
   (`PeekCorrect`).
2. `nrf-driver.c:413`. The assertion that the RX FIFO is empty before a send can
   fail when the peer also sends; the comment above it says as much.
3. `esp-run.c:75`. After a failed match that had taken an argument, the next match
   takes the one after it from the same `va_list`.

Met while modelling, and part of the models or exceptions their properties name:

- Queue and threads: `overflow` (`circular.h:54`) never counts a refused push.
  The ping-pong test needs `n < 255`, as the value is a byte, and its assertion is
  false for `n = 0`. A scheduler thread's block is never freed. `wait_usec`
  (`7-test-realtime-yield.c:19`) compares the wrong way round: with `n > 0` it
  returns at its first look, with `n = 0` it never does. `delay_ms` and
  `delay_sec` multiply in 32 bits.
- Boot: a boot string of length 0 prints forever; `pi_done` misses an exit string
  behind the beginning of another ("DDONE!!!").
- Host examples: `pipe-detect-parent-died.c:85` tests for a parent that may still
  be a zombie; `dup2-redirect.c:63` keeps the other end open, so a program that
  reads to the end waits for ever; ^C before `kill-ex.c:67` is ready kills it.
- Fake Pi: `fake_random_seed` ignores its seed, and the library's does not mark
  itself as seeded; `pi-random.c:257` says the current state is saved first, but
  it is not; the lab's trace prints `max_trace + 1` statements.
- printk: `%lld` joins the decimal halves, and `%llx` drops the zeros in front of
  the low one.
- Messages: `msg_put24` and `msg_get24` use opposite byte orders.
- Radio set-up: the channel check admits eight bits, the register has seven;
  `nrf_is_legal_addr_sz` admits 4 and 5, `nrf_init` only 3; `nrf_dump` panics at
  250 kbps; `nrf_redo_db` prints the powers from unshifted bits and so panics for
  -6 and 0 dBm; `nrf_is_standbyI` tests CE = 1 where its comment says 0; `nrf.h`
  declares `nrf_redo_dr`, the definition is `nrf_redo_datarate`.
- Trials: `est_increase` asserts what is false once `lo` and `hi` are adjacent;
  `trial_mk(0, 0, ...)` divides by zero (`3-loop-msg.c:150`).
- Exceptions: abort and undefined-instruction handlers call C with no `sp` set; a
  data abort reports a `pc` off by 4; `int_init` does not disable the basic IRQs;
  `get_shadow_lr` and `store_shadow_lr` are never called.
- Trivial OS: the loader checks word 4 of the tag only; `SYS_GET_CPSR`, which
  `1-test-hello.c` makes, is not served; parts 1 to 4 reach an unimplemented
  routine; user bss is not cleared.
- Shell: the prompt "> " of CIPSEND ends no line and stops the shell after eight
  seconds (`VTIME` is 80 where the comment says 0.1 s); text that contains OK,
  ERROR or ready is taken for the end of an answer.
- FAT32: `to_8dot3` adds a dot and spaces to a name without extension;
  `volume_id_print` writes `oem[11]`; the check of the sectors per cluster admits
  0, as `is_pow2` does.
- Labs' tests: `3-debug-byte-access.c:2` says it tests subword matching, but never
  resets `load_fault_n`, so a missed load of the bytes 1 to 3 goes unnoticed;
  `debug_fault_init` asserts `bcr0` twice and `wcr0` never; AP_rd_only is called
  "privileged: read only" (`armv6-vm.h:101`) but writes go through by the table
  above it; `2-logic-analyzer.c` prints SUCCESS whatever it logged, and its comment
  exchanges the pins.

## 5. Proofs

TLAPS checks the proof modules against the modules as TLC runs them (and
the lemmas of `Arithmetic`). Their theorems hold for every value of the constants
that meets the assumptions named below, which are those the code needs.

**Circular queue.** Assumptions: the array has at least two slots, 2^32 is a
multiple of its size, the initial filling is an element (`SizeAssumption`,
`UIntAssumption`, `ElemAssumption`), and, but for `TypeCorrect`, `PeekSafe`:
either nobody calls `cq_peek_n` or the consumer runs with interrupts off. Finding
1 shows that the theorems need it.

- `TypeCorrect`: the types, under any interleaving, peeks included.
- `RingInvariant`: the inductive invariant `IInv`. None of the properties is
  inductive alone: that a push finds its slot free needs to know what lies between
  `tail` and `head`, and a test made several steps ago must still hold. `RingInv`
  says that `head` and `tail` are the lengths of the histories modulo `CQ_N` and
  that the slots between hold what was pushed; `ProducerInv` and `ConsumerInv`
  say, for each place in a call, what its earlier tests still guarantee. A test is
  stable because the other side can only move it in the safe direction.
  `ProducerView` and `View` turn the code's modular counts into lengths of
  histories; the arithmetic (`ModDistance`, `ModInjective`, `SuccMod`) is in
  lemmas of its own.
- From it follow `NoPanics`, `DataRaceFree`, `NoblkIsNonblocking`, `PeekCorrect`,
  the action property `HonestRefusals`, and `FifoRefinement`: initial states map
  to initial states; PushPublish is an Enqueue, PopAdvance outside a peek a
  Dequeue, every other step a stutter.

**Linked queues.** Assumption: `null` is no element. `WellFormed` proves
`IInv`: types, no element twice, and the chain of `next` fields from `head`
through exactly the client's list to `tail`. The chain alone is not inductive: an
append through a shared link would break another queue's chain were its elements
not disjoint. All three insertions are one lemma, `PutKeepsIInv`, about an
insertion at position i; `AppendPuts`, `PushPuts` and `InsertPuts` show that the
code's branches are that insertion. `EmptyAsserts` and `ListRefinement` follow.

**Waits.** Assumption: `ClockAssumption`, by which two looks at the clock are less
than a wrap apart; and a delay begins only with a request that `Fits` the clock,
as the model's guard says. `ClockInvariant`: the clock is its start plus the time
that has passed, modulo `Width`, and no look comes a whole wrap after the one
before it. `OnTime` speaks of true time, which the code never sees; the invariant
is what turns a difference of two readings back into it. `WaitsAreOnTime` follows
for every kind of wait.

**Trials of the radio.** Assumptions: a trial takes a millisecond at least, and
times and counts are naturals (`TrialsAssumption`). `TrialsSound` is not inductive:
that the sum's rate is at most the best trial's needs to know how rates and times
add up under integer division. `SumInv` says that one trial's rate bounds the
sum's bytes by the sum's time, before the rounding; `SearchInv` that what works
stays above `lo` and at most `hi`. `TrialsAreSound` follows.

**Timer demo and profile.** Assumptions: a period is shorter than the counter's
range, and N is at least two (`DemoAssumption`). `DemoInv` says which periods the
wrapped sum holds, through how many wraps however many, and which interrupts each
sample counts; the history keeps sums, so that no induction over the periods is
needed. `AverageIsHonest` follows.

**Fake Pis.** Assumptions: the stream of random numbers is not empty, and the
program writes numbers (`FakeAssumption`). `FakeInv` has for every known address
its one entry: `MemoryReadsBack` speaks of the first entry a search finds, and an
appended second entry would be missed by it. `MemoryIsMemory` follows.

**Exceptions.** Assumption: registers hold numbers (`ExceptionsAssumption`).
`ExcInv` says, for every instruction of every routine and handler, what the
registers, the banked ones and the two stacks hold, against what the exception
found: what was pushed is still there, what is not yet pushed is still in its
register, and the link register is as far from the interrupted instruction as
the correction to come will undo. It also says that a handler is entered with
interrupts off and only from a program, so that none nests.
`ExceptionsAreInvisible` follows, the two action properties included.

**Set-up of the radios.** Assumptions: a setting is a setter and a natural, what is
changed later is the data rate or the power, and a queue holds a packet at least
(`RegsAssumption`). `RegsInv` has, for each of the 29 accesses of `nrf_init`
(25 without acknowledgements), the registers written so far. `ReadyMeansConfigured`
alone says nothing until the last of them; and it needs that from the first access
to the last CE is low, so that no packet arrives between a flush and the check that
follows it, whatever the chip was doing when the Pi restarted. `AckedSteps` and
`UnackedSteps` list the accesses, `StepOfInit` says what each leaves, and
`BitsOfTwoFields` and its like what the bytes written are. `RegsNext` has one lemma
per action. `ReadyRadiosAreConfigured` follows.

**Shell.** Assumption: neither a command nor an event contains what the shell takes
for the end of an answer, an answer says it in one line only, and a `cr` is followed
by its `nl` (`ShellAssumption`). `ShellInv` follows one stream of characters: the
line the shell has begun, what is in `esp_fd`, and what the chip has yet to send
are, together, the lines said and not yet printed and the rest of the line under
way. `Hears` lists how far a reader of a stream is after each of its characters,
so that no induction over the stream is needed. `NeverEarly` needs, besides, where
with `--ack` the ends of answers are: before a command none is to come (`Settled`);
after it, behind the line that ends the answer comes none, and once the chip has
said that line it is not answering (`Waiting`). `ShellIsSafe` follows.

**User programs.** Assumption: the size of the bss is a natural, and a program makes
calls of the library, `sys_exit` with a code (`OsAssumption`). `OsInv` says what is
left of the program linked last: behind the kernel, its image with some number of
words cleared, which is none from the boot that wrote it until the loader has read
it; after the loader, a copy of the program and its name, or, where the bss had
covered the size but not the link address of a program left by an earlier boot, an
empty copy whose name is that address, which `program_get` refuses. `Images` says
where in the image the loader looks and what is there, `LoadHolds` what it gets
for every number of cleared words. In user mode, `Made` says which calls have been
served, and `ProgramCalls` that the last call of every program is the exit of
`start.S`; that `FlattenSeq`, which puts the calls together, yields a sequence is
shown by induction over the naturals (`Flattens`). `ProgramsExitAsLinked` follows.

**Exit string.** Assumption: a program prints characters (`BootAssumption`). `BootInv`
says that `pos` is where the matcher stands after all that was shown, as if it had
come in one read: `Reach` lists its positions, and `ReachMore` joins the list of a
read to that of the ones before. That an exit string is announced only where it
stands, and passed over only behind the beginning of another (`Hidden`), is then
said of one sequence (`RecognisedIs`): before a position k stand the first k
characters (`ReachSays`), and from position 0 on an exit string is followed
(`ReachFollows`); so one that was missed was met at a position in between.
`ExitIsRecognised` follows.

**Example.** On top of the queue's `RingInvariant`. Assumptions: an integer has
fewer bytes than the array (`WordAssumption`), the handler is the producer and the
loop pops with `cq_pop_n` (`HandlerAssumption`, `MainAssumption`).
`ExampleInvariant` says which byte of which integer stands at each place of the
stream, also in the middle of a push or a pop; an integer is refused as a whole,
so that the stream is whole integers but for the one under way. `WordsStayWhole`
follows.

**Threads.** Assumptions: blocks are numbered in the order of their allocation
(`BlockAssumption`), and `null` is none of them.
`BlocksInvariant` extends the chains of the linked queues: `runq` and `freeq` run
through `next`, each without a repetition, and share no block with each other, the
current thread, the scheduler's or the retired ones. Without the last part a fork
or an exit could put a block into a list it is in. `EveryBlockIsOnce` follows, for
any program of the package.

**Radio.** Assumptions: `NodeAssumption` (each node has a peer and an address of
its own) and `SizeAssumption`. `DriverInvariant` has, per node, three parts:
*Control* relates the place in a call to the chip's registers, *Queue* says that
what a chip took in and the client has not read is in `recvq` or the FIFO, in
order, and *Numbers* orders the packets sent, taken in and confirmed, so that a
retransmission is told from a new packet. `PacketsOnceInOrder`,
`InterruptIsPending` and `AssertionsNeverFail` follow. `LinkRefinement` shows the
steps of `LossyLink`: SendCall is a Send, a packet stored by `Air` an Arrive,
GetDataPop a Read, RxMode after an acknowledged send a Confirm; every other step
stutters. For the tests (`Loopback`: two nodes, each the other's peer) the loop's
steps are the driver's, so `TestInvariant` has the driver's invariant;
`TestsInvariant` adds what the counters, the place in the loop and the packet
under way say of each other. From it follow `TimeoutsAreLossesHolds` and
`TestChecksHold`.

**ESP8266.** Assumptions: at least one round trip, any bound on the busy lines.
`SessionInvariant` has two parts. *Resetting* says, for each step of the reset,
what the chip may still have to answer and to say: before RESTORE is sent no echo
of it can come, so that its echo, once read, marks the end of everything older;
after it at most one Ready is to come, and nothing behind it. `InStepAfterReset`
alone says nothing of the steps before the last, where old answers and new ones
look alike. *Network* and *Announced* relate the two programs: what one side's
chip may say by how far the other program is, and that a connection announced
while the server waits stays in its chip or its input until it reads it.
`ResetLeavesInStep` and `ConnectionNotMissed` follow. Where the steps of the
programs are needed, `ServerIs` and `ClientIs` give them one by one.
`TripsInvariant` adds three parts, from which `TripsInTurn` follows. *Rounds*
counts what either program has sent and read, from its step and its last value,
and says that neither has read more than the other has sent; so a program that
sends has read all there is. *Tokens* says where the value sent and not yet read
is: an order to the sender's chip, about to be told by the reader's, in the
reader's input, or lost, and in one of these only. *Calm* says that an order is
answered before the next is written; without it the bounds on orders and answers
are not inductive. That every write is followed by a wait for its answer is a
fact of the programs (`Paired`, `RoundsAre`, `Plays`).

Induction over the naturals, where a proof needs it, is `SetInduction` of
`Arithmetic`: it speaks of a set, because the library's induction theorems take an
operator, which the provers cannot instantiate.

**Only model-checked.** Liveness under fairness is out of the prover's reach and
stays with TLC: `EveryIntegerArrives`, `EveryThreadRuns`, `EveryTestEnds`,
`EveryWaitEnds`, `DrainedInTheEnd`, `TestEnds`, `ChosenSessionCompletes`, and the
temporal parts of `host`. What recursive operators and folds compute (the lexer
and its matchers, so `ChunkingInvisible` and `InputAccounted`; printk, the radio
messages, the random numbers, the FAT32 names, so `ComputationsExact`
and `DirectoryListed`) would need induction over what they are
applied to, which the provers cannot do. `ShellFaithful`, `UserRunsAsLinked` and `StreamUnderstood`
are proved in their safety parts (`ShellSafe`, `ExitsAsLinked`, `ExitRecognised`) and
model-checked with their liveness, `StreamUnderstood` also with the search for the
Pi's first word. `AsAnnounced` and `LabTestsSound` say that programs end, next to
what they do on the way: tables of some twenty programs, which TLC goes through.

## 6. Not modelled

- What the repository leaves to the student (`unimplemented()`) or ships as object
  files has no source to translate: the context switch and `rpi_exit`, `kmalloc`,
  the gpio, UART and SPI drivers, the radio's mode switches, the routines of the
  virtual memory, debug hardware and device interrupt labs, `fat32.c` behind the
  checks of its arguments, `mbr_read`, `gprof_init` and `gprof_inc`, steps 1 to 4 of `simple_boot` and `get_code`, the interposer's
  `trace_ok_fn` and `timeout_run_fn`, `user_mode_run_fn` and the step handlers.
  Where other code relies on one of them it is an external definition, taken from
  its callers and comments.
- Request and busy wait with no state of their own: mailbox and atags.
- `15-fat32/code/external-code/platform.h` is vendored; the copies of a file in
  several directories (`bit-support.h`, `rpi-armtimer.h`, the assembly of
  `1-syscall` and `2-gprof`) are mapped once, at the copy the model follows.
- Headers that name registers and bits (`armv6-cp15.h`, `nrf-regs.h`, `gpio.h`)
  hold constants and layout; printing, `%f`, option parsing and the libraries'
  string functions compute without state.
- Registers and stacks below the calls, but in `Exceptions`; instruction caches
  and memory ordering between cores (the chip has one).

## 7. Plan

1. **Theorems**: the safety parts of `AsAnnounced` and `LabTestsSound`, stated apart
   from their liveness.
2. **Composition**: the radio driver over `CircularQueue` instead of a sequence;
   `TrivialOs` over `Exceptions`.
3. **Larger instances** of `nrf_driver` and `esp`, as far as five minutes allow.
