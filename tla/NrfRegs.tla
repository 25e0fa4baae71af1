------------------------------- MODULE NrfRegs -------------------------------
(***************************************************************************)
(* labs/17-nrf24l01p: the hardware checks of tests/ configure two radios   *)
(* through nrf_init, register by register, and print what the registers    *)
(* hold.  The chips keep their registers and queues when the Pi restarts,  *)
(* at any step, and hear stray packets whenever they listen.  A byte is    *)
(* the set of its bits that are 1.                                         *)
(***************************************************************************)
EXTENDS Integers, Sequences

CONSTANTS
  Changes,   \* [setter |-> name, value |-> what it is asked to set]: the edit
             \* a user makes to a test's configuration
  Redos,     \* the changes asked for after the radios are up
  MaxRuns,   \* bound: starts of the Pi
  FifoSize   \* packets a queue of the chip holds

Setters ==
  {"Mhz_delta", "dr", "db", "addr_nbytes", "retran_attempts", "retran_delay", "ce_pin", "int_pin", "spi_pin"}
RegsAssumption ==
  /\ Changes \subseteq [setter : Setters, value : Nat]
  /\ Redos \subseteq [setter : {"dr", "db"}, value : Nat]
  /\ MaxRuns \in Nat /\ FifoSize \in Nat \ {0}

VARIABLES
  radio,     \* the chips: registers, RX_ADDR_P1, interrupts, queues, CE pin
  nic,       \* what nrf_init returned for each, once it has
  prog       \* the program on the Pi

nrfvars == <<radio, nic, prog>>
Chips == {0, 1}
\* A byte, of n modulo 256.
Power == <<1, 2, 4, 8, 16, 32, 64, 128>>
Bits(n) == {i \in 0 .. 7 : (n \div Power[i + 1]) % 2 = 1}
-----------------------------------------------------------------------------
(* nrf-config.h.  A delay is asked for in microseconds.                    *)
Legal(s) ==
  CASE s.setter = "Mhz_delta" -> s.value < 256
    [] s.setter = "dr" -> s.value \in {0, 8, 32}
    [] s.setter = "db" -> s.value \in 0 .. 6
    [] s.setter = "addr_nbytes" -> s.value \in 3 .. 5
    [] s.setter = "retran_attempts" -> s.value <= 15
    [] s.setter = "retran_delay" -> s.value % 250 = 0 /\ s.value # 0 /\ s.value \div 250 - 1 <= 15
    [] s.setter \in {"ce_pin", "int_pin"} -> s.value \in 1 .. 29
    [] s.setter = "spi_pin" -> s.value \in {0, 1}
Stored(s) == IF s.setter = "retran_delay" THEN s.value \div 250 - 1 ELSE s.value
Set(c, s) == [c EXCEPT ![s.setter] = Stored(s)]

nrf_conf_unreliable_mk ==
  [Mhz_delta |-> 113, dr |-> 8, db |-> 2, addr_nbytes |-> 3, retran_attempts |-> 0,
   retran_delay |-> 0, ce_pin |-> 20, int_pin |-> 0, spi_pin |-> 1]
nrf_conf_reliable_mk(retran_n, usec) ==
  Set([nrf_conf_unreliable_mk EXCEPT !.retran_attempts = retran_n],
      [setter |-> "retran_delay", value |-> usec])

\* server_config for chip 0, client_config for chip 1.
Addr(chip) == IF chip = 0 THEN <<213, 213, 213>> ELSE <<229, 229, 229>>
TestConfig(chip, ack_p) ==
  [(IF ack_p THEN nrf_conf_reliable_mk(2, 250) ELSE nrf_conf_unreliable_mk)
     EXCEPT !.spi_pin = chip, !.ce_pin = 20 + chip]
-----------------------------------------------------------------------------
(* The chip, as the data sheet has it.                                     *)
ByteRegs ==
  {"CONFIG", "EN_AA", "EN_RXADDR", "SETUP_AW", "SETUP_RETR", "RF_CH", "RF_SETUP",
   "RX_PW_P1", "DYNPD", "FEATURE"}
ResetValue ==
  [CONFIG |-> {3}, EN_AA |-> 0 .. 5, EN_RXADDR |-> {0, 1}, SETUP_AW |-> {0, 1},
   SETUP_RETR |-> {0, 1}, RF_CH |-> {1}, RF_SETUP |-> 0 .. 3, RX_PW_P1 |-> {},
   DYNPD |-> {}, FEATURE |-> {}]
Writable ==
  [r \in ByteRegs |->
     CASE r \in {"EN_AA", "EN_RXADDR", "RX_PW_P1", "DYNPD"} -> 0 .. 5
       [] r = "SETUP_AW" -> {0, 1}
       [] r = "FEATURE" -> 0 .. 2
       [] r \in {"CONFIG", "RF_CH"} -> 0 .. 6
       [] OTHER -> 0 .. 7]

STATUS(chip) ==
  chip.intr \cup (IF chip.rx = <<>> THEN {1, 2, 3} ELSE {1}) \cup (IF chip.tx = FifoSize THEN {0} ELSE {})
FIFO_STATUS(chip) ==
  {bit \in {0, 1, 4, 5} :
     \/ bit = 0 /\ Len(chip.rx) = 0
     \/ bit = 1 /\ Len(chip.rx) = FifoSize
     \/ bit = 4 /\ chip.tx = 0
     \/ bit = 5 /\ chip.tx = FifoSize}
Listens(chip) ==
  /\ chip.ce = 1 /\ {0, 1} \subseteq chip.regs["CONFIG"]
  /\ 1 \in chip.regs["EN_RXADDR"] /\ chip.regs["RX_PW_P1"] # {}

nrf_get8(chip, reg) ==
  CASE reg = "STATUS" -> STATUS(chip)
    [] reg = "FIFO_STATUS" -> FIFO_STATUS(chip)
    [] OTHER -> chip.regs[reg]
\* Writing a 1 into STATUS clears an interrupt.
nrf_put8(chip, reg, v) ==
  IF reg = "STATUS" THEN [chip EXCEPT !.intr = @ \ v]
  ELSE [chip EXCEPT !.regs[reg] = v \cap Writable[reg]]
\* Fault: the command byte of the other queue.
nrf_rx_flushOther(chip) == [chip EXCEPT !.tx = 0]
nrf_rx_flush(chip) == [chip EXCEPT !.rx = <<>>]
nrf_tx_flush(chip) == [chip EXCEPT !.tx = 0]
nrf_or8(chip, reg, v) == nrf_put8(chip, reg, nrf_get8(chip, reg) \cup v)
nrf_gpio_init(chip) == [chip EXCEPT !.ce = 0]
\* The two bytes above the three written stay.
nrf_set_addr(chip, addr) == [chip EXCEPT !.rxaddr = addr \o SubSeq(@, Len(addr) + 1, 5)]
nrf_get_addr(chip) == SubSeq(chip.rxaddr, 1, 3)
nrf_bit_isset(chip, reg, bit) == bit \in nrf_get8(chip, reg)
nrf_is_standbyI(chip) == nrf_bit_isset(chip, "CONFIG", 1) /\ chip.ce = 1
-----------------------------------------------------------------------------
(* The one pipe of a radio: its address (<<>> for 0), packet size and kind. *)
nrf_pipe_mk(rxaddr, msg_nbytes, acked_p) == [rxaddr |-> rxaddr, msg_nbytes |-> msg_nbytes, is_retran_p |-> acked_p]
nrf_pipe_active(p) == p.rxaddr # <<>> /\ p.msg_nbytes # 0
\* The accessors assert an active pipe.
nrf_pipe_acked(p) == nrf_pipe_active(p) /\ p.is_retran_p

\* What nrf_init_acked and nrf_init_noacked assert before they call nrf_init.
Initable(c, msg_nbytes) == c.addr_nbytes # 0 /\ msg_nbytes > 0
-----------------------------------------------------------------------------
(* nrf_init, one access after the other; `v` is a byte, or what is asserted.*)
Step(op, reg, v) == [op |-> op, reg |-> reg, v |-> v]
Chk(reg, v) == Step("put8_chk", reg, v)
Is(reg, v) == Step("is", reg, v)
Holds(cond) == Step("assert", "none", cond)
Do(op) == Step(op, "none", {})

rx_config(c) == 0 .. (IF c.int_pin # 0 THEN 5 ELSE 6)
Acks(c, acked_p) ==
  IF ~acked_p THEN <<Chk("EN_AA", {}), Chk("EN_RXADDR", {1})>>
  ELSE <<Chk("EN_AA", {0, 1}), Chk("EN_RXADDR", {0, 1}), Holds(c.retran_delay < 16),
         Chk("SETUP_RETR", Bits(c.retran_attempts + 16 * c.retran_delay)),
         Is("EN_RXADDR", {0, 1}), Is("EN_AA", {0, 1})>>
NothingPending == <<Is("FIFO_STATUS", {0, 4}), Is("STATUS", {1, 2, 3})>>
Flushes == <<Do("nrf_tx_flush"), Do("nrf_rx_flush")>>
nrf_init(c, pipe) ==
  <<Do("nrf_gpio_init"), Chk("CONFIG", {}), Chk("EN_RXADDR", {})>>
  \o Acks(c, nrf_pipe_acked(pipe))
  \o <<Holds(c.addr_nbytes = 3), Chk("SETUP_AW", Bits(c.addr_nbytes - 2)),
       Chk("RX_PW_P1", Bits(pipe.msg_nbytes)), Step("nrf_set_addr", "none", pipe.rxaddr),
       Chk("RF_CH", Bits(c.Mhz_delta)),
       Holds(Bits(c.dr) \cap Bits(c.db) = {}), Chk("RF_SETUP", Bits(c.dr) \cup Bits(c.db))>>
  \o Flushes
  \o <<Step("put8", "STATUS", 0 .. 7), Is("STATUS", {1, 2, 3})>> \o NothingPending
  \o <<Is("DYNPD", {}), Chk("FEATURE", {})>>
  \o Flushes
  \o <<Is("FIFO_STATUS", {0, 4}), Step("nrf_or8", "CONFIG", {1}), Do("nrf_rx_mode")>>

\* A step's effect on the chip.  nrf_rx_mode is the lab's exercise: it leaves
\* the chip listening with the configuration computed for it.
After(chip, s, c) ==
  CASE s.op \in {"put8", "put8_chk"} -> nrf_put8(chip, s.reg, s.v)
    [] s.op = "nrf_or8" -> nrf_or8(chip, s.reg, s.v)
    [] s.op = "nrf_set_addr" -> nrf_set_addr(chip, s.v)
    [] s.op = "nrf_tx_flush" -> nrf_tx_flush(chip)
    [] s.op = "nrf_rx_flush" -> nrf_rx_flush(chip)
    [] s.op = "nrf_gpio_init" -> nrf_gpio_init(chip)
    [] s.op = "nrf_rx_mode" -> [nrf_put8(chip, "CONFIG", rx_config(c)) EXCEPT !.ce = 1]
    [] OTHER -> chip
\* What it checks, on the chip it leaves.
Passes(chip, s) ==
  CASE s.op \in {"put8_chk", "is"} -> nrf_get8(chip, s.reg) = s.v
    [] s.op = "nrf_set_addr" -> nrf_get_addr(chip) = s.v
    [] s.op = "nrf_rx_mode" -> nrf_bit_isset(chip, "CONFIG", 0)
    [] s.op = "assert" -> s.v
    [] OTHER -> TRUE
\* nrf_dump takes bit 5 of RF_SETUP for an error.
nrf_dump(chip) ==
  /\ nrf_get8(chip, "SETUP_AW") # {} /\ ~nrf_bit_isset(chip, "RF_SETUP", 5)
  /\ nrf_get8(chip, "FEATURE") = {} /\ nrf_get8(chip, "DYNPD") = {}
-----------------------------------------------------------------------------
NoNic == [up |-> FALSE, c |-> nrf_conf_unreliable_mk, pipe |-> nrf_pipe_mk(<<>>, 0, FALSE)]
Init ==
  /\ radio = [k \in Chips |-> [regs |-> ResetValue, rxaddr |-> <<194, 194, 194, 194, 194>>,
                               intr |-> {}, rx |-> <<>>, tx |-> 0, ce |-> 0]]
  /\ nic = [k \in Chips |-> NoNic]
  /\ prog = [st |-> "off", runs |-> 0, chip |-> 0, pc |-> 0, ack_p |-> FALSE, asked |-> {}]

\* The Pi starts, with one of the two tests, whatever it was doing.  Until
\* nrf_gpio_init sets them its pins are inputs: CE is what the board makes it.
Restart ==
  /\ prog.runs < MaxRuns
  /\ \E ack_p \in BOOLEAN, asked \in {{}} \cup {{s} : s \in Changes} :
       prog' = [st |-> "start", runs |-> prog.runs + 1, chip |-> 0, pc |-> 0, ack_p |-> ack_p, asked |-> asked]
  /\ nic' = [k \in Chips |-> NoNic]
  /\ \E ce \in {0, 1} :
       radio' = [k \in Chips |-> [radio[k] EXCEPT !.ce = ce, !.rx = [i \in DOMAIN @ |-> "old"]]]

\* server_config and client_config: the setters panic at an illegal value.
Configure ==
  /\ prog.st = "start" /\ UNCHANGED radio
  /\ \/ /\ \A s \in prog.asked : Legal(s)
        /\ LET c == TestConfig(prog.chip, prog.ack_p) IN
           \E d \in IF prog.asked = {} THEN {c} ELSE {Set(c, s) : s \in prog.asked} :
             /\ Initable(d, 32)
             /\ nic' = [nic EXCEPT ![prog.chip] = [up |-> FALSE, c |-> d, pipe |-> nrf_pipe_mk(Addr(prog.chip), 32, prog.ack_p)]]
        /\ prog' = [prog EXCEPT !.st = "init", !.pc = 1]
     \/ /\ \E s \in prog.asked : ~Legal(s)
        /\ prog' = [prog EXCEPT !.st = "panic"] /\ UNCHANGED nic

Access ==
  /\ prog.st = "init"
  /\ LET k == prog.chip
         c == nic[k].c
         steps == nrf_init(c, nic[k].pipe)
         s == steps[prog.pc]
         chip == After(radio[k], s, c)
     IN /\ radio' = [radio EXCEPT ![k] = chip]
        /\ \/ /\ Passes(chip, s) /\ prog.pc < Len(steps)
              /\ prog' = [prog EXCEPT !.pc = @ + 1] /\ UNCHANGED nic
           \/ /\ Passes(chip, s) /\ prog.pc = Len(steps)
              /\ prog' = [prog EXCEPT !.st = "dump"] /\ nic' = [nic EXCEPT ![k].up = TRUE]
           \/ /\ ~Passes(chip, s)
              /\ prog' = [prog EXCEPT !.st = "panic"] /\ UNCHANGED nic

Dump ==
  /\ prog.st = "dump" /\ UNCHANGED <<radio, nic>>
  /\ \/ nrf_dump(radio[prog.chip]) /\ prog.chip = 0 /\ prog' = [prog EXCEPT !.st = "start", !.chip = 1]
     \/ nrf_dump(radio[prog.chip]) /\ prog.chip = 1 /\ prog' = [prog EXCEPT !.st = "idle"]
     \/ ~nrf_dump(radio[prog.chip]) /\ prog' = [prog EXCEPT !.st = "panic"]

\* nrf_redo_datarate and nrf_redo_db of the server's radio.  The latter prints
\* both powers with nrf_bits_to_db, which takes the two bits unshifted.
Redo ==
  /\ prog.st = "idle"
  /\ \E s \in Redos :
       LET c == Set(nic[0].c, s)
           fine ==
             /\ nrf_is_standbyI(radio[0]) /\ Legal(s) /\ Bits(c.dr) \cap Bits(c.db) = {}
             /\ s.setter = "db" => {s.value, nic[0].c.db} \subseteq 0 .. 3
       IN \/ /\ fine /\ prog' = [prog EXCEPT !.asked = @ \cup {s}]
             /\ nic' = [nic EXCEPT ![0].c = c]
             /\ radio' = [radio EXCEPT ![0] = nrf_put8(@, "RF_SETUP", Bits(c.dr) \cup Bits(c.db))]
          \/ /\ ~fine /\ prog' = [prog EXCEPT !.st = "panic", !.asked = @ \cup {s}]
             /\ UNCHANGED <<radio, nic>>

\* A chip that listens hears a packet for it.
Stray(k) ==
  /\ Listens(radio[k]) /\ Len(radio[k].rx) < FifoSize
  /\ radio' = [radio EXCEPT ![k].rx = Append(@, "new"), ![k].intr = @ \cup {6}]
  /\ UNCHANGED <<nic, prog>>

\* External: a program that sends is stopped with its packet queued, sent, or
\* given up after the retransmissions.
SendCutShort(k) ==
  /\ prog.st = "idle" /\ radio[k].tx = 0 /\ 0 \in radio[k].regs["CONFIG"]
  /\ \E left \in {<<{}, 1>>, <<{5}, 0>>, <<{4}, 1>>} :
       radio' = [radio EXCEPT ![k].regs["CONFIG"] = @ \ {0}, ![k].ce = 0,
                              ![k].intr = @ \cup left[1], ![k].tx = left[2]]
  /\ prog' = [prog EXCEPT !.st = "stopped"]
  /\ UNCHANGED nic

Next ==
  \/ Restart \/ Configure \/ Access \/ Dump \/ Redo
  \/ \E k \in Chips : Stray(k) \/ SendCutShort(k)
Spec == Init /\ [][Next]_nrfvars
-----------------------------------------------------------------------------
\* The settings with which nrf_init, nrf_dump or nrf_redo_db end the program:
\* 4 and 5 byte addresses, channels of 8 bits, 250 kbps, and for a change of
\* power the upper two.
Refused(s) ==
  \/ ~Legal(s)
  \/ s.setter = "addr_nbytes" /\ s.value # 3
  \/ s.setter = "Mhz_delta" /\ s.value >= 128
  \/ s.setter = "dr" /\ s.value = 32
  \/ s.setter = "db" /\ s.value > 3

(* Whatever an earlier run, cut short anywhere, left in the chips: a radio *)
(* that nrf_init returned is set up as its configuration says and listens, *)
(* no packet heard before the restart is in its queue, and no assertion of *)
(* nrf_init ("not guaranteed if a stray packet arrives") or nrf_dump fails *)
(* but for a setting refused.                                              *)
ReadyMeansConfigured ==
  /\ \A k \in Chips : nic[k].up /\ prog.st # "stopped" =>
       LET c == nic[k].c
           pipe == nic[k].pipe
           reg == radio[k].regs
       IN /\ nrf_pipe_active(pipe) /\ Listens(radio[k]) /\ reg["CONFIG"] = rx_config(c)
          /\ reg["EN_AA"] = IF nrf_pipe_acked(pipe) THEN {0, 1} ELSE {}
          /\ nrf_pipe_acked(pipe) => reg["SETUP_RETR"] = Bits(c.retran_attempts) \cup {4 + i : i \in Bits(c.retran_delay)}
          /\ reg["SETUP_AW"] = {0} /\ nrf_get_addr(radio[k]) = pipe.rxaddr /\ pipe.rxaddr = Addr(k)
          /\ reg["RF_CH"] = Bits(c.Mhz_delta) /\ reg["RX_PW_P1"] = Bits(pipe.msg_nbytes)
          /\ reg["RF_SETUP"] = Bits(c.dr) \cup Bits(c.db)
          /\ \A i \in DOMAIN radio[k].rx : radio[k].rx[i] = "new"
          /\ radio[k].tx = 0 /\ radio[k].intr \subseteq {6}
  /\ prog.st = "panic" => \E s \in prog.asked : Refused(s)
=============================================================================
