----------------------------- MODULE DeviceTests -----------------------------
(***************************************************************************)
(* The test programs of labs/7-device-interrupts: a string passed from the *)
(* timer handler, the edges of a pin counted, and the edges of a software  *)
(* UART logged.  Interrupts come between any two statements.  What gpio    *)
(* does with an edge, and the two handlers of edges, are the student's and *)
(* may be wrong in a few ways; the jumper may be missing: in_pin then      *)
(* keeps a level of its own.  The queue is the FIFO that CircularQueue     *)
(* implements.                                                             *)
(***************************************************************************)
EXTENDS Naturals, Sequences, SequencesExt

CONSTANTS
  hello,   \* the string, without its end
  n        \* the rounds of test3_full_test: 10

VARIABLES
  lab,     \* what the student made of it, and the jumper
  pins,    \* out_pin, in_pin, the edges that are detected, the event bit
  irq,     \* interrupts enabled; the timer started; its interrupt is pending
  evq,     \* putQ or uartQ: initialised, its content
  edges,   \* n_rising_edge, n_falling_edge, pos, b
  etest    \* the program: its name, what is left of it, what it received, its end
devvars == <<lab, pins, irq, evq, edges, etest>>

Do(op, what, val) == [op |-> op, what |-> what, val |-> val]
-----------------------------------------------------------------------------
(* The programs.                                                           *)
Pops == [i \in 1 .. Len(hello) |-> Do("cq_pop", "", 0)]
\* Fault: the queue is reset when the handler may have used it.
circular_exampleLateInit ==
  <<Do("timer_interrupt_init", "", 0), Do("enable", "", 0), Do("cq_init", "", 0)>> \o Pops \o <<Do("strcmp", "", 0)>>
circular_example ==
  <<Do("timer_interrupt_init", "", 0), Do("cq_init", "", 0), Do("enable", "", 0)>> \o Pops \o <<Do("strcmp", "", 0)>>

Write(val) == <<Do("gpio_write", "", val), Do("delay", "", 0)>>
SetUp == <<Do("int", "rising", 0), Do("int", "falling", 0), Do("enable", "", 0)>>
Is(kind, val) == Do("equals", kind, val)
test1_simple_rise == <<Is("rising", 0)>> \o Write(1) \o <<Is("rising", 1), Do("reset", "rising", 0)>>
test2_simple_fall == <<Is("falling", 0)>> \o Write(0) \o <<Is("falling", 1), Do("reset", "falling", 0)>>
OneMore(kind, val) == <<Do("b", kind, 0)>> \o Write(val) \o <<Do("b + 1", kind, 0)>>
test3_full_test ==
  <<Is("falling", 0), Is("rising", 0)>>
    \o FlattenSeq([i \in 1 .. n |-> OneMore("rising", 1) \o OneMore("falling", 0)]) \o <<Is("rising", n), Is("falling", n)>>
gpio_int_ex == SetUp \o test1_simple_rise \o test2_simple_fall \o test3_full_test

\* A start bit, the bits of 0b01010101 from the lowest on, a stop bit.
Bits == [i \in 1 .. 10 |-> (i + 1) % 2]
sw_uart_put8 == FlattenSeq([i \in 1 .. 10 |-> Write(Bits[i])])
logic_analyzer ==
  <<Do("cq_init", "", 0), Do("gpio_write", "", 1)>> \o SetUp \o <<Do("gpio_read", "", 1)>>
    \o FlattenSeq([l \in 1 .. 2 |-> Append(sw_uart_put8, Do("drain", "", 0))])

Test == [circular_example |-> circular_example, gpio_int_ex |-> gpio_int_ex, logic_analyzer |-> logic_analyzer]

Init ==
  /\ lab \in [wired : BOOLEAN, idle : 0 .. 1, clears : BOOLEAN, deaf : {"", "rising", "falling"}, counts : {"its edge", "both", "the other"}]
  /\ \E t \in DOMAIN Test : etest = [name |-> t, left |-> Test[t], recv |-> <<>>, end |-> ""]
  /\ pins = [out |-> 0, in |-> IF lab.wired THEN 0 ELSE lab.idle, detected |-> {}, event |-> FALSE]
  /\ irq = [on |-> FALSE, timer |-> FALSE, pending |-> FALSE]
  /\ evq = <<>> /\ edges = [rising |-> 0, falling |-> 0, pos |-> 1, b |-> 0]
-----------------------------------------------------------------------------
Stmt == Head(etest.left)
Interrupted == irq.on /\ (irq.pending \/ pins.event)
\* A pending interrupt comes before the next statement.
At(ops) == etest.end = "" /\ ~Interrupted /\ etest.left # <<>> /\ Stmt.op \in ops
Onward == etest' = [etest EXCEPT !.left = Tail(@)]
Ends(why) == etest' = [etest EXCEPT !.end = why]

Enable ==
  /\ \/ At({"timer_interrupt_init"}) /\ irq' = [irq EXCEPT !.timer = TRUE]
     \/ At({"enable"}) /\ irq' = [irq EXCEPT !.on = TRUE]
  /\ Onward /\ UNCHANGED <<pins, evq, edges>>
cq_init == At({"cq_init"}) /\ evq' = <<>> /\ Onward /\ UNCHANGED <<pins, irq, edges>>
gpio_int_edge ==
  /\ At({"int"}) /\ pins' = [pins EXCEPT !.detected = @ \cup ({Stmt.what} \ {lab.deaf})]
  /\ Onward /\ UNCHANGED <<irq, evq, edges>>

\* The level goes through the jumper; an edge that is detected sets the event bit.
Edge(from, to) == IF from < to THEN "rising" ELSE IF to < from THEN "falling" ELSE "none"
Wired(level) == IF lab.wired THEN level ELSE pins.in
gpio_write ==
  /\ At({"gpio_write"})
  /\ pins' = [pins EXCEPT !.out = Stmt.val, !.in = Wired(Stmt.val), !.event = @ \/ Edge(pins.in, Wired(Stmt.val)) \in pins.detected]
  /\ Onward /\ UNCHANGED <<irq, evq, edges>>
\* Half a second, or a bit of the UART: longer than an interrupt takes to come.
Delay == At({"delay"}) /\ Onward /\ UNCHANGED <<pins, irq, evq, edges>>

Counter ==
  /\ \/ At({"reset"}) /\ edges' = [edges EXCEPT ![Stmt.what] = 0]
     \/ At({"b"}) /\ edges' = [edges EXCEPT !.b = edges[Stmt.what]]
  /\ Onward /\ UNCHANGED <<pins, irq, evq>>
Demand(ok) == (IF ok THEN Onward ELSE Ends("assert")) /\ UNCHANGED <<pins, irq, evq, edges>>
Check ==
  \/ At({"equals"}) /\ Demand(edges[Stmt.what] = Stmt.val)
  \/ At({"b + 1"}) /\ Demand(edges[Stmt.what] = edges.b + 1)
  \/ At({"gpio_read"}) /\ Demand(pins.in = Stmt.val)
  \/ At({"strcmp"}) /\ Demand(etest.recv = hello)

\* cq_pop waits for an element; the analyzer pops as long as there is one.
cq_pop ==
  /\ At({"cq_pop"}) /\ evq # <<>>
  /\ evq' = Tail(evq) /\ etest' = [etest EXCEPT !.left = Tail(@), !.recv = Append(@, Head(evq))]
  /\ UNCHANGED <<pins, irq, edges>>
Drain ==
  /\ At({"drain"})
  /\ etest' = [etest EXCEPT !.left = Tail(@), !.recv = @ \o evq] /\ evq' = <<>>
  /\ UNCHANGED <<pins, irq, edges>>
SUCCESS == etest.end = "" /\ etest.left = <<>> /\ Ends("SUCCESS") /\ UNCHANGED <<pins, irq, evq, edges>>

\* The timer asks again and again; the handler clears it and pushes the next
\* character until there is none.
Fire == etest.end = "" /\ irq.timer /\ ~irq.pending /\ irq' = [irq EXCEPT !.pending = TRUE] /\ UNCHANGED <<pins, evq, edges, etest>>
timer_vector ==
  /\ etest.end = "" /\ irq.on /\ irq.pending
  /\ irq' = [irq EXCEPT !.pending = FALSE]
  /\ IF edges.pos <= Len(hello)
     THEN evq' = Append(evq, hello[edges.pos]) /\ edges' = [edges EXCEPT !.pos = @ + 1] ELSE UNCHANGED <<evq, edges>>
  /\ UNCHANGED <<pins, etest>>

\* The pin's new level tells the edge.  A handler that does not clear the
\* event is called again and again.
Level == IF pins.in = 1 THEN "rising" ELSE "falling"
Counted ==
  CASE lab.counts = "both" -> {"rising", "falling"}
    [] lab.counts = "its edge" -> {Level} [] lab.counts = "the other" -> {"rising", "falling"} \ {Level}
edge_vector ==
  /\ etest.end = "" /\ irq.on /\ pins.event
  /\ IF lab.clears THEN pins' = [pins EXCEPT !.event = FALSE] /\ UNCHANGED etest ELSE Ends("no progress") /\ UNCHANGED pins
  /\ edges' = [edges EXCEPT !.rising = IF "rising" \in Counted THEN @ + 1 ELSE @, !.falling = IF "falling" \in Counted THEN @ + 1 ELSE @]
  /\ evq' = IF etest.name = "logic_analyzer" THEN Append(evq, IF "rising" \in Counted THEN 0 ELSE 1) ELSE evq
  /\ UNCHANGED irq

Main ==
  /\ \/ Enable \/ cq_init \/ gpio_int_edge \/ gpio_write \/ Delay \/ Counter \/ Check \/ cq_pop \/ Drain \/ SUCCESS
  /\ UNCHANGED lab
Interrupts == (Fire \/ timer_vector \/ edge_vector) /\ UNCHANGED lab
Next == Main \/ Interrupts
-----------------------------------------------------------------------------
Right == lab.wired /\ lab.clears /\ lab.deaf = "" /\ lab.counts = "its edge"
(* What SUCCESS is worth.  The string arrives whole whenever the timer     *)
(* fires, and its test never fails.  The counting test succeeds for a      *)
(* right gpio and handler on wired pins, and for nothing else.  The        *)
(* analyzer says SUCCESS whatever it has logged, unless the pin is not up  *)
(* or the handler does not let go; a right one has logged each transition  *)
(* of both bytes, with the level before it, once and in order.             *)
SuccessIsEarned ==
  etest.end # "" =>
    CASE etest.name = "circular_example" -> etest.end = "SUCCESS" /\ etest.recv = hello
      [] etest.name = "gpio_int_ex" -> (etest.end = "SUCCESS") = Right
      [] etest.name = "logic_analyzer" ->
           /\ (etest.end = "SUCCESS") = IF lab.wired THEN lab.clears ELSE lab.idle = 1
           /\ Right => etest.recv = [i \in 1 .. 20 |-> i % 2]
=============================================================================
