----------------------------- MODULE NrfDriver -----------------------------
(***************************************************************************)
(* The nrf24l01p radio driver of labs/17-nrf24l01p/code: nrf-driver.c and  *)
(* the calls of nrf-public.c on top of it.  Each node is a Pi running one  *)
(* call at a time and the chip it talks to over SPI; one step of a node is *)
(* one access to its chip.  The chip, the air and the steps the repository *)
(* ships as a binary (staff-nrf-driver.o) follow the driver's use of them. *)
(***************************************************************************)
EXTENDS Integers, Sequences, SequencesExt

CONSTANTS
  Node,
  Peer,        \* the node each node sends to
  msg_nbytes,  \* size of every packet
  ReadBytes,   \* size of every read by the client
  RxDepth,     \* packets the chip's RX FIFO holds
  CQ_N,        \* bytes in recvq, plus one
  Retran,      \* retransmissions before the chip gives up
  Sender,      \* the nodes that send
  MaxSends     \* bound: packets sent by one node

ASSUME NodeAssumption ==
  /\ Peer \in [Node -> Node] /\ \A n \in Node : Peer[n] # n
  /\ \A m, n \in Node : Peer[m] = Peer[n] => m = n  \* each has its own address
  /\ Sender \subseteq Node
ASSUME SizeAssumption ==
  /\ msg_nbytes \in 1 .. 32 /\ ReadBytes \in Nat \ {0}
  /\ RxDepth \in Nat \ {0} /\ CQ_N \in Nat /\ CQ_N > msg_nbytes
  /\ Retran \in 0 .. 15 /\ MaxSends \in Nat

VARIABLES
  acked_p,   \* as given to nrf_init: the pipes acknowledge
  chip,      \* the registers and FIFOs of each chip
  recvq,     \* nrf_pipe_t: bytes received and not read
  tot_msgs, tot_recv_bytes,
  pc, op, ret,  \* where each node is, in which call, and what it returned
  msg,       \* what the last successful read copied out
  why,       \* the assertion or panic that stopped a node
  nsent, accepted, confirmed, got  \* history: packets sent, taken in by the
             \* chip, reported sent to the client; bytes read by the client

drvvars == <<acked_p, recvq, tot_msgs, tot_recv_bytes>>
callvars == <<op, ret, msg>>
history == <<nsent, accepted, confirmed, got>>
vars == <<chip, drvvars, pc, callvars, why, history>>

\* The packets sent so far are <<n, k>>, the k-th of node n; <<p, k>> is the
\* k-th byte of packet p.
Packet == Sender \X (1 .. MaxSends)
Bytes(p) == [k \in 1 .. msg_nbytes |-> <<p, k>>]
AllBytes(ps) == FlattenSeq([i \in DOMAIN ps |-> Bytes(ps[i])])

Init ==  \* nrf_init
  /\ acked_p \in BOOLEAN
  /\ chip = [n \in Node |->
       [config |-> "rx", ce |-> 1, rx |-> <<>>, rx_dr |-> FALSE,
        tx |-> <<>>, tx_ds |-> FALSE, max_rt |-> FALSE, tries |-> 0]]
  /\ recvq = [n \in Node |-> <<>>]
  /\ tot_msgs = [n \in Node |-> 0] /\ tot_recv_bytes = [n \in Node |-> 0]
  /\ pc = [n \in Node |-> "idle"] /\ op = [n \in Node |-> "none"]
  /\ ret = [n \in Node |-> 0] /\ msg = [n \in Node |-> <<>>]
  /\ why = [n \in Node |-> "none"]
  /\ nsent = [n \in Node |-> 0] /\ accepted = [n \in Node |-> <<>>]
  /\ confirmed = [n \in Node |-> <<>>] /\ got = [n \in Node |-> <<>>]

Goto(n, l) == pc' = [pc EXCEPT ![n] = l]
Return(n, v) == Goto(n, "ret") /\ ret' = [ret EXCEPT ![n] = v]
Panic(n, w) == Goto(n, "panic") /\ why' = [why EXCEPT ![n] = w]
-----------------------------------------------------------------------------
(* The chip and the air.                                                   *)

Listening(d) == chip[d].config = "rx" /\ chip[d].ce = 1

\* The chip drops what its FIFO cannot hold and acknowledges a retransmission
\* without storing it again.
CanHear(d, p) == Listening(d) /\ Len(chip[d].rx) < RxDepth
IsRepeat(d, p) == acked_p /\ Len(accepted[d]) > 0 /\ Last(accepted[d]) = p

Heard(d, p) ==
  IF IsRepeat(d, p) THEN chip[d]
  ELSE [chip[d] EXCEPT !.rx = Append(@, p), !.rx_dr = TRUE]

Sent(s) == [chip[s] EXCEPT !.tx = <<>>, !.tx_ds = TRUE]
NotAcked(s) ==
  IF chip[s].tries < Retran THEN [chip[s] EXCEPT !.tries = @ + 1]
  ELSE [chip[s] EXCEPT !.max_rt = TRUE]

\* One transmission: the packet may be lost, and so may its acknowledgement.
Air(s) ==
  LET d == Peer[s]
      p == Head(chip[s].tx)
  IN /\ chip[s].tx # <<>> /\ ~chip[s].max_rt
     /\ \/ /\ chip' = [chip EXCEPT ![s] = IF acked_p THEN NotAcked(s) ELSE Sent(s)]
           /\ UNCHANGED accepted
        \/ /\ CanHear(d, p)
           /\ \E acked \in BOOLEAN :
                chip' = [chip EXCEPT
                           ![s] = IF acked \/ ~acked_p THEN Sent(s) ELSE NotAcked(s),
                           ![d] = Heard(d, p)]
           /\ accepted' = IF IsRepeat(d, p) THEN accepted
                          ELSE [accepted EXCEPT ![d] = Append(@, p)]
     /\ UNCHANGED <<drvvars, pc, callvars, why, nsent, confirmed, got>>
-----------------------------------------------------------------------------
(* Calls and returns.                                                      *)

Call(n, o) ==
  /\ pc[n] = "idle"
  /\ Goto(n, "has_packet")
  /\ op' = [op EXCEPT ![n] = o]
  /\ UNCHANGED <<chip, drvvars, ret, msg, why, accepted, confirmed, got>>

ReadCall(n, o) == Call(n, o) /\ UNCHANGED nsent

SendCall(n) ==
  /\ nsent[n] < MaxSends
  /\ nsent' = [nsent EXCEPT ![n] = @ + 1]
  /\ Call(n, "send")

ClientReturn(n) ==
  /\ pc[n] = "ret"
  /\ Goto(n, "idle")
  /\ op' = [op EXCEPT ![n] = "none"]
  /\ ret' = [ret EXCEPT ![n] = 0]
  /\ msg' = [msg EXCEPT ![n] = <<>>]
  /\ UNCHANGED <<chip, drvvars, why, history>>
\* A send drains until nothing is left; a read looks at recvq after one pass.
GetPktsReturn(n, some) ==
  IF op[n] = "send" THEN Goto(n, IF some THEN "has_packet" ELSE "tx_mode")
  ELSE Goto(n, "avail")
-----------------------------------------------------------------------------
(* Faults, none of them part of Next.                                      *)

\* Fault: one packet is taken per call, whatever else is in the FIFO.
GetPktsMoreOnce(n) ==
  /\ pc[n] = "more"
  /\ GetPktsReturn(n, TRUE)
  /\ UNCHANGED <<chip, drvvars, callvars, why, history>>

\* Fault: the payload is queued in front of what was received before.
GetPktsReadFront(n) ==
  /\ pc[n] = "payload"
  /\ chip' = [chip EXCEPT ![n].rx = Tail(@)]
  /\ recvq' = [recvq EXCEPT ![n] = Bytes(Head(chip[n].rx)) \o @]
  /\ tot_msgs' = [tot_msgs EXCEPT ![n] = @ + 1]
  /\ tot_recv_bytes' = [tot_recv_bytes EXCEPT ![n] = @ + msg_nbytes]
  /\ Goto(n, "intr_clr")
  /\ UNCHANGED <<acked_p, callvars, why, history>>

\* Fault: a read wants one byte more than it takes.
GetDataPopMore(n) ==
  /\ pc[n] = "avail"
  /\ Len(recvq[n]) > ReadBytes
  /\ msg' = [msg EXCEPT ![n] = SubSeq(recvq[n], 1, ReadBytes)]
  /\ recvq' = [recvq EXCEPT ![n] = SubSeq(@, ReadBytes + 1, Len(@))]
  /\ got' = [got EXCEPT ![n] = @ \o msg'[n]]
  /\ Return(n, ReadBytes)
  /\ UNCHANGED <<acked_p, chip, tot_msgs, tot_recv_bytes, op, why, nsent,
                 accepted, confirmed>>

\* Fault: the transmit interrupt is left pending.
TxIntrClearLost(n) ==
  /\ pc[n] = "tx_intr_clr"
  /\ Goto(n, "rx_mode")
  /\ UNCHANGED <<chip, drvvars, callvars, why, history>>

\* Fault: the send does not wait for the chip.
WaitTxBlind(n) ==
  /\ pc[n] = "wait_tx"
  /\ Goto(n, "tx_intr_clr")
  /\ UNCHANGED <<chip, drvvars, callvars, why, history>>

\* Fault: the send does not look at MAX_RT.
WaitRetranIgnored(n) ==
  /\ pc[n] = "wait_rt"
  /\ Goto(n, "wait_full")
  /\ UNCHANGED <<chip, drvvars, callvars, why, history>>

-----------------------------------------------------------------------------
(* nrf_get_pkts: move every packet of the RX FIFO into recvq.              *)

GetPktsStart(n) ==
  /\ pc[n] = "has_packet"
  /\ IF chip[n].rx = <<>> THEN GetPktsReturn(n, FALSE) ELSE Goto(n, "pipeid")
  /\ UNCHANGED <<chip, drvvars, callvars, why, history>>

GetPktsPipe(n) ==
  /\ pc[n] = "pipeid"
  /\ IF chip[n].rx = <<>> THEN Panic(n, "impossible: empty pipeid")
     ELSE Goto(n, "payload") /\ UNCHANGED why
  /\ UNCHANGED <<chip, drvvars, callvars, history>>

GetPktsRead(n) ==
  /\ pc[n] = "payload"
  /\ chip' = [chip EXCEPT ![n].rx = Tail(@)]
  /\ IF CQ_N - 1 < Len(recvq[n]) + msg_nbytes
       THEN Panic(n, "not enough space") /\ UNCHANGED drvvars
       ELSE /\ recvq' = [recvq EXCEPT ![n] = @ \o Bytes(Head(chip[n].rx))]
            /\ UNCHANGED acked_p
            /\ tot_msgs' = [tot_msgs EXCEPT ![n] = @ + 1]
            /\ tot_recv_bytes' = [tot_recv_bytes EXCEPT ![n] = @ + msg_nbytes]
            /\ Goto(n, "intr_clr") /\ UNCHANGED why
  /\ UNCHANGED <<callvars, history>>

GetPktsClear(n) ==
  /\ pc[n] = "intr_clr"
  /\ chip' = [chip EXCEPT ![n].rx_dr = FALSE]
  /\ Goto(n, "more")
  /\ UNCHANGED <<drvvars, callvars, why, history>>

GetPktsMore(n) ==
  /\ pc[n] = "more"
  /\ IF chip[n].rx = <<>> THEN GetPktsReturn(n, TRUE) ELSE Goto(n, "pipeid")
  /\ UNCHANGED <<chip, drvvars, callvars, why, history>>
-----------------------------------------------------------------------------
(* nrf_get_data_exact_noblk, nrf_get_data_exact_timeout and                *)
(* nrf_get_data_exact, which waits longer and panics when nothing comes.   *)

GetDataPop(n) ==
  /\ pc[n] = "avail"
  /\ Len(recvq[n]) >= ReadBytes
  /\ msg' = [msg EXCEPT ![n] = SubSeq(recvq[n], 1, ReadBytes)]
  /\ recvq' = [recvq EXCEPT ![n] = SubSeq(@, ReadBytes + 1, Len(@))]
  /\ got' = [got EXCEPT ![n] = @ \o msg'[n]]
  /\ Return(n, ReadBytes)
  /\ UNCHANGED <<acked_p, chip, tot_msgs, tot_recv_bytes, op, why, nsent,
                 accepted, confirmed>>

GetDataShort(n) ==
  /\ pc[n] = "avail"
  /\ Len(recvq[n]) < ReadBytes
  /\ IF op[n] = "noblk" THEN Return(n, 0)
     ELSE Goto(n, "timeout") /\ UNCHANGED ret
  /\ UNCHANGED <<chip, drvvars, op, msg, why, history>>

\* timeout_usec: the caller's time is up, or it looks again.
TimedOut(n) ==
  /\ pc[n] = "timeout"
  /\ IF op[n] = "exact" THEN Panic(n, "no traffic") /\ UNCHANGED ret
     ELSE Return(n, -1) /\ UNCHANGED why
  /\ UNCHANGED <<chip, drvvars, op, msg, history>>

TimeLeft(n) ==
  /\ pc[n] = "timeout"
  /\ Goto(n, "has_packet")
  /\ UNCHANGED <<chip, drvvars, callvars, why, history>>
-----------------------------------------------------------------------------
(* nrf_tx_send_noack and nrf_tx_send_ack, after the drain.                 *)

TxMode(n) ==
  /\ pc[n] = "tx_mode"
  /\ chip' = [chip EXCEPT ![n].config = "tx", ![n].ce = 0]
  /\ Goto(n, "check")
  /\ UNCHANGED <<drvvars, callvars, why, history>>

TxCheck(n) ==
  /\ pc[n] = "check"
  /\ LET c == chip[n]
     IN IF c.tx # <<>> \/ (acked_p /\ (c.max_rt \/ c.tx_ds))
          THEN Panic(n, "assert: idle transmitter")
        ELSE IF acked_p /\ c.rx # <<>>
          THEN Panic(n, "assert: nrf_rx_fifo_empty")
        ELSE Goto(n, "do_tx") /\ UNCHANGED why
  /\ UNCHANGED <<chip, drvvars, callvars, history>>

DoTx(n) ==  \* load the payload and pulse CE
  /\ pc[n] = "do_tx"
  /\ chip' = [chip EXCEPT ![n].tx = <<<<n, nsent[n]>>>>, ![n].tries = 0]
  /\ Goto(n, IF acked_p THEN "wait_tx" ELSE "wait_empty")
  /\ UNCHANGED <<drvvars, callvars, why, history>>

WaitEmpty(n) ==  \* noack: spin until the TX FIFO is empty
  /\ pc[n] = "wait_empty"
  /\ chip[n].tx = <<>>
  /\ Goto(n, "tx_intr_clr")
  /\ UNCHANGED <<chip, drvvars, callvars, why, history>>

WaitTx(n) ==
  /\ pc[n] = "wait_tx"
  /\ IF ~chip[n].tx_ds THEN Goto(n, "wait_rt") /\ UNCHANGED why
     ELSE IF chip[n].tx # <<>> THEN Panic(n, "assert: nrf_tx_fifo_empty")
     ELSE Goto(n, "tx_intr_clr") /\ UNCHANGED why
  /\ UNCHANGED <<chip, drvvars, callvars, history>>

WaitRetran(n) ==
  /\ pc[n] = "wait_rt"
  /\ IF chip[n].max_rt THEN Panic(n, "max intr")
     ELSE Goto(n, "wait_full") /\ UNCHANGED why
  /\ UNCHANGED <<chip, drvvars, callvars, history>>

WaitRxFull(n) ==
  /\ pc[n] = "wait_full"
  /\ IF Len(chip[n].rx) = RxDepth THEN Panic(n, "rx fifo is full")
     ELSE Goto(n, "wait_tx") /\ UNCHANGED why
  /\ UNCHANGED <<chip, drvvars, callvars, history>>

TxIntrClear(n) ==
  /\ pc[n] = "tx_intr_clr"
  /\ chip' = [chip EXCEPT ![n].tx_ds = FALSE]
  /\ Goto(n, "rx_mode")
  /\ UNCHANGED <<drvvars, callvars, why, history>>

RxMode(n) ==
  /\ pc[n] = "rx_mode"
  /\ chip' = [chip EXCEPT ![n].config = "rx", ![n].ce = 1]
  /\ confirmed' = [confirmed EXCEPT ![n] = Append(@, <<n, nsent[n]>>)]
  /\ Return(n, msg_nbytes)
  /\ UNCHANGED <<drvvars, op, msg, why, nsent, accepted, got>>
-----------------------------------------------------------------------------
GetPkts(n) ==
  \/ GetPktsStart(n) \/ GetPktsPipe(n) \/ GetPktsRead(n) \/ GetPktsClear(n)
  \/ GetPktsMore(n)
GetData(n) == GetDataPop(n) \/ GetDataShort(n) \/ TimedOut(n) \/ TimeLeft(n)
Transmit(n) ==
  \/ TxMode(n) \/ TxCheck(n) \/ DoTx(n) \/ WaitEmpty(n) \/ WaitTx(n)
  \/ WaitRetran(n) \/ WaitRxFull(n) \/ TxIntrClear(n) \/ RxMode(n)

Step(n) == GetPkts(n) \/ GetData(n) \/ Transmit(n)

Client(n) ==
  \/ \E o \in {"noblk", "timeout", "exact"} : ReadCall(n, o)
  \/ n \in Sender /\ SendCall(n)
  \/ ClientReturn(n)

Cpu(n) == Step(n) \/ Client(n)

Next == \E n \in Node : Cpu(n) \/ Air(n)

Spec == Init /\ [][Next]_vars

\* Every Pi keeps executing and the chip transmits what it was given.
FairSpec == Spec /\ \A n \in Node : WF_vars(Cpu(n)) /\ WF_vars(Air(n))
-----------------------------------------------------------------------------
PCs == {"idle", "has_packet", "pipeid", "payload", "intr_clr", "more", "avail",
        "timeout", "tx_mode", "check", "do_tx", "wait_empty", "wait_tx",
        "wait_rt", "wait_full", "tx_intr_clr", "rx_mode", "ret", "panic"}
Panics == {"impossible: empty pipeid", "not enough space", "max intr",
           "rx fifo is full", "no traffic", "assert: idle transmitter",
           "assert: nrf_rx_fifo_empty", "assert: nrf_tx_fifo_empty"}

(* Types of the registers, of the pipe and of the calls in progress.       *)
TypeOK ==
  /\ \A n \in Node :
       /\ chip[n].config \in {"rx", "tx"} /\ chip[n].ce \in {0, 1}
       /\ chip[n].rx \in Seq(Packet) /\ Len(chip[n].rx) <= RxDepth
       /\ chip[n].tx \in Seq(Packet) /\ Len(chip[n].tx) <= 1
       /\ chip[n].rx_dr \in BOOLEAN /\ chip[n].tx_ds \in BOOLEAN
       /\ chip[n].max_rt \in BOOLEAN /\ chip[n].tries \in 0 .. Retran
       /\ Len(recvq[n]) < CQ_N
       /\ ret[n] \in {-1, 0, ReadBytes, msg_nbytes}
  /\ pc \in [Node -> PCs] /\ why \in [Node -> Panics \cup {"none"}]
  /\ op \in [Node -> {"none", "noblk", "timeout", "exact", "send"}]
  /\ nsent \in [Node -> 0 .. MaxSends]

(* Every packet the chip took in is in exactly one place and in order:     *)
(* still in the RX FIFO, in recvq, or read; nrf_get_pkts neither skips nor *)
(* repeats one whatever arrives between its SPI transfers, and the pipe's  *)
(* totals count what went through it.                                      *)
EveryPacketOnceInOrder ==
  /\ TypeOK
  /\ \A n \in Node :
    /\ \A i, j \in DOMAIN accepted[n] :
         i < j => accepted[n][i][2] < accepted[n][j][2]
    /\ why[n] # "not enough space" =>
         /\ chip[n].rx = SubSeq(accepted[n], tot_msgs[n] + 1, Len(accepted[n]))
         /\ got[n] \o recvq[n] = AllBytes(SubSeq(accepted[n], 1, tot_msgs[n]))
         /\ tot_recv_bytes[n] = Len(got[n]) + Len(recvq[n])

(* "we need to do this now in case a packet arrives b/n (1) and (2)": once *)
(* nrf_get_pkts is done, a packet waiting in the chip has its interrupt    *)
(* pending.                                                                *)
InterruptNotLost ==
  \A n \in Node :
    /\ why[n] = "none"
    /\ pc[n] \notin {"pipeid", "payload", "intr_clr", "more"}
    /\ chip[n].rx # <<>>
    => chip[n].rx_dr

(* The assertions of the driver about its own chip hold: a packet seen in  *)
(* the FIFO is still there when it is read, every send starts with an idle *)
(* transmitter, success leaves the TX FIFO empty, and no packet can arrive *)
(* while a send waits for its acknowledgement.                             *)
AssertionsHold ==
  \A n \in Node : why[n] \notin
    {"impossible: empty pipeid", "assert: idle transmitter",
     "assert: nrf_tx_fifo_empty", "rx fifo is full"}

(* nrf_tx_send_ack asserts that the RX FIFO is empty once it has drained   *)
(* it and left RX mode.                                                    *)
DrainedBeforeAckSend == \A n \in Node : why[n] # "assert: nrf_rx_fifo_empty"

(* A node that keeps calling the driver empties its chip and its queue.    *)
Drained(n) == chip[n].rx = <<>> /\ Len(recvq[n]) < ReadBytes
DrainedInTheEnd == \A n \in Node : <>[](pc[n] = "panic" \/ Drained(n))
=============================================================================
