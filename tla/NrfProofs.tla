----------------------------- MODULE NrfProofs -----------------------------
(***************************************************************************)
(* The radio driver, for every number of nodes, packet size, FIFO depth,   *)
(* queue size and number of retries, whatever the air loses: its           *)
(* invariant, the link it makes of two radios, and the loopback tests.     *)
(***************************************************************************)
EXTENDS NrfLink, NrfOneWay, Arithmetic, FiniteSetTheorems, SequenceTheorems, TLAPS

Byte == Packet \X (1 .. msg_nbytes)

Chip == [config : {"rx", "tx"}, ce : {0, 1}, rx : Seq(Packet), rx_dr : BOOLEAN,
         tx : Seq(Packet), tx_ds : BOOLEAN, max_rt : BOOLEAN, tries : 0 .. Retran]

Calls == {"none", "noblk", "timeout", "exact", "send"}

Types ==
  /\ acked_p \in BOOLEAN /\ chip \in [Node -> Chip]
  /\ recvq \in [Node -> Seq(Byte)] /\ got \in [Node -> Seq(Byte)]
  /\ tot_msgs \in [Node -> Nat] /\ tot_recv_bytes \in [Node -> Nat]
  /\ pc \in [Node -> PCs] /\ op \in [Node -> Calls]
  /\ ret \in [Node -> {-1, 0, ReadBytes, msg_nbytes}]
  /\ msg \in [Node -> Seq(Byte)]
  /\ why \in [Node -> Panics \cup {"none"}]
  /\ nsent \in [Node -> 0 .. MaxSends]
  /\ accepted \in [Node -> Seq(Packet)] /\ confirmed \in [Node -> Seq(Packet)]

Fetching == {"pipeid", "payload", "intr_clr", "more"}
OnAir == {"wait_empty", "wait_tx", "wait_rt", "wait_full"}
InTx == OnAir \cup {"check", "do_tx", "tx_intr_clr", "rx_mode"}

\* What a node's place in the driver says of the registers of its chip.
Control(n) ==
  /\ pc[n] # "panic" => why[n] = "none"
  /\ why[n] \notin {"impossible: empty pipeid", "assert: idle transmitter",
                    "assert: nrf_tx_fifo_empty", "rx fifo is full"}
  /\ pc[n] \in InTx => chip[n].config = "tx" /\ op[n] = "send"
  /\ pc[n] = "tx_mode" => op[n] = "send"
  /\ pc[n] \notin InTx \cup {"panic"} => Listening(n)
  /\ pc[n] \notin OnAir \cup {"tx_intr_clr", "panic"} =>
       chip[n].tx = <<>> /\ chip[n].tx_ds = FALSE
  /\ pc[n] = "tx_intr_clr" => chip[n].tx = <<>>
  /\ chip[n].tx_ds = TRUE => chip[n].tx = <<>>
  /\ chip[n].max_rt = TRUE => chip[n].tx # <<>> /\ acked_p = TRUE
  /\ chip[n].tx # <<>> => chip[n].tx = <<<<n, nsent[n]>>>>
  /\ pc[n] \in {"wait_tx", "wait_rt", "wait_full"} => acked_p = TRUE
  /\ pc[n] = "wait_empty" => acked_p = FALSE
  /\ acked_p = TRUE /\ pc[n] \in {"do_tx", "wait_tx", "wait_rt", "wait_full"} =>
       chip[n].rx = <<>>
  /\ pc[n] \in {"pipeid", "payload"} => chip[n].rx # <<>>
  /\ why[n] = "none" /\ pc[n] \notin Fetching /\ chip[n].rx # <<>> =>
       chip[n].rx_dr = TRUE
  /\ op[n] = "send" => n \in Sender /\ nsent[n] >= 1
-----------------------------------------------------------------------------
(* Constants, in the form the provers use.                                 *)
LEMMA Constants ==
  /\ Sender \subseteq Node /\ Peer \in [Node -> Node] /\ \A n \in Node : Peer[n] # n
  /\ msg_nbytes \in Nat /\ msg_nbytes >= 1 /\ ReadBytes \in Nat /\ ReadBytes >= 1
  /\ \A m, n \in Node : Peer[m] = Peer[n] => m = n
  /\ RxDepth \in Nat /\ RxDepth >= 1 /\ CQ_N \in Nat /\ CQ_N > msg_nbytes
  /\ Retran \in Nat /\ MaxSends \in Nat
<1>1. /\ Sender \subseteq Node /\ Peer \in [Node -> Node]
      /\ \A n \in Node : Peer[n] # n
      /\ \A m, n \in Node : Peer[m] = Peer[n] => m = n
  BY NodeAssumption
<1>2. /\ msg_nbytes \in 1 .. 32 /\ ReadBytes \in Nat \ {0}
      /\ RxDepth \in Nat \ {0} /\ CQ_N \in Nat /\ CQ_N > msg_nbytes
      /\ Retran \in 0 .. 15 /\ MaxSends \in Nat
  BY SizeAssumption
<1> QED BY <1>1, <1>2

(* A sequence less its head, and a sequence of one.                        *)
LEMMA SeqFacts ==
  ASSUME NEW S
  PROVE  /\ \A s \in Seq(S) : s # <<>> =>
              Tail(s) \in Seq(S) /\ Len(Tail(s)) = Len(s) - 1 /\ Head(s) \in S
                /\ Len(s) \in Nat /\ Len(s) > 0
         /\ \A e \in S : <<e>> \in Seq(S) /\ Len(<<e>>) = 1 /\ <<e>> # <<>>
                         /\ Head(<<e>>) = e
         /\ <<>> \in Seq(S)
OBVIOUS

\* A step of node n leaves the others as they are.
Alone(n) ==
  /\ acked_p' = acked_p /\ accepted' = accepted
  /\ \A m \in Node \ {n} :
       /\ chip'[m] = chip[m] /\ recvq'[m] = recvq[m] /\ tot_msgs'[m] = tot_msgs[m]
       /\ tot_recv_bytes'[m] = tot_recv_bytes[m] /\ pc'[m] = pc[m]
       /\ op'[m] = op[m] /\ ret'[m] = ret[m] /\ why'[m] = why[m]
       /\ nsent'[m] = nsent[m] /\ confirmed'[m] = confirmed[m] /\ got'[m] = got[m]

(* The processor of a node works on its own node.                          *)
LEMMA CpuAlone == ASSUME NEW n \in Node, Types, Cpu(n) PROVE Alone(n)
<1> USE DEF Types, Alone, drvvars, callvars, history, Goto, Return, Panic
<1>1. ASSUME GetPkts(n) PROVE Alone(n)
  <2>1. CASE GetPktsStart(n) \/ GetPktsPipe(n) \/ GetPktsMore(n)
    BY <2>1 DEF GetPktsStart, GetPktsPipe, GetPktsMore, GetPktsReturn
  <2>2. CASE GetPktsRead(n)
    <3>1. CASE CQ_N - 1 < Len(recvq[n]) + msg_nbytes
      BY <2>2, <3>1 DEF GetPktsRead
    <3>2. CASE ~(CQ_N - 1 < Len(recvq[n]) + msg_nbytes)
      BY <2>2, <3>2 DEF GetPktsRead
    <3> QED BY <3>1, <3>2
  <2>3. CASE GetPktsClear(n)
    BY <2>3 DEF GetPktsClear
  <2> QED BY <1>1, <2>1, <2>2, <2>3 DEF GetPkts
<1>2. ASSUME GetData(n) PROVE Alone(n)
  <2>1. CASE GetDataPop(n)
    BY <2>1 DEF GetDataPop
  <2>2. CASE GetDataShort(n) \/ TimedOut(n) \/ TimeLeft(n)
    BY <2>2 DEF GetDataShort, TimedOut, TimeLeft
  <2> QED BY <1>2, <2>1, <2>2 DEF GetData
<1>3. ASSUME Transmit(n) PROVE Alone(n)
  <2>1. CASE TxMode(n) \/ DoTx(n) \/ TxIntrClear(n)
    BY <2>1 DEF TxMode, DoTx, TxIntrClear
  <2>2. CASE TxCheck(n) \/ WaitEmpty(n) \/ WaitTx(n) \/ WaitRetran(n) \/ WaitRxFull(n)
    BY <2>2 DEF TxCheck, WaitEmpty, WaitTx, WaitRetran, WaitRxFull
  <2>3. CASE RxMode(n)
    BY <2>3 DEF RxMode
  <2> QED BY <1>3, <2>1, <2>2, <2>3 DEF Transmit
<1>4. ASSUME Client(n) PROVE Alone(n)
  <2>1. CASE ClientReturn(n)
    BY <2>1 DEF ClientReturn
  <2>2. CASE \E o : Call(n, o) /\ (nsent' = nsent \/ nsent' = [nsent EXCEPT ![n] = @ + 1])
    BY <2>2 DEF Call
  <2> QED BY <1>4, <2>1, <2>2 DEF Client, ReadCall, SendCall
<1> QED BY <1>1, <1>2, <1>3, <1>4 DEF Cpu, Step

(* The bytes of a packet.                                                  *)
LEMMA BytesFacts ==
  ASSUME NEW p \in Packet
  PROVE  Bytes(p) \in Seq(Byte) /\ Len(Bytes(p)) = msg_nbytes
BY Constants DEF Bytes, Byte

(* Sequences put together.                                                 *)
LEMMA ConcatFacts ==
  ASSUME NEW S, NEW s \in Seq(S), NEW t \in Seq(S)
  PROVE  s \o t \in Seq(S) /\ Len(s \o t) = Len(s) + Len(t)
         /\ Len(s) \in Nat /\ Len(t) \in Nat
OBVIOUS

(* A sequence cut in two.                                                  *)
LEMMA CutFacts ==
  ASSUME NEW S, NEW s \in Seq(S), NEW k \in Nat, k <= Len(s)
  PROVE  /\ Len(s) \in Nat
         /\ SubSeq(s, 1, k) \in Seq(S) /\ Len(SubSeq(s, 1, k)) = k
         /\ SubSeq(s, k + 1, Len(s)) \in Seq(S)
         /\ Len(SubSeq(s, k + 1, Len(s))) = Len(s) - k
         /\ s = SubSeq(s, 1, k) \o SubSeq(s, k + 1, Len(s))
<1>1. Len(s) \in Nat /\ \A j \in 1 .. Len(s) : s[j] \in S
  OBVIOUS
<1>2. SubSeq(s, 1, k) \in Seq(S) /\ Len(SubSeq(s, 1, k)) = k
  BY <1>1
<1>3. SubSeq(s, k + 1, Len(s)) \in Seq(S) /\ Len(SubSeq(s, k + 1, Len(s))) = Len(s) - k
  BY <1>1
<1>4. SubSeq(s, 1, k) \o SubSeq(s, k + 1, Len(s)) = SubSeq(s, 1, Len(s))
  <2>1. 1 \in 1 .. Len(s) + 1 /\ k \in 1 - 1 .. Len(s) /\ Len(s) \in k .. Len(s)
    BY <1>1
  <2> QED BY <2>1, ConcatAdjacentSubSeq
<1>5. SubSeq(s, 1, Len(s)) = s
  BY SubSeqFull
<1> QED BY <1>1, <1>2, <1>3, <1>4, <1>5

(* The registers the driver writes keep their types, and the others their  *)
(* values.                                                                 *)
LEMMA ChipEdits ==
  ASSUME NEW n \in Node, chip \in [Node -> Chip]
  PROVE  /\ \A f \in {"rx", "tx"} : \A v \in {0, 1} :
              LET c == [chip EXCEPT ![n].config = f, ![n].ce = v]
              IN /\ c \in [Node -> Chip] /\ c[n].config = f /\ c[n].ce = v
                 /\ c[n].rx = chip[n].rx /\ c[n].rx_dr = chip[n].rx_dr
                 /\ c[n].tx = chip[n].tx /\ c[n].tx_ds = chip[n].tx_ds
                 /\ c[n].max_rt = chip[n].max_rt
         /\ \A q \in Seq(Packet) :
              LET c == [chip EXCEPT ![n].rx = q]
              IN /\ c \in [Node -> Chip] /\ c[n].rx = q
                 /\ c[n].config = chip[n].config /\ c[n].ce = chip[n].ce
                 /\ c[n].tx = chip[n].tx /\ c[n].tx_ds = chip[n].tx_ds
                 /\ c[n].rx_dr = chip[n].rx_dr /\ c[n].max_rt = chip[n].max_rt
         /\ \A q \in Seq(Packet) :
              LET c == [chip EXCEPT ![n].tx = q, ![n].tries = 0]
              IN /\ c \in [Node -> Chip] /\ c[n].tx = q
                 /\ c[n].config = chip[n].config /\ c[n].ce = chip[n].ce
                 /\ c[n].rx = chip[n].rx /\ c[n].tx_ds = chip[n].tx_ds
                 /\ c[n].rx_dr = chip[n].rx_dr /\ c[n].max_rt = chip[n].max_rt
         /\ LET c == [chip EXCEPT ![n].tx_ds = FALSE]
            IN /\ c \in [Node -> Chip] /\ c[n].tx_ds = FALSE
               /\ c[n].config = chip[n].config /\ c[n].ce = chip[n].ce
               /\ c[n].rx = chip[n].rx /\ c[n].tx = chip[n].tx
               /\ c[n].rx_dr = chip[n].rx_dr /\ c[n].max_rt = chip[n].max_rt
         /\ LET c == [chip EXCEPT ![n].rx_dr = FALSE]
            IN /\ c \in [Node -> Chip] /\ c[n].rx_dr = FALSE
               /\ c[n].config = chip[n].config /\ c[n].ce = chip[n].ce
               /\ c[n].rx = chip[n].rx /\ c[n].tx = chip[n].tx
               /\ c[n].tx_ds = chip[n].tx_ds /\ c[n].max_rt = chip[n].max_rt
<1>1. 0 \in 0 .. Retran
  BY Constants
<1> QED BY <1>1 DEF Chip

(* Writing the RX FIFO leaves the other registers alone.                   *)
LEMMA RxEdit ==
  ASSUME NEW n \in Node, chip \in [Node -> Chip], NEW q \in Seq(Packet),
         chip' = [chip EXCEPT ![n].rx = q]
  PROVE  /\ chip' \in [Node -> Chip] /\ chip'[n].rx = q
         /\ chip'[n].config = chip[n].config /\ chip'[n].ce = chip[n].ce
         /\ chip'[n].tx = chip[n].tx /\ chip'[n].tx_ds = chip[n].tx_ds
         /\ chip'[n].rx_dr = chip[n].rx_dr /\ chip'[n].max_rt = chip[n].max_rt
BY DEF Chip

(* Writing the TX FIFO.                                                    *)
LEMMA TxEdit ==
  ASSUME NEW n \in Node, chip \in [Node -> Chip], NEW q \in Seq(Packet),
         chip' = [chip EXCEPT ![n].tx = q, ![n].tries = 0]
  PROVE  /\ chip' \in [Node -> Chip] /\ chip'[n].tx = q
         /\ chip'[n].config = chip[n].config /\ chip'[n].ce = chip[n].ce
         /\ chip'[n].rx = chip[n].rx /\ chip'[n].tx_ds = chip[n].tx_ds
         /\ chip'[n].rx_dr = chip[n].rx_dr /\ chip'[n].max_rt = chip[n].max_rt
<1>1. 0 \in 0 .. Retran
  BY Constants
<1> QED BY <1>1 DEF Chip

(* What a step of its processor does to the types of a node.               *)
LEMMA CpuTypes == ASSUME NEW n \in Node, Types, Control(n), Cpu(n) PROVE Types'
<1> USE DEF Types, drvvars, callvars, history, Goto, Return, Panic
<1>1. ASSUME GetPkts(n) PROVE Types'
  <2>1. CASE GetPktsStart(n) \/ GetPktsPipe(n) \/ GetPktsMore(n)
    BY <2>1 DEF GetPktsStart, GetPktsPipe, GetPktsMore, GetPktsReturn, PCs, Panics
  <2>2. CASE GetPktsRead(n)
    <3>1. /\ chip[n].rx \in Seq(Packet) /\ chip[n].rx # <<>>
      BY <2>2 DEF GetPktsRead, Control, Chip
    <3>2. Tail(chip[n].rx) \in Seq(Packet) /\ Head(chip[n].rx) \in Packet
      BY <3>1, SeqFacts
    <3>3. chip' = [chip EXCEPT ![n].rx = Tail(chip[n].rx)]
      BY <2>2 DEF GetPktsRead
    <3>4. chip' \in [Node -> Chip]
      BY <3>2, <3>3, ChipEdits
    <3>5. recvq[n] \o Bytes(Head(chip[n].rx)) \in Seq(Byte)
      BY <3>2, BytesFacts, ConcatFacts
    <3>6. CASE CQ_N - 1 < Len(recvq[n]) + msg_nbytes
      BY <2>2, <3>4, <3>6 DEF GetPktsRead, PCs, Panics
    <3>7. CASE ~(CQ_N - 1 < Len(recvq[n]) + msg_nbytes)
      <4>1. /\ recvq' = [recvq EXCEPT ![n] = recvq[n] \o Bytes(Head(chip[n].rx))]
            /\ tot_msgs' = [tot_msgs EXCEPT ![n] = @ + 1]
            /\ tot_recv_bytes' = [tot_recv_bytes EXCEPT ![n] = @ + msg_nbytes]
            /\ pc' = [pc EXCEPT ![n] = "intr_clr"]
            /\ UNCHANGED <<acked_p, why, op, ret, msg, nsent, accepted, confirmed, got>>
        BY <2>2, <3>7 DEF GetPktsRead
      <4>2. tot_msgs[n] + 1 \in Nat /\ tot_recv_bytes[n] + msg_nbytes \in Nat
        <5>1. tot_msgs[n] \in Nat /\ tot_recv_bytes[n] \in Nat /\ msg_nbytes \in Nat
          BY Constants
        <5> QED BY <5>1
      <4> QED BY <3>4, <3>5, <4>1, <4>2 DEF PCs
    <3> QED BY <3>6, <3>7
  <2>3. CASE GetPktsClear(n)
    BY <2>3, ChipEdits DEF GetPktsClear, PCs
  <2> QED BY <1>1, <2>1, <2>2, <2>3 DEF GetPkts
<1>2. ASSUME GetData(n) PROVE Types'
  <2>1. CASE GetDataPop(n)
    <3>1. /\ Len(recvq[n]) >= ReadBytes
          /\ msg' = [msg EXCEPT ![n] = SubSeq(recvq[n], 1, ReadBytes)]
          /\ recvq' = [recvq EXCEPT ![n] = SubSeq(@, ReadBytes + 1, Len(@))]
          /\ got' = [got EXCEPT ![n] = @ \o msg'[n]]
          /\ pc' = [pc EXCEPT ![n] = "ret"] /\ ret' = [ret EXCEPT ![n] = ReadBytes]
          /\ UNCHANGED <<acked_p, chip, tot_msgs, tot_recv_bytes, op, why, nsent,
                         accepted, confirmed>>
      BY <2>1 DEF GetDataPop
    <3>2. /\ SubSeq(recvq[n], 1, ReadBytes) \in Seq(Byte)
          /\ SubSeq(recvq[n], ReadBytes + 1, Len(recvq[n])) \in Seq(Byte)
      BY <3>1, CutFacts, Constants
    <3>3. got[n] \o SubSeq(recvq[n], 1, ReadBytes) \in Seq(Byte)
      BY <3>2, ConcatFacts
    <3> QED BY <3>1, <3>2, <3>3 DEF PCs
  <2>2. CASE GetDataShort(n) \/ TimedOut(n) \/ TimeLeft(n)
    BY <2>2 DEF GetDataShort, TimedOut, TimeLeft, PCs, Panics
  <2> QED BY <1>2, <2>1, <2>2 DEF GetData
<1>3. ASSUME Transmit(n) PROVE Types'
  <2>1. CASE TxMode(n)
    BY <2>1, ChipEdits DEF TxMode, PCs
  <2>2. CASE DoTx(n)
    <3>1. /\ chip' = [chip EXCEPT ![n].tx = <<<<n, nsent[n]>>>>, ![n].tries = 0]
          /\ pc' = [pc EXCEPT ![n] = IF acked_p THEN "wait_tx" ELSE "wait_empty"]
          /\ UNCHANGED <<drvvars, callvars, why, history>>
      BY <2>2 DEF DoTx
    <3>2. <<n, nsent[n]>> \in Packet
      BY <2>2 DEF DoTx, Control, InTx, Packet
    <3>3. <<<<n, nsent[n]>>>> \in Seq(Packet)
      BY <3>2
    <3>4. chip' \in [Node -> Chip]
      BY <3>1, <3>3, ChipEdits
    <3> QED BY <3>1, <3>4 DEF PCs
  <2>3. CASE TxIntrClear(n)
    BY <2>3, ChipEdits DEF TxIntrClear, PCs
  <2>4. CASE TxCheck(n) \/ WaitEmpty(n) \/ WaitTx(n) \/ WaitRetran(n) \/ WaitRxFull(n)
    BY <2>4 DEF TxCheck, WaitEmpty, WaitTx, WaitRetran, WaitRxFull, PCs, Panics
  <2>5. CASE RxMode(n)
    <3>1. /\ chip' = [chip EXCEPT ![n].config = "rx", ![n].ce = 1]
          /\ confirmed' = [confirmed EXCEPT ![n] = Append(@, <<n, nsent[n]>>)]
          /\ pc' = [pc EXCEPT ![n] = "ret"] /\ ret' = [ret EXCEPT ![n] = msg_nbytes]
          /\ UNCHANGED <<drvvars, op, msg, why, nsent, accepted, got>>
      BY <2>5 DEF RxMode
    <3>2. <<n, nsent[n]>> \in Packet
      BY <2>5 DEF RxMode, Control, InTx, Packet
    <3>3. Append(confirmed[n], <<n, nsent[n]>>) \in Seq(Packet)
      BY <3>2
    <3>4. chip' \in [Node -> Chip]
      BY <3>1, ChipEdits
    <3> QED BY <3>1, <3>3, <3>4 DEF PCs
  <2> QED BY <1>3, <2>1, <2>2, <2>3, <2>4, <2>5 DEF Transmit
<1>4. ASSUME Client(n) PROVE Types'
  <2>1. CASE ClientReturn(n)
    BY <2>1 DEF ClientReturn, Calls, PCs
  <2>2. CASE \E o \in Calls : Call(n, o) /\ (nsent' = nsent
                \/ (nsent[n] < MaxSends /\ nsent' = [nsent EXCEPT ![n] = @ + 1]))
    <3>1. PICK o \in Calls : Call(n, o)
      BY <2>2
    <3>2. nsent' \in [Node -> 0 .. MaxSends]
      <4>1. MaxSends \in Nat /\ nsent[n] \in 0 .. MaxSends
        BY Constants
      <4>2. nsent[n] < MaxSends => nsent[n] + 1 \in 0 .. MaxSends
        BY <4>1
      <4> QED BY <2>2, <4>2
    <3> QED BY <3>1, <3>2 DEF Call, PCs
  <2> QED BY <1>4, <2>1, <2>2 DEF Client, ReadCall, SendCall, Calls
<1> QED BY <1>1, <1>2, <1>3, <1>4 DEF Cpu, Step

(* Reading a packet changes the FIFO alone.                                *)
LEMMA ReadChip ==
  ASSUME NEW n \in Node, Types, Control(n), GetPktsRead(n)
  PROVE  /\ chip'[n].rx = Tail(chip[n].rx)
         /\ chip'[n].config = chip[n].config /\ chip'[n].ce = chip[n].ce
         /\ chip'[n].tx = chip[n].tx /\ chip'[n].tx_ds = chip[n].tx_ds
         /\ chip'[n].rx_dr = chip[n].rx_dr /\ chip'[n].max_rt = chip[n].max_rt
<1>1. chip \in [Node -> Chip]
  BY DEF Types
<1>2. chip[n].rx \in Seq(Packet) /\ chip[n].rx # <<>>
  BY <1>1 DEF GetPktsRead, Control, Chip
<1>3. Tail(chip[n].rx) \in Seq(Packet)
  BY <1>2, SeqFacts
<1>4. chip' = [chip EXCEPT ![n].rx = Tail(chip[n].rx)]
  BY DEF GetPktsRead
<1> QED BY <1>1, <1>3, <1>4, RxEdit

(* A step of its processor leaves a node's chip as its place says.         *)
LEMMA CpuControl ==
  ASSUME NEW n \in Node, Types, Control(n), Cpu(n) PROVE Control(n)'
<1> DEFINE T == /\ chip \in [Node -> Chip] /\ pc \in [Node -> PCs]
                /\ op \in [Node -> Calls] /\ ret \in [Node -> {-1, 0, ReadBytes, msg_nbytes}]
                /\ why \in [Node -> Panics \cup {"none"}]
                /\ nsent \in [Node -> 0 .. MaxSends] /\ acked_p \in BOOLEAN
<1>0. T
  BY DEF Types
<1> USE DEF drvvars, callvars, history, Goto, Return, Panic
<1>1. ASSUME GetPkts(n) PROVE Control(n)'
  <2>1. CASE GetPktsStart(n)
    BY <1>0, <2>1 DEF GetPktsStart, GetPktsReturn, Control, InTx, OnAir, Fetching, Listening
  <2>2. CASE GetPktsPipe(n)
    BY <1>0, <2>2 DEF GetPktsPipe, Control, InTx, OnAir, Fetching, Listening
  <2>3. CASE GetPktsMore(n)
    BY <1>0, <2>3 DEF GetPktsMore, GetPktsReturn, Control, InTx, OnAir, Fetching, Listening
  <2>4. CASE GetPktsRead(n)
    <3>1. /\ chip'[n].rx = Tail(chip[n].rx)
          /\ chip'[n].config = chip[n].config
          /\ chip'[n].ce = chip[n].ce
          /\ chip'[n].tx = chip[n].tx
          /\ chip'[n].rx_dr = chip[n].rx_dr
          /\ chip'[n].tx_ds = chip[n].tx_ds
          /\ chip'[n].max_rt = chip[n].max_rt
      BY <2>4, ReadChip
    <3> QED BY <1>0, <2>4, <3>1 DEF GetPktsRead, Control, InTx, OnAir, Fetching, Listening
  <2>5. CASE GetPktsClear(n)
    <3>1. /\ chip'[n].rx_dr = FALSE
          /\ chip'[n].config = chip[n].config
          /\ chip'[n].ce = chip[n].ce
          /\ chip'[n].rx = chip[n].rx
          /\ chip'[n].tx = chip[n].tx
          /\ chip'[n].tx_ds = chip[n].tx_ds
          /\ chip'[n].max_rt = chip[n].max_rt
      BY <1>0, <2>5, ChipEdits DEF GetPktsClear
    <3> QED BY <1>0, <2>5, <3>1 DEF GetPktsClear, Control, InTx, OnAir, Fetching, Listening
  <2> QED BY <1>1, <2>1, <2>2, <2>3, <2>4, <2>5 DEF GetPkts
<1>2. ASSUME GetData(n) PROVE Control(n)'
  <2>1. CASE GetDataPop(n)
    BY <1>0, <2>1 DEF GetDataPop, Control, InTx, OnAir, Fetching, Listening
  <2>2. CASE GetDataShort(n) \/ TimedOut(n) \/ TimeLeft(n)
    BY <1>0, <2>2 DEF GetDataShort, TimedOut, TimeLeft, Control, InTx, OnAir, Fetching, Listening
  <2> QED BY <1>2, <2>1, <2>2 DEF GetData
<1>3. ASSUME Transmit(n) PROVE Control(n)'
  <2>1. CASE TxMode(n)
    <3>1. /\ chip'[n].config = "tx"
          /\ chip'[n].rx = chip[n].rx
          /\ chip'[n].tx = chip[n].tx
          /\ chip'[n].rx_dr = chip[n].rx_dr
          /\ chip'[n].tx_ds = chip[n].tx_ds
          /\ chip'[n].max_rt = chip[n].max_rt
      BY <1>0, <2>1, ChipEdits DEF TxMode
    <3> QED BY <1>0, <2>1, <3>1 DEF TxMode, Control, InTx, OnAir, Fetching, Listening
  <2>2. CASE DoTx(n)
    <3>0. <<<<n, nsent[n]>>>> \in Seq(Packet) /\ <<<<n, nsent[n]>>>> # <<>>
      <4>1. <<n, nsent[n]>> \in Packet
        BY <1>0, <2>2 DEF DoTx, Control, InTx, Packet
      <4> QED BY <4>1, SeqFacts
    <3>1. /\ chip'[n].tx = <<<<n, nsent[n]>>>>
          /\ <<<<n, nsent[n]>>>> # <<>>
          /\ chip'[n].config = chip[n].config
          /\ chip'[n].ce = chip[n].ce
          /\ chip'[n].rx = chip[n].rx
          /\ chip'[n].rx_dr = chip[n].rx_dr
          /\ chip'[n].tx_ds = chip[n].tx_ds
          /\ chip'[n].max_rt = chip[n].max_rt
      <4>1. PICK q \in Seq(Packet) : q = <<<<n, nsent[n]>>>>
        BY <3>0
      <4>2. chip' = [chip EXCEPT ![n].tx = q, ![n].tries = 0]
        BY <2>2, <4>1 DEF DoTx
      <4>3. chip \in [Node -> Chip]
        BY <1>0
      <4> HIDE DEF T
      <4>4. /\ chip'[n].rx = chip[n].rx /\ chip'[n].tx = q
            /\ chip'[n].config = chip[n].config /\ chip'[n].ce = chip[n].ce
            /\ chip'[n].tx_ds = chip[n].tx_ds
            /\ chip'[n].rx_dr = chip[n].rx_dr /\ chip'[n].max_rt = chip[n].max_rt
        BY <4>2, <4>3, TxEdit
      <4> QED BY <3>0, <4>1, <4>4
    <3> QED BY <1>0, <2>2, <3>1 DEF DoTx, Control, InTx, OnAir, Fetching, Listening
  <2>3. CASE TxIntrClear(n)
    <3>1. /\ chip'[n].tx_ds = FALSE
          /\ chip'[n].config = chip[n].config
          /\ chip'[n].ce = chip[n].ce
          /\ chip'[n].rx = chip[n].rx
          /\ chip'[n].tx = chip[n].tx
          /\ chip'[n].rx_dr = chip[n].rx_dr
          /\ chip'[n].max_rt = chip[n].max_rt
      BY <1>0, <2>3, ChipEdits DEF TxIntrClear
    <3> QED BY <1>0, <2>3, <3>1 DEF TxIntrClear, Control, InTx, OnAir, Fetching, Listening
  <2>4. CASE TxCheck(n)
    BY <1>0, <2>4 DEF TxCheck, Control, InTx, OnAir, Fetching, Listening
  <2>5. CASE WaitEmpty(n) \/ WaitTx(n) \/ WaitRetran(n)
    BY <1>0, <2>5 DEF WaitEmpty, WaitTx, WaitRetran, Control, InTx, OnAir, Fetching, Listening
  <2>6. CASE WaitRxFull(n)
    <3>1. pc[n] = "wait_full" /\ chip[n].rx = <<>>
      BY <2>6 DEF WaitRxFull, Control
    <3>2. Len(chip[n].rx) # RxDepth
      BY <3>1, Constants
    <3>3. pc' = [pc EXCEPT ![n] = "wait_tx"]
          /\ UNCHANGED <<chip, acked_p, op, why, nsent>>
      BY <2>6, <3>2 DEF WaitRxFull
    <3> QED BY <1>0, <3>1, <3>3 DEF Control, InTx, OnAir, Fetching, Listening
  <2>7. CASE RxMode(n)
    <3>1. /\ chip'[n].config = "rx" /\ chip'[n].ce = 1
          /\ chip'[n].rx = chip[n].rx
          /\ chip'[n].tx = chip[n].tx
          /\ chip'[n].rx_dr = chip[n].rx_dr
          /\ chip'[n].tx_ds = chip[n].tx_ds
          /\ chip'[n].max_rt = chip[n].max_rt
      BY <1>0, <2>7, ChipEdits DEF RxMode
    <3> QED BY <1>0, <2>7, <3>1 DEF RxMode, Control, InTx, OnAir, Fetching, Listening
  <2> QED BY <1>3, <2>1, <2>2, <2>3, <2>4, <2>5, <2>6, <2>7 DEF Transmit
<1>4. ASSUME Client(n) PROVE Control(n)'
  <2>1. CASE ClientReturn(n)
    BY <1>0, <2>1 DEF ClientReturn, Control, InTx, OnAir, Fetching, Listening
  <2>2. CASE \E o \in {"noblk", "timeout", "exact"} : ReadCall(n, o)
    BY <1>0, <2>2 DEF ReadCall, Call, Control, InTx, OnAir, Fetching, Listening
  <2>3. CASE n \in Sender /\ SendCall(n)
    BY <1>0, <2>3, Constants DEF SendCall, Call, Control, InTx, OnAir, Fetching, Listening
  <2> QED BY <1>4, <2>1, <2>2, <2>3 DEF Client
<1> QED BY <1>1, <1>2, <1>3, <1>4 DEF Cpu, Step
-----------------------------------------------------------------------------
\* What a transmission does to the chip that sends.
Transmitted(s) ==
  /\ chip'[s].config = chip[s].config /\ chip'[s].ce = chip[s].ce
  /\ chip'[s].rx = chip[s].rx /\ chip'[s].rx_dr = chip[s].rx_dr
  /\ \/ /\ chip'[s].tx = <<>> /\ chip'[s].tx_ds = TRUE
        /\ chip'[s].max_rt = chip[s].max_rt
     \/ /\ acked_p = TRUE
        /\ chip'[s].tx = chip[s].tx /\ chip'[s].tx_ds = chip[s].tx_ds

\* The chip of d takes the packet in.
Stored(d, p) ==
  /\ CanHear(d, p) /\ ~IsRepeat(d, p)
  /\ chip'[d].rx = Append(chip[d].rx, p) /\ chip'[d].rx_dr = TRUE
  /\ chip'[d].config = chip[d].config /\ chip'[d].ce = chip[d].ce
  /\ chip'[d].tx = chip[d].tx /\ chip'[d].tx_ds = chip[d].tx_ds
  /\ chip'[d].max_rt = chip[d].max_rt
  /\ accepted' = [accepted EXCEPT ![d] = Append(@, p)]

Missed(d) == chip'[d] = chip[d] /\ accepted' = accepted

\* A transmission changes two chips and what was taken in, no more; with
\* acknowledgements it succeeds only when the packet got there.
OnTheAir(s, d, p) ==
  /\ chip[s].tx # <<>> /\ chip[s].max_rt = FALSE /\ p \in Packet
  /\ chip' \in [Node -> Chip] /\ Transmitted(s)
  /\ Stored(d, p) \/ Missed(d)
  /\ acked_p = TRUE /\ chip'[s].tx = <<>> => Stored(d, p) \/ IsRepeat(d, p)
  /\ \A m \in Node \ {s, d} : chip'[m] = chip[m]
  /\ UNCHANGED <<acked_p, recvq, tot_msgs, tot_recv_bytes, pc, op, ret, msg, why,
                 nsent, confirmed, got>>

(* One transmission.                                                       *)
LEMMA AirFacts ==
  ASSUME NEW s \in Node, Types, Air(s)
  PROVE  OnTheAir(s, Peer[s], Head(chip[s].tx))
<1> DEFINE d == Peer[s]
           p == Head(chip[s].tx)
<1>1. d \in Node /\ d # s /\ s # d
  BY Constants
<1>2. /\ chip \in [Node -> Chip] /\ accepted \in [Node -> Seq(Packet)]
      /\ acked_p \in BOOLEAN
  BY DEF Types
<1>3. /\ chip[s].tx # <<>> /\ ~chip[s].max_rt
      /\ UNCHANGED <<drvvars, pc, callvars, why, nsent, confirmed, got>>
      /\ \/ /\ chip' = [chip EXCEPT ![s] = IF acked_p THEN NotAcked(s) ELSE Sent(s)]
            /\ accepted' = accepted
         \/ /\ CanHear(d, p)
            /\ \E acked \in BOOLEAN :
                 chip' = [chip EXCEPT
                            ![s] = IF acked \/ ~acked_p THEN Sent(s) ELSE NotAcked(s),
                            ![d] = Heard(d, p)]
            /\ accepted' = IF IsRepeat(d, p) THEN accepted
                           ELSE [accepted EXCEPT ![d] = Append(@, p)]
  BY DEF Air
<1>4. chip[s] \in Chip /\ chip[d] \in Chip /\ chip[s].tx \in Seq(Packet) /\ p \in Packet
  <2>1. chip[s] \in Chip /\ chip[d] \in Chip
    BY <1>1, <1>2
  <2>2. chip[s].tx \in Seq(Packet)
    BY <2>1 DEF Chip
  <2> QED BY <1>3, <2>1, <2>2, SeqFacts
<1>5. chip[s].max_rt = FALSE
  BY <1>3, <1>4 DEF Chip
<1> HIDE DEF d, p
<1>6. /\ Sent(s) \in Chip /\ Sent(s).tx = <<>> /\ Sent(s).tx_ds = TRUE
      /\ Sent(s).config = chip[s].config /\ Sent(s).ce = chip[s].ce
      /\ Sent(s).rx = chip[s].rx /\ Sent(s).rx_dr = chip[s].rx_dr
      /\ Sent(s).max_rt = chip[s].max_rt
  <2>1. <<>> \in Seq(Packet)
    BY SeqFacts
  <2>2. Sent(s) = [chip[s] EXCEPT !.tx = <<>>, !.tx_ds = TRUE]
    BY DEF Sent
  <2> QED BY <1>4, <2>1, <2>2 DEF Chip
<1>7. /\ NotAcked(s) \in Chip
      /\ NotAcked(s).tx = chip[s].tx /\ NotAcked(s).tx_ds = chip[s].tx_ds
      /\ NotAcked(s).config = chip[s].config /\ NotAcked(s).ce = chip[s].ce
      /\ NotAcked(s).rx = chip[s].rx /\ NotAcked(s).rx_dr = chip[s].rx_dr
  <2>1. CASE chip[s].tries < Retran
    <3>1. chip[s].tries + 1 \in 0 .. Retran
      BY <1>4, <2>1, Constants DEF Chip
    <3> QED BY <1>4, <2>1, <3>1 DEF NotAcked, Chip
  <2>2. CASE ~(chip[s].tries < Retran)
    BY <1>4, <2>2 DEF NotAcked, Chip
  <2> QED BY <2>1, <2>2
<1>8. /\ Heard(d, p) \in Chip
      /\ IsRepeat(d, p) => Heard(d, p) = chip[d]
      /\ ~IsRepeat(d, p) =>
           /\ Heard(d, p).rx = Append(chip[d].rx, p) /\ Heard(d, p).rx_dr = TRUE
           /\ Heard(d, p).config = chip[d].config /\ Heard(d, p).ce = chip[d].ce
           /\ Heard(d, p).tx = chip[d].tx /\ Heard(d, p).tx_ds = chip[d].tx_ds
           /\ Heard(d, p).max_rt = chip[d].max_rt
  <2>1. chip[d].rx \in Seq(Packet)
    BY <1>4 DEF Chip
  <2>2. Append(chip[d].rx, p) \in Seq(Packet)
    BY <1>4, <2>1
  <2> QED BY <1>4, <2>2 DEF Heard, Chip
<1>9. CASE chip' = [chip EXCEPT ![s] = IF acked_p THEN NotAcked(s) ELSE Sent(s)]
           /\ accepted' = accepted
  <2>1. /\ chip'[s] = IF acked_p THEN NotAcked(s) ELSE Sent(s)
        /\ chip'[d] = chip[d] /\ chip' \in [Node -> Chip]
        /\ \A m \in Node \ {s, d} : chip'[m] = chip[m]
    BY <1>1, <1>2, <1>6, <1>7, <1>9
  <2>2. Missed(d)
    BY <2>1, <1>9 DEF Missed
  <2>3. Transmitted(s) /\ (acked_p = TRUE => chip'[s].tx # <<>>)
    BY <2>1, <1>2, <1>3, <1>6, <1>7 DEF Transmitted
  <2> QED BY <1>3, <1>4, <1>5, <2>1, <2>2, <2>3
          DEF OnTheAir, drvvars, callvars, d, p
<1>10. ASSUME CanHear(d, p), NEW acked \in BOOLEAN,
              chip' = [chip EXCEPT
                         ![s] = IF acked \/ ~acked_p THEN Sent(s) ELSE NotAcked(s),
                         ![d] = Heard(d, p)],
              accepted' = IF IsRepeat(d, p) THEN accepted
                          ELSE [accepted EXCEPT ![d] = Append(@, p)]
       PROVE  OnTheAir(s, d, p)
  <2>1. /\ chip'[s] = IF acked \/ ~acked_p THEN Sent(s) ELSE NotAcked(s)
        /\ chip'[d] = Heard(d, p) /\ chip' \in [Node -> Chip]
        /\ \A m \in Node \ {s, d} : chip'[m] = chip[m]
    BY <1>1, <1>2, <1>6, <1>7, <1>8, <1>10
  <2>2. IsRepeat(d, p) => Missed(d)
    BY <2>1, <1>8, <1>10 DEF Missed
  <2>3. ~IsRepeat(d, p) => Stored(d, p)
    BY <2>1, <1>8, <1>10 DEF Stored
  <2>4. Transmitted(s)
    BY <2>1, <1>2, <1>3, <1>6, <1>7 DEF Transmitted
  <2> QED BY <1>3, <1>4, <1>5, <2>1, <2>2, <2>3, <2>4
          DEF OnTheAir, drvvars, callvars, p
<1> QED BY <1>3, <1>9, <1>10 DEF d, p

(* A transmission leaves both chips as their nodes' places say.            *)
LEMMA AirControl ==
  ASSUME NEW s \in Node, Types, \A m \in Node : Control(m), Air(s)
  PROVE  \A m \in Node : Control(m)'
<1> DEFINE d == Peer[s]
           p == Head(chip[s].tx)
<1>1. d \in Node /\ d # s
  BY Constants
<1>2. OnTheAir(s, d, p)
  BY AirFacts
<1> HIDE DEF d, p
<1>3. /\ chip[s].tx # <<>> /\ chip[s].max_rt = FALSE
      /\ Transmitted(s) /\ (Stored(d, p) \/ Missed(d))
      /\ \A m \in Node \ {s, d} : chip'[m] = chip[m]
      /\ acked_p' = acked_p /\ pc' = pc /\ op' = op /\ why' = why /\ nsent' = nsent
  BY <1>2 DEF OnTheAir
<1>4. Control(s)'
  BY <1>3 DEF Control, Transmitted, InTx, OnAir, Fetching, Listening
<1>5. Control(d)'
  <2>1. CASE Missed(d)
    BY <1>1, <1>3, <2>1 DEF Control, Missed, Listening
  <2>2. CASE Stored(d, p)
    <3>1. chip'[d].rx # <<>>
      <4>1. chip[d].rx \in Seq(Packet) /\ p \in Packet
        BY <1>1, <1>2 DEF OnTheAir, Types, Chip
      <4> QED BY <4>1, <2>2, AppendProperties DEF Stored
    <3>2. Control(d) /\ Listening(d) /\ Listening(d)'
      BY <1>1, <2>2 DEF Stored, CanHear, Listening
    <3>3. pc[d] \notin InTx
      BY <3>2 DEF Control, Listening
    <3>4. /\ chip'[d].rx_dr = TRUE /\ chip'[d].tx = chip[d].tx
          /\ chip'[d].tx_ds = chip[d].tx_ds /\ chip'[d].max_rt = chip[d].max_rt
      BY <2>2 DEF Stored
    <3>5. /\ pc'[d] = pc[d] /\ op'[d] = op[d] /\ why'[d] = why[d]
          /\ nsent'[d] = nsent[d] /\ acked_p' = acked_p
      BY <1>3
    <3> QED BY <3>1, <3>2, <3>3, <3>4, <3>5 DEF Control, InTx, OnAir, Fetching
  <2> QED BY <1>3, <2>1, <2>2
<1>6. ASSUME NEW m \in Node \ {s, d} PROVE Control(m)'
  <2>1. Control(m) /\ chip'[m] = chip[m]
    BY <1>3
  <2> QED BY <2>1, <1>3 DEF Control, Listening
<1> QED BY <1>4, <1>5, <1>6

(* And keeps the types.                                                    *)
LEMMA AirTypes == ASSUME NEW s \in Node, Types, Air(s) PROVE Types'
<1> DEFINE d == Peer[s]
           p == Head(chip[s].tx)
<1>1. d \in Node
  BY Constants
<1>2. OnTheAir(s, d, p)
  BY AirFacts
<1> HIDE DEF d, p
<1>3. accepted' \in [Node -> Seq(Packet)]
  <2>1. p \in Packet /\ accepted \in [Node -> Seq(Packet)] /\ (Stored(d, p) \/ Missed(d))
    BY <1>2 DEF OnTheAir, Types
  <2>2. Append(accepted[d], p) \in Seq(Packet)
    BY <1>1, <2>1
  <2> QED BY <2>1, <2>2 DEF Stored, Missed
<1> QED BY <1>2, <1>3 DEF OnTheAir, Types

(* A processor leaves the other nodes' chips alone.                        *)
LEMMA CpuControls ==
  ASSUME NEW n \in Node, Types, \A m \in Node : Control(m), Cpu(n)
  PROVE  \A m \in Node : Control(m)'
<1>1. Control(n)'
  BY CpuControl
<1>2. ASSUME NEW m \in Node \ {n} PROVE Control(m)'
  <2>1. /\ chip'[m] = chip[m] /\ pc'[m] = pc[m] /\ op'[m] = op[m]
        /\ why'[m] = why[m] /\ nsent'[m] = nsent[m] /\ acked_p' = acked_p
    BY CpuAlone DEF Alone
  <2>2. Control(m)
    OBVIOUS
  <2> QED BY <2>1, <2>2 DEF Control, Listening
<1> QED BY <1>1, <1>2
-----------------------------------------------------------------------------
\* f holds, at x, the first x of the sequences in ss put together.
Flattens(f, ss, n) ==
  f = [x \in 1 .. n |-> IF x = 1 THEN ss[x] ELSE f[x - 1] \o ss[x]]

(* There is such a function.                                               *)
LEMMA FlattenExists ==
  ASSUME NEW ss, NEW n \in Nat
  PROVE  \E f : Flattens(f, ss, n)
<1> DEFINE G == {k \in Nat : \E f : Flattens(f, ss, k)}
<1>1. 0 \in G
  <2>1. Flattens(<<>>, ss, 0)
    BY DEF Flattens
  <2> QED BY <2>1
<1>2. ASSUME NEW k \in Nat, k \in G PROVE k + 1 \in G
  <2>1. PICK f : Flattens(f, ss, k)
    BY <1>2
  <2> DEFINE v == IF k + 1 = 1 THEN ss[k + 1] ELSE f[k] \o ss[k + 1]
             g == [x \in 1 .. k + 1 |-> IF x = k + 1 THEN v ELSE f[x]]
  <2>2. ASSUME NEW x \in 1 .. k + 1
        PROVE  g[x] = IF x = 1 THEN ss[x] ELSE g[x - 1] \o ss[x]
    <3>1. CASE x = k + 1
      <4>1. x # 1 => x - 1 \in 1 .. k + 1 /\ x - 1 # k + 1 /\ x - 1 = k
        BY <3>1
      <4> QED BY <3>1, <4>1
    <3>2. CASE x # k + 1
      <4>1. x \in 1 .. k /\ (x # 1 => x - 1 \in 1 .. k + 1 /\ x - 1 # k + 1)
        BY <3>2
      <4>2. f[x] = IF x = 1 THEN ss[x] ELSE f[x - 1] \o ss[x]
        BY <2>1, <4>1 DEF Flattens
      <4> QED BY <3>2, <4>1, <4>2
    <3> QED BY <3>1, <3>2
  <2>3. g = [x \in 1 .. k + 1 |-> g[x]]
    OBVIOUS
  <2> HIDE DEF g
  <2>4. Flattens(g, ss, k + 1)
    BY <2>2, <2>3 DEF Flattens
  <2> QED BY <2>4
<1>3. Nat \subseteq G
  <2> HIDE DEF G
  <2> QED BY <1>1, <1>2, SetInduction
<1> QED BY <1>3

(* And one only, which looks at no more than the first n sequences.        *)
LEMMA FlattenAgrees ==
  ASSUME NEW ss, NEW n \in Nat, NEW f, Flattens(f, ss, n),
         NEW tt, NEW m \in Nat, NEW g, Flattens(g, tt, m), n <= m,
         \A x \in 1 .. n : ss[x] = tt[x]
  PROVE  \A x \in 1 .. n : f[x] = g[x]
<1> DEFINE Same == {k \in Nat : k + 1 \in 1 .. n => f[k + 1] = g[k + 1]}
<1>1. \A x \in 1 .. n : f[x] = IF x = 1 THEN ss[x] ELSE f[x - 1] \o ss[x]
  BY DEF Flattens
<1>2. \A x \in 1 .. n : g[x] = IF x = 1 THEN ss[x] ELSE g[x - 1] \o ss[x]
  <2>1. \A x \in 1 .. m : g[x] = IF x = 1 THEN tt[x] ELSE g[x - 1] \o tt[x]
    BY DEF Flattens
  <2>2. 1 .. n \subseteq 1 .. m
    OBVIOUS
  <2> QED BY <2>1, <2>2
<1>3. 0 \in Same
  BY <1>1, <1>2
<1>4. ASSUME NEW k \in Nat, k \in Same PROVE k + 1 \in Same
  <2> SUFFICES ASSUME (k + 1) + 1 \in 1 .. n
               PROVE  f[(k + 1) + 1] = g[(k + 1) + 1]
    OBVIOUS
  <2> DEFINE j == (k + 1) + 1
  <2>1. k + 1 \in 1 .. n /\ j # 1 /\ j - 1 = k + 1
    OBVIOUS
  <2>2. f[k + 1] = g[k + 1]
    BY <1>4, <2>1
  <2>3. f[j] = f[k + 1] \o ss[j]
    BY <1>1, <2>1
  <2>4. g[j] = g[k + 1] \o ss[j]
    BY <1>2, <2>1
  <2> QED BY <2>2, <2>3, <2>4
<1>5. Nat \subseteq Same
  <2> HIDE DEF Same
  <2> QED BY <1>3, <1>4, SetInduction
<1> SUFFICES ASSUME NEW x \in 1 .. n PROVE f[x] = g[x]
  OBVIOUS
<1>6. x - 1 \in Nat /\ (x - 1) + 1 = x
  OBVIOUS
<1> QED BY <1>5, <1>6

(* FlattenSeq is its last value.                                           *)
LEMMA FlattenIs ==
  ASSUME NEW S, NEW ss \in Seq(S), NEW f, Flattens(f, ss, Len(ss))
  PROVE  FlattenSeq(ss) = IF ss = <<>> THEN <<>> ELSE f[Len(ss)]
<1>0. Len(ss) \in Nat
  OBVIOUS
<1>1. CASE ss = <<>>
  <2>1. Len(ss) = 0
    BY <1>1
  <2> QED BY <1>1, <2>1 DEF FlattenSeq
<1>2. CASE ss # <<>>
  <2> DEFINE R(fl) == [x \in 1 .. Len(ss) |-> IF x = 1 THEN ss[x] ELSE fl[x - 1] \o ss[x]]
             fl == CHOOSE fl : fl = R(fl)
  <2>1. Len(ss) # 0 /\ Len(ss) \in 1 .. Len(ss)
    BY <1>2
  <2>2. FlattenSeq(ss) = fl[Len(ss)]
    BY <2>1, Zenon DEF FlattenSeq
  <2>3. f = R(f)
    BY DEF Flattens
  <2>4. fl = R(fl)
    BY <2>3
  <2> HIDE DEF fl
  <2>5. Flattens(fl, ss, Len(ss))
    BY <2>4 DEF Flattens
  <2>6. \A x \in 1 .. Len(ss) : fl[x] = f[x]
    BY <1>0, <2>5, FlattenAgrees
  <2> QED BY <1>2, <2>1, <2>2, <2>6
<1> QED BY <1>1, <1>2

(* One more sequence goes to the end.                                      *)
LEMMA FlattenAppend ==
  ASSUME NEW S, NEW ss \in Seq(Seq(S)), NEW e \in Seq(S)
  PROVE  FlattenSeq(Append(ss, e)) = IF ss = <<>> THEN e ELSE FlattenSeq(ss) \o e
<1> DEFINE n == Len(ss)
           tt == Append(ss, e)
<1>0. n \in Nat /\ n + 1 \in Nat /\ n <= n + 1 /\ n + 1 \in 1 .. n + 1
  OBVIOUS
<1>1. /\ n \in Nat /\ tt \in Seq(Seq(S)) /\ tt # <<>> /\ Len(tt) = n + 1
      /\ tt[n + 1] = e /\ \A x \in 1 .. n : tt[x] = ss[x]
  BY AppendProperties
<1> HIDE DEF tt, n
<1>2. PICK f : Flattens(f, ss, n)
  BY <1>1, FlattenExists
<1>3. PICK g : Flattens(g, tt, n + 1)
  BY <1>0, FlattenExists
<1>4. \A x \in 1 .. n : f[x] = g[x]
  <2>1. \A x \in 1 .. n : ss[x] = tt[x]
    BY <1>1
  <2> QED BY <1>0, <1>2, <1>3, <2>1, FlattenAgrees
<1>5. FlattenSeq(tt) = g[n + 1]
  BY <1>1, <1>3, FlattenIs
<1>6. FlattenSeq(ss) = IF ss = <<>> THEN <<>> ELSE f[n]
  BY <1>2, FlattenIs DEF n
<1>7. g[n + 1] = IF n + 1 = 1 THEN tt[n + 1] ELSE g[n + 1 - 1] \o tt[n + 1]
  <2>1. \A x \in 1 .. n + 1 : g[x] = IF x = 1 THEN tt[x] ELSE g[x - 1] \o tt[x]
    BY <1>3 DEF Flattens
  <2> QED BY <2>1, <1>0
<1>8. CASE ss = <<>>
  <2>1. n + 1 = 1
    BY <1>8 DEF n
  <2> QED BY <1>1, <1>5, <1>7, <1>8, <2>1 DEF tt, n
<1>9. CASE ss # <<>>
  <2>1. n + 1 # 1 /\ n + 1 - 1 = n /\ n \in 1 .. n
    BY <1>9 DEF n
  <2> QED BY <1>1, <1>4, <1>5, <1>6, <1>7, <1>9, <2>1 DEF tt, n
<1> QED BY <1>8, <1>9

(* The bytes of no packet, and of one more packet.                         *)
LEMMA AllBytesFacts ==
  /\ AllBytes(<<>>) = <<>>
  /\ \A ps \in Seq(Packet) : \A p \in Packet :
       AllBytes(ps) \in Seq(Byte) =>
         /\ AllBytes(Append(ps, p)) = AllBytes(ps) \o Bytes(p)
         /\ AllBytes(Append(ps, p)) \in Seq(Byte)
<1>1. AllBytes(<<>>) = <<>>
  <2>1. [x \in DOMAIN <<>> |-> Bytes(<<>>[x])] = <<>>
    OBVIOUS
  <2>2. FlattenSeq(<<>>) = <<>>
    BY DEF FlattenSeq
  <2> QED BY <2>1, <2>2 DEF AllBytes
<1>2. ASSUME NEW ps \in Seq(Packet), NEW p \in Packet, AllBytes(ps) \in Seq(Byte)
      PROVE  /\ AllBytes(Append(ps, p)) = AllBytes(ps) \o Bytes(p)
             /\ AllBytes(Append(ps, p)) \in Seq(Byte)
  <2> DEFINE F(qs) == [x \in DOMAIN qs |-> Bytes(qs[x])]
             qs == Append(ps, p)
  <2>1. /\ Len(ps) \in Nat /\ qs \in Seq(Packet) /\ Len(qs) = Len(ps) + 1
        /\ qs[Len(ps) + 1] = p /\ \A x \in 1 .. Len(ps) : qs[x] = ps[x]
        /\ DOMAIN ps = 1 .. Len(ps) /\ DOMAIN qs = 1 .. Len(qs)
    BY AppendProperties
  <2> HIDE DEF qs
  <2>2. F(ps) \in Seq(Seq(Byte)) /\ Len(F(ps)) = Len(ps) /\ Bytes(p) \in Seq(Byte)
    <3>1. \A x \in 1 .. Len(ps) : Bytes(ps[x]) \in Seq(Byte)
      BY BytesFacts
    <3> QED BY <2>1, <3>1, BytesFacts
  <2>3. F(qs) = Append(F(ps), Bytes(p))
    <3>1. /\ Append(F(ps), Bytes(p)) \in Seq(Seq(Byte))
          /\ Len(Append(F(ps), Bytes(p))) = Len(ps) + 1
          /\ \A x \in 1 .. Len(ps) : Append(F(ps), Bytes(p))[x] = F(ps)[x]
          /\ Append(F(ps), Bytes(p))[Len(ps) + 1] = Bytes(p)
      <4> HIDE DEF F
      <4> QED BY <2>2, AppendProperties
    <3>2. F(qs) \in Seq(Seq(Byte)) /\ Len(F(qs)) = Len(ps) + 1
      <4>1. \A x \in 1 .. Len(qs) : Bytes(qs[x]) \in Seq(Byte)
        BY <2>1, BytesFacts
      <4> QED BY <2>1, <4>1
    <3>3. ASSUME NEW x \in 1 .. Len(ps) + 1
          PROVE  F(qs)[x] = Append(F(ps), Bytes(p))[x]
      <4>1. F(qs)[x] = Bytes(qs[x])
        BY <2>1
      <4>2. CASE x = Len(ps) + 1
        <5>1. qs[x] = p /\ Append(F(ps), Bytes(p))[x] = Bytes(p)
          BY <4>2, <2>1, <3>1
        <5> QED BY <4>1, <5>1
      <4>3. CASE x # Len(ps) + 1
        <5>1. x \in 1 .. Len(ps)
          BY <2>1, <4>3
        <5>2. F(ps)[x] = Bytes(ps[x]) /\ qs[x] = ps[x]
          BY <2>1, <5>1
        <5> QED BY <3>1, <4>1, <5>1, <5>2
      <4> QED BY <4>2, <4>3
    <3> HIDE DEF F
    <3> QED BY <3>1, <3>2, <3>3, SeqEqual
  <2>4. F(ps) = <<>> => FlattenSeq(F(ps)) = <<>>
    BY DEF FlattenSeq
  <2>5. FlattenSeq(F(qs)) = FlattenSeq(F(ps)) \o Bytes(p)
    <3> HIDE DEF F
    <3>1. FlattenSeq(F(qs)) = IF F(ps) = <<>> THEN Bytes(p) ELSE FlattenSeq(F(ps)) \o Bytes(p)
      BY <2>2, <2>3, FlattenAppend
    <3>2. <<>> \o Bytes(p) = Bytes(p)
      BY <2>2, ConcatEmptySeq
    <3> QED BY <2>4, <3>1, <3>2
  <2>6. AllBytes(ps) = FlattenSeq(F(ps)) /\ AllBytes(qs) = FlattenSeq(F(qs))
    BY DEF AllBytes
  <2> HIDE DEF F
  <2>7. AllBytes(ps) \o Bytes(p) \in Seq(Byte)
    BY <1>2, <2>2, ConcatFacts
  <2> QED BY <2>5, <2>6, <2>7 DEF qs
<1> QED BY <1>1, <1>2
-----------------------------------------------------------------------------
(* A cut moves one place to the right.                                     *)
LEMMA CutNext ==
  ASSUME NEW S, NEW s \in Seq(S), NEW k \in Nat,
         SubSeq(s, k + 1, Len(s)) # <<>>, k <= Len(s)
  PROVE  /\ k + 1 <= Len(s) /\ s[k + 1] \in S
         /\ Head(SubSeq(s, k + 1, Len(s))) = s[k + 1]
         /\ Tail(SubSeq(s, k + 1, Len(s))) = SubSeq(s, k + 1 + 1, Len(s))
         /\ SubSeq(s, 1, k + 1) = Append(SubSeq(s, 1, k), s[k + 1])
<1>1. Len(s) \in Nat
  OBVIOUS
<1>2. k + 1 <= Len(s)
  <2>1. ~(k + 1 <= Len(s)) => Len(s) < k + 1 /\ k + 1 \in Int /\ Len(s) \in Int
    BY <1>1
  <2> QED BY <2>1, SubSeqEmpty
<1>3. k + 1 \in 1 .. Len(s) /\ Len(s) \in k + 1 .. Len(s) /\ s[k + 1] \in S
  BY <1>1, <1>2
<1>4. /\ Head(SubSeq(s, k + 1, Len(s))) = s[k + 1]
      /\ Tail(SubSeq(s, k + 1, Len(s))) = SubSeq(s, k + 1 + 1, Len(s))
  BY <1>3, HeadTailOfSubSeq
<1>5. SubSeq(s, 1, k + 1) = Append(SubSeq(s, 1, k), s[k + 1])
  <2>1. 1 \in 1 .. Len(s) /\ k + 1 \in 1 .. Len(s) /\ (k + 1) - 1 = k
    BY <1>1, <1>3
  <2>2. SubSeq(s, 1, k + 1) = SubSeq(s, 1, (k + 1) - 1) \o <<s[k + 1]>>
    BY <2>1, SubSeqRecursiveSecond
  <2>3. SubSeq(s, 1, k) \in Seq(S)
    <3>1. k <= Len(s)
      OBVIOUS
    <3> QED BY <3>1, CutFacts
  <2>4. Append(SubSeq(s, 1, k), s[k + 1]) = SubSeq(s, 1, k) \o <<s[k + 1]>>
    BY <1>3, <2>3, AppendIsConcat
  <2> QED BY <2>1, <2>2, <2>4
<1> QED BY <1>2, <1>3, <1>4, <1>5

(* An element at the end is behind the cut.                                *)
LEMMA CutAppend ==
  ASSUME NEW S, NEW s \in Seq(S), NEW e \in S, NEW k \in Nat, k <= Len(s)
  PROVE  /\ SubSeq(Append(s, e), k + 1, Len(Append(s, e)))
              = Append(SubSeq(s, k + 1, Len(s)), e)
         /\ SubSeq(Append(s, e), 1, k) = SubSeq(s, 1, k)
         /\ Len(Append(s, e)) = Len(s) + 1 /\ k <= Len(s) + 1
<1> DEFINE t == Append(s, e)
           n == Len(s)
<1>1. /\ n \in Nat /\ t \in Seq(S) /\ Len(t) = n + 1 /\ t[n + 1] = e
      /\ \A x \in 1 .. n : t[x] = s[x]
  BY AppendProperties
<1>2. n \in Nat /\ k <= n + 1 /\ k <= n
  BY <1>1
<1> HIDE DEF t
<1>3. /\ SubSeq(s, 1, k) \in Seq(S) /\ Len(SubSeq(s, 1, k)) = k
      /\ \A x \in 1 .. k : SubSeq(s, 1, k)[x] = s[x]
  BY <1>2
<1>4. /\ SubSeq(t, 1, k) \in Seq(S) /\ Len(SubSeq(t, 1, k)) = k
      /\ \A x \in 1 .. k : SubSeq(t, 1, k)[x] = t[x]
  <2>1. k <= Len(t)
    BY <1>1, <1>2
  <2> QED BY <2>1, <1>1
<1>5. SubSeq(t, 1, k) = SubSeq(s, 1, k)
  <2>1. \A x \in 1 .. k : SubSeq(t, 1, k)[x] = SubSeq(s, 1, k)[x]
    <3>1. 1 .. k \subseteq 1 .. n
      BY <1>2
    <3> QED BY <3>1, <1>1, <1>3, <1>4
  <2> QED BY <1>3, <1>4, <2>1, SeqEqual
<1>6. /\ SubSeq(s, k + 1, n) \in Seq(S) /\ Len(SubSeq(s, k + 1, n)) = n - k
      /\ \A x \in 1 .. n - k : SubSeq(s, k + 1, n)[x] = s[k + x]
  BY <1>2
<1>7. /\ SubSeq(t, k + 1, n + 1) \in Seq(S)
      /\ Len(SubSeq(t, k + 1, n + 1)) = (n - k) + 1
      /\ \A x \in 1 .. (n - k) + 1 : SubSeq(t, k + 1, n + 1)[x] = t[k + x]
  BY <1>1, <1>2
<1>8. n - k \in Nat
  BY <1>2
<1> DEFINE a == SubSeq(s, k + 1, n)
           b == SubSeq(t, k + 1, n + 1)
<1>9. /\ Append(a, e) \in Seq(S) /\ Len(Append(a, e)) = (n - k) + 1
      /\ \A x \in 1 .. n - k : Append(a, e)[x] = a[x]
      /\ Append(a, e)[(n - k) + 1] = e
  <2> HIDE DEF a
  <2>1. a \in Seq(S) /\ Len(a) = n - k
    BY <1>6 DEF a
  <2> QED BY <2>1, AppendProperties
<1>10. b = Append(a, e)
  <2>1. ASSUME NEW x \in 1 .. (n - k) + 1 PROVE b[x] = Append(a, e)[x]
    <3>1. CASE x = (n - k) + 1
      <4>1. k + x = n + 1
        BY <3>1, <1>2
      <4> QED BY <3>1, <4>1, <1>1, <1>7, <1>9
    <3>2. CASE x # (n - k) + 1
      <4>1. x \in 1 .. n - k /\ k + x \in 1 .. n
        BY <3>2, <1>2, <1>8
      <4> QED BY <4>1, <1>1, <1>6, <1>7, <1>9
    <3> QED BY <3>1, <3>2
  <2> HIDE DEF a, b
  <2> QED BY <2>1, <1>7, <1>9, SeqEqual DEF b
<1> QED BY <1>1, <1>2, <1>5, <1>10 DEF t
-----------------------------------------------------------------------------
\* What the chip took in is, in order, read, in recvq, or in its FIFO.
Queue(n) ==
  /\ Len(chip[n].rx) <= RxDepth /\ Len(recvq[n]) < CQ_N
  /\ tot_msgs[n] <= Len(accepted[n])
  /\ why[n] # "not enough space" =>
       /\ chip[n].rx = SubSeq(accepted[n], tot_msgs[n] + 1, Len(accepted[n]))
       /\ got[n] \o recvq[n] = AllBytes(SubSeq(accepted[n], 1, tot_msgs[n]))
       /\ tot_recv_bytes[n] = Len(got[n]) + Len(recvq[n])

(* All steps but two leave the queues alone.                               *)
LEMMA QueueAlone ==
  ASSUME NEW n \in Node, Types, Control(n), Cpu(n),
         ~GetPktsRead(n), ~GetDataPop(n)
  PROVE  /\ chip'[n].rx = chip[n].rx /\ recvq' = recvq /\ tot_msgs' = tot_msgs
         /\ tot_recv_bytes' = tot_recv_bytes /\ got' = got /\ accepted' = accepted
         /\ why[n] = "none"
<1> USE DEF drvvars, callvars, history, Goto, Return, Panic
<1>0. chip \in [Node -> Chip]
  BY DEF Types
<1>1. ASSUME GetPkts(n)
      PROVE  /\ chip'[n].rx = chip[n].rx /\ recvq' = recvq /\ tot_msgs' = tot_msgs
             /\ tot_recv_bytes' = tot_recv_bytes /\ got' = got /\ accepted' = accepted
             /\ pc[n] # "panic"
  BY <1>0, <1>1 DEF GetPkts, GetPktsStart, GetPktsPipe, GetPktsMore, GetPktsClear, Chip
<1>2. ASSUME GetData(n)
      PROVE  /\ chip'[n].rx = chip[n].rx /\ recvq' = recvq /\ tot_msgs' = tot_msgs
             /\ tot_recv_bytes' = tot_recv_bytes /\ got' = got /\ accepted' = accepted
             /\ pc[n] # "panic"
  BY <1>2 DEF GetData, GetDataShort, TimedOut, TimeLeft
<1>3. ASSUME Transmit(n)
      PROVE  /\ recvq' = recvq /\ tot_msgs' = tot_msgs
             /\ tot_recv_bytes' = tot_recv_bytes /\ got' = got /\ accepted' = accepted
             /\ pc[n] # "panic"
  BY <1>3 DEF Transmit, TxMode, DoTx, TxIntrClear, TxCheck, WaitEmpty, WaitTx,
              WaitRetran, WaitRxFull, RxMode
<1>4. ASSUME Transmit(n) PROVE chip'[n].rx = chip[n].rx
  <2>1. CASE TxMode(n) \/ TxIntrClear(n) \/ RxMode(n)
    BY <1>0, <2>1 DEF TxMode, TxIntrClear, RxMode, Chip
  <2>2. CASE DoTx(n)
    BY <1>0, <2>2 DEF DoTx, Chip
  <2>3. CASE TxCheck(n) \/ WaitEmpty(n) \/ WaitTx(n) \/ WaitRetran(n) \/ WaitRxFull(n)
    BY <2>3 DEF TxCheck, WaitEmpty, WaitTx, WaitRetran, WaitRxFull
  <2> QED BY <1>4, <2>1, <2>2, <2>3 DEF Transmit
<1>5. ASSUME Client(n)
      PROVE  /\ chip'[n].rx = chip[n].rx /\ recvq' = recvq /\ tot_msgs' = tot_msgs
             /\ tot_recv_bytes' = tot_recv_bytes /\ got' = got /\ accepted' = accepted
             /\ pc[n] # "panic"
  BY <1>5 DEF Client, ClientReturn, ReadCall, SendCall, Call
<1>6. pc[n] # "panic" => why[n] = "none"
  BY DEF Control
<1> QED BY <1>1, <1>2, <1>3, <1>4, <1>5, <1>6 DEF Cpu, Step

(* A packet read from the chip goes to the end of recvq.                   *)
LEMMA ReadQueue ==
  ASSUME NEW n \in Node, Types, Control(n), Queue(n), GetPktsRead(n)
  PROVE  Queue(n)'
<1> DEFINE a == accepted[n]
           t == tot_msgs[n]
           p == Head(chip[n].rx)
<1>1. /\ chip \in [Node -> Chip] /\ a \in Seq(Packet) /\ t \in Nat
      /\ recvq \in [Node -> Seq(Byte)] /\ got[n] \in Seq(Byte)
      /\ tot_msgs \in [Node -> Nat] /\ tot_recv_bytes \in [Node -> Nat]
      /\ why \in [Node -> Panics \cup {"none"}]
  BY DEF Types
<1>2. /\ Len(chip[n].rx) <= RxDepth /\ Len(recvq[n]) < CQ_N /\ t <= Len(a)
      /\ chip[n].rx = SubSeq(a, t + 1, Len(a))
      /\ got[n] \o recvq[n] = AllBytes(SubSeq(a, 1, t))
      /\ tot_recv_bytes[n] = Len(got[n]) + Len(recvq[n])
  BY DEF Queue, Control, GetPktsRead
<1>3. /\ chip[n].rx \in Seq(Packet) /\ chip[n].rx # <<>>
      /\ Tail(chip[n].rx) \in Seq(Packet) /\ p \in Packet
      /\ Len(Tail(chip[n].rx)) = Len(chip[n].rx) - 1
      /\ Len(chip[n].rx) \in Nat
  <2>1. chip[n].rx \in Seq(Packet) /\ chip[n].rx # <<>>
    BY <1>1 DEF GetPktsRead, Control, Chip
  <2> QED BY <2>1, SeqFacts
<1>4. /\ t + 1 <= Len(a) /\ p = a[t + 1]
      /\ Tail(chip[n].rx) = SubSeq(a, t + 1 + 1, Len(a))
      /\ SubSeq(a, 1, t + 1) = Append(SubSeq(a, 1, t), p)
  <2>1. a \in Seq(Packet) /\ t \in Nat /\ t <= Len(a) /\ SubSeq(a, t + 1, Len(a)) # <<>>
    BY <1>1, <1>2, <1>3
  <2>2. chip[n].rx = SubSeq(a, t + 1, Len(a))
    BY <1>2
  <2> HIDE DEF a, t
  <2>3. /\ t + 1 <= Len(a) /\ Head(SubSeq(a, t + 1, Len(a))) = a[t + 1]
        /\ Tail(SubSeq(a, t + 1, Len(a))) = SubSeq(a, t + 1 + 1, Len(a))
        /\ SubSeq(a, 1, t + 1) = Append(SubSeq(a, 1, t), a[t + 1])
    BY <2>1, CutNext
  <2> QED BY <2>2, <2>3
<1>5. SubSeq(a, 1, t) \in Seq(Packet)
  BY <1>1, <1>2, CutFacts
<1>6. /\ Bytes(p) \in Seq(Byte) /\ Len(Bytes(p)) = msg_nbytes
      /\ recvq[n] \in Seq(Byte) /\ got[n] \in Seq(Byte)
      /\ Len(recvq[n]) \in Nat /\ Len(got[n]) \in Nat
  BY <1>1, <1>3, BytesFacts
<1> HIDE DEF a, t, p
<1>7. AllBytes(SubSeq(a, 1, t + 1)) = got[n] \o (recvq[n] \o Bytes(p))
  <2>1. AllBytes(SubSeq(a, 1, t)) \in Seq(Byte)
    BY <1>2, <1>6, ConcatFacts
  <2>2. AllBytes(SubSeq(a, 1, t + 1)) = (got[n] \o recvq[n]) \o Bytes(p)
    BY <1>2, <1>3, <1>4, <1>5, <2>1, AllBytesFacts
  <2>3. (got[n] \o recvq[n]) \o Bytes(p) = got[n] \o (recvq[n] \o Bytes(p))
    <3>1. Bytes(p) \in Seq(Byte) /\ recvq[n] \in Seq(Byte) /\ got[n] \in Seq(Byte)
      BY <1>6
    <3>2. \A g, q, b \in Seq(Byte) : (g \o q) \o b = g \o (q \o b)
      BY ConcatAssociative
    <3> QED BY <3>1, <3>2
  <2> QED BY <2>2, <2>3
<1>8. Len(recvq[n] \o Bytes(p)) = Len(recvq[n]) + msg_nbytes
  BY <1>6, ConcatFacts
<1>9. /\ chip'[n].rx = Tail(chip[n].rx)
      /\ UNCHANGED history
  <2>1. UNCHANGED history
    BY DEF GetPktsRead
  <2> QED BY <2>1, ReadChip
<1>10. Len(chip'[n].rx) <= RxDepth
  BY <1>2, <1>3, <1>9, Constants
<1>11. CASE CQ_N - 1 < Len(recvq[n]) + msg_nbytes
  <2>1. why'[n] = "not enough space" /\ UNCHANGED drvvars
    BY <1>1, <1>11 DEF GetPktsRead, Panic
  <2> QED BY <1>2, <1>9, <1>10, <2>1 DEF Queue, drvvars, history, a, t
<1>12. CASE ~(CQ_N - 1 < Len(recvq[n]) + msg_nbytes)
  <2>1. /\ recvq'[n] = recvq[n] \o Bytes(p) /\ tot_msgs'[n] = t + 1
        /\ tot_recv_bytes'[n] = tot_recv_bytes[n] + msg_nbytes
    BY <1>1, <1>12 DEF GetPktsRead, p, t
  <2>2. Len(recvq'[n]) < CQ_N
    BY <1>6, <1>8, <1>12, <2>1, Constants
  <2>3. tot_recv_bytes'[n] = Len(got[n]) + Len(recvq'[n])
    <3>1. Len(recvq'[n]) = Len(recvq[n]) + msg_nbytes /\ msg_nbytes \in Nat
      BY <1>8, <2>1, Constants
    <3>2. /\ Len(recvq[n]) \in Nat /\ Len(got[n]) \in Nat
          /\ tot_recv_bytes[n] = Len(got[n]) + Len(recvq[n])
          /\ tot_recv_bytes'[n] = tot_recv_bytes[n] + msg_nbytes
      <4>1. Len(recvq[n]) \in Nat /\ Len(got[n]) \in Nat
        BY <1>6
      <4>2. tot_recv_bytes[n] = Len(got[n]) + Len(recvq[n])
        BY <1>2
      <4>3. tot_recv_bytes'[n] = tot_recv_bytes[n] + msg_nbytes
        BY <2>1
      <4> QED BY <4>1, <4>2, <4>3
    <3>3. PICK x, y, z \in Nat : x = Len(got[n]) /\ y = Len(recvq[n]) /\ z = msg_nbytes
      BY <3>1, <3>2
    <3>4. tot_recv_bytes'[n] = (x + y) + z /\ Len(recvq'[n]) = y + z
      BY <3>1, <3>2, <3>3
    <3>5. (x + y) + z = x + (y + z)
      OBVIOUS
    <3> QED BY <3>3, <3>4, <3>5
  <2>4. got'[n] = got[n] /\ accepted'[n] = a
    BY <1>9 DEF history, a
  <2> QED BY <1>4, <1>7, <1>9, <1>10, <2>1, <2>2, <2>3, <2>4 DEF Queue
<1> QED BY <1>11, <1>12

(* What the client reads is the front of recvq.                            *)
LEMMA PopQueue ==
  ASSUME NEW n \in Node, Types, Control(n), Queue(n), GetDataPop(n)
  PROVE  Queue(n)'
<1>1. /\ recvq \in [Node -> Seq(Byte)] /\ got \in [Node -> Seq(Byte)]
      /\ msg \in [Node -> Seq(Byte)]
  BY DEF Types
<1>2. PICK q, g, k : q = recvq[n] /\ g = got[n] /\ k = ReadBytes
  OBVIOUS
<1>3. q \in Seq(Byte) /\ g \in Seq(Byte) /\ k \in Nat /\ k <= Len(q)
  BY <1>1, <1>2, Constants DEF GetDataPop
<1>4. PICK f, b : f = SubSeq(q, 1, k) /\ b = SubSeq(q, k + 1, Len(q))
  OBVIOUS
<1>5. /\ f \in Seq(Byte) /\ b \in Seq(Byte) /\ Len(f) = k /\ Len(b) = Len(q) - k
      /\ q = f \o b /\ Len(q) \in Nat
  BY <1>3, <1>4, CutFacts
<1>6. /\ recvq'[n] = b /\ got'[n] = g \o f
      /\ UNCHANGED <<chip, tot_msgs, tot_recv_bytes, why, accepted>>
  BY <1>1, <1>2, <1>4 DEF GetDataPop
<1>7. (g \o f) \o b = g \o q
  <2>1. f \in Seq(Byte) /\ b \in Seq(Byte) /\ g \in Seq(Byte)
    BY <1>3, <1>5
  <2>2. (g \o f) \o b = g \o (f \o b)
    BY <2>1, ConcatAssociative
  <2> QED BY <2>2, <1>5
<1>8. Len(g \o f) = Len(g) + k /\ Len(g) \in Nat
  <2>1. f \in Seq(Byte) /\ g \in Seq(Byte)
    BY <1>3, <1>5
  <2>2. Len(g \o f) = Len(g) + Len(f) /\ Len(g) \in Nat
    BY <2>1, ConcatFacts
  <2> QED BY <2>2, <1>5
<1>9. Len(g \o f) + Len(b) = Len(g) + Len(q) /\ Len(b) <= Len(q)
  <2>1. k \in Nat /\ Len(q) \in Nat /\ Len(g) \in Nat
        /\ Len(b) = Len(q) - k /\ Len(g \o f) = Len(g) + k
    BY <1>3, <1>5, <1>8
  <2> QED BY <2>1
<1>10. Len(b) < CQ_N
  <2>1. Len(q) < CQ_N
    BY <1>2 DEF Queue
  <2>2. Len(b) \in Int /\ Len(q) \in Int /\ CQ_N \in Int
    BY <1>3, <1>5, Constants
  <2> QED BY <1>9, <2>1, <2>2
<1> QED BY <1>2, <1>6, <1>7, <1>9, <1>10 DEF Queue

(* A processor's step keeps every node's queue.                            *)
LEMMA CpuQueues ==
  ASSUME NEW n \in Node, Types, \A m \in Node : Control(m) /\ Queue(m), Cpu(n)
  PROVE  \A m \in Node : Queue(m)'
<1>1. ASSUME NEW m \in Node \ {n} PROVE Queue(m)'
  <2>1. /\ chip'[m] = chip[m] /\ recvq'[m] = recvq[m] /\ tot_msgs'[m] = tot_msgs[m]
        /\ tot_recv_bytes'[m] = tot_recv_bytes[m] /\ why'[m] = why[m]
        /\ got'[m] = got[m] /\ accepted' = accepted
    BY CpuAlone DEF Alone
  <2>2. Queue(m)
    OBVIOUS
  <2> QED BY <2>1, <2>2 DEF Queue
<1>2. Queue(n)'
  <2>1. CASE ~GetPktsRead(n) /\ ~GetDataPop(n)
    <3>1. /\ chip'[n].rx = chip[n].rx /\ recvq' = recvq /\ tot_msgs' = tot_msgs
          /\ tot_recv_bytes' = tot_recv_bytes /\ got' = got /\ accepted' = accepted
          /\ why[n] = "none"
      BY <2>1, QueueAlone
    <3>2. Queue(n)
      OBVIOUS
    <3> QED BY <3>1, <3>2 DEF Queue
  <2> QED BY <2>1, ReadQueue, PopQueue
<1> QED BY <1>1, <1>2

(* A packet that arrives goes to the end of the chip's FIFO.               *)
LEMMA AirQueues ==
  ASSUME NEW s \in Node, Types, \A m \in Node : Control(m) /\ Queue(m), Air(s)
  PROVE  \A m \in Node : Queue(m)'
<1> DEFINE d == Peer[s]
           p == Head(chip[s].tx)
<1>1. d \in Node /\ d # s
  BY Constants
<1>2. OnTheAir(s, d, p)
  BY AirFacts
<1> HIDE DEF d, p
<1>3. /\ recvq' = recvq /\ tot_msgs' = tot_msgs /\ why' = why
      /\ tot_recv_bytes' = tot_recv_bytes /\ got' = got /\ p \in Packet
      /\ Stored(d, p) \/ Missed(d)
      /\ chip'[s].rx = chip[s].rx
      /\ \A m \in Node \ {s, d} : chip'[m] = chip[m]
  BY <1>2 DEF OnTheAir, Transmitted
<1>4. \A m \in Node \ {d} : accepted'[m] = accepted[m] /\ chip'[m].rx = chip[m].rx
  <2>1. accepted \in [Node -> Seq(Packet)]
    BY DEF Types
  <2> QED BY <1>3, <2>1 DEF Stored, Missed
<1>5. ASSUME NEW m \in Node \ {d} PROVE Queue(m)'
  <2>1. Queue(m)
    OBVIOUS
  <2> QED BY <2>1, <1>3, <1>4 DEF Queue
<1>6. Queue(d)
  BY <1>1
<1>7. CASE Missed(d)
  BY <1>3, <1>5, <1>6, <1>7 DEF Queue, Missed
<1>8. CASE Stored(d, p)
  <2>1. /\ accepted \in [Node -> Seq(Packet)] /\ accepted[d] \in Seq(Packet)
        /\ chip[d].rx \in Seq(Packet) /\ tot_msgs[d] \in Nat
    BY <1>1 DEF Types, Chip
  <2>2. /\ chip'[d].rx = Append(chip[d].rx, p) /\ Len(chip[d].rx) < RxDepth
        /\ accepted'[d] = Append(accepted[d], p)
    BY <1>1, <1>8, <2>1 DEF Stored, CanHear
  <2>3. Len(chip'[d].rx) <= RxDepth
    <3>1. Len(chip'[d].rx) = Len(chip[d].rx) + 1 /\ Len(chip[d].rx) \in Nat
      BY <1>3, <2>1, <2>2, AppendProperties
    <3> QED BY <3>1, <2>2, Constants
  <2>4. tot_msgs[d] <= Len(accepted[d])
    BY <1>6 DEF Queue
  <2>5. /\ SubSeq(accepted'[d], tot_msgs[d] + 1, Len(accepted'[d]))
             = Append(SubSeq(accepted[d], tot_msgs[d] + 1, Len(accepted[d])), p)
        /\ SubSeq(accepted'[d], 1, tot_msgs[d]) = SubSeq(accepted[d], 1, tot_msgs[d])
        /\ Len(accepted'[d]) = Len(accepted[d]) + 1
        /\ tot_msgs[d] <= Len(accepted[d]) + 1
    <3>1. p \in Packet /\ accepted[d] \in Seq(Packet) /\ tot_msgs[d] \in Nat
      BY <1>3, <2>1
    <3>2. /\ SubSeq(Append(accepted[d], p), tot_msgs[d] + 1, Len(Append(accepted[d], p)))
               = Append(SubSeq(accepted[d], tot_msgs[d] + 1, Len(accepted[d])), p)
          /\ SubSeq(Append(accepted[d], p), 1, tot_msgs[d]) = SubSeq(accepted[d], 1, tot_msgs[d])
          /\ Len(Append(accepted[d], p)) = Len(accepted[d]) + 1
          /\ tot_msgs[d] <= Len(accepted[d]) + 1
      BY <3>1, <2>4, CutAppend
    <3> QED BY <3>2, <2>2
  <2>6. Queue(d)'
    BY <1>3, <1>6, <2>2, <2>3, <2>5 DEF Queue
  <2> QED BY <1>5, <2>6
<1> QED BY <1>3, <1>7, <1>8
-----------------------------------------------------------------------------
Ordered(ps) == \A x, y \in 1 .. Len(ps) : x < y => ps[x][2] < ps[y][2]

\* The packets in ps are the node's own, up to its last, or before its last.
Own(n, ps) == \A x \in 1 .. Len(ps) : ps[x][1] = n
UpTo(n, ps) == \A x \in 1 .. Len(ps) : ps[x][2] <= nsent[n]
Before(n, ps) == \A x \in 1 .. Len(ps) : ps[x][2] < nsent[n]
Arrived(n) == \E x \in 1 .. Len(accepted[Peer[n]]) : accepted[Peer[n]][x][2] = nsent[n]

Fresh == Fetching \cup {"has_packet", "tx_mode", "check", "do_tx"}

\* What a node's place in a send says of the packets its peer took in and of
\* those it reported sent.
Numbers(n) ==
  /\ Own(n, accepted[Peer[n]]) /\ Ordered(accepted[Peer[n]])
  /\ UpTo(n, accepted[Peer[n]])
  /\ Own(n, confirmed[n]) /\ UpTo(n, confirmed[n])
  /\ op[n] = "send" /\ pc[n] \in Fresh => Before(n, accepted[Peer[n]])
  /\ chip[n].tx # <<>> /\ acked_p = FALSE => Before(n, accepted[Peer[n]])
  /\ acked_p = TRUE /\ (chip[n].tx_ds = TRUE \/ pc[n] \in {"tx_intr_clr", "rx_mode"}) =>
       Arrived(n)
  /\ op[n] = "send" /\ pc[n] \notin {"ret", "panic"} => Before(n, confirmed[n])
  /\ pc[n] = "idle" => op[n] = "none"
  /\ pc[n] \in {"avail", "timeout"} => op[n] # "send"

(* A step that sends nothing new and confirms nothing.                     *)
LEMMA NumbersKept ==
  ASSUME NEW n \in Node, Numbers(n), nsent'[n] = nsent[n],
         accepted'[Peer[n]] = accepted[Peer[n]], confirmed'[n] = confirmed[n],
         acked_p' = acked_p,
         op'[n] = "send" /\ pc'[n] \in Fresh =>
           op[n] = "send" /\ pc[n] \in Fresh,
         chip'[n].tx # <<>> =>
           chip[n].tx # <<>> \/ (op[n] = "send" /\ pc[n] \in Fresh),
         chip'[n].tx_ds = TRUE \/ (acked_p = TRUE /\ pc'[n] \in {"tx_intr_clr", "rx_mode"}) =>
           chip[n].tx_ds = TRUE \/ pc[n] \in {"tx_intr_clr", "rx_mode"},
         op'[n] = "send" /\ pc'[n] \notin {"ret", "panic"} =>
           op[n] = "send" /\ pc[n] \notin {"ret", "panic"},
         pc'[n] = "idle" => op'[n] = "none",
         pc'[n] \in {"avail", "timeout"} => op'[n] # "send"
  PROVE  Numbers(n)'
<1>1. /\ Own(n, accepted[Peer[n]])' = Own(n, accepted[Peer[n]])
      /\ Ordered(accepted[Peer[n]])' = Ordered(accepted[Peer[n]])
      /\ UpTo(n, accepted[Peer[n]])' = UpTo(n, accepted[Peer[n]])
      /\ Before(n, accepted[Peer[n]])' = Before(n, accepted[Peer[n]])
  BY DEF Own, Ordered, UpTo, Before
<1>2. /\ Own(n, confirmed[n])' = Own(n, confirmed[n])
      /\ UpTo(n, confirmed[n])' = UpTo(n, confirmed[n])
      /\ Before(n, confirmed[n])' = Before(n, confirmed[n])
  BY DEF Own, UpTo, Before
<1>3. Arrived(n)' = Arrived(n)
  BY DEF Arrived
<1> QED BY <1>1, <1>2, <1>3 DEF Numbers

(* The steps of a node's processor keep the numbers.                       *)
LEMMA CpuNumbers ==
  ASSUME NEW n \in Node, Types, Control(n), Numbers(n), Cpu(n)
  PROVE  Numbers(n)'
<1> USE DEF drvvars, callvars, history, Goto, Return, Panic
<1>0. /\ chip \in [Node -> Chip] /\ pc \in [Node -> PCs] /\ op \in [Node -> Calls]
      /\ nsent \in [Node -> 0 .. MaxSends] /\ acked_p \in BOOLEAN
      /\ confirmed \in [Node -> Seq(Packet)] /\ accepted \in [Node -> Seq(Packet)]
  BY DEF Types
<1> DEFINE Kept ==
         /\ nsent'[n] = nsent[n] /\ accepted' = accepted /\ confirmed'[n] = confirmed[n]
         /\ acked_p' = acked_p
         /\ op'[n] = "send" /\ pc'[n] \in Fresh => op[n] = "send" /\ pc[n] \in Fresh
         /\ chip'[n].tx # <<>> =>
              chip[n].tx # <<>> \/ (op[n] = "send" /\ pc[n] \in Fresh)
         /\ chip'[n].tx_ds = TRUE \/ (acked_p = TRUE /\ pc'[n] \in {"tx_intr_clr", "rx_mode"}) =>
              chip[n].tx_ds = TRUE \/ pc[n] \in {"tx_intr_clr", "rx_mode"}
         /\ op'[n] = "send" /\ pc'[n] \notin {"ret", "panic"} =>
              op[n] = "send" /\ pc[n] \notin {"ret", "panic"}
         /\ pc'[n] = "idle" => op'[n] = "none"
         /\ pc'[n] \in {"avail", "timeout"} => op'[n] # "send"
<1>k. ASSUME Kept PROVE Numbers(n)'
  BY <1>k, NumbersKept
<1>1. ASSUME GetPkts(n) PROVE Kept
  <2>0. pc[n] \in Fresh
    BY <1>1 DEF GetPkts, GetPktsStart, GetPktsPipe, GetPktsRead, GetPktsClear,
                GetPktsMore, Fresh, Fetching
  <2>1. CASE GetPktsStart(n)
    BY <1>0, <2>0, <2>1 DEF GetPktsStart, GetPktsReturn, Fresh, Fetching
  <2>2. CASE GetPktsPipe(n)
    BY <1>0, <2>0, <2>2 DEF GetPktsPipe, Fresh, Fetching
  <2>3. CASE GetPktsMore(n)
    BY <1>0, <2>0, <2>3 DEF GetPktsMore, GetPktsReturn, Fresh, Fetching
  <2>4. CASE GetPktsRead(n)
    <3>1. chip'[n].tx = chip[n].tx /\ chip'[n].tx_ds = chip[n].tx_ds
      BY <2>4, ReadChip
    <3>2. pc'[n] \in {"intr_clr", "panic"}
      BY <1>0, <2>4 DEF GetPktsRead
    <3>3. UNCHANGED <<acked_p, op, nsent, accepted, confirmed>>
      BY <2>4 DEF GetPktsRead
    <3> QED BY <2>0, <3>1, <3>2, <3>3 DEF Fresh, Fetching
  <2>5. CASE GetPktsClear(n)
    BY <1>0, <2>0, <2>5 DEF GetPktsClear, Fresh, Fetching, Chip
  <2> QED BY <1>1, <2>1, <2>2, <2>3, <2>4, <2>5 DEF GetPkts
<1>2. ASSUME GetData(n) PROVE Kept
  <2>0. op[n] # "send"
    BY <1>2 DEF GetData, GetDataPop, GetDataShort, TimedOut, TimeLeft, Numbers
  <2>1. CASE GetDataPop(n)
    BY <1>0, <2>0, <2>1 DEF GetDataPop
  <2>2. CASE GetDataShort(n) \/ TimedOut(n) \/ TimeLeft(n)
    BY <1>0, <2>0, <2>2 DEF GetDataShort, TimedOut, TimeLeft
  <2> QED BY <1>2, <2>1, <2>2 DEF GetData
<1>3. ASSUME Transmit(n), ~RxMode(n) PROVE Kept
  <2>1. CASE TxMode(n)
    BY <1>0, <2>1 DEF TxMode, Fresh, Fetching, Chip
  <2>2. CASE DoTx(n)
    BY <1>0, <2>2 DEF DoTx, Fresh, Fetching, Chip, Control, InTx
  <2>3. CASE TxIntrClear(n)
    BY <1>0, <2>3 DEF TxIntrClear, Fresh, Fetching, Chip
  <2>4. CASE TxCheck(n)
    BY <1>0, <2>4 DEF TxCheck, Fresh, Fetching
  <2>5. CASE WaitEmpty(n)
    BY <1>0, <2>5 DEF WaitEmpty, Fresh, Fetching, Control
  <2>6. CASE WaitTx(n)
    BY <1>0, <2>6 DEF WaitTx, Fresh, Fetching, Chip
  <2>7. CASE WaitRetran(n) \/ WaitRxFull(n)
    BY <1>0, <2>7 DEF WaitRetran, WaitRxFull, Fresh, Fetching
  <2> QED BY <1>3, <2>1, <2>2, <2>3, <2>4, <2>5, <2>6, <2>7 DEF Transmit
<1>4. ASSUME Client(n), ~SendCall(n) PROVE Kept
  <2>1. CASE ClientReturn(n)
    BY <1>0, <2>1 DEF ClientReturn, Fresh, Fetching
  <2>2. CASE \E o \in {"noblk", "timeout", "exact"} : ReadCall(n, o)
    BY <1>0, <2>2 DEF ReadCall, Call
  <2> QED BY <1>4, <2>1, <2>2 DEF Client
<1>5. CASE RxMode(n)
  <2>1. /\ pc'[n] = "ret" /\ op' = op /\ nsent' = nsent /\ accepted' = accepted
        /\ acked_p' = acked_p /\ chip'[n].tx = chip[n].tx
        /\ chip'[n].tx_ds = chip[n].tx_ds
        /\ confirmed'[n] = Append(confirmed[n], <<n, nsent[n]>>)
        /\ op[n] = "send" /\ pc[n] = "rx_mode"
    BY <1>0, <1>5 DEF RxMode, Chip, Control, InTx
  <2>2. <<n, nsent[n]>> \in Packet
    <3>1. n \in Sender /\ nsent[n] >= 1
      BY <2>1 DEF Control
    <3>2. nsent[n] \in 1 .. MaxSends
      BY <1>0, <3>1, Constants
    <3> QED BY <3>1, <3>2 DEF Packet
  <2> DEFINE c == confirmed[n]
  <2>3. /\ c \in Seq(Packet) /\ Len(c) \in Nat /\ Len(confirmed'[n]) = Len(c) + 1
        /\ confirmed'[n][Len(c) + 1] = <<n, nsent[n]>>
        /\ \A x \in 1 .. Len(c) : confirmed'[n][x] = c[x]
    BY <1>0, <2>1, <2>2, AppendProperties
  <2>4. \A x \in 1 .. Len(c) + 1 : x = Len(c) + 1 \/ x \in 1 .. Len(c)
    BY <2>3
  <2>5. Own(n, c) /\ UpTo(n, c)
    BY DEF Numbers
  <2>6. Own(n, confirmed'[n]) /\ \A x \in 1 .. Len(c) + 1 : confirmed'[n][x][2] <= nsent[n]
    <3> SUFFICES ASSUME NEW x \in 1 .. Len(c) + 1
                 PROVE  confirmed'[n][x][1] = n /\ confirmed'[n][x][2] <= nsent[n]
      BY <2>3 DEF Own
    <3>1. CASE x = Len(c) + 1
      <4>1. confirmed'[n][x][1] = n /\ confirmed'[n][x][2] = nsent[n] /\ nsent[n] \in Nat
        BY <1>0, <2>3, <3>1
      <4> QED BY <4>1
    <3>2. CASE x \in 1 .. Len(c)
      BY <2>3, <2>5, <3>2 DEF Own, UpTo
    <3> QED BY <2>4, <3>1, <3>2
  <2>7. Own(n, confirmed[n])' /\ UpTo(n, confirmed[n])'
    BY <2>1, <2>3, <2>6 DEF Own, UpTo
  <2>8. /\ Own(n, accepted[Peer[n]])' = Own(n, accepted[Peer[n]])
        /\ Ordered(accepted[Peer[n]])' = Ordered(accepted[Peer[n]])
        /\ UpTo(n, accepted[Peer[n]])' = UpTo(n, accepted[Peer[n]])
        /\ Before(n, accepted[Peer[n]])' = Before(n, accepted[Peer[n]])
        /\ Arrived(n)' = Arrived(n)
    BY <2>1 DEF Own, Ordered, UpTo, Before, Arrived
  <2> QED BY <2>1, <2>7, <2>8 DEF Numbers, Fresh, Fetching
<1>6. CASE SendCall(n)
  <2>1. /\ pc[n] = "idle" /\ pc'[n] = "has_packet" /\ op'[n] = "send"
        /\ nsent'[n] = nsent[n] + 1 /\ nsent[n] \in Nat
        /\ UNCHANGED <<accepted, acked_p, chip, confirmed>>
    BY <1>0, <1>6 DEF SendCall, Call
  <2>2. /\ chip[n].tx = <<>> /\ chip[n].tx_ds = FALSE
    BY <2>1 DEF Control, OnAir
  <2>3. \A q \in Seq(Packet) : UpTo(n, q) =>
          \A x \in 1 .. Len(q) : q[x][2] <= nsent'[n] /\ q[x][2] < nsent'[n]
    <3> SUFFICES ASSUME NEW q \in Seq(Packet), UpTo(n, q), NEW x \in 1 .. Len(q)
                 PROVE  q[x][2] <= nsent'[n] /\ q[x][2] < nsent'[n]
      OBVIOUS
    <3>1. q[x][2] \in Int /\ q[x][2] <= nsent[n]
      BY Constants DEF UpTo, Packet
    <3> QED BY <2>1, <3>1
  <2>4. /\ UpTo(n, accepted[Peer[n]])' /\ Before(n, accepted[Peer[n]])'
        /\ UpTo(n, confirmed[n])' /\ Before(n, confirmed[n])'
    <3>1. accepted[Peer[n]] \in Seq(Packet) /\ confirmed[n] \in Seq(Packet)
      BY <1>0, Constants
    <3>2. UpTo(n, accepted[Peer[n]]) /\ UpTo(n, confirmed[n])
      BY DEF Numbers
    <3> QED BY <2>1, <2>3, <3>1, <3>2 DEF UpTo, Before
  <2>5. /\ Own(n, accepted[Peer[n]])' /\ Ordered(accepted[Peer[n]])'
        /\ Own(n, confirmed[n])'
    BY <2>1 DEF Numbers, Own, Ordered
  <2> QED BY <2>1, <2>2, <2>4, <2>5 DEF Numbers
<1> QED BY <1>k, <1>1, <1>2, <1>3, <1>4, <1>5, <1>6 DEF Cpu, Step

(* The other nodes do not notice.                                          *)
LEMMA CpusNumbers ==
  ASSUME NEW n \in Node, Types, \A m \in Node : Control(m) /\ Numbers(m), Cpu(n)
  PROVE  \A m \in Node : Numbers(m)'
<1>1. Numbers(n)'
  BY CpuNumbers
<1>2. ASSUME NEW m \in Node \ {n} PROVE Numbers(m)'
  <2>1. /\ chip'[m] = chip[m] /\ pc'[m] = pc[m] /\ op'[m] = op[m]
        /\ nsent'[m] = nsent[m] /\ acked_p' = acked_p /\ confirmed'[m] = confirmed[m]
        /\ accepted' = accepted
    BY CpuAlone DEF Alone
  <2>2. Numbers(m)
    OBVIOUS
  <2>3. (pc[m] = "idle" => op[m] = "none") /\ (pc[m] \in {"avail", "timeout"} => op[m] # "send")
    BY <2>2 DEF Numbers
  <2> QED BY <2>1, <2>2, <2>3, NumbersKept
<1> QED BY <1>1, <1>2

(* The packet on the air is new to the receiver, or it is the last one.    *)
LEMMA OnAirIsNew ==
  ASSUME NEW s \in Node, Types, Control(s), Numbers(s), chip[s].tx # <<>>,
         NEW p, p = Head(chip[s].tx), p \in Packet, ~IsRepeat(Peer[s], p)
  PROVE  Before(s, accepted[Peer[s]])
<1> DEFINE a == accepted[Peer[s]]
<1>1. a \in Seq(Packet) /\ acked_p \in BOOLEAN /\ nsent[s] \in Nat
  BY Constants DEF Types
<1>2. p = <<s, nsent[s]>>
  <2>1. chip[s].tx = <<<<s, nsent[s]>>>>
    BY DEF Control
  <2> QED BY <2>1
<1>3. CASE acked_p = FALSE
  BY <1>3 DEF Numbers
<1>4. CASE acked_p = TRUE
  <2> SUFFICES ASSUME NEW x \in 1 .. Len(a) PROVE a[x][2] < nsent[s]
    BY DEF Before
  <2>1. Own(s, a) /\ Ordered(a) /\ UpTo(s, a)
    BY DEF Numbers
  <2> HIDE DEF a
  <2>2. Len(a) \in Nat /\ Len(a) > 0 /\ Len(a) \in 1 .. Len(a)
    BY <1>1
  <2>3. /\ a[x] \in Packet /\ a[Len(a)] \in Packet
    BY <1>1, <2>2
  <2>4. a[Len(a)] # p
    BY <1>4, <2>2 DEF IsRepeat, Last, a
  <2>5. a[Len(a)] = <<a[Len(a)][1], a[Len(a)][2]>> /\ a[Len(a)][2] \in Int /\ a[x][2] \in Int
    BY <2>3, Constants DEF Packet
  <2>6. a[Len(a)][1] = s /\ a[Len(a)][2] <= nsent[s]
    BY <2>1, <2>2 DEF Own, UpTo
  <2>7. a[Len(a)][2] < nsent[s]
    BY <1>1, <1>2, <2>4, <2>5, <2>6
  <2>8. x < Len(a) => a[x][2] < a[Len(a)][2]
    BY <2>1, <2>2 DEF Ordered
  <2>9. x < Len(a) \/ x = Len(a)
    BY <2>2
  <2> QED BY <1>1, <2>5, <2>7, <2>8, <2>9
<1> QED BY <1>1, <1>3, <1>4

(* A transmission keeps the numbers.                                       *)
LEMMA AirNumbers ==
  ASSUME NEW s \in Node, Types, \A m \in Node : Control(m) /\ Numbers(m), Air(s)
  PROVE  \A m \in Node : Numbers(m)'
<1> DEFINE d == Peer[s]
           p == Head(chip[s].tx)
<1>1. d \in Node /\ d # s /\ \A m \in Node \ {s} : Peer[m] # d /\ Peer[m] \in Node
  BY Constants
<1>2. OnTheAir(s, d, p)
  BY AirFacts
<1>3. /\ accepted \in [Node -> Seq(Packet)] /\ accepted[d] \in Seq(Packet)
      /\ acked_p \in BOOLEAN /\ nsent[s] \in Nat
  BY <1>1, Constants DEF Types
<1>4. Control(s) /\ Numbers(s)
  OBVIOUS
<1>5. p = <<s, nsent[s]>>
  <2>1. chip[s].tx = <<<<s, nsent[s]>>>>
    BY <1>2, <1>4 DEF OnTheAir, Control
  <2> QED BY <2>1
<1>6. /\ chip[s].tx # <<>> /\ p \in Packet /\ Transmitted(s)
      /\ Stored(d, p) \/ Missed(d)
      /\ acked_p = TRUE /\ chip'[s].tx = <<>> => Stored(d, p) \/ IsRepeat(d, p)
      /\ acked_p' = acked_p /\ pc' = pc /\ op' = op /\ nsent' = nsent
      /\ confirmed' = confirmed
      /\ \A m \in Node \ {s, d} : chip'[m] = chip[m]
  BY <1>2 DEF OnTheAir
<1>7. Stored(d, p) => Before(s, accepted[d])
  BY <1>4, <1>6, OnAirIsNew DEF Stored
<1>8. pc[s] \notin Fresh \cup {"idle", "avail", "timeout"}
  BY <1>4, <1>6 DEF Control, OnAir, Fresh, Fetching
<1> HIDE DEF d, p
<1>9. \A m \in Node \ {s} : chip'[m].tx = chip[m].tx /\ chip'[m].tx_ds = chip[m].tx_ds
  BY <1>6 DEF Stored, Missed
<1>10. \A m \in Node \ {d} : accepted'[m] = accepted[m]
  BY <1>3, <1>6 DEF Stored, Missed
<1>11. ASSUME NEW m \in Node \ {s} PROVE Numbers(m)'
  <2>1. /\ accepted'[Peer[m]] = accepted[Peer[m]]
        /\ chip'[m].tx = chip[m].tx /\ chip'[m].tx_ds = chip[m].tx_ds
    BY <1>1, <1>9, <1>10
  <2>2. Numbers(m)
    OBVIOUS
  <2>3. (pc[m] = "idle" => op[m] = "none") /\ (pc[m] \in {"avail", "timeout"} => op[m] # "send")
    BY <2>2 DEF Numbers
  <2> QED BY <1>6, <2>1, <2>2, <2>3, NumbersKept
<1> DEFINE a == accepted[d]
           b == accepted'[d]
<1>12. /\ Own(s, a) /\ Ordered(a) /\ UpTo(s, a)
       /\ Own(s, confirmed[s]) /\ UpTo(s, confirmed[s])
       /\ op[s] = "send" /\ pc[s] \notin {"ret", "panic"} => Before(s, confirmed[s])
       /\ acked_p = TRUE /\ (chip[s].tx_ds = TRUE \/ pc[s] \in {"tx_intr_clr", "rx_mode"}) =>
            \E x \in 1 .. Len(a) : a[x][2] = nsent[s]
  BY <1>4 DEF Numbers, Arrived, d
<1>13. /\ Own(s, b) /\ Ordered(b) /\ \A x \in 1 .. Len(b) : b[x][2] <= nsent[s]
       /\ Len(a) \in Nat /\ Len(a) <= Len(b) /\ \A x \in 1 .. Len(a) : b[x] = a[x]
       /\ Stored(d, p) => Len(b) \in 1 .. Len(b) /\ b[Len(b)] = p
  <2>1. CASE Missed(d)
    <3>1. b = a /\ Len(a) \in Nat
      BY <2>1, <1>3 DEF Missed
    <3>2. Stored(d, p) => FALSE
      <4>1. Stored(d, p) => Len(b) = Len(a) + 1
        BY <1>1, <1>3, <1>6, AppendProperties DEF Stored
      <4> QED BY <3>1, <4>1
    <3> QED BY <3>1, <3>2, <1>12 DEF UpTo
  <2>2. CASE Stored(d, p)
    <3>1. b = Append(a, p)
      BY <1>1, <1>3, <2>2 DEF Stored
    <3> HIDE DEF a, b
    <3>2. /\ Len(a) \in Nat /\ Len(b) = Len(a) + 1 /\ b[Len(a) + 1] = p
          /\ \A x \in 1 .. Len(a) : b[x] = a[x]
      BY <1>3, <1>6, <3>1, AppendProperties DEF a
    <3>3. Before(s, a)
      BY <1>7, <2>2 DEF a
    <3>4. \A x \in 1 .. Len(b) : x = Len(a) + 1 \/ x \in 1 .. Len(a)
      BY <3>2
    <3>5. p[1] = s /\ p[2] = nsent[s]
      BY <1>5
    <3>6. \A x \in 1 .. Len(b) : b[x][1] = s /\ b[x][2] <= nsent[s]
      BY <1>3, <1>12, <3>2, <3>4, <3>5 DEF Own, UpTo
    <3>7. Ordered(b)
      <4> SUFFICES ASSUME NEW x \in 1 .. Len(b), NEW y \in 1 .. Len(b), x < y
                   PROVE  b[x][2] < b[y][2]
        BY DEF Ordered
      <4>1. x \in 1 .. Len(a) /\ (y = Len(a) + 1 \/ y \in 1 .. Len(a))
        BY <3>2
      <4>2. y = Len(a) + 1 => b[x][2] < b[y][2]
        BY <3>2, <3>3, <3>5, <4>1 DEF Before
      <4>3. y \in 1 .. Len(a) => b[x][2] < b[y][2]
        BY <1>12, <3>2, <4>1 DEF Ordered
      <4> QED BY <4>1, <4>2, <4>3
    <3>8. Len(a) <= Len(b) /\ Len(b) \in 1 .. Len(b)
      BY <3>2
    <3> QED BY <3>2, <3>6, <3>7, <3>8 DEF Own
  <2> QED BY <1>6, <2>1, <2>2
<1>14. (\E x \in 1 .. Len(a) : a[x][2] = nsent[s]) =>
          \E x \in 1 .. Len(b) : b[x][2] = nsent[s]
  <2>1. 1 .. Len(a) \subseteq 1 .. Len(b)
    <3>1. Len(b) \in Nat
      <4>1. b \in Seq(Packet)
        BY AirTypes, <1>1 DEF Types
      <4> QED BY <4>1
    <3>2. Len(a) \in Nat /\ Len(a) <= Len(b)
      BY <1>13
    <3> QED BY <3>1, <3>2
  <2> QED BY <2>1, <1>13
<1>15. acked_p = TRUE /\ (chip'[s].tx_ds = TRUE \/ pc[s] \in {"tx_intr_clr", "rx_mode"}) =>
          \E x \in 1 .. Len(b) : b[x][2] = nsent[s]
  <2>1. Stored(d, p) => \E x \in 1 .. Len(b) : b[x][2] = nsent[s]
    BY <1>5, <1>13
  <2>2. IsRepeat(d, p) => \E x \in 1 .. Len(a) : a[x][2] = nsent[s]
    <3>1. IsRepeat(d, p) => Len(a) > 0 /\ a[Len(a)] = p
      BY DEF IsRepeat, Last
    <3>2. Len(a) > 0 => Len(a) \in 1 .. Len(a)
      BY <1>13
    <3> QED BY <1>5, <3>1, <3>2
  <2>3. chip'[s].tx_ds = TRUE => chip'[s].tx = <<>> \/ chip[s].tx_ds = TRUE
    BY <1>6 DEF Transmitted
  <2> HIDE DEF a, b
  <2> QED BY <2>1, <2>2, <2>3, <1>6, <1>12, <1>14
<1>16. chip'[s].tx # <<>> => acked_p = TRUE
  BY <1>6 DEF Transmitted
<1>17. Numbers(s)'
  <2>1. /\ Own(s, accepted[Peer[s]])' /\ Ordered(accepted[Peer[s]])'
        /\ UpTo(s, accepted[Peer[s]])'
    BY <1>6, <1>13 DEF Own, UpTo, d
  <2>2. /\ Own(s, confirmed[s])' /\ UpTo(s, confirmed[s])'
        /\ Before(s, confirmed[s])' = Before(s, confirmed[s])
    BY <1>6, <1>12 DEF Own, UpTo, Before
  <2>3. acked_p' = TRUE /\ (chip'[s].tx_ds = TRUE \/ pc'[s] \in {"tx_intr_clr", "rx_mode"}) =>
          Arrived(s)'
    BY <1>6, <1>15 DEF Arrived, d
  <2> HIDE DEF a, b
  <2> QED BY <1>3, <1>6, <1>8, <1>12, <1>16, <2>1, <2>2, <2>3 DEF Numbers
<1> QED BY <1>11, <1>17
-----------------------------------------------------------------------------
\* A node nobody sends to takes nothing in.
Nowhere == \A d \in Node : (\A m \in Node : Peer[m] # d) => accepted[d] = <<>>

\* The inductive invariant.
IInv ==
  /\ Types /\ Nowhere
  /\ \A n \in Node : Control(n) /\ Queue(n) /\ Numbers(n)

(* The driver starts with everything empty and both radios listening.      *)
LEMMA DriverInit == ASSUME Init PROVE IInv
<1> USE Constants
<1>1. Types
  <2>1. chip \in [Node -> Chip]
    BY SeqFacts DEF Init, Chip
  <2>2. <<>> \in Seq(Byte) /\ <<>> \in Seq(Packet)
    BY SeqFacts
  <2>3. acked_p \in BOOLEAN /\ recvq \in [Node -> Seq(Byte)]
        /\ got \in [Node -> Seq(Byte)] /\ tot_msgs \in [Node -> Nat]
        /\ tot_recv_bytes \in [Node -> Nat] /\ msg \in [Node -> Seq(Byte)]
        /\ accepted \in [Node -> Seq(Packet)] /\ confirmed \in [Node -> Seq(Packet)]
    BY <2>2 DEF Init
  <2>4. pc \in [Node -> PCs] /\ op \in [Node -> Calls]
        /\ why \in [Node -> Panics \cup {"none"}]
    BY DEF Init, PCs, Calls
  <2>5. ret \in [Node -> {-1, 0, ReadBytes, msg_nbytes}]
        /\ nsent \in [Node -> 0 .. MaxSends]
    BY DEF Init
  <2> QED BY <2>1, <2>3, <2>4, <2>5 DEF Types
<1>2. Nowhere
  BY DEF Nowhere, Init
<1>3. ASSUME NEW n \in Node PROVE Control(n)
  BY <1>3 DEF Init, Control, Listening, InTx, OnAir, Fetching
<1>4. ASSUME NEW n \in Node PROVE Queue(n)
  <2>1. chip[n].rx = <<>> /\ recvq[n] = <<>> /\ tot_msgs[n] = 0 /\ accepted[n] = <<>>
        /\ got[n] = <<>> /\ tot_recv_bytes[n] = 0
    BY DEF Init
  <2>2. Len(<<>>) = 0
    OBVIOUS
  <2>3. SubSeq(<<>>, 1, 0) = <<>> /\ SubSeq(<<>>, 0 + 1, 0) = <<>>
    BY SubSeqEmpty, <2>2
  <2>4. <<>> \o <<>> = AllBytes(<<>>)
    BY AllBytesFacts, ConcatEmptySeq, SeqFacts
  <2>5. 0 = 0 + 0 /\ 0 <= RxDepth /\ 0 < CQ_N /\ 0 <= 0
    OBVIOUS
  <2>6. chip[n].rx = SubSeq(accepted[n], tot_msgs[n] + 1, Len(accepted[n]))
    BY <2>1, <2>2, <2>3
  <2>7. got[n] \o recvq[n] = AllBytes(SubSeq(accepted[n], 1, tot_msgs[n]))
    BY <2>1, <2>3, <2>4
  <2>8. tot_recv_bytes[n] = Len(got[n]) + Len(recvq[n])
    BY <2>1, <2>2, <2>5
  <2>9. Len(chip[n].rx) <= RxDepth /\ Len(recvq[n]) < CQ_N
        /\ tot_msgs[n] <= Len(accepted[n])
    BY <2>1, <2>2, <2>5
  <2> QED BY <2>6, <2>7, <2>8, <2>9 DEF Queue
<1>5. ASSUME NEW n \in Node PROVE Numbers(n)
  <2>1. accepted[Peer[n]] = <<>> /\ confirmed[n] = <<>> /\ Len(<<>>) = 0
    BY DEF Init
  <2>2. op[n] = "none" /\ pc[n] = "idle" /\ chip[n].tx = <<>> /\ chip[n].tx_ds = FALSE
    BY DEF Init
  <2>3. 1 .. 0 = {}
    OBVIOUS
  <2>4. Own(n, <<>>) /\ Ordered(<<>>) /\ UpTo(n, <<>>) /\ Before(n, <<>>)
    BY <2>1, <2>3 DEF Own, Ordered, UpTo, Before
  <2> QED BY <2>1, <2>2, <2>4 DEF Numbers, Fresh, Fetching
<1> QED BY <1>1, <1>2, <1>3, <1>4, <1>5 DEF IInv

(* A transmission is taken in by the peer of some node.                    *)
LEMMA NowhereKept ==
  ASSUME IInv, NEW n \in Node, Cpu(n) \/ Air(n)
  PROVE  Nowhere'
<1> USE Constants
<1>1. Types /\ Nowhere
  BY DEF IInv
<1>2. CASE Cpu(n)
  BY <1>1, <1>2, CpuAlone DEF Alone, Nowhere
<1>3. CASE Air(n)
  <2>1. accepted' = accepted
        \/ accepted' = [accepted EXCEPT ![Peer[n]] = Append(@, Head(chip[n].tx))]
    BY <1>1, <1>3, AirFacts DEF OnTheAir, Stored, Missed
  <2>2. accepted \in [Node -> Seq(Packet)]
    BY <1>1 DEF Types
  <2>3. ASSUME NEW d \in Node, \A m \in Node : Peer[m] # d PROVE accepted'[d] = accepted[d]
    BY <2>1, <2>2, <2>3
  <2> QED BY <1>1, <2>3 DEF Nowhere
<1> QED BY <1>2, <1>3

(* Every step of a processor and every transmission keeps the invariant.   *)
LEMMA DriverNext == ASSUME IInv, Next PROVE IInv'
<1>1. PICK n \in Node : Cpu(n) \/ Air(n)
  BY DEF Next
<1>2. Types /\ \A m \in Node : Control(m) /\ Queue(m) /\ Numbers(m)
  BY DEF IInv
<1>3. Nowhere'
  BY <1>1, NowhereKept
<1>4. CASE Cpu(n)
  <2>1. Types'
    BY <1>2, <1>4, CpuTypes
  <2>2. \A m \in Node : Control(m)'
    BY <1>2, <1>4, CpuControls
  <2>3. \A m \in Node : Queue(m)'
    BY <1>2, <1>4, CpuQueues
  <2>4. \A m \in Node : Numbers(m)'
    BY <1>2, <1>4, CpusNumbers
  <2> QED BY <1>3, <2>1, <2>2, <2>3, <2>4 DEF IInv
<1>5. CASE Air(n)
  <2>1. Types'
    BY <1>2, <1>5, AirTypes
  <2>2. \A m \in Node : Control(m)'
    BY <1>2, <1>5, AirControl
  <2>3. \A m \in Node : Queue(m)'
    BY <1>2, <1>5, AirQueues
  <2>4. \A m \in Node : Numbers(m)'
    BY <1>2, <1>5, AirNumbers
  <2> QED BY <1>3, <2>1, <2>2, <2>3, <2>4 DEF IInv
<1> QED BY <1>1, <1>4, <1>5

(* Steps that change nothing of the driver.                                *)
LEMMA DriverStutter == ASSUME IInv, UNCHANGED vars PROVE IInv'
<1>1. UNCHANGED <<acked_p, chip, recvq, tot_msgs, tot_recv_bytes, pc, op, ret, msg,
                  why, nsent, accepted, confirmed, got>>
  BY DEF vars, drvvars, callvars, history
<1>2. Types' /\ Nowhere'
  BY <1>1 DEF IInv, Types, Nowhere
<1>3. ASSUME NEW n \in Node PROVE Control(n)'
  BY <1>1 DEF IInv, Control, Listening
<1>4. ASSUME NEW n \in Node PROVE Queue(n)'
  BY <1>1 DEF IInv, Queue
<1>5. ASSUME NEW n \in Node PROVE Numbers(n)'
  BY <1>1 DEF IInv, Numbers, Own, UpTo, Before, Arrived
<1> QED BY <1>2, <1>3, <1>4, <1>5 DEF IInv

(* Every state of the driver satisfies the invariant.                      *)
THEOREM DriverInvariant == Spec => []IInv
<1>1. Init => IInv
  BY DriverInit
<1>2. IInv /\ [Next]_vars => IInv'
  BY DriverNext, DriverStutter
<1> QED BY <1>1, <1>2, PTL DEF Spec
-----------------------------------------------------------------------------
(* What the client reads, what waits in recvq and what waits in the chip   *)
(* is what the chip took in, each packet once and in the order sent, for   *)
(* nrf_get_pkts and the reads on top of it, whatever arrives between two   *)
(* SPI transfers.                                                          *)
THEOREM PacketsOnceInOrder == Spec => []EveryPacketOnceInOrder
<1> USE Constants
<1>1. IInv => TypeOK
  <2> SUFFICES ASSUME IInv PROVE TypeOK
    OBVIOUS
  <2>1. Types /\ \A n \in Node : Control(n) /\ Queue(n)
    BY DEF IInv
  <2>2. ASSUME NEW n \in Node
        PROVE  /\ chip[n].config \in {"rx", "tx"} /\ chip[n].ce \in {0, 1}
               /\ chip[n].rx \in Seq(Packet) /\ chip[n].tx \in Seq(Packet)
               /\ chip[n].rx_dr \in BOOLEAN /\ chip[n].tx_ds \in BOOLEAN
               /\ chip[n].max_rt \in BOOLEAN /\ chip[n].tries \in 0 .. Retran
    BY <2>1 DEF Types, Chip
  <2>3. ASSUME NEW n \in Node
        PROVE  Len(chip[n].rx) <= RxDepth /\ Len(recvq[n]) < CQ_N
    BY <2>1 DEF Queue
  <2>4. ASSUME NEW n \in Node PROVE Len(chip[n].tx) <= 1
    <3>1. chip[n].tx = <<>> \/ chip[n].tx = <<<<n, nsent[n]>>>>
      BY <2>1 DEF Control
    <3>2. CASE chip[n].tx = <<>>
      BY <3>2
    <3>3. CASE chip[n].tx = <<<<n, nsent[n]>>>>
      <4>1. Len(<<<<n, nsent[n]>>>>) = 1
        OBVIOUS
      <4>2. Len(chip[n].tx) = 1
        BY <3>3, <4>1
      <4> QED BY <4>2
    <3> QED BY <3>1, <3>2, <3>3
  <2>5. ASSUME NEW n \in Node PROVE ret[n] \in {-1, 0, ReadBytes, msg_nbytes}
    BY <2>1 DEF Types
  <2>6. pc \in [Node -> PCs] /\ why \in [Node -> Panics \cup {"none"}]
        /\ op \in [Node -> Calls] /\ nsent \in [Node -> 0 .. MaxSends]
    BY <2>1 DEF Types
  <2> QED BY <2>2, <2>3, <2>4, <2>5, <2>6 DEF TypeOK, Calls
<1>2. IInv => \A n \in Node : Ordered(accepted[n])
  <2> SUFFICES ASSUME IInv, NEW n \in Node PROVE Ordered(accepted[n])
    OBVIOUS
  <2>1. Nowhere /\ \A s \in Node : Numbers(s)
    BY DEF IInv
  <2>2. CASE \E s \in Node : Peer[s] = n
    BY <2>1, <2>2 DEF Numbers
  <2>3. CASE \A s \in Node : Peer[s] # n
    <3>1. accepted[n] = <<>> /\ Len(<<>>) = 0 /\ 1 .. 0 = {}
      BY <2>1, <2>3 DEF Nowhere
    <3> QED BY <3>1 DEF Ordered
  <2> QED BY <2>2, <2>3
<1>3. IInv => EveryPacketOnceInOrder
  <2> SUFFICES ASSUME IInv PROVE EveryPacketOnceInOrder
    OBVIOUS
  <2>1. ASSUME NEW n \in Node
        PROVE  \A x, y \in DOMAIN accepted[n] :
                 x < y => accepted[n][x][2] < accepted[n][y][2]
    <3>1. accepted[n] \in Seq(Packet)
      BY DEF IInv, Types
    <3>2. DOMAIN accepted[n] = 1 .. Len(accepted[n])
      BY <3>1
    <3> QED BY <1>2, <3>2 DEF Ordered
  <2>2. ASSUME NEW n \in Node, why[n] # "not enough space"
        PROVE  /\ chip[n].rx = SubSeq(accepted[n], tot_msgs[n] + 1, Len(accepted[n]))
               /\ got[n] \o recvq[n] = AllBytes(SubSeq(accepted[n], 1, tot_msgs[n]))
               /\ tot_recv_bytes[n] = Len(got[n]) + Len(recvq[n])
    BY <2>2 DEF IInv, Queue
  <2> QED BY <1>1, <2>1, <2>2 DEF EveryPacketOnceInOrder
<1> QED BY <1>3, DriverInvariant, PTL

(* The interrupt is cleared before the FIFO is looked at again, so a       *)
(* packet that waits after nrf_get_pkts has its interrupt pending.         *)
THEOREM InterruptIsPending == Spec => []InterruptNotLost
<1>1. IInv => InterruptNotLost
  <2> SUFFICES ASSUME IInv, NEW n \in Node, why[n] = "none", chip[n].rx # <<>>,
                      pc[n] \notin {"pipeid", "payload", "intr_clr", "more"}
               PROVE  chip[n].rx_dr
    BY DEF InterruptNotLost
  <2>1. chip[n].rx_dr = TRUE
    BY DEF IInv, Control, Fetching
  <2> QED BY <2>1
<1> QED BY <1>1, DriverInvariant, PTL

(* The assertions of the driver about its own chip never fail.             *)
THEOREM AssertionsNeverFail == Spec => []AssertionsHold
<1>1. IInv => AssertionsHold
  BY DEF IInv, Control, AssertionsHold
<1> QED BY <1>1, DriverInvariant, PTL
-----------------------------------------------------------------------------
(* The link: the refinement of LossyLink.                                  *)
\* What the peer of Source took in, and what it is called by in LossyLink.
Taken == accepted[Peer[Source]]

(* The instance's operators are those of the sequences module.             *)
LEMMA SameOperators ==
  /\ \A s : Link!FlattenSeq(s) = FlattenSeq(s)
  /\ \A s : Link!ToSet(s) = ToSet(s)
<1>1. \A s : Link!FlattenSeq(s) = FlattenSeq(s)
  BY DEF Link!FlattenSeq, FlattenSeq
<1>2. \A s : Link!ToSet(s) = ToSet(s)
  BY DEF Link!ToSet, ToSet
<1> QED BY <1>1, <1>2

(* Packets of Source are told by their numbers, whose bytes are theirs.    *)
LEMMA StreamIsBytes ==
  ASSUME Types, Numbers(Source)
  PROVE  Link!Stream = AllBytes(Taken)
<1> USE SourceAssumption, Constants
<1>1. Taken \in Seq(Packet) /\ DOMAIN Taken = 1 .. Len(Taken)
  BY DEF Types, Taken
<1>2. \A x \in 1 .. Len(Taken) : Taken[x] = <<Source, Taken[x][2]>>
  <2>1. ASSUME NEW x \in 1 .. Len(Taken) PROVE Taken[x] = <<Source, Taken[x][2]>>
    <3>1. Taken[x] \in Packet /\ Taken[x][1] = Source
      BY <1>1 DEF Numbers, Own, Taken
    <3> QED BY <3>1 DEF Packet
  <2> QED BY <2>1
<1>3. DOMAIN Counts(Taken) = 1 .. Len(Taken)
      /\ \A x \in 1 .. Len(Taken) : Counts(Taken)[x] = Taken[x][2]
  BY <1>1 DEF Counts
<1>4. [x \in DOMAIN Counts(Taken) |-> SourceBytes(Counts(Taken)[x])]
        = [x \in DOMAIN Taken |-> Bytes(Taken[x])]
  <2>1. ASSUME NEW x \in 1 .. Len(Taken)
        PROVE  SourceBytes(Counts(Taken)[x]) = Bytes(Taken[x])
    BY <1>2, <1>3 DEF SourceBytes
  <2> QED BY <1>1, <1>3, <2>1
<1> QED BY <1>4, SameOperators DEF Link!Stream, AllBytes, Taken

(* The numbers of one packet more.                                         *)
LEMMA CountsAppend ==
  ASSUME NEW ps \in Seq(Packet), NEW p \in Packet
  PROVE  Counts(Append(ps, p)) = Append(Counts(ps), p[2])
<1>1. /\ Len(ps) \in Nat /\ Append(ps, p) \in Seq(Packet)
      /\ Len(Append(ps, p)) = Len(ps) + 1
      /\ DOMAIN Append(ps, p) = 1 .. Len(ps) + 1 /\ DOMAIN ps = 1 .. Len(ps)
      /\ Append(ps, p)[Len(ps) + 1] = p
      /\ \A x \in 1 .. Len(ps) : Append(ps, p)[x] = ps[x]
  BY AppendProperties
<1>2. Counts(ps) \in Seq(Nat) /\ Len(Counts(ps)) = Len(ps) /\ p[2] \in Nat
      /\ \A x \in 1 .. Len(ps) : Counts(ps)[x] = ps[x][2]
  <2>1. \A q \in Packet : q[2] \in Nat
    BY Constants DEF Packet
  <2>2. \A x \in 1 .. Len(ps) : ps[x] \in Packet
    BY <1>1
  <2>3. Counts(ps) = [x \in 1 .. Len(ps) |-> ps[x][2]]
    BY <1>1 DEF Counts
  <2>4. [x \in 1 .. Len(ps) |-> ps[x][2]] \in Seq(Nat)
    BY <1>1, <2>1, <2>2
  <2> QED BY <1>1, <2>1, <2>3, <2>4
<1>3. DEFINE c == Append(Counts(ps), p[2])
<1>4. /\ c \in Seq(Nat) /\ Len(c) = Len(ps) + 1 /\ DOMAIN c = 1 .. Len(ps) + 1
      /\ c[Len(ps) + 1] = p[2]
      /\ \A x \in 1 .. Len(ps) : c[x] = ps[x][2]
  <2>1. Counts(ps) \in Seq(Nat) /\ p[2] \in Nat
    BY <1>2
  <2>2. /\ c \in Seq(Nat) /\ Len(c) = Len(Counts(ps)) + 1
        /\ DOMAIN c = 1 .. Len(Counts(ps)) + 1
        /\ c[Len(Counts(ps)) + 1] = p[2]
        /\ \A x \in 1 .. Len(Counts(ps)) : c[x] = Counts(ps)[x]
    BY <2>1, AppendProperties
  <2> QED BY <1>2, <2>2
<1> HIDE DEF c
<1>5. ASSUME NEW x \in 1 .. Len(ps) + 1 PROVE Append(ps, p)[x][2] = c[x]
  <2>1. CASE x = Len(ps) + 1
    BY <1>1, <1>4, <2>1
  <2>2. CASE x # Len(ps) + 1
    <3>1. x \in 1 .. Len(ps)
      BY <1>1, <2>2
    <3> QED BY <1>1, <1>4, <3>1
  <2> QED BY <2>1, <2>2
<1>6. Counts(Append(ps, p)) = [x \in 1 .. Len(ps) + 1 |-> Append(ps, p)[x][2]]
  BY <1>1 DEF Counts
<1>7. c = [x \in 1 .. Len(ps) + 1 |-> c[x]]
  <2>1. c \in Seq(Nat) /\ DOMAIN c = 1 .. Len(ps) + 1
    BY <1>4
  <2> QED BY <2>1
<1>8. Counts(Append(ps, p)) = c
  BY <1>5, <1>6, <1>7
<1> QED BY <1>8 DEF c

(* The bytes of the first packets come first.                              *)
LEMMA BytesPrefix ==
  ASSUME NEW ps \in Seq(Packet), NEW k \in Nat, k <= Len(ps)
  PROVE  \E w \in Seq(Byte) : AllBytes(ps) = AllBytes(SubSeq(ps, 1, k)) \o w
         /\ AllBytes(SubSeq(ps, 1, k)) \in Seq(Byte)
<1> DEFINE A(m) == AllBytes(SubSeq(ps, 1, m))
<1>1. Len(ps) \in Nat
  OBVIOUS
<1>2. ASSUME NEW m \in Nat, m + 1 <= Len(ps), A(m) \in Seq(Byte)
      PROVE  \E b \in Seq(Byte) : A(m + 1) = A(m) \o b /\ A(m + 1) \in Seq(Byte)
  <2>1. PICK qs : qs = SubSeq(ps, 1, m)
    OBVIOUS
  <2>2. m <= Len(ps) /\ m + 1 \in 1 .. Len(ps)
    BY <1>1, <1>2
  <2>3. qs \in Seq(Packet) /\ ps[m + 1] \in Packet
    BY <2>1, <2>2, CutFacts
  <2>4. SubSeq(ps, 1, m + 1) = Append(qs, ps[m + 1])
    <3>1. SubSeq(ps, m + 1, Len(ps)) # <<>>
      <4>1. Len(SubSeq(ps, m + 1, Len(ps))) = Len(ps) - m
        BY <2>2, CutFacts
      <4>2. Len(ps) - m # 0
        BY <1>1, <1>2
      <4> QED BY <4>1, <4>2
    <3> QED BY <2>1, <2>2, <3>1, CutNext
  <2>5. AllBytes(qs) \in Seq(Byte)
    BY <1>2, <2>1
  <2>6. A(m + 1) = A(m) \o Bytes(ps[m + 1]) /\ A(m + 1) \in Seq(Byte)
    <3>1. /\ AllBytes(Append(qs, ps[m + 1])) = AllBytes(qs) \o Bytes(ps[m + 1])
          /\ AllBytes(Append(qs, ps[m + 1])) \in Seq(Byte)
      BY <2>3, <2>5, AllBytesFacts
    <3> QED BY <2>1, <2>4, <3>1
  <2>7. Bytes(ps[m + 1]) \in Seq(Byte)
    BY <2>3, BytesFacts
  <2> QED BY <2>6, <2>7
<1>3. A(0) \in Seq(Byte)
  <2>1. SubSeq(ps, 1, 0) = <<>>
    BY SubSeqEmpty
  <2> QED BY <2>1, AllBytesFacts, SeqFacts
<1> HIDE DEF A
<1>4. \A m \in Nat : m <= Len(ps) => A(m) \in Seq(Byte)
  <2> DEFINE S == {m \in Nat : m <= Len(ps) => A(m) \in Seq(Byte)}
  <2>1. 0 \in S
    BY <1>3
  <2>2. ASSUME NEW m \in Nat, m \in S PROVE m + 1 \in S
    <3>1. m + 1 <= Len(ps) => m <= Len(ps)
      BY <1>1
    <3> QED BY <1>2, <2>2, <3>1
  <2>3. Nat \subseteq S
    <3> HIDE DEF S
    <3> QED BY <2>1, <2>2, SetInduction
  <2> QED BY <2>3
<1>5. A(k) \in Seq(Byte)
  BY <1>4
<1>6. \A m \in Nat : k <= m /\ m <= Len(ps) => \E w \in Seq(Byte) : A(m) = A(k) \o w
  <2> DEFINE P(m) == \E w \in Seq(Byte) : A(m) = A(k) \o w
             S == {m \in Nat : k <= m /\ m <= Len(ps) => P(m)}
  <2>1. P(k)
    <3>1. A(k) \o <<>> = A(k) /\ <<>> \in Seq(Byte)
      BY <1>5, ConcatEmptySeq
    <3> QED BY <3>1
  <2>2. 0 \in S
    <3>1. k <= 0 => k = 0
      OBVIOUS
    <3> QED BY <2>1, <3>1
  <2>3. ASSUME NEW m \in Nat, m \in S PROVE m + 1 \in S
    <3> SUFFICES ASSUME k <= m + 1, m + 1 <= Len(ps) PROVE P(m + 1)
      <4> HIDE DEF P
      <4> QED OBVIOUS
    <3>1. CASE m + 1 = k
      BY <2>1, <3>1
    <3>2. CASE m + 1 # k
      <4>1. k <= m /\ m <= Len(ps)
        BY <1>1, <3>2
      <4>2. PICK w \in Seq(Byte) : A(m) = A(k) \o w
        BY <2>3, <4>1
      <4>3. A(m) \in Seq(Byte)
        BY <1>4, <4>1
      <4>4. PICK b \in Seq(Byte) : A(m + 1) = A(m) \o b
        BY <1>2, <4>3
      <4>5. w \o b \in Seq(Byte)
        BY ConcatFacts
      <4>6. (A(k) \o w) \o b = A(k) \o (w \o b)
        BY <1>5, ConcatAssociative
      <4>7. A(m + 1) = A(k) \o (w \o b)
        BY <4>2, <4>4, <4>6
      <4> QED BY <4>5, <4>7
    <3> QED BY <3>1, <3>2
  <2>4. Nat \subseteq S
    <3> HIDE DEF S
    <3> QED BY <2>2, <2>3, SetInduction
  <2> QED BY <2>4
<1>7. SubSeq(ps, 1, Len(ps)) = ps
  <2>1. SubSeq(ps, 1, Len(ps)) \in Seq(Packet) /\ Len(SubSeq(ps, 1, Len(ps))) = Len(ps)
        /\ \A x \in 1 .. Len(ps) : SubSeq(ps, 1, Len(ps))[x] = ps[x]
    BY <1>1, SubSeqProperties
  <2> QED BY <2>1, SeqEqual
<1>8. A(Len(ps)) = AllBytes(ps)
  BY <1>7 DEF A
<1>9. PICK w \in Seq(Byte) : A(Len(ps)) = A(k) \o w
  <2>1. k <= Len(ps) /\ Len(ps) <= Len(ps)
    BY <1>1
  <2> QED BY <1>1, <1>6, <2>1
<1>10. AllBytes(SubSeq(ps, 1, k)) = A(k)
  BY DEF A
<1> QED BY <1>5, <1>8, <1>9, <1>10

(* A prefix is what its length cuts off.                                   *)
LEMMA PrefixIsCut ==
  ASSUME NEW S, NEW u \in Seq(S), NEW v \in Seq(S)
  PROVE  SubSeq(u \o v, 1, Len(u)) = u
<1>1. /\ u \o v \in Seq(S) /\ Len(u \o v) = Len(u) + Len(v)
      /\ Len(u) \in Nat /\ Len(v) \in Nat
      /\ \A x \in 1 .. Len(u) : (u \o v)[x] = u[x]
  BY ConcatProperties
<1>2. PICK c : c = u \o v
  OBVIOUS
<1>3. c \in Seq(S) /\ Len(u) <= Len(c) /\ \A x \in 1 .. Len(u) : c[x] = u[x]
  BY <1>1, <1>2
<1>4. /\ SubSeq(c, 1, Len(u)) \in Seq(S) /\ Len(SubSeq(c, 1, Len(u))) = Len(u)
  BY <1>1, <1>3, CutFacts
<1>5. \A x \in 1 .. Len(u) : SubSeq(c, 1, Len(u))[x] = c[x]
  <2>1. \A x \in 1 .. Len(u) : c[x] \in S
    BY <1>1, <1>3
  <2>2. \A x \in 1 .. Len(u) - 1 + 1 : SubSeq(c, 1, Len(u))[x] = c[1 + x - 1]
    BY <1>1, <2>1, SubSeqProperties
  <2>3. \A x \in 1 .. Len(u) : 1 + x - 1 = x
    OBVIOUS
  <2>4. Len(u) - 1 + 1 = Len(u)
    BY <1>1
  <2> QED BY <2>2, <2>3, <2>4
<1>6. SubSeq(c, 1, Len(u)) = u
  BY <1>3, <1>4, <1>5, SeqEqual
<1> QED BY <1>2, <1>6

(* What the client of the peer reads is the next of the link's bytes.      *)
LEMMA PopIsRead ==
  ASSUME Types, NEW d \in Node, d = Peer[Source], Control(d), Queue(d),
         Numbers(Source), GetDataPop(d)
  PROVE  Link!Read
<1> USE SourceAssumption, Constants
<1>1. PICK q, g, k : q = recvq[d] /\ g = got[d] /\ k = ReadBytes
  OBVIOUS
<1>2. /\ q \in Seq(Byte) /\ g \in Seq(Byte) /\ k \in Nat /\ k >= 1 /\ k <= Len(q)
      /\ got \in [Node -> Seq(Byte)] /\ msg \in [Node -> Seq(Byte)]
  BY <1>1 DEF GetDataPop, Types
<1>3. PICK f, b : f = SubSeq(q, 1, k) /\ b = SubSeq(q, k + 1, Len(q))
  OBVIOUS
<1>4. f \in Seq(Byte) /\ b \in Seq(Byte) /\ Len(f) = k /\ q = f \o b
  BY <1>2, <1>3, CutFacts
<1>5. got'[d] = g \o f
  BY <1>1, <1>2, <1>3 DEF GetDataPop
<1>6. UNCHANGED <<acked_p, nsent, accepted, confirmed>>
  BY DEF GetDataPop
<1>7. why[d] = "none"
  BY DEF GetDataPop, Control
<1>8. PICK t : t = tot_msgs[d]
  OBVIOUS
<1>9. /\ t \in Nat /\ Taken \in Seq(Packet) /\ t <= Len(Taken)
      /\ g \o q = AllBytes(SubSeq(Taken, 1, t))
  BY <1>1, <1>7, <1>8 DEF Queue, Taken, Types
<1>10. PICK w \in Seq(Byte) : AllBytes(Taken) = AllBytes(SubSeq(Taken, 1, t)) \o w
  BY <1>9, BytesPrefix
<1>11. b \o w \in Seq(Byte) /\ g \o f \in Seq(Byte)
  BY <1>2, <1>4, ConcatFacts
<1>12. Link!Stream = (g \o f) \o (b \o w)
  <2>1. \A x, y, z \in Seq(Byte) : (x \o y) \o z = x \o (y \o z)
    BY ConcatAssociative
  <2>2. g \o q = (g \o f) \o b
    BY <1>2, <1>4, <2>1
  <2>3. ((g \o f) \o b) \o w = (g \o f) \o (b \o w)
    BY <1>4, <1>11, <2>1
  <2>4. Link!Stream = AllBytes(Taken)
    BY StreamIsBytes
  <2> QED BY <1>9, <1>10, <2>2, <2>3, <2>4
<1>13. SubSeq(Link!Stream, 1, Len(g \o f)) = g \o f
  BY <1>11, <1>12, PrefixIsCut
<1>14. PICK u, v : u = g \o f /\ v = b \o w
  OBVIOUS
<1>15. Len(u) \in Len(g) + 1 .. Len(Link!Stream)
  <2>1. Len(g \o f) = Len(g) + Len(f) /\ Len(g) \in Nat
    BY <1>2, <1>4, ConcatFacts
  <2>2. Len(u \o v) = Len(u) + Len(v) /\ Len(v) \in Nat /\ Len(u) \in Nat
    BY <1>11, <1>14, ConcatFacts
  <2>3. Len(Link!Stream) = Len(u) + Len(v)
    BY <1>12, <1>14, <2>2
  <2>4. Len(u) = Len(g) + k
    BY <1>4, <1>14, <2>1
  <2> QED BY <1>2, <2>1, <2>2, <2>3, <2>4
<1>16. got'[Peer[Source]] = SubSeq(Link!Stream, 1, Len(u))
  BY <1>5, <1>13, <1>14
<1>17. Len(u) \in Len(got[Peer[Source]]) + 1 .. Len(Link!Stream)
  BY <1>1, <1>15
<1> QED BY <1>6, <1>16, <1>17 DEF Link!Read

(* A confirmation is the link's.                                           *)
LEMMA RxModeIsConfirm ==
  ASSUME Types, Control(Source), Numbers(Source), RxMode(Source)
  PROVE  Link!Confirm
<1> USE SourceAssumption, Constants
<1>1. /\ confirmed[Source] \in Seq(Packet) /\ confirmed \in [Node -> Seq(Packet)]
      /\ accepted[Peer[Source]] \in Seq(Packet)
      /\ nsent[Source] \in 0 .. MaxSends
  BY DEF Types
<1>2. /\ pc[Source] = "rx_mode" /\ op[Source] = "send" /\ Source \in Sender
      /\ nsent[Source] >= 1
  BY DEF RxMode, Control, InTx
<1>3. <<Source, nsent[Source]>> \in Packet
  BY <1>1, <1>2 DEF Packet
<1>4. confirmed'[Source] = Append(confirmed[Source], <<Source, nsent[Source]>>)
      /\ UNCHANGED <<acked_p, nsent, accepted, got>>
  BY <1>1 DEF RxMode, drvvars
<1>5. Counts(confirmed'[Source]) = Append(Counts(confirmed[Source]), nsent[Source])
  <2>1. <<Source, nsent[Source]>>[2] = nsent[Source]
    OBVIOUS
  <2> QED BY <1>1, <1>3, <1>4, <2>1, CountsAppend
<1>6. ASSUME NEW ps \in Seq(Packet), NEW k
      PROVE  k \in ToSet(Counts(ps)) <=> \E x \in 1 .. Len(ps) : ps[x][2] = k
  BY DEF ToSet, Counts
<1>7. nsent[Source] \notin ToSet(Counts(confirmed[Source]))
  <2>1. Before(Source, confirmed[Source])
    BY <1>2 DEF Numbers
  <2>2. ASSUME NEW x \in 1 .. Len(confirmed[Source]), confirmed[Source][x][2] = nsent[Source]
        PROVE  FALSE
    <3>1. nsent[Source] < nsent[Source] /\ nsent[Source] \in Int
      BY <1>1, <2>1, <2>2 DEF Before
    <3> QED BY <3>1
  <2> QED BY <1>1, <1>6, <2>2
<1>8. acked_p => nsent[Source] \in ToSet(Counts(accepted[Peer[Source]]))
  <2> SUFFICES ASSUME acked_p = TRUE
               PROVE  nsent[Source] \in ToSet(Counts(accepted[Peer[Source]]))
    BY DEF Types
  <2>1. Arrived(Source)
    BY <1>2 DEF Numbers
  <2> QED BY <1>1, <1>6, <2>1 DEF Arrived
<1> QED BY <1>4, <1>5, <1>7, <1>8, SameOperators DEF Link!Confirm

(* A packet that is stored arrives.                                        *)
LEMMA StoredIsArrive ==
  ASSUME Types, Control(Source), Numbers(Source), Air(Source),
         NEW p, p = Head(chip[Source].tx), Stored(Peer[Source], p)
  PROVE  Link!Arrive
<1> USE SourceAssumption, Constants
<1>1. OnTheAir(Source, Peer[Source], p)
  BY AirFacts
<1>2. /\ accepted[Peer[Source]] \in Seq(Packet) /\ accepted \in [Node -> Seq(Packet)]
      /\ nsent[Source] \in 0 .. MaxSends
  BY DEF Types
<1>3. chip[Source].tx # <<>> /\ p \in Packet /\ UNCHANGED <<acked_p, nsent, confirmed, got>>
  BY <1>1 DEF OnTheAir
<1>4. p = <<Source, nsent[Source]>>
  <2>1. chip[Source].tx = <<<<Source, nsent[Source]>>>>
    BY <1>3 DEF Control
  <2>2. PICK e : e = <<Source, nsent[Source]>>
    OBVIOUS
  <2>3. chip[Source].tx = <<e>> /\ Head(<<e>>) = e
    BY <2>1, <2>2
  <2> QED BY <2>2, <2>3
<1>5. nsent[Source] >= 1
  <2>1. p \in Sender \X (1 .. MaxSends)
    BY <1>3 DEF Packet
  <2>2. nsent[Source] \in 1 .. MaxSends
    BY <1>4, <2>1
  <2> QED BY <2>2
<1>6. accepted'[Peer[Source]] = Append(accepted[Peer[Source]], p)
  BY <1>2 DEF Stored
<1>7. Counts(accepted'[Peer[Source]]) = Append(Counts(accepted[Peer[Source]]), nsent[Source])
  <2>1. p[2] = nsent[Source]
    BY <1>4
  <2> QED BY <1>2, <1>3, <1>6, <2>1, CountsAppend
<1>8. nsent[Source] \notin ToSet(Counts(accepted[Peer[Source]]))
  <2>1. Before(Source, accepted[Peer[Source]])
    BY <1>3, OnAirIsNew DEF Stored
  <2>2. ASSUME NEW x \in 1 .. Len(accepted[Peer[Source]]),
               accepted[Peer[Source]][x][2] = nsent[Source]
        PROVE  FALSE
    <3>1. nsent[Source] < nsent[Source] /\ nsent[Source] \in Int
      BY <1>2, <2>1, <2>2 DEF Before
    <3> QED BY <3>1
  <2>3. DOMAIN accepted[Peer[Source]] = 1 .. Len(accepted[Peer[Source]])
    BY <1>2
  <2> QED BY <2>2, <2>3 DEF ToSet, Counts
<1> QED BY <1>2, <1>3, <1>5, <1>7, <1>8, SameOperators DEF Link!Arrive

(* The steps of a processor that the link does not see.                    *)
LEMMA CpuUnseen ==
  ASSUME Types, NEW n \in Node, Control(n), Cpu(n),
         ~(n = Source /\ (SendCall(n) \/ RxMode(n))),
         ~(n = Peer[Source] /\ GetDataPop(n))
  PROVE  UNCHANGED <<acked_p, nsent[Source], accepted[Peer[Source]],
                     got[Peer[Source]], confirmed[Source]>>
<1> USE SourceAssumption, Constants
<1>1. Alone(n)
  BY CpuAlone
<1>2. acked_p' = acked_p /\ accepted' = accepted
  BY <1>1 DEF Alone
<1>3. nsent'[Source] = nsent[Source] /\ confirmed'[Source] = confirmed[Source]
  <2>1. CASE n # Source
    BY <1>1, <2>1 DEF Alone
  <2>2. CASE n = Source
    <3>1. UNCHANGED <<nsent, confirmed>>
      <4>1. CASE GetPkts(n)
        BY <4>1 DEF GetPkts, GetPktsStart, GetPktsPipe, GetPktsRead, GetPktsClear,
                    GetPktsMore, history
      <4>2. CASE GetData(n)
        BY <4>2 DEF GetData, GetDataPop, GetDataShort, TimedOut, TimeLeft, history
      <4>3. CASE Transmit(n)
        BY <2>2, <4>3 DEF Transmit, TxMode, TxCheck, DoTx, WaitEmpty, WaitTx,
                    WaitRetran, WaitRxFull, TxIntrClear, history
      <4>4. CASE Client(n)
        BY <2>2, <4>4 DEF Client, ReadCall, Call, ClientReturn, history
      <4> QED BY <4>1, <4>2, <4>3, <4>4 DEF Cpu, Step
    <3> QED BY <3>1
  <2> QED BY <2>1, <2>2
<1>4. got'[Peer[Source]] = got[Peer[Source]]
  <2>1. CASE n # Peer[Source]
    BY <1>1, <2>1 DEF Alone
  <2>2. CASE n = Peer[Source]
    <3>1. ~GetDataPop(n)
      BY <2>2
    <3>2. CASE GetPktsRead(n)
      BY <3>2 DEF GetPktsRead, history
    <3>3. CASE ~GetPktsRead(n)
      BY <3>1, <3>3, QueueAlone
    <3> QED BY <3>2, <3>3
  <2> QED BY <2>1, <2>2
<1> QED BY <1>2, <1>3, <1>4

(* Every step of the driver and of the air is a step of the link, or none. *)
LEMMA LinkStep == ASSUME IInv, [Next]_vars PROVE [Link!Next]_(Link!vars)
<1> USE SourceAssumption, Constants
<1>1. Types /\ \A n \in Node : Control(n) /\ Queue(n) /\ Numbers(n)
  BY DEF IInv
<1>2. Peer[Source] \in Node
  OBVIOUS
<1>3. ASSUME UNCHANGED <<acked_p, nsent[Source], accepted[Peer[Source]],
                         got[Peer[Source]], confirmed[Source]>>
      PROVE  UNCHANGED Link!vars
  BY <1>3 DEF Link!vars, Counts
<1>4. CASE UNCHANGED vars
  BY <1>3, <1>4 DEF vars, drvvars, history
<1>5. ASSUME NEW n \in Node, Cpu(n) PROVE [Link!Next]_(Link!vars)
  <2>1. CASE n = Source /\ SendCall(n)
    <3>1. nsent \in [Node -> 0 .. MaxSends]
      BY <1>1 DEF Types
    <3>2. nsent'[Source] = nsent[Source] + 1
          /\ UNCHANGED <<acked_p, accepted, got, confirmed>>
      BY <2>1, <3>1 DEF SendCall, Call, drvvars
    <3>3. Link!Send
      BY <3>2 DEF Link!Send
    <3> QED BY <3>3 DEF Link!Next
  <2>2. CASE n = Source /\ RxMode(n)
    BY <1>1, <2>2, RxModeIsConfirm DEF Link!Next
  <2>3. CASE n = Peer[Source] /\ GetDataPop(n)
    BY <1>1, <1>2, <2>3, PopIsRead DEF Link!Next
  <2>4. CASE ~(n = Source /\ (SendCall(n) \/ RxMode(n)))
             /\ ~(n = Peer[Source] /\ GetDataPop(n))
    BY <1>1, <1>3, <1>5, <2>4, CpuUnseen
  <2> QED BY <2>1, <2>2, <2>3, <2>4
<1>6. ASSUME NEW s \in Node, Air(s) PROVE [Link!Next]_(Link!vars)
  <2>1. PICK p : p = Head(chip[s].tx)
    OBVIOUS
  <2>2. OnTheAir(s, Peer[s], p)
    BY <1>1, <1>6, <2>1, AirFacts
  <2>3. UNCHANGED <<acked_p, nsent, got, confirmed>>
    BY <2>2 DEF OnTheAir
  <2>4. CASE s = Source /\ Stored(Peer[s], p)
    BY <1>1, <1>6, <2>1, <2>4, StoredIsArrive DEF Link!Next
  <2>5. CASE Missed(Peer[s])
    BY <1>3, <2>3, <2>5 DEF Missed
  <2>6. CASE s # Source /\ Stored(Peer[s], p)
    <3>1. Peer[s] # Peer[Source]
      BY <2>6
    <3>2. accepted'[Peer[Source]] = accepted[Peer[Source]]
      BY <1>1, <1>2, <2>6, <3>1 DEF Stored, Types
    <3> QED BY <1>3, <2>3, <3>2
  <2> QED BY <2>2, <2>4, <2>5, <2>6 DEF OnTheAir
<1> QED BY <1>4, <1>5, <1>6 DEF Next

(* For the client of the peer the two drivers, their chips and the air are *)
(* a lossy, ordered stream of whole packets, and a send that returns with  *)
(* acknowledgements on has been taken in.                                  *)
THEOREM LinkRefinement == Spec => ImplementsLossyLink
<1>1. Init => Link!Init
  <2> SUFFICES ASSUME Init PROVE Link!Init
    OBVIOUS
  <2>1. /\ acked_p \in BOOLEAN /\ nsent[Source] = 0 /\ accepted[Peer[Source]] = <<>>
        /\ got[Peer[Source]] = <<>> /\ confirmed[Source] = <<>>
    BY SourceAssumption, Constants DEF Init
  <2>2. Counts(<<>>) = <<>>
    BY DEF Counts
  <2> QED BY <2>1, <2>2 DEF Link!Init
<1>2. IInv /\ [Next]_vars => [Link!Next]_(Link!vars)
  BY LinkStep
<1> QED BY <1>1, <1>2, DriverInvariant, PTL DEF Spec, ImplementsLossyLink, Link!Spec
-----------------------------------------------------------------------------
(* The loopback tests: one Pi, both radios, a packet at a time.            *)

\* Packets of this direction sent in earlier trials, and by the other node.
Base == (trial \div 2) * NTRIAL
BaseBack == ((trial + 1) \div 2) * NTRIAL

Newest == <<from, nsent[from]>>  \* the packet sent last
\* Places of the packets of this trial among those the receiver took in.
News == {k \in DOMAIN accepted[to] : accepted[to][k][2] > Base}

Calm(n) == chip[n].rx = <<>> /\ recvq[n] = <<>>

Sending == {"has_packet", "tx_mode", "check", "do_tx", "tx_intr_clr", "rx_mode",
            "ret", "panic"} \cup OnAir
Receiving == {"has_packet", "avail", "timeout", "ret", "panic"} \cup Fetching

\* The receiver's packet goes from its chip to recvq to the test.
Delivery(n) ==
  /\ pc[n] \in {"idle", "has_packet", "pipeid", "payload"} =>
       /\ chip[n].rx = IF Arrived(from) THEN <<Newest>> ELSE <<>>
       /\ recvq[n] = <<>>
  /\ pc[n] \in {"intr_clr", "more"} =>
       Arrived(from) /\ chip[n].rx = <<>> /\ recvq[n] = Bytes(Newest)
  /\ pc[n] = "avail" =>
       /\ chip[n].rx = <<>>
       /\ recvq[n] = IF Arrived(from) THEN Bytes(Newest) ELSE <<>>
  /\ pc[n] = "timeout" => ~Arrived(from) /\ Calm(n)
  /\ pc[n] = "ret" =>
       /\ Calm(n)
       /\ IF Arrived(from) THEN ret[n] = msg_nbytes /\ msg[n] = Bytes(Newest)
          ELSE ret[n] = -1

\* What the test's counters say of the packets.
Counters ==
  /\ nsent[to] = BaseBack /\ Len(confirmed[to]) = nsent[to]
  /\ Cardinality(News) =
       npackets + (IF phase # "send" /\ Arrived(from) THEN 1 ELSE 0)
  /\ npackets + ntimeout = i
  /\ acked_p = TRUE => ntimeout = 0
  /\ nsent[from] = Base + i + (IF phase = "send" THEN 0 ELSE 1)
  /\ Len(confirmed[from]) =
       IF phase = "sending" /\ pc[from] # "ret" THEN Base + i ELSE nsent[from]

\* Where the two nodes are.
Places ==
  /\ Calm(from)
  /\ phase = "send" => pc[from] = "idle" /\ pc[to] = "idle" /\ Calm(to)
  /\ phase = "sending" =>
       op[from] = "send" /\ pc[from] \in Sending /\ pc[to] = "idle"
  /\ phase = "receive" => pc[from] = "idle" /\ pc[to] = "idle"
  /\ phase = "receiving" =>
       /\ op[to] = "timeout" /\ pc[to] \in Receiving /\ pc[from] = "idle"
       /\ chip[to].tx = <<>>
  /\ phase # "send" => i < NTRIAL /\ Delivery(to)
  /\ phase \in {"receive", "receiving"} \/ (phase = "sending" /\ pc[from] = "ret") =>
       (acked_p = TRUE => Arrived(from))

TestInv ==
  /\ trial \in Nat /\ i \in 0 .. NTRIAL /\ npackets \in Nat /\ ntimeout \in Nat
  /\ phase \in {"send", "sending", "receive", "receiving", "done"}
  /\ phase # "done" => Counters /\ Places

(* The two radios are each other's peers.                                  *)
LEMMA Directions ==
  ASSUME Loopback
  PROVE  /\ from \in Node /\ to \in Node /\ from # to /\ Sender = Node
         /\ Peer[from] = to /\ Peer[to] = from /\ \A n \in Node : n = from \/ n = to
         /\ NTRIAL \in Nat /\ NTRIAL >= 1 /\ ReadBytes = msg_nbytes
<1>1. from \in {server, client} /\ to = Peer[from]
  BY DEF from, to
<1>2. Node = {server, client} /\ Sender = Node /\ NTRIAL \in Nat /\ NTRIAL >= 1
      /\ ReadBytes = msg_nbytes
  BY DEF Loopback
<1>3. \A n \in Node : Peer[n] \in Node /\ Peer[n] # n
  BY Constants
<1>4. from \in Node /\ to \in Node /\ from # to
  BY <1>1, <1>2, <1>3
<1>5. \A n \in Node : n = from \/ n = to
  BY <1>2, <1>4
<1>6. Peer[to] = from
  BY <1>3, <1>4, <1>5
<1> QED BY <1>1, <1>2, <1>4, <1>5, <1>6

(* The steps of the tests are steps of the driver.                         *)
LEMMA TestIsDriver == ASSUME Loopback, [TestNext]_allvars PROVE [Next]_vars
<1> USE Directions
<1>1. CASE UNCHANGED allvars
  BY <1>1 DEF allvars
<1>2. CASE SendMsg
  BY <1>2 DEF SendMsg, Next, Cpu, Client
<1>3. CASE SendReturned
  BY <1>3 DEF SendReturned, Next, Cpu, Client
<1>4. CASE GetMsg
  BY <1>4 DEF GetMsg, Next, Cpu, Client
<1>5. CASE GetMsgReturned
  BY <1>5 DEF GetMsgReturned, Next, Cpu, Client
<1>6. CASE TrialDone
  BY <1>6 DEF TrialDone
<1>7. CASE Driver
  BY <1>7 DEF Driver, Next, Cpu
<1>8. CASE Radio
  BY <1>8 DEF Radio, Next
<1> QED BY <1>1, <1>2, <1>3, <1>4, <1>5, <1>6, <1>7, <1>8 DEF TestNext, Test

(* The tests run the driver, so what holds of it holds of them.            *)
THEOREM TestInvariant == Loopback => (TestSpec => []IInv)
<1> SUFFICES ASSUME Loopback PROVE TestSpec => []IInv
  OBVIOUS
<1>1. TestInit => IInv
  BY DriverInit DEF TestInit
<1>2. IInv /\ [TestNext]_allvars => IInv'
  BY TestIsDriver, DriverNext, DriverStutter
<1> QED BY <1>1, <1>2, PTL DEF TestSpec

(* The packets of a trial are finitely many.                               *)
LEMMA NewsFinite == ASSUME Loopback, Types PROVE IsFiniteSet(News)
<1>1. accepted[to] \in Seq(Packet)
  BY Directions DEF Types
<1>2. Len(accepted[to]) \in Nat /\ DOMAIN accepted[to] = 1 .. Len(accepted[to])
  BY <1>1
<1>3. IsFiniteSet(1 .. Len(accepted[to]))
  BY <1>2, FS_Interval
<1>4. News \subseteq 1 .. Len(accepted[to])
  BY <1>2 DEF News
<1> QED BY <1>3, <1>4, FS_Subset

(* One more packet taken in is one more packet of the trial.               *)
LEMMA NewsGrow ==
  ASSUME Loopback, Types, to' = to, Base' = Base, NEW p \in Packet, p[2] > Base,
         accepted'[to] = Append(accepted[to], p)
  PROVE  Cardinality(News') = Cardinality(News) + 1
<1>1. accepted[to] \in Seq(Packet)
  BY Directions DEF Types
<1>2. PICK a, b, k : a = accepted[to] /\ b = accepted'[to] /\ k = Len(a) + 1
  OBVIOUS
<1>3. /\ DOMAIN a = 1 .. Len(a) /\ DOMAIN b = 1 .. Len(a) + 1 /\ Len(a) \in Nat
      /\ b[Len(a) + 1] = p /\ \A x \in 1 .. Len(a) : b[x] = a[x]
  BY <1>1, <1>2, AppendProperties
<1>4. DOMAIN b = DOMAIN a \cup {k} /\ k \notin DOMAIN a /\ b[k] = p
      /\ \A x \in DOMAIN a : b[x] = a[x]
  BY <1>2, <1>3
<1>5. News = {x \in DOMAIN a : a[x][2] > Base}
      /\ News' = {x \in DOMAIN b : b[x][2] > Base}
  BY <1>2 DEF News
<1>6. News' = News \cup {k} /\ k \notin News
  BY <1>4, <1>5
<1> QED BY <1>6, NewsFinite, FS_AddElement

(* The numbers the test counts with.                                       *)
LEMMA TestTypes ==
  ASSUME Loopback, Types, TestInv
  PROVE  /\ Base \in Nat /\ BaseBack \in Nat /\ trial \in Nat /\ i \in Nat
         /\ npackets \in Nat /\ ntimeout \in Nat
         /\ nsent[from] \in Nat /\ nsent[to] \in Nat
         /\ Len(confirmed[from]) \in Nat /\ Len(confirmed[to]) \in Nat
         /\ Cardinality(News) \in Nat
<1>1. /\ trial \in Nat /\ i \in Nat /\ npackets \in Nat /\ ntimeout \in Nat
      /\ NTRIAL \in Nat
  BY Directions DEF TestInv
<1>2. trial \div 2 \in Nat /\ (trial + 1) \div 2 \in Nat
  BY <1>1
<1>3. \A x, y \in Nat : x * y \in Nat
  OBVIOUS
<1>4. Base \in Nat /\ BaseBack \in Nat
  BY <1>1, <1>2, <1>3 DEF Base, BaseBack
<1>5. \A n \in Node : nsent[n] \in Nat /\ Len(confirmed[n]) \in Nat
  <2>1. ASSUME NEW n \in Node PROVE nsent[n] \in 0 .. MaxSends /\ confirmed[n] \in Seq(Packet)
    BY DEF Types
  <2> QED BY <2>1, Constants
<1>6. Cardinality(News) \in Nat
  BY NewsFinite, FS_CardinalityType
<1> QED BY <1>1, <1>4, <1>5, <1>6, Directions

(* The direction and what it counts from last as long as the trial.        *)
LEMMA SameTrial ==
  ASSUME trial' = trial
  PROVE  from' = from /\ to' = to /\ Base' = Base /\ BaseBack' = BaseBack
<1>1. from' = from
  BY DEF from
<1> QED BY <1>1 DEF to, Base, BaseBack

(* A packet just numbered has not arrived.                                 *)
LEMMA NewestIsNew ==
  ASSUME Loopback, Types, Numbers(from), nsent'[from] = nsent[from] + 1,
         from' = from, accepted' = accepted
  PROVE  ~Arrived(from)'
<1>1. nsent[from] \in Nat
  BY Directions, Constants DEF Types
<1>2. \A x \in 1 .. Len(accepted[Peer[from]]) : accepted[Peer[from]][x][2] <= nsent[from]
  BY DEF Numbers, UpTo
<1>3. \A x \in 1 .. Len(accepted[Peer[from]]) : accepted[Peer[from]][x] \in Packet
  <2>1. accepted[Peer[from]] \in Seq(Packet)
    BY Directions DEF Types
  <2> QED BY <2>1
<1>4. \A p \in Packet : p[2] \in Int
  BY Constants DEF Packet
<1>5. ASSUME NEW x \in 1 .. Len(accepted[Peer[from]]),
             accepted[Peer[from]][x][2] = nsent[from] + 1
      PROVE  FALSE
  <2>1. accepted[Peer[from]][x][2] <= nsent[from]
    BY <1>2
  <2> QED BY <1>1, <1>5, <2>1
<1> QED BY <1>5 DEF Arrived

(* The send starts with nothing under way.                                 *)
LEMMA SendMsgKeeps ==
  ASSUME Loopback, IInv, TestInv, SendMsg PROVE TestInv'
<1> USE Directions
<1>1. Types /\ Numbers(from) /\ phase = "send" /\ i < NTRIAL /\ Counters /\ Places
  BY DEF IInv, SendMsg, TestInv
<1>2. trial' = trial /\ i' = i /\ npackets' = npackets /\ ntimeout' = ntimeout
      /\ phase' = "sending"
  BY DEF SendMsg
<1>3. from' = from /\ to' = to /\ Base' = Base /\ BaseBack' = BaseBack
  BY <1>2, SameTrial
<1>4. /\ nsent' = [nsent EXCEPT ![from] = @ + 1]
      /\ pc' = [pc EXCEPT ![from] = "has_packet"]
      /\ op' = [op EXCEPT ![from] = "send"]
      /\ UNCHANGED <<acked_p, chip, recvq, ret, msg, accepted, confirmed>>
  BY DEF SendMsg, SendCall, Call, Goto, drvvars
<1>5. /\ nsent'[from] = nsent[from] + 1 /\ nsent'[to] = nsent[to]
      /\ pc'[from] = "has_packet" /\ pc'[to] = pc[to]
      /\ op'[from] = "send"
  BY <1>1, <1>4 DEF Types
<1>6. ~Arrived(from)'
  BY <1>1, <1>3, <1>4, <1>5, NewestIsNew
<1>7. News' = News
  BY <1>3, <1>4 DEF News
<1>8. Counters'
  <2>1. npackets + 0 = npackets
    BY <1>1, TestTypes
  <2>2. nsent'[from] = Base + i + 1
    BY <1>1, <1>5, TestTypes DEF Counters
  <2>3. Len(confirmed[from]) = Base + i
    BY <1>1, TestTypes DEF Counters
  <2> QED BY <1>1, <1>2, <1>3, <1>4, <1>5, <1>6, <1>7, <2>1, <2>2, <2>3 DEF Counters
<1>9. Calm(from)' /\ Calm(to)'
  BY <1>1, <1>3, <1>4 DEF Places, Calm
<1>10. pc'[to] = "idle"
  BY <1>1, <1>5 DEF Places
<1>11. Delivery(to)'
  BY <1>3, <1>6, <1>9, <1>10 DEF Delivery, Calm
<1>12. Places'
  BY <1>1, <1>2, <1>3, <1>5, <1>9, <1>10, <1>11 DEF Places, Sending
<1> QED BY <1>2, <1>8, <1>12 DEF TestInv

(* The test goes on to receive when the send has returned.                 *)
LEMMA SendReturnedKeeps ==
  ASSUME Loopback, IInv, TestInv, SendReturned PROVE TestInv'
<1> USE Directions
<1>1. Types /\ phase = "sending" /\ pc[from] = "ret" /\ Counters /\ Places
  BY DEF IInv, SendReturned, ClientReturn, TestInv
<1>2. trial' = trial /\ i' = i /\ npackets' = npackets /\ ntimeout' = ntimeout
      /\ phase' = "receive"
  BY DEF SendReturned
<1>3. from' = from /\ to' = to /\ Base' = Base /\ BaseBack' = BaseBack
  BY <1>2, SameTrial
<1>4. /\ pc' = [pc EXCEPT ![from] = "idle"]
      /\ UNCHANGED <<acked_p, chip, recvq, nsent, accepted, confirmed>>
  BY DEF SendReturned, ClientReturn, Goto, drvvars, history
<1>5. pc'[from] = "idle" /\ pc'[to] = pc[to] /\ pc[to] = "idle"
  BY <1>1, <1>4 DEF Types, Places
<1>6. Arrived(from)' = Arrived(from) /\ News' = News /\ Newest' = Newest
  BY <1>3, <1>4 DEF Arrived, News, Newest
<1>7. Counters'
  BY <1>1, <1>2, <1>3, <1>4, <1>5, <1>6 DEF Counters
<1>8. Delivery(to)'
  BY <1>1, <1>3, <1>4, <1>5, <1>6 DEF Places, Delivery
<1>9. Places'
  BY <1>1, <1>2, <1>3, <1>4, <1>5, <1>6, <1>8 DEF Places, Calm
<1> QED BY <1>2, <1>7, <1>9 DEF TestInv

(* The receiver is asked for the packet.                                   *)
LEMMA GetMsgKeeps ==
  ASSUME Loopback, IInv, TestInv, GetMsg PROVE TestInv'
<1> USE Directions
<1>1. Types /\ phase = "receive" /\ Counters /\ Places
  BY DEF IInv, GetMsg, TestInv
<1>2. trial' = trial /\ i' = i /\ npackets' = npackets /\ ntimeout' = ntimeout
      /\ phase' = "receiving"
  BY DEF GetMsg
<1>3. from' = from /\ to' = to /\ Base' = Base /\ BaseBack' = BaseBack
  BY <1>2, SameTrial
<1>4. /\ pc' = [pc EXCEPT ![to] = "has_packet"] /\ op' = [op EXCEPT ![to] = "timeout"]
      /\ UNCHANGED <<acked_p, chip, recvq, ret, msg, nsent, accepted, confirmed>>
  BY DEF GetMsg, ReadCall, Call, Goto, drvvars
<1>5. pc'[to] = "has_packet" /\ pc'[from] = pc[from] /\ pc[to] = "idle"
      /\ pc[from] = "idle" /\ op'[to] = "timeout"
  BY <1>1, <1>4 DEF Types, Places
<1>10. chip'[to].tx = <<>>
  <2>1. Control(to)
    BY DEF IInv
  <2> QED BY <1>4, <1>5, <2>1 DEF Control, OnAir
<1>6. Arrived(from)' = Arrived(from) /\ News' = News /\ Newest' = Newest
  BY <1>3, <1>4 DEF Arrived, News, Newest
<1>7. Counters'
  BY <1>1, <1>2, <1>3, <1>4, <1>5, <1>6 DEF Counters
<1>8. Delivery(to)'
  BY <1>1, <1>3, <1>4, <1>5, <1>6 DEF Places, Delivery
<1>9. Places'
  BY <1>1, <1>2, <1>3, <1>4, <1>5, <1>6, <1>8, <1>10 DEF Places, Calm, Receiving
<1> QED BY <1>2, <1>7, <1>9 DEF TestInv

(* The value in a packet is its place in the trial.                        *)
LEMMA ValueOfNewest ==
  ASSUME Loopback, Types, TestInv, phase = "receiving",
         NEW m, m = Bytes(Newest)
  PROVE  Value(m[1][1]) = i
<1> USE Directions
<1>1. Counters /\ Places /\ i < NTRIAL
  BY DEF TestInv, Places
<1>2. trial \in Nat /\ i \in Nat /\ nsent[from] = Base + i + 1
  BY <1>1, TestTypes DEF Counters
<1>3. m[1] = <<Newest, 1>>
  <2>1. 1 \in 1 .. msg_nbytes
    BY Constants
  <2> QED BY <2>1 DEF Bytes
<1>4. m[1][1] = Newest /\ Newest[2] = nsent[from]
  BY <1>3 DEF Newest
<1>5. PICK q : q = trial \div 2
  OBVIOUS
<1>6. q \in Nat
  BY <1>2, <1>5
<1>7. nsent[from] - 1 = q * NTRIAL + i
  <2>1. q * NTRIAL \in Nat
    BY <1>6
  <2> QED BY <1>2, <1>5, <2>1 DEF Base
<1>8. (q * NTRIAL + i) % NTRIAL = i
  BY <1>1, <1>2, <1>6, ModUnique
<1> QED BY <1>4, <1>7, <1>8 DEF Value

(* The receive returns the packet, or says truly that it did not come.     *)
LEMMA GetMsgReturnedKeeps ==
  ASSUME Loopback, IInv, TestInv, GetMsgReturned PROVE TestInv'
<1> USE Directions
<1>1. Types /\ phase = "receiving" /\ pc[to] = "ret" /\ Counters /\ Places
  BY DEF IInv, GetMsgReturned, ClientReturn, TestInv
<1>2. trial' = trial
  BY DEF GetMsgReturned
<1>3. from' = from /\ to' = to /\ Base' = Base /\ BaseBack' = BaseBack
  BY <1>2, SameTrial
<1>4. /\ pc' = [pc EXCEPT ![to] = "idle"]
      /\ UNCHANGED <<acked_p, chip, recvq, nsent, accepted, confirmed>>
  BY DEF GetMsgReturned, ClientReturn, Goto, drvvars, history
<1>5. pc'[to] = "idle" /\ pc'[from] = pc[from] /\ pc[from] = "idle"
  BY <1>1, <1>4 DEF Types, Places
<1>6. News' = News
  BY <1>3, <1>4 DEF News
<1>7. /\ Calm(to) /\ i < NTRIAL /\ (acked_p = TRUE => Arrived(from))
      /\ IF Arrived(from) THEN ret[to] = msg_nbytes /\ msg[to] = Bytes(Newest)
         ELSE ret[to] = -1
  BY <1>1 DEF Places, Delivery
<1>8. /\ phase' = "send" /\ i' = i + 1
      /\ npackets' = npackets + (IF Arrived(from) THEN 1 ELSE 0)
      /\ ntimeout' = ntimeout + (IF Arrived(from) THEN 0 ELSE 1)
  <2>1. CASE Arrived(from)
    <3>1. ret[to] = msg_nbytes /\ Value(msg[to][1][1]) = i
      BY <1>1, <1>7, <2>1, ValueOfNewest
    <3>2. phase' = "send" /\ i' = i + 1 /\ npackets' = npackets + 1
          /\ ntimeout' = ntimeout
      BY <3>1 DEF GetMsgReturned
    <3>3. ntimeout + 0 = ntimeout
      BY <1>1, TestTypes
    <3> QED BY <2>1, <3>2, <3>3
  <2>2. CASE ~Arrived(from)
    <3>1. ret[to] = -1 /\ -1 # msg_nbytes
      BY <1>7, <2>2, Constants
    <3>2. phase' = "send" /\ i' = i + 1 /\ npackets' = npackets
          /\ ntimeout' = ntimeout + 1
      BY <3>1 DEF GetMsgReturned
    <3>3. npackets + 0 = npackets
      BY <1>1, TestTypes
    <3> QED BY <2>2, <3>2, <3>3
  <2> QED BY <2>1, <2>2
<1>9. Counters'
  <2>1. nsent'[from] = Base + i' + 0
    BY <1>1, <1>4, <1>8, TestTypes DEF Counters
  <2>2. Cardinality(News) = npackets' + 0
    BY <1>1, <1>8, TestTypes DEF Counters
  <2>3. npackets' + ntimeout' = i'
    BY <1>1, <1>8, TestTypes DEF Counters
  <2>4. acked_p = TRUE => ntimeout' = 0
    BY <1>1, <1>7, <1>8, TestTypes DEF Counters
  <2>5. Len(confirmed[from]) = nsent[from]
    BY <1>1 DEF Counters
  <2> QED BY <1>1, <1>3, <1>4, <1>6, <1>8, <2>1, <2>2, <2>3, <2>4, <2>5 DEF Counters
<1>10. Calm(from)' /\ Calm(to)'
  BY <1>1, <1>3, <1>4, <1>7 DEF Places, Calm
<1>11. Places'
  BY <1>3, <1>5, <1>8, <1>10 DEF Places
<1>12. i' \in 0 .. NTRIAL /\ npackets' \in Nat /\ ntimeout' \in Nat
  BY <1>1, <1>7, <1>8, TestTypes
<1> QED BY <1>2, <1>8, <1>9, <1>11, <1>12 DEF TestInv

(* Halves of a number and the next, and the way round.                     *)
LEMMA Halves ==
  ASSUME NEW x \in Nat
  PROVE  /\ ((x + 1) + 1) \div 2 = x \div 2 + 1
         /\ (x + 1) % 2 = IF x % 2 = 0 THEN 1 ELSE 0
<1>1. x \div 2 \in Nat
  OBVIOUS
<1>2. ((x + 1) + 1) \div 2 = x \div 2 + 1
  OBVIOUS
<1>3. (x + 1) % 2 = IF x % 2 = 0 THEN 1 ELSE 0
  OBVIOUS
<1> QED BY <1>2, <1>3

(* The next trial goes the other way and finds everything at rest.         *)
LEMMA TrialDoneKeeps ==
  ASSUME Loopback, IInv, TestInv, TrialDone PROVE TestInv'
<1> USE Directions
<1>1. Types /\ phase = "send" /\ i = NTRIAL /\ Counters /\ Places
      /\ trial \in Nat /\ Numbers(to)
  BY DEF IInv, TrialDone, TestInv
<1>2. ntimeout + npackets = NTRIAL
  BY <1>1, TestTypes DEF Counters
<1>3. trial' = trial + 1 /\ phase' \in {"done", "send"}
      /\ i' = 0 /\ npackets' = 0 /\ ntimeout' = 0
  BY <1>2 DEF TrialDone
<1>4. UNCHANGED <<acked_p, chip, recvq, pc, op, ret, msg, nsent, accepted, confirmed>>
  BY DEF TrialDone, vars, drvvars, callvars, history
<1>5. from' = to /\ to' = from
  <2>1. (trial + 1) % 2 = 0 <=> trial % 2 # 0
    BY <1>1, Halves
  <2>2. {server, client} = {from, to} /\ server # client
    <3>1. Node = {server, client}
      BY DEF Loopback
    <3>2. server # client
      BY <3>1 DEF from, to
    <3> QED BY <3>1, <3>2
  <2>3. from' = to
    BY <1>3, <2>1, <2>2 DEF from
  <2> QED BY <2>3 DEF to
<1>6. Base' = BaseBack /\ BaseBack' = Base + NTRIAL
  <2>1. Base' = BaseBack
    BY <1>3 DEF Base, BaseBack
  <2>2. PICK q : q = trial \div 2
    OBVIOUS
  <2>3. q \in Nat /\ (trial' + 1) \div 2 = q + 1
    BY <1>1, <1>3, <2>2, Halves
  <2>4. (q + 1) * NTRIAL = q * NTRIAL + NTRIAL
    BY <2>3
  <2> QED BY <2>1, <2>2, <2>3, <2>4 DEF Base, BaseBack
<1>7. News' = {}
  <2>1. \A x \in 1 .. Len(accepted[from]) : accepted[from][x][2] <= nsent[to]
    BY <1>1 DEF Numbers, UpTo
  <2>2. nsent[to] = BaseBack /\ BaseBack \in Nat
    BY <1>1, TestTypes DEF Counters
  <2>3. accepted[from] \in Seq(Packet) /\ \A p \in Packet : p[2] \in Int
    <3>1. accepted[from] \in Seq(Packet)
      BY <1>1 DEF Types
    <3>2. \A p \in Packet : p[2] \in Int
      BY Constants DEF Packet
    <3> QED BY <3>1, <3>2
  <2>4. ASSUME NEW x \in 1 .. Len(accepted[from]) PROVE ~(accepted[from][x][2] > BaseBack)
    <3>1. accepted[from][x][2] <= BaseBack
      BY <2>1, <2>2
    <3>2. accepted[from][x][2] \in Int
      BY <2>3
    <3> QED BY <2>2, <3>1, <3>2
  <2>5. News' = {k \in DOMAIN accepted[from] : accepted[from][k][2] > BaseBack}
    BY <1>4, <1>5, <1>6 DEF News
  <2>6. DOMAIN accepted[from] = 1 .. Len(accepted[from])
    BY <2>3
  <2> QED BY <2>4, <2>5, <2>6
<1>8. Counters' \/ phase' = "done"
  <2>1. Cardinality({}) = 0 /\ 0 + 0 = 0
    BY FS_EmptySet
  <2>2. nsent[from] = Base + NTRIAL /\ Len(confirmed[from]) = nsent[from]
    BY <1>1, TestTypes DEF Counters
  <2>3. nsent[to] = BaseBack + 0 + 0 /\ Len(confirmed[to]) = nsent[to]
    BY <1>1, TestTypes DEF Counters
  <2> QED BY <1>3, <1>4, <1>5, <1>6, <1>7, <2>1, <2>2, <2>3 DEF Counters
<1>9. Places' \/ phase' = "done"
  BY <1>1, <1>3, <1>4, <1>5 DEF Places, Calm
<1> QED BY <1>1, <1>3, <1>8, <1>9 DEF TestInv

(* The steps of a send touch the sender's transmitter and no more.         *)
LEMMA SendSteps ==
  ASSUME Loopback, IInv, TestInv, phase = "sending", Step(from)
  PROVE  /\ pc[from] # "ret"
         /\ op'[from] = op[from] /\ pc'[from] \in Sending
         /\ recvq' = recvq /\ nsent' = nsent /\ chip'[from].rx = chip[from].rx
         /\ \/ pc'[from] # "ret" /\ confirmed'[from] = confirmed[from]
            \/ /\ pc[from] = "rx_mode" /\ pc'[from] = "ret"
               /\ confirmed'[from] = Append(confirmed[from], Newest)
<1> USE Directions
<1>1. Types /\ Control(from) /\ op[from] = "send" /\ pc[from] \in Sending
      /\ chip[from].rx = <<>>
  BY DEF IInv, TestInv, Places, Calm
<1>2. pc[from] \notin {"pipeid", "payload", "intr_clr", "more", "avail", "timeout"}
  BY <1>1 DEF Sending, OnAir
<1>3. Cpu(from) /\ ~GetPktsRead(from) /\ ~GetDataPop(from)
  BY <1>2 DEF Cpu, GetPktsRead, GetDataPop
<1>4. chip'[from].rx = chip[from].rx /\ recvq' = recvq
  BY <1>1, <1>3, QueueAlone
<1>5. pc \in [Node -> PCs] /\ confirmed \in [Node -> Seq(Packet)]
  BY <1>1 DEF Types
<1>6. CASE GetPktsStart(from)
  <2>1. pc'[from] = "tx_mode" /\ op' = op /\ nsent' = nsent /\ confirmed' = confirmed
    BY <1>1, <1>5, <1>6 DEF GetPktsStart, GetPktsReturn, Goto, callvars, history
  <2> QED BY <1>4, <1>6, <2>1 DEF GetPktsStart, Sending
<1>7. CASE RxMode(from)
  <2>1. pc[from] = "rx_mode" /\ pc'[from] = "ret" /\ op' = op /\ nsent' = nsent
        /\ confirmed'[from] = Append(confirmed[from], Newest)
    BY <1>5, <1>7 DEF RxMode, Return, Goto, Newest
  <2> QED BY <1>4, <2>1 DEF Sending
<1>8. CASE Transmit(from) /\ ~RxMode(from)
  <2>1. op' = op /\ nsent' = nsent /\ confirmed' = confirmed
    BY <1>8 DEF Transmit, TxMode, TxCheck, DoTx, WaitEmpty, WaitTx, WaitRetran,
                WaitRxFull, TxIntrClear, callvars, history
  <2>2. pc[from] # "ret" /\ pc'[from] \in Sending \ {"ret"}
    BY <1>5, <1>8 DEF Transmit, TxMode, TxCheck, DoTx, WaitEmpty, WaitTx, WaitRetran,
                WaitRxFull, TxIntrClear, Goto, Panic, Sending, OnAir
  <2> QED BY <1>4, <2>1, <2>2
<1>9. GetPktsStart(from) \/ Transmit(from)
  BY <1>2 DEF Step, GetPkts, GetData, GetPktsPipe, GetPktsRead, GetPktsClear,
              GetPktsMore, GetDataPop, GetDataShort, TimedOut, TimeLeft
<1> QED BY <1>6, <1>7, <1>8, <1>9

(* A send in progress leaves the receiver alone.                           *)
LEMMA SendingKeeps ==
  ASSUME Loopback, IInv, TestInv, phase = "sending", Step(from), UNCHANGED tstvars
  PROVE  TestInv'
<1> USE Directions
<1>1. Types /\ Numbers(from) /\ Counters /\ Places
  BY DEF IInv, TestInv
<1>2. trial' = trial /\ i' = i /\ npackets' = npackets /\ ntimeout' = ntimeout
      /\ phase' = phase
  BY DEF tstvars
<1>3. from' = from /\ to' = to /\ Base' = Base /\ BaseBack' = BaseBack
  BY <1>2, SameTrial
<1>4. /\ pc[from] # "ret"
      /\ op'[from] = op[from] /\ pc'[from] \in Sending
      /\ recvq' = recvq /\ nsent' = nsent /\ chip'[from].rx = chip[from].rx
      /\ \/ pc'[from] # "ret" /\ confirmed'[from] = confirmed[from]
         \/ /\ pc[from] = "rx_mode" /\ pc'[from] = "ret"
            /\ confirmed'[from] = Append(confirmed[from], Newest)
  BY SendSteps
<1>5. Alone(from)
  <2>1. Cpu(from)
    BY DEF Cpu
  <2> QED BY <1>1, <2>1, CpuAlone
<1>6. /\ acked_p' = acked_p /\ accepted' = accepted /\ chip'[to] = chip[to]
      /\ pc'[to] = pc[to] /\ confirmed'[to] = confirmed[to]
  BY <1>5 DEF Alone
<1>7. Arrived(from)' = Arrived(from) /\ News' = News /\ Newest' = Newest
  BY <1>3, <1>4, <1>6 DEF Arrived, News, Newest
<1>8. Len(confirmed'[from]) = IF pc'[from] # "ret" THEN Base + i ELSE nsent[from]
  <2>1. Len(confirmed[from]) = Base + i /\ nsent[from] = Base + i + 1
    BY <1>1, <1>4 DEF Counters
  <2>2. confirmed[from] \in Seq(Packet)
    BY <1>1 DEF Types
  <2>3. ASSUME confirmed'[from] = Append(confirmed[from], Newest)
        PROVE  Len(confirmed'[from]) = Len(confirmed[from]) + 1
    BY <2>2, <2>3
  <2> QED BY <1>4, <2>1, <2>3
<1>9. Counters'
  BY <1>1, <1>2, <1>3, <1>4, <1>6, <1>7, <1>8 DEF Counters
<1>10. acked_p = TRUE /\ pc'[from] = "ret" => Arrived(from)
  BY <1>1, <1>4 DEF Numbers
<1>11. Delivery(to)'
  BY <1>1, <1>3, <1>4, <1>6, <1>7 DEF Places, Delivery
<1>12. Calm(from)'
  BY <1>1, <1>3, <1>4 DEF Places, Calm
<1>13. Places'
  BY <1>1, <1>2, <1>3, <1>4, <1>6, <1>7, <1>10, <1>11, <1>12 DEF Places
<1> QED BY <1>2, <1>9, <1>13 DEF TestInv

(* A packet that is stored is the newest; the receiver had not got it.     *)
LEMMA RadioKeeps ==
  ASSUME Loopback, IInv, TestInv, Radio PROVE TestInv'
<1> USE Directions
<1>1. Types /\ \A n \in Node : Control(n) /\ Numbers(n)
  BY DEF IInv
<1>2. trial' = trial /\ i' = i /\ npackets' = npackets /\ ntimeout' = ntimeout
      /\ phase' = phase
  BY DEF Radio, tstvars
<1>3. from' = from /\ to' = to /\ Base' = Base /\ BaseBack' = BaseBack
  BY <1>2, SameTrial
<1>4. CASE phase = "done"
  BY <1>2, <1>4 DEF TestInv
<1> SUFFICES ASSUME phase # "done" PROVE TestInv'
  BY <1>4
<1>5. Counters /\ Places
  BY DEF TestInv
<1>6. PICK s \in Node : Air(s)
  BY DEF Radio
<1>7. PICK p : p = Head(chip[s].tx)
  OBVIOUS
<1>8. OnTheAir(s, Peer[s], p)
  BY <1>1, <1>6, <1>7, AirFacts
<1>9. chip[s].tx # <<>>
  BY <1>8 DEF OnTheAir
<1>10. pc[s] # "idle" /\ pc[s] \in OnAir \cup {"tx_intr_clr", "panic"}
  BY <1>1, <1>9 DEF Control, OnAir
<1>11. phase = "sending" /\ s = from
  <2>1. s = from \/ s = to
    OBVIOUS
  <2>2. phase \in {"send", "sending", "receive", "receiving"}
    BY DEF TestInv
  <2>3. CASE phase \in {"send", "receive"}
    BY <1>5, <1>10, <2>1, <2>3 DEF Places
  <2>4. CASE phase = "receiving"
    <3>1. chip[to].tx = <<>> /\ pc[from] = "idle"
      BY <1>5, <2>4 DEF Places
    <3> QED BY <1>9, <1>10, <2>1, <3>1
  <2>5. CASE phase = "sending"
    BY <1>5, <1>10, <2>1, <2>5 DEF Places
  <2> QED BY <2>2, <2>3, <2>4, <2>5
<1>12. OnTheAir(from, to, p)
  BY <1>8, <1>11
<1>13. p = Newest /\ p \in Packet
  <2>1. chip[from].tx = <<Newest>>
    BY <1>1, <1>9, <1>11 DEF Control, Newest
  <2>2. Head(<<Newest>>) = Newest
    OBVIOUS
  <2> QED BY <1>7, <1>11, <1>12, <2>1, <2>2 DEF OnTheAir
<1>14. /\ UNCHANGED <<acked_p, recvq, pc, op, ret, msg, nsent, confirmed>>
       /\ chip'[from].rx = chip[from].rx /\ chip' \in [Node -> Chip]
  BY <1>12 DEF OnTheAir, Transmitted
<1>15. Newest' = Newest
  BY <1>3, <1>14 DEF Newest
<1>16. Calm(from)'
  BY <1>3, <1>5, <1>14 DEF Places, Calm
<1>17. CASE Missed(to)
  <2>1. chip'[to] = chip[to] /\ accepted' = accepted
    BY <1>17 DEF Missed
  <2>2. Arrived(from)' = Arrived(from) /\ News' = News
    BY <1>3, <1>14, <2>1 DEF Arrived, News
  <2>3. Counters'
    BY <1>2, <1>3, <1>5, <1>14, <2>2 DEF Counters
  <2>4. Delivery(to)'
    BY <1>3, <1>5, <1>11, <1>14, <1>15, <2>1, <2>2 DEF Places, Delivery, Calm
  <2>5. Places'
    BY <1>2, <1>3, <1>5, <1>11, <1>14, <1>16, <2>2, <2>4 DEF Places
  <2> QED BY <1>2, <2>3, <2>5 DEF TestInv
<1>18. CASE Stored(to, p)
  <2>1. accepted[to] \in Seq(Packet) /\ accepted \in [Node -> Seq(Packet)]
        /\ nsent[from] \in 0 .. MaxSends
    BY <1>1 DEF Types
  <2>2. /\ chip'[to].rx = Append(chip[to].rx, p) /\ ~IsRepeat(to, p)
        /\ accepted'[to] = Append(accepted[to], p)
    BY <1>18, <2>1 DEF Stored
  <2>3. ~Arrived(from)
    <3>1. Before(from, accepted[to])
      BY <1>1, <1>7, <1>9, <1>11, <1>13, <2>2, OnAirIsNew
    <3>2. ASSUME NEW x \in 1 .. Len(accepted[to]), accepted[to][x][2] = nsent[from]
          PROVE  FALSE
      <4>1. nsent[from] < nsent[from] /\ nsent[from] \in Int
        BY <2>1, <3>1, <3>2, Constants DEF Before
      <4> QED BY <4>1
    <3> QED BY <3>2 DEF Arrived
  <2>4. Newest[2] = nsent[from]
    BY DEF Newest
  <2>5. Arrived(from)'
    <3>1. /\ Len(accepted'[to]) = Len(accepted[to]) + 1 /\ Len(accepted[to]) \in Nat
          /\ accepted'[to][Len(accepted[to]) + 1] = p
      BY <1>13, <2>1, <2>2, AppendProperties
    <3>2. Len(accepted[to]) + 1 \in 1 .. Len(accepted'[to])
      BY <3>1
    <3>3. nsent'[from] = nsent[from]
      BY <1>14
    <3> QED BY <1>3, <1>13, <2>4, <3>1, <3>2, <3>3 DEF Arrived
  <2>6. pc[to] = "idle"
    BY <1>5, <1>11 DEF Places
  <2>7. chip'[to].rx = <<Newest>>
    <3>1. chip[to].rx = <<>>
      BY <1>5, <1>11, <2>3, <2>6 DEF Places, Delivery
    <3> QED BY <1>13, <2>2, <3>1
  <2>8. recvq[to] = <<>>
    BY <1>5, <1>11, <2>6 DEF Places, Delivery
  <2>9. Delivery(to)'
    BY <1>3, <1>14, <1>15, <2>5, <2>6, <2>7, <2>8 DEF Delivery
  <2>10. Cardinality(News') = Cardinality(News) + 1
    <3>1. nsent[from] = Base + i + 1
      BY <1>5, <1>11 DEF Counters
    <3>2. p[2] > Base
      BY <1>1, <1>13, <2>4, <3>1, TestTypes
    <3> QED BY <1>1, <1>3, <1>13, <2>2, <3>2, NewsGrow
  <2>11. Counters'
    <3>1. Cardinality(News) = npackets + 0
      BY <1>5, <1>11, <2>3 DEF Counters
    <3>2. Cardinality(News') = npackets + 1
      BY <1>1, <2>10, <3>1, TestTypes
    <3> QED BY <1>2, <1>3, <1>5, <1>11, <1>14, <2>5, <3>2 DEF Counters
  <2>12. Places'
    BY <1>2, <1>3, <1>5, <1>11, <1>14, <1>16, <2>5, <2>9 DEF Places
  <2> QED BY <1>2, <2>11, <2>12 DEF TestInv
<1> QED BY <1>12, <1>17, <1>18 DEF OnTheAir

(* A step of the receiver that leaves its chip and its queue alone.        *)
LEMMA DeliverySame ==
  ASSUME Loopback, Arrived(from)' = Arrived(from), Newest' = Newest, to' = to,
         chip' = chip, recvq' = recvq, ret' = ret, msg' = msg, Delivery(to),
         \/ pc'[to] = "panic"
         \/ pc[to] = "has_packet" /\ pc'[to] = "pipeid"
         \/ pc[to] = "pipeid" /\ pc'[to] = "payload"
         \/ pc[to] = "has_packet" /\ chip[to].rx = <<>> /\ pc'[to] = "avail"
         \/ pc[to] = "more" /\ pc'[to] = "avail"
         \/ pc[to] = "timeout" /\ pc'[to] = "has_packet"
  PROVE  Delivery(to)'
<1>1. <<Newest>> # <<>>
  OBVIOUS
<1>2. CASE pc'[to] = "panic"
  BY <1>2 DEF Delivery
<1>3. CASE pc[to] = "has_packet" /\ pc'[to] = "pipeid"
  BY <1>3 DEF Delivery
<1>4. CASE pc[to] = "pipeid" /\ pc'[to] = "payload"
  BY <1>4 DEF Delivery
<1>5. CASE pc[to] = "has_packet" /\ chip[to].rx = <<>> /\ pc'[to] = "avail"
  BY <1>1, <1>5 DEF Delivery
<1>6. CASE pc[to] = "more" /\ pc'[to] = "avail"
  BY <1>6 DEF Delivery
<1>7. CASE pc[to] = "timeout" /\ pc'[to] = "has_packet"
  BY <1>7 DEF Delivery, Calm
<1> QED BY <1>2, <1>3, <1>4, <1>5, <1>6, <1>7

(* The receiver finds the packet if it arrived, and nothing otherwise.     *)
LEMMA ReceiveSteps ==
  ASSUME Loopback, IInv, TestInv, phase = "receiving", Step(to), trial' = trial
  PROVE  /\ op'[to] = op[to] /\ pc'[to] \in Receiving
         /\ nsent' = nsent /\ confirmed' = confirmed /\ chip'[to].tx = <<>>
         /\ Delivery(to)'
<1> USE Directions
<1>1. Types /\ Control(to) /\ op[to] = "timeout" /\ pc[to] \in Receiving
      /\ chip[to].tx = <<>> /\ Delivery(to) /\ Counters
  BY DEF IInv, TestInv, Places
<1>2. from' = from /\ to' = to
  BY SameTrial
<1>3. Alone(to)
  <2>1. Cpu(to)
    BY DEF Cpu
  <2> QED BY <1>1, <2>1, CpuAlone
<1>4. nsent'[from] = nsent[from] /\ accepted' = accepted
  BY <1>3 DEF Alone
<1>5. Arrived(from)' = Arrived(from) /\ Newest' = Newest
  BY <1>2, <1>4 DEF Arrived, Newest
<1>6. /\ pc \in [Node -> PCs] /\ ret \in [Node -> {-1, 0, ReadBytes, msg_nbytes}]
      /\ recvq \in [Node -> Seq(Byte)] /\ msg \in [Node -> Seq(Byte)]
      /\ chip \in [Node -> Chip]
  BY <1>1 DEF Types
<1>7. Arrived(from) => Newest \in Packet
  <2>1. nsent[from] \in 0 .. MaxSends /\ nsent[from] = Base + i + 1
    BY <1>1 DEF Types, Counters
  <2>2. nsent[from] \in 1 .. MaxSends
    BY <1>1, <2>1, TestTypes, Constants
  <2> QED BY <2>2 DEF Newest, Packet
<1>8. CASE GetPktsStart(to)
  <2>1. /\ op' = op /\ nsent' = nsent /\ confirmed' = confirmed /\ chip' = chip
        /\ recvq' = recvq /\ ret' = ret /\ msg' = msg
    BY <1>8 DEF GetPktsStart, drvvars, callvars, history
  <2>2. \/ pc[to] = "has_packet" /\ pc'[to] = "pipeid"
        \/ pc[to] = "has_packet" /\ chip[to].rx = <<>> /\ pc'[to] = "avail"
    BY <1>1, <1>6, <1>8 DEF GetPktsStart, GetPktsReturn, Goto
  <2>3. Delivery(to)'
    BY <1>1, <1>2, <1>5, <2>1, <2>2, DeliverySame
  <2> QED BY <1>1, <2>1, <2>2, <2>3 DEF Receiving, Fetching
<1>9. CASE GetPktsPipe(to)
  <2>1. /\ op' = op /\ nsent' = nsent /\ confirmed' = confirmed /\ chip' = chip
        /\ recvq' = recvq /\ ret' = ret /\ msg' = msg
    BY <1>9 DEF GetPktsPipe, drvvars, callvars, history
  <2>2. \/ pc'[to] = "panic"
        \/ pc[to] = "pipeid" /\ pc'[to] = "payload"
    BY <1>6, <1>9 DEF GetPktsPipe, Goto, Panic
  <2>3. Delivery(to)'
    BY <1>1, <1>2, <1>5, <2>1, <2>2, DeliverySame
  <2> QED BY <1>1, <2>1, <2>2, <2>3 DEF Receiving, Fetching
<1>10. CASE GetPktsRead(to)
  <2>1. op' = op /\ nsent' = nsent /\ confirmed' = confirmed
    BY <1>10 DEF GetPktsRead, callvars, history
  <2>2. chip'[to].rx = Tail(chip[to].rx) /\ chip'[to].tx = chip[to].tx
    BY <1>1, <1>10, ReadChip
  <2>3. pc[to] = "payload" /\ chip[to].rx # <<>>
    BY <1>1, <1>10 DEF GetPktsRead, Control
  <2>4. Arrived(from) /\ chip[to].rx = <<Newest>> /\ recvq[to] = <<>>
    BY <1>1, <2>3 DEF Delivery
  <2>5. CASE pc'[to] = "panic"
    BY <1>1, <1>2, <2>1, <2>2, <2>5 DEF Delivery, Receiving
  <2>6. CASE pc'[to] # "panic"
    <3>1. pc'[to] = "intr_clr" /\ recvq'[to] = recvq[to] \o Bytes(Head(chip[to].rx))
      BY <1>6, <1>10, <2>6 DEF GetPktsRead, Goto, Panic
    <3>2. Head(<<Newest>>) = Newest /\ Tail(<<Newest>>) = <<>>
      OBVIOUS
    <3>3. <<>> \o Bytes(Newest) = Bytes(Newest)
      BY <1>7, <2>4, BytesFacts, ConcatEmptySeq
    <3>4. recvq'[to] = Bytes(Newest) /\ chip'[to].rx = <<>>
      BY <2>2, <2>4, <3>1, <3>2, <3>3
    <3> QED BY <1>1, <1>2, <1>5, <2>1, <2>2, <2>4, <3>1, <3>4
            DEF Delivery, Receiving, Fetching
  <2> QED BY <2>5, <2>6
<1>11. CASE GetPktsClear(to)
  <2>1. /\ op' = op /\ nsent' = nsent /\ confirmed' = confirmed /\ recvq' = recvq
        /\ pc[to] = "intr_clr" /\ pc'[to] = "more"
    BY <1>6, <1>11 DEF GetPktsClear, Goto, drvvars, callvars, history
  <2>2. chip' = [chip EXCEPT ![to].rx_dr = FALSE]
    BY <1>11 DEF GetPktsClear
  <2>3. chip'[to].rx = chip[to].rx /\ chip'[to].tx = chip[to].tx
    BY <1>6, <2>2, ChipEdits
  <2>4. Delivery(to)'
    BY <1>1, <1>2, <1>5, <2>1, <2>3 DEF Delivery
  <2> QED BY <1>1, <2>1, <2>3, <2>4 DEF Receiving, Fetching
<1>12. CASE GetPktsMore(to)
  <2>1. /\ op' = op /\ nsent' = nsent /\ confirmed' = confirmed /\ chip' = chip
        /\ recvq' = recvq /\ ret' = ret /\ msg' = msg
    BY <1>12 DEF GetPktsMore, drvvars, callvars, history
  <2>2. chip[to].rx = <<>>
    BY <1>1, <1>12 DEF GetPktsMore, Delivery
  <2>3. pc[to] = "more" /\ pc'[to] = "avail"
    BY <1>1, <1>6, <1>12, <2>2 DEF GetPktsMore, GetPktsReturn, Goto
  <2>4. Delivery(to)'
    BY <1>1, <1>2, <1>5, <2>1, <2>3, DeliverySame
  <2> QED BY <1>1, <2>1, <2>3, <2>4 DEF Receiving
<1>13. CASE GetDataPop(to)
  <2>1. /\ op' = op /\ nsent' = nsent /\ confirmed' = confirmed /\ chip' = chip
        /\ pc[to] = "avail" /\ pc'[to] = "ret" /\ ret'[to] = msg_nbytes
        /\ Len(recvq[to]) >= msg_nbytes
        /\ msg'[to] = SubSeq(recvq[to], 1, msg_nbytes)
        /\ recvq'[to] = SubSeq(recvq[to], msg_nbytes + 1, Len(recvq[to]))
    BY <1>6, <1>13 DEF GetDataPop, Return, Goto
  <2>2. Arrived(from) /\ recvq[to] = Bytes(Newest) /\ chip[to].rx = <<>>
    <3>1. recvq[to] # <<>>
      <4>1. Len(<<>>) = 0 /\ ~(0 >= msg_nbytes)
        BY Constants
      <4> QED BY <2>1, <4>1
    <3> QED BY <1>1, <2>1, <3>1 DEF Delivery
  <2>3. PICK b : b = Bytes(Newest)
    OBVIOUS
  <2>4. b \in Seq(Byte) /\ Len(b) = msg_nbytes
    BY <1>7, <2>2, <2>3, BytesFacts
  <2>5. SubSeq(b, 1, msg_nbytes) = b
    <3>1. b \o <<>> = b /\ <<>> \in Seq(Byte)
      BY <2>4, ConcatEmptySeq
    <3>2. SubSeq(b \o <<>>, 1, Len(b)) = b
      BY <2>4, <3>1, PrefixIsCut
    <3> QED BY <2>4, <3>1, <3>2
  <2>6. SubSeq(b, msg_nbytes + 1, Len(b)) = <<>>
    <3>1. msg_nbytes < msg_nbytes + 1 /\ msg_nbytes \in Int /\ msg_nbytes + 1 \in Int
      BY Constants
    <3> QED BY <2>4, <3>1, SubSeqEmpty
  <2>7. msg'[to] = Bytes(Newest) /\ recvq'[to] = <<>>
    BY <2>1, <2>2, <2>3, <2>5, <2>6
  <2> QED BY <1>1, <1>2, <1>5, <2>1, <2>2, <2>7 DEF Delivery, Receiving, Calm
<1>14. CASE GetDataShort(to)
  <2>1. /\ op' = op /\ nsent' = nsent /\ confirmed' = confirmed /\ chip' = chip
        /\ recvq' = recvq /\ pc[to] = "avail" /\ pc'[to] = "timeout"
    BY <1>1, <1>6, <1>14 DEF GetDataShort, Goto, drvvars, history
  <2>2. ~Arrived(from)
    <3> SUFFICES ASSUME Arrived(from) PROVE FALSE
      OBVIOUS
    <3>1. Len(recvq[to]) = msg_nbytes
      BY <1>1, <1>7, <2>1, BytesFacts DEF Delivery
    <3>2. Len(recvq[to]) < msg_nbytes
      BY <1>14 DEF GetDataShort
    <3> QED BY <3>1, <3>2, Constants
  <2>3. Delivery(to)'
    BY <1>1, <1>2, <1>5, <2>1, <2>2 DEF Delivery, Calm
  <2> QED BY <1>1, <2>1, <2>3 DEF Receiving
<1>15. CASE TimedOut(to)
  <2>1. /\ op' = op /\ nsent' = nsent /\ confirmed' = confirmed /\ chip' = chip
        /\ recvq' = recvq /\ pc[to] = "timeout" /\ pc'[to] = "ret" /\ ret'[to] = -1
    BY <1>1, <1>6, <1>15 DEF TimedOut, Return, Goto, drvvars, history
  <2>2. Delivery(to)'
    BY <1>1, <1>2, <1>5, <2>1 DEF Delivery, Calm
  <2> QED BY <1>1, <2>1, <2>2 DEF Receiving
<1>16. CASE TimeLeft(to)
  <2>1. /\ op' = op /\ nsent' = nsent /\ confirmed' = confirmed /\ chip' = chip
        /\ recvq' = recvq /\ ret' = ret /\ msg' = msg
        /\ pc[to] = "timeout" /\ pc'[to] = "has_packet"
    BY <1>6, <1>16 DEF TimeLeft, Goto, drvvars, callvars, history
  <2>2. Delivery(to)'
    BY <1>1, <1>2, <1>5, <2>1, DeliverySame
  <2> QED BY <1>1, <2>1, <2>2 DEF Receiving
<1>17. GetPkts(to) \/ GetData(to)
  <2>1. ~Transmit(to)
    BY <1>1 DEF Receiving, Fetching, Transmit, TxMode, TxCheck, DoTx, WaitEmpty,
                WaitTx, WaitRetran, WaitRxFull, TxIntrClear, RxMode
  <2> QED BY <2>1 DEF Step
<1> QED BY <1>8, <1>9, <1>10, <1>11, <1>12, <1>13, <1>14, <1>15, <1>16, <1>17
        DEF GetPkts, GetData

(* A receive in progress.                                                  *)
LEMMA ReceivingKeeps ==
  ASSUME Loopback, IInv, TestInv, phase = "receiving", Step(to), UNCHANGED tstvars
  PROVE  TestInv'
<1> USE Directions
<1>1. Types /\ Counters /\ Places
  BY DEF IInv, TestInv
<1>2. trial' = trial /\ i' = i /\ npackets' = npackets /\ ntimeout' = ntimeout
      /\ phase' = phase
  BY DEF tstvars
<1>3. from' = from /\ to' = to /\ Base' = Base /\ BaseBack' = BaseBack
  BY <1>2, SameTrial
<1>4. /\ op'[to] = op[to] /\ pc'[to] \in Receiving
      /\ nsent' = nsent /\ confirmed' = confirmed /\ chip'[to].tx = <<>>
      /\ Delivery(to)'
  BY <1>2, ReceiveSteps
<1>5. /\ acked_p' = acked_p /\ accepted' = accepted /\ chip'[from] = chip[from]
      /\ recvq'[from] = recvq[from] /\ pc'[from] = pc[from]
  <2>1. Cpu(to)
    BY DEF Cpu
  <2> QED BY <1>1, <2>1, CpuAlone DEF Alone
<1>6. Arrived(from)' = Arrived(from) /\ News' = News
  BY <1>3, <1>4, <1>5 DEF Arrived, News
<1>7. Counters'
  BY <1>1, <1>2, <1>3, <1>4, <1>5, <1>6 DEF Counters
<1>8. Calm(from)'
  BY <1>1, <1>3, <1>5 DEF Places, Calm
<1>9. Places'
  BY <1>1, <1>2, <1>3, <1>4, <1>5, <1>6, <1>8 DEF Places
<1> QED BY <1>2, <1>7, <1>9 DEF TestInv

(* The tests start with the direction of trial 0 and nothing sent.         *)
LEMMA TestStarts == ASSUME Loopback, TestInit PROVE TestInv
<1> USE Directions
<1>1. /\ phase = "send" /\ trial = 0 /\ i = 0 /\ npackets = 0 /\ ntimeout = 0
      /\ \A n \in Node : /\ chip[n].rx = <<>> /\ recvq[n] = <<>> /\ pc[n] = "idle"
                         /\ nsent[n] = 0 /\ accepted[n] = <<>> /\ confirmed[n] = <<>>
  BY DEF TestInit, Init
<1>2. Base = 0 /\ BaseBack = 0
  <2>1. 0 \div 2 = 0 /\ (0 + 1) \div 2 = 0 /\ 0 * NTRIAL = 0
    OBVIOUS
  <2> QED BY <1>1, <2>1 DEF Base, BaseBack
<1>3. News = {} /\ Cardinality({}) = 0 /\ Len(<<>>) = 0
  BY <1>1, FS_EmptySet DEF News
<1>4. Counters
  BY <1>1, <1>2, <1>3 DEF Counters
<1>5. Places
  BY <1>1 DEF Places, Calm
<1> QED BY <1>1, <1>4, <1>5 DEF TestInv

(* Every step of the tests keeps their invariant.                          *)
LEMMA TestStep ==
  ASSUME Loopback, IInv, TestInv, [TestNext]_allvars PROVE TestInv'
<1>1. CASE SendMsg
  BY <1>1, SendMsgKeeps
<1>2. CASE SendReturned
  BY <1>2, SendReturnedKeeps
<1>3. CASE GetMsg
  BY <1>3, GetMsgKeeps
<1>4. CASE GetMsgReturned
  BY <1>4, GetMsgReturnedKeeps
<1>5. CASE TrialDone
  BY <1>5, TrialDoneKeeps
<1>6. CASE Driver
  BY <1>6, SendingKeeps, ReceivingKeeps DEF Driver
<1>7. CASE Radio
  BY <1>7, RadioKeeps
<1>8. CASE UNCHANGED allvars
  <2>1. UNCHANGED <<acked_p, chip, recvq, pc, op, ret, msg, nsent, accepted,
                    confirmed, phase, trial, i, npackets, ntimeout>>
    BY <1>8 DEF allvars, vars, drvvars, callvars, history, tstvars
  <2>2. from' = from /\ to' = to /\ Base' = Base /\ BaseBack' = BaseBack
    BY <2>1, SameTrial
  <2>3. Arrived(from)' = Arrived(from) /\ News' = News /\ Newest' = Newest
    BY <2>1, <2>2 DEF Arrived, News, Newest
  <2>4. Delivery(to)' = Delivery(to) /\ Calm(to)' = Calm(to) /\ Calm(from)' = Calm(from)
    BY <2>1, <2>2, <2>3 DEF Delivery, Calm
  <2>5. Counters' = Counters /\ Places' = Places
    BY <2>1, <2>2, <2>3, <2>4 DEF Counters, Places
  <2> QED BY <2>1, <2>5 DEF TestInv
<1> QED BY <1>1, <1>2, <1>3, <1>4, <1>5, <1>6, <1>7, <1>8 DEF TestNext, Test

(* The invariant of the tests.                                             *)
THEOREM TestsInvariant == Loopback => (TestSpec => []TestInv)
<1> SUFFICES ASSUME Loopback PROVE TestSpec => []TestInv
  OBVIOUS
<1>1. TestInit => TestInv
  BY TestStarts
<1>2. IInv /\ TestInv /\ [TestNext]_allvars => TestInv'
  BY TestStep
<1>3. TestSpec => []IInv
  BY TestInvariant
<1> QED BY <1>1, <1>2, <1>3, PTL DEF TestSpec

(* A receive times out for exactly the packets the chip never took in, and *)
(* never over acknowledged pipes; between packets both radios are at rest. *)
THEOREM TimeoutsAreLossesHolds == Loopback => (TestSpec => []TimeoutsAreLosses)
<1> SUFFICES ASSUME Loopback PROVE TestSpec => []TimeoutsAreLosses
  OBVIOUS
<1> USE Directions
<1>1. IInv /\ TestInv => TimeoutsAreLosses
  <2> SUFFICES ASSUME IInv, TestInv, phase = "send" PROVE TimeoutsAreLosses
    BY DEF TimeoutsAreLosses
  <2>1. Types /\ Counters /\ Places /\ \A n \in Node : Control(n)
    BY DEF IInv, TestInv
  <2>2. Len(confirmed[from]) = (trial \div 2) * NTRIAL + i
    BY <2>1, TestTypes DEF Counters, Base
  <2>3. npackets = Cardinality({k \in DOMAIN accepted[to] :
                     accepted[to][k][2] > (trial \div 2) * NTRIAL})
    BY <2>1, TestTypes DEF Counters, News, Base
  <2>4. acked_p => ntimeout = 0
    BY <2>1 DEF Counters, Types
  <2>5. ASSUME NEW n \in Node
        PROVE  /\ Listening(n) /\ chip[n].tx = <<>> /\ ~chip[n].tx_ds
               /\ chip[n].rx = <<>> /\ recvq[n] = <<>>
    <3>1. pc[n] = "idle" /\ Calm(n)
      BY <2>1 DEF Places
    <3> QED BY <2>1, <3>1 DEF Control, InTx, OnAir, Calm
  <2> QED BY <2>2, <2>3, <2>4, <2>5 DEF TimeoutsAreLosses
<1>2. TestSpec => []IInv
  BY TestInvariant
<1>3. TestSpec => []TestInv
  BY TestsInvariant
<1> QED BY <1>1, <1>2, <1>3, PTL

(* No value differs from what was sent, and the counters of a trial add up *)
(* to its packets: the two checks of the tests never fail.                 *)
THEOREM TestChecksHold ==
  Loopback => (TestSpec => [](phase # "x != i" /\ phase # "count"))
<1> SUFFICES ASSUME Loopback
             PROVE  TestSpec => [](phase # "x != i" /\ phase # "count")
  OBVIOUS
<1>1. TestInv => phase # "x != i" /\ phase # "count"
  BY DEF TestInv
<1>2. TestSpec => []TestInv
  BY TestsInvariant
<1> QED BY <1>1, <1>2, PTL
=============================================================================
