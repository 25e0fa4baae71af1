----------------------------- MODULE NrfOneWay -----------------------------
(***************************************************************************)
(* The loopback tests of labs/17-nrf24l01p/code/tests: one Pi drives two   *)
(* radios, sends a packet from one and waits for it on the other, NTRIAL   *)
(* times (1-one-way-ack.c, 1-one-way-no-ack.c), then back the other way    *)
(* (3-loop-msg.c).                                                         *)
(***************************************************************************)
EXTENDS NrfDriver, FiniteSets

CONSTANTS
  server, client,
  NTRIAL,  \* bound: packets of one trial
  NLoop    \* bound: trials, alternating in direction

\* One Pi drives both radios and reads back whole packets.
Loopback ==
  /\ Node = {server, client} /\ Sender = Node
  /\ NTRIAL \in Nat \ {0} /\ NLoop \in Nat \ {0}
  /\ MaxSends >= NTRIAL * NLoop /\ ReadBytes = msg_nbytes

VARIABLES
  phase,              \* where the test is
  trial,              \* trials completed
  i,                  \* packets of this trial completed
  npackets, ntimeout  \* the counters of this trial

tstvars == <<phase, trial, i, npackets, ntimeout>>
allvars == <<vars, tstvars>>

from == IF trial % 2 = 0 THEN server ELSE client
to == Peer[from]

\* mk_test_msg puts i in front of the padding; msg_get32 takes it out again.
Value(p) == (p[2] - 1) % NTRIAL

TestInit ==
  /\ Init
  /\ phase = "send" /\ trial = 0 /\ i = 0 /\ npackets = 0 /\ ntimeout = 0

SendMsg ==
  /\ phase = "send" /\ i < NTRIAL
  /\ SendCall(from)
  /\ phase' = "sending"
  /\ UNCHANGED <<trial, i, npackets, ntimeout>>

SendReturned ==
  /\ phase = "sending"
  /\ ClientReturn(from)
  /\ phase' = "receive"
  /\ UNCHANGED <<trial, i, npackets, ntimeout>>

GetMsg ==
  /\ phase = "receive"
  /\ ReadCall(to, "timeout")
  /\ phase' = "receiving"
  /\ UNCHANGED <<trial, i, npackets, ntimeout>>

GetMsgReturned ==
  /\ phase = "receiving"
  /\ ClientReturn(to)
  /\ \/ /\ ret[to] = msg_nbytes
        /\ IF Value(msg[to][1][1]) = i
             THEN /\ npackets' = npackets + 1 /\ i' = i + 1
                  /\ phase' = "send"
             ELSE phase' = "x != i" /\ UNCHANGED <<npackets, i>>
        /\ UNCHANGED ntimeout
     \/ /\ ret[to] # msg_nbytes
        /\ ntimeout' = ntimeout + 1 /\ i' = i + 1
        /\ phase' = "send"
        /\ UNCHANGED npackets
  /\ UNCHANGED trial

\* assert((ntimeout + npackets) == ntrial)
TrialDone ==
  /\ phase = "send" /\ i = NTRIAL
  /\ IF ntimeout + npackets # NTRIAL
       THEN phase' = "count" /\ UNCHANGED <<trial, i, npackets, ntimeout>>
       ELSE /\ trial' = trial + 1
            /\ phase' = IF trial + 1 = NLoop THEN "done" ELSE "send"
            /\ i' = 0 /\ npackets' = 0 /\ ntimeout' = 0
  /\ UNCHANGED vars

Driver ==
  /\ \/ phase = "sending" /\ Step(from)
     \/ phase = "receiving" /\ Step(to)
  /\ UNCHANGED tstvars

Test ==
  \/ SendMsg \/ SendReturned \/ GetMsg \/ GetMsgReturned \/ TrialDone \/ Driver
Radio == (\E n \in Node : Air(n)) /\ UNCHANGED tstvars

TestNext == Test \/ Radio

\* The Pi and the radios keep running; the microsecond clock advances, so a
\* wait does not last for ever.
TestSpec ==
  /\ TestInit /\ [][TestNext]_allvars
  /\ WF_allvars(Test) /\ WF_allvars(Radio)
  /\ SF_allvars(phase = "receiving" /\ TimedOut(to) /\ UNCHANGED tstvars)
-----------------------------------------------------------------------------
Stopped == \E n \in Node : pc[n] = "panic"

(* The receiver times out for exactly the packets its chip never took in,  *)
(* over acknowledged pipes for none; and both radios are back in RX mode   *)
(* with nothing pending between packets, whatever was lost, so that the    *)
(* next send and the next trial start afresh.                              *)
TimeoutsAreLosses ==
  phase = "send" =>
    /\ Len(confirmed[from]) = (trial \div 2) * NTRIAL + i
    /\ npackets = Cardinality({k \in DOMAIN accepted[to] :
                    accepted[to][k][2] > (trial \div 2) * NTRIAL})
    /\ acked_p => ntimeout = 0
    /\ ~Stopped => \A n \in Node :
         /\ Listening(n) /\ chip[n].tx = <<>> /\ ~chip[n].tx_ds
         /\ chip[n].rx = <<>> /\ recvq[n] = <<>>

(* The test runs to its end, or a send gives up after its last retry: a    *)
(* packet that was lost or repeated never shifts the values the receiver   *)
(* compares, and every trial's counters add up.                            *)
TestEnds == <>(phase = "done" \/ Stopped)
=============================================================================
