------------------------------ MODULE EspPingPong ------------------------------
(***************************************************************************)
(* Two computers, each with an ESP8266 on its serial line, ping-ponging    *)
(* values over the Wi-Fi network one of the chips sets up: the programs    *)
(* 1-ping-pong/server.c and client.c over esp-commands.c and esp-run.c.    *)
(*                                                                         *)
(* A program is a sequence of steps on the serial line; whatever it reads  *)
(* it reads line by line (EspParse shows that the pieces in which a line   *)
(* arrives do not matter).  The chips are not part of the repository: they *)
(* are modelled from the answers the code waits for.                       *)
(***************************************************************************)
EXTENDS Integers, Sequences, SequencesExt, FiniteSets

CONSTANTS
    NTRIALS,    \* round trips of one session (128 in the code)
    MaxBusy     \* bound: "busy p..." lines the chips send in one behaviour

Hosts == {"server", "client"}
Peer(h) == IF h = "server" THEN "client" ELSE "server"

(* What a chip may say, and the hello of trial i. *)
Line(x) == <<"line", x>>
Echo(c) == <<"echo", c>>
Data(i) == <<"ipd", i>>
Busy == Line("busy")
Junk == Line("junk")
Ready == Line("ready")
Connect == Line("0,CONNECT")
SendOk == Line("SEND OK")
Error == Line("ERROR")

ASSUME NTRIALSAssumption == NTRIALS \in Nat \ {0}
ASSUME MaxBusyAssumption == MaxBusy \in Nat

-----------------------------------------------------------------------------
(* The programs.  A step is [op, want, extra]: read until `want', skipping *)
(* other lines if extra (op "read"), write `want' (op "puts"), and so on.  *)

Step(op, want, extra) == <<[op |-> op, want |-> want, extra |-> extra]>>

cmd_puts(c) == Step("puts", <<"cmd", c>>, FALSE)
cmd_ack(c) == Step("ack", Echo(c), FALSE)
cmd_response(line, extra_p) == Step("read", line, extra_p)

do_at_cmd(c, extra_p) == cmd_puts(c) \o cmd_ack(c) \o cmd_response(Line("OK"), extra_p)
at_cmd(c) == do_at_cmd(c, FALSE)
at_cmd_extra(c) == do_at_cmd(c, TRUE)
\* Fault: the output of a reset is not waited for.
at_drainNot == <<>>

at_drain == Step("echo_until", Ready, TRUE)

esp_hard_reset ==
    Step("drain", Busy, FALSE)
    \o at_cmd_extra("RST") \o at_drain
    \o at_cmd_extra("RESTORE") \o at_drain
    \o at_cmd_extra("RST") \o at_drain

esp_setup_wifi == at_cmd("CWSAP") \o at_cmd("CWMODE") \o at_cmd_extra("CIFSR")

esp_connect_to_wifi == at_cmd("CWMODE") \o at_cmd_extra("CWJAP")

issue_tcp_connect ==
    cmd_puts("CIPSTART") \o cmd_ack("CIPSTART")
    \o Step("responsef", Connect, FALSE) \o cmd_response(Line("OK"), FALSE)

esp_start_tcp_client ==
    at_cmd("CIPMUX") \o issue_tcp_connect \o Step("active", Ready, FALSE)

esp_start_tcp_server ==
    at_cmd("CWMODE") \o at_cmd("CIPMUX") \o at_cmd("CIPSERVER")
    \o at_cmd_extra("CIPSTO") \o at_cmd_extra("CIPSTO") \o at_cmd_extra("CIPSTO")
    \o at_cmd_extra("CIFSR") \o at_cmd_extra("GMR") \o Step("active", Ready, FALSE)

\* Fault: the server waits for another line than the one that comes.
wait_for_connOther == Step("echo_until", Ready, TRUE)

wait_for_conn == Step("echo_until", Connect, TRUE)

\* Fault: the prompt is not waited for.
esp_sendAtOnce ==
    at_cmd("CIPSEND") \o Step("write", Ready, FALSE)
    \o Step("responsef", Line("Recv"), FALSE) \o cmd_response(SendOk, FALSE)

esp_send ==
    at_cmd("CIPSEND") \o Step("prompt", Line(">"), FALSE) \o Step("write", Ready, FALSE)
    \o Step("responsef", Line("Recv"), FALSE) \o cmd_response(SendOk, FALSE)

esp_is_recv == Step("recv", Ready, FALSE)

Trials(body) ==
    [k \in 1 .. NTRIALS * Len(body) |-> body[((k - 1) % Len(body)) + 1]]

Program ==
    [server |-> esp_hard_reset \o esp_setup_wifi \o esp_start_tcp_server
                    \o wait_for_conn \o Trials(esp_send \o esp_is_recv),
     client |-> esp_hard_reset \o esp_connect_to_wifi \o esp_start_tcp_client
                    \o Trials(esp_is_recv \o esp_send)]

-----------------------------------------------------------------------------
VARIABLES
    pc,        \* [Hosts -> the next step of the program]
    active,    \* [Hosts -> active_p: a client or server has been started]
    dead,      \* [Hosts -> whether the program has panicked]
    trial,     \* [Hosts -> the value of the last message]
    inbox,     \* [Hosts -> lines the chip has sent and the program not read]
    cmds,      \* [Hosts -> commands and data written to the chip]
    out,       \* [Hosts -> the rest of the chip's answer]
    tell,      \* [Hosts -> what the chip will say unasked, in any order]
    listening, \* the server's chip accepts connections
    patient,   \* the client is started when the server says it is waiting
    faults,    \* what has gone wrong outside the programs
    busy       \* busy lines so far

host == <<pc, active, dead, trial>>
vars == <<host, inbox, cmds, out, tell, listening, patient, faults, busy>>

Faults == {"overlap", "closed", "refused", "early"}

TypeOK ==
    /\ \A h \in Hosts : pc[h] \in 1 .. Len(Program[h]) + 1
    /\ active \in [Hosts -> BOOLEAN] /\ dead \in [Hosts -> BOOLEAN]
    /\ trial \in [Hosts -> 0 .. NTRIALS]
    /\ \A h \in Hosts : Len(cmds[h]) <= 2 /\ Len(out[h]) <= 4
    /\ faults \subseteq Faults /\ busy \in 0 .. MaxBusy

(* Output of earlier sessions: none, some line, or the answer to a reset   *)
(* that an earlier session sent before it was interrupted.                 *)
Stale == {<<>>, <<Junk>>, <<Echo("RST"), Line("OK"), Ready>>}

Init ==
    /\ pc = [h \in Hosts |-> 1]
    /\ active = [h \in Hosts |-> FALSE]
    /\ dead = [h \in Hosts |-> FALSE]
    /\ trial = [h \in Hosts |-> 0]
    /\ inbox = [h \in Hosts |-> <<>>]
    /\ cmds = [h \in Hosts |-> <<>>]
    /\ out \in [Hosts -> Stale]
    /\ tell = [h \in Hosts |-> {}]
    /\ listening = FALSE
    /\ patient \in BOOLEAN
    /\ faults = {}
    /\ busy = 0

Done(h) == pc[h] > Len(Program[h])
At(h, ops) == ~Done(h) /\ ~dead[h] /\ Program[h][pc[h]].op \in ops
Want(h) == Program[h][pc[h]].want
Goto(h) == pc' = [pc EXCEPT ![h] = @ + 1]
ServerWaits == pc["server"] > Len(esp_hard_reset \o esp_setup_wifi \o esp_start_tcp_server)
Started(h) == h = "server" \/ ~patient \/ ServerWaits

-----------------------------------------------------------------------------
(* The programs' steps.                                                    *)

Write(h) ==
    /\ At(h, {"puts", "write"}) /\ Started(h)
    /\ cmds' = [cmds EXCEPT ![h] = Append(@, IF At(h, {"puts"}) THEN Want(h)
                                             ELSE <<"data", trial[h]>>)]
    /\ Goto(h)
    /\ UNCHANGED <<active, dead, trial, inbox, out, tell, listening, patient, faults, busy>>

(* while(esp_has_data_timeout(e->l, 1000)) lex_getc(e->l) *)
Drain(h) ==
    /\ At(h, {"drain"}) /\ Started(h)
    /\ IF inbox[h] = <<>> THEN Goto(h) /\ UNCHANGED inbox
       ELSE inbox' = [inbox EXCEPT ![h] = Tail(@)] /\ UNCHANGED pc
    /\ UNCHANGED <<active, dead, trial, cmds, out, tell, listening, patient, faults, busy>>

Activate(h) ==
    /\ At(h, {"active"})
    /\ active' = [active EXCEPT ![h] = TRUE]
    /\ Goto(h)
    /\ UNCHANGED <<dead, trial, inbox, cmds, out, tell, listening, patient, faults, busy>>


(* Lines the step passes over.  Before the connection is up the handler of *)
(* out-of-order messages prints them; the client's and the server's panic. *)
Skips(h, x) ==
    \/ At(h, {"ack", "read", "responsef"}) /\ x = Busy
    \/ At(h, {"ack"}) /\ ~active[h]
    \/ At(h, {"read"}) /\ Program[h][pc[h]].extra /\ x # Error
    \/ At(h, {"echo_until"})

Accepts(h, x) == IF At(h, {"recv"}) THEN x[1] = "ipd" ELSE x = Want(h)

(* Fault: the client counts instead of reading. *)
NewTrialCounts(h, x) ==
    IF At(h, {"recv"}) THEN trial[h] + 1 ELSE trial[h]

(* The server counts its trials up; the client answers with what it got.   *)
(* The server compares the reply with what it sent (server.c:65).          *)
NewTrial(h, x) ==
    IF At(h, {"recv"}) /\ h = "client" THEN x[2]
    ELSE IF At(h, {"recv"}) THEN trial[h] + 1 ELSE trial[h]

Read(h) ==
    /\ At(h, {"ack", "read", "responsef", "echo_until", "prompt", "recv"})
    /\ inbox[h] # <<>>
    /\ inbox' = [inbox EXCEPT ![h] = Tail(@)]
    /\ LET x == Head(inbox[h]) IN
       \/ /\ Accepts(h, x)
          /\ ~(At(h, {"recv"}) /\ h = "server" /\ x[2] # trial[h])
          /\ trial' = [trial EXCEPT ![h] = NewTrial(h, x)]
          /\ Goto(h)
          /\ UNCHANGED dead
       \/ /\ ~Accepts(h, x) /\ Skips(h, x)
          /\ UNCHANGED <<pc, dead, trial>>
       \/ /\ \/ ~Accepts(h, x) /\ ~Skips(h, x)
             \/ At(h, {"recv"}) /\ h = "server" /\ x[1] = "ipd" /\ x[2] # trial[h]
          /\ dead' = [dead EXCEPT ![h] = TRUE]
          /\ UNCHANGED <<pc, trial>>
    /\ UNCHANGED <<active, cmds, out, tell, listening, patient, faults, busy>>

-----------------------------------------------------------------------------
(* The chips.                                                              *)

Connects(h, c) == c = <<"cmd", "CIPSTART">> /\ listening

Answer(c) ==
    LET ok == <<Line("OK")>>
        name == c[2]
    IN IF c[1] = "data" THEN <<Line("Recv")>>
       ELSE <<Echo(name)>> \o
            (IF name \in {"RST", "RESTORE"} THEN ok \o <<Junk, Ready>>
             ELSE IF name \in {"CIFSR", "GMR", "CIPSTO", "CWJAP"} THEN <<Junk>> \o ok
             ELSE IF name = "CIPSTART" THEN (IF listening THEN <<Connect>> \o ok ELSE <<Error>>)
             ELSE IF name = "CIPSEND" THEN ok \o <<Line(">")>>
             ELSE ok)

(* A chip takes up the next command when it has answered the last one. *)
Process(h) ==
    /\ out[h] = <<>> /\ cmds[h] # <<>>
    /\ LET c == Head(cmds[h]) IN
       /\ out' = [out EXCEPT ![h] = Answer(c)]
       /\ listening' = (listening \/ c = <<"cmd", "CIPSERVER">>)
       /\ tell' = IF Connects(h, c) THEN [tell EXCEPT !["server"] = @ \cup {Connect}]
                  ELSE IF c[1] = "data" /\ "closed" \notin faults
                       THEN [tell EXCEPT ![Peer(h)] = @ \cup {Data(c[2])}]
                  ELSE tell
       /\ faults' = IF c # <<"cmd", "CIPSTART">> THEN faults
                    ELSE faults \cup (IF ~listening THEN {"refused"}
                                      ELSE IF ~ServerWaits THEN {"early"} ELSE {})
    /\ cmds' = [cmds EXCEPT ![h] = Tail(@)]
    /\ UNCHANGED <<host, inbox, patient, busy>>

Emit(h) ==
    /\ out[h] # <<>>
    /\ inbox' = [inbox EXCEPT ![h] = Append(@, Head(out[h]))]
    /\ out' = [out EXCEPT ![h] = Tail(@)]
    /\ UNCHANGED <<host, cmds, tell, listening, patient, faults, busy>>

(* What comes over the network is passed on at once.  Fault: a message may *)
(* overtake the rest of an answer or the acknowledgement of the one this   *)
(* side sent last.                                                         *)
Tell(h) ==
    \E x \in tell[h] :
        /\ x = SendOk => out[h] = <<>>
        /\ inbox' = [inbox EXCEPT ![h] = Append(@, x)]
        /\ tell' = IF x[1] = "ipd"
                   THEN [tell EXCEPT ![h] = @ \ {x}, ![Peer(h)] = @ \cup {SendOk}]
                   ELSE [tell EXCEPT ![h] = @ \ {x}]
        /\ faults' = IF x[1] = "ipd" /\ (SendOk \in tell[h] \/ out[h] # <<>>)
                     THEN faults \cup {"overlap"} ELSE faults
        /\ UNCHANGED <<host, cmds, out, listening, patient, busy>>

(* Fault: the chip is busy while it works on a command. *)
SayBusy(h) ==
    /\ busy < MaxBusy
    /\ out[h] # <<>> /\ ~active[h]
    /\ busy' = busy + 1
    /\ inbox' = [inbox EXCEPT ![h] = Append(@, Busy)]
    /\ UNCHANGED <<host, cmds, out, tell, listening, patient, faults>>

(* Fault: the connection breaks. *)
Close ==
    /\ active["client"] /\ "closed" \notin faults
    /\ faults' = faults \cup {"closed"}
    /\ tell' = [h \in Hosts |-> tell[h] \cup {Line("0,CLOSED")}]
    /\ UNCHANGED <<host, inbox, cmds, out, listening, patient, busy>>

Program_(h) == Write(h) \/ Drain(h) \/ Activate(h) \/ Read(h)
Chip(h) == Process(h) \/ Emit(h) \/ Tell(h)

Next == (\E h \in Hosts : Program_(h) \/ Chip(h) \/ SayBusy(h)) \/ Close

(* The programs run on and the chips answer what they are asked. *)
Fairness == \A h \in Hosts : WF_vars(Program_(h)) /\ WF_vars(Process(h) \/ Emit(h)) /\ WF_vars(Tell(h))

Spec == Init /\ [][Next]_vars /\ Fairness

-----------------------------------------------------------------------------
(* When the hard reset is over, everything from before the last reset has  *)
(* been read: the program and the chip are in step, so that the next echo  *)
(* and the next OK belong to the next command (esp-run.c:212-219).         *)
InStepAfterReset ==
    \A h \in Hosts : pc[h] = Len(esp_hard_reset) + 1 =>
        inbox[h] = <<>> /\ out[h] = <<>> /\ cmds[h] = <<>>

(* A connection the server's chip has announced is still to be announced   *)
(* or to be read until the server sees it, if the client was started when  *)
(* the server said so (1-ping-pong/README.md).  Started earlier, the       *)
(* announcement is taken for the extra output of a command and is lost.    *)
ConnectNotLost ==
    "early" \notin faults /\ active["client"] =>
        \/ pc["server"] > Len(esp_hard_reset \o esp_setup_wifi \o esp_start_tcp_server \o wait_for_conn)
        \/ Connect \in tell["server"] \cup ToSet(inbox["server"])

(* One message at a time: between the two programs there is at most one    *)
(* value under way, and the client's last value is the server's current    *)
(* one or the one before.                                                  *)
RoundTrips ==
    /\ TypeOK
    /\ trial["client"] \in {trial["server"], trial["server"] - 1}
    /\ \A h \in Hosts : Cardinality({x \in tell[h] \cup ToSet(inbox[h]) : x[1] = "ipd"}) <= 1

Complete == \A h \in Hosts : Done(h)
===============================================================================
