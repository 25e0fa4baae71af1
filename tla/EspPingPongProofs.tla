-------------------------- MODULE EspPingPongProofs --------------------------
(***************************************************************************)
(* The reset leaves program and chip in step, whatever an earlier session  *)
(* left, the server does not miss the connection of a client started in    *)
(* time, and the programs take turns with one message under way at most:   *)
(* for every number of round trips and of busy chips' lines.               *)
(***************************************************************************)
EXTENDS EspPingPong, SequenceTheorems, FiniteSetTheorems, TLAPS

\* Steps of a program, lines of a chip and commands to it.
Names == {"RST", "RESTORE", "CWSAP", "CWMODE", "CIFSR", "CWJAP", "CIPMUX", "CIPSTART",
          "CIPSERVER", "CIPSTO", "GMR", "CIPSEND"}
Texts == {"busy", "junk", "ready", "0,CONNECT", "SEND OK", "ERROR", "OK", "Recv", ">",
          "0,CLOSED"}
Ops == {"puts", "ack", "read", "drain", "echo_until", "responsef", "active", "prompt",
        "write", "recv"}
Commands == {"cmd"} \X Names
Orders == Commands \cup ({"data"} \X Nat)
Lines == ({"line"} \X Texts) \cup ({"echo"} \X Names) \cup ({"ipd"} \X Nat)
Steps == {x \in [op : Ops, want : Commands \cup Lines, extra : BOOLEAN] :
            x.op = "puts" => x.want \in Commands}

\* Where the reset and the server's opening end, where the server waits, and
\* where the client asks for its connection.
ResetEnd == 13
ServerSays == 47
ServerHead == 48
Asks == 23
Hears == 25
ClientHead == 27

Types ==
    /\ pc \in [Hosts -> Nat \ {0}] /\ active \in [Hosts -> BOOLEAN]
    /\ dead \in [Hosts -> BOOLEAN] /\ trial \in [Hosts -> Nat]
    /\ inbox \in [Hosts -> Seq(Lines)] /\ out \in [Hosts -> Seq(Lines)]
    /\ cmds \in [Hosts -> Seq(Orders)]
    /\ tell \in [Hosts -> SUBSET Lines]
    /\ listening \in BOOLEAN /\ patient \in BOOLEAN /\ faults \subseteq Faults

\* What the program has still to read of what its chip has said.
Incoming(h) == inbox[h] \o out[h]

Holds(s, x) == \E k \in 1 .. Len(s) : s[k] = x

Restored == Echo("RESTORE")

\* Nothing follows the Ready in s.
EndsReady(s) == \A k \in 1 .. Len(s) : s[k] = Ready => k = Len(s)

\* Nothing follows the Ready behind the echo of RESTORE in s.
EndsRestored(s) ==
    \A j, k \in 1 .. Len(s) : j < k /\ s[j] = Restored /\ s[k] = Ready => k = Len(s)

Rst == <<"cmd", "RST">>
Restore == <<"cmd", "RESTORE">>

\* How far the program, at its step p, and the chip have come in the reset.
Resetting(p, s, c) ==
    /\ p <= 2 => c = <<>> /\ ~Holds(s, Restored)
    /\ p \in 3 .. 6 => c \in {<<>>, <<Rst>>} /\ ~Holds(s, Restored)
    /\ p = 7 => \/ c \in {<<Restore>>, <<Rst, Restore>>} /\ ~Holds(s, Restored)
                \/ c = <<>> /\ EndsRestored(s)
    /\ p \in 8 .. 9 => c = <<>> /\ EndsReady(s)
    /\ p = 10 => c = <<>> /\ s = <<>>
    /\ p = 11 => \/ c = <<Rst>> /\ s = <<>>
                 \/ c = <<>> /\ EndsReady(s)
    /\ p \in 12 .. 13 => c = <<>> /\ EndsReady(s)
    /\ p = 14 => c = <<>> /\ s = <<>>

CipStart == <<"cmd", "CIPSTART">>
CipServer == <<"cmd", "CIPSERVER">>

Past(h) == pc[h] > ResetEnd + 1

\* What either side may have told the other's chip, by where they are.
Network ==
    /\ \A h \in Hosts : tell[h] # {} => Past("client") /\ Past("server")
    /\ listening => Past("server")
    /\ active["client"] => pc["client"] > ClientHead
    /\ pc["client"] > Hears => listening
    /\ Holds(Incoming("client"), Connect) => listening /\ pc["client"] > Asks
    /\ Connect \notin tell["client"]
    /\ pc["client"] <= ClientHead =>
         \A c : Holds(cmds["client"], c) =>
            c[1] # "data" /\ c # CipServer /\ (c = CipStart => pc["client"] > Asks)
    /\ pc["server"] > ServerHead => listening /\ pc["client"] > Asks
    /\ Holds(Incoming("server"), Connect) => listening /\ pc["client"] > Asks
    /\ Connect \in tell["server"] => listening /\ pc["client"] > Asks
    /\ pc["server"] <= ServerHead =>
         \A c : Holds(cmds["server"], c) => c[1] # "data" /\ c # CipStart

\* The connection the client has heard of is on its way to the server, which
\* is waiting for it.
Announced ==
    "early" \notin faults /\ (pc["client"] > Hears \/ Holds(Incoming("client"), Connect)) =>
        /\ pc["server"] > ServerSays
        /\ pc["server"] <= ServerHead =>
             Connect \in tell["server"] \/ Holds(inbox["server"], Connect)

IInv ==
    /\ Types
    /\ \A h \in Hosts : Resetting(pc[h], Incoming(h), cmds[h])
    /\ Network /\ Announced

\* The lines a program waits for after writing, the messages that come in, and
\* those to be sent.
Replies == ({"echo"} \X Names) \cup {Line("Recv")}
Messages == {"ipd"} \X Nat
Datas == {"data"} \X Nat

\* At most one member of s is in X; none is.
One(s, X) == \A j, k \in 1 .. Len(s) : s[j] \in X /\ s[k] \in X => j = k
None(s, X) == \A k \in 1 .. Len(s) : s[k] \notin X

\* The step after a write, and whether a program is at one.
Awaits(r) == r.op \in {"ack", "responsef"} /\ r.want \in Replies
Awaiting(h) == pc[h] <= Len(Program[h]) /\ Awaits(Program[h][pc[h]])

\* After the reset an order is answered before the next one is written.
Answered(w, i, o, c) ==
    /\ ~w => c = <<>> /\ None(i, Replies) /\ None(o, Replies)
    /\ w => \/ Len(c) = 1 /\ None(i, Replies) /\ None(o, Replies)
            \/ c = <<>> /\ None(i, Replies) /\ One(o, Replies)
            \/ c = <<>> /\ One(i, Replies) /\ None(o, Replies)

\* No message is part of an answer, and no reply comes unasked.
Plain(o, t) == Len(o) <= 4 /\ None(o, Messages) /\ t \cap Replies = {}

\* Nothing of what the one side sends is on its way: neither an order to its
\* chip, nor about to be told by the other chip, nor in the other's input.
Nothing(c, t, i) == None(c, Datas) /\ t \cap Messages = {} /\ None(i, Messages)

\* The value v is on its way, once, or it is lost.
Flight(c, t, i, v) ==
    \/ /\ One(c, Datas) /\ \A k \in 1 .. Len(c) : c[k] \in Datas => c[k] = <<"data", v>>
       /\ t \cap Messages = {} /\ None(i, Messages)
    \/ None(c, Datas) /\ t \cap Messages \subseteq {Data(v)} /\ None(i, Messages)
    \/ /\ None(c, Datas) /\ t \cap Messages = {}
       /\ One(i, Messages) /\ \A k \in 1 .. Len(i) : i[k] \in Messages => i[k] = Data(v)

\* n values have been sent and g of them read: the next one is on its way.
Carries(n, g, c, t, i) == IF n = g THEN Nothing(c, t, i) ELSE Flight(c, t, i, g)

\* Where a program's rounds begin, its place in its round, and how many values
\* it has got and sent.
RoundsFrom(h) == IF h = "server" THEN ServerHead ELSE ClientHead
Place(h, p, t) == p - RoundsFrom(h) - 8 * t
InRound(h, p, t) ==
    IF p <= RoundsFrom(h) THEN t = 0
    ELSE IF h = "server" THEN Place(h, p, t) \in 1 .. 8
    ELSE Place(h, p, t) \in 1 .. 9 /\ (Place(h, p, t) = 1 => t = 0)
GotBy(h, p, t) ==
    IF h = "client" /\ p > RoundsFrom(h) /\ Place(h, p, t) > 1 THEN t + 1 ELSE t
SentBy(h, p, t) ==
    IF p > RoundsFrom(h) /\ Place(h, p, t) > (IF h = "server" THEN 5 ELSE 6) THEN t + 1 ELSE t
Got(h) == GotBy(h, pc[h], trial[h])
Sent(h) == SentBy(h, pc[h], trial[h])

Rounds ==
    /\ \A h \in Hosts : pc[h] <= Len(Program[h]) + 1 /\ InRound(h, pc[h], trial[h])
    /\ \A h \in Hosts : Got(h) <= Sent(Peer(h))

Calm ==
    /\ \A h \in Hosts : Plain(out[h], tell[h])
    /\ \A h \in Hosts : pc[h] > ResetEnd => Answered(Awaiting(h), inbox[h], out[h], cmds[h])

Tokens ==
    \A h \in Hosts :
        Carries(Sent(h), Got(Peer(h)), cmds[h], tell[Peer(h)], inbox[Peer(h)])

TripInv == IInv /\ busy \in 0 .. MaxBusy /\ Calm /\ Rounds /\ Tokens

-----------------------------------------------------------------------------
(* Where the steps of a concatenation come from.                           *)
LEMMA Cat ==
  ASSUME NEW s \in Seq(Steps), NEW t \in Seq(Steps)
  PROVE  /\ s \o t \in Seq(Steps) /\ Len(s \o t) = Len(s) + Len(t)
         /\ \A k \in 1 .. Len(s) : (s \o t)[k] = s[k]
         /\ \A k \in 1 .. Len(t) : (s \o t)[Len(s) + k] = t[k]
BY SMT

\* s is the single step r.
Single(s, r) == s \in Seq(Steps) /\ Len(s) = 1 /\ s[1] = r

(* A single step.                                                          *)
LEMMA StepIs ==
  ASSUME NEW op \in Ops, NEW want \in Commands \cup Lines, NEW extra \in BOOLEAN,
         op = "puts" => want \in Commands
  PROVE  Single(Step(op, want, extra), [op |-> op, want |-> want, extra |-> extra])
<1> DEFINE r == [op |-> op, want |-> want, extra |-> extra]
<1>1. r \in [op : Ops, want : Commands \cup Lines, extra : BOOLEAN]
  OBVIOUS
<1>2. r.op = "puts" => r.want \in Commands
  OBVIOUS
<1>3. r \in Steps
  <2> HIDE DEF r
  <2> QED BY <1>1, <1>2 DEF Steps
<1>4. Step(op, want, extra) = <<r>>
  BY DEF Step
<1> HIDE DEF r
<1>5. Single(<<r>>, r)
  BY <1>3 DEF Single
<1> QED BY <1>4, <1>5 DEF r

(* Commands and lines are what they are called.                            *)
LEMMA CommandsAre == ASSUME NEW c \in Names PROVE <<"cmd", c>> \in Commands
BY DEF Commands

(* What a chip says is a line, an echo, or a message that came in.         *)
LEMMA LinesAre ==
  /\ \A c \in Texts : Line(c) \in Lines
  /\ \A c \in Names : Echo(c) \in Lines
BY DEF Lines, Line, Echo

(* A message that came in is among the lines.                              *)
LEMMA DataAre == ASSUME NEW i \in Nat PROVE Data(i) \in Lines
BY DEF Lines, Data

(* The lines the model names are among the lines.                          *)
LEMMA NamedLines ==
  /\ Ready \in Lines /\ Busy \in Lines /\ Connect \in Lines /\ SendOk \in Lines
  /\ Junk \in Lines /\ Error \in Lines
BY LinesAre DEF Texts, Ready, Busy, Connect, SendOk, Junk, Error

\* The three steps of a command.
IsCommand(s, c, extra) ==
    /\ s \in Seq(Steps) /\ Len(s) = 3
    /\ s[1] = [op |-> "puts", want |-> <<"cmd", c>>, extra |-> FALSE]
    /\ s[2] = [op |-> "ack", want |-> Echo(c), extra |-> FALSE]
    /\ s[3] = [op |-> "read", want |-> Line("OK"), extra |-> extra]

(* Three steps one after another.                                          *)
LEMMA ThreeSteps ==
  ASSUME NEW p, NEW a, NEW r, NEW x, NEW y, NEW z,
         Single(p, x), Single(a, y), Single(r, z)
  PROVE  /\ p \o a \o r \in Seq(Steps) /\ Len(p \o a \o r) = 3
         /\ (p \o a \o r)[1] = x /\ (p \o a \o r)[2] = y /\ (p \o a \o r)[3] = z
<1>1. p \o a \in Seq(Steps) /\ Len(p \o a) = 2 /\ (p \o a)[1] = x /\ (p \o a)[2] = y
  <2>1. p \in Seq(Steps) /\ a \in Seq(Steps) /\ Len(p) = 1 /\ Len(a) = 1
    BY DEF Single
  <2>2. /\ p \o a \in Seq(Steps) /\ Len(p \o a) = Len(p) + Len(a)
        /\ \A k \in 1 .. Len(p) : (p \o a)[k] = p[k]
        /\ \A k \in 1 .. Len(a) : (p \o a)[Len(p) + k] = a[k]
    BY <2>1, Cat
  <2> QED BY <2>1, <2>2 DEF Single
<1> DEFINE q == p \o a
<1>2. q \in Seq(Steps) /\ r \in Seq(Steps) /\ Len(q) = 2 /\ Len(r) = 1
  BY <1>1 DEF Single
<1>3. q[1] = x /\ q[2] = y /\ r[1] = z
  BY <1>1 DEF Single
<1> HIDE DEF q
<1>4. /\ q \o r \in Seq(Steps) /\ Len(q \o r) = Len(q) + Len(r)
      /\ \A k \in 1 .. Len(q) : (q \o r)[k] = q[k]
      /\ \A k \in 1 .. Len(r) : (q \o r)[Len(q) + k] = r[k]
  BY <1>2, Cat
<1>5. /\ q \o r \in Seq(Steps) /\ Len(q \o r) = 3
      /\ (q \o r)[1] = x /\ (q \o r)[2] = y /\ (q \o r)[3] = z
  BY <1>2, <1>3, <1>4
<1> QED BY <1>5 DEF q

(* at_cmd and at_cmd_extra: the command, its echo, its OK.                 *)
LEMMA CommandIs ==
  ASSUME NEW c \in Names, NEW extra \in BOOLEAN
  PROVE  IsCommand(do_at_cmd(c, extra), c, extra)
<1>1. Single(cmd_puts(c), [op |-> "puts", want |-> <<"cmd", c>>, extra |-> FALSE])
  <2>1. <<"cmd", c>> \in Commands /\ <<"cmd", c>> \in Commands \cup Lines
    BY CommandsAre
  <2> QED BY <2>1, StepIs DEF cmd_puts, Ops
<1>2. Single(cmd_ack(c), [op |-> "ack", want |-> Echo(c), extra |-> FALSE])
  <2>1. Echo(c) \in Commands \cup Lines
    BY LinesAre
  <2> QED BY <2>1, StepIs DEF cmd_ack, Ops
<1>3. Single(cmd_response(Line("OK"), extra),
             [op |-> "read", want |-> Line("OK"), extra |-> extra])
  <2>1. Line("OK") \in Commands \cup Lines
    BY LinesAre DEF Texts
  <2> QED BY <2>1, StepIs DEF cmd_response, Ops
<1> QED BY <1>1, <1>2, <1>3, ThreeSteps DEF IsCommand, do_at_cmd

\* The steps of the reset, one by one.
IsReset(s) ==
    /\ s[1] = [op |-> "drain", want |-> Busy, extra |-> FALSE]
    /\ s[2] = [op |-> "puts", want |-> Rst, extra |-> FALSE]
    /\ s[3] = [op |-> "ack", want |-> Echo("RST"), extra |-> FALSE]
    /\ s[4] = [op |-> "read", want |-> Line("OK"), extra |-> TRUE]
    /\ s[5] = [op |-> "echo_until", want |-> Ready, extra |-> TRUE]
    /\ s[6] = [op |-> "puts", want |-> Restore, extra |-> FALSE]
    /\ s[7] = [op |-> "ack", want |-> Restored, extra |-> FALSE]
    /\ s[8] = [op |-> "read", want |-> Line("OK"), extra |-> TRUE]
    /\ s[9] = [op |-> "echo_until", want |-> Ready, extra |-> TRUE]
    /\ s[10] = [op |-> "puts", want |-> Rst, extra |-> FALSE]
    /\ s[11] = [op |-> "ack", want |-> Echo("RST"), extra |-> FALSE]
    /\ s[12] = [op |-> "read", want |-> Line("OK"), extra |-> TRUE]
    /\ s[13] = [op |-> "echo_until", want |-> Ready, extra |-> TRUE]

\* q is s, of length n, and the step r after it.
StepAfter(q, s, n, r) ==
    /\ q \in Seq(Steps) /\ Len(q) = n + 1
    /\ \A k \in 1 .. n : q[k] = s[k]
    /\ q[n + 1] = r

(* One step after a sequence.                                              *)
LEMMA ThenStep ==
  ASSUME NEW s \in Seq(Steps), NEW t, NEW r, Single(t, r)
  PROVE  StepAfter(s \o t, s, Len(s), r)
<1>1. t \in Seq(Steps) /\ Len(t) = 1 /\ t[1] = r
  BY DEF Single
<1>2. /\ s \o t \in Seq(Steps) /\ Len(s \o t) = Len(s) + Len(t)
      /\ \A k \in 1 .. Len(s) : (s \o t)[k] = s[k]
      /\ \A k \in 1 .. Len(t) : (s \o t)[Len(s) + k] = t[k]
  BY <1>1, Cat
<1> QED BY <1>1, <1>2 DEF StepAfter

\* q is s, of length n, and the command c after it.
CommandAfter(q, s, n, c, extra) ==
    /\ q \in Seq(Steps) /\ Len(q) = n + 3
    /\ \A k \in 1 .. n : q[k] = s[k]
    /\ q[n + 1] = [op |-> "puts", want |-> <<"cmd", c>>, extra |-> FALSE]
    /\ q[n + 2] = [op |-> "ack", want |-> Echo(c), extra |-> FALSE]
    /\ q[n + 3] = [op |-> "read", want |-> Line("OK"), extra |-> extra]

(* A command after a sequence.                                             *)
LEMMA ThenCommand ==
  ASSUME NEW s \in Seq(Steps), NEW t, NEW c, NEW extra, IsCommand(t, c, extra)
  PROVE  CommandAfter(s \o t, s, Len(s), c, extra)
<1>1. t \in Seq(Steps)
  BY DEF IsCommand
<1>2. /\ s \o t \in Seq(Steps) /\ Len(s \o t) = Len(s) + Len(t)
      /\ \A k \in 1 .. Len(s) : (s \o t)[k] = s[k]
      /\ \A k \in 1 .. Len(t) : (s \o t)[Len(s) + k] = t[k]
  BY <1>1, Cat
<1>3. Len(t) = 3
  BY DEF IsCommand
<1>4. /\ (s \o t)[Len(s) + 1] = t[1] /\ (s \o t)[Len(s) + 2] = t[2]
      /\ (s \o t)[Len(s) + 3] = t[3]
  BY <1>2, <1>3
<1>5. /\ t[1] = [op |-> "puts", want |-> <<"cmd", c>>, extra |-> FALSE]
      /\ t[2] = [op |-> "ack", want |-> Echo(c), extra |-> FALSE]
      /\ t[3] = [op |-> "read", want |-> Line("OK"), extra |-> extra]
  BY DEF IsCommand
<1>6. Len(s \o t) = Len(s) + 3
  BY <1>2, <1>3
<1> QED BY <1>2, <1>4, <1>5, <1>6 DEF CommandAfter

(* The steps of the reset are thirteen.                                    *)
LEMMA ResetIs == esp_hard_reset \in Seq(Steps) /\ Len(esp_hard_reset) = ResetEnd
                   /\ IsReset(esp_hard_reset)
<1> DEFINE dr == Step("drain", Busy, FALSE)
           x == [op |-> "drain", want |-> Busy, extra |-> FALSE]
           y == [op |-> "echo_until", want |-> Ready, extra |-> TRUE]
           q2 == dr \o at_cmd_extra("RST")
           q3 == q2 \o at_drain
           q4 == q3 \o at_cmd_extra("RESTORE")
           q5 == q4 \o at_drain
           q6 == q5 \o at_cmd_extra("RST")
           q7 == q6 \o at_drain
<1>0. esp_hard_reset = q7
  BY DEF esp_hard_reset
<1>1. Single(dr, x)
  BY StepIs, NamedLines DEF Ops
<1>2. \A s \in Seq(Steps) : StepAfter(s \o at_drain, s, Len(s), y)
  <2>1. Single(at_drain, y)
    BY StepIs, NamedLines DEF Ops, at_drain
  <2> HIDE DEF y
  <2> QED BY <2>1, ThenStep
<1>3. \A s \in Seq(Steps) : CommandAfter(s \o at_cmd_extra("RST"), s, Len(s), "RST", TRUE)
  <2>1. IsCommand(at_cmd_extra("RST"), "RST", TRUE)
    BY CommandIs DEF Names, at_cmd_extra
  <2> QED BY <2>1, ThenCommand
<1>4. \A s \in Seq(Steps) :
         CommandAfter(s \o at_cmd_extra("RESTORE"), s, Len(s), "RESTORE", TRUE)
  <2>1. IsCommand(at_cmd_extra("RESTORE"), "RESTORE", TRUE)
    BY CommandIs DEF Names, at_cmd_extra
  <2> QED BY <2>1, ThenCommand
<1>5. dr \in Seq(Steps) /\ Len(dr) = 1 /\ dr[1] = x
  BY <1>1 DEF Single
<1> HIDE DEF dr, x, y, q2, q3, q4, q5, q6, q7
<1>6. CommandAfter(q2, dr, 1, "RST", TRUE)
  <2>1. dr \in Seq(Steps) /\ Len(dr) = 1
    BY <1>5 DEF StepAfter
  <2> QED BY <2>1, <1>3 DEF q2
<1>7. StepAfter(q3, q2, 4, y)
  <2>1. q2 \in Seq(Steps) /\ Len(q2) = 4
    BY <1>6 DEF CommandAfter
  <2> QED BY <2>1, <1>2 DEF q3
<1>8. CommandAfter(q4, q3, 5, "RESTORE", TRUE)
  <2>1. q3 \in Seq(Steps) /\ Len(q3) = 5
    BY <1>7 DEF StepAfter
  <2> QED BY <2>1, <1>4 DEF q4
<1>9. StepAfter(q5, q4, 8, y)
  <2>1. q4 \in Seq(Steps) /\ Len(q4) = 8
    BY <1>8 DEF CommandAfter
  <2> QED BY <2>1, <1>2 DEF q5
<1>10. CommandAfter(q6, q5, 9, "RST", TRUE)
  <2>1. q5 \in Seq(Steps) /\ Len(q5) = 9
    BY <1>9 DEF StepAfter
  <2> QED BY <2>1, <1>3 DEF q6
<1>11. StepAfter(q7, q6, 12, y)
  <2>1. q6 \in Seq(Steps) /\ Len(q6) = 12
    BY <1>10 DEF CommandAfter
  <2> QED BY <2>1, <1>2 DEF q7
<1>12. IsReset(q7)
  <2>1. /\ q7[1] = x /\ q7[2] = q2[2] /\ q7[3] = q2[3] /\ q7[4] = q2[4] /\ q7[5] = y
        /\ q7[6] = q4[6] /\ q7[7] = q4[7] /\ q7[8] = q4[8] /\ q7[9] = y
        /\ q7[10] = q6[10] /\ q7[11] = q6[11] /\ q7[12] = q6[12] /\ q7[13] = y
    <3>1. q2[1] = x
      BY <1>5, <1>6 DEF CommandAfter
    <3>2. \A k \in 1 .. 4 : q3[k] = q2[k]
      BY <1>7 DEF StepAfter
    <3>3. \A k \in 1 .. 5 : q4[k] = q3[k]
      BY <1>8 DEF CommandAfter
    <3>4. \A k \in 1 .. 8 : q5[k] = q4[k]
      BY <1>9 DEF StepAfter
    <3>5. \A k \in 1 .. 9 : q6[k] = q5[k]
      BY <1>10 DEF CommandAfter
    <3>6. \A k \in 1 .. 12 : q7[k] = q6[k]
      BY <1>11 DEF StepAfter
    <3>7. q3[5] = y /\ q5[9] = y /\ q7[13] = y
      BY <1>7, <1>9, <1>11 DEF StepAfter
    <3> QED BY <3>1, <3>2, <3>3, <3>4, <3>5, <3>6, <3>7
  <2>2. /\ q2[2] = [op |-> "puts", want |-> Rst, extra |-> FALSE]
        /\ q2[3] = [op |-> "ack", want |-> Echo("RST"), extra |-> FALSE]
        /\ q2[4] = [op |-> "read", want |-> Line("OK"), extra |-> TRUE]
    BY <1>6 DEF CommandAfter, Rst
  <2>3. /\ q4[6] = [op |-> "puts", want |-> Restore, extra |-> FALSE]
        /\ q4[7] = [op |-> "ack", want |-> Restored, extra |-> FALSE]
        /\ q4[8] = [op |-> "read", want |-> Line("OK"), extra |-> TRUE]
    BY <1>8 DEF CommandAfter, Restore, Restored
  <2>4. /\ q6[10] = [op |-> "puts", want |-> Rst, extra |-> FALSE]
        /\ q6[11] = [op |-> "ack", want |-> Echo("RST"), extra |-> FALSE]
        /\ q6[12] = [op |-> "read", want |-> Line("OK"), extra |-> TRUE]
    BY <1>10 DEF CommandAfter, Rst
  <2> QED BY <2>1, <2>2, <2>3, <2>4 DEF IsReset, x, y
<1>13. q7 \in Seq(Steps) /\ Len(q7) = 13
  BY <1>11 DEF StepAfter
<1> QED BY <1>0, <1>12, <1>13 DEF ResetEnd

\* Steps that neither send a message nor ask for the connection, and those of
\* them that do not open the server or mark the connection as up.
Dumb == {x \in Steps : x.op \notin {"write", "recv"} /\ (x.op = "puts" => x.want # CipStart)}
Quiet == {x \in Dumb : x.op # "active" /\ (x.op = "puts" => x.want # CipServer)}

\* t is a piece of n steps from X.
Piece(t, n, X) == t \in Seq(X) /\ Len(t) = n

(* A sequence all of whose steps are in X.                                 *)
LEMMA PieceFrom ==
  ASSUME NEW t \in Seq(Steps), NEW X, \A k \in 1 .. Len(t) : t[k] \in X
  PROVE  Piece(t, Len(t), X)
<1>1. t = [k \in 1 .. Len(t) |-> t[k]] /\ Len(t) \in Nat
  OBVIOUS
<1>2. t \in [1 .. Len(t) -> X]
  BY <1>1
<1> QED BY <1>1, <1>2 DEF Piece

(* Two pieces make a piece.                                                *)
LEMMA TwoPieces ==
  ASSUME NEW X, NEW s, NEW t, NEW n, NEW m, Piece(s, n, X), Piece(t, m, X)
  PROVE  Piece(s \o t, n + m, X)
BY DEF Piece

(* A command but CIPSTART and CIPSERVER is quiet, CIPSERVER is dumb.       *)
LEMMA CommandPiece ==
  ASSUME NEW c \in Names \ {"CIPSTART"}, NEW extra \in BOOLEAN
  PROVE  /\ Piece(do_at_cmd(c, extra), 3, Dumb)
         /\ c # "CIPSERVER" => Piece(do_at_cmd(c, extra), 3, Quiet)
<1> DEFINE t == do_at_cmd(c, extra)
<1>1. IsCommand(t, c, extra)
  BY CommandIs
<1> HIDE DEF t
<1>2. t \in Seq(Steps) /\ Len(t) = 3
  BY <1>1 DEF IsCommand
<1>3. t[1].op = "puts" /\ t[1].want = <<"cmd", c>> /\ t[2].op = "ack" /\ t[3].op = "read"
  BY <1>1 DEF IsCommand
<1>4. <<"cmd", c>> # CipStart /\ (c # "CIPSERVER" => <<"cmd", c>> # CipServer)
  BY DEF CipStart, CipServer
<1>5. t[1] \in Steps /\ t[2] \in Steps /\ t[3] \in Steps
  <2>1. \A k \in 1 .. Len(t) : t[k] \in Steps
    BY <1>2, ElementOfSeq
  <2> QED BY <1>2, <2>1
<1>6. t[1] \in Dumb /\ t[2] \in Dumb /\ t[3] \in Dumb
  BY <1>3, <1>4, <1>5 DEF Dumb
<1>7. c # "CIPSERVER" => t[1] \in Quiet /\ t[2] \in Quiet /\ t[3] \in Quiet
  BY <1>3, <1>4, <1>6 DEF Quiet
<1>8. Piece(t, 3, Dumb)
  <2>1. \A k \in 1 .. Len(t) : t[k] \in Dumb
    BY <1>2, <1>6
  <2>2. Piece(t, Len(t), Dumb)
    BY <1>2, <2>1, PieceFrom
  <2> QED BY <1>2, <2>2
<1>9. c # "CIPSERVER" => Piece(t, 3, Quiet)
  <2> SUFFICES ASSUME c # "CIPSERVER" PROVE Piece(t, 3, Quiet)
    OBVIOUS
  <2>1. \A k \in 1 .. Len(t) : t[k] \in Quiet
    BY <1>2, <1>7
  <2>2. Piece(t, Len(t), Quiet)
    BY <1>2, <2>1, PieceFrom
  <2> QED BY <1>2, <2>2
<1> QED BY <1>8, <1>9 DEF t

(* A single step that is neither a command nor a message.                  *)
LEMMA StepPiece ==
  ASSUME NEW op \in Ops \ {"puts", "write", "recv"}, NEW want \in Commands \cup Lines,
         NEW extra \in BOOLEAN
  PROVE  /\ Piece(Step(op, want, extra), 1, Dumb)
         /\ op # "active" => Piece(Step(op, want, extra), 1, Quiet)
<1> DEFINE t == Step(op, want, extra)
           r == [op |-> op, want |-> want, extra |-> extra]
<1>1. Single(t, r)
  BY StepIs
<1>2. r.op = op
  OBVIOUS
<1> HIDE DEF t, r
<1>3. t \in Seq(Steps) /\ Len(t) = 1 /\ t[1] = r
  BY <1>1 DEF Single
<1>4. t[1] \in Dumb /\ (op # "active" => t[1] \in Quiet)
  <2>1. t[1] \in Steps
    BY <1>3
  <2> QED BY <1>2, <1>3, <2>1 DEF Dumb, Quiet
<1>5. Piece(t, 1, Dumb)
  <2>1. \A k \in 1 .. Len(t) : t[k] \in Dumb
    BY <1>3, <1>4
  <2>2. Piece(t, Len(t), Dumb)
    BY <1>3, <2>1, PieceFrom
  <2> QED BY <1>3, <2>2
<1>6. op # "active" => Piece(t, 1, Quiet)
  <2> SUFFICES ASSUME op # "active" PROVE Piece(t, 1, Quiet)
    OBVIOUS
  <2>1. \A k \in 1 .. Len(t) : t[k] \in Quiet
    BY <1>3, <1>4
  <2>2. Piece(t, Len(t), Quiet)
    BY <1>3, <2>1, PieceFrom
  <2> QED BY <1>3, <2>2
<1> QED BY <1>5, <1>6 DEF t

\* q is s, of length n, and m steps from X after it.
PieceAfter(q, s, n, m, X) ==
    /\ q \in Seq(Steps) /\ Len(q) = n + m
    /\ \A k \in 1 .. n : q[k] = s[k]
    /\ \A k \in n + 1 .. n + m : q[k] \in X

(* A piece after a sequence.                                               *)
LEMMA ThenPiece ==
  ASSUME NEW s \in Seq(Steps), NEW X, X \subseteq Steps, NEW t, NEW m \in Nat, Piece(t, m, X)
  PROVE  PieceAfter(s \o t, s, Len(s), m, X)
<1>1. t \in Seq(Steps) /\ Len(t) = m /\ \A k \in 1 .. m : t[k] \in X
  BY DEF Piece
<1>2. /\ s \o t \in Seq(Steps) /\ Len(s \o t) = Len(s) + Len(t)
      /\ \A k \in 1 .. Len(s) : (s \o t)[k] = s[k]
      /\ \A k \in 1 .. Len(t) : (s \o t)[Len(s) + k] = t[k]
  BY <1>1, Cat
<1>3. ASSUME NEW k \in Len(s) + 1 .. Len(s) + m PROVE (s \o t)[k] \in X
  <2>1. k - Len(s) \in 1 .. Len(t) /\ Len(s) + (k - Len(s)) = k
    BY <1>1
  <2>2. (s \o t)[k] = t[k - Len(s)]
    BY <1>2, <2>1
  <2> QED BY <1>1, <2>1, <2>2
<1> QED BY <1>1, <1>2, <1>3 DEF PieceAfter

(* The quiet steps are dumb, and all of them steps.                        *)
LEMMA PieceSets == Quiet \subseteq Dumb /\ Dumb \subseteq Steps /\ Quiet \subseteq Steps
BY DEF Quiet, Dumb

(* The server's opening.                                                   *)
LEMMA OpeningIs ==
  /\ Piece(esp_setup_wifi, 9, Dumb)
  /\ Piece(esp_start_tcp_server, 25, Dumb)
  /\ Piece(esp_connect_to_wifi, 6, Quiet)
<1>1. \A c \in Names \ {"CIPSTART"} : Piece(at_cmd(c), 3, Dumb) /\ Piece(at_cmd_extra(c), 3, Dumb)
  BY CommandPiece DEF at_cmd, at_cmd_extra
<1>2. \A c \in Names \ {"CIPSTART", "CIPSERVER"} :
         Piece(at_cmd(c), 3, Quiet) /\ Piece(at_cmd_extra(c), 3, Quiet)
  BY CommandPiece DEF at_cmd, at_cmd_extra
<1>3. Piece(Step("active", Ready, FALSE), 1, Dumb)
  BY StepPiece, NamedLines DEF Ops
<1>4. Piece(esp_connect_to_wifi, 6, Quiet)
  <2>1. Piece(at_cmd("CWMODE"), 3, Quiet) /\ Piece(at_cmd_extra("CWJAP"), 3, Quiet)
    BY <1>2 DEF Names
  <2>2. Piece(at_cmd("CWMODE") \o at_cmd_extra("CWJAP"), 3 + 3, Quiet)
    BY <2>1, TwoPieces
  <2> QED BY <2>2 DEF esp_connect_to_wifi
<1>5. Piece(esp_setup_wifi, 9, Dumb)
  <2>1. /\ Piece(at_cmd("CWSAP"), 3, Dumb) /\ Piece(at_cmd("CWMODE"), 3, Dumb)
        /\ Piece(at_cmd_extra("CIFSR"), 3, Dumb)
    BY <1>1 DEF Names
  <2>2. Piece(at_cmd("CWSAP") \o at_cmd("CWMODE"), 3 + 3, Dumb)
    BY <2>1, TwoPieces
  <2>3. Piece(at_cmd("CWSAP") \o at_cmd("CWMODE") \o at_cmd_extra("CIFSR"), (3 + 3) + 3, Dumb)
    BY <2>1, <2>2, TwoPieces
  <2> QED BY <2>3 DEF esp_setup_wifi
<1>6. Piece(esp_start_tcp_server, 25, Dumb)
  <2> DEFINE q2 == at_cmd("CWMODE") \o at_cmd("CIPMUX")
             q3 == q2 \o at_cmd("CIPSERVER")
             q4 == q3 \o at_cmd_extra("CIPSTO")
             q5 == q4 \o at_cmd_extra("CIPSTO")
             q6 == q5 \o at_cmd_extra("CIPSTO")
             q7 == q6 \o at_cmd_extra("CIFSR")
             q8 == q7 \o at_cmd_extra("GMR")
             q9 == q8 \o Step("active", Ready, FALSE)
  <2>1. /\ Piece(at_cmd("CWMODE"), 3, Dumb) /\ Piece(at_cmd("CIPMUX"), 3, Dumb)
        /\ Piece(at_cmd("CIPSERVER"), 3, Dumb) /\ Piece(at_cmd_extra("CIPSTO"), 3, Dumb)
        /\ Piece(at_cmd_extra("CIFSR"), 3, Dumb) /\ Piece(at_cmd_extra("GMR"), 3, Dumb)
    BY <1>1 DEF Names
  <2>0. esp_start_tcp_server = q9
    BY DEF esp_start_tcp_server
  <2> HIDE DEF q2, q3, q4, q5, q6, q7, q8, q9
  <2>2. Piece(q2, 6, Dumb)
    <3>1. Piece(q2, 3 + 3, Dumb)
      BY <2>1, TwoPieces DEF q2
    <3> QED BY <3>1
  <2>3. Piece(q3, 9, Dumb)
    <3>1. Piece(q3, 6 + 3, Dumb)
      BY <2>1, <2>2, TwoPieces DEF q3
    <3> QED BY <3>1
  <2>4. Piece(q4, 12, Dumb)
    <3>1. Piece(q4, 9 + 3, Dumb)
      BY <2>1, <2>3, TwoPieces DEF q4
    <3> QED BY <3>1
  <2>5. Piece(q5, 15, Dumb)
    <3>1. Piece(q5, 12 + 3, Dumb)
      BY <2>1, <2>4, TwoPieces DEF q5
    <3> QED BY <3>1
  <2>6. Piece(q6, 18, Dumb)
    <3>1. Piece(q6, 15 + 3, Dumb)
      BY <2>1, <2>5, TwoPieces DEF q6
    <3> QED BY <3>1
  <2>7. Piece(q7, 21, Dumb)
    <3>1. Piece(q7, 18 + 3, Dumb)
      BY <2>1, <2>6, TwoPieces DEF q7
    <3> QED BY <3>1
  <2>8. Piece(q8, 24, Dumb)
    <3>1. Piece(q8, 21 + 3, Dumb)
      BY <2>1, <2>7, TwoPieces DEF q8
    <3> QED BY <3>1
  <2>9. Piece(q9, 25, Dumb)
    <3>1. Piece(q9, 24 + 1, Dumb)
      BY <1>3, <2>8, TwoPieces DEF q9
    <3> QED BY <3>1
  <2> QED BY <2>0, <2>9
<1> QED BY <1>4, <1>5, <1>6

\* q is s, of length n, and t, of length m, after it.
Joined(q, s, t, n, m) ==
    /\ q \in Seq(Steps) /\ Len(q) = n + m
    /\ \A k \in 1 .. n : q[k] = s[k]
    /\ \A k \in 1 .. m : q[n + k] = t[k]

(* Two sequences of steps one after another.                               *)
LEMMA Join ==
  ASSUME NEW s \in Seq(Steps), NEW t \in Seq(Steps)
  PROVE  Joined(s \o t, s, t, Len(s), Len(t))
BY Cat DEF Joined

\* q begins like s, of length n.
Begins(q, s, n) ==
    /\ q \in Seq(Steps) /\ Len(q) >= n
    /\ \A k \in 1 .. n : q[k] = s[k]

\* The steps that send a message.
IsSend(s) ==
    /\ s[1].op = "puts" /\ s[2].op = "ack" /\ Awaits(s[2]) /\ s[3].op = "read"
    /\ s[4].op = "prompt" /\ s[5].op = "write" /\ s[6].op = "responsef" /\ Awaits(s[6])
    /\ s[7].op = "read"

(* The steps that send a message, and the one that reads one.              *)
LEMMA MessagesAre ==
  /\ esp_send \in Seq(Steps) /\ Len(esp_send) = 7 /\ IsSend(esp_send)
  /\ esp_is_recv \in Seq(Steps) /\ Len(esp_is_recv) = 1 /\ esp_is_recv[1].op = "recv"
<1> DEFINE c == at_cmd("CIPSEND")
           p == Step("prompt", Line(">"), FALSE)
           w == Step("write", Ready, FALSE)
           r == Step("responsef", Line("Recv"), FALSE)
           s == cmd_response(SendOk, FALSE)
           x4 == [op |-> "prompt", want |-> Line(">"), extra |-> FALSE]
           x5 == [op |-> "write", want |-> Ready, extra |-> FALSE]
           x6 == [op |-> "responsef", want |-> Line("Recv"), extra |-> FALSE]
           x7 == [op |-> "read", want |-> SendOk, extra |-> FALSE]
           x8 == [op |-> "recv", want |-> Ready, extra |-> FALSE]
           q2 == c \o p
           q3 == q2 \o w
           q4 == q3 \o r
           q5 == q4 \o s
<1>0. esp_send = q5
  BY DEF esp_send
<1>1. IsCommand(c, "CIPSEND", FALSE)
  BY CommandIs DEF Names, at_cmd
<1>2. Single(p, x4)
  <2>1. Line(">") \in Lines
    BY LinesAre DEF Texts
  <2> QED BY <2>1, StepIs DEF Ops
<1>3. Single(w, x5)
  BY StepIs, NamedLines DEF Ops
<1>4. Single(r, x6)
  <2>1. Line("Recv") \in Lines
    BY LinesAre DEF Texts
  <2> QED BY <2>1, StepIs DEF Ops
<1>5. Single(s, x7)
  BY StepIs, NamedLines DEF Ops, cmd_response
<1>6. Single(esp_is_recv, x8)
  BY StepIs, NamedLines DEF Ops, esp_is_recv
<1>7. /\ x4.op = "prompt" /\ x5.op = "write" /\ x6.op = "responsef" /\ Awaits(x6)
      /\ x7.op = "read" /\ x8.op = "recv"
  BY DEF Awaits, Replies
<1> HIDE DEF c, p, w, r, s, x4, x5, x6, x7, x8, q2, q3, q4, q5
<1>8. c \in Seq(Steps) /\ Len(c) = 3
  BY <1>1 DEF IsCommand
<1>9. c[1].op = "puts" /\ c[2].op = "ack" /\ Awaits(c[2]) /\ c[3].op = "read"
  <2>1. c[2].want = Echo("CIPSEND") /\ Echo("CIPSEND") \in Replies
    BY <1>1 DEF IsCommand, Echo, Replies, Names
  <2> QED BY <1>1, <2>1 DEF IsCommand, Awaits
<1>10. StepAfter(q2, c, 3, x4)
  BY <1>2, <1>8, ThenStep DEF q2
<1>11. StepAfter(q3, q2, 4, x5)
  <2>1. q2 \in Seq(Steps) /\ Len(q2) = 4
    BY <1>10 DEF StepAfter
  <2> QED BY <1>3, <2>1, ThenStep DEF q3
<1>12. StepAfter(q4, q3, 5, x6)
  <2>1. q3 \in Seq(Steps) /\ Len(q3) = 5
    BY <1>11 DEF StepAfter
  <2> QED BY <1>4, <2>1, ThenStep DEF q4
<1>13. StepAfter(q5, q4, 6, x7)
  <2>1. q4 \in Seq(Steps) /\ Len(q4) = 6
    BY <1>12 DEF StepAfter
  <2> QED BY <1>5, <2>1, ThenStep DEF q5
<1>14. IsSend(q5)
  <2>1. (\A k \in 1 .. 3 : q2[k] = c[k]) /\ q2[4] = x4
    BY <1>10 DEF StepAfter
  <2>2. (\A k \in 1 .. 4 : q3[k] = q2[k]) /\ q3[5] = x5
    BY <1>11 DEF StepAfter
  <2>3. (\A k \in 1 .. 5 : q4[k] = q3[k]) /\ q4[6] = x6
    BY <1>12 DEF StepAfter
  <2>4. (\A k \in 1 .. 6 : q5[k] = q4[k]) /\ q5[7] = x7
    BY <1>13 DEF StepAfter
  <2>5. q5[1] = c[1] /\ q5[2] = c[2] /\ q5[3] = c[3] /\ q5[4] = x4 /\ q5[5] = x5 /\ q5[6] = x6
    BY <2>1, <2>2, <2>3, <2>4
  <2> QED BY <1>7, <1>9, <2>4, <2>5 DEF IsSend
<1>15. q5 \in Seq(Steps) /\ Len(q5) = 7
  BY <1>13 DEF StepAfter
<1> QED BY <1>0, <1>6, <1>7, <1>14, <1>15 DEF Single

\* The round of either program.
Round(h) == IF h = "server" THEN esp_send \o esp_is_recv ELSE esp_is_recv \o esp_send

(* The rounds are eight steps: the server sends and reads, the client      *)
(* reads and sends.                                                        *)
LEMMA RoundIs ==
  /\ Round("server") \in Seq(Steps) /\ Len(Round("server")) = 8
  /\ Round("client") \in Seq(Steps) /\ Len(Round("client")) = 8
  /\ \A k \in 1 .. 7 : Round("server")[k] = esp_send[k]
  /\ \A k \in 1 .. 7 : Round("client")[1 + k] = esp_send[k]
  /\ Round("server")[8].op = "recv" /\ Round("client")[1].op = "recv"
<1>1. Joined(esp_send \o esp_is_recv, esp_send, esp_is_recv, 7, 1)
  BY MessagesAre, Join
<1>2. Joined(esp_is_recv \o esp_send, esp_is_recv, esp_send, 1, 7)
  BY MessagesAre, Join
<1> DEFINE a == esp_send \o esp_is_recv
           b == esp_is_recv \o esp_send
<1> HIDE DEF a, b
<1>3. Round("server") = a /\ Round("client") = b
  BY DEF Round, a, b
<1>4. /\ a \in Seq(Steps) /\ Len(a) = 8 /\ \A k \in 1 .. 7 : a[k] = esp_send[k]
      /\ a[8] = esp_is_recv[1]
  BY <1>1 DEF Joined, a
<1>5. /\ b \in Seq(Steps) /\ Len(b) = 8 /\ \A k \in 1 .. 7 : b[1 + k] = esp_send[k]
      /\ b[1] = esp_is_recv[1]
  BY <1>2 DEF Joined, b
<1> QED BY <1>3, <1>4, <1>5, MessagesAre

(* The rounds one after another.                                           *)
LEMMA TrialsAre ==
  ASSUME NEW b \in Seq(Steps), Len(b) = 8
  PROVE  /\ Trials(b) \in Seq(Steps) /\ Len(Trials(b)) = 8 * NTRIALS
         /\ \A t \in Nat, r \in 1 .. 8 : t < NTRIALS => Trials(b)[8 * t + r] = b[r]
<1>1. NTRIALS \in Nat /\ NTRIALS * Len(b) = 8 * NTRIALS
  BY NTRIALSAssumption
<1>2. ASSUME NEW k \in 1 .. NTRIALS * Len(b) PROVE b[((k - 1) % Len(b)) + 1] \in Steps
  <2>1. ((k - 1) % 8) + 1 \in 1 .. 8
    BY <1>1
  <2> QED BY <2>1, ElementOfSeq
<1>3. Trials(b) \in [1 .. NTRIALS * Len(b) -> Steps]
  BY <1>2 DEF Trials
<1>4. Trials(b) \in Seq(Steps)
  <2>1. NTRIALS * Len(b) \in Nat
    BY <1>1
  <2> QED BY <1>3, <2>1, SeqDef
<1>5. Len(Trials(b)) = 8 * NTRIALS
  <2>1. DOMAIN Trials(b) = 1 .. 8 * NTRIALS
    BY <1>1, <1>3
  <2>2. DOMAIN Trials(b) = 1 .. Len(Trials(b)) /\ Len(Trials(b)) \in Nat
    BY <1>4
  <2> DEFINE n == Len(Trials(b))
             m == 8 * NTRIALS
  <2>3. n \in Nat /\ m \in Nat /\ 1 .. n = 1 .. m
    BY <1>1, <2>1, <2>2
  <2> HIDE DEF n, m
  <2>4. n = m
    BY <2>3
  <2> QED BY <2>4 DEF n, m
<1>6. ASSUME NEW t \in Nat, NEW r \in 1 .. 8, t < NTRIALS PROVE Trials(b)[8 * t + r] = b[r]
  <2> DEFINE k == 8 * t + r
  <2>1. k \in 1 .. 8 * NTRIALS
    BY <1>1, <1>6
  <2>2. (k - 1) % 8 = r - 1
    <3>1. k - 1 = 8 * t + (r - 1) /\ r - 1 \in 0 .. 7
      OBVIOUS
    <3> QED BY <3>1
  <2>3. ((k - 1) % 8) + 1 = r
    BY <2>2
  <2> HIDE DEF k
  <2>4. Trials(b)[k] = b[((k - 1) % Len(b)) + 1]
    BY <1>1, <2>1 DEF Trials
  <2>5. Trials(b)[k] = b[r]
    BY <2>3, <2>4
  <2> QED BY <2>5 DEF k
<1> QED BY <1>4, <1>5, <1>6

(* A program that goes on begins as before.                                *)
LEMMA GoesOn ==
  ASSUME NEW s \in Seq(Steps), NEW t \in Seq(Steps)
  PROVE  Begins(s \o t, s, Len(s))
<1>1. Len(s) \in Nat /\ Len(t) \in Nat
  OBVIOUS
<1>2. Joined(s \o t, s, t, Len(s), Len(t))
  BY Join
<1> QED BY <1>1, <1>2 DEF Begins, Joined

(* The server's program, up to where it waits.                             *)
LEMMA ServerIs ==
  LET P == Program["server"] IN
  /\ P \in Seq(Steps) /\ Len(P) >= ServerHead
  /\ \A k \in 1 .. ResetEnd : P[k] = esp_hard_reset[k]
  /\ \A k \in ResetEnd + 1 .. ServerSays : P[k] \in Dumb
  /\ P[ServerHead] = [op |-> "echo_until", want |-> Connect, extra |-> TRUE]
  /\ Len(esp_hard_reset \o esp_setup_wifi \o esp_start_tcp_server) = ServerSays
  /\ Len(esp_hard_reset \o esp_setup_wifi \o esp_start_tcp_server \o wait_for_conn) = ServerHead
<1> DEFINE R == esp_hard_reset
           q1 == R \o esp_setup_wifi
           q2 == q1 \o esp_start_tcp_server
           q3 == q2 \o wait_for_conn
           T == Trials(esp_send \o esp_is_recv)
           P == q3 \o T
           x == [op |-> "echo_until", want |-> Connect, extra |-> TRUE]
<1>0. Program["server"] = P
  BY DEF Program
<1>1. R \in Seq(Steps) /\ Len(R) = 13
  BY ResetIs DEF ResetEnd
<1>2. Single(wait_for_conn, x)
  BY StepIs, NamedLines DEF Ops, wait_for_conn
<1>3. T \in Seq(Steps)
  BY RoundIs, TrialsAre DEF Round
<1> HIDE DEF R, q1, q2, q3, T, P, x
<1>4. PieceAfter(q1, R, 13, 9, Dumb)
  BY <1>1, OpeningIs, PieceSets, ThenPiece DEF q1
<1>5. q1 \in Seq(Steps) /\ Len(q1) = 22
  BY <1>4 DEF PieceAfter
<1>6. PieceAfter(q2, q1, 22, 25, Dumb)
  BY <1>5, OpeningIs, PieceSets, ThenPiece DEF q2
<1>7. q2 \in Seq(Steps) /\ Len(q2) = 47
  BY <1>6 DEF PieceAfter
<1>8. StepAfter(q3, q2, 47, x)
  BY <1>2, <1>7, ThenStep DEF q3
<1>9. q3 \in Seq(Steps) /\ Len(q3) = 48
  BY <1>8 DEF StepAfter
<1>10. P \in Seq(Steps) /\ Len(P) >= 48 /\ \A k \in 1 .. 48 : P[k] = q3[k]
  <2>1. Begins(P, q3, 48)
    BY <1>3, <1>9, GoesOn DEF P
  <2> QED BY <2>1 DEF Begins
<1>11. \A k \in 1 .. 13 : q1[k] = R[k]
  BY <1>4 DEF PieceAfter
<1>12. \A k \in 14 .. 22 : q1[k] \in Dumb
  BY <1>4 DEF PieceAfter
<1>13. \A k \in 1 .. 22 : q2[k] = q1[k]
  BY <1>6 DEF PieceAfter
<1>14. \A k \in 23 .. 47 : q2[k] \in Dumb
  <2>1. \A k \in 22 + 1 .. 22 + 25 : q2[k] \in Dumb
    BY <1>6 DEF PieceAfter
  <2> QED BY <2>1
<1>15. (\A k \in 1 .. 47 : q3[k] = q2[k]) /\ q3[48] = x
  BY <1>8 DEF StepAfter
<1> DEFINE same == (\A k \in 1 .. 48 : P[k] = q3[k]) /\ (\A k \in 1 .. 47 : q3[k] = q2[k])
                      /\ (\A k \in 1 .. 22 : q2[k] = q1[k])
<1>a. same
  BY <1>10, <1>13, <1>15
<1>16. \A k \in 1 .. 13 : P[k] = R[k]
  BY <1>a, <1>11
<1>17. \A k \in 14 .. 47 : P[k] \in Dumb
  <2>1. ASSUME NEW k \in 14 .. 47 PROVE P[k] \in Dumb
    <3>1. P[k] = q2[k]
      BY <1>a
    <3>2. CASE k \in 14 .. 22
      <4>1. q2[k] = q1[k]
        BY <1>a, <3>2
      <4> QED BY <1>12, <3>1, <3>2, <4>1
    <3>3. CASE k \in 23 .. 47
      BY <1>14, <3>1, <3>3
    <3> QED BY <3>2, <3>3
  <2> QED BY <2>1
<1>18. P[48] = x
  BY <1>a, <1>15
<1> QED BY <1>0, <1>7, <1>9, <1>10, <1>16, <1>17, <1>18
        DEF ResetEnd, ServerSays, ServerHead, q1, q2, q3, R, x

(* The client's program, up to where it has its connection.                *)
LEMMA ClientIs ==
  LET P == Program["client"] IN
  /\ P \in Seq(Steps) /\ Len(P) >= ClientHead
  /\ \A k \in 1 .. ResetEnd : P[k] = esp_hard_reset[k]
  /\ \A k \in ResetEnd + 1 .. Asks - 1 : P[k] \in Quiet
  /\ P[Asks] = [op |-> "puts", want |-> CipStart, extra |-> FALSE]
  /\ P[Asks + 1] = [op |-> "ack", want |-> Echo("CIPSTART"), extra |-> FALSE]
  /\ P[Hears] = [op |-> "responsef", want |-> Connect, extra |-> FALSE]
  /\ P[Hears + 1] = [op |-> "read", want |-> Line("OK"), extra |-> FALSE]
  /\ P[ClientHead] = [op |-> "active", want |-> Ready, extra |-> FALSE]
  /\ Len(esp_hard_reset \o esp_connect_to_wifi \o esp_start_tcp_client) = ClientHead
<1> DEFINE R == esp_hard_reset
           q1 == R \o esp_connect_to_wifi
           c1 == cmd_puts("CIPSTART")
           c2 == cmd_ack("CIPSTART")
           c3 == Step("responsef", Connect, FALSE)
           c4 == cmd_response(Line("OK"), FALSE)
           b3 == c1 \o c2 \o c3
           b4 == b3 \o c4
           M == at_cmd("CIPMUX")
           t5 == Step("active", Ready, FALSE)
           u1 == M \o b4
           u2 == u1 \o t5
           q2 == q1 \o u2
           T == Trials(esp_is_recv \o esp_send)
           P == q2 \o T
           x1 == [op |-> "puts", want |-> CipStart, extra |-> FALSE]
           x2 == [op |-> "ack", want |-> Echo("CIPSTART"), extra |-> FALSE]
           x3 == [op |-> "responsef", want |-> Connect, extra |-> FALSE]
           x4 == [op |-> "read", want |-> Line("OK"), extra |-> FALSE]
           x5 == [op |-> "active", want |-> Ready, extra |-> FALSE]
<1>0. Program["client"] = P
  BY DEF Program, esp_start_tcp_client, issue_tcp_connect
<1>1. R \in Seq(Steps) /\ Len(R) = 13
  BY ResetIs DEF ResetEnd
<1>2. Single(c1, x1)
  <2>1. <<"cmd", "CIPSTART">> \in Commands
    BY CommandsAre DEF Names
  <2> QED BY <2>1, StepIs DEF Ops, cmd_puts, CipStart
<1>3. Single(c2, x2)
  <2>1. Echo("CIPSTART") \in Lines
    BY LinesAre DEF Names
  <2> QED BY <2>1, StepIs DEF Ops, cmd_ack
<1>4. Single(c3, x3)
  BY StepIs, NamedLines DEF Ops
<1>5. Single(c4, x4)
  <2>1. Line("OK") \in Lines
    BY LinesAre DEF Texts
  <2> QED BY <2>1, StepIs DEF Ops, cmd_response
<1>6. Single(t5, x5)
  BY StepIs, NamedLines DEF Ops
<1>7. Piece(M, 3, Quiet)
  BY CommandPiece DEF Names, at_cmd
<1>8. T \in Seq(Steps)
  BY RoundIs, TrialsAre DEF Round
<1> HIDE DEF R, q1, c1, c2, c3, c4, b3, b4, M, t5, u1, u2, q2, T, P, x1, x2, x3, x4, x5
<1>9. b3 \in Seq(Steps) /\ Len(b3) = 3 /\ b3[1] = x1 /\ b3[2] = x2 /\ b3[3] = x3
  BY <1>2, <1>3, <1>4, ThreeSteps DEF b3
<1>10. StepAfter(b4, b3, 3, x4)
  BY <1>5, <1>9, ThenStep DEF b4
<1>11. b4 \in Seq(Steps) /\ Len(b4) = 4 /\ b4[1] = x1 /\ b4[2] = x2 /\ b4[3] = x3 /\ b4[4] = x4
  BY <1>9, <1>10 DEF StepAfter
<1>12. M \in Seq(Steps) /\ Len(M) = 3 /\ \A k \in 1 .. 3 : M[k] \in Quiet
  <2>1. M \in Seq(Quiet) /\ Len(M) = 3
    BY <1>7 DEF Piece
  <2>2. \A k \in 1 .. 3 : M[k] \in Quiet
    BY <2>1, ElementOfSeq
  <2>3. M \in Seq(Steps)
    BY <2>1, PieceSets, SeqMonotonic
  <2> QED BY <2>1, <2>2, <2>3
<1>13. /\ u1 \in Seq(Steps) /\ Len(u1) = 7 /\ \A k \in 1 .. 3 : u1[k] = M[k]
       /\ \A k \in 1 .. 4 : u1[3 + k] = b4[k]
  <2>1. Joined(u1, M, b4, 3, 4)
    BY <1>11, <1>12, Join DEF u1
  <2> QED BY <2>1 DEF Joined
<1>14. StepAfter(u2, u1, 7, x5)
  BY <1>6, <1>13, ThenStep DEF u2
<1>15. u2 \in Seq(Steps) /\ Len(u2) = 8 /\ u2[8] = x5 /\ \A k \in 1 .. 7 : u2[k] = u1[k]
  BY <1>14 DEF StepAfter
<1>16. /\ \A k \in 1 .. 3 : u2[k] \in Quiet
       /\ u2[4] = x1 /\ u2[5] = x2 /\ u2[6] = x3 /\ u2[7] = x4 /\ u2[8] = x5
  <2>1. u1[4] = b4[1] /\ u1[5] = b4[2] /\ u1[6] = b4[3] /\ u1[7] = b4[4]
    BY <1>13
  <2> QED BY <1>11, <1>12, <1>13, <1>15, <2>1
<1>17. PieceAfter(q1, R, 13, 6, Quiet)
  BY <1>1, OpeningIs, PieceSets, ThenPiece DEF q1
<1>18. q1 \in Seq(Steps) /\ Len(q1) = 19
  BY <1>17 DEF PieceAfter
<1>19. /\ q2 \in Seq(Steps) /\ Len(q2) = 27 /\ \A k \in 1 .. 19 : q2[k] = q1[k]
       /\ \A k \in 1 .. 8 : q2[19 + k] = u2[k]
  <2>1. Joined(q2, q1, u2, 19, 8)
    BY <1>15, <1>18, Join DEF q2
  <2> QED BY <2>1 DEF Joined
<1>20. P \in Seq(Steps) /\ Len(P) >= 27 /\ \A k \in 1 .. 27 : P[k] = q2[k]
  <2>1. Begins(P, q2, 27)
    BY <1>8, <1>19, GoesOn DEF P
  <2> QED BY <2>1 DEF Begins
<1>21. (\A k \in 1 .. 13 : q1[k] = R[k]) /\ (\A k \in 14 .. 19 : q1[k] \in Quiet)
  BY <1>17 DEF PieceAfter
<1> DEFINE same == (\A k \in 1 .. 27 : P[k] = q2[k]) /\ (\A k \in 1 .. 19 : q2[k] = q1[k])
<1>a. same
  BY <1>19, <1>20
<1>22. \A k \in 1 .. 13 : P[k] = R[k]
  BY <1>a, <1>21
<1>23. \A k \in 14 .. 22 : P[k] \in Quiet
  <2>1. \A k \in 14 .. 19 : P[k] \in Quiet
    BY <1>a, <1>21
  <2>2. ASSUME NEW k \in 20 .. 22 PROVE P[k] \in Quiet
    <3>1. k - 19 \in 1 .. 3 /\ 19 + (k - 19) = k /\ k \in 1 .. 27 /\ k - 19 \in 1 .. 8
      OBVIOUS
    <3>2. P[k] = u2[k - 19]
      BY <1>19, <1>20, <3>1
    <3> QED BY <1>16, <3>1, <3>2
  <2> QED BY <2>1, <2>2
<1>24. P[23] = x1 /\ P[24] = x2 /\ P[25] = x3 /\ P[26] = x4 /\ P[27] = x5
  <2>1. /\ q2[19 + 4] = u2[4] /\ q2[19 + 5] = u2[5] /\ q2[19 + 6] = u2[6]
        /\ q2[19 + 7] = u2[7] /\ q2[19 + 8] = u2[8]
    BY <1>19
  <2>2. /\ P[23] = q2[23] /\ P[24] = q2[24] /\ P[25] = q2[25] /\ P[26] = q2[26]
        /\ P[27] = q2[27]
    BY <1>a
  <2>3. /\ q2[23] = u2[4] /\ q2[24] = u2[5] /\ q2[25] = u2[6] /\ q2[26] = u2[7]
        /\ q2[27] = u2[8]
    BY <2>1
  <2> QED BY <1>16, <2>2, <2>3
<1>25. Len(esp_hard_reset \o esp_connect_to_wifi \o esp_start_tcp_client) = 27
  BY <1>19 DEF q2, q1, R, u2, u1, M, b4, b3, c1, c2, c3, c4, t5,
               esp_start_tcp_client, issue_tcp_connect
<1> QED BY <1>0, <1>20, <1>22, <1>23, <1>24, <1>25
        DEF ResetEnd, Asks, Hears, ClientHead, R, x1, x2, x3, x4, x5

-----------------------------------------------------------------------------
(* The rounds of the two programs.                                         *)

\* The sequences of steps in which a step that reads what was asked for comes
\* after every write.
Paired ==
    {s \in Seq(Steps) : \A k \in 1 .. Len(s) :
        s[k].op \in {"puts", "write"} => k < Len(s) /\ Awaits(s[k + 1])}

(* They may be put one after another.                                      *)
LEMMA PairedCat == \A s, t \in Paired : s \o t \in Paired
<1> SUFFICES ASSUME NEW s \in Paired, NEW t \in Paired PROVE s \o t \in Paired
  OBVIOUS
<1>1. s \in Seq(Steps) /\ t \in Seq(Steps)
  BY DEF Paired
<1>2. Len(s) \in Nat /\ Len(t) \in Nat
  BY <1>1
<1> DEFINE q == s \o t
           m == Len(s)
<1>3. Joined(q, s, t, m, Len(t))
  BY <1>1, Join
<1> HIDE DEF q
<1>4. ASSUME NEW k \in 1 .. Len(q), q[k].op \in {"puts", "write"}
      PROVE  k < Len(q) /\ Awaits(q[k + 1])
  <2>1. /\ Len(q) = m + Len(t) /\ \A j \in 1 .. m : q[j] = s[j]
        /\ \A j \in 1 .. Len(t) : q[m + j] = t[j]
    BY <1>3 DEF Joined
  <2>2. CASE k \in 1 .. m
    <3>1. k < m /\ Awaits(s[k + 1])
      BY <1>4, <2>1, <2>2 DEF Paired
    <3>2. k + 1 \in 1 .. m
      BY <1>2, <2>2, <3>1
    <3>3. q[k + 1] = s[k + 1]
      BY <2>1, <3>2
    <3>4. k < Len(q)
      BY <1>2, <2>1, <3>1
    <3> QED BY <3>1, <3>3, <3>4
  <2>3. CASE k \in m + 1 .. Len(q)
    <3> DEFINE j == k - m
    <3>1. j \in 1 .. Len(t) /\ m + j = k /\ m + (j + 1) = k + 1
      BY <1>2, <2>1, <2>3
    <3> HIDE DEF j
    <3>2. q[k] = t[j]
      BY <2>1, <3>1
    <3>3. j < Len(t) /\ Awaits(t[j + 1])
      BY <1>4, <3>1, <3>2 DEF Paired
    <3>4. j + 1 \in 1 .. Len(t)
      BY <1>2, <3>1, <3>3
    <3>5. q[k + 1] = t[j + 1]
      BY <2>1, <3>1, <3>4
    <3>6. k < Len(q)
      BY <1>2, <2>1, <3>1, <3>3
    <3> QED BY <3>3, <3>5, <3>6
  <2> QED BY <1>2, <2>1, <2>2, <2>3
<1>5. q \in Seq(Steps)
  BY <1>3 DEF Joined
<1> QED BY <1>4, <1>5 DEF Paired, q

(* A step that does not write is such a sequence.                          *)
LEMMA PairedStep ==
  ASSUME NEW op \in Ops \ {"puts", "write"}, NEW want \in Commands \cup Lines,
         NEW extra \in BOOLEAN
  PROVE  Step(op, want, extra) \in Paired
<1> DEFINE t == Step(op, want, extra)
           r == [op |-> op, want |-> want, extra |-> extra]
<1>1. Single(t, r)
  BY StepIs
<1>2. r.op \notin {"puts", "write"}
  OBVIOUS
<1> HIDE DEF t, r
<1>3. t \in Seq(Steps) /\ Len(t) = 1 /\ t[1] = r
  BY <1>1 DEF Single
<1>4. t \in Paired
  <2>1. \A k \in 1 .. Len(t) : t[k].op \notin {"puts", "write"}
    BY <1>2, <1>3
  <2> QED BY <1>3, <2>1 DEF Paired
<1> QED BY <1>4 DEF t

(* A command and its echo are one.                                         *)
LEMMA PairedPuts ==
  ASSUME NEW c \in Names
  PROVE  cmd_puts(c) \o cmd_ack(c) \in Paired
<1> DEFINE a == [op |-> "puts", want |-> <<"cmd", c>>, extra |-> FALSE]
           b == [op |-> "ack", want |-> Echo(c), extra |-> FALSE]
           q == cmd_puts(c) \o cmd_ack(c)
<1>1. Single(cmd_puts(c), a)
  <2>1. <<"cmd", c>> \in Commands /\ <<"cmd", c>> \in Commands \cup Lines
    BY CommandsAre
  <2> QED BY <2>1, StepIs DEF cmd_puts, Ops
<1>2. Single(cmd_ack(c), b)
  <2>1. Echo(c) \in Commands \cup Lines
    BY LinesAre
  <2> QED BY <2>1, StepIs DEF cmd_ack, Ops
<1>3. Awaits(b) /\ b.op \notin {"puts", "write"}
  <2>1. Echo(c) \in Replies
    BY DEF Echo, Replies
  <2> QED BY <2>1 DEF Awaits
<1> HIDE DEF a, b, q
<1>4. StepAfter(q, cmd_puts(c), 1, b)
  <2>1. cmd_puts(c) \in Seq(Steps) /\ Len(cmd_puts(c)) = 1
    BY <1>1 DEF Single
  <2> QED BY <1>2, <2>1, ThenStep DEF q
<1>5. q \in Seq(Steps) /\ Len(q) = 2 /\ q[2] = b
  BY <1>4 DEF StepAfter
<1>6. q \in Paired
  <2>1. ASSUME NEW k \in 1 .. Len(q), q[k].op \in {"puts", "write"}
        PROVE  k < Len(q) /\ Awaits(q[k + 1])
    <3>1. k = 1
      BY <1>3, <1>5, <2>1
    <3> QED BY <1>3, <1>5, <3>1
  <2> QED BY <1>5, <2>1 DEF Paired
<1> QED BY <1>6 DEF q

(* So are the commands.                                                    *)
LEMMA PairedCommand == \A c \in Names : at_cmd(c) \in Paired /\ at_cmd_extra(c) \in Paired
<1>1. ASSUME NEW c \in Names, NEW extra \in BOOLEAN PROVE do_at_cmd(c, extra) \in Paired
  <2>1. Line("OK") \in Commands \cup Lines
    BY LinesAre DEF Texts
  <2>2. cmd_response(Line("OK"), extra) \in Paired
    BY <2>1, PairedStep DEF cmd_response, Ops
  <2>3. cmd_puts(c) \o cmd_ack(c) \in Paired
    BY PairedPuts
  <2> DEFINE x == cmd_puts(c) \o cmd_ack(c)
             y == cmd_response(Line("OK"), extra)
  <2> HIDE DEF x, y
  <2>4. x \o y \in Paired
    BY <2>2, <2>3, PairedCat DEF x, y
  <2> QED BY <2>4 DEF do_at_cmd, x, y
<1> QED BY <1>1 DEF at_cmd, at_cmd_extra

(* What the two programs do before their rounds.                           *)
LEMMA PairedHeads ==
  /\ esp_hard_reset \o esp_setup_wifi \o esp_start_tcp_server \o wait_for_conn \in Paired
  /\ esp_hard_reset \o esp_connect_to_wifi \o esp_start_tcp_client \in Paired
<1>1. /\ Step("drain", Busy, FALSE) \in Paired /\ at_drain \in Paired
      /\ Step("active", Ready, FALSE) \in Paired /\ wait_for_conn \in Paired
      /\ Step("responsef", Connect, FALSE) \in Paired
  BY PairedStep, NamedLines DEF Ops, at_drain, wait_for_conn
<1>2. cmd_response(Line("OK"), FALSE) \in Paired
  <2>1. Line("OK") \in Commands \cup Lines
    BY LinesAre DEF Texts
  <2> QED BY <2>1, PairedStep DEF cmd_response, Ops
<1>3. esp_hard_reset \in Paired
  <2>1. at_cmd_extra("RST") \in Paired /\ at_cmd_extra("RESTORE") \in Paired
    BY PairedCommand DEF Names
  <2> QED BY <1>1, <2>1, PairedCat DEF esp_hard_reset
<1>4. esp_setup_wifi \in Paired
  <2>1. /\ at_cmd("CWSAP") \in Paired /\ at_cmd("CWMODE") \in Paired
        /\ at_cmd_extra("CIFSR") \in Paired
    BY PairedCommand DEF Names
  <2> QED BY <2>1, PairedCat DEF esp_setup_wifi
<1>5. esp_connect_to_wifi \in Paired
  <2>1. at_cmd("CWMODE") \in Paired /\ at_cmd_extra("CWJAP") \in Paired
    BY PairedCommand DEF Names
  <2> QED BY <2>1, PairedCat DEF esp_connect_to_wifi
<1>6. esp_start_tcp_server \in Paired
  <2>1. /\ at_cmd("CWMODE") \in Paired /\ at_cmd("CIPMUX") \in Paired
        /\ at_cmd("CIPSERVER") \in Paired /\ at_cmd_extra("CIPSTO") \in Paired
        /\ at_cmd_extra("CIFSR") \in Paired /\ at_cmd_extra("GMR") \in Paired
    BY PairedCommand DEF Names
  <2> QED BY <1>1, <2>1, PairedCat DEF esp_start_tcp_server
<1>7. esp_start_tcp_client \in Paired
  <2>1. at_cmd("CIPMUX") \in Paired /\ cmd_puts("CIPSTART") \o cmd_ack("CIPSTART") \in Paired
    BY PairedCommand, PairedPuts DEF Names
  <2>2. issue_tcp_connect \in Paired
    <3> DEFINE x == cmd_puts("CIPSTART") \o cmd_ack("CIPSTART")
    <3> HIDE DEF x
    <3>1. x \o Step("responsef", Connect, FALSE) \o cmd_response(Line("OK"), FALSE) \in Paired
      BY <1>1, <1>2, <2>1, PairedCat DEF x
    <3> QED BY <3>1 DEF issue_tcp_connect, x
  <2> QED BY <1>1, <2>1, <2>2, PairedCat DEF esp_start_tcp_client
<1> QED BY <1>1, <1>3, <1>4, <1>5, <1>6, <1>7, PairedCat

-----------------------------------------------------------------------------
(* What a line or a command is among, after the moves of the queues.       *)
LEMMA HoldsAppend ==
  ASSUME NEW S, NEW s \in Seq(S), NEW e \in S
  PROVE  \A x : Holds(Append(s, e), x) <=> Holds(s, x) \/ x = e
<1>1. /\ Len(Append(s, e)) = Len(s) + 1 /\ Append(s, e)[Len(s) + 1] = e
      /\ \A k \in 1 .. Len(s) : Append(s, e)[k] = s[k]
      /\ Len(s) \in Nat
  OBVIOUS
<1> DEFINE t == Append(s, e)
<1> HIDE DEF t
<1>2. /\ Len(t) = Len(s) + 1 /\ t[Len(s) + 1] = e
      /\ \A k \in 1 .. Len(s) : t[k] = s[k]
  BY <1>1 DEF t
<1>3. \A x : Holds(t, x) <=> Holds(s, x) \/ x = e
  BY <1>1, <1>2 DEF Holds
<1> QED BY <1>3 DEF t

(* What is left when the first is taken.                                   *)
LEMMA HoldsTail ==
  ASSUME NEW S, NEW s \in Seq(S), s # <<>>
  PROVE  /\ Tail(s) \in Seq(S) /\ Head(s) \in S /\ Holds(s, Head(s))
         /\ \A x : Holds(Tail(s), x) => Holds(s, x)
         /\ \A x : Holds(s, x) /\ x # Head(s) => Holds(Tail(s), x)
<1>1. /\ Len(s) \in Nat \ {0} /\ Len(Tail(s)) = Len(s) - 1 /\ Head(s) = s[1]
      /\ \A k \in 1 .. Len(s) - 1 : Tail(s)[k] = s[k + 1]
      /\ Tail(s) \in Seq(S) /\ Head(s) \in S
  OBVIOUS
<1> DEFINE t == Tail(s)
<1> HIDE DEF t
<1>2. Len(t) = Len(s) - 1 /\ \A k \in 1 .. Len(s) - 1 : t[k] = s[k + 1]
  BY <1>1 DEF t
<1>3. ASSUME NEW x, Holds(t, x) PROVE Holds(s, x)
  <2>1. PICK k \in 1 .. Len(t) : t[k] = x
    BY <1>3 DEF Holds
  <2>2. k + 1 \in 1 .. Len(s) /\ s[k + 1] = x
    BY <1>1, <1>2, <2>1
  <2> QED BY <2>2 DEF Holds
<1>4. ASSUME NEW x, Holds(s, x), x # Head(s) PROVE Holds(t, x)
  <2>1. PICK k \in 1 .. Len(s) : s[k] = x
    BY <1>4 DEF Holds
  <2>2. k # 1
    BY <1>1, <1>4, <2>1
  <2>3. k - 1 \in 1 .. Len(t) /\ (k - 1) + 1 = k
    BY <1>1, <1>2, <2>1, <2>2
  <2>4. t[k - 1] = x
    BY <1>1, <1>2, <2>1, <2>3
  <2> QED BY <2>3, <2>4 DEF Holds
<1>5. Holds(s, Head(s))
  BY <1>1 DEF Holds
<1> QED BY <1>1, <1>3, <1>4, <1>5 DEF t

(* What two sequences, one after the other, hold.                          *)
LEMMA HoldsCat ==
  ASSUME NEW S, NEW s \in Seq(S), NEW t \in Seq(S)
  PROVE  \A x : Holds(s \o t, x) <=> Holds(s, x) \/ Holds(t, x)
<1> DEFINE u == s \o t
<1>1. /\ Len(u) = Len(s) + Len(t) /\ Len(s) \in Nat /\ Len(t) \in Nat
      /\ \A k \in 1 .. Len(s) : u[k] = s[k]
      /\ \A k \in 1 .. Len(t) : u[Len(s) + k] = t[k]
  OBVIOUS
<1> HIDE DEF u
<1>2. ASSUME NEW x, Holds(u, x) PROVE Holds(s, x) \/ Holds(t, x)
  <2>1. PICK k \in 1 .. Len(u) : u[k] = x
    BY <1>2 DEF Holds
  <2>2. CASE k <= Len(s)
    BY <1>1, <2>1, <2>2 DEF Holds
  <2>3. CASE k > Len(s)
    <3>1. k - Len(s) \in 1 .. Len(t) /\ Len(s) + (k - Len(s)) = k
      BY <1>1, <2>1, <2>3
    <3>2. t[k - Len(s)] = x
      BY <1>1, <2>1, <3>1
    <3> QED BY <3>1, <3>2 DEF Holds
  <2> QED BY <1>1, <2>1, <2>2, <2>3
<1>3. ASSUME NEW x, Holds(s, x) PROVE Holds(u, x)
  BY <1>1, <1>3 DEF Holds
<1>4. ASSUME NEW x, Holds(t, x) PROVE Holds(u, x)
  <2>1. PICK k \in 1 .. Len(t) : t[k] = x
    BY <1>4 DEF Holds
  <2>2. Len(s) + k \in 1 .. Len(u)
    BY <1>1, <2>1
  <2> QED BY <1>1, <2>1, <2>2 DEF Holds
<1> QED BY <1>2, <1>3, <1>4 DEF u

(* Emitting a line leaves what is incoming.                                *)
LEMMA EmitMoves ==
  ASSUME NEW S, NEW i \in Seq(S), NEW o \in Seq(S), o # <<>>
  PROVE  Append(i, Head(o)) \o Tail(o) = i \o o
<1>1. Head(o) \in S /\ Tail(o) \in Seq(S)
  OBVIOUS
<1> DEFINE a == Append(i, Head(o)) \o Tail(o)
           b == i \o o
<1>2. a \in Seq(S) /\ b \in Seq(S) /\ Len(a) = Len(b)
  BY <1>1
<1>3. ASSUME NEW k \in 1 .. Len(a) PROVE a[k] = b[k]
  BY <1>1
<1> HIDE DEF a, b
<1>4. a = b
  BY <1>2, <1>3, SeqEqual
<1> QED BY <1>4 DEF a, b

(* Reading a line takes the first of what is incoming.                     *)
LEMMA ReadTakes ==
  ASSUME NEW S, NEW i \in Seq(S), NEW o \in Seq(S), i # <<>>
  PROVE  Tail(i) \o o = Tail(i \o o) /\ Head(i) = Head(i \o o) /\ i \o o # <<>>
<1>1. Tail(i) \in Seq(S) /\ i \o o \in Seq(S) /\ i \o o # <<>> /\ Tail(i \o o) \in Seq(S)
  OBVIOUS
<1> DEFINE a == Tail(i) \o o
           b == Tail(i \o o)
<1>2. a \in Seq(S) /\ b \in Seq(S) /\ Len(a) = Len(b)
  BY <1>1
<1>3. ASSUME NEW k \in 1 .. Len(a) PROVE a[k] = b[k]
  BY <1>1
<1>4. Head(i) = Head(i \o o)
  BY <1>1
<1> HIDE DEF a, b
<1>5. a = b
  BY <1>2, <1>3, SeqEqual
<1> QED BY <1>1, <1>4, <1>5 DEF a, b

-----------------------------------------------------------------------------
(* How a reset's answer is used up.                                        *)
LEMMA EndsTail ==
  ASSUME NEW S, NEW s \in Seq(S), s # <<>>
  PROVE  /\ EndsReady(s) => EndsReady(Tail(s))
         /\ EndsReady(s) /\ Head(s) = Ready => Tail(s) = <<>>
         /\ EndsRestored(s) => EndsRestored(Tail(s))
         /\ EndsRestored(s) /\ Head(s) = Restored => EndsReady(Tail(s))
<1> DEFINE t == Tail(s)
           n == Len(s)
<1>1. /\ n \in Nat \ {0} /\ Len(t) = n - 1 /\ Head(s) = s[1] /\ t \in Seq(S)
      /\ \A k \in 1 .. n - 1 : t[k] = s[k + 1]
  OBVIOUS
<1>2. Len(t) = 0 => t = <<>>
  BY <1>1, EmptySeq
<1>n. Len(s) = n
  OBVIOUS
<1> HIDE DEF t, n
<1>3. ASSUME NEW k \in 1 .. Len(t)
      PROVE  /\ k + 1 \in 1 .. n /\ t[k] = s[k + 1] /\ (k + 1 = n => k = Len(t))
             /\ 1 < k + 1 /\ 1 \in 1 .. n
  BY <1>1
<1>4. EndsReady(s) => EndsReady(t)
  BY <1>n, <1>3 DEF EndsReady
<1>5. ASSUME EndsReady(s), s[1] = Ready PROVE t = <<>>
  <2>1. 1 \in 1 .. Len(s)
    BY <1>1, <1>n
  <2>2. 1 = n
    BY <1>5, <1>n, <2>1 DEF EndsReady
  <2> QED BY <1>1, <1>2, <2>2
<1>6. ASSUME EndsRestored(s) PROVE EndsRestored(t)
  <2>1. ASSUME NEW j \in 1 .. Len(t), NEW k \in 1 .. Len(t), j < k, t[j] = Restored, t[k] = Ready
        PROVE  k = Len(t)
    <3>1. j + 1 < k + 1
      BY <2>1
    <3>2. k + 1 = Len(s)
      BY <1>6, <1>n, <1>3, <2>1, <3>1 DEF EndsRestored
    <3> QED BY <1>n, <1>3, <3>2
  <2> QED BY <2>1 DEF EndsRestored
<1>7. ASSUME EndsRestored(s), s[1] = Restored PROVE EndsReady(t)
  <2>1. ASSUME NEW k \in 1 .. Len(t), t[k] = Ready PROVE k = Len(t)
    <3>1. k + 1 = Len(s)
      BY <1>7, <1>n, <1>3, <2>1 DEF EndsRestored
    <3> QED BY <1>n, <1>3, <3>1
  <2> QED BY <2>1 DEF EndsReady
<1> QED BY <1>1, <1>4, <1>5, <1>6, <1>7 DEF t

(* A busy line before the rest of an answer changes nothing.               *)
LEMMA BusyBetween ==
  ASSUME NEW S, NEW i \in Seq(S), NEW o \in Seq(S), o # <<>>, Busy \in S
  PROVE  /\ EndsReady(i \o o) => EndsReady(Append(i, Busy) \o o)
         /\ EndsRestored(i \o o) => EndsRestored(Append(i, Busy) \o o)
<1> DEFINE s == i \o o
           t == Append(i, Busy) \o o
           m == Len(i)
<1>0. Busy # Ready /\ Busy # Restored
  BY DEF Busy, Ready, Restored, Line, Echo
<1>1. /\ m \in Nat /\ Len(o) \in Nat \ {0} /\ Len(s) = m + Len(o) /\ Len(t) = m + Len(o) + 1
      /\ t[m + 1] = Busy
  OBVIOUS
<1>2. \A k \in 1 .. m : t[k] = s[k]
  OBVIOUS
<1>3. ASSUME NEW k \in m + 2 .. Len(t) PROVE t[k] = s[k - 1]
  <2>1. t[k] = o[k - (m + 1)]
    BY <1>1
  <2>2. s[k - 1] = o[(k - 1) - m]
    BY <1>1
  <2> QED BY <1>1, <2>1, <2>2
<1> HIDE DEF s, t, m
<1> DEFINE f(k) == IF k <= m THEN k ELSE k - 1
<1>4. ASSUME NEW k \in 1 .. Len(t), t[k] # Busy
      PROVE  f(k) \in 1 .. Len(s) /\ t[k] = s[f(k)] /\ (f(k) = Len(s) => k = Len(t)) /\ k # m + 1
  <2>1. k # m + 1
    BY <1>1, <1>4
  <2>2. CASE k <= m
    BY <1>1, <1>2, <2>2
  <2>3. CASE k > m + 1
    <3>1. k \in m + 2 .. Len(t) /\ f(k) = k - 1
      BY <1>1, <2>3
    <3>2. t[k] = s[k - 1]
      BY <1>3, <3>1
    <3> QED BY <1>1, <2>3, <3>1, <3>2
  <2> QED BY <1>1, <2>1, <2>2, <2>3
<1>5. ASSUME NEW j \in 1 .. Len(t), NEW k \in 1 .. Len(t), j < k, j # m + 1, k # m + 1
      PROVE  f(j) < f(k)
  BY <1>1, <1>5
<1>6. ASSUME EndsReady(s) PROVE EndsReady(t)
  <2>1. ASSUME NEW k \in 1 .. Len(t), t[k] = Ready PROVE k = Len(t)
    <3>1. f(k) \in 1 .. Len(s) /\ s[f(k)] = Ready /\ (f(k) = Len(s) => k = Len(t))
      BY <1>0, <1>4, <2>1
    <3> HIDE DEF f
    <3> QED BY <1>6, <3>1 DEF EndsReady
  <2> QED BY <2>1 DEF EndsReady
<1>7. ASSUME EndsRestored(s) PROVE EndsRestored(t)
  <2>1. ASSUME NEW j \in 1 .. Len(t), NEW k \in 1 .. Len(t), j < k, t[j] = Restored, t[k] = Ready
        PROVE  k = Len(t)
    <3>1. /\ f(k) \in 1 .. Len(s) /\ s[f(k)] = Ready /\ (f(k) = Len(s) => k = Len(t))
          /\ k # m + 1
      BY <1>0, <1>4, <2>1
    <3>2. f(j) \in 1 .. Len(s) /\ s[f(j)] = Restored /\ j # m + 1
      BY <1>0, <1>4, <2>1
    <3>3. f(j) < f(k)
      BY <1>5, <2>1, <3>1, <3>2
    <3> HIDE DEF f
    <3> QED BY <1>7, <3>1, <3>2, <3>3 DEF EndsRestored
  <2> QED BY <2>1 DEF EndsRestored
<1> QED BY <1>6, <1>7 DEF s, t

-----------------------------------------------------------------------------
(* What a chip answers: lines, the echo of RESTORE to RESTORE only, CONNECT*)
(* to CIPSTART only and while the server listens; nothing after Ready.     *)
Answers(c, a) ==
    /\ a \in Seq(Lines)
    /\ Holds(a, Restored) => c = Restore
    /\ Holds(a, Connect) => c = CipStart /\ listening
    /\ EndsReady(a)
    /\ c = Restore => a[1] = Restored /\ \A k \in 2 .. Len(a) : a[k] # Restored
    /\ Len(a) <= 4 /\ None(a, Messages)
    /\ \A k \in 2 .. Len(a) : a[k] \notin Replies

(* The chip's answers are one line after another.                          *)
LEMMA OneByOne ==
  ASSUME NEW a, NEW b, NEW d, NEW f
  PROVE  /\ <<a>> \o <<b>> = <<a, b>>
         /\ <<a>> \o (<<b>> \o <<d>>) = <<a, b, d>>
         /\ <<a>> \o (<<b>> \o <<d, f>>) = <<a, b, d, f>>
<1> DEFINE S == {a, b, d, f}
<1>1. /\ <<a>> \in Seq(S) /\ <<b>> \in Seq(S) /\ <<d>> \in Seq(S) /\ <<d, f>> \in Seq(S)
      /\ <<a, b>> \in Seq(S) /\ <<a, b, d>> \in Seq(S) /\ <<a, b, d, f>> \in Seq(S)
      /\ <<b, d>> \in Seq(S) /\ <<b, d, f>> \in Seq(S)
  OBVIOUS
<1> HIDE DEF S
<1>2. <<a>> \o <<b>> = <<a, b>>
  <2> DEFINE x == <<a>> \o <<b>>
             y == <<a, b>>
  <2>1. x \in Seq(S) /\ Len(x) = 2 /\ y \in Seq(S) /\ Len(y) = 2
    BY <1>1, ConcatProperties
  <2>2. x[1] = a /\ x[2] = b
    BY <1>1, ConcatProperties
  <2>3. y[1] = a /\ y[2] = b
    OBVIOUS
  <2> HIDE DEF x, y
  <2>4. \A k \in 1 .. Len(x) : x[k] = y[k]
    BY <2>1, <2>2, <2>3
  <2>5. x = y
    BY <2>1, <2>4, SeqEqual
  <2> QED BY <2>5 DEF x, y
<1>3. <<b>> \o <<d>> = <<b, d>>
  <2> DEFINE x == <<b>> \o <<d>>
             y == <<b, d>>
  <2>1. x \in Seq(S) /\ Len(x) = 2 /\ y \in Seq(S) /\ Len(y) = 2
    BY <1>1, ConcatProperties
  <2>2. x[1] = b /\ x[2] = d
    BY <1>1, ConcatProperties
  <2>3. y[1] = b /\ y[2] = d
    OBVIOUS
  <2> HIDE DEF x, y
  <2>4. \A k \in 1 .. Len(x) : x[k] = y[k]
    BY <2>1, <2>2, <2>3
  <2>5. x = y
    BY <2>1, <2>4, SeqEqual
  <2> QED BY <2>5 DEF x, y
<1>4. <<b>> \o <<d, f>> = <<b, d, f>>
  <2> DEFINE x == <<b>> \o <<d, f>>
             y == <<b, d, f>>
  <2>1. x \in Seq(S) /\ Len(x) = 3 /\ y \in Seq(S) /\ Len(y) = 3
    BY <1>1, ConcatProperties
  <2>2. x[1] = b /\ x[2] = d /\ x[3] = f
    BY <1>1, ConcatProperties
  <2>3. y[1] = b /\ y[2] = d /\ y[3] = f
    OBVIOUS
  <2> HIDE DEF x, y
  <2>4. \A k \in 1 .. Len(x) : x[k] = y[k]
    BY <2>1, <2>2, <2>3
  <2>5. x = y
    BY <2>1, <2>4, SeqEqual
  <2> QED BY <2>5 DEF x, y
<1>5. <<a>> \o <<b, d>> = <<a, b, d>>
  <2> DEFINE x == <<a>> \o <<b, d>>
             y == <<a, b, d>>
  <2>1. x \in Seq(S) /\ Len(x) = 3 /\ y \in Seq(S) /\ Len(y) = 3
    BY <1>1, ConcatProperties
  <2>2. x[1] = a /\ x[2] = b /\ x[3] = d
    BY <1>1, ConcatProperties
  <2>3. y[1] = a /\ y[2] = b /\ y[3] = d
    OBVIOUS
  <2> HIDE DEF x, y
  <2>4. \A k \in 1 .. Len(x) : x[k] = y[k]
    BY <2>1, <2>2, <2>3
  <2>5. x = y
    BY <2>1, <2>4, SeqEqual
  <2> QED BY <2>5 DEF x, y
<1>6. <<a>> \o <<b, d, f>> = <<a, b, d, f>>
  <2> DEFINE x == <<a>> \o <<b, d, f>>
             y == <<a, b, d, f>>
  <2>1. x \in Seq(S) /\ Len(x) = 4 /\ y \in Seq(S) /\ Len(y) = 4
    BY <1>1, ConcatProperties
  <2>2. x[1] = a /\ x[2] = b /\ x[3] = d /\ x[4] = f
    BY <1>1, ConcatProperties
  <2>3. y[1] = a /\ y[2] = b /\ y[3] = d /\ y[4] = f
    OBVIOUS
  <2> HIDE DEF x, y
  <2>4. \A k \in 1 .. Len(x) : x[k] = y[k]
    BY <2>1, <2>2, <2>3
  <2>5. x = y
    BY <2>1, <2>4, SeqEqual
  <2> QED BY <2>5 DEF x, y
<1> QED BY <1>2, <1>3, <1>4, <1>5, <1>6

(* A message written after the prompt is answered by its receipt.          *)
LEMMA AnswerData ==
  ASSUME NEW c, c[1] = "data"
  PROVE  Answers(c, Answer(c))
<1>1. Answer(c) = <<Line("Recv")>>
  BY DEF Answer
<1>2. Line("Recv") \in Lines
  BY LinesAre DEF Texts
<1> DEFINE l == Line("Recv")
<1>3. l # Restored /\ l # Connect /\ l # Ready /\ c # Restore /\ l \notin Messages
  BY DEF Line, Restored, Connect, Ready, Echo, Restore, Messages
<1> HIDE DEF l
<1>4. Answers(c, <<l>>)
  BY <1>2, <1>3 DEF Answers, Holds, EndsReady, None, l
<1> QED BY <1>1, <1>4 DEF l

(* A command's answer: CONNECT only if the server listens, nothing after   *)
(* the Ready of a reset.                                                   *)
LEMMA AnswerCommand ==
  ASSUME NEW n \in Names
  PROVE  Answers(<<"cmd", n>>, Answer(<<"cmd", n>>))
<1> DEFINE c == <<"cmd", n>>
           e == Echo(n)
           ok == Line("OK")
<1>1. /\ e \in Lines /\ ok \in Lines /\ Junk \in Lines /\ Ready \in Lines /\ Connect \in Lines
      /\ Error \in Lines /\ Line(">") \in Lines
  BY LinesAre, NamedLines DEF Texts
<1>2. /\ (e = Restored <=> c = Restore) /\ e # Connect /\ e # Ready
      /\ ok # Restored /\ ok # Connect /\ ok # Ready
      /\ Junk # Restored /\ Junk # Connect /\ Junk # Ready
      /\ Ready # Restored /\ Ready # Connect
      /\ Connect # Restored
      /\ Error # Restored /\ Error # Connect /\ Error # Ready
      /\ Line(">") # Restored /\ Line(">") # Connect /\ Line(">") # Ready
  BY DEF Restore, Line, Restored, Connect, Ready, Echo, Junk, Error
<1>a. /\ e \notin Messages /\ ok \notin Messages /\ Junk \notin Messages
      /\ Ready \notin Messages /\ Connect \notin Messages /\ Error \notin Messages
      /\ Line(">") \notin Messages
  BY DEF Messages, Line, Connect, Ready, Echo, Junk, Error
<1>b. /\ ok \notin Replies /\ Junk \notin Replies /\ Ready \notin Replies
      /\ Connect \notin Replies /\ Error \notin Replies /\ Line(">") \notin Replies
  BY DEF Replies, Line, Connect, Ready, Junk, Error
<1>3. c[1] = "cmd" /\ c[2] = n
  OBVIOUS
<1> HIDE DEF e, ok
<1>4. CASE n \in {"RST", "RESTORE"}
  <2>1. Answer(c) = <<e>> \o (<<ok>> \o <<Junk, Ready>>)
    BY <1>4 DEF Answer, e, ok
  <2>2. Answer(c) = <<e, ok, Junk, Ready>>
    BY <2>1, OneByOne
  <2>3. Answers(c, <<e, ok, Junk, Ready>>)
    BY <1>1, <1>2, <1>a, <1>b DEF Answers, Holds, EndsReady, None
  <2> QED BY <2>2, <2>3
<1>5. CASE n \in {"CIFSR", "GMR", "CIPSTO", "CWJAP"}
  <2>1. Answer(c) = <<e>> \o (<<Junk>> \o <<ok>>)
    BY <1>5 DEF Answer, e, ok
  <2>2. Answer(c) = <<e, Junk, ok>>
    BY <2>1, OneByOne
  <2>3. Answers(c, <<e, Junk, ok>>)
    BY <1>1, <1>2, <1>a, <1>b DEF Answers, Holds, EndsReady, None
  <2> QED BY <2>2, <2>3
<1>6. CASE n = "CIPSTART" /\ listening
  <2>1. Answer(c) = <<e>> \o (<<Connect>> \o <<ok>>)
    BY <1>6 DEF Answer, e, ok
  <2>2. Answer(c) = <<e, Connect, ok>>
    BY <2>1, OneByOne
  <2>3. c = CipStart
    BY <1>6 DEF CipStart
  <2>4. Answers(c, <<e, Connect, ok>>)
    BY <1>1, <1>2, <1>a, <1>b, <1>6, <2>3 DEF Answers, Holds, EndsReady, None
  <2> QED BY <2>2, <2>4
<1>7. CASE n = "CIPSTART" /\ ~listening
  <2>1. Answer(c) = <<e>> \o <<Error>>
    BY <1>7 DEF Answer, e, ok
  <2>2. Answer(c) = <<e, Error>>
    BY <2>1, OneByOne
  <2>3. Answers(c, <<e, Error>>)
    BY <1>1, <1>2, <1>a, <1>b DEF Answers, Holds, EndsReady, None
  <2> QED BY <2>2, <2>3
<1>8. CASE n = "CIPSEND"
  <2> DEFINE g == Line(">")
  <2>1. Answer(c) = <<e>> \o (<<ok>> \o <<g>>)
    BY <1>8 DEF Answer, e, ok
  <2>2. Answer(c) = <<e, ok, g>>
    BY <2>1, OneByOne
  <2>3. /\ g \in Lines /\ g # Restored /\ g # Connect /\ g # Ready
        /\ g \notin Messages /\ g \notin Replies
    BY <1>1, <1>2, <1>a, <1>b
  <2> HIDE DEF g
  <2>4. Answers(c, <<e, ok, g>>)
    BY <1>1, <1>2, <1>a, <1>b, <2>3 DEF Answers, Holds, EndsReady, None
  <2> QED BY <2>2, <2>4
<1>9. CASE n \notin {"RST", "RESTORE", "CIFSR", "GMR", "CIPSTO", "CWJAP", "CIPSTART", "CIPSEND"}
  <2>1. Answer(c) = <<e>> \o <<ok>>
    BY <1>9 DEF Answer, e, ok
  <2>2. Answer(c) = <<e, ok>>
    BY <2>1, OneByOne
  <2>3. Answers(c, <<e, ok>>)
    BY <1>1, <1>2, <1>a, <1>b DEF Answers, Holds, EndsReady, None
  <2> QED BY <2>2, <2>3
<1> QED BY <1>4, <1>5, <1>6, <1>7, <1>8, <1>9

-----------------------------------------------------------------------------
(* The reset, as the program and the chip take their steps.                *)
(* Either program begins with the steps of the reset.                      *)
LEMMA ResetSteps ==
  ASSUME NEW h \in Hosts
  PROVE  /\ Program[h] \in Seq(Steps) /\ Len(Program[h]) >= ClientHead
         /\ IsReset(Program[h])
<1>1. CASE h = "server"
  <2>1. \A k \in 1 .. 13 : Program[h][k] = esp_hard_reset[k]
    BY <1>1, ServerIs DEF ResetEnd
  <2>2. IsReset(Program[h])
    BY <2>1, ResetIs DEF IsReset
  <2>3. Program[h] \in Seq(Steps) /\ Len(Program[h]) >= ServerHead
    BY <1>1, ServerIs
  <2>4. Len(Program[h]) \in Nat
    BY <2>3
  <2> QED BY <2>2, <2>3, <2>4 DEF ServerHead, ClientHead
<1>2. CASE h = "client"
  <2>1. \A k \in 1 .. 13 : Program[h][k] = esp_hard_reset[k]
    BY <1>2, ClientIs DEF ResetEnd
  <2>2. IsReset(Program[h])
    BY <2>1, ResetIs DEF IsReset
  <2> QED BY <1>2, <2>2, ClientIs
<1> QED BY <1>1, <1>2 DEF Hosts

\* What a program does before its rounds.
Head_(h) ==
    IF h = "server" THEN esp_hard_reset \o esp_setup_wifi \o esp_start_tcp_server \o wait_for_conn
    ELSE esp_hard_reset \o esp_connect_to_wifi \o esp_start_tcp_client

(* A program is what it does before its rounds, and the rounds.            *)
LEMMA RoundsAre ==
  ASSUME NEW h \in Hosts
  PROVE  /\ Program[h] \in Seq(Steps) /\ Len(Program[h]) = RoundsFrom(h) + 8 * NTRIALS
         /\ \A t \in Nat, r \in 1 .. 8 : t < NTRIALS =>
               Program[h][RoundsFrom(h) + (8 * t + r)] = Round(h)[r]
         /\ \A k \in 1 .. RoundsFrom(h) : Program[h][k].op \in {"puts", "write"} =>
               k < RoundsFrom(h) /\ Awaits(Program[h][k + 1])
<1> DEFINE P == Program[h]
           Q == Head_(h)
           B == Round(h)
           T == Trials(B)
           n == RoundsFrom(h)
<1>1. P = Q \o T
  <2>1. CASE h = "server"
    BY <2>1 DEF Program, Head_, Round
  <2>2. CASE h = "client"
    BY <2>2 DEF Program, Head_, Round
  <2> QED BY <2>1, <2>2 DEF Hosts
<1>2. Q \in Paired /\ Len(Q) = n /\ n \in Nat
  BY PairedHeads, ServerIs, ClientIs DEF Head_, RoundsFrom, Hosts, ServerHead, ClientHead
<1>3. B \in Seq(Steps) /\ Len(B) = 8
  BY RoundIs DEF Hosts
<1>4. /\ T \in Seq(Steps) /\ Len(T) = 8 * NTRIALS
      /\ \A t \in Nat, r \in 1 .. 8 : t < NTRIALS => T[8 * t + r] = B[r]
  BY <1>3, TrialsAre
<1>5. Q \in Seq(Steps)
  BY <1>2 DEF Paired
<1> HIDE DEF P, Q, B, T, n
<1>6. Joined(P, Q, T, n, 8 * NTRIALS)
  BY <1>1, <1>2, <1>4, <1>5, Join
<1>7. /\ P \in Seq(Steps) /\ Len(P) = n + 8 * NTRIALS
      /\ \A k \in 1 .. n : P[k] = Q[k]
      /\ \A k \in 1 .. 8 * NTRIALS : P[n + k] = T[k]
  BY <1>6 DEF Joined
<1>8. ASSUME NEW t \in Nat, NEW r \in 1 .. 8, t < NTRIALS PROVE P[n + (8 * t + r)] = B[r]
  <2> DEFINE k == 8 * t + r
  <2>1. k \in 1 .. 8 * NTRIALS
    BY <1>8, NTRIALSAssumption
  <2>2. T[k] = B[r]
    BY <1>4, <1>8
  <2> HIDE DEF k
  <2>3. P[n + k] = B[r]
    BY <1>7, <2>1, <2>2
  <2> QED BY <2>3 DEF k
<1>9. ASSUME NEW k \in 1 .. n, P[k].op \in {"puts", "write"}
      PROVE  k < n /\ Awaits(P[k + 1])
  <2>1. k < n /\ Awaits(Q[k + 1])
    BY <1>2, <1>7, <1>9 DEF Paired
  <2>2. k + 1 \in 1 .. n
    BY <1>2, <2>1
  <2> QED BY <1>7, <2>1, <2>2
<1> QED BY <1>7, <1>8, <1>9 DEF P, B, n

(* Before their rounds the programs send and read no message.              *)
LEMMA NoneBefore ==
  ASSUME NEW h \in Hosts, NEW p \in 1 .. RoundsFrom(h)
  PROVE  Program[h][p].op \notin {"write", "recv"}
<1>1. CASE p \in 1 .. 13
  <2>1. p \in {1, 2, 3, 4, 5, 6, 7, 8, 9, 10, 11, 12, 13}
    BY <1>1
  <2>2. IsReset(Program[h])
    BY ResetSteps
  <2> QED BY <2>1, <2>2 DEF IsReset
<1>2. CASE h = "server" /\ p \in 14 .. 47
  <2>1. \A k \in ResetEnd + 1 .. ServerSays : Program["server"][k] \in Dumb
    BY ServerIs
  <2>2. Program[h][p] \in Dumb
    BY <1>2, <2>1 DEF ResetEnd, ServerSays
  <2> QED BY <2>2 DEF Dumb
<1>3. CASE h = "server" /\ p = 48
  <2>1. Program["server"][48].op = "echo_until"
    BY ServerIs DEF ServerHead
  <2> QED BY <1>3, <2>1
<1>4. CASE h = "client" /\ p \in 14 .. 22
  <2>1. \A k \in ResetEnd + 1 .. Asks - 1 : Program["client"][k] \in Quiet
    BY ClientIs
  <2>2. Program[h][p] \in Quiet
    BY <1>4, <2>1 DEF ResetEnd, Asks
  <2> QED BY <2>2 DEF Quiet, Dumb
<1>5. CASE h = "client" /\ p \in 23 .. 27
  <2>1. /\ Program["client"][23].op = "puts" /\ Program["client"][24].op = "ack"
        /\ Program["client"][25].op = "responsef" /\ Program["client"][26].op = "read"
        /\ Program["client"][27].op = "active"
    BY ClientIs DEF Asks, Hears, ClientHead
  <2>2. p \in {23, 24, 25, 26, 27}
    BY <1>5
  <2> QED BY <1>5, <2>1, <2>2
<1>6. /\ h = "server" => p \in 1 .. 13 \/ p \in 14 .. 47 \/ p = 48
      /\ h = "client" => p \in 1 .. 13 \/ p \in 14 .. 22 \/ p \in 23 .. 27
  BY DEF RoundsFrom, ServerHead, ClientHead
<1> QED BY <1>1, <1>2, <1>3, <1>4, <1>5, <1>6 DEF Hosts

(* What a program does is said by its place in its round.                  *)
LEMMA Plays ==
  ASSUME NEW h \in Hosts, NEW p \in 1 .. Len(Program[h]), NEW t \in Nat, InRound(h, p, t)
  PROVE  /\ Program[h][p].op = "write" <=>
              p > RoundsFrom(h) /\ Place(h, p, t) = (IF h = "server" THEN 5 ELSE 6)
         /\ Program[h][p].op = "recv" <=>
              p > RoundsFrom(h) /\ Place(h, p, t) \in (IF h = "server" THEN {8} ELSE {1, 9})
         /\ Program[h][p].op \in {"puts", "write"} =>
              p < Len(Program[h]) /\ Awaits(Program[h][p + 1])
<1> DEFINE P == Program[h]
           n == RoundsFrom(h)
           r == Place(h, p, t)
           B == Round(h)
<1>0. n \in Nat /\ n = RoundsFrom(h) /\ NTRIALS \in Nat \ {0}
  BY NTRIALSAssumption DEF RoundsFrom, ServerHead, ClientHead
<1>1. /\ Len(P) = n + 8 * NTRIALS
      /\ \A u \in Nat, k \in 1 .. 8 : u < NTRIALS => P[n + (8 * u + k)] = B[k]
      /\ \A k \in 1 .. n : P[k].op \in {"puts", "write"} => k < n /\ Awaits(P[k + 1])
  BY RoundsAre
<1>2. r = p - n - 8 * t
  BY DEF Place
<1>3. IF p <= n THEN t = 0
      ELSE IF h = "server" THEN r \in 1 .. 8
      ELSE r \in 1 .. 9 /\ (r = 1 => t = 0)
  BY DEF InRound
<1>4. p <= n => P[p].op \notin {"write", "recv"}
  BY <1>0, NoneBefore
<1>5. p \in 1 .. Len(P)
  OBVIOUS
<1>6. h = "server" =>
        /\ B[1].op = "puts" /\ B[2].op = "ack" /\ Awaits(B[2]) /\ B[3].op = "read"
        /\ B[4].op = "prompt" /\ B[5].op = "write" /\ B[6].op = "responsef" /\ Awaits(B[6])
        /\ B[7].op = "read" /\ B[8].op = "recv"
  <2>1. \A k \in 1 .. 7 : Round("server")[k] = esp_send[k]
    BY RoundIs
  <2>2. /\ Round("server")[1] = esp_send[1] /\ Round("server")[2] = esp_send[2]
        /\ Round("server")[3] = esp_send[3] /\ Round("server")[4] = esp_send[4]
        /\ Round("server")[5] = esp_send[5] /\ Round("server")[6] = esp_send[6]
        /\ Round("server")[7] = esp_send[7]
    BY <2>1
  <2> QED BY <2>2, RoundIs, MessagesAre DEF IsSend
<1>7. h = "client" =>
        /\ B[2].op = "puts" /\ B[3].op = "ack" /\ Awaits(B[3]) /\ B[4].op = "read"
        /\ B[5].op = "prompt" /\ B[6].op = "write" /\ B[7].op = "responsef" /\ Awaits(B[7])
        /\ B[8].op = "read" /\ B[1].op = "recv"
  <2>1. \A k \in 1 .. 7 : Round("client")[1 + k] = esp_send[k]
    BY RoundIs
  <2>2. /\ Round("client")[2] = esp_send[1] /\ Round("client")[3] = esp_send[2]
        /\ Round("client")[4] = esp_send[3] /\ Round("client")[5] = esp_send[4]
        /\ Round("client")[6] = esp_send[5] /\ Round("client")[7] = esp_send[6]
        /\ Round("client")[8] = esp_send[7]
    BY <2>1
  <2> QED BY <2>2, RoundIs, MessagesAre DEF IsSend
<1> HIDE DEF P, n, r, B
<1>8. CASE p <= n
  <2>1. P[p].op \in {"puts", "write"} => p < Len(P) /\ Awaits(P[p + 1])
    BY <1>0, <1>1, <1>5, <1>8
  <2>2. ~(p > n)
    BY <1>0, <1>5, <1>8
  <2> QED BY <1>4, <1>8, <2>1, <2>2 DEF P, n
<1>9. CASE p > n /\ r \in 1 .. 8
  <2>1. p = n + (8 * t + r)
    BY <1>0, <1>2, <1>9
  <2>2. t < NTRIALS
    BY <1>0, <1>1, <1>5, <1>9, <2>1
  <2>3. P[p] = B[r]
    BY <1>1, <1>9, <2>1, <2>2
  <2>4. r < 8 => P[p + 1] = B[r + 1] /\ p < Len(P)
    <3> SUFFICES ASSUME r < 8 PROVE P[p + 1] = B[r + 1] /\ p < Len(P)
      OBVIOUS
    <3>1. r + 1 \in 1 .. 8 /\ p + 1 = n + (8 * t + (r + 1))
      BY <1>0, <1>9, <2>1
    <3>2. P[n + (8 * t + (r + 1))] = B[r + 1]
      BY <1>1, <2>2, <3>1
    <3>3. p < n + 8 * NTRIALS
      BY <1>0, <1>9, <2>1, <2>2
    <3> QED BY <1>1, <3>1, <3>2, <3>3
  <2>5. r \in {1, 2, 3, 4, 5, 6, 7, 8}
    BY <1>9
  <2>6. CASE h = "server"
    <3>1. /\ P[p].op = "write" <=> r = 5
          /\ P[p].op = "recv" <=> r = 8
          /\ P[p].op \in {"puts", "write"} => r < 8 /\ Awaits(B[r + 1])
      BY <1>6, <2>3, <2>5, <2>6
    <3> QED BY <1>9, <2>4, <2>6, <3>1 DEF P, n, r
  <2>7. CASE h = "client"
    <3>1. /\ P[p].op = "write" <=> r = 6
          /\ P[p].op = "recv" <=> r = 1
          /\ P[p].op \in {"puts", "write"} => r < 8 /\ Awaits(B[r + 1])
      BY <1>7, <2>3, <2>5, <2>7
    <3>2. r \in {1, 9} <=> r = 1
      BY <2>5
    <3> QED BY <1>9, <2>4, <2>7, <3>1, <3>2 DEF P, n, r
  <2> QED BY <2>6, <2>7 DEF Hosts
<1>10. CASE p > n /\ h = "client" /\ r = 9
  <2>1. p = n + (8 * (t + 1) + 1) /\ t + 1 \in Nat
    BY <1>0, <1>2, <1>10
  <2>2. t + 1 < NTRIALS
    BY <1>0, <1>1, <1>5, <2>1
  <2>3. P[n + (8 * (t + 1) + 1)] = B[1]
    BY <1>1, <2>1, <2>2
  <2>4. P[p].op = "recv"
    BY <1>7, <1>10, <2>1, <2>3
  <2> QED BY <1>10, <2>4 DEF P, n, r
<1>11. p > n => r \in 1 .. 8 \/ (h = "client" /\ r = 9)
  <2>1. h = "server" \/ h = "client"
    BY DEF Hosts
  <2> QED BY <1>0, <1>3, <1>5, <2>1
<1> QED BY <1>0, <1>5, <1>8, <1>9, <1>10, <1>11

(* What the reset writes, and where: RST, RESTORE and RST again.           *)
LEMMA ResetWrites ==
  ASSUME NEW P, IsReset(P), NEW p \in 1 .. 13, P[p].op \in {"puts", "write"}
  PROVE  /\ P[p].op = "puts"
         /\ \/ p = 2 /\ P[p].want = Rst
            \/ p = 6 /\ P[p].want = Restore
            \/ p = 10 /\ P[p].want = Rst
<1>1. p \in {2, 6, 10}
  <2>1. p \in {1, 2, 3, 4, 5, 6, 7, 8, 9, 10, 11, 12, 13}
    OBVIOUS
  <2> QED BY <2>1 DEF IsReset
<1> QED BY <1>1 DEF IsReset

(* One command, or two.                                                    *)
LEMMA OneAfter == ASSUME NEW a, NEW b PROVE Append(<<>>, b) = <<b>> /\ Append(<<a>>, b) = <<a, b>>
<1> DEFINE S == {a, b}
           x == Append(<<a>>, b)
           y == <<a, b>>
           u == Append(<<>>, b)
           v == <<b>>
<1>1. /\ x \in Seq(S) /\ Len(x) = 2 /\ x[1] = a /\ x[2] = b
      /\ y \in Seq(S) /\ Len(y) = 2 /\ y[1] = a /\ y[2] = b
  OBVIOUS
<1>2. u \in Seq(S) /\ Len(u) = 1 /\ u[1] = b /\ v \in Seq(S) /\ Len(v) = 1 /\ v[1] = b
  OBVIOUS
<1> HIDE DEF x, y, u, v
<1>3. \A k \in 1 .. Len(x) : x[k] = y[k]
  BY <1>1
<1>4. \A k \in 1 .. Len(u) : u[k] = v[k]
  BY <1>2
<1>5. x = y
  BY <1>1, <1>3, SeqEqual
<1>6. u = v
  BY <1>2, <1>4, SeqEqual
<1> QED BY <1>5, <1>6 DEF x, y, u, v

(* Writing a command of the reset.                                         *)
LEMMA ResettingWrite ==
  ASSUME NEW P, IsReset(P), NEW p \in Nat \ {0}, NEW s, NEW c, NEW w,
         Resetting(p, s, c), P[p].op \in {"puts", "write"}, P[p].op = "puts" => w = P[p].want
  PROVE  Resetting(p + 1, s, Append(c, w))
<1>1. CASE p >= 14
  BY <1>1 DEF Resetting
<1>2. CASE p \in 1 .. 13
  <2>1. (p = 2 /\ w = Rst) \/ (p = 6 /\ w = Restore) \/ (p = 10 /\ w = Rst)
    BY <1>2, ResetWrites
  <2>2. Append(<<>>, w) = <<w>> /\ Append(<<Rst>>, Restore) = <<Rst, Restore>>
    BY OneAfter
  <2>3. CASE p = 2 /\ w = Rst
    <3>1. c = <<>> /\ ~Holds(s, Restored)
      BY <2>3 DEF Resetting
    <3> QED BY <2>2, <2>3, <3>1 DEF Resetting
  <2>4. CASE p = 6 /\ w = Restore
    <3>1. c \in {<<>>, <<Rst>>} /\ ~Holds(s, Restored)
      BY <2>4 DEF Resetting
    <3>2. Append(c, w) \in {<<Restore>>, <<Rst, Restore>>}
      BY <2>2, <2>4, <3>1
    <3> HIDE DEF Restore, Rst
    <3> QED BY <2>4, <3>1, <3>2 DEF Resetting
  <2>5. CASE p = 10 /\ w = Rst
    <3>1. c = <<>> /\ s = <<>>
      BY <2>5 DEF Resetting
    <3> QED BY <2>2, <2>5, <3>1 DEF Resetting
  <2> QED BY <2>1, <2>3, <2>4, <2>5
<1> QED BY <1>1, <1>2

(* Reading past a line.                                                    *)
LEMMA ResettingSkip ==
  ASSUME NEW p \in Nat \ {0}, NEW s \in Seq(Lines), NEW c, Resetting(p, s, c), s # <<>>
  PROVE  Resetting(p, Tail(s), c)
<1>1. ~Holds(s, Restored) => ~Holds(Tail(s), Restored)
  BY HoldsTail
<1>2. EndsReady(s) => EndsReady(Tail(s))
  BY EndsTail
<1>3. EndsRestored(s) => EndsRestored(Tail(s))
  BY EndsTail
<1> DEFINE t == Tail(s)
<1> HIDE DEF t
<1> QED BY <1>1, <1>2, <1>3 DEF Resetting, t

(* Reading the line that was waited for.                                   *)
LEMMA ResettingAccept ==
  ASSUME NEW P, IsReset(P), NEW p \in Nat \ {0}, NEW s \in Seq(Lines), NEW c,
         Resetting(p, s, c), s # <<>>,
         P[p].op \in {"ack", "read", "responsef", "echo_until", "prompt", "recv"},
         P[p].op # "recv" => Head(s) = P[p].want
  PROVE  Resetting(p + 1, Tail(s), c)
<1>1. ~Holds(s, Restored) => ~Holds(Tail(s), Restored)
  BY HoldsTail
<1>2. EndsReady(s) => EndsReady(Tail(s))
  BY EndsTail
<1>3. EndsReady(s) /\ Head(s) = Ready => Tail(s) = <<>>
  BY EndsTail
<1>4. EndsRestored(s) /\ Head(s) = Restored => EndsReady(Tail(s))
  BY EndsTail
<1>5. Holds(s, Head(s))
  BY HoldsTail
<1> DEFINE t == Tail(s)
           x == Head(s)
<1> HIDE DEF t, x
<1>6. CASE p >= 14
  BY <1>6 DEF Resetting
<1>7. CASE p \in 1 .. 13
  <2>1. p \in {3, 4, 5, 7, 8, 9, 11, 12, 13}
    <3>1. p \in {1, 2, 3, 4, 5, 6, 7, 8, 9, 10, 11, 12, 13}
      BY <1>7
    <3> QED BY <3>1 DEF IsReset
  <2>2. CASE p \in {3, 4, 5}
    BY <1>1, <2>2 DEF Resetting, t
  <2>3. CASE p = 7
    <3>1. x = Restored
      BY <2>3 DEF IsReset, x
    <3>2. c = <<>> /\ EndsRestored(s)
      BY <1>5, <2>3, <3>1 DEF Resetting, x
    <3>3. EndsReady(t)
      BY <1>4, <3>1, <3>2 DEF t, x
    <3> QED BY <2>3, <3>2, <3>3 DEF Resetting, t
  <2>4. CASE p = 8 \/ p = 12
    BY <1>2, <2>4 DEF Resetting, t
  <2>5. CASE p = 9 \/ p = 13
    <3>1. x = Ready
      BY <2>5 DEF IsReset, x
    <3>2. c = <<>> /\ EndsReady(s)
      BY <2>5 DEF Resetting
    <3>3. t = <<>>
      BY <1>3, <3>1, <3>2 DEF t, x
    <3> QED BY <2>5, <3>2, <3>3 DEF Resetting, t
  <2>6. CASE p = 11
    <3>1. c = <<>> /\ EndsReady(s)
      BY <2>6 DEF Resetting
    <3> QED BY <1>2, <2>6, <3>1 DEF Resetting, t
  <2> QED BY <2>1, <2>2, <2>3, <2>4, <2>5, <2>6
<1> QED BY <1>6, <1>7

(* The chip takes up a command of the reset.                               *)
LEMMA ResettingProcess ==
  ASSUME NEW p \in Nat \ {0}, NEW s \in Seq(Lines), NEW c \in Seq(Orders), c # <<>>,
         Resetting(p, s, c), Answers(Head(c), Answer(Head(c)))
  PROVE  Resetting(p, s \o Answer(Head(c)), Tail(c))
<1> DEFINE a == Answer(Head(c))
           q == s \o a
<1>0. Rst # Restore
  BY DEF Rst, Restore
<1>1. a \in Seq(Lines)
  BY DEF Answers
<1>2. Holds(q, Restored) => Holds(s, Restored) \/ Holds(a, Restored)
  BY <1>1, HoldsCat
<1>3. Holds(a, Restored) => Head(c) = Restore
  BY DEF Answers
<1>4. EndsReady(a)
  BY DEF Answers
<1> HIDE DEF a, q
<1>5. CASE p >= 15
  BY <1>5 DEF Resetting
<1>6. CASE p \in 3 .. 6
  <2>1. c = <<Rst>> /\ ~Holds(s, Restored)
    BY <1>6 DEF Resetting
  <2>2. Head(c) = Rst /\ Tail(c) = <<>>
    BY <2>1
  <2>3. ~Holds(q, Restored)
    BY <1>0, <1>2, <1>3, <2>1, <2>2
  <2> QED BY <1>6, <2>2, <2>3 DEF Resetting, q, a
<1>7. CASE p = 7
  <2>1. c \in {<<Restore>>, <<Rst, Restore>>} /\ ~Holds(s, Restored)
    BY <1>7 DEF Resetting
  <2>2. CASE c = <<Rst, Restore>>
    <3>1. Head(c) = Rst /\ Tail(c) = <<Restore>>
      BY <2>2
    <3>2. ~Holds(q, Restored)
      BY <1>0, <1>2, <1>3, <2>1, <3>1
    <3> QED BY <1>7, <3>1, <3>2 DEF Resetting, q, a
  <2>3. CASE c = <<Restore>>
    <3>1. Head(c) = Restore /\ Tail(c) = <<>>
      BY <2>3
    <3>2. EndsRestored(q)
      <4> DEFINE m == Len(s)
      <4>1. /\ m \in Nat /\ Len(a) \in Nat /\ Len(q) = m + Len(a)
            /\ \A k \in 1 .. m : q[k] = s[k]
            /\ \A k \in 1 .. Len(a) : q[m + k] = a[k]
        BY <1>1 DEF q
      <4> HIDE DEF m
      <4>2. ASSUME NEW j \in 1 .. Len(q), NEW k \in 1 .. Len(q), j < k,
                   q[j] = Restored, q[k] = Ready
            PROVE  k = Len(q)
        <5>1. j > m
          <6>1. ~(j \in 1 .. m)
            <7>1. \A i \in 1 .. m : s[i] # Restored
              BY <2>1 DEF Holds, m
            <7> QED BY <4>1, <4>2, <7>1
          <6> QED BY <4>1, <6>1
        <5>2. k - m \in 1 .. Len(a) /\ m + (k - m) = k
          BY <4>1, <4>2, <5>1
        <5>3. a[k - m] = Ready
          BY <4>1, <4>2, <5>2
        <5>4. k - m = Len(a)
          BY <1>4, <5>2, <5>3 DEF EndsReady
        <5> QED BY <4>1, <4>2, <5>4
      <4> QED BY <4>2 DEF EndsRestored
    <3> QED BY <1>7, <3>1, <3>2 DEF Resetting, q, a
  <2> QED BY <2>1, <2>2, <2>3
<1>8. CASE p = 11
  <2>1. c = <<Rst>> /\ s = <<>>
    BY <1>8 DEF Resetting
  <2>2. Tail(c) = <<>>
    BY <2>1
  <2>3. q = a
    BY <1>1, <2>1 DEF q
  <2>4. EndsReady(s \o Answer(Head(c)))
    BY <1>4, <2>3 DEF q, a
  <2> QED BY <1>8, <2>2, <2>4 DEF Resetting
<1>9. CASE p \in {1, 2, 8, 9, 10, 12, 13, 14}
  BY <1>9 DEF Resetting
<1>10. p \in {1, 2, 8, 9, 10, 12, 13, 14} \/ p \in 3 .. 6 \/ p = 7 \/ p = 11 \/ p >= 15
  OBVIOUS
<1> QED BY <1>5, <1>6, <1>7, <1>8, <1>9, <1>10

(* The chip says that it is busy.                                          *)
LEMMA ResettingBusy ==
  ASSUME NEW p \in Nat \ {0}, NEW i \in Seq(Lines), NEW o \in Seq(Lines), NEW c, o # <<>>,
         Resetting(p, i \o o, c)
  PROVE  Resetting(p, Append(i, Busy) \o o, c)
<1> DEFINE s == i \o o
           t == Append(i, Busy) \o o
<1>1. Busy \in Lines /\ Busy # Restored
  BY NamedLines DEF Busy, Restored, Line, Echo
<1>2. Append(i, Busy) \in Seq(Lines)
  BY <1>1
<1>3. \A x : Holds(t, x) <=> Holds(Append(i, Busy), x) \/ Holds(o, x)
  BY <1>2, HoldsCat
<1>4. \A x : Holds(Append(i, Busy), x) <=> Holds(i, x) \/ x = Busy
  BY <1>1, HoldsAppend
<1>5. \A x : Holds(s, x) <=> Holds(i, x) \/ Holds(o, x)
  BY HoldsCat
<1>6. Holds(t, Restored) => Holds(s, Restored)
  <2> HIDE DEF s, t
  <2> QED BY <1>1, <1>3, <1>4, <1>5
<1>7. (EndsReady(s) => EndsReady(t)) /\ (EndsRestored(s) => EndsRestored(t))
  BY <1>1, BusyBetween
<1>8. s # <<>>
  OBVIOUS
<1> HIDE DEF s, t
<1> QED BY <1>6, <1>7, <1>8 DEF Resetting, s, t

-----------------------------------------------------------------------------
(* The step a program is at.                                               *)
LEMMA AtStep ==
  ASSUME Types, NEW h \in Hosts, NEW ops, At(h, ops)
  PROVE  /\ Program[h][pc[h]] \in Steps /\ Program[h][pc[h]].op \in ops
         /\ pc[h] \in Nat \ {0} /\ ~dead[h]
<1>1. Program[h] \in Seq(Steps)
  BY ResetSteps
<1>2. pc[h] \in Nat \ {0} /\ pc[h] <= Len(Program[h])
  <2>1. Len(Program[h]) \in Nat /\ pc[h] \in Nat \ {0}
    BY <1>1 DEF Types
  <2> QED BY <2>1 DEF At, Done
<1>3. Program[h][pc[h]] \in Steps
  BY <1>1, <1>2, ElementOfSeq
<1> QED BY <1>2, <1>3 DEF At

(* A program's step goes on to the next one.                               *)
LEMMA GotoTypes ==
  ASSUME Types, NEW h \in Hosts, Goto(h)
  PROVE  pc' \in [Hosts -> Nat \ {0}]
BY DEF Types, Goto

(* A write puts an order behind the orders of the chip: the command of the *)
(* step, or a message.                                                     *)
LEMMA WriteTypes ==
  ASSUME Types, NEW h \in Hosts, Write(h)
  PROVE  /\ Types'
         /\ \E w \in Orders :
              /\ cmds' = [cmds EXCEPT ![h] = Append(@, w)]
              /\ IF Program[h][pc[h]].op = "puts" THEN w = Program[h][pc[h]].want
                 ELSE w[1] = "data"
<1> DEFINE r == Program[h][pc[h]]
           w == IF At(h, {"puts"}) THEN Want(h) ELSE <<"data", trial[h]>>
<1>1. r \in Steps /\ r.op \in {"puts", "write"}
  BY AtStep DEF Write
<1>2. At(h, {"puts"}) <=> r.op = "puts"
  BY DEF Write, At
<1>3. Want(h) = r.want
  BY DEF Want
<1>4. trial[h] \in Nat
  BY DEF Types
<1>5. w \in Orders /\ (IF r.op = "puts" THEN w = r.want ELSE w[1] = "data")
  <2>1. CASE r.op = "puts"
    <3>1. r.want \in Commands
      BY <1>1, <2>1 DEF Steps
    <3>2. w = r.want
      BY <1>2, <1>3, <2>1
    <3> HIDE DEF w, r
    <3> QED BY <2>1, <3>1, <3>2 DEF Orders
  <2>2. CASE r.op # "puts"
    <3>1. w = <<"data", trial[h]>>
      BY <1>2, <2>2
    <3>2. <<"data", trial[h]>> \in Orders
      BY <1>4 DEF Orders
    <3> HIDE DEF w, r
    <3> QED BY <2>2, <3>1, <3>2
  <2> QED BY <2>1, <2>2
<1>6. cmds' = [cmds EXCEPT ![h] = Append(@, w)]
  BY DEF Write
<1> HIDE DEF w, r
<1>7. cmds' \in [Hosts -> Seq(Orders)]
  BY <1>5, <1>6 DEF Types
<1>8. pc' \in [Hosts -> Nat \ {0}]
  BY GotoTypes DEF Write
<1>9. Types'
  BY <1>7, <1>8 DEF Types, Write
<1> QED BY <1>5, <1>6, <1>9 DEF r

(* Draining keeps the types.                                               *)
LEMMA DrainTypes ==
  ASSUME Types, NEW h \in Hosts, Drain(h)
  PROVE  Types'
<1>1. CASE inbox[h] = <<>>
  <2>1. pc' \in [Hosts -> Nat \ {0}] /\ inbox' = inbox
    BY <1>1, GotoTypes DEF Drain
  <2> QED BY <2>1 DEF Types, Drain
<1>2. CASE inbox[h] # <<>>
  <2>1. Tail(inbox[h]) \in Seq(Lines)
    BY <1>2 DEF Types
  <2>2. inbox' = [inbox EXCEPT ![h] = Tail(@)] /\ pc' = pc
    BY <1>2 DEF Drain
  <2>3. inbox' \in [Hosts -> Seq(Lines)]
    BY <2>1, <2>2 DEF Types
  <2> QED BY <2>2, <2>3 DEF Types, Drain
<1> QED BY <1>1, <1>2

(* Marking the connection as up keeps the types.                           *)
LEMMA ActivateTypes ==
  ASSUME Types, NEW h \in Hosts, Activate(h)
  PROVE  Types'
<1>1. pc' \in [Hosts -> Nat \ {0}]
  BY GotoTypes DEF Activate
<1> QED BY <1>1 DEF Types, Activate

(* Reading passes over the first line, or takes it and goes on.            *)
LEMMA ReadTypes ==
  ASSUME Types, NEW h \in Hosts, Read(h)
  PROVE  /\ Types'
         /\ inbox[h] # <<>> /\ inbox' = [inbox EXCEPT ![h] = Tail(@)]
         /\ \/ Goto(h) /\ Accepts(h, Head(inbox[h]))
            \/ pc' = pc /\ (Program[h][pc[h]].op # "recv" => ~Accepts(h, Head(inbox[h])))
<1> DEFINE x == Head(inbox[h])
<1>1. inbox[h] # <<>> /\ inbox' = [inbox EXCEPT ![h] = Tail(@)]
  BY DEF Read
<1>2. Tail(inbox[h]) \in Seq(Lines) /\ x \in Lines
  BY <1>1 DEF Types
<1>3. inbox' \in [Hosts -> Seq(Lines)]
  BY <1>1, <1>2 DEF Types
<1>4. \/ Accepts(h, x) /\ trial' = [trial EXCEPT ![h] = NewTrial(h, x)] /\ Goto(h) /\ dead' = dead
      \/ ~Accepts(h, x) /\ UNCHANGED <<pc, dead, trial>>
      \/ /\ ~Accepts(h, x) \/ At(h, {"recv"})
         /\ dead' = [dead EXCEPT ![h] = TRUE]
         /\ UNCHANGED <<pc, trial>>
  BY DEF Read
<1>5. Accepts(h, x) => NewTrial(h, x) \in Nat
  <2>1. trial[h] \in Nat
    BY DEF Types
  <2>2. At(h, {"recv"}) /\ Accepts(h, x) => x[2] \in Nat
    <3>1. x[1] = "ipd" => x[2] \in Nat
      BY <1>2 DEF Lines
    <3> QED BY <3>1 DEF Accepts
  <2> HIDE DEF x
  <2> QED BY <2>1, <2>2 DEF NewTrial
<1>6. At(h, {"recv"}) => Program[h][pc[h]].op = "recv"
  BY DEF At
<1> HIDE DEF x
<1>7. CASE Accepts(h, x) /\ trial' = [trial EXCEPT ![h] = NewTrial(h, x)] /\ Goto(h) /\ dead' = dead
  <2>1. pc' \in [Hosts -> Nat \ {0}]
    BY <1>7, GotoTypes
  <2>2. trial' \in [Hosts -> Nat]
    BY <1>5, <1>7 DEF Types
  <2>3. Types'
    BY <1>3, <1>7, <2>1, <2>2 DEF Types, Read
  <2> QED BY <1>1, <1>7, <2>3 DEF x
<1>8. CASE ~Accepts(h, x) /\ UNCHANGED <<pc, dead, trial>>
  <2>1. Types'
    BY <1>3, <1>8 DEF Types, Read
  <2> QED BY <1>1, <1>8, <2>1 DEF x
<1>9. CASE /\ ~Accepts(h, x) \/ At(h, {"recv"})
           /\ dead' = [dead EXCEPT ![h] = TRUE]
           /\ UNCHANGED <<pc, trial>>
  <2>1. dead' \in [Hosts -> BOOLEAN]
    BY <1>9 DEF Types
  <2>2. Types'
    BY <1>3, <1>9, <2>1 DEF Types, Read
  <2> QED BY <1>1, <1>6, <1>9, <2>2 DEF x
<1> QED BY <1>4, <1>7, <1>8, <1>9

(* The chip's answer is what Answers says.                                 *)
LEMMA OrderAnswered ==
  ASSUME NEW c \in Orders
  PROVE  Answers(c, Answer(c)) /\ (c[1] = "data" => c[2] \in Nat)
<1>1. CASE c \in {"data"} \X Nat
  BY <1>1, AnswerData
<1>2. CASE c \in {"cmd"} \X Names
  <2>1. PICK n \in Names : c = <<"cmd", n>>
    BY <1>2
  <2> QED BY <2>1, AnswerCommand
<1> QED BY <1>1, <1>2 DEF Orders, Commands

(* A chip that takes up an order keeps the types.                          *)
LEMMA ProcessTypes ==
  ASSUME Types, NEW h \in Hosts, Process(h)
  PROVE  Types'
<1> DEFINE c == Head(cmds[h])
<1>1. c \in Orders /\ Tail(cmds[h]) \in Seq(Orders)
  BY DEF Types, Process
<1>2. Answer(c) \in Seq(Lines) /\ (c[1] = "data" => Data(c[2]) \in Lines)
  BY <1>1, OrderAnswered, DataAre DEF Answers
<1>3. /\ out' = [out EXCEPT ![h] = Answer(c)]
      /\ listening' = (listening \/ c = <<"cmd", "CIPSERVER">>)
      /\ tell' = IF Connects(h, c) THEN [tell EXCEPT !["server"] = @ \cup {Connect}]
                 ELSE IF c[1] = "data" /\ "closed" \notin faults
                      THEN [tell EXCEPT ![Peer(h)] = @ \cup {Data(c[2])}]
                 ELSE tell
      /\ faults' = IF c # <<"cmd", "CIPSTART">> THEN faults
                   ELSE faults \cup (IF ~listening THEN {"refused"}
                                     ELSE IF ~ServerWaits THEN {"early"} ELSE {})
      /\ cmds' = [cmds EXCEPT ![h] = Tail(@)]
      /\ UNCHANGED <<host, inbox, patient, busy>>
  BY DEF Process
<1> HIDE DEF c
<1>4. out' \in [Hosts -> Seq(Lines)]
  BY <1>2, <1>3 DEF Types
<1>5. cmds' \in [Hosts -> Seq(Orders)]
  BY <1>1, <1>3 DEF Types, c
<1>6. tell' \in [Hosts -> SUBSET Lines]
  <2>1. tell \in [Hosts -> SUBSET Lines] /\ Connect \in Lines
    BY NamedLines DEF Types
  <2>2. CASE Connects(h, c)
    BY <1>3, <2>1, <2>2
  <2>3. CASE ~Connects(h, c) /\ c[1] = "data" /\ "closed" \notin faults
    <3>1. tell' = [tell EXCEPT ![Peer(h)] = @ \cup {Data(c[2])}] /\ Data(c[2]) \in Lines
      BY <1>2, <1>3, <2>3
    <3> HIDE DEF Data
    <3> QED BY <2>1, <3>1
  <2>4. CASE ~Connects(h, c) /\ ~(c[1] = "data" /\ "closed" \notin faults)
    BY <1>3, <2>1, <2>4
  <2> QED BY <2>2, <2>3, <2>4
<1>7. faults' \subseteq Faults /\ listening' \in BOOLEAN
  BY <1>3 DEF Types, Faults
<1> QED BY <1>3, <1>4, <1>5, <1>6, <1>7 DEF Types, host

(* A line that comes out of the chip keeps the types.                      *)
LEMMA EmitTypes ==
  ASSUME Types, NEW h \in Hosts, Emit(h)
  PROVE  Types'
<1>1. Head(out[h]) \in Lines /\ Tail(out[h]) \in Seq(Lines) /\ inbox[h] \in Seq(Lines)
  BY DEF Types, Emit
<1>2. Append(inbox[h], Head(out[h])) \in Seq(Lines)
  BY <1>1
<1>3. inbox' \in [Hosts -> Seq(Lines)] /\ out' \in [Hosts -> Seq(Lines)]
  BY <1>1, <1>2 DEF Types, Emit
<1> QED BY <1>3 DEF Types, Emit, host

(* What comes over the network keeps the types.                            *)
LEMMA TellTypes ==
  ASSUME Types, NEW h \in Hosts, Tell(h)
  PROVE  Types'
<1>1. PICK x \in tell[h] :
        /\ inbox' = [inbox EXCEPT ![h] = Append(@, x)]
        /\ tell' = IF x[1] = "ipd"
                   THEN [tell EXCEPT ![h] = @ \ {x}, ![Peer(h)] = @ \cup {SendOk}]
                   ELSE [tell EXCEPT ![h] = @ \ {x}]
        /\ faults' = IF x[1] = "ipd" /\ (SendOk \in tell[h] \/ out[h] # <<>>)
                     THEN faults \cup {"overlap"} ELSE faults
        /\ UNCHANGED <<host, cmds, out, listening, patient, busy>>
  BY DEF Tell
<1>2. x \in Lines /\ SendOk \in Lines
  BY NamedLines DEF Types
<1>3. inbox' \in [Hosts -> Seq(Lines)]
  BY <1>1, <1>2 DEF Types
<1>4. tell' \in [Hosts -> SUBSET Lines]
  <2> HIDE DEF SendOk
  <2> QED BY <1>1, <1>2 DEF Types
<1>5. faults' \subseteq Faults
  BY <1>1 DEF Types, Faults
<1> QED BY <1>1, <1>3, <1>4, <1>5 DEF Types, host

(* A busy chip's line keeps the types.                                     *)
LEMMA SayBusyTypes ==
  ASSUME Types, NEW h \in Hosts, SayBusy(h)
  PROVE  Types'
<1>1. inbox' \in [Hosts -> Seq(Lines)]
  BY NamedLines DEF Types, SayBusy
<1> QED BY <1>1 DEF Types, SayBusy, host

(* A break of the connection keeps the types.                              *)
LEMMA CloseTypes ==
  ASSUME Types, Close
  PROVE  Types'
<1>1. Line("0,CLOSED") \in Lines
  BY LinesAre DEF Texts
<1>2. tell' \in [Hosts -> SUBSET Lines]
  BY <1>1 DEF Types, Close
<1>3. faults' \subseteq Faults
  BY DEF Types, Close, Faults
<1> QED BY <1>2, <1>3 DEF Types, Close, host

-----------------------------------------------------------------------------
(* The invariant, step by step.                                            *)

(* The client asks for the connection once, and sends nothing before it is *)
(* up; the server neither asks nor sends before it waits.                  *)
LEMMA Writes ==
  ASSUME NEW h \in Hosts, NEW p \in Nat \ {0}, NEW w,
         Program[h][p].op \in {"puts", "write"},
         IF Program[h][p].op = "puts" THEN w = Program[h][p].want ELSE w[1] = "data"
  PROVE  /\ h = "client" /\ p <= ClientHead - 1 =>
              /\ w[1] # "data" /\ w # CipServer /\ p # Hears
              /\ w = CipStart => p >= Asks
         /\ h = "server" /\ p <= ServerSays => w[1] # "data" /\ w # CipStart
         /\ h = "server" => p # ServerHead
<1> DEFINE r == Program[h][p]
<1>0. /\ Rst[1] # "data" /\ Rst # CipServer /\ Rst # CipStart
      /\ Restore[1] # "data" /\ Restore # CipServer /\ Restore # CipStart
      /\ CipStart[1] # "data" /\ CipStart # CipServer
  BY DEF Rst, Restore, CipServer, CipStart
<1>1. ASSUME p \in 1 .. 13 PROVE w = Rst \/ w = Restore
  <2>1. IsReset(Program[h])
    BY ResetSteps
  <2> QED BY <1>1, <2>1, ResetWrites
<1>2. ASSUME r \in Dumb PROVE w[1] # "data" /\ w # CipStart
  <2>1. r.op = "puts" /\ r.want \in Commands /\ r.want # CipStart
    BY <1>2 DEF Dumb, Steps
  <2> QED BY <2>1 DEF Commands
<1>3. ASSUME r \in Quiet PROVE w # CipServer
  BY <1>3 DEF Quiet, Dumb
<1> HIDE DEF r
<1>4. ASSUME h = "client", p <= ClientHead - 1
      PROVE  /\ w[1] # "data" /\ w # CipServer /\ p # Hears
             /\ w = CipStart => p >= Asks
  <2>1. p \in 1 .. 13 \/ p \in 14 .. 22 \/ p = 23 \/ p \in 24 .. 26
    BY <1>4 DEF ClientHead
  <2>2. CASE p \in 14 .. 22
    <3>1. \A k \in 14 .. 22 : Program["client"][k] \in Quiet
      <4>1. \A k \in ResetEnd + 1 .. Asks - 1 : Program["client"][k] \in Quiet
        BY ClientIs
      <4> QED BY <4>1 DEF Asks, ResetEnd
    <3>2. r \in Quiet
      BY <1>4, <2>2, <3>1 DEF r
    <3>3. r \in Dumb
      BY <3>2, PieceSets
    <3> QED BY <1>2, <1>3, <2>2, <3>2, <3>3 DEF Hears
  <2>3. CASE p = 23
    <3>1. w = CipStart
      BY <1>4, <2>3, ClientIs DEF Asks
    <3> QED BY <1>0, <2>3, <3>1 DEF Asks, Hears
  <2>4. ~(p \in 24 .. 26)
    <3>1. p \in 24 .. 26 => p \in {24, 25, 26}
      OBVIOUS
    <3> QED BY <1>4, <3>1, ClientIs DEF Asks, Hears
  <2>5. CASE p \in 1 .. 13
    BY <1>0, <1>1, <2>5 DEF Hears
  <2> QED BY <2>1, <2>2, <2>3, <2>4, <2>5
<1>5. ASSUME h = "server", p <= ServerSays PROVE w[1] # "data" /\ w # CipStart
  <2>1. p \in 1 .. 13 \/ p \in 14 .. 47
    BY <1>5 DEF ServerSays
  <2>2. CASE p \in 14 .. 47
    <3>1. \A k \in 14 .. 47 : Program["server"][k] \in Dumb
      <4>1. \A k \in ResetEnd + 1 .. ServerSays : Program["server"][k] \in Dumb
        BY ServerIs
      <4> QED BY <4>1 DEF ServerSays, ResetEnd
    <3>2. r \in Dumb
      BY <1>5, <2>2, <3>1 DEF r
    <3> QED BY <1>2, <3>2
  <2>3. CASE p \in 1 .. 13
    BY <1>0, <1>1, <2>3
  <2> QED BY <2>1, <2>2, <2>3
<1>6. h = "server" => p # ServerHead
  BY ServerIs
<1> QED BY <1>4, <1>5, <1>6

(* A command or a message is written.                                      *)
LEMMA WriteKeeps ==
  ASSUME IInv, NEW h \in Hosts, Write(h)
  PROVE  IInv'
<1>1. /\ Types /\ Network /\ Announced
      /\ \A g \in Hosts : Resetting(pc[g], Incoming(g), cmds[g])
  BY DEF IInv
<1>2. Types'
  BY <1>1, WriteTypes
<1>3. PICK w \in Orders :
        /\ cmds' = [cmds EXCEPT ![h] = Append(@, w)]
        /\ IF Program[h][pc[h]].op = "puts" THEN w = Program[h][pc[h]].want
           ELSE w[1] = "data"
  BY <1>1, WriteTypes
<1>4. /\ pc' = [pc EXCEPT ![h] = @ + 1]
      /\ UNCHANGED <<active, dead, trial, inbox, out, tell, listening, patient, faults, busy>>
  BY DEF Write, Goto
<1>5. /\ Program[h][pc[h]].op \in {"puts", "write"} /\ pc[h] \in Nat \ {0}
      /\ pc \in [Hosts -> Nat \ {0}] /\ cmds \in [Hosts -> Seq(Orders)]
  BY <1>1, AtStep DEF Write, Types
<1>6. \A g \in Hosts : Incoming(g)' = Incoming(g)
  BY <1>4 DEF Incoming
<1>7. \A g \in Hosts : Resetting(pc[g], Incoming(g), cmds[g])'
  <2>1. Resetting(pc[h] + 1, Incoming(h), Append(cmds[h], w))
    <3>1. IsReset(Program[h])
      BY ResetSteps
    <3> QED BY <1>1, <1>3, <1>5, <3>1, ResettingWrite
  <2>2. pc'[h] = pc[h] + 1 /\ cmds'[h] = Append(cmds[h], w)
    BY <1>3, <1>4, <1>5
  <2>3. \A g \in Hosts \ {h} : pc'[g] = pc[g] /\ cmds'[g] = cmds[g]
    BY <1>3, <1>4, <1>5
  <2> QED BY <1>1, <1>6, <2>1, <2>2, <2>3
<1>8. /\ h = "client" /\ pc[h] <= ClientHead - 1 =>
              /\ w[1] # "data" /\ w # CipServer /\ pc[h] # Hears
              /\ w = CipStart => pc[h] >= Asks
      /\ h = "server" /\ pc[h] <= ServerSays => w[1] # "data" /\ w # CipStart
      /\ h = "server" => pc[h] # ServerHead
  <2> DEFINE p == pc[h]
  <2>1. /\ Program[h][p].op \in {"puts", "write"} /\ p \in Nat \ {0}
        /\ IF Program[h][p].op = "puts" THEN w = Program[h][p].want ELSE w[1] = "data"
    BY <1>3, <1>5
  <2> HIDE DEF p
  <2>2. /\ h = "client" /\ p <= ClientHead - 1 =>
              /\ w[1] # "data" /\ w # CipServer /\ p # Hears
              /\ w = CipStart => p >= Asks
        /\ h = "server" /\ p <= ServerSays => w[1] # "data" /\ w # CipStart
        /\ h = "server" => p # ServerHead
    BY <2>1, Writes
  <2> QED BY <2>2 DEF p
<1>9. \A c : Holds(cmds'[h], c) <=> Holds(cmds[h], c) \/ c = w
  BY <1>3, <1>5, HoldsAppend
<1>10. Network' /\ Announced'
  <2>1. CASE h = "client"
    <3>1. /\ pc'["client"] = pc["client"] + 1 /\ pc'["server"] = pc["server"]
          /\ cmds'["server"] = cmds["server"]
      BY <1>3, <1>4, <1>5, <2>1 DEF Hosts
    <3>2. pc["client"] \in Nat /\ pc["server"] \in Nat
      BY <1>5 DEF Hosts
    <3>3. Network'
      BY <1>1, <1>4, <1>6, <1>8, <1>9, <2>1, <3>1, <3>2
         DEF Network, Past, ClientHead, Hears, Asks, ResetEnd, ServerHead, Hosts
    <3>4. Announced'
      BY <1>1, <1>4, <1>6, <1>8, <2>1, <3>1, <3>2
         DEF Announced, ClientHead, Hears, ServerSays, ServerHead, Hosts
    <3> QED BY <3>3, <3>4
  <2>2. CASE h = "server"
    <3>1. /\ pc'["server"] = pc["server"] + 1 /\ pc'["client"] = pc["client"]
          /\ cmds'["client"] = cmds["client"]
      BY <1>3, <1>4, <1>5, <2>2 DEF Hosts
    <3>2. pc["client"] \in Nat /\ pc["server"] \in Nat
      BY <1>5 DEF Hosts
    <3>3. Network'
      BY <1>1, <1>4, <1>6, <1>8, <1>9, <2>2, <3>1, <3>2
         DEF Network, Past, ClientHead, Hears, Asks, ResetEnd, ServerSays, ServerHead, Hosts
    <3>4. Announced'
      BY <1>1, <1>4, <1>6, <1>8, <2>2, <3>1, <3>2
         DEF Announced, ClientHead, Hears, ServerSays, ServerHead, Hosts
    <3> QED BY <3>3, <3>4
  <2> QED BY <2>1, <2>2 DEF Hosts
<1> QED BY <1>2, <1>7, <1>10 DEF IInv

(* Where a program empties its inbox or marks the connection as up.        *)
LEMMA Others ==
  ASSUME NEW h \in Hosts, NEW p \in Nat \ {0}, Program[h][p].op \in {"drain", "active"}
  PROVE  /\ p \in 1 .. 13 => p = 1 /\ Program[h][p].op = "drain"
         /\ h = "client" => p # Hears /\ (Program[h][p].op = "active" => p >= ClientHead)
         /\ h = "server" => p # ServerHead
<1>1. p \in 1 .. 13 => p = 1 /\ Program[h][p].op = "drain"
  <2>1. IsReset(Program[h])
    BY ResetSteps
  <2>2. p \in 1 .. 13 => p \in {1, 2, 3, 4, 5, 6, 7, 8, 9, 10, 11, 12, 13}
    OBVIOUS
  <2> QED BY <2>1, <2>2 DEF IsReset
<1>2. h = "client" => p # Hears
  BY ClientIs
<1>3. ASSUME h = "client", Program[h][p].op = "active" PROVE p >= ClientHead
  <2>1. p # Asks /\ p # Asks + 1 /\ p # Hears /\ p # Hears + 1
    BY <1>3, ClientIs
  <2>2. ~(p \in 14 .. 22)
    <3>1. \A k \in 14 .. 22 : Program["client"][k] \in Quiet
      <4>1. \A k \in ResetEnd + 1 .. Asks - 1 : Program["client"][k] \in Quiet
        BY ClientIs
      <4> QED BY <4>1 DEF Asks, ResetEnd
    <3> QED BY <1>3, <3>1 DEF Quiet
  <2>3. ~(p \in 1 .. 13)
    BY <1>1, <1>3
  <2> QED BY <2>1, <2>2, <2>3 DEF Asks, Hears, ClientHead
<1>4. h = "server" => p # ServerHead
  BY ServerIs
<1> QED BY <1>1, <1>2, <1>3, <1>4

(* What is left of the output of an earlier session is thrown away.        *)
LEMMA DrainKeeps ==
  ASSUME IInv, NEW h \in Hosts, Drain(h)
  PROVE  IInv'
<1>1. /\ Types /\ Network /\ Announced
      /\ \A g \in Hosts : Resetting(pc[g], Incoming(g), cmds[g])
  BY DEF IInv
<1>2. Types'
  BY <1>1, DrainTypes
<1>3. /\ Program[h][pc[h]].op = "drain" /\ pc[h] \in Nat \ {0}
      /\ pc \in [Hosts -> Nat \ {0}] /\ inbox \in [Hosts -> Seq(Lines)]
      /\ out \in [Hosts -> Seq(Lines)]
  BY <1>1, AtStep DEF Drain, Types
<1>4. /\ pc[h] \in 1 .. 13 => pc[h] = 1
      /\ h = "client" => pc[h] # Hears
      /\ h = "server" => pc[h] # ServerHead
  <2> DEFINE p == pc[h]
  <2>1. p \in Nat \ {0} /\ Program[h][p].op \in {"drain", "active"}
    BY <1>3
  <2> HIDE DEF p
  <2>2. /\ p \in 1 .. 13 => p = 1
        /\ h = "client" => p # Hears
        /\ h = "server" => p # ServerHead
    BY <2>1, Others
  <2> QED BY <2>2 DEF p
<1>5. UNCHANGED <<active, dead, trial, cmds, out, tell, listening, patient, faults, busy>>
  BY DEF Drain
<1>6. pc["client"] \in Nat /\ pc["server"] \in Nat
  BY <1>3 DEF Hosts
<1>7. CASE inbox[h] = <<>>
  <2>1. pc' = [pc EXCEPT ![h] = @ + 1] /\ inbox' = inbox
    BY <1>7 DEF Drain, Goto
  <2>2. \A g \in Hosts : Incoming(g)' = Incoming(g)
    BY <1>5, <2>1 DEF Incoming
  <2>3. pc'[h] = pc[h] + 1 /\ \A g \in Hosts \ {h} : pc'[g] = pc[g]
    BY <1>3, <2>1
  <2>4. Resetting(pc[h] + 1, Incoming(h), cmds[h])
    <3>1. Resetting(pc[h], Incoming(h), cmds[h])
      BY <1>1
    <3>2. CASE pc[h] = 1
      BY <3>1, <3>2 DEF Resetting
    <3>3. CASE pc[h] >= 14
      BY <1>3, <3>3 DEF Resetting
    <3> QED BY <1>3, <1>4, <3>2, <3>3
  <2>5. \A g \in Hosts : Resetting(pc[g], Incoming(g), cmds[g])'
    BY <1>1, <1>5, <2>2, <2>3, <2>4
  <2>6. /\ h = "client" => pc'["client"] = pc["client"] + 1 /\ pc'["server"] = pc["server"]
        /\ h = "server" => pc'["server"] = pc["server"] + 1 /\ pc'["client"] = pc["client"]
    BY <2>3 DEF Hosts
  <2>7. Network'
    BY <1>1, <1>4, <1>5, <1>6, <2>1, <2>2, <2>6
       DEF Network, Past, ClientHead, Hears, Asks, ResetEnd, ServerHead, Hosts
  <2>8. Announced'
    BY <1>1, <1>4, <1>5, <1>6, <2>1, <2>2, <2>6
       DEF Announced, Hears, ServerSays, ServerHead, Hosts
  <2> QED BY <1>2, <2>5, <2>7, <2>8 DEF IInv
<1>8. CASE inbox[h] # <<>>
  <2>1. inbox' = [inbox EXCEPT ![h] = Tail(@)] /\ pc' = pc
    BY <1>8 DEF Drain
  <2>2. \A g \in Hosts \ {h} : Incoming(g)' = Incoming(g) /\ inbox'[g] = inbox[g]
    BY <1>3, <1>5, <2>1 DEF Incoming
  <2>3. /\ Incoming(h) \in Seq(Lines) /\ Incoming(h) # <<>>
        /\ Incoming(h)' = Tail(Incoming(h))
    <3>1. Incoming(h)' = Tail(inbox[h]) \o out[h]
      BY <1>3, <1>5, <2>1 DEF Incoming
    <3> QED BY <1>3, <1>8, <3>1, ReadTakes DEF Incoming
  <2>4. Resetting(pc[h], Tail(Incoming(h)), cmds[h])
    <3>1. IsReset(Program[h])
      BY ResetSteps
    <3>2. CASE pc[h] >= 14
      <4>1. pc[h] # 14
        BY <1>1, <2>3 DEF Resetting
      <4> QED BY <1>3, <3>2, <4>1 DEF Resetting
    <3>3. CASE pc[h] = 1
      <4>1. cmds[h] = <<>> /\ ~Holds(Incoming(h), Restored)
        BY <1>1, <3>3 DEF Resetting
      <4>2. ~Holds(Tail(Incoming(h)), Restored)
        BY <2>3, <4>1, HoldsTail
      <4> QED BY <3>3, <4>1, <4>2 DEF Resetting
    <3> QED BY <1>3, <1>4, <3>2, <3>3
  <2>5. \A g \in Hosts : Resetting(pc[g], Incoming(g), cmds[g])'
    BY <1>1, <1>5, <2>1, <2>2, <2>3, <2>4
  <2>6. \A g \in Hosts : Holds(Incoming(g)', Connect) => Holds(Incoming(g), Connect)
    BY <2>2, <2>3, HoldsTail
  <2>7. Network'
    BY <1>1, <1>5, <2>1, <2>6 DEF Network, Past, Hosts
  <2>8. Announced'
    BY <1>1, <1>4, <1>5, <1>6, <2>1, <2>2, <2>6
       DEF Announced, ServerSays, ServerHead, Hosts
  <2> QED BY <1>2, <2>5, <2>7, <2>8 DEF IInv
<1> QED BY <1>7, <1>8

(* The connection is marked as up.                                         *)
LEMMA ActivateKeeps ==
  ASSUME IInv, NEW h \in Hosts, Activate(h)
  PROVE  IInv'
<1>1. /\ Types /\ Network /\ Announced
      /\ \A g \in Hosts : Resetting(pc[g], Incoming(g), cmds[g])
  BY DEF IInv
<1>2. Types'
  BY <1>1, ActivateTypes
<1>3. /\ Program[h][pc[h]].op = "active" /\ pc[h] \in Nat \ {0}
      /\ pc \in [Hosts -> Nat \ {0}] /\ active \in [Hosts -> BOOLEAN]
  BY <1>1, AtStep DEF Activate, Types
<1>4. /\ ~(pc[h] \in 1 .. 13)
      /\ h = "client" => pc[h] >= ClientHead
      /\ h = "server" => pc[h] # ServerHead
  <2> DEFINE p == pc[h]
  <2>1. p \in Nat \ {0} /\ Program[h][p].op = "active"
    BY <1>3
  <2> HIDE DEF p
  <2>2. /\ ~(p \in 1 .. 13)
        /\ h = "client" => p >= ClientHead
        /\ h = "server" => p # ServerHead
    BY <2>1, Others
  <2> QED BY <2>2 DEF p
<1>5. /\ pc' = [pc EXCEPT ![h] = @ + 1] /\ active' = [active EXCEPT ![h] = TRUE]
      /\ UNCHANGED <<dead, trial, inbox, cmds, out, tell, listening, patient, faults, busy>>
  BY DEF Activate, Goto
<1>6. \A g \in Hosts : Incoming(g)' = Incoming(g)
  BY <1>5 DEF Incoming
<1>7. pc'[h] = pc[h] + 1 /\ \A g \in Hosts \ {h} : pc'[g] = pc[g] /\ active'[g] = active[g]
  BY <1>3, <1>5
<1>8. Resetting(pc[h] + 1, Incoming(h), cmds[h])
  BY <1>3, <1>4 DEF Resetting
<1>9. \A g \in Hosts : Resetting(pc[g], Incoming(g), cmds[g])'
  BY <1>1, <1>5, <1>6, <1>7, <1>8
<1>10. /\ h = "client" => pc'["client"] = pc["client"] + 1 /\ pc'["server"] = pc["server"]
       /\ h = "server" => /\ pc'["server"] = pc["server"] + 1 /\ pc'["client"] = pc["client"]
                          /\ active'["client"] = active["client"]
       /\ pc["client"] \in Nat /\ pc["server"] \in Nat
  BY <1>3, <1>7 DEF Hosts
<1>11. Network'
  BY <1>1, <1>4, <1>5, <1>6, <1>10
     DEF Network, Past, ClientHead, Hears, Asks, ResetEnd, ServerHead, Hosts
<1>12. Announced'
  BY <1>1, <1>4, <1>5, <1>6, <1>10
     DEF Announced, ClientHead, Hears, ServerSays, ServerHead, Hosts
<1> QED BY <1>2, <1>9, <1>11, <1>12 DEF IInv

(* What the client reads for its connection, and the server when it waits. *)
LEMMA Reads ==
  ASSUME NEW h \in Hosts, NEW p \in Nat \ {0}
  PROVE  /\ h = "client" /\ p = Hears =>
              Program[h][p].op = "responsef" /\ Program[h][p].want = Connect
         /\ h = "server" /\ p = ServerHead =>
              Program[h][p].op = "echo_until" /\ Program[h][p].want = Connect
BY ClientIs, ServerIs

(* A line is read: taken as what was waited for, or passed over.           *)
LEMMA ReadKeeps ==
  ASSUME IInv, NEW h \in Hosts, Read(h)
  PROVE  IInv'
<1>1. /\ Types /\ Network /\ Announced
      /\ \A g \in Hosts : Resetting(pc[g], Incoming(g), cmds[g])
  BY DEF IInv
<1> DEFINE r == Program[h][pc[h]]
           x == Head(inbox[h])
<1>2. /\ Types'
      /\ inbox[h] # <<>> /\ inbox' = [inbox EXCEPT ![h] = Tail(@)]
      /\ \/ Goto(h) /\ Accepts(h, x)
         \/ pc' = pc /\ (r.op # "recv" => ~Accepts(h, x))
  BY <1>1, ReadTypes
<1>3. /\ r.op \in {"ack", "read", "responsef", "echo_until", "prompt", "recv"}
      /\ pc[h] \in Nat \ {0}
      /\ pc \in [Hosts -> Nat \ {0}] /\ inbox \in [Hosts -> Seq(Lines)]
      /\ out \in [Hosts -> Seq(Lines)]
  BY <1>1, AtStep DEF Read, Types
<1>4. UNCHANGED <<active, cmds, out, tell, listening, patient, faults, busy>>
  BY DEF Read
<1>5. r.op # "recv" => (Accepts(h, x) <=> x = r.want)
  BY DEF Accepts, Want, At
<1>6. /\ Incoming(h) \in Seq(Lines) /\ Incoming(h) # <<>>
      /\ Incoming(h)' = Tail(Incoming(h)) /\ x = Head(Incoming(h))
  <2>1. Incoming(h)' = Tail(inbox[h]) \o out[h]
    <3>1. inbox' = [inbox EXCEPT ![h] = Tail(@)] /\ out' = out
      BY <1>2, <1>4
    <3> QED BY <1>3, <3>1 DEF Incoming
  <2>2. inbox[h] \in Seq(Lines) /\ out[h] \in Seq(Lines) /\ inbox[h] # <<>>
    BY <1>2, <1>3
  <2>3. /\ Tail(inbox[h]) \o out[h] = Tail(inbox[h] \o out[h])
        /\ Head(inbox[h]) = Head(inbox[h] \o out[h]) /\ inbox[h] \o out[h] # <<>>
    BY <2>2, ReadTakes
  <2>4. inbox[h] \o out[h] \in Seq(Lines)
    BY <2>2
  <2> QED BY <2>1, <2>3, <2>4 DEF Incoming
<1>7. \A g \in Hosts \ {h} : Incoming(g)' = Incoming(g) /\ inbox'[g] = inbox[g]
  BY <1>2, <1>3, <1>4 DEF Incoming
<1>8. \A g \in Hosts : Holds(Incoming(g)', Connect) => Holds(Incoming(g), Connect)
  BY <1>6, <1>7, HoldsTail
<1>9. Holds(Incoming(h), x)
  BY <1>6, HoldsTail
<1>10. pc["client"] \in Nat /\ pc["server"] \in Nat
  BY <1>3 DEF Hosts
<1>11. /\ h = "client" /\ pc[h] = Hears => r.op = "responsef" /\ r.want = Connect
       /\ h = "server" /\ pc[h] = ServerHead => r.op = "echo_until" /\ r.want = Connect
  <2> DEFINE p == pc[h]
  <2>1. p \in Nat \ {0}
    BY <1>3
  <2> HIDE DEF p
  <2>2. /\ h = "client" /\ p = Hears =>
              Program[h][p].op = "responsef" /\ Program[h][p].want = Connect
        /\ h = "server" /\ p = ServerHead =>
              Program[h][p].op = "echo_until" /\ Program[h][p].want = Connect
    BY <2>1, Reads
  <2> QED BY <2>2 DEF p
<1>12. IsReset(Program[h]) /\ Resetting(pc[h], Incoming(h), cmds[h])
  BY <1>1, ResetSteps
<1>13. CASE Goto(h) /\ Accepts(h, x)
  <2>1. pc' = [pc EXCEPT ![h] = @ + 1]
    BY <1>13 DEF Goto
  <2>2. pc'[h] = pc[h] + 1 /\ \A g \in Hosts \ {h} : pc'[g] = pc[g]
    BY <1>3, <2>1
  <2>3. Resetting(pc[h] + 1, Tail(Incoming(h)), cmds[h])
    <3>1. r.op # "recv" => Head(Incoming(h)) = r.want
      BY <1>5, <1>6, <1>13
    <3> QED BY <1>3, <1>6, <1>12, <3>1, ResettingAccept
  <2>4. \A g \in Hosts : Resetting(pc[g], Incoming(g), cmds[g])'
    BY <1>1, <1>4, <1>6, <1>7, <2>2, <2>3
  <2>5. /\ h = "client" => pc'["client"] = pc["client"] + 1 /\ pc'["server"] = pc["server"]
        /\ h = "server" => pc'["server"] = pc["server"] + 1 /\ pc'["client"] = pc["client"]
    BY <2>2 DEF Hosts
  <2>6. /\ h = "client" /\ pc[h] = Hears => Holds(Incoming("client"), Connect)
        /\ h = "server" /\ pc[h] = ServerHead => Holds(Incoming("server"), Connect)
    BY <1>5, <1>9, <1>11, <1>13
  <2> HIDE DEF r, x
  <2>7. Network'
    BY <1>1, <1>4, <1>8, <1>10, <2>5, <2>6
       DEF Network, Past, ClientHead, Hears, Asks, ResetEnd, ServerHead, Hosts
  <2>8. Announced'
    BY <1>1, <1>4, <1>7, <1>8, <1>10, <2>5, <2>6
       DEF Announced, Hears, ServerSays, ServerHead, Hosts
  <2> QED BY <1>2, <2>4, <2>7, <2>8 DEF IInv
<1>14. CASE pc' = pc /\ (r.op # "recv" => ~Accepts(h, x))
  <2>1. Resetting(pc[h], Tail(Incoming(h)), cmds[h])
    <3>1. r.op # "recv" => Head(Incoming(h)) # r.want
      BY <1>5, <1>6, <1>14
    <3> QED BY <1>3, <1>6, <1>12, <3>1, ResettingSkip
  <2>2. \A g \in Hosts : Resetting(pc[g], Incoming(g), cmds[g])'
    BY <1>1, <1>4, <1>6, <1>7, <1>14, <2>1
  <2>3. Network'
    BY <1>1, <1>4, <1>8, <1>14 DEF Network, Past, Hosts
  <2>4. pc["server"] = ServerHead /\ Holds(inbox["server"], Connect) =>
          Holds(inbox'["server"], Connect)
    <3>1. CASE h = "server"
      <4>1. pc["server"] = ServerHead => x # Connect
        BY <1>5, <1>11, <1>14, <3>1
      <4>2. inbox'[h] = Tail(inbox[h]) /\ inbox[h] \in Seq(Lines)
        BY <1>2, <1>3
      <4>3. Holds(inbox[h], Connect) /\ Head(inbox[h]) # Connect => Holds(Tail(inbox[h]), Connect)
        BY <1>2, <4>2, HoldsTail
      <4> QED BY <3>1, <4>1, <4>2, <4>3
    <3>2. CASE h # "server"
      BY <1>7, <3>2 DEF Hosts
    <3> QED BY <3>1, <3>2
  <2> HIDE DEF r, x
  <2>5. Announced'
    BY <1>1, <1>4, <1>8, <1>10, <1>14, <2>4 DEF Announced, ServerSays, ServerHead, Hosts
  <2> QED BY <1>2, <2>2, <2>3, <2>5 DEF IInv
<1> QED BY <1>2, <1>13, <1>14

(* What is incoming when a line comes before the rest of an answer.        *)
LEMMA HoldsBetween ==
  ASSUME NEW i \in Seq(Lines), NEW o \in Seq(Lines), NEW e \in Lines
  PROVE  \A y : Holds(Append(i, e) \o o, y) <=> Holds(i \o o, y) \/ y = e
<1> DEFINE a == Append(i, e)
<1>1. a \in Seq(Lines)
  OBVIOUS
<1>2. \A y : Holds(a, y) <=> Holds(i, y) \/ y = e
  BY HoldsAppend
<1> HIDE DEF a
<1>3. \A y : Holds(a \o o, y) <=> Holds(a, y) \/ Holds(o, y)
  BY <1>1, HoldsCat
<1>4. \A y : Holds(i \o o, y) <=> Holds(i, y) \/ Holds(o, y)
  BY HoldsCat
<1>5. \A y : Holds(a \o o, y) <=> Holds(i \o o, y) \/ y = e
  BY <1>2, <1>3, <1>4
<1> QED BY <1>5 DEF a

(* A line of an answer comes out of the chip.                              *)
LEMMA EmitKeeps ==
  ASSUME IInv, NEW h \in Hosts, Emit(h)
  PROVE  IInv'
<1>1. /\ Types /\ Network /\ Announced
      /\ \A g \in Hosts : Resetting(pc[g], Incoming(g), cmds[g])
  BY DEF IInv
<1>2. Types'
  BY <1>1, EmitTypes
<1>3. /\ inbox \in [Hosts -> Seq(Lines)] /\ out \in [Hosts -> Seq(Lines)]
  BY <1>1 DEF Types
<1>4. /\ out[h] # <<>>
      /\ inbox' = [inbox EXCEPT ![h] = Append(@, Head(out[h]))]
      /\ out' = [out EXCEPT ![h] = Tail(@)]
      /\ UNCHANGED <<pc, active, dead, trial, cmds, tell, listening, patient, faults, busy>>
  BY DEF Emit, host
<1>5. /\ inbox[h] \in Seq(Lines) /\ out[h] \in Seq(Lines) /\ Head(out[h]) \in Lines
  BY <1>3, <1>4
<1>6. Incoming(h)' = Append(inbox[h], Head(out[h])) \o Tail(out[h])
  BY <1>3, <1>4 DEF Incoming
<1>7. Append(inbox[h], Head(out[h])) \o Tail(out[h]) = inbox[h] \o out[h]
  BY <1>4, <1>5, EmitMoves
<1>8. \A g \in Hosts : Incoming(g)' = Incoming(g)
  <2>1. Incoming(h)' = Incoming(h)
    BY <1>6, <1>7 DEF Incoming
  <2>2. \A g \in Hosts \ {h} : Incoming(g)' = Incoming(g)
    BY <1>3, <1>4 DEF Incoming
  <2> QED BY <2>1, <2>2
<1>9. \A g \in Hosts : Holds(inbox[g], Connect) => Holds(inbox'[g], Connect)
  <2>1. Holds(inbox[h], Connect) => Holds(Append(inbox[h], Head(out[h])), Connect)
    BY <1>5, HoldsAppend
  <2>2. inbox'[h] = Append(inbox[h], Head(out[h])) /\ \A g \in Hosts \ {h} : inbox'[g] = inbox[g]
    BY <1>3, <1>4
  <2> QED BY <2>1, <2>2
<1>10. \A g \in Hosts : Resetting(pc[g], Incoming(g), cmds[g])'
  BY <1>1, <1>4, <1>8
<1>11. Network'
  BY <1>1, <1>4, <1>8 DEF Network, Past, Hosts
<1>12. Announced'
  BY <1>1, <1>4, <1>8, <1>9 DEF Announced, Hosts
<1> QED BY <1>2, <1>10, <1>11, <1>12 DEF IInv

(* The chip says that it is busy.                                          *)
LEMMA SayBusyKeeps ==
  ASSUME IInv, NEW h \in Hosts, SayBusy(h)
  PROVE  IInv'
<1>1. /\ Types /\ Network /\ Announced
      /\ \A g \in Hosts : Resetting(pc[g], Incoming(g), cmds[g])
  BY DEF IInv
<1>2. Types'
  BY <1>1, SayBusyTypes
<1>3. /\ inbox \in [Hosts -> Seq(Lines)] /\ out \in [Hosts -> Seq(Lines)]
      /\ pc \in [Hosts -> Nat \ {0}]
  BY <1>1 DEF Types
<1>4. /\ out[h] # <<>>
      /\ inbox' = [inbox EXCEPT ![h] = Append(@, Busy)]
      /\ UNCHANGED <<pc, active, dead, trial, cmds, out, tell, listening, patient, faults>>
  BY DEF SayBusy, host
<1>5. /\ inbox[h] \in Seq(Lines) /\ out[h] \in Seq(Lines) /\ Busy \in Lines /\ Busy # Connect
      /\ pc[h] \in Nat \ {0}
  BY <1>3, NamedLines DEF Busy, Connect, Line
<1>6. Incoming(h)' = Append(inbox[h], Busy) \o out[h]
  BY <1>3, <1>4 DEF Incoming
<1>7. \A g \in Hosts \ {h} : Incoming(g)' = Incoming(g) /\ inbox'[g] = inbox[g]
  BY <1>3, <1>4 DEF Incoming
<1>8. \A g \in Hosts : Holds(Incoming(g)', Connect) => Holds(Incoming(g), Connect)
  <2>1. \A y : Holds(Append(inbox[h], Busy) \o out[h], y) <=>
                  Holds(inbox[h] \o out[h], y) \/ y = Busy
    BY <1>5, HoldsBetween
  <2>2. Holds(Incoming(h)', Connect) => Holds(Incoming(h), Connect)
    <3> HIDE DEF Busy, Connect
    <3> QED BY <1>5, <1>6, <2>1 DEF Incoming
  <2> QED BY <1>7, <2>2
<1>9. \A g \in Hosts : Holds(inbox[g], Connect) => Holds(inbox'[g], Connect)
  <2>1. Holds(inbox[h], Connect) => Holds(Append(inbox[h], Busy), Connect)
    BY <1>5, HoldsAppend
  <2>2. inbox'[h] = Append(inbox[h], Busy)
    BY <1>3, <1>4
  <2> QED BY <1>7, <2>1, <2>2
<1>10. Resetting(pc[h], Append(inbox[h], Busy) \o out[h], cmds[h])
  <2>1. Resetting(pc[h], inbox[h] \o out[h], cmds[h])
    BY <1>1 DEF Incoming
  <2> QED BY <1>4, <1>5, <2>1, ResettingBusy
<1>11. \A g \in Hosts : Resetting(pc[g], Incoming(g), cmds[g])'
  BY <1>1, <1>4, <1>6, <1>7, <1>10
<1>12. Network'
  BY <1>1, <1>4, <1>8 DEF Network, Past, Hosts
<1>13. Announced'
  BY <1>1, <1>4, <1>8, <1>9 DEF Announced, Hosts
<1> QED BY <1>2, <1>11, <1>12, <1>13 DEF IInv

(* The connection breaks: it was up.                                       *)
LEMMA CloseKeeps ==
  ASSUME IInv, Close
  PROVE  IInv'
<1>1. /\ Types /\ Network /\ Announced
      /\ \A g \in Hosts : Resetting(pc[g], Incoming(g), cmds[g])
  BY DEF IInv
<1>2. Types'
  BY <1>1, CloseTypes
<1>3. pc["client"] \in Nat /\ pc["server"] \in Nat
  BY <1>1 DEF Types, Hosts
<1>4. /\ active["client"]
      /\ faults' = faults \cup {"closed"}
      /\ tell' = [h \in Hosts |-> tell[h] \cup {Line("0,CLOSED")}]
      /\ UNCHANGED <<pc, active, dead, trial, inbox, cmds, out, listening, patient, busy>>
  BY DEF Close, host
<1>5. Past("client") /\ Past("server")
  <2>1. /\ pc["client"] > ClientHead /\ (pc["client"] > Hears => listening)
        /\ listening => Past("server")
    BY <1>1, <1>4 DEF Network
  <2>2. pc["client"] > Hears /\ pc["client"] > ResetEnd + 1
    BY <1>3, <2>1 DEF ClientHead, Hears, ResetEnd
  <2> QED BY <2>1, <2>2 DEF Past
<1>6. \A g \in Hosts : Connect \in tell'[g] <=> Connect \in tell[g]
  <2>1. Line("0,CLOSED") # Connect
    BY DEF Line, Connect
  <2> HIDE DEF Line, Connect
  <2> QED BY <1>4, <2>1
<1>7. \A g \in Hosts : Incoming(g)' = Incoming(g)
  BY <1>4 DEF Incoming
<1>8. \A g \in Hosts : Resetting(pc[g], Incoming(g), cmds[g])'
  BY <1>1, <1>4, <1>7
<1>9. Network'
  BY <1>1, <1>4, <1>5, <1>6, <1>7 DEF Network, Past, Hosts
<1>10. Announced'
  BY <1>1, <1>4, <1>6, <1>7 DEF Announced, Hosts
<1> QED BY <1>2, <1>8, <1>9, <1>10 DEF IInv

(* Something comes over the network: both sides are past their resets.     *)
LEMMA TellKeeps ==
  ASSUME IInv, NEW h \in Hosts, Tell(h)
  PROVE  IInv'
<1>1. /\ Types /\ Network /\ Announced
      /\ \A g \in Hosts : Resetting(pc[g], Incoming(g), cmds[g])
  BY DEF IInv
<1>2. Types'
  BY <1>1, TellTypes
<1>3. /\ inbox \in [Hosts -> Seq(Lines)] /\ out \in [Hosts -> Seq(Lines)]
      /\ pc \in [Hosts -> Nat \ {0}] /\ tell \in [Hosts -> SUBSET Lines]
  BY <1>1 DEF Types
<1>4. PICK x \in tell[h] :
        /\ inbox' = [inbox EXCEPT ![h] = Append(@, x)]
        /\ tell' = IF x[1] = "ipd"
                   THEN [tell EXCEPT ![h] = @ \ {x}, ![Peer(h)] = @ \cup {SendOk}]
                   ELSE [tell EXCEPT ![h] = @ \ {x}]
        /\ faults' = IF x[1] = "ipd" /\ (SendOk \in tell[h] \/ out[h] # <<>>)
                     THEN faults \cup {"overlap"} ELSE faults
        /\ UNCHANGED <<pc, active, dead, trial, cmds, out, listening, patient, busy>>
  BY DEF Tell, host
<1>5. /\ inbox[h] \in Seq(Lines) /\ out[h] \in Seq(Lines) /\ x \in Lines
  BY <1>3
<1>6. Past("client") /\ Past("server")
  BY <1>1 DEF Network
<1>7. \A g \in Hosts : Connect \in tell'[g] => Connect \in tell[g]
  <2>1. SendOk # Connect
    BY DEF Line, Connect, SendOk
  <2> HIDE DEF SendOk, Connect
  <2> QED BY <1>3, <1>4, <2>1
<1>8. Connect \in tell["server"] => Connect \in tell'["server"] \/ (h = "server" /\ x = Connect)
  <2>1. \A y \in tell["server"] : y \in tell'["server"] \/ (h = "server" /\ x = y)
    <3> HIDE DEF SendOk
    <3> QED BY <1>3, <1>4 DEF Peer, Hosts
  <2> HIDE DEF Connect
  <2> QED BY <2>1
<1>9. Incoming(h)' = Append(inbox[h], x) \o out[h]
  BY <1>3, <1>4 DEF Incoming
<1>10. \A g \in Hosts \ {h} : Incoming(g)' = Incoming(g) /\ inbox'[g] = inbox[g]
  BY <1>3, <1>4 DEF Incoming
<1>11. \A g \in Hosts :
          Holds(Incoming(g)', Connect) => Holds(Incoming(g), Connect) \/ Connect \in tell[g]
  <2>1. \A y : Holds(Append(inbox[h], x) \o out[h], y) <=> Holds(inbox[h] \o out[h], y) \/ y = x
    BY <1>5, HoldsBetween
  <2>2. Holds(Incoming(h)', Connect) => Holds(Incoming(h), Connect) \/ Connect = x
    <3> HIDE DEF Connect
    <3> QED BY <1>9, <2>1 DEF Incoming
  <2> HIDE DEF Connect
  <2> QED BY <1>4, <1>10, <2>2
<1>12. /\ \A g \in Hosts : Holds(inbox[g], Connect) => Holds(inbox'[g], Connect)
       /\ x = Connect => Holds(inbox'[h], Connect)
  <2>1. \A y : Holds(Append(inbox[h], x), y) <=> Holds(inbox[h], y) \/ y = x
    BY <1>5, HoldsAppend
  <2>2. inbox'[h] = Append(inbox[h], x)
    BY <1>3, <1>4
  <2> HIDE DEF Connect
  <2> QED BY <1>10, <2>1, <2>2
<1>13. \A g \in Hosts : Resetting(pc[g], Incoming(g), cmds[g])'
  <2>1. \A g \in Hosts : pc'[g] = pc[g] /\ pc[g] > 14 /\ pc[g] \in Nat
    BY <1>3, <1>4, <1>6 DEF Past, ResetEnd, Hosts
  <2> QED BY <2>1 DEF Resetting
<1>14. Network'
  BY <1>1, <1>4, <1>6, <1>7, <1>11 DEF Network, Past, Hosts
<1>15. Announced'
  <2>1. "early" \notin faults' => "early" \notin faults
    BY <1>4
  <2>2. Connect \notin tell["client"]
    BY <1>1 DEF Network
  <2> QED BY <1>1, <1>4, <1>8, <1>11, <1>12, <2>1, <2>2 DEF Announced, Hosts
<1> QED BY <1>2, <1>13, <1>14, <1>15 DEF IInv

(* The chip takes up a command or a message.                               *)
LEMMA ProcessKeeps ==
  ASSUME IInv, NEW h \in Hosts, Process(h)
  PROVE  IInv'
<1>1. /\ Types /\ Network /\ Announced
      /\ \A g \in Hosts : Resetting(pc[g], Incoming(g), cmds[g])
  BY DEF IInv
<1>2. Types'
  BY <1>1, ProcessTypes
<1> DEFINE c == Head(cmds[h])
           a == Answer(c)
<1>3. /\ inbox \in [Hosts -> Seq(Lines)] /\ out \in [Hosts -> Seq(Lines)]
      /\ pc \in [Hosts -> Nat \ {0}] /\ tell \in [Hosts -> SUBSET Lines]
      /\ cmds \in [Hosts -> Seq(Orders)] /\ listening \in BOOLEAN
  BY <1>1 DEF Types
<1>4. /\ out[h] = <<>> /\ cmds[h] # <<>>
      /\ out' = [out EXCEPT ![h] = a]
      /\ listening' = (listening \/ c = CipServer)
      /\ tell' = IF Connects(h, c) THEN [tell EXCEPT !["server"] = @ \cup {Connect}]
                 ELSE IF c[1] = "data" /\ "closed" \notin faults
                      THEN [tell EXCEPT ![Peer(h)] = @ \cup {Data(c[2])}]
                 ELSE tell
      /\ faults' = IF c # CipStart THEN faults
                   ELSE faults \cup (IF ~listening THEN {"refused"}
                                     ELSE IF ~ServerWaits THEN {"early"} ELSE {})
      /\ cmds' = [cmds EXCEPT ![h] = Tail(@)]
      /\ UNCHANGED <<pc, active, dead, trial, inbox, patient, busy>>
  BY DEF Process, host, CipStart, CipServer
<1>5. /\ inbox[h] \in Seq(Lines) /\ cmds[h] \in Seq(Orders) /\ c \in Orders
      /\ pc[h] \in Nat \ {0} /\ pc["client"] \in Nat /\ pc["server"] \in Nat
  BY <1>3, <1>4 DEF Hosts
<1>6. Answers(c, a)
  BY <1>5, OrderAnswered
<1>7. /\ a \in Seq(Lines) /\ (Holds(a, Connect) => c = CipStart /\ listening)
  BY <1>6 DEF Answers
<1>8. Holds(cmds[h], c) /\ \A y : Holds(Tail(cmds[h]), y) => Holds(cmds[h], y)
  BY <1>4, <1>5, HoldsTail
<1>9. Connects(h, c) <=> c = CipStart /\ listening
  BY DEF Connects, CipStart
<1> HIDE DEF c, a
<1>10. Incoming(h) = inbox[h] /\ Incoming(h)' = inbox[h] \o a
  <2>1. inbox[h] \o <<>> = inbox[h]
    BY <1>5
  <2>2. Incoming(h)' = inbox[h] \o a
    BY <1>3, <1>4 DEF Incoming
  <2> QED BY <1>4, <2>1, <2>2 DEF Incoming
<1>11. \A g \in Hosts \ {h} : Incoming(g)' = Incoming(g) /\ cmds'[g] = cmds[g]
  BY <1>3, <1>4 DEF Incoming
<1>12. cmds'[h] = Tail(cmds[h])
  BY <1>3, <1>4
<1>13. \A g \in Hosts : Resetting(pc[g], Incoming(g), cmds[g])'
  <2>1. Resetting(pc[h], inbox[h] \o a, Tail(cmds[h]))
    <3>1. Resetting(pc[h], inbox[h], cmds[h])
      BY <1>1, <1>10
    <3> QED BY <1>4, <1>5, <1>6, <3>1, ResettingProcess DEF c, a
  <2> QED BY <1>1, <1>4, <1>10, <1>11, <1>12, <2>1
<1>14. \A g \in Hosts : \A y : Holds(cmds'[g], y) => Holds(cmds[g], y)
  BY <1>8, <1>11, <1>12
<1>15. \A g \in Hosts : Holds(Incoming(g)', Connect) =>
          Holds(Incoming(g), Connect) \/ (g = h /\ c = CipStart /\ listening)
  <2>1. Holds(inbox[h] \o a, Connect) => Holds(inbox[h], Connect) \/ Holds(a, Connect)
    BY <1>5, <1>7, HoldsCat
  <2> QED BY <1>7, <1>10, <1>11, <2>1

\* Where the command or the message comes from.
<1>16. c = CipStart => pc["client"] > Asks
  BY <1>1, <1>5, <1>8 DEF Network, Hosts, ServerHead, ClientHead, Asks
<1>17. c[1] = "data" => pc["client"] > Asks /\ Past("server")
  <2>1. CASE h = "client"
    <3>1. c[1] = "data" => pc["client"] > ClientHead
      <4>1. pc["client"] <= ClientHead => \A y : Holds(cmds["client"], y) => y[1] # "data"
        BY <1>1 DEF Network
      <4> QED BY <1>5, <1>8, <2>1, <4>1 DEF ClientHead
    <3>2. pc["client"] > ClientHead => pc["client"] > Hears /\ pc["client"] > Asks
      BY <1>5 DEF Asks, Hears, ClientHead
    <3> QED BY <1>1, <3>1, <3>2 DEF Network
  <2>2. CASE h = "server"
    <3>1. c[1] = "data" => pc["server"] > ServerHead
      <4>1. pc["server"] <= ServerHead => \A y : Holds(cmds["server"], y) => y[1] # "data"
        BY <1>1 DEF Network
      <4> QED BY <1>5, <1>8, <2>2, <4>1 DEF ServerHead
    <3> QED BY <1>1, <3>1 DEF Network
  <2> QED BY <2>1, <2>2 DEF Hosts
<1>18. listening' => Past("server")
  <2>1. ASSUME c = CipServer, ~listening PROVE Past("server")
    <3>1. CASE h = "client"
      <4>1. pc["client"] > ClientHead
        <5>1. pc["client"] <= ClientHead => \A y : Holds(cmds["client"], y) => y # CipServer
          BY <1>1 DEF Network
        <5> QED BY <1>5, <1>8, <2>1, <3>1, <5>1 DEF ClientHead
      <4>2. pc["client"] > Hears
        BY <1>5, <4>1 DEF Hears, ClientHead
      <4> QED BY <1>1, <2>1, <4>2 DEF Network
    <3>2. CASE h = "server"
      <4>1. Resetting(pc[h], Incoming(h), cmds[h])
        BY <1>1
      <4>2. ~(pc[h] <= 14)
        <5>1. pc[h] <= 14 => cmds[h] \in {<<>>, <<Rst>>, <<Restore>>, <<Rst, Restore>>}
          <6>1. \A p \in Nat : p <= 14 =>
                   \/ p <= 2 \/ p \in 3 .. 6 \/ p = 7 \/ p \in 8 .. 9
                   \/ p = 10 \/ p = 11 \/ p \in 12 .. 13 \/ p = 14
            OBVIOUS
          <6>2. pc[h] \in Nat
            BY <1>5
          <6> HIDE DEF Rst, Restore
          <6> QED BY <4>1, <6>1, <6>2 DEF Resetting
        <5>2. c = CipServer /\ CipServer # Rst /\ CipServer # Restore
          BY <2>1 DEF CipServer, Rst, Restore
        <5> HIDE DEF Rst, Restore
        <5> QED BY <1>4, <5>1, <5>2 DEF c
      <4> QED BY <1>5, <3>2, <4>2 DEF Past, ResetEnd
    <3> QED BY <3>1, <3>2 DEF Hosts
  <2> QED BY <1>1, <1>4, <2>1 DEF Network
<1>19. pc["client"] > Asks => Past("client")
  BY <1>5 DEF Past, Asks, ResetEnd

\* What is told.
<1>20. \A g \in Hosts : tell'[g] # {} =>
          tell[g] # {} \/ (c = CipStart /\ listening) \/ c[1] = "data"
  <2> HIDE DEF Data, Connect
  <2> QED BY <1>3, <1>4, <1>9
<1>21. /\ Connect \in tell'["client"] => Connect \in tell["client"]
       /\ Connect \in tell'["server"] => Connect \in tell["server"] \/ (c = CipStart /\ listening)
       /\ Connect \in tell["server"] \/ (c = CipStart /\ listening) => Connect \in tell'["server"]
  <2>1. Data(c[2]) # Connect
    BY DEF Data, Connect, Line
  <2> HIDE DEF Data, Connect
  <2> QED BY <1>3, <1>4, <1>9, <2>1 DEF Hosts
<1>22. Network'
  <2>1. \A g \in Hosts : tell'[g] # {} => Past("client") /\ Past("server")
    BY <1>1, <1>16, <1>17, <1>19, <1>20 DEF Network, Past
  <2>2. /\ Holds(Incoming("client")', Connect) => listening' /\ pc["client"] > Asks
        /\ Holds(Incoming("server")', Connect) => listening' /\ pc["client"] > Asks
    BY <1>1, <1>4, <1>15, <1>16 DEF Network, Hosts
  <2>3. /\ Connect \notin tell'["client"]
        /\ Connect \in tell'["server"] => listening' /\ pc["client"] > Asks
    BY <1>1, <1>4, <1>16, <1>21 DEF Network
  <2>4. (listening => listening') /\ pc' = pc /\ active' = active
    BY <1>4
  <2> QED BY <1>1, <1>14, <1>18, <2>1, <2>2, <2>3, <2>4 DEF Network, Past, Hosts
<1>23. Announced'
  <2>1. "early" \notin faults' =>
          "early" \notin faults /\ (c = CipStart /\ listening => pc["server"] > ServerSays)
    <3>1. ServerWaits <=> pc["server"] > ServerSays
      BY ServerIs DEF ServerWaits
    <3> QED BY <1>4, <3>1
  <2>2. pc' = pc /\ inbox' = inbox
    BY <1>4
  <2> QED BY <1>1, <1>15, <1>21, <2>1, <2>2 DEF Announced, Hosts
<1> QED BY <1>2, <1>13, <1>22, <1>23 DEF IInv

-----------------------------------------------------------------------------
(* What an earlier session left is a reset's answer at most.               *)
LEMMA StaleAre ==
  ASSUME NEW s \in Stale
  PROVE  s \in Seq(Lines) /\ ~Holds(s, Restored) /\ ~Holds(s, Connect)
<1>1. /\ Junk \in Lines /\ Junk # Restored /\ Junk # Connect
      /\ Echo("RST") \in Lines /\ Echo("RST") # Restored /\ Echo("RST") # Connect
      /\ Line("OK") \in Lines /\ Line("OK") # Restored /\ Line("OK") # Connect
      /\ Ready \in Lines /\ Ready # Restored /\ Ready # Connect
  <2>1. Junk \in Lines /\ Ready \in Lines /\ Line("OK") \in Lines /\ Echo("RST") \in Lines
    BY NamedLines, LinesAre DEF Names, Texts
  <2>2. /\ Junk # Restored /\ Junk # Connect /\ Ready # Restored /\ Ready # Connect
        /\ Line("OK") # Restored /\ Line("OK") # Connect
        /\ Echo("RST") # Restored /\ Echo("RST") # Connect
    BY DEF Junk, Ready, Connect, Restored, Line, Echo
  <2> QED BY <2>1, <2>2
<1>2. s = <<>> \/ s = <<Junk>> \/ s = <<Echo("RST"), Line("OK"), Ready>>
  BY DEF Stale
<1> DEFINE e == Echo("RST")
           l == Line("OK")
<1>3. s = <<>> \/ s = <<Junk>> \/ s = <<e, l, Ready>>
  BY <1>2
<1>4. e \in Lines /\ e # Restored /\ e # Connect
  BY <1>1, Zenon
<1>5. l \in Lines /\ l # Restored /\ l # Connect
  BY <1>1, Zenon
<1> HIDE DEF e, l
<1> DEFINE r == Restored
           n == Connect
<1>6. /\ Junk \in Lines /\ Junk # r /\ Junk # n /\ Ready \in Lines /\ Ready # r /\ Ready # n
      /\ e \in Lines /\ e # r /\ e # n /\ l \in Lines /\ l # r /\ l # n
  BY <1>1, <1>4, <1>5
<1> HIDE DEF r, n
<1>7. s \in Seq(Lines) /\ ~Holds(s, r) /\ ~Holds(s, n)
  <2>1. CASE s = <<>>
    BY <2>1 DEF Holds
  <2>2. CASE s = <<Junk>>
    BY <1>6, <2>2 DEF Holds
  <2>3. CASE s = <<e, l, Ready>>
    BY <1>6, <2>3 DEF Holds
  <2> QED BY <1>3, <2>1, <2>2, <2>3
<1> QED BY <1>7 DEF r, n

(* The invariant holds at first.                                           *)
LEMMA InitSession == Init => IInv
<1> SUFFICES ASSUME Init PROVE IInv
  OBVIOUS
<1>1. /\ pc = [h \in Hosts |-> 1] /\ active = [h \in Hosts |-> FALSE]
      /\ dead = [h \in Hosts |-> FALSE] /\ trial = [h \in Hosts |-> 0]
      /\ inbox = [h \in Hosts |-> <<>>] /\ cmds = [h \in Hosts |-> <<>>]
      /\ out \in [Hosts -> Stale] /\ tell = [h \in Hosts |-> {}]
      /\ listening = FALSE /\ patient \in BOOLEAN /\ faults = {}
  BY DEF Init
<1>2. \A h \in Hosts : /\ out[h] \in Seq(Lines)
                       /\ ~Holds(out[h], Restored) /\ ~Holds(out[h], Connect)
  <2>1. \A h \in Hosts : out[h] \in Stale
    BY <1>1
  <2> QED BY <2>1, StaleAre
<1>3. Types
  <2>1. out \in [Hosts -> Seq(Lines)]
    <3>1. out = [h \in Hosts |-> out[h]]
      BY <1>1
    <3> QED BY <1>2, <3>1
  <2>2. inbox \in [Hosts -> Seq(Lines)] /\ cmds \in [Hosts -> Seq(Orders)]
    BY <1>1
  <2>3. tell \in [Hosts -> SUBSET Lines]
    <3>1. tell = [h \in Hosts |-> {}]
      BY <1>1
    <3> DEFINE S == SUBSET Lines
    <3>2. {} \in S
      OBVIOUS
    <3> HIDE DEF S
    <3>3. tell \in [Hosts -> S]
      BY <3>1, <3>2
    <3> QED BY <3>3 DEF S
  <2>4. /\ pc \in [Hosts -> Nat \ {0}] /\ active \in [Hosts -> BOOLEAN]
        /\ dead \in [Hosts -> BOOLEAN] /\ trial \in [Hosts -> Nat]
    BY <1>1
  <2>5. listening \in BOOLEAN /\ patient \in BOOLEAN /\ faults \subseteq Faults
    BY <1>1
  <2> QED BY <2>1, <2>2, <2>3, <2>4, <2>5 DEF Types
<1>4. \A h \in Hosts : Incoming(h) = out[h] /\ cmds[h] = <<>> /\ pc[h] = 1 /\ tell[h] = {}
  <2>1. \A h \in Hosts : <<>> \o out[h] = out[h]
    BY <1>2
  <2> QED BY <1>1, <2>1 DEF Incoming
<1>5. \A h \in Hosts : Resetting(pc[h], Incoming(h), cmds[h])
  BY <1>2, <1>4 DEF Resetting
<1>6. Network
  <2>1. \A c : ~Holds(<<>>, c)
    BY DEF Holds
  <2>2. pc["client"] = 1 /\ pc["server"] = 1 /\ active["client"] = FALSE
    BY <1>1 DEF Hosts
  <2>3. /\ \A h \in Hosts : ~Holds(Incoming(h), Connect) /\ tell[h] = {}
        /\ \A h \in Hosts : \A c : ~Holds(cmds[h], c)
    BY <1>2, <1>4, <2>1
  <2> QED BY <1>1, <2>2, <2>3 DEF Network, Hosts, Hears, ServerHead
<1>7. Announced
  <2>1. pc["client"] = 1 /\ ~Holds(Incoming("client"), Connect)
    BY <1>2, <1>4 DEF Hosts
  <2> QED BY <2>1 DEF Announced, Hears
<1> QED BY <1>3, <1>5, <1>6, <1>7 DEF IInv

(* Every step keeps it.                                                    *)
LEMMA NextSession == IInv /\ [Next]_vars => IInv'
<1> SUFFICES ASSUME IInv, [Next]_vars PROVE IInv'
  OBVIOUS
<1>1. ASSUME NEW h \in Hosts, Program_(h) PROVE IInv'
  BY <1>1, WriteKeeps, DrainKeeps, ActivateKeeps, ReadKeeps DEF Program_
<1>2. ASSUME NEW h \in Hosts, Chip(h) PROVE IInv'
  BY <1>2, ProcessKeeps, EmitKeeps, TellKeeps DEF Chip
<1>3. ASSUME NEW h \in Hosts, SayBusy(h) PROVE IInv'
  BY <1>3, SayBusyKeeps
<1>4. CASE Close
  BY <1>4, CloseKeeps
<1>5. CASE UNCHANGED vars
  <2>1. UNCHANGED <<pc, active, dead, trial, inbox, cmds, out, tell, listening, patient, faults>>
    BY <1>5 DEF vars, host
  <2>2. \A h \in Hosts : Incoming(h)' = Incoming(h)
    BY <2>1 DEF Incoming
  <2>3. Types /\ Network /\ Announced /\ \A h \in Hosts : Resetting(pc[h], Incoming(h), cmds[h])
    BY DEF IInv
  <2>4. Types'
    BY <2>1, <2>3 DEF Types
  <2>5. Network' /\ Announced'
    BY <2>1, <2>2, <2>3 DEF Network, Announced, Past, Hosts
  <2>6. \A h \in Hosts : Resetting(pc[h], Incoming(h), cmds[h])'
    BY <2>1, <2>2, <2>3
  <2> QED BY <2>4, <2>5, <2>6 DEF IInv
<1> QED BY <1>1, <1>2, <1>3, <1>4, <1>5 DEF Next

(* Throughout a session program and chip are where Resetting says, and the *)
(* two programs where Network and Announced say (esp-run.c, esp-commands.c,*)
(* server.c, client.c).                                                    *)
THEOREM SessionInvariant == Spec => []IInv
<1>1. Init => IInv
  BY InitSession
<1>2. IInv /\ [Next]_vars => IInv'
  BY NextSession
<1> QED BY <1>1, <1>2, PTL DEF Spec

(* Nothing of before the last reset is left when the hard reset is over,   *)
(* whatever an earlier session left and however often the chip is busy     *)
(* (esp_hard_reset, esp-run.c:212-219).                                    *)
THEOREM ResetLeavesInStep == Spec => []InStepAfterReset
<1>1. IInv => InStepAfterReset
  <2> SUFFICES ASSUME IInv, NEW h \in Hosts, pc[h] = Len(esp_hard_reset) + 1
               PROVE  inbox[h] = <<>> /\ out[h] = <<>> /\ cmds[h] = <<>>
    BY DEF InStepAfterReset
  <2>1. pc[h] = 14
    BY ResetIs DEF ResetEnd
  <2>2. cmds[h] = <<>> /\ inbox[h] \o out[h] = <<>>
    BY <2>1 DEF IInv, Resetting, Incoming
  <2>3. inbox[h] \in Seq(Lines) /\ out[h] \in Seq(Lines)
    BY DEF IInv, Types
  <2>4. Len(inbox[h]) = 0 /\ Len(out[h]) = 0
    <3>1. Len(inbox[h] \o out[h]) = Len(inbox[h]) + Len(out[h])
      <4>1. \A s, t \in Seq(Lines) : Len(s \o t) = Len(s) + Len(t)
        OBVIOUS
      <4> QED BY <2>3, <4>1
    <3>2. Len(inbox[h] \o out[h]) = 0
      BY <2>2
    <3>3. Len(inbox[h]) \in Nat /\ Len(out[h]) \in Nat
      <4>1. \A s \in Seq(Lines) : Len(s) \in Nat
        OBVIOUS
      <4> QED BY <2>3, <4>1
    <3> DEFINE m == Len(inbox[h])
               n == Len(out[h])
    <3>4. m \in Nat /\ n \in Nat /\ m + n = 0
      BY <3>1, <3>2, <3>3
    <3> HIDE DEF m, n
    <3>5. m = 0 /\ n = 0
      BY <3>4
    <3> QED BY <3>5 DEF m, n
  <2> QED BY <2>2, <2>3, <2>4, EmptySeq
<1> QED BY <1>1, SessionInvariant, PTL

(* A connection announced to a server whose client was started in time is  *)
(* seen by the server or still on its way (wait_for_conn, server.c).       *)
THEOREM ConnectionNotMissed == Spec => []ConnectNotLost
<1>1. IInv => ConnectNotLost
  <2> SUFFICES ASSUME IInv, "early" \notin faults, active["client"]
               PROVE  \/ pc["server"] > ServerHead
                      \/ Connect \in tell["server"] \cup ToSet(inbox["server"])
    BY ServerIs DEF ConnectNotLost
  <2>1. pc["client"] \in Nat /\ pc["server"] \in Nat /\ inbox["server"] \in Seq(Lines)
    BY DEF IInv, Types, Hosts
  <2>2. pc["client"] > ClientHead
    BY DEF IInv, Network
  <2>3. pc["client"] > Hears
    BY <2>1, <2>2 DEF ClientHead, Hears
  <2>4. pc["server"] <= ServerHead =>
          Connect \in tell["server"] \/ Holds(inbox["server"], Connect)
    BY <2>3 DEF IInv, Announced
  <2>5. Holds(inbox["server"], Connect) => Connect \in ToSet(inbox["server"])
    <3> DEFINE s == inbox["server"]
    <3>1. DOMAIN s = 1 .. Len(s)
      BY <2>1
    <3> HIDE DEF s, Connect
    <3>2. Holds(s, Connect) => Connect \in ToSet(s)
      BY <3>1 DEF Holds, ToSet
    <3> QED BY <3>2 DEF s
  <2> QED BY <2>1, <2>4, <2>5 DEF ServerHead
<1> QED BY <1>1, SessionInvariant, PTL

-----------------------------------------------------------------------------
(* The round trips.                                                        *)

(* A member is put behind the others.                                      *)
LEMMA QueueAppend ==
  ASSUME NEW S, NEW s \in Seq(S), NEW e \in S, NEW X
  PROVE  LET q == Append(s, e) IN
         /\ None(s, X) /\ e \notin X => None(q, X)
         /\ One(s, X) /\ e \notin X => One(q, X)
         /\ None(s, X) => One(q, X)
         /\ \A k \in 1 .. Len(q) : q[k] = e \/ \E j \in 1 .. Len(s) : q[k] = s[j]
<1> DEFINE q == Append(s, e)
           n == Len(s)
<1>1. /\ n \in Nat /\ Len(q) = n + 1 /\ q[n + 1] = e /\ n = Len(s)
      /\ \A k \in 1 .. n : q[k] = s[k]
  OBVIOUS
<1> HIDE DEF q, n
<1>2. \A k \in 1 .. Len(q) : k \in 1 .. n \/ k = n + 1
  BY <1>1
<1>3. None(s, X) /\ e \notin X => None(q, X)
  BY <1>1, <1>2 DEF None
<1>4. One(s, X) /\ e \notin X => One(q, X)
  BY <1>1, <1>2 DEF One
<1>5. None(s, X) => One(q, X)
  BY <1>1, <1>2 DEF None, One
<1>6. \A k \in 1 .. Len(q) : q[k] = e \/ \E j \in 1 .. Len(s) : q[k] = s[j]
  BY <1>1, <1>2
<1> QED BY <1>3, <1>4, <1>5, <1>6 DEF q

(* The first is taken from the others.                                     *)
LEMMA QueueTail ==
  ASSUME NEW S, NEW s \in Seq(S), s # <<>>, NEW X
  PROVE  LET q == Tail(s) IN
         /\ q \in Seq(S) /\ Head(s) \in S
         /\ None(s, X) => None(q, X) /\ Head(s) \notin X
         /\ One(s, X) => One(q, X)
         /\ One(s, X) /\ Head(s) \in X => None(q, X)
         /\ \A k \in 1 .. Len(q) : \E j \in 1 .. Len(s) : q[k] = s[j]
         /\ \E j \in 1 .. Len(s) : Head(s) = s[j]
         /\ Len(q) = Len(s) - 1
<1> DEFINE q == Tail(s)
           n == Len(s)
           e == Head(s)
<1>1. /\ n \in Nat \ {0} /\ Len(q) = n - 1 /\ e = s[1] /\ n = Len(s)
      /\ \A k \in 1 .. n - 1 : q[k] = s[k + 1]
      /\ q \in Seq(S) /\ e \in S
  OBVIOUS
<1> HIDE DEF q, n, e
<1>2. \A k \in 1 .. Len(q) : k + 1 \in 1 .. n /\ q[k] = s[k + 1] /\ k + 1 # 1
  BY <1>1
<1>3. 1 \in 1 .. n
  BY <1>1
<1>4. None(s, X) => None(q, X) /\ e \notin X
  BY <1>1, <1>2, <1>3 DEF None
<1>5. ASSUME One(s, X) PROVE One(q, X)
  <2>1. ASSUME NEW j \in 1 .. Len(q), NEW k \in 1 .. Len(q), q[j] \in X, q[k] \in X
        PROVE  j = k
    <3>1. j + 1 = k + 1
      BY <1>1, <1>2, <1>5, <2>1 DEF One
    <3> QED BY <3>1
  <2> QED BY <2>1 DEF One
<1>6. ASSUME One(s, X), e \in X PROVE None(q, X)
  <2>1. ASSUME NEW k \in 1 .. Len(q), q[k] \in X PROVE FALSE
    <3>1. k + 1 = 1
      BY <1>1, <1>2, <1>3, <1>6, <2>1 DEF One
    <3> QED BY <1>2, <3>1
  <2> QED BY <2>1 DEF None
<1>7. \A k \in 1 .. Len(q) : \E j \in 1 .. Len(s) : q[k] = s[j]
  BY <1>1, <1>2
<1>8. \E j \in 1 .. Len(s) : e = s[j]
  BY <1>1, <1>3
<1> QED BY <1>1, <1>4, <1>5, <1>6, <1>7, <1>8 DEF q, n, e

(* An order other than a message is written.                               *)
LEMMA CarriesOrder ==
  ASSUME NEW n, NEW g, NEW c \in Seq(Orders), NEW t, NEW i, NEW e \in Orders \ Datas,
         Carries(n, g, c, t, i)
  PROVE  Carries(n, g, Append(c, e), t, i)
<1> DEFINE q == Append(c, e)
<1>1. /\ None(c, Datas) => None(q, Datas)
      /\ One(c, Datas) => One(q, Datas)
      /\ \A k \in 1 .. Len(q) : q[k] = e \/ \E j \in 1 .. Len(c) : q[k] = c[j]
  BY QueueAppend
<1> HIDE DEF q
<1>2. CASE n = g
  BY <1>1, <1>2 DEF Carries, Nothing, q
<1>3. CASE n # g
  <2>1. CASE /\ One(c, Datas) /\ \A k \in 1 .. Len(c) : c[k] \in Datas => c[k] = <<"data", g>>
             /\ t \cap Messages = {} /\ None(i, Messages)
    <3>1. \A k \in 1 .. Len(q) : q[k] \in Datas => q[k] = <<"data", g>>
      BY <1>1, <2>1
    <3> QED BY <1>1, <1>3, <2>1, <3>1 DEF Carries, Flight, q
  <2>2. CASE None(c, Datas) /\ t \cap Messages \subseteq {Data(g)} /\ None(i, Messages)
    BY <1>1, <1>3, <2>2 DEF Carries, Flight, q
  <2>3. CASE /\ None(c, Datas) /\ t \cap Messages = {}
             /\ One(i, Messages) /\ \A k \in 1 .. Len(i) : i[k] \in Messages => i[k] = Data(g)
    BY <1>1, <1>3, <2>3 DEF Carries, Flight, q
  <2> QED BY <1>3, <2>1, <2>2, <2>3 DEF Carries, Flight
<1> QED BY <1>2, <1>3

(* The next message is written.                                            *)
LEMMA CarriesMessage ==
  ASSUME NEW g \in Nat, NEW c \in Seq(Orders), NEW t, NEW i, Carries(g, g, c, t, i)
  PROVE  Carries(g + 1, g, Append(c, <<"data", g>>), t, i)
<1> DEFINE e == <<"data", g>>
           q == Append(c, e)
<1>0. e \in Orders
  BY DEF Orders
<1>1. None(c, Datas) /\ t \cap Messages = {} /\ None(i, Messages)
  BY DEF Carries, Nothing
<1> HIDE DEF e
<1>2. /\ None(c, Datas) => One(q, Datas)
      /\ \A k \in 1 .. Len(q) : q[k] = e \/ \E j \in 1 .. Len(c) : q[k] = c[j]
  BY <1>0, QueueAppend
<1> HIDE DEF q
<1>3. \A k \in 1 .. Len(q) : q[k] \in Datas => q[k] = e
  BY <1>1, <1>2 DEF None
<1>4. Flight(q, t, i, g)
  BY <1>1, <1>2, <1>3 DEF Flight, e
<1>5. g + 1 # g
  OBVIOUS
<1> QED BY <1>4, <1>5 DEF Carries, q, e

(* An order is taken up by the chip: a message is told to the other chip or*)
(* lost.                                                                   *)
LEMMA CarriesTakenUp ==
  ASSUME NEW n, NEW g, NEW c \in Seq(Orders), NEW t, NEW i, c # <<>>, Carries(n, g, c, t, i),
         NEW u, u \cap Messages \subseteq
                  (t \cap Messages) \cup (IF Head(c) \in Datas THEN {Data(Head(c)[2])} ELSE {})
  PROVE  Carries(n, g, Tail(c), u, i)
<1> DEFINE q == Tail(c)
           e == Head(c)
<1>1. /\ None(c, Datas) => None(q, Datas) /\ e \notin Datas
      /\ One(c, Datas) => One(q, Datas)
      /\ One(c, Datas) /\ e \in Datas => None(q, Datas)
      /\ \A k \in 1 .. Len(q) : \E j \in 1 .. Len(c) : q[k] = c[j]
      /\ \E j \in 1 .. Len(c) : e = c[j]
  BY QueueTail
<1>0. u \cap Messages \subseteq (t \cap Messages) \cup (IF e \in Datas THEN {Data(e[2])} ELSE {})
  OBVIOUS
<1> HIDE DEF q, e
<1>2. CASE n = g
  BY <1>0, <1>1, <1>2 DEF Carries, Nothing, q
<1>3. CASE n # g
  <2>1. CASE /\ One(c, Datas) /\ \A k \in 1 .. Len(c) : c[k] \in Datas => c[k] = <<"data", g>>
             /\ t \cap Messages = {} /\ None(i, Messages)
    <3>1. CASE e \in Datas
      <4>1. e = <<"data", g>>
        BY <1>1, <2>1, <3>1
      <4>2. e[2] = g
        BY <4>1
      <4>3. u \cap Messages \subseteq {Data(g)}
        BY <1>0, <2>1, <3>1, <4>2
      <4>4. None(q, Datas)
        BY <1>1, <2>1, <3>1
      <4> QED BY <1>3, <2>1, <4>3, <4>4 DEF Carries, Flight, q
    <3>2. CASE e \notin Datas
      <4>1. u \cap Messages = {}
        BY <1>0, <2>1, <3>2
      <4>2. \A k \in 1 .. Len(q) : q[k] \in Datas => q[k] = <<"data", g>>
        BY <1>1, <2>1
      <4> QED BY <1>1, <1>3, <2>1, <4>1, <4>2 DEF Carries, Flight, q
    <3> QED BY <3>1, <3>2
  <2>2. CASE None(c, Datas) /\ t \cap Messages \subseteq {Data(g)} /\ None(i, Messages)
    <3>1. u \cap Messages \subseteq {Data(g)}
      BY <1>0, <1>1, <2>2
    <3> QED BY <1>1, <1>3, <2>2, <3>1 DEF Carries, Flight, q
  <2>3. CASE /\ None(c, Datas) /\ t \cap Messages = {}
             /\ One(i, Messages) /\ \A k \in 1 .. Len(i) : i[k] \in Messages => i[k] = Data(g)
    <3>1. u \cap Messages = {}
      BY <1>0, <1>1, <2>3
    <3> QED BY <1>1, <1>3, <2>3, <3>1 DEF Carries, Flight, q
  <2> QED BY <1>3, <2>1, <2>2, <2>3 DEF Carries, Flight
<1> QED BY <1>2, <1>3

(* A line comes in: one that is no message, or the message told.           *)
LEMMA CarriesLine ==
  ASSUME NEW n, NEW g, NEW c, NEW t, NEW i \in Seq(Lines), NEW e \in Lines,
         Carries(n, g, c, t, i), NEW u,
         IF e \in Messages THEN e \in t /\ u \cap Messages \subseteq t \ {e}
         ELSE u \cap Messages \subseteq t
  PROVE  Carries(n, g, c, u, Append(i, e))
<1> DEFINE q == Append(i, e)
<1>1. /\ None(i, Messages) /\ e \notin Messages => None(q, Messages)
      /\ One(i, Messages) /\ e \notin Messages => One(q, Messages)
      /\ None(i, Messages) => One(q, Messages)
      /\ \A k \in 1 .. Len(q) : q[k] = e \/ \E j \in 1 .. Len(i) : q[k] = i[j]
  BY QueueAppend
<1> HIDE DEF q
<1>2. CASE n = g
  <2>1. None(c, Datas) /\ t \cap Messages = {} /\ None(i, Messages)
    BY <1>2 DEF Carries, Nothing
  <2>2. e \notin Messages
    BY <2>1
  <2>3. u \cap Messages = {}
    BY <2>1, <2>2
  <2> QED BY <1>1, <1>2, <2>1, <2>2, <2>3 DEF Carries, Nothing, q
<1>3. CASE n # g
  <2>1. CASE /\ One(c, Datas) /\ \A k \in 1 .. Len(c) : c[k] \in Datas => c[k] = <<"data", g>>
             /\ t \cap Messages = {} /\ None(i, Messages)
    <3>1. e \notin Messages
      BY <2>1
    <3>2. u \cap Messages = {}
      BY <2>1, <3>1
    <3> QED BY <1>1, <1>3, <2>1, <3>1, <3>2 DEF Carries, Flight, q
  <2>2. CASE None(c, Datas) /\ t \cap Messages \subseteq {Data(g)} /\ None(i, Messages)
    <3>1. CASE e \in Messages
      <4>1. e = Data(g)
        BY <2>2, <3>1
      <4>2. u \cap Messages = {}
        BY <2>2, <3>1, <4>1
      <4>3. \A k \in 1 .. Len(q) : q[k] \in Messages => q[k] = Data(g)
        BY <1>1, <2>2, <4>1 DEF None
      <4> QED BY <1>1, <1>3, <2>2, <4>2, <4>3 DEF Carries, Flight, q
    <3>2. CASE e \notin Messages
      <4>1. u \cap Messages \subseteq {Data(g)}
        BY <2>2, <3>2
      <4> QED BY <1>1, <1>3, <2>2, <3>2, <4>1 DEF Carries, Flight, q
    <3> QED BY <3>1, <3>2
  <2>3. CASE /\ None(c, Datas) /\ t \cap Messages = {}
             /\ One(i, Messages) /\ \A k \in 1 .. Len(i) : i[k] \in Messages => i[k] = Data(g)
    <3>1. e \notin Messages
      BY <2>3
    <3>2. u \cap Messages = {}
      BY <2>3, <3>1
    <3>3. \A k \in 1 .. Len(q) : q[k] \in Messages => q[k] = Data(g)
      BY <1>1, <2>3, <3>1
    <3> QED BY <1>1, <1>3, <2>3, <3>1, <3>2, <3>3 DEF Carries, Flight, q
  <2> QED BY <1>3, <2>1, <2>2, <2>3 DEF Carries, Flight
<1> QED BY <1>2, <1>3

(* A line is read, or passed over; the message, when it is read, is the one*)
(* that is due, and there is no other.                                     *)
LEMMA CarriesRead ==
  ASSUME NEW n \in Nat, NEW g \in Nat, NEW c, NEW t, NEW i \in Seq(Lines), i # <<>>,
         Carries(n, g, c, t, i)
  PROVE  /\ Carries(n, g, c, t, Tail(i))
         /\ Head(i) \in Messages => /\ n # g /\ Head(i) = Data(g)
                                    /\ n = g + 1 => Carries(n, g + 1, c, t, Tail(i))
<1> DEFINE q == Tail(i)
           e == Head(i)
<1>1. /\ None(i, Messages) => None(q, Messages) /\ e \notin Messages
      /\ One(i, Messages) => One(q, Messages)
      /\ One(i, Messages) /\ e \in Messages => None(q, Messages)
      /\ \A k \in 1 .. Len(q) : \E j \in 1 .. Len(i) : q[k] = i[j]
      /\ \E j \in 1 .. Len(i) : e = i[j]
  BY QueueTail
<1> HIDE DEF q, e
<1>2. CASE n = g
  <2>1. None(c, Datas) /\ t \cap Messages = {} /\ None(i, Messages)
    BY <1>2 DEF Carries, Nothing
  <2> QED BY <1>1, <1>2, <2>1 DEF Carries, Nothing, q, e
<1>3. CASE n # g
  <2>1. CASE /\ One(c, Datas) /\ \A k \in 1 .. Len(c) : c[k] \in Datas => c[k] = <<"data", g>>
             /\ t \cap Messages = {} /\ None(i, Messages)
    BY <1>1, <1>3, <2>1 DEF Carries, Flight, q, e
  <2>2. CASE None(c, Datas) /\ t \cap Messages \subseteq {Data(g)} /\ None(i, Messages)
    BY <1>1, <1>3, <2>2 DEF Carries, Flight, q, e
  <2>3. CASE /\ None(c, Datas) /\ t \cap Messages = {}
             /\ One(i, Messages) /\ \A k \in 1 .. Len(i) : i[k] \in Messages => i[k] = Data(g)
    <3>1. \A k \in 1 .. Len(q) : q[k] \in Messages => q[k] = Data(g)
      BY <1>1, <2>3
    <3>2. Carries(n, g, c, t, q)
      BY <1>1, <1>3, <2>3, <3>1 DEF Carries, Flight
    <3>3. e \in Messages => e = Data(g) /\ None(q, Messages)
      BY <1>1, <2>3
    <3>4. e \in Messages /\ n = g + 1 => Carries(n, g + 1, c, t, q)
      BY <2>3, <3>3 DEF Carries, Nothing
    <3> QED BY <1>3, <3>2, <3>3, <3>4 DEF q, e
  <2> QED BY <1>3, <2>1, <2>2, <2>3 DEF Carries, Flight
<1> QED BY <1>2, <1>3

(* A message told is no more, or something else is told.                   *)
LEMMA CarriesTold ==
  ASSUME NEW n, NEW g, NEW c, NEW t, NEW i, Carries(n, g, c, t, i),
         NEW u, u \cap Messages \subseteq t \cap Messages
  PROVE  Carries(n, g, c, u, i)
BY DEF Carries, Nothing, Flight

(* The program goes on from a step that waits for no reply.                *)
LEMMA AnsweredOn ==
  ASSUME NEW i, NEW o, NEW c, Answered(FALSE, i, o, c), NEW w \in BOOLEAN
  PROVE  Answered(w, i, o, c)
<1>1. None(o, Replies) => One(o, Replies)
  BY DEF None, One
<1> QED BY <1>1 DEF Answered

(* It writes.                                                              *)
LEMMA AnsweredWrite ==
  ASSUME NEW i, NEW o, NEW c, NEW e, Answered(FALSE, i, o, c)
  PROVE  Answered(TRUE, i, o, Append(c, e))
<1>1. c = <<>> /\ None(i, Replies) /\ None(o, Replies)
  BY DEF Answered
<1>2. Append(<<>>, e) = <<e>> /\ Len(<<e>>) = 1
  BY OneAfter
<1> DEFINE q == <<e>>
<1>3. Append(c, e) = q /\ Len(q) = 1
  BY <1>1, <1>2
<1> HIDE DEF q
<1> QED BY <1>1, <1>3 DEF Answered

(* It passes over a line.                                                  *)
LEMMA AnsweredSkip ==
  ASSUME NEW w, NEW i \in Seq(Lines), NEW o, NEW c, i # <<>>, Answered(w, i, o, c)
  PROVE  Answered(w, Tail(i), o, c)
<1> DEFINE q == Tail(i)
<1>1. /\ None(i, Replies) => None(q, Replies)
      /\ One(i, Replies) => One(q, Replies)
  BY QueueTail
<1> HIDE DEF q
<1> QED BY <1>1 DEF Answered, q

(* It reads what it waited for, and goes on.                               *)
LEMMA AnsweredRead ==
  ASSUME NEW w \in BOOLEAN, NEW i \in Seq(Lines), NEW o, NEW c, i # <<>>,
         Answered(w, i, o, c), w => Head(i) \in Replies, NEW v \in BOOLEAN
  PROVE  Answered(v, Tail(i), o, c)
<1> DEFINE q == Tail(i)
           e == Head(i)
<1>1. /\ None(i, Replies) => None(q, Replies) /\ e \notin Replies
      /\ One(i, Replies) /\ e \in Replies => None(q, Replies)
  BY QueueTail
<1>2. w => e \in Replies
  OBVIOUS
<1> HIDE DEF q, e
<1>3. Answered(FALSE, q, o, c)
  BY <1>1, <1>2 DEF Answered
<1>4. Answered(v, q, o, c)
  BY <1>3, AnsweredOn
<1> QED BY <1>4 DEF q

(* The chip takes up the order.                                            *)
LEMMA AnsweredTakenUp ==
  ASSUME NEW w \in BOOLEAN, NEW i, NEW c \in Seq(Orders), c # <<>>, Answered(w, i, <<>>, c),
         NEW a \in Seq(Lines), \A k \in 2 .. Len(a) : a[k] \notin Replies
  PROVE  Answered(w, i, a, Tail(c))
<1>1. w /\ Len(c) = 1 /\ None(i, Replies)
  BY DEF Answered
<1>2. Tail(c) = <<>>
  <2>1. Tail(c) \in Seq(Orders) /\ Len(Tail(c)) = 0
    BY <1>1
  <2> QED BY <2>1, EmptySeq
<1>3. One(a, Replies)
  <2>1. \A k \in 1 .. Len(a) : k = 1 \/ k \in 2 .. Len(a)
    OBVIOUS
  <2> QED BY <2>1 DEF One
<1> QED BY <1>1, <1>2, <1>3 DEF Answered

(* A line of the answer comes out of the chip.                             *)
LEMMA AnsweredEmit ==
  ASSUME NEW w, NEW i \in Seq(Lines), NEW o \in Seq(Lines), NEW c, o # <<>>, Answered(w, i, o, c)
  PROVE  Answered(w, Append(i, Head(o)), Tail(o), c)
<1> DEFINE e == Head(o)
           p == Append(i, e)
           q == Tail(o)
<1>1. /\ e \in Lines
      /\ None(o, Replies) => None(q, Replies) /\ e \notin Replies
      /\ One(o, Replies) => One(q, Replies)
      /\ One(o, Replies) /\ e \in Replies => None(q, Replies)
  BY QueueTail
<1> HIDE DEF e, q
<1>2. /\ None(i, Replies) /\ e \notin Replies => None(p, Replies)
      /\ One(i, Replies) /\ e \notin Replies => One(p, Replies)
      /\ None(i, Replies) => One(p, Replies)
  BY <1>1, QueueAppend
<1> HIDE DEF p
<1> QED BY <1>1, <1>2 DEF Answered, e, p, q

(* Another line comes in.                                                  *)
LEMMA AnsweredLine ==
  ASSUME NEW w, NEW i \in Seq(Lines), NEW o, NEW c, NEW e \in Lines \ Replies, Answered(w, i, o, c)
  PROVE  Answered(w, Append(i, e), o, c)
<1> DEFINE p == Append(i, e)
<1>1. /\ None(i, Replies) => None(p, Replies)
      /\ One(i, Replies) => One(p, Replies)
  BY QueueAppend
<1> HIDE DEF p
<1> QED BY <1>1 DEF Answered, p

(* When the reset is over nothing is unanswered.                           *)
LEMMA AnsweredReset ==
  ASSUME NEW i \in Seq(Lines), NEW o \in Seq(Lines), NEW c, Resetting(14, i \o o, c),
         NEW w \in BOOLEAN
  PROVE  Answered(w, i, o, c)
<1>1. c = <<>> /\ i \o o = <<>>
  BY DEF Resetting
<1>2. Len(i) = 0 /\ Len(o) = 0
  <2>1. Len(i \o o) = Len(i) + Len(o) /\ Len(i) \in Nat /\ Len(o) \in Nat
    OBVIOUS
  <2>2. Len(i \o o) = 0
    BY <1>1
  <2> DEFINE m == Len(i)
             n == Len(o)
  <2>3. m \in Nat /\ n \in Nat /\ m + n = 0
    BY <2>1, <2>2
  <2> HIDE DEF m, n
  <2>4. m = 0 /\ n = 0
    BY <2>3
  <2> QED BY <2>4 DEF m, n
<1>3. Answered(FALSE, i, o, c)
  BY <1>1, <1>2 DEF Answered, None
<1> QED BY <1>3, AnsweredOn

(* The sums of the rounds: a program goes on in its round, sends, or gets  *)
(* a message.                                                              *)
LEMMA StepOn ==
  ASSUME NEW h \in Hosts, NEW p \in 1 .. Len(Program[h]), NEW t \in Nat, InRound(h, p, t),
         Program[h][p].op \notin {"write", "recv"}
  PROVE  /\ InRound(h, p + 1, t) /\ GotBy(h, p + 1, t) = GotBy(h, p, t)
         /\ SentBy(h, p + 1, t) = SentBy(h, p, t)
<1>1. ~(p > RoundsFrom(h) /\ Place(h, p, t) = (IF h = "server" THEN 5 ELSE 6))
  BY Plays
<1>2. ~(p > RoundsFrom(h) /\ Place(h, p, t) \in (IF h = "server" THEN {8} ELSE {1, 9}))
  BY Plays
<1>3. p \in Nat
  BY RoundsAre
<1> QED BY <1>1, <1>2, <1>3
        DEF InRound, GotBy, SentBy, Place, RoundsFrom, Hosts, ServerHead, ClientHead

(* It sends the next value.                                                *)
LEMMA StepSend ==
  ASSUME NEW h \in Hosts, NEW p \in 1 .. Len(Program[h]), NEW t \in Nat, InRound(h, p, t),
         Program[h][p].op = "write"
  PROVE  /\ InRound(h, p + 1, t) /\ GotBy(h, p + 1, t) = GotBy(h, p, t)
         /\ SentBy(h, p, t) = t /\ SentBy(h, p + 1, t) = t + 1
         /\ GotBy(h, p, t) = IF h = "server" THEN t ELSE t + 1
<1>1. p > RoundsFrom(h) /\ Place(h, p, t) = (IF h = "server" THEN 5 ELSE 6)
  BY Plays
<1>3. p \in Nat
  BY RoundsAre
<1> QED BY <1>1, <1>3
        DEF InRound, GotBy, SentBy, Place, RoundsFrom, Hosts, ServerHead, ClientHead

(* It gets the value that is due.                                          *)
LEMMA StepGet ==
  ASSUME NEW h \in Hosts, NEW p \in 1 .. Len(Program[h]), NEW t \in Nat, InRound(h, p, t),
         Program[h][p].op = "recv",
         NEW u, u = IF h = "server" THEN t + 1 ELSE GotBy(h, p, t)
  PROVE  /\ InRound(h, p + 1, u) /\ GotBy(h, p + 1, u) = GotBy(h, p, t) + 1
         /\ SentBy(h, p + 1, u) = SentBy(h, p, t)
         /\ h = "server" => GotBy(h, p, t) = t
<1>1. p > RoundsFrom(h) /\ Place(h, p, t) \in (IF h = "server" THEN {8} ELSE {1, 9})
  BY Plays
<1>3. p \in Nat
  BY RoundsAre
<1> QED BY <1>1, <1>3
        DEF InRound, GotBy, SentBy, Place, RoundsFrom, Hosts, ServerHead, ClientHead

(* What a program has got and sent, by the rounds it has begun.            *)
LEMMA StepSums ==
  ASSUME NEW h \in Hosts, NEW p \in Nat, NEW t \in Nat, InRound(h, p, t)
  PROVE  /\ GotBy(h, p, t) \in Nat /\ SentBy(h, p, t) \in Nat
         /\ h = "server" => GotBy(h, p, t) = t /\ SentBy(h, p, t) \in {t, t + 1}
         /\ h = "client" => /\ SentBy(h, p, t) <= GotBy(h, p, t)
                            /\ GotBy(h, p, t) = t + 1 \/ (GotBy(h, p, t) = 0 /\ t = 0)
         /\ p <= Len(Program[h]) + 1 => t <= NTRIALS
<1>1. Len(Program[h]) = RoundsFrom(h) + 8 * NTRIALS /\ NTRIALS \in Nat
  BY RoundsAre, NTRIALSAssumption
<1>2. p <= Len(Program[h]) + 1 => t <= NTRIALS
  BY <1>1 DEF InRound, Place, RoundsFrom, Hosts, ServerHead, ClientHead
<1>3. /\ GotBy(h, p, t) \in Nat /\ SentBy(h, p, t) \in Nat
      /\ h = "server" => GotBy(h, p, t) = t /\ SentBy(h, p, t) \in {t, t + 1}
  BY DEF InRound, GotBy, SentBy, Place, RoundsFrom, Hosts, ServerHead, ClientHead
<1>4. h = "client" => /\ SentBy(h, p, t) <= GotBy(h, p, t)
                      /\ GotBy(h, p, t) = t + 1 \/ (GotBy(h, p, t) = 0 /\ t = 0)
  BY DEF InRound, GotBy, SentBy, Place, RoundsFrom, Hosts, ServerHead, ClientHead
<1> QED BY <1>2, <1>3, <1>4

(* There are two hosts, each the other's peer.                             *)
LEMMA Peers ==
  ASSUME NEW h \in Hosts
  PROVE  /\ Peer(h) \in Hosts /\ Peer(h) # h /\ Peer(Peer(h)) = h
         /\ \A g \in Hosts : g = h \/ g = Peer(h)
BY DEF Hosts, Peer

(* The values got and sent by the two programs take turns.                 *)
LEMMA Turns ==
  ASSUME Types, Rounds
  PROVE  /\ \A h \in Hosts : Got(h) \in Nat /\ Sent(h) \in Nat
         /\ Got("server") = trial["server"]
         /\ Got("server") <= Sent("client") /\ Sent("client") <= Got("client")
         /\ Got("client") <= Sent("server") /\ Sent("server") <= Got("server") + 1
         /\ Got("client") = trial["client"] + 1 \/ (Got("client") = 0 /\ trial["client"] = 0)
         /\ \A h \in Hosts : Sent(Peer(h)) = Got(h) \/ Sent(Peer(h)) = Got(h) + 1
         /\ \A h \in Hosts : pc[h] \in 1 .. Len(Program[h]) + 1 /\ trial[h] \in 0 .. NTRIALS
<1>1. ASSUME NEW h \in Hosts
      PROVE  /\ pc[h] \in Nat \ {0} /\ trial[h] \in Nat /\ InRound(h, pc[h], trial[h])
             /\ pc[h] <= Len(Program[h]) + 1 /\ Len(Program[h]) \in Nat
  <2>1. Len(Program[h]) \in Nat
    BY RoundsAre
  <2> QED BY <2>1 DEF Types, Rounds
<1>2. ASSUME NEW h \in Hosts
      PROVE  /\ Got(h) \in Nat /\ Sent(h) \in Nat
             /\ h = "server" => Got(h) = trial[h] /\ Sent(h) \in {trial[h], trial[h] + 1}
             /\ h = "client" => /\ Sent(h) <= Got(h)
                                /\ Got(h) = trial[h] + 1 \/ (Got(h) = 0 /\ trial[h] = 0)
             /\ trial[h] <= NTRIALS
  <2> DEFINE p == pc[h]
             t == trial[h]
  <2>1. p \in Nat /\ t \in Nat /\ InRound(h, p, t) /\ p <= Len(Program[h]) + 1
    BY <1>1
  <2> HIDE DEF p, t
  <2>2. /\ GotBy(h, p, t) \in Nat /\ SentBy(h, p, t) \in Nat
        /\ h = "server" => GotBy(h, p, t) = t /\ SentBy(h, p, t) \in {t, t + 1}
        /\ h = "client" => /\ SentBy(h, p, t) <= GotBy(h, p, t)
                           /\ GotBy(h, p, t) = t + 1 \/ (GotBy(h, p, t) = 0 /\ t = 0)
        /\ p <= Len(Program[h]) + 1 => t <= NTRIALS
    BY <2>1, StepSums
  <2> QED BY <2>1, <2>2 DEF p, t, Got, Sent
<1>3. /\ "server" \in Hosts /\ "client" \in Hosts
      /\ Peer("server") = "client" /\ Peer("client") = "server"
  BY DEF Hosts, Peer
<1>4. Got("server") <= Sent("client") /\ Got("client") <= Sent("server")
  BY <1>3 DEF Rounds
<1> DEFINE a == Got("server")
           b == Sent("client")
           c == Got("client")
           d == Sent("server")
<1>5. /\ a \in Nat /\ b \in Nat /\ c \in Nat /\ d \in Nat
      /\ a <= b /\ b <= c /\ c <= d /\ d \in {a, a + 1}
  BY <1>2, <1>3, <1>4
<1>6. \A h \in Hosts : pc[h] \in 1 .. Len(Program[h]) + 1 /\ trial[h] \in 0 .. NTRIALS
  BY <1>1, <1>2, NTRIALSAssumption
<1>7. /\ a = trial["server"]
      /\ c = trial["client"] + 1 \/ (c = 0 /\ trial["client"] = 0)
  BY <1>2, <1>3
<1>8. \A h \in Hosts : Got(h) \in Nat /\ Sent(h) \in Nat
  BY <1>2
<1>9. \A h \in Hosts : (h = "server" /\ Got(h) = a /\ Sent(Peer(h)) = b)
                       \/ (h = "client" /\ Got(h) = c /\ Sent(Peer(h)) = d)
  BY <1>3 DEF Hosts
<1> HIDE DEF a, b, c, d
<1>10. (b = a \/ b = a + 1) /\ (d = c \/ d = c + 1) /\ d <= a + 1
  BY <1>5
<1>11. \A h \in Hosts : Sent(Peer(h)) = Got(h) \/ Sent(Peer(h)) = Got(h) + 1
  BY <1>9, <1>10
<1> QED BY <1>5, <1>6, <1>7, <1>8, <1>10, <1>11 DEF a, b, c, d

(* Nobody goes on.                                                         *)
LEMMA NumbersStay ==
  ASSUME Rounds, pc' = pc, trial' = trial
  PROVE  /\ Rounds'
         /\ \A h \in Hosts : Got(h)' = Got(h) /\ Sent(h)' = Sent(h)
<1>1. \A h \in Hosts : Got(h)' = Got(h) /\ Sent(h)' = Sent(h)
  BY DEF Got, Sent
<1> QED BY <1>1, Peers DEF Rounds

(* One program goes on.                                                    *)
LEMMA NumbersMove ==
  ASSUME Types, Rounds, NEW h \in Hosts, pc' = [pc EXCEPT ![h] = @ + 1], pc[h] <= Len(Program[h]),
         NEW t \in Nat, trial' = [trial EXCEPT ![h] = t], InRound(h, pc[h] + 1, t),
         GotBy(h, pc[h] + 1, t) <= Sent(Peer(h)),
         SentBy(h, pc[h] + 1, t) \in {Sent(h), Sent(h) + 1}
  PROVE  /\ Rounds'
         /\ Got(h)' = GotBy(h, pc[h] + 1, t) /\ Sent(h)' = SentBy(h, pc[h] + 1, t)
         /\ Got(Peer(h))' = Got(Peer(h)) /\ Sent(Peer(h))' = Sent(Peer(h))
<1> DEFINE k == Peer(h)
<1>1. k \in Hosts /\ k # h /\ Peer(k) = h /\ \A g \in Hosts : g = h \/ g = k
  BY Peers
<1>2. /\ pc'[h] = pc[h] + 1 /\ trial'[h] = t
      /\ pc'[k] = pc[k] /\ trial'[k] = trial[k]
  BY <1>1 DEF Types
<1>3. Got(k)' = Got(k) /\ Sent(k)' = Sent(k)
  BY <1>2 DEF Got, Sent
<1>4. Got(h)' = GotBy(h, pc[h] + 1, t) /\ Sent(h)' = SentBy(h, pc[h] + 1, t)
  BY <1>2 DEF Got, Sent
<1>5. Got(k) <= Sent(h) /\ Got(k) \in Nat /\ Sent(h) \in Nat
  BY <1>1, Turns DEF Rounds
<1>6. pc[h] + 1 <= Len(Program[h]) + 1
  <2>1. Len(Program[h]) \in Nat /\ pc[h] \in Nat
    BY RoundsAre DEF Types
  <2> QED BY <2>1
<1>7. pc[k] <= Len(Program[k]) + 1 /\ InRound(k, pc[k], trial[k])
  BY <1>1 DEF Rounds
<1>8. Peer(h) = k
  OBVIOUS
<1> HIDE DEF k
<1>9. \A g \in Hosts : pc'[g] <= Len(Program[g]) + 1 /\ InRound(g, pc'[g], trial'[g])
  BY <1>1, <1>2, <1>6, <1>7
<1>10. Got(h)' <= Sent(k)' /\ Got(k)' <= Sent(h)'
  <2> DEFINE x == Got(k)
             y == Sent(h)
             z == SentBy(h, pc[h] + 1, t)
  <2>1. x <= y /\ x \in Nat /\ y \in Nat /\ z \in {y, y + 1}
    BY <1>5
  <2> HIDE DEF x, y, z
  <2>2. x <= z
    BY <2>1
  <2> QED BY <1>3, <1>4, <1>8, <2>2 DEF x, z
<1>11. \A g \in Hosts : Got(g)' <= Sent(Peer(g))'
  BY <1>1, <1>8, <1>10
<1>12. Rounds'
  BY <1>9, <1>11 DEF Rounds
<1> QED BY <1>3, <1>4, <1>8, <1>12

(* The step a program is at, and its place in the rounds.                  *)
LEMMA InStep ==
  ASSUME Types, Rounds, NEW h \in Hosts, NEW ops, At(h, ops)
  PROVE  /\ pc[h] \in 1 .. Len(Program[h]) /\ trial[h] \in Nat
         /\ InRound(h, pc[h], trial[h]) /\ Program[h][pc[h]].op \in ops
<1>1. Len(Program[h]) \in Nat /\ pc[h] \in Nat \ {0} /\ trial[h] \in Nat
  BY RoundsAre DEF Types
<1>2. pc[h] <= Len(Program[h])
  BY <1>1 DEF At, Done
<1> QED BY <1>1, <1>2 DEF Rounds, At

(* A step that neither sends nor gets a value.                             *)
LEMMA NumbersOn ==
  ASSUME Types, Rounds, NEW h \in Hosts, NEW ops, At(h, ops),
         Program[h][pc[h]].op \notin {"write", "recv"}, Goto(h), trial' = trial
  PROVE  /\ Rounds'
         /\ \A g \in Hosts : Got(g)' = Got(g) /\ Sent(g)' = Sent(g)
<1> DEFINE p == pc[h]
           t == trial[h]
<1>1. p \in 1 .. Len(Program[h]) /\ t \in Nat /\ InRound(h, p, t)
  BY InStep
<1>2. Program[h][p].op \notin {"write", "recv"}
  OBVIOUS
<1>3. Got(h) = GotBy(h, p, t) /\ Sent(h) = SentBy(h, p, t)
  BY DEF Got, Sent
<1> HIDE DEF p, t
<1>4. /\ InRound(h, p + 1, t) /\ GotBy(h, p + 1, t) = GotBy(h, p, t)
      /\ SentBy(h, p + 1, t) = SentBy(h, p, t)
  BY <1>1, <1>2, StepOn
<1>5. Got(h) <= Sent(Peer(h))
  BY DEF Rounds
<1>6. trial' = [trial EXCEPT ![h] = t]
  BY DEF Types, t
<1>7. pc' = [pc EXCEPT ![h] = @ + 1]
  BY DEF Goto
<1>8. p <= Len(Program[h])
  <2>1. Len(Program[h]) \in Nat
    BY RoundsAre
  <2> QED BY <1>1, <2>1
<1>9. /\ Rounds'
      /\ Got(h)' = GotBy(h, p + 1, t) /\ Sent(h)' = SentBy(h, p + 1, t)
      /\ Got(Peer(h))' = Got(Peer(h)) /\ Sent(Peer(h))' = Sent(Peer(h))
  BY <1>1, <1>3, <1>4, <1>5, <1>6, <1>7, <1>8, NumbersMove DEF p
<1> QED BY <1>3, <1>4, <1>9, Peers

(* A program sends when it has got all there is: its next value is the one *)
(* the other waits for.                                                    *)
LEMMA NumbersSend ==
  ASSUME Types, Rounds, NEW h \in Hosts, At(h, {"write"}), Goto(h), trial' = trial
  PROVE  /\ Rounds'
         /\ Got(Peer(h)) = trial[h] /\ Sent(h) = trial[h] /\ Sent(h)' = trial[h] + 1
         /\ Got(h)' = Got(h) /\ Got(Peer(h))' = Got(Peer(h)) /\ Sent(Peer(h))' = Sent(Peer(h))
<1> DEFINE p == pc[h]
           t == trial[h]
<1>1. p \in 1 .. Len(Program[h]) /\ t \in Nat /\ InRound(h, p, t) /\ Program[h][p].op = "write"
  BY InStep
<1>3. Got(h) = GotBy(h, p, t) /\ Sent(h) = SentBy(h, p, t)
  BY DEF Got, Sent
<1> HIDE DEF p, t
<1>4. /\ InRound(h, p + 1, t) /\ GotBy(h, p + 1, t) = GotBy(h, p, t)
      /\ SentBy(h, p, t) = t /\ SentBy(h, p + 1, t) = t + 1
      /\ GotBy(h, p, t) = IF h = "server" THEN t ELSE t + 1
  BY <1>1, StepSend
<1>5. Got(h) <= Sent(Peer(h))
  BY DEF Rounds
<1>6. trial' = [trial EXCEPT ![h] = t]
  BY DEF Types, t
<1>7. pc' = [pc EXCEPT ![h] = @ + 1]
  BY DEF Goto
<1>8. p <= Len(Program[h])
  <2>1. Len(Program[h]) \in Nat
    BY RoundsAre
  <2> QED BY <1>1, <2>1
<1>9. /\ Rounds'
      /\ Got(h)' = GotBy(h, p + 1, t) /\ Sent(h)' = SentBy(h, p + 1, t)
      /\ Got(Peer(h))' = Got(Peer(h)) /\ Sent(Peer(h))' = Sent(Peer(h))
  BY <1>1, <1>3, <1>4, <1>5, <1>6, <1>7, <1>8, NumbersMove DEF p
<1>10. Got(Peer(h)) = t
  <2> DEFINE a == Got("server")
             b == Sent("client")
             c == Got("client")
             d == Sent("server")
  <2>1. a \in Nat /\ b \in Nat /\ c \in Nat /\ d \in Nat /\ a <= b /\ b <= c /\ c <= d /\ d <= a + 1
    BY Turns DEF Hosts
  <2>2. CASE h = "server"
    <3>1. a = t /\ d = t /\ Peer(h) = "client"
      BY <1>3, <1>4, <2>2 DEF Peer
    <3> HIDE DEF a, b, c, d
    <3>2. c = t
      BY <2>1, <3>1
    <3> QED BY <3>1, <3>2 DEF c
  <2>3. CASE h = "client"
    <3>1. b = t /\ c = t + 1 /\ Peer(h) = "server"
      BY <1>3, <1>4, <2>3 DEF Peer
    <3> HIDE DEF a, b, c, d
    <3>2. a = t
      BY <1>1, <2>1, <3>1
    <3> QED BY <3>1, <3>2 DEF a
  <2> QED BY <2>2, <2>3 DEF Hosts
<1> QED BY <1>3, <1>4, <1>9, <1>10 DEF t

(* A program gets the value that is due.                                   *)
LEMMA NumbersGet ==
  ASSUME Types, Rounds, NEW h \in Hosts, At(h, {"recv"}), Goto(h), Sent(Peer(h)) # Got(h),
         trial' = [trial EXCEPT ![h] = IF h = "server" THEN @ + 1 ELSE Got(h)]
  PROVE  /\ Rounds'
         /\ Got(h)' = Got(h) + 1 /\ Sent(Peer(h)) = Got(h) + 1
         /\ Sent(h)' = Sent(h) /\ Got(Peer(h))' = Got(Peer(h)) /\ Sent(Peer(h))' = Sent(Peer(h))
<1> DEFINE p == pc[h]
           t == trial[h]
           u == IF h = "server" THEN t + 1 ELSE GotBy(h, p, t)
<1>1. p \in 1 .. Len(Program[h]) /\ t \in Nat /\ InRound(h, p, t) /\ Program[h][p].op = "recv"
  BY InStep
<1>3. Got(h) = GotBy(h, p, t) /\ Sent(h) = SentBy(h, p, t)
  BY DEF Got, Sent
<1>6. trial' = [trial EXCEPT ![h] = u]
  BY <1>3 DEF Types
<1>11. u = IF h = "server" THEN t + 1 ELSE GotBy(h, p, t)
  OBVIOUS
<1> HIDE DEF p, t, u
<1>4. /\ InRound(h, p + 1, u) /\ GotBy(h, p + 1, u) = GotBy(h, p, t) + 1
      /\ SentBy(h, p + 1, u) = SentBy(h, p, t)
  BY <1>1, <1>11, StepGet
<1>5. Got(h) \in Nat /\ Sent(Peer(h)) = Got(h) + 1
  BY Turns
<1>7. pc' = [pc EXCEPT ![h] = @ + 1]
  BY DEF Goto
<1>8. p <= Len(Program[h])
  <2>1. Len(Program[h]) \in Nat
    BY RoundsAre
  <2> QED BY <1>1, <2>1
<1>12. u \in Nat
  <2>1. GotBy(h, p, t) \in Nat
    BY <1>3, <1>5
  <2> QED BY <1>1, <1>11, <2>1
<1>13. GotBy(h, p + 1, u) <= Sent(Peer(h))
  <2> DEFINE x == Got(h)
  <2>1. x \in Nat /\ Sent(Peer(h)) = x + 1 /\ GotBy(h, p + 1, u) = x + 1
    BY <1>3, <1>4, <1>5
  <2> HIDE DEF x
  <2> QED BY <2>1
<1>9. /\ Rounds'
      /\ Got(h)' = GotBy(h, p + 1, u) /\ Sent(h)' = SentBy(h, p + 1, u)
      /\ Got(Peer(h))' = Got(Peer(h)) /\ Sent(Peer(h))' = Sent(Peer(h))
  BY <1>3, <1>4, <1>6, <1>7, <1>8, <1>12, <1>13, NumbersMove DEF p
<1> QED BY <1>3, <1>4, <1>5, <1>9

(* The tokens of the two directions.                                       *)
LEMMA TokensBy ==
  ASSUME NEW h \in Hosts,
         Carries(Sent(h)', Got(Peer(h))', cmds'[h], tell'[Peer(h)], inbox'[Peer(h)]),
         Carries(Sent(Peer(h))', Got(h)', cmds'[Peer(h)], tell'[h], inbox'[h])
  PROVE  Tokens'
<1> DEFINE k == Peer(h)
<1>1. k \in Hosts /\ Peer(h) = k /\ Peer(k) = h /\ \A g \in Hosts : g = h \/ g = k
  BY Peers
<1>2. /\ Carries(Sent(h)', Got(k)', cmds'[h], tell'[k], inbox'[k])
      /\ Carries(Sent(k)', Got(h)', cmds'[k], tell'[h], inbox'[h])
  OBVIOUS
<1> HIDE DEF k
<1> QED BY <1>1, <1>2 DEF Tokens

(* What is on its way in the two directions.                               *)
LEMMA TokensOf ==
  ASSUME Tokens, NEW h \in Hosts
  PROVE  /\ Carries(Sent(h), Got(Peer(h)), cmds[h], tell[Peer(h)], inbox[Peer(h)])
         /\ Carries(Sent(Peer(h)), Got(h), cmds[Peer(h)], tell[h], inbox[h])
BY Peers DEF Tokens

(* A step of one program, or of its chip; the reset hands over what Calm   *)
(* asks for.                                                               *)
LEMMA CalmBy ==
  ASSUME Types, Calm, IInv', NEW h \in Hosts, NEW k \in Hosts, k = Peer(h),
         pc'[k] = pc[k], inbox'[k] = inbox[k], out'[k] = out[k], cmds'[k] = cmds[k],
         pc'[h] \in {pc[h], pc[h] + 1},
         Plain(out'[h], tell'[h]), Plain(out'[k], tell'[k]),
         pc[h] > ResetEnd => Answered(Awaiting(h)', inbox'[h], out'[h], cmds'[h])
  PROVE  Calm'
<1>1. \A g \in Hosts : g = h \/ g = k
  BY Peers
<1>2. \A g \in Hosts : Plain(out'[g], tell'[g])
  BY <1>1
<1>3. Awaiting(k)' = Awaiting(k)
  BY DEF Awaiting
<1>4. pc'[k] > ResetEnd => Answered(Awaiting(k)', inbox'[k], out'[k], cmds'[k])
  BY <1>3 DEF Calm
<1>5. ASSUME pc'[h] > ResetEnd PROVE Answered(Awaiting(h)', inbox'[h], out'[h], cmds'[h])
  <2>1. CASE pc[h] > ResetEnd
    BY <2>1
  <2>2. CASE ~(pc[h] > ResetEnd)
    <3>1. pc'[h] = 14
      <4>1. pc[h] \in Nat
        BY DEF Types
      <4> QED BY <1>5, <2>2, <4>1 DEF ResetEnd
    <3> DEFINE i == inbox'[h]
               o == out'[h]
               c == cmds'[h]
               w == Awaiting(h)'
    <3>2. Resetting(14, i \o o, c)
      <4>1. Resetting(pc'[h], inbox'[h] \o out'[h], cmds'[h])
        BY DEF IInv, Incoming
      <4> QED BY <3>1, <4>1
    <3>3. i \in Seq(Lines) /\ o \in Seq(Lines)
      BY DEF IInv, Types
    <3>4. w \in BOOLEAN
      BY DEF Awaiting
    <3> HIDE DEF i, o, c, w
    <3>5. Answered(w, i, o, c)
      BY <3>2, <3>3, <3>4, AnsweredReset
    <3> QED BY <3>5 DEF i, o, c, w
  <2> QED BY <2>1, <2>2
<1>6. \A g \in Hosts : pc'[g] > ResetEnd => Answered(Awaiting(g)', inbox'[g], out'[g], cmds'[g])
  BY <1>1, <1>4, <1>5
<1> QED BY <1>2, <1>6 DEF Calm

(* A write of a program: a command, or its next value.                     *)
LEMMA WriteTokens ==
  ASSUME TripInv, NEW h \in Hosts, Write(h)
  PROVE  Rounds' /\ Tokens'
<1> DEFINE k == Peer(h)
           e == IF At(h, {"puts"}) THEN Want(h) ELSE <<"data", trial[h]>>
           p == Program[h][pc[h]]
<1>1. Types /\ Rounds /\ Tokens
  BY DEF TripInv, IInv
<1>2. At(h, {"puts", "write"}) /\ Goto(h) /\ trial' = trial
  BY DEF Write
<1>3. p \in Steps /\ p.op \in {"puts", "write"}
  BY <1>1, <1>2, AtStep
<1>4. k \in Hosts /\ k # h
  BY Peers
<1>5. /\ cmds'[h] = Append(cmds[h], e) /\ cmds'[k] = cmds[k]
      /\ tell' = tell /\ inbox' = inbox
  BY <1>1, <1>4 DEF Write, Types
<1>6. cmds[h] \in Seq(Orders)
  BY <1>1 DEF Types
<1>7. /\ Carries(Sent(h), Got(k), cmds[h], tell[k], inbox[k])
      /\ Carries(Sent(k), Got(h), cmds[k], tell[h], inbox[h])
  BY <1>1, TokensOf
<1>8. At(h, {"puts"}) <=> p.op = "puts"
  BY <1>2 DEF At
<1>9. CASE p.op = "puts"
  <2>1. /\ Rounds'
        /\ \A g \in Hosts : Got(g)' = Got(g) /\ Sent(g)' = Sent(g)
    BY <1>1, <1>2, <1>9, NumbersOn
  <2>2. e \in Orders \ Datas
    <3>1. p.want \in Commands
      BY <1>3, <1>9 DEF Steps
    <3>2. e = p.want
      BY <1>8, <1>9 DEF Want
    <3> HIDE DEF e, p
    <3> QED BY <3>1, <3>2 DEF Commands, Orders, Datas
  <2> DEFINE n == Sent(h)
             g == Got(k)
             c == cmds[h]
             t == tell[k]
             i == inbox[k]
  <2>3. Carries(n, g, c, t, i) /\ c \in Seq(Orders)
    BY <1>6, <1>7
  <2> HIDE DEF e, n, g, c, t, i
  <2>4. Carries(n, g, Append(c, e), t, i)
    BY <2>2, <2>3, CarriesOrder
  <2>5. Carries(Sent(h)', Got(k)', cmds'[h], tell'[k], inbox'[k])
    BY <1>4, <1>5, <2>1, <2>4 DEF n, g, c, t, i
  <2>6. Carries(Sent(k)', Got(h)', cmds'[k], tell'[h], inbox'[h])
    BY <1>4, <1>5, <1>7, <2>1
  <2>7. Tokens'
    BY <2>5, <2>6, TokensBy
  <2> QED BY <2>1, <2>7
<1>10. CASE p.op = "write"
  <2>0. At(h, {"write"})
    BY <1>2, <1>10 DEF At
  <2>1. /\ Rounds'
        /\ Got(k) = trial[h] /\ Sent(h) = trial[h] /\ Sent(h)' = trial[h] + 1
        /\ Got(h)' = Got(h) /\ Got(k)' = Got(k) /\ Sent(k)' = Sent(k)
    BY <1>1, <1>2, <2>0, NumbersSend
  <2> DEFINE g == trial[h]
             c == cmds[h]
             t == tell[k]
             i == inbox[k]
  <2>2. e = <<"data", g>>
    BY <1>8, <1>10
  <2>3. Carries(g, g, c, t, i) /\ c \in Seq(Orders) /\ g \in Nat
    BY <1>1, <1>6, <1>7, <2>1 DEF Types
  <2> HIDE DEF e, g, c, t, i
  <2>4. Carries(g + 1, g, Append(c, <<"data", g>>), t, i)
    BY <2>3, CarriesMessage
  <2>5. Carries(Sent(h)', Got(k)', cmds'[h], tell'[k], inbox'[k])
    BY <1>4, <1>5, <2>1, <2>2, <2>4 DEF g, c, t, i
  <2>6. Carries(Sent(k)', Got(h)', cmds'[k], tell'[h], inbox'[h])
    BY <1>4, <1>5, <1>7, <2>1
  <2>7. Tokens'
    BY <2>5, <2>6, TokensBy
  <2> QED BY <2>1, <2>7
<1> QED BY <1>3, <1>9, <1>10

(* It waits for the reply at its next step.                                *)
LEMMA WriteCalm ==
  ASSUME TripInv, NEW h \in Hosts, Write(h), IInv'
  PROVE  Calm'
<1> DEFINE k == Peer(h)
           q == pc[h]
           u == trial[h]
           i == inbox[h]
           o == out[h]
           c == cmds[h]
           e == IF At(h, {"puts"}) THEN Want(h) ELSE <<"data", trial[h]>>
<1>1. Types /\ Rounds /\ Calm
  BY DEF TripInv, IInv
<1>2. At(h, {"puts", "write"}) /\ Goto(h)
  BY DEF Write
<1>3. /\ q \in 1 .. Len(Program[h]) /\ u \in Nat /\ InRound(h, q, u)
      /\ Program[h][q].op \in {"puts", "write"}
  BY <1>1, <1>2, InStep
<1>4. k \in Hosts /\ k # h
  BY Peers
<1>5. /\ cmds'[h] = Append(c, e) /\ cmds'[k] = cmds[k]
      /\ tell' = tell /\ inbox' = inbox /\ out' = out
      /\ pc'[h] = q + 1 /\ pc'[k] = pc[k]
  BY <1>1, <1>4 DEF Write, Types, Goto
<1>6. Plain(out'[h], tell'[h]) /\ Plain(out'[k], tell'[k])
  BY <1>1, <1>4, <1>5 DEF Calm
<1>7. q < Len(Program[h]) /\ Awaits(Program[h][q + 1])
  <2> HIDE DEF q, u
  <2> QED BY <1>3, Plays
<1>8. Awaiting(h)' = TRUE
  <2>1. Len(Program[h]) \in Nat
    BY RoundsAre
  <2>2. q + 1 <= Len(Program[h])
    BY <1>3, <1>7, <2>1
  <2> HIDE DEF q
  <2> QED BY <1>5, <1>7, <2>2 DEF Awaiting
<1>9. Awaiting(h) = FALSE
  BY <1>3 DEF Awaiting, Awaits
<1>10. ASSUME pc[h] > ResetEnd PROVE Answered(Awaiting(h)', inbox'[h], out'[h], cmds'[h])
  <2>1. Answered(FALSE, i, o, c)
    BY <1>1, <1>9, <1>10 DEF Calm
  <2> HIDE DEF i, o, c, e
  <2>2. Answered(TRUE, i, o, Append(c, e))
    BY <2>1, AnsweredWrite
  <2> QED BY <1>5, <1>8, <2>2 DEF i, o
<1>11. pc'[h] \in {pc[h], pc[h] + 1}
  BY <1>5
<1>12. inbox'[k] = inbox[k] /\ out'[k] = out[k]
  BY <1>5
<1> HIDE DEF i, o, c, e, q
<1> QED BY <1>1, <1>4, <1>5, <1>6, <1>10, <1>11, <1>12, CalmBy

(* A program passes over a line.                                           *)
LEMMA SkipTrips ==
  ASSUME TripInv, NEW h \in Hosts, IInv', inbox[h] # <<>>,
         inbox' = [inbox EXCEPT ![h] = Tail(@)], UNCHANGED <<pc, trial, cmds, out, tell>>
  PROVE  Calm' /\ Rounds' /\ Tokens'
<1> DEFINE k == Peer(h)
           n == Sent(k)
           g == Got(h)
           c == cmds[k]
           t == tell[h]
           i == inbox[h]
           w == Awaiting(h)
           o == out[h]
           d == cmds[h]
<1>1. Types /\ Rounds /\ Calm /\ Tokens
  BY DEF TripInv, IInv
<1>2. k \in Hosts /\ k # h /\ k = Peer(h)
  BY Peers
<1>3. /\ inbox'[h] = Tail(i) /\ inbox'[k] = inbox[k]
      /\ pc' = pc /\ trial' = trial /\ cmds' = cmds /\ out' = out /\ tell' = tell
  BY <1>1, <1>2 DEF Types
<1>4. /\ Rounds'
      /\ \A f \in Hosts : Got(f)' = Got(f) /\ Sent(f)' = Sent(f)
  BY <1>1, <1>3, NumbersStay
<1>5. n \in Nat /\ g \in Nat
  BY <1>1, <1>2, Turns
<1>6. /\ Carries(Sent(h), Got(k), cmds[h], tell[k], inbox[k])
      /\ Carries(n, g, c, t, i)
  BY <1>1, TokensOf
<1>7. i \in Seq(Lines) /\ i # <<>>
  BY <1>1 DEF Types
<1>8. Plain(out'[h], tell'[h]) /\ Plain(out'[k], tell'[k])
  BY <1>1, <1>2, <1>3 DEF Calm
<1>9. Awaiting(h)' = w
  BY <1>3 DEF Awaiting
<1>10. pc[h] > ResetEnd => Answered(w, i, o, d)
  BY <1>1 DEF Calm
<1> HIDE DEF n, g, c, t, i, w, o, d, k
<1>11. Carries(n, g, c, t, Tail(i))
  BY <1>5, <1>6, <1>7, CarriesRead
<1>12. Carries(Sent(k)', Got(h)', cmds'[k], tell'[h], inbox'[h])
  BY <1>2, <1>3, <1>4, <1>11 DEF n, g, c, t
<1>13. Carries(Sent(h)', Got(k)', cmds'[h], tell'[k], inbox'[k])
  BY <1>2, <1>3, <1>4, <1>6
<1>14. Tokens'
  BY <1>2, <1>12, <1>13, TokensBy
<1>15. ASSUME pc[h] > ResetEnd PROVE Answered(Awaiting(h)', inbox'[h], out'[h], cmds'[h])
  <2>1. Answered(w, Tail(i), o, d)
    BY <1>7, <1>10, <1>15, AnsweredSkip
  <2> QED BY <1>3, <1>9, <2>1 DEF o, d
<1>16. pc'[h] \in {pc[h], pc[h] + 1} /\ pc'[k] = pc[k] /\ out'[k] = out[k] /\ cmds'[k] = cmds[k]
  BY <1>3
<1>17. Calm'
  BY <1>1, <1>2, <1>3, <1>8, <1>15, <1>16, CalmBy
<1> QED BY <1>4, <1>14, <1>17

(* A program goes on from a step that neither writes nor reads.            *)
LEMMA OnTrips ==
  ASSUME TripInv, NEW h \in Hosts, IInv', At(h, {"drain", "active"}), Goto(h),
         UNCHANGED <<trial, inbox, cmds, out, tell>>
  PROVE  Calm' /\ Rounds' /\ Tokens'
<1> DEFINE k == Peer(h)
           i == inbox[h]
           w == Awaiting(h)'
           o == out[h]
           d == cmds[h]
<1>1. Types /\ Rounds /\ Calm /\ Tokens
  BY DEF TripInv, IInv
<1>2. k \in Hosts /\ k # h /\ k = Peer(h)
  BY Peers
<1>3. /\ inbox' = inbox /\ trial' = trial /\ cmds' = cmds /\ out' = out /\ tell' = tell
      /\ pc'[h] = pc[h] + 1 /\ pc'[k] = pc[k]
  BY <1>1, <1>2 DEF Types, Goto
<1>4. Program[h][pc[h]].op \in {"drain", "active"}
  BY DEF At
<1>5. /\ Rounds'
      /\ \A f \in Hosts : Got(f)' = Got(f) /\ Sent(f)' = Sent(f)
  BY <1>1, <1>3, <1>4, NumbersOn
<1>6. /\ Carries(Sent(h), Got(k), cmds[h], tell[k], inbox[k])
      /\ Carries(Sent(k), Got(h), cmds[k], tell[h], inbox[h])
  BY <1>1, TokensOf
<1>7. Awaiting(h) = FALSE
  BY <1>4 DEF Awaiting, Awaits
<1>8. Plain(out'[h], tell'[h]) /\ Plain(out'[k], tell'[k])
  BY <1>1, <1>2, <1>3 DEF Calm
<1>9. pc[h] > ResetEnd => Answered(FALSE, i, o, d)
  BY <1>1, <1>7 DEF Calm
<1>10. w \in BOOLEAN
  BY DEF Awaiting
<1> HIDE DEF i, w, o, d, k
<1>11. /\ Carries(Sent(h)', Got(k)', cmds'[h], tell'[k], inbox'[k])
       /\ Carries(Sent(k)', Got(h)', cmds'[k], tell'[h], inbox'[h])
  BY <1>2, <1>3, <1>5, <1>6
<1>12. Tokens'
  BY <1>2, <1>11, TokensBy
<1>13. ASSUME pc[h] > ResetEnd PROVE Answered(Awaiting(h)', inbox'[h], out'[h], cmds'[h])
  <2>1. Answered(w, i, o, d)
    BY <1>9, <1>10, <1>13, AnsweredOn
  <2> QED BY <1>3, <2>1 DEF w, i, o, d
<1>14. /\ pc'[h] \in {pc[h], pc[h] + 1} /\ inbox'[k] = inbox[k] /\ out'[k] = out[k]
       /\ cmds'[k] = cmds[k]
  BY <1>3
<1>15. Calm'
  BY <1>1, <1>2, <1>3, <1>8, <1>13, <1>14, CalmBy
<1> QED BY <1>5, <1>12, <1>15

(* A program reads the line it waits for: a message is the value that is   *)
(* due.                                                                    *)
LEMMA AcceptTokens ==
  ASSUME TripInv, NEW h \in Hosts, inbox[h] # <<>>, NEW ops, "write" \notin ops, At(h, ops),
         Accepts(h, Head(inbox[h])), inbox' = [inbox EXCEPT ![h] = Tail(@)], Goto(h),
         trial' = [trial EXCEPT ![h] = NewTrial(h, Head(inbox[h]))], UNCHANGED <<cmds, out, tell>>
  PROVE  Rounds' /\ Tokens'
<1> DEFINE k == Peer(h)
           n == Sent(k)
           g == Got(h)
           c == cmds[k]
           t == tell[h]
           i == inbox[h]
           x == Head(inbox[h])
<1>1. Types /\ Rounds /\ Tokens
  BY DEF TripInv, IInv
<1>2. k \in Hosts /\ k # h /\ k = Peer(h)
  BY Peers
<1>3. /\ inbox'[h] = Tail(i) /\ inbox'[k] = inbox[k]
      /\ cmds' = cmds /\ out' = out /\ tell' = tell
  BY <1>1, <1>2 DEF Types
<1>4. n \in Nat /\ g \in Nat
  BY <1>1, <1>2, Turns
<1>5. /\ Carries(Sent(h), Got(k), cmds[h], tell[k], inbox[k])
      /\ Carries(n, g, c, t, i)
  BY <1>1, TokensOf
<1>6. i \in Seq(Lines) /\ i # <<>> /\ x = Head(i)
  BY <1>1 DEF Types
<1>7. x \in Lines
  <2> HIDE DEF i, x
  <2> QED BY <1>6
<1> HIDE DEF n, g, c, t, i, k
<1>8. /\ Carries(n, g, c, t, Tail(i))
      /\ Head(i) \in Messages => /\ n # g /\ Head(i) = Data(g)
                                 /\ n = g + 1 => Carries(n, g + 1, c, t, Tail(i))
  BY <1>4, <1>5, <1>6, CarriesRead
<1>9. CASE ~At(h, {"recv"})
  <2>1. trial' = trial
    BY <1>1, <1>9 DEF NewTrial, Types
  <2>2. Program[h][pc[h]].op \notin {"write", "recv"}
    BY <1>9 DEF At
  <2>3. /\ Rounds'
        /\ \A f \in Hosts : Got(f)' = Got(f) /\ Sent(f)' = Sent(f)
    BY <1>1, <2>1, <2>2, NumbersOn
  <2>4. /\ Carries(Sent(h)', Got(k)', cmds'[h], tell'[k], inbox'[k])
        /\ Carries(Sent(k)', Got(h)', cmds'[k], tell'[h], inbox'[h])
    BY <1>2, <1>3, <1>5, <1>8, <2>3 DEF n, g, c, t
  <2>5. Tokens'
    BY <1>2, <2>4, TokensBy
  <2> QED BY <2>3, <2>5
<1>10. CASE At(h, {"recv"})
  <2>1. x[1] = "ipd"
    BY <1>10 DEF Accepts
  <2>2. x \in Messages
    <3> HIDE DEF x
    <3> QED BY <1>7, <2>1 DEF Lines, Messages
  <2>3. n # g /\ x = Data(g) /\ (n = g + 1 => Carries(n, g + 1, c, t, Tail(i)))
    BY <1>6, <1>8, <2>2
  <2>4. x[2] = g
    <3> HIDE DEF x
    <3> QED BY <2>3 DEF Data
  <2>5. trial' = [trial EXCEPT ![h] = IF h = "server" THEN @ + 1 ELSE Got(h)]
    <3>1. h = "client" \/ h = "server"
      BY DEF Hosts
    <3>2. NewTrial(h, x) = IF h = "server" THEN trial[h] + 1 ELSE g
      <4> HIDE DEF x
      <4> QED BY <1>10, <2>4, <3>1 DEF NewTrial
    <3> QED BY <3>2 DEF g
  <2>6. Sent(Peer(h)) # Got(h)
    BY <1>2, <2>3 DEF n, g
  <2>7. /\ Rounds'
        /\ Got(h)' = Got(h) + 1 /\ Sent(Peer(h)) = Got(h) + 1
        /\ Sent(h)' = Sent(h) /\ Got(Peer(h))' = Got(Peer(h)) /\ Sent(Peer(h))' = Sent(Peer(h))
    BY <1>1, <1>10, <2>5, <2>6, NumbersGet
  <2>8. /\ Carries(Sent(h)', Got(k)', cmds'[h], tell'[k], inbox'[k])
        /\ Carries(Sent(k)', Got(h)', cmds'[k], tell'[h], inbox'[h])
    BY <1>2, <1>3, <1>5, <2>3, <2>7 DEF n, g, c, t
  <2>9. Tokens'
    BY <1>2, <2>8, TokensBy
  <2> QED BY <2>7, <2>9
<1> QED BY <1>9, <1>10

(* It no longer waits for a reply.                                         *)
LEMMA AcceptCalm ==
  ASSUME TripInv, NEW h \in Hosts, inbox[h] # <<>>, IInv', Accepts(h, Head(inbox[h])),
         inbox' = [inbox EXCEPT ![h] = Tail(@)], Goto(h), UNCHANGED <<cmds, out, tell>>
  PROVE  Calm'
<1> DEFINE k == Peer(h)
           i == inbox[h]
           w == Awaiting(h)
           v == Awaiting(h)'
           o == out[h]
           d == cmds[h]
           x == Head(i)
<1>1. Types /\ Calm
  BY DEF TripInv, IInv
<1>2. k \in Hosts /\ k # h /\ k = Peer(h)
  BY Peers
<1>3. /\ inbox'[h] = Tail(i) /\ inbox'[k] = inbox[k]
      /\ cmds' = cmds /\ out' = out /\ tell' = tell
      /\ pc'[h] = pc[h] + 1 /\ pc'[k] = pc[k]
  BY <1>1, <1>2 DEF Types, Goto
<1>4. Plain(out'[h], tell'[h]) /\ Plain(out'[k], tell'[k])
  BY <1>1, <1>2, <1>3 DEF Calm
<1>5. i \in Seq(Lines) /\ i # <<>>
  BY <1>1 DEF Types
<1>6. w \in BOOLEAN /\ v \in BOOLEAN
  BY DEF Awaiting
<1>7. w => x \in Replies
  <2> SUFFICES ASSUME Awaiting(h) PROVE x \in Replies
    OBVIOUS
  <2>1. Program[h][pc[h]].op \in {"ack", "responsef"} /\ Program[h][pc[h]].want \in Replies
    BY DEF Awaiting, Awaits
  <2>2. ~At(h, {"recv"})
    BY <2>1 DEF At
  <2>3. x = Program[h][pc[h]].want
    BY <2>2 DEF Accepts, Want
  <2> HIDE DEF x
  <2> QED BY <2>1, <2>3
<1>8. pc[h] > ResetEnd => Answered(w, i, o, d)
  BY <1>1 DEF Calm
<1>9. w => Head(i) \in Replies
  BY <1>7
<1> HIDE DEF i, w, v, o, d, k, x
<1>10. ASSUME pc[h] > ResetEnd PROVE Answered(Awaiting(h)', inbox'[h], out'[h], cmds'[h])
  <2>1. Answered(v, Tail(i), o, d)
    BY <1>5, <1>6, <1>8, <1>9, <1>10, AnsweredRead
  <2> QED BY <1>3, <2>1 DEF v, o, d
<1>11. pc'[h] \in {pc[h], pc[h] + 1} /\ out'[k] = out[k] /\ cmds'[k] = cmds[k]
  BY <1>3
<1> QED BY <1>1, <1>2, <1>3, <1>4, <1>10, <1>11, CalmBy

(* Reading a line, whether it is the one waited for, one to be passed over *)
(* or the program's last.                                                  *)
LEMMA ReadTrips ==
  ASSUME TripInv, NEW h \in Hosts, Read(h), IInv'
  PROVE  Calm' /\ Rounds' /\ Tokens'
<1> DEFINE ops == {"ack", "read", "responsef", "echo_until", "prompt", "recv"}
<1>1. /\ inbox[h] # <<>> /\ inbox' = [inbox EXCEPT ![h] = Tail(@)] /\ At(h, ops)
      /\ cmds' = cmds /\ out' = out /\ tell' = tell
  BY DEF Read
<1>2. \/ /\ Accepts(h, Head(inbox[h])) /\ Goto(h)
         /\ trial' = [trial EXCEPT ![h] = NewTrial(h, Head(inbox[h]))]
      \/ pc' = pc /\ trial' = trial
  BY DEF Read
<1>3. "write" \notin ops
  OBVIOUS
<1> HIDE DEF ops
<1>4. CASE pc' = pc /\ trial' = trial
  BY <1>1, <1>4, SkipTrips
<1>5. CASE /\ Accepts(h, Head(inbox[h])) /\ Goto(h)
           /\ trial' = [trial EXCEPT ![h] = NewTrial(h, Head(inbox[h]))]
  <2>1. Rounds' /\ Tokens'
    BY <1>1, <1>3, <1>5, AcceptTokens
  <2>2. Calm'
    BY <1>1, <1>5, AcceptCalm
  <2> QED BY <2>1, <2>2
<1> QED BY <1>2, <1>4, <1>5

(* Draining passes over a line or goes on.                                 *)
LEMMA DrainTrips ==
  ASSUME TripInv, NEW h \in Hosts, Drain(h), IInv'
  PROVE  Calm' /\ Rounds' /\ Tokens'
<1>1. CASE inbox[h] = <<>>
  <2>1. /\ At(h, {"drain", "active"}) /\ Goto(h)
        /\ UNCHANGED <<trial, inbox, cmds, out, tell>>
    BY <1>1 DEF Drain, At
  <2> QED BY <2>1, OnTrips
<1>2. CASE inbox[h] # <<>>
  <2>1. inbox' = [inbox EXCEPT ![h] = Tail(@)] /\ UNCHANGED <<pc, trial, cmds, out, tell>>
    BY <1>2 DEF Drain
  <2> QED BY <1>2, <2>1, SkipTrips
<1> QED BY <1>1, <1>2

(* So does the program that marks its connection as up.                    *)
LEMMA ActivateTrips ==
  ASSUME TripInv, NEW h \in Hosts, Activate(h), IInv'
  PROVE  Calm' /\ Rounds' /\ Tokens'
<1>1. /\ At(h, {"drain", "active"}) /\ Goto(h)
      /\ UNCHANGED <<trial, inbox, cmds, out, tell>>
  BY DEF Activate, At
<1> QED BY <1>1, OnTrips

(* What is told and is no message; a message.                              *)
LEMMA Told ==
  /\ \A x \in {Connect, SendOk, Line("0,CLOSED"), Busy} :
       x \notin Messages /\ x \notin Replies
  /\ \A v : Data(v) \notin Replies
  /\ \A x \in Lines : x[1] = "ipd" <=> x \in Messages
  /\ \A c \in Orders : c[1] = "data" <=> c \in Datas
<1>1. \A x \in {Connect, SendOk, Line("0,CLOSED"), Busy} :
        x \notin Messages /\ x \notin Replies
  <2>1. \A t : Line(t) \notin Messages /\ (t # "Recv" => Line(t) \notin Replies)
    BY DEF Line, Messages, Replies
  <2> QED BY <2>1 DEF Connect, SendOk, Busy
<1>2. \A
 v : Data(v) \notin Replies
  BY DEF Data, Replies, Line
<1>3. \A x \in Lines : x[1] = "ipd" <=> x \in Messages
  BY DEF Lines, Messages
<1>4. \A c \in Orders : c[1] = "data" <=> c \in Datas
  BY DEF Orders, Commands, Datas
<1> QED BY <1>1, <1>2, <1>3, <1>4

(* The chip takes up an order: what it tells the other chip, and answers.  *)
LEMMA ProcessTells ==
  ASSUME Types, Calm, NEW h \in Hosts, Process(h)
  PROVE  LET c == Head(cmds[h]) IN
         /\ tell'[Peer(h)] \cap Messages \subseteq
              (tell[Peer(h)] \cap Messages) \cup (IF c \in Datas THEN {Data(c[2])} ELSE {})
         /\ tell'[h] \cap Messages \subseteq tell[h] \cap Messages
         /\ tell'[h] \cap Replies = {} /\ tell'[Peer(h)] \cap Replies = {}
<1> DEFINE c == Head(cmds[h])
           k == Peer(h)
           x == Data(c[2])
<1>1. c \in Orders
  BY DEF Types, Process
<1>2. tell' = IF Connects(h, c) THEN [tell EXCEPT !["server"] = @ \cup {Connect}]
              ELSE IF c[1] = "data" /\ "closed" \notin faults
                   THEN [tell EXCEPT ![k] = @ \cup {x}]
              ELSE tell
  BY DEF Process
<1>3. k \in Hosts /\ k # h
  BY Peers
<1>4. c[1] = "data" <=> c \in Datas
  BY <1>1, Told
<1>5. x \notin Replies
  BY Told
<1>6. Connect \notin Messages /\ Connect \notin Replies
  BY Told
<1>7. tell \in [Hosts -> SUBSET Lines]
  BY DEF Types
<1>8. tell[h] \cap Replies = {} /\ tell[k] \cap Replies = {}
  BY <1>3 DEF Calm, Plain
<1> HIDE DEF c, k, x, Connect, Messages, Replies
<1>9. CASE Connects(h, c)
  <2>1. /\ tell'[h] \subseteq tell[h] \cup {Connect}
        /\ tell'[k] \subseteq tell[k] \cup {Connect}
    BY <1>2, <1>3, <1>7, <1>9
  <2> QED BY <1>6, <1>8, <2>1 DEF c, k, x
<1>10. CASE ~Connects(h, c) /\ c[1] = "data" /\ "closed" \notin faults
  <2>1. tell'[h] = tell[h] /\ tell'[k] = tell[k] \cup {x}
    BY <1>2, <1>3, <1>7, <1>10
  <2>2. c \in Datas
    BY <1>4, <1>10
  <2> QED BY <1>5, <1>8, <2>1, <2>2 DEF c, k, x
<1>11. CASE ~Connects(h, c) /\ ~(c[1] = "data" /\ "closed" \notin faults)
  <2>1. tell' = tell
    BY <1>2, <1>11
  <2> QED BY <1>8, <2>1 DEF c, k, x
<1> QED BY <1>9, <1>10, <1>11

(* The chip takes up an order.                                             *)
LEMMA ProcessTrips ==
  ASSUME TripInv, NEW h \in Hosts, Process(h), IInv'
  PROVE  Calm' /\ Rounds' /\ Tokens'
<1> DEFINE k == Peer(h)
           e == Head(cmds[h])
           a == Answer(e)
           i == inbox[h]
           w == Awaiting(h)
           d == cmds[h]
<1>1. Types /\ Rounds /\ Calm /\ Tokens
  BY DEF TripInv, IInv
<1>2. k \in Hosts /\ k # h /\ k = Peer(h)
  BY Peers
<1>3. /\ out[h] = <<>> /\ d # <<>> /\ e = Head(d)
      /\ out'[h] = a /\ out'[k] = out[k] /\ cmds'[h] = Tail(d) /\ cmds'[k] = cmds[k]
      /\ pc' = pc /\ trial' = trial /\ inbox' = inbox
  BY <1>1, <1>2 DEF Types, Process, host
<1>4. /\ Rounds'
      /\ \A f \in Hosts : Got(f)' = Got(f) /\ Sent(f)' = Sent(f)
  BY <1>1, <1>3, NumbersStay
<1>5. e \in Orders /\ d \in Seq(Orders)
  BY <1>1 DEF Types, Process
<1>6. Answers(e, a)
  BY <1>5, OrderAnswered
<1>7. /\ tell'[k] \cap Messages \subseteq
           (tell[k] \cap Messages) \cup (IF Head(d) \in Datas THEN {Data(Head(d)[2])} ELSE {})
      /\ tell'[h] \cap Messages \subseteq tell[h] \cap Messages
      /\ tell'[h] \cap Replies = {} /\ tell'[k] \cap Replies = {}
  BY <1>1, ProcessTells
<1>8. /\ Carries(Sent(h), Got(k), cmds[h], tell[k], inbox[k])
      /\ Carries(Sent(k), Got(h), cmds[k], tell[h], inbox[h])
  BY <1>1, TokensOf
<1>9. w \in BOOLEAN /\ Awaiting(h)' = w
  BY <1>3 DEF Awaiting
<1>10. pc[h] > ResetEnd => Answered(w, i, <<>>, d)
  BY <1>1, <1>3 DEF Calm
<1>11. Plain(out[k], tell[k])
  BY <1>1, <1>2 DEF Calm
<1> DEFINE n == Sent(h)
           g == Got(k)
           t == tell[k]
           j == inbox[k]
           u == tell'[k]
<1>12. Carries(n, g, d, t, j)
  BY <1>8
<1>13. u \cap Messages \subseteq
           (t \cap Messages) \cup (IF Head(d) \in Datas THEN {Data(Head(d)[2])} ELSE {})
  BY <1>7
<1> HIDE DEF n, g, t, j, u, k, e, a, i, w, d
<1>14. Carries(n, g, Tail(d), u, j)
  BY <1>3, <1>5, <1>12, <1>13, CarriesTakenUp
<1>15. Carries(Sent(h)', Got(k)', cmds'[h], tell'[k], inbox'[k])
  BY <1>2, <1>3, <1>4, <1>14 DEF n, g, j, u
<1>16. Carries(Sent(k), Got(h), cmds[k], tell'[h], inbox[h])
  <2> DEFINE n2 == Sent(k)
             g2 == Got(h)
             c2 == cmds[k]
             t2 == tell[h]
             i2 == inbox[h]
             u2 == tell'[h]
  <2>1. Carries(n2, g2, c2, t2, i2) /\ u2 \cap Messages \subseteq t2 \cap Messages
    BY <1>7, <1>8
  <2> HIDE DEF n2, g2, c2, t2, i2, u2
  <2>2. Carries(n2, g2, c2, u2, i2)
    BY <2>1, CarriesTold
  <2> QED BY <2>2 DEF n2, g2, c2, i2, u2
<1>17. Tokens'
  <2>1. Carries(Sent(k)', Got(h)', cmds'[k], tell'[h], inbox'[h])
    BY <1>2, <1>3, <1>4, <1>16
  <2> QED BY <1>2, <1>15, <2>1, TokensBy
<1>18. Plain(out'[h], tell'[h]) /\ Plain(out'[k], tell'[k])
  BY <1>3, <1>6, <1>7, <1>11 DEF Plain, Answers
<1>19. ASSUME pc[h] > ResetEnd PROVE Answered(Awaiting(h)', inbox'[h], out'[h], cmds'[h])
  <2>1. a \in Seq(Lines) /\ \A x \in 2 .. Len(a) : a[x] \notin Replies
    BY <1>6 DEF Answers
  <2>2. Answered(w, i, a, Tail(d))
    BY <1>3, <1>5, <1>9, <1>10, <1>19, <2>1, AnsweredTakenUp
  <2> QED BY <1>3, <1>9, <2>2 DEF i
<1>20. pc'[h] \in {pc[h], pc[h] + 1} /\ pc'[k] = pc[k] /\ inbox'[k] = inbox[k]
  BY <1>3
<1>21. Calm'
  BY <1>1, <1>2, <1>3, <1>18, <1>19, <1>20, CalmBy
<1> QED BY <1>4, <1>17, <1>21

(* A line of an answer comes out of the chip.                              *)
LEMMA EmitTrips ==
  ASSUME TripInv, NEW h \in Hosts, Emit(h), IInv'
  PROVE  Calm' /\ Rounds' /\ Tokens'
<1> DEFINE k == Peer(h)
           i == inbox[h]
           o == out[h]
           e == Head(o)
           d == cmds[h]
           w == Awaiting(h)
           n == Sent(k)
           g == Got(h)
           c == cmds[k]
           t == tell[h]
<1>1. Types /\ Rounds /\ Calm /\ Tokens
  BY DEF TripInv, IInv
<1>2. k \in Hosts /\ k # h /\ k = Peer(h)
  BY Peers
<1>3. /\ o # <<>> /\ e = Head(o) /\ o \in Seq(Lines) /\ i \in Seq(Lines)
      /\ inbox'[h] = Append(i, e) /\ inbox'[k] = inbox[k]
      /\ out'[h] = Tail(o) /\ out'[k] = out[k]
      /\ pc' = pc /\ trial' = trial /\ cmds' = cmds /\ tell' = tell
  BY <1>1, <1>2 DEF Types, Emit, host
<1>4. /\ Rounds'
      /\ \A f \in Hosts : Got(f)' = Got(f) /\ Sent(f)' = Sent(f)
  BY <1>1, <1>3, NumbersStay
<1>5. /\ Carries(Sent(h), Got(k), cmds[h], tell[k], inbox[k])
      /\ Carries(n, g, c, t, i)
  BY <1>1, TokensOf
<1>6. Awaiting(h)' = w
  BY <1>3 DEF Awaiting
<1>7. pc[h] > ResetEnd => Answered(w, i, o, d)
  BY <1>1 DEF Calm
<1>8. Plain(o, t) /\ Plain(out[k], tell[k])
  BY <1>1, <1>2 DEF Calm
<1> HIDE DEF k, i, o, e, d, w, n, g, c, t
<1>9. /\ Tail(o) \in Seq(Lines) /\ e \in Lines /\ e \notin Messages /\ None(Tail(o), Messages)
      /\ Len(Tail(o)) = Len(o) - 1
  BY <1>3, <1>8, QueueTail DEF Plain
<1>10. t \cap Messages \subseteq t
  OBVIOUS
<1>11. Carries(n, g, c, t, Append(i, e))
  BY <1>3, <1>5, <1>9, <1>10, CarriesLine
<1>12. Tokens'
  <2>1. Carries(Sent(k)', Got(h)', cmds'[k], tell'[h], inbox'[h])
    BY <1>2, <1>3, <1>4, <1>11 DEF n, g, c, t
  <2>2. Carries(Sent(h)', Got(k)', cmds'[h], tell'[k], inbox'[k])
    BY <1>2, <1>3, <1>4, <1>5
  <2> QED BY <1>2, <2>1, <2>2, TokensBy
<1>13. Plain(out'[h], tell'[h]) /\ Plain(out'[k], tell'[k])
  <2>1. Plain(Tail(o), t)
    <3>1. Len(o) \in Nat /\ Len(o) <= 4
      BY <1>3, <1>8 DEF Plain
    <3>2. Len(Tail(o)) <= 4
      BY <1>9, <3>1
    <3> QED BY <1>8, <1>9, <3>2 DEF Plain
  <2> QED BY <1>3, <1>8, <2>1 DEF t
<1>14. ASSUME pc[h] > ResetEnd PROVE Answered(Awaiting(h)', inbox'[h], out'[h], cmds'[h])
  <2>1. Answered(w, Append(i, Head(o)), Tail(o), d)
    BY <1>3, <1>7, <1>14, AnsweredEmit
  <2> QED BY <1>3, <1>6, <2>1 DEF d
<1>15. pc'[h] \in {pc[h], pc[h] + 1} /\ pc'[k] = pc[k] /\ cmds'[k] = cmds[k]
  BY <1>3
<1>16. Calm'
  BY <1>1, <1>2, <1>3, <1>13, <1>14, <1>15, CalmBy
<1> QED BY <1>4, <1>12, <1>16

(* A line comes in that is no part of an answer: a message told, or one    *)
(* that is no message.                                                     *)
LEMMA LineTrips ==
  ASSUME TripInv, NEW h \in Hosts, IInv', NEW e \in Lines \ Replies,
         inbox' = [inbox EXCEPT ![h] = Append(@, e)], UNCHANGED <<pc, trial, cmds, out>>,
         IF e \in Messages THEN e \in tell[h] /\ tell'[h] \cap Messages \subseteq tell[h] \ {e}
         ELSE tell'[h] \cap Messages \subseteq tell[h],
         tell'[Peer(h)] \cap Messages \subseteq tell[Peer(h)] \cap Messages,
         tell'[h] \cap Replies = {}, tell'[Peer(h)] \cap Replies = {}
  PROVE  Calm' /\ Rounds' /\ Tokens'
<1> DEFINE k == Peer(h)
           i == inbox[h]
           o == out[h]
           d == cmds[h]
           w == Awaiting(h)
           n == Sent(k)
           g == Got(h)
           c == cmds[k]
           t == tell[h]
           u == tell'[h]
           n2 == Sent(h)
           g2 == Got(k)
           t2 == tell[k]
           u2 == tell'[k]
           i2 == inbox[k]
<1>1. Types /\ Rounds /\ Calm /\ Tokens
  BY DEF TripInv, IInv
<1>2. k \in Hosts /\ k # h /\ k = Peer(h)
  BY Peers
<1>3. /\ i \in Seq(Lines) /\ e \in Lines
      /\ inbox'[h] = Append(i, e) /\ inbox'[k] = inbox[k]
      /\ pc' = pc /\ trial' = trial /\ cmds' = cmds /\ out' = out
  BY <1>1, <1>2 DEF Types
<1>4. /\ Rounds'
      /\ \A f \in Hosts : Got(f)' = Got(f) /\ Sent(f)' = Sent(f)
  BY <1>1, <1>3, NumbersStay
<1>5. Carries(n2, g2, d, t2, i2) /\ Carries(n, g, c, t, i)
  BY <1>1, TokensOf
<1>6. Awaiting(h)' = w
  BY <1>3 DEF Awaiting
<1>7. pc[h] > ResetEnd => Answered(w, i, o, d)
  BY <1>1 DEF Calm
<1>8. Plain(o, t) /\ Plain(out[k], tell[k])
  BY <1>1, <1>2 DEF Calm
<1>9. /\ IF e \in Messages THEN e \in t /\ u \cap Messages \subseteq t \ {e}
         ELSE u \cap Messages \subseteq t
      /\ u2 \cap Messages \subseteq t2 \cap Messages
      /\ u \cap Replies = {} /\ u2 \cap Replies = {}
  OBVIOUS
<1> HIDE DEF k, i, o, d, w, n, g, c, t, u, n2, g2, t2, u2, i2
<1>10. Carries(n, g, c, u, Append(i, e))
  BY <1>3, <1>5, <1>9, CarriesLine
<1>11. Carries(n2, g2, d, u2, i2)
  BY <1>5, <1>9, CarriesTold
<1>12. Tokens'
  <2>1. Carries(Sent(k)', Got(h)', cmds'[k], tell'[h], inbox'[h])
    BY <1>2, <1>3, <1>4, <1>10 DEF n, g, c, u
  <2>2. Carries(Sent(h)', Got(k)', cmds'[h], tell'[k], inbox'[k])
    BY <1>2, <1>3, <1>4, <1>11 DEF n2, g2, d, u2, i2
  <2> QED BY <1>2, <2>1, <2>2, TokensBy
<1>13. Plain(out'[h], tell'[h]) /\ Plain(out'[k], tell'[k])
  BY <1>3, <1>8, <1>9 DEF Plain, u, u2, o
<1>14. ASSUME pc[h] > ResetEnd PROVE Answered(Awaiting(h)', inbox'[h], out'[h], cmds'[h])
  <2>1. Answered(w, Append(i, e), o, d)
    BY <1>3, <1>7, <1>14, AnsweredLine
  <2> QED BY <1>3, <1>6, <2>1 DEF d, o
<1>15. /\ pc'[h] \in {pc[h], pc[h] + 1} /\ pc'[k] = pc[k] /\ cmds'[k] = cmds[k]
       /\ out'[k] = out[k]
  BY <1>3
<1>16. Calm'
  BY <1>1, <1>2, <1>3, <1>13, <1>14, <1>15, CalmBy
<1> QED BY <1>4, <1>12, <1>16

(* The chip says that it is busy.                                          *)
LEMMA SayBusyTrips ==
  ASSUME TripInv, NEW h \in Hosts, SayBusy(h), IInv'
  PROVE  Calm' /\ Rounds' /\ Tokens' /\ busy' \in 0 .. MaxBusy
<1>1. Calm /\ Peer(h) \in Hosts /\ busy \in 0 .. MaxBusy
  BY Peers DEF TripInv
<1>2. Busy \in Lines /\ Busy \notin Replies /\ Busy \notin Messages
  BY NamedLines, Told
<1>3. tell[h] \cap Replies = {} /\ tell[Peer(h)] \cap Replies = {}
  BY <1>1 DEF Calm, Plain
<1>4. /\ inbox' = [inbox EXCEPT ![h] = Append(@, Busy)] /\ UNCHANGED <<pc, trial, cmds, out>>
      /\ tell' = tell
  BY DEF SayBusy, host
<1>5. busy' \in 0 .. MaxBusy
  BY <1>1, MaxBusyAssumption DEF SayBusy
<1> HIDE DEF Busy
<1>6. tell'[h] \cap Messages \subseteq tell[h]
  BY <1>4
<1>7. tell'[Peer(h)] \cap Messages \subseteq tell[Peer(h)] \cap Messages
  BY <1>4
<1>8. tell'[h] \cap Replies = {} /\ tell'[Peer(h)] \cap Replies = {}
  BY <1>3, <1>4
<1>9. Busy \in Lines \ Replies
  BY <1>2
<1>10. Calm' /\ Rounds' /\ Tokens'
  BY <1>2, <1>4, <1>6, <1>7, <1>8, <1>9, LineTrips
<1> QED BY <1>5, <1>10

(* What has come over the network is passed on.                            *)
LEMMA TellTrips ==
  ASSUME TripInv, NEW h \in Hosts, Tell(h), IInv'
  PROVE  Calm' /\ Rounds' /\ Tokens'
<1> DEFINE k == Peer(h)
<1>1. Types /\ Calm /\ k \in Hosts /\ k # h
  BY Peers DEF TripInv, IInv
<1>2. PICK x \in tell[h] :
        /\ inbox' = [inbox EXCEPT ![h] = Append(@, x)]
        /\ tell' = IF x[1] = "ipd"
                   THEN [tell EXCEPT ![h] = @ \ {x}, ![k] = @ \cup {SendOk}]
                   ELSE [tell EXCEPT ![h] = @ \ {x}]
        /\ UNCHANGED <<host, cmds, out, listening, patient, busy>>
  BY DEF Tell
<1>3. tell \in [Hosts -> SUBSET Lines]
  BY <1>1 DEF Types
<1>4. tell[h] \cap Replies = {} /\ tell[k] \cap Replies = {}
  BY <1>1 DEF Calm, Plain
<1>5. x \in Lines /\ x \notin Replies
  BY <1>3, <1>4
<1>6. SendOk \notin Messages /\ SendOk \notin Replies
  BY Told
<1>7. x[1] = "ipd" <=> x \in Messages
  BY <1>5, Told
<1> HIDE DEF SendOk
<1>8. /\ tell'[h] = tell[h] \ {x}
      /\ tell'[k] \subseteq tell[k] \cup {SendOk}
  BY <1>1, <1>2, <1>3
<1>9. UNCHANGED <<pc, trial, cmds, out>>
  BY <1>2 DEF host
<1>10. IF x \in Messages THEN x \in tell[h] /\ tell'[h] \cap Messages \subseteq tell[h] \ {x}
       ELSE tell'[h] \cap Messages \subseteq tell[h]
  BY <1>8
<1>11. tell'[k] \cap Messages \subseteq tell[k] \cap Messages
  BY <1>6, <1>8
<1>12. tell'[h] \cap Replies = {} /\ tell'[k] \cap Replies = {}
  BY <1>4, <1>6, <1>8
<1>13. x \in Lines \ Replies
  BY <1>5
<1> QED BY <1>2, <1>9, <1>10, <1>11, <1>12, <1>13, LineTrips

(* The connection breaks.                                                  *)
LEMMA CloseTrips ==
  ASSUME TripInv, Close, IInv'
  PROVE  Calm' /\ Rounds' /\ Tokens'
<1> DEFINE x == Line("0,CLOSED")
<1>1. Types /\ Rounds /\ Calm /\ Tokens
  BY DEF TripInv, IInv
<1>2. /\ tell' = [h \in Hosts |-> tell[h] \cup {x}]
      /\ pc' = pc /\ trial' = trial /\ inbox' = inbox /\ cmds' = cmds /\ out' = out
  BY DEF Close, host
<1>3. x \notin Messages /\ x \notin Replies
  BY Told
<1>4. /\ Rounds'
      /\ \A f \in Hosts : Got(f)' = Got(f) /\ Sent(f)' = Sent(f)
  BY <1>1, <1>2, NumbersStay
<1> HIDE DEF x
<1>5. \A h \in Hosts : /\ tell'[h] \cap Messages \subseteq tell[h] \cap Messages
                       /\ tell'[h] \cap Replies \subseteq tell[h] \cap Replies
  BY <1>2, <1>3
<1>6. ASSUME NEW h \in Hosts
      PROVE  Carries(Sent(h)', Got(Peer(h))', cmds'[h], tell'[Peer(h)], inbox'[Peer(h)])
  <2> DEFINE k == Peer(h)
             n == Sent(h)
             g == Got(k)
             c == cmds[h]
             t == tell[k]
             i == inbox[k]
             u == tell'[k]
  <2>1. k \in Hosts
    BY Peers
  <2>2. Carries(n, g, c, t, i) /\ u \cap Messages \subseteq t \cap Messages
    BY <1>1, <1>5, <2>1 DEF Tokens
  <2> HIDE DEF n, g, c, t, i, u, k
  <2>3. Carries(n, g, c, u, i)
    BY <2>2, CarriesTold
  <2> QED BY <1>2, <1>4, <2>1, <2>3 DEF n, g, c, u, i, k
<1>7. Tokens'
  BY <1>6 DEF Tokens
<1>8. \A h \in Hosts : Plain(out'[h], tell'[h])
  <2>1. \A h \in Hosts : Plain(out[h], tell[h])
    BY <1>1 DEF Calm
  <2> QED BY <1>2, <1>5, <2>1 DEF Plain
<1>9. \A h \in Hosts : Awaiting(h)' = Awaiting(h)
  BY <1>2 DEF Awaiting
<1>10. Calm'
  BY <1>1, <1>2, <1>8, <1>9 DEF Calm
<1> QED BY <1>4, <1>7, <1>10

(* Output of an earlier session holds no message.                          *)
LEMMA StalePlain ==
  ASSUME NEW s \in Stale
  PROVE  Len(s) <= 4 /\ None(s, Messages)
<1> DEFINE e == Echo("RST")
           l == Line("OK")
<1>1. s = <<>> \/ s = <<Junk>> \/ s = <<e, l, Ready>>
  BY DEF Stale
<1>2. Junk \notin Messages /\ Ready \notin Messages /\ e \notin Messages /\ l \notin Messages
  BY DEF Junk, Ready, Line, Echo, Messages
<1> HIDE DEF e, l
<1>3. CASE s = <<>>
  BY <1>3 DEF None
<1>4. CASE s = <<Junk>>
  BY <1>2, <1>4 DEF None
<1>5. CASE s = <<e, l, Ready>>
  BY <1>2, <1>5 DEF None
<1> QED BY <1>1, <1>3, <1>4, <1>5

(* At first nothing has been sent.                                         *)
LEMMA InitTrips == Init => TripInv
<1> SUFFICES ASSUME Init PROVE TripInv
  OBVIOUS
<1>1. IInv
  BY InitSession
<1>2. busy \in 0 .. MaxBusy
  BY MaxBusyAssumption DEF Init
<1>3. ASSUME NEW h \in Hosts
      PROVE  /\ pc[h] = 1 /\ trial[h] = 0 /\ inbox[h] = <<>> /\ cmds[h] = <<>> /\ tell[h] = {}
             /\ out[h] \in Stale
  BY DEF Init
<1>4. Calm
  <2>1. ASSUME NEW h \in Hosts PROVE Plain(out[h], tell[h])
    <3>1. Len(out[h]) <= 4 /\ None(out[h], Messages)
      BY <1>3, StalePlain
    <3> QED BY <1>3, <3>1 DEF Plain
  <2>2. \A h \in Hosts : ~(pc[h] > ResetEnd)
    BY <1>3 DEF ResetEnd
  <2> QED BY <2>1, <2>2 DEF Calm
<1>5. ASSUME NEW h \in Hosts
      PROVE  /\ pc[h] <= Len(Program[h]) + 1 /\ InRound(h, pc[h], trial[h])
             /\ Got(h) = 0 /\ Sent(h) = 0
  <2>1. Len(Program[h]) \in Nat
    BY RoundsAre
  <2>2. 1 <= Len(Program[h]) + 1
    BY <2>1
  <2>3. ~(1 > RoundsFrom(h)) /\ 1 <= RoundsFrom(h)
    BY DEF RoundsFrom, ServerHead, ClientHead
  <2> QED BY <1>3, <2>2, <2>3 DEF InRound, Got, GotBy, Sent, SentBy
<1>6. Rounds
  <2>1. \A h \in Hosts : Got(h) <= Sent(Peer(h))
    BY <1>5, Peers
  <2> QED BY <1>5, <2>1 DEF Rounds
<1>7. Tokens
  <2>1. Nothing(<<>>, {}, <<>>)
    BY DEF Nothing, None
  <2>2. ASSUME NEW h \in Hosts
        PROVE  Carries(Sent(h), Got(Peer(h)), cmds[h], tell[Peer(h)], inbox[Peer(h)])
    <3>1. /\ Sent(h) = 0 /\ Got(Peer(h)) = 0 /\ cmds[h] = <<>> /\ tell[Peer(h)] = {}
          /\ inbox[Peer(h)] = <<>>
      BY <1>3, <1>5, Peers
    <3> QED BY <2>1, <3>1 DEF Carries
  <2> QED BY <2>2 DEF Tokens
<1> QED BY <1>1, <1>2, <1>4, <1>6, <1>7 DEF TripInv

(* Every step keeps the round trips in turn.                               *)
LEMMA NextTrips == TripInv /\ [Next]_vars => TripInv'
<1> SUFFICES ASSUME TripInv, [Next]_vars PROVE TripInv'
  OBVIOUS
<1>0. IInv' /\ busy \in 0 .. MaxBusy
  BY NextSession DEF TripInv
<1>1. ASSUME NEW h \in Hosts, Write(h) PROVE TripInv'
  <2>1. Calm' /\ Rounds' /\ Tokens'
    BY <1>0, <1>1, WriteCalm, WriteTokens
  <2> QED BY <1>0, <1>1, <2>1 DEF TripInv, Write
<1>2. ASSUME NEW h \in Hosts, Drain(h) PROVE TripInv'
  <2>1. Calm' /\ Rounds' /\ Tokens'
    BY <1>0, <1>2, DrainTrips
  <2> QED BY <1>0, <1>2, <2>1 DEF TripInv, Drain
<1>3. ASSUME NEW h \in Hosts, Activate(h) PROVE TripInv'
  <2>1. Calm' /\ Rounds' /\ Tokens'
    BY <1>0, <1>3, ActivateTrips
  <2> QED BY <1>0, <1>3, <2>1 DEF TripInv, Activate
<1>4. ASSUME NEW h \in Hosts, Read(h) PROVE TripInv'
  <2>1. Calm' /\ Rounds' /\ Tokens'
    BY <1>0, <1>4, ReadTrips
  <2> QED BY <1>0, <1>4, <2>1 DEF TripInv, Read
<1>5. ASSUME NEW h \in Hosts, Process(h) PROVE TripInv'
  <2>1. Calm' /\ Rounds' /\ Tokens'
    BY <1>0, <1>5, ProcessTrips
  <2> QED BY <1>0, <1>5, <2>1 DEF TripInv, Process
<1>6. ASSUME NEW h \in Hosts, Emit(h) PROVE TripInv'
  <2>1. Calm' /\ Rounds' /\ Tokens'
    BY <1>0, <1>6, EmitTrips
  <2> QED BY <1>0, <1>6, <2>1 DEF TripInv, Emit
<1>7. ASSUME NEW h \in Hosts, Tell(h) PROVE TripInv'
  <2>1. Calm' /\ Rounds' /\ Tokens'
    BY <1>0, <1>7, TellTrips
  <2> QED BY <1>0, <1>7, <2>1 DEF TripInv, Tell
<1>8. ASSUME NEW h \in Hosts, SayBusy(h) PROVE TripInv'
  <2>1. Calm' /\ Rounds' /\ Tokens' /\ busy' \in 0 .. MaxBusy
    BY <1>0, <1>8, SayBusyTrips
  <2> QED BY <1>0, <2>1 DEF TripInv
<1>9. CASE Close
  <2>1. Calm' /\ Rounds' /\ Tokens'
    BY <1>0, <1>9, CloseTrips
  <2> QED BY <1>0, <1>9, <2>1 DEF TripInv, Close
<1>10. CASE UNCHANGED vars
  <2>1. UNCHANGED <<pc, trial, inbox, cmds, out, tell, busy>>
    BY <1>10 DEF vars, host
  <2>2. Calm /\ Rounds /\ Tokens
    BY DEF TripInv
  <2>3. /\ Rounds'
        /\ \A h \in Hosts : Got(h)' = Got(h) /\ Sent(h)' = Sent(h)
    BY <2>1, <2>2, NumbersStay
  <2>4. Tokens'
    <3>1. ASSUME NEW h \in Hosts
          PROVE  Carries(Sent(h)', Got(Peer(h))', cmds'[h], tell'[Peer(h)], inbox'[Peer(h)])
      <4>1. Carries(Sent(h), Got(Peer(h)), cmds[h], tell[Peer(h)], inbox[Peer(h)])
        BY <2>2 DEF Tokens
      <4> QED BY <2>1, <2>3, <4>1, Peers
    <3> QED BY <3>1 DEF Tokens
  <2>5. \A h \in Hosts : Awaiting(h)' = Awaiting(h)
    BY <2>1 DEF Awaiting
  <2>6. Calm'
    BY <2>1, <2>2, <2>5 DEF Calm
  <2> QED BY <1>0, <2>1, <2>3, <2>4, <2>6 DEF TripInv
<1> QED BY <1>1, <1>2, <1>3, <1>4, <1>5, <1>6, <1>7, <1>8, <1>9, <1>10
        DEF Next, Program_, Chip

(* The two programs take turns: what the one has sent and the other has not*)
(* read is one value, in one place on its way or lost, and after the reset *)
(* each order is answered before the next is written (esp_send and         *)
(* esp_is_recv, esp-commands.c; server.c and client.c).                    *)
THEOREM TripsInvariant == Spec => []TripInv
<1>1. Init => TripInv
  BY InitTrips
<1>2. TripInv /\ [Next]_vars => TripInv'
  BY NextTrips
<1> QED BY <1>1, <1>2, PTL DEF Spec

(* What is under way to a program is one message at most.                  *)
LEMMA OneMessage ==
  ASSUME NEW t, t \subseteq Lines, NEW i \in Seq(Lines), NEW n, NEW g, NEW c, Carries(n, g, c, t, i)
  PROVE  Cardinality({x \in t \cup ToSet(i) : x[1] = "ipd"}) <= 1
<1> DEFINE X == {x \in t \cup ToSet(i) : x[1] = "ipd"}
           e == Data(g)
<1>1. \A k \in 1 .. Len(i) : i[k] \in Lines
  BY ElementOfSeq
<1>2. ASSUME NEW x \in X
      PROVE  x \in Messages /\ (x \in t \/ \E k \in 1 .. Len(i) : x = i[k])
  <2>1. x \in t \/ \E k \in 1 .. Len(i) : x = i[k]
    BY DEF ToSet
  <2>2. x \in Lines
    BY <1>1, <2>1
  <2> QED BY <2>1, <2>2, Told
<1> HIDE DEF X
<1>3. \A x \in X : x = e
  <2>1. CASE Nothing(c, t, i)
    BY <1>2, <2>1 DEF Nothing, None
  <2>2. CASE Flight(c, t, i, g)
    <3>1. \/ t \cap Messages = {} /\ None(i, Messages)
          \/ t \cap Messages \subseteq {e} /\ None(i, Messages)
          \/ t \cap Messages = {} /\ \A k \in 1 .. Len(i) : i[k] \in Messages => i[k] = e
      BY <2>2 DEF Flight
    <3> HIDE DEF e
    <3> QED BY <1>2, <3>1 DEF None
  <2> QED BY <2>1, <2>2 DEF Carries
<1> HIDE DEF e
<1>4. X = {} \/ X = {e}
  BY <1>3
<1>5. Cardinality(X) = 0 \/ Cardinality(X) = 1
  BY <1>4, FS_EmptySet, FS_Singleton
<1>6. Cardinality(X) <= 1
  BY <1>5
<1> QED BY <1>6 DEF X

(* One message at a time: at most one value is under way to a program, and *)
(* the client's last value is the server's current one or the one before   *)
(* (server.c, client.c), for every number of round trips.                  *)
THEOREM TripsInTurn == Spec => []RoundTrips
<1>1. TripInv => RoundTrips
  <2> SUFFICES ASSUME TripInv PROVE RoundTrips
    OBVIOUS
  <2>1. Types /\ Rounds /\ Calm /\ Tokens /\ busy \in 0 .. MaxBusy
    BY DEF TripInv, IInv
  <2>2. \A h \in Hosts : pc[h] \in 1 .. Len(Program[h]) + 1 /\ trial[h] \in 0 .. NTRIALS
    BY <2>1, Turns
  <2>3. ASSUME NEW h \in Hosts PROVE Len(cmds[h]) <= 2
    <3>1. CASE pc[h] > ResetEnd
      <4>1. Answered(Awaiting(h), inbox[h], out[h], cmds[h])
        BY <2>1, <3>1 DEF Calm
      <4> DEFINE c == cmds[h]
      <4>2. c = <<>> \/ Len(c) = 1
        BY <4>1 DEF Answered
      <4> HIDE DEF c
      <4>3. c = <<>> => Len(c) = 0
        OBVIOUS
      <4>4. Len(c) = 0 \/ Len(c) = 1
        BY <4>2, <4>3
      <4>5. Len(c) <= 2
        BY <4>4
      <4> QED BY <4>5 DEF c
    <3>2. CASE ~(pc[h] > ResetEnd)
      <4> DEFINE p == pc[h]
                 s == Incoming(h)
                 c == cmds[h]
                 a == Rst
                 b == Restore
      <4>1. Resetting(p, s, c)
        BY DEF TripInv, IInv
      <4>2. p \in Nat \ {0} /\ ~(p > 13)
        BY <2>1, <3>2 DEF Types, ResetEnd
      <4> HIDE DEF p, s, c
      <4>3. p <= 2 \/ p \in 3 .. 6 \/ p = 7 \/ p \in 8 .. 9 \/ p = 10 \/ p = 11 \/ p \in 12 .. 13
        BY <4>2
      <4>4. c = <<>> \/ c = <<a>> \/ c = <<b>> \/ c = <<a, b>>
        <5> HIDE DEF a, b
        <5>1. Resetting(p, s, c) =>
                /\ p <= 2 => c = <<>>
                /\ p \in 3 .. 6 => c = <<>> \/ c = <<a>>
                /\ p = 7 => c = <<b>> \/ c = <<a, b>> \/ c = <<>>
                /\ p \in 8 .. 9 => c = <<>>
                /\ p = 10 => c = <<>>
                /\ p = 11 => c = <<a>> \/ c = <<>>
                /\ p \in 12 .. 13 => c = <<>>
          BY Zenon DEF Resetting, a, b
        <5> QED BY <4>1, <4>3, <5>1
      <4> HIDE DEF a, b
      <4>5. /\ c = <<>> => Len(c) = 0
            /\ c = <<a>> \/ c = <<b>> => Len(c) = 1
            /\ c = <<a, b>> => Len(c) = 2
        OBVIOUS
      <4> DEFINE n == Len(c)
      <4>6. n = 0 \/ n = 1 \/ n = 2
        BY <4>4, <4>5
      <4> HIDE DEF n
      <4>7. n <= 2
        BY <4>6
      <4> QED BY <4>7 DEF c, n
    <3> QED BY <3>1, <3>2
  <2>4. TypeOK
    <3>1. \A h \in Hosts : Len(out[h]) <= 4
      BY <2>1 DEF Calm, Plain
    <3>2. trial \in [Hosts -> 0 .. NTRIALS]
      BY <2>1, <2>2 DEF Types
    <3> QED BY <2>1, <2>2, <2>3, <3>1, <3>2 DEF TypeOK, Types
  <2>5. trial["client"] \in {trial["server"], trial["server"] - 1}
    <3> DEFINE a == Got("server")
               b == Sent("client")
               c == Got("client")
               d == Sent("server")
               t == trial["client"]
    <3>1. /\ a \in Nat /\ b \in Nat /\ c \in Nat /\ d \in Nat
          /\ a <= b /\ b <= c /\ c <= d /\ d <= a + 1
          /\ a = trial["server"] /\ (c = t + 1 \/ (c = 0 /\ t = 0)) /\ t \in Nat
      BY <2>1, Turns DEF Hosts, Types
    <3> HIDE DEF a, b, c, d, t
    <3>2. t \in {a, a - 1}
      BY <3>1
    <3> QED BY <3>1, <3>2 DEF t
  <2>6. ASSUME NEW h \in Hosts
        PROVE  Cardinality({x \in tell[h] \cup ToSet(inbox[h]) : x[1] = "ipd"}) <= 1
    <3>1. Carries(Sent(Peer(h)), Got(h), cmds[Peer(h)], tell[h], inbox[h])
      BY <2>1, TokensOf
    <3>2. tell[h] \subseteq Lines /\ inbox[h] \in Seq(Lines)
      BY <2>1 DEF Types
    <3> QED BY <3>1, <3>2, OneMessage
  <2> QED BY <2>4, <2>5, <2>6 DEF RoundTrips
<1> QED BY <1>1, TripsInvariant, PTL

=============================================================================
