---------------------------------- MODULE MCEsp ----------------------------------
(* The two models of libesp side by side: the receive path character by     *)
(* character (talk # "none"), or two programs line by line.                 *)
EXTENDS EspPingPong

CONSTANT MaxLine

(* What the chip may send: the answer each conversation waits for, among    *)
(* lines of every other kind the code looks for.                            *)
Eol_ == <<"\r", "\n">>
EchoLine == <<"A", "T", "\r">> \o Eol_
OkLine == <<"O", "K">> \o Eol_
BusyLine == <<"b", " ", "s">> \o Eol_
JunkLine == <<"E", " ", "1">> \o Eol_
ErrLine == <<"E", "R">> \o Eol_
ConnLine(x) == <<x, ",", "C">> \o Eol_
RecvLine == Eol_ \o <<"R", " ", "1", " ", "b">> \o Eol_
SendOkLine == <<"\n", "\r", "S", " ", "O", "K", "\r">>

Noise == {<<>>, BusyLine, JunkLine, ErrLine, OkLine, <<"O", "K", "j">> \o Eol_, <<" ", "\n">>}

MCWanted ==
    [at    |-> {a \o EchoLine \o b \o OkLine : a \in Noise, b \in Noise}
                 \cup {EchoLine \o <<"O", "K", "\r">>},
     extra |-> {EchoLine \o a \o b \o OkLine : a \in Noise, b \in Noise},
     conn  |-> {EchoLine \o a \o ConnLine(x) \o OkLine : a \in Noise, x \in {"0", "1", "h"}},
     send  |-> {EchoLine \o OkLine \o <<">", " ">> \o a \o RecvLine \o b \o SendOkLine :
                  a \in Noise, b \in Noise},
     recv  |-> {<<"+", "2", ":", "h", x>> \o Eol_ \o <<"+", y, ":", "h">> :
                  x \in {"h", "\r", " "}, y \in {"1", "h"}}]

VARIABLES talk, lex, log

Parse == INSTANCE EspParse WITH Wanted <- MCWanted

parsevars == <<talk, lex, log>>
allvars == <<parsevars, vars>>

EspInit ==
    \/ Parse!Init /\ Init /\ patient /\ out = [h \in Hosts |-> <<>>]
    \/ Init /\ talk = "none" /\ lex = Parse!lex_init(<<>>, {}) /\ log = <<>>

PingPong(step) == talk = "none" /\ step /\ UNCHANGED parsevars

EspNext ==
    \/ talk # "none" /\ Parse!Next /\ UNCHANGED vars
    \/ PingPong(Next)

EspFairness ==
    \A h \in Hosts :
        /\ WF_allvars(PingPong(Program_(h)))
        /\ WF_allvars(PingPong(Process(h) \/ Emit(h)))
        /\ WF_allvars(PingPong(Tell(h)))

EspSpec == EspInit /\ [][EspNext]_allvars /\ EspFairness

(* The invariants of EspParse. *)
ChunkingInvisible == Parse!ChunkingInvisible
InputAccounted == Parse!InputAccounted
NumbersReachCaller == Parse!NumbersReachCaller

(* A session whose client is started in time and whose network neither      *)
(* breaks nor overtakes is carried through by both programs: the noise of a *)
(* reset, of a busy chip and of an earlier session makes neither panic.     *)
ChosenSessionCompletes == <>(talk # "none" \/ faults # {} \/ Complete)

===================================================================================
