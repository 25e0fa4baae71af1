------------------------------ MODULE EspShell ------------------------------
(***************************************************************************)
(* labs/16-esp8266/esp-shell: a program on the host that writes what the   *)
(* user types to an ESP8266 and prints what the chip says, line by line.   *)
(* readline waits a millisecond for a line's first character and then, as  *)
(* the tty does, eight seconds for each other.                             *)
(*                                                                         *)
(* A character stands for its kind: "OK" for a text the shell takes for    *)
(* the end of an answer, likewise "ERROR" and "busy"; "nl", "cr".          *)
(***************************************************************************)
EXTENDS Integers, Sequences

CONSTANTS
  Commands,   \* what the user types: sequences of characters
  Answer,     \* what the chip says to a command, after the echo
  Events,     \* what it says unasked
  MaxTyped,   \* bound: lines the user types
  MaxEvents   \* bound: events

VARIABLES
  opt,      \* wait_for_ack_p
  unix_fd,  \* lines typed and not yet read
  esp_fd,   \* characters sent by the chip and not yet read
  esp,      \* the chip: what it has yet to send; whether a command is being answered
  shell,    \* where it is; the line it reads, and whether it has begun to; saw_cmd_p;
            \* history: it did not wait for an answer
  said,     \* history: the lines the chip has sent, and what it has of the next
  printed,  \* what the shell has printed
  count     \* lines typed, events

shellvars == <<opt, unix_fd, esp_fd, esp, shell, said, printed, count>>

Eol == <<"cr", "nl">>
Mark == {"OK", "ERROR", "busy"}
Done(s) == \E i \in 1 .. Len(s) : s[i] \in Mark

\* Of the user and the chip: a line ends with both characters, and the end of
\* an answer is said once, by the answer.
Ended(s) == \A i \in 1 .. Len(s) : s[i] = "cr" => i < Len(s) /\ s[i + 1] = "nl"
OneMark(s) == \A i, j, k \in 1 .. Len(s) : i < j /\ j < k /\ s[i] \in Mark /\ s[j] = "nl" => s[k] \notin Mark
ShellAssumption ==
  /\ Commands \subseteq Seq(STRING) /\ Events \subseteq Seq(STRING) /\ Answer \in [Commands -> Seq(STRING)]
  /\ \A c \in Commands : ~Done(c) /\ Ended(c) /\ Ended(Answer[c]) /\ OneMark(Answer[c])
  /\ \A e \in Events : ~Done(e) /\ Ended(e)

\* A line among lines that are read: an empty one is taken for nothing.
With(ls, l) == IF l = <<>> THEN ls ELSE Append(ls, l)

Init ==
  /\ opt \in BOOLEAN
  /\ unix_fd = <<>> /\ esp_fd = <<>> /\ said = [lines |-> <<>>, line |-> <<>>] /\ printed = <<>>
  /\ esp = [out |-> <<>>, answering |-> FALSE]
  /\ shell = [at |-> "command", line |-> <<>>, begun |-> FALSE, saw_cmd_p |-> FALSE, early |-> FALSE]
  /\ count = [typed |-> 0, events |-> 0]

\* The user and the chip.
Type ==
  /\ count.typed < MaxTyped
  /\ \E c \in Commands : unix_fd' = Append(unix_fd, c)
  /\ count' = [count EXCEPT !.typed = @ + 1]
  /\ UNCHANGED <<opt, esp_fd, esp, shell, said, printed>>
Happen ==
  /\ count.events < MaxEvents /\ esp.out = <<>> /\ shell.at # "died"
  /\ \E e \in Events : esp' = [esp EXCEPT !.out = e]
  /\ count' = [count EXCEPT !.events = @ + 1]
  /\ UNCHANGED <<opt, unix_fd, esp_fd, shell, said, printed>>
Send ==
  /\ esp.out # <<>>
  /\ LET c == Head(esp.out)
     IN /\ esp_fd' = Append(esp_fd, c)
        /\ said' = CASE c = "cr" -> said
                     [] c = "nl" -> [lines |-> With(said.lines, said.line), line |-> <<>>]
                     [] OTHER -> [said EXCEPT !.line = Append(@, c)]
        /\ esp' = [out |-> Tail(esp.out), answering |-> esp.answering /\ ~ (c = "nl" /\ Done(said.line))]
  /\ UNCHANGED <<opt, unix_fd, shell, printed, count>>
-----------------------------------------------------------------------------
\* The command, then what the chip says: the echo and the answer; a command
\* that arrives during another's answer is refused.
Sent(c) ==
  esp' = [out |-> esp.out \o (IF esp.answering THEN <<"busy">> \o Eol ELSE c \o Eol \o Answer[c]), answering |-> TRUE]

\* readline on what the user typed: an empty line is as good as none.
Command ==
  /\ shell.at = "command"
  /\ \/ /\ unix_fd # <<>> /\ Head(unix_fd) # <<>>
        /\ Sent(Head(unix_fd))
        /\ unix_fd' = Tail(unix_fd)
        /\ shell' = [shell EXCEPT !.at = "reply", !.line = <<>>, !.saw_cmd_p = TRUE,
                                  !.early = opt /\ esp.answering]
     \/ /\ \/ unix_fd = <<>> /\ UNCHANGED unix_fd
           \/ unix_fd # <<>> /\ Head(unix_fd) = <<>> /\ unix_fd' = Tail(unix_fd)
        /\ shell' = [shell EXCEPT !.at = "reply", !.line = <<>>, !.saw_cmd_p = FALSE]
        /\ UNCHANGED esp
  /\ UNCHANGED <<opt, esp_fd, said, printed, count>>

\* Fault: silence ends the wait for an answer.
AgainAtOnce == "command"

\* Where the shell goes on when a readline gave nothing.
Again == IF ~shell.saw_cmd_p \/ ~opt THEN "command" ELSE "reply"

can_read == esp_fd # <<>>

\* The reply loop reads one character.
Char ==
  /\ shell.at = "reply" /\ can_read /\ Head(esp_fd) # "nl"
  /\ shell' = [shell EXCEPT !.begun = TRUE, !.line = IF Head(esp_fd) = "cr" THEN @ ELSE Append(@, Head(esp_fd))]
  /\ esp_fd' = Tail(esp_fd)
  /\ UNCHANGED <<opt, unix_fd, esp, said, printed, count>>
\* match_busy, match_ok, match_error.
Line ==
  /\ shell.at = "reply" /\ can_read /\ Head(esp_fd) = "nl"
  /\ esp_fd' = Tail(esp_fd)
  /\ \/ /\ shell.line = <<>>
        /\ shell' = [shell EXCEPT !.begun = FALSE, !.at = Again]
        /\ UNCHANGED printed
     \/ /\ shell.line # <<>>
        /\ printed' = Append(printed, shell.line)
        /\ shell' = [shell EXCEPT !.line = <<>>, !.begun = FALSE, !.at = IF Done(shell.line) THEN "command" ELSE "reply"]
  /\ UNCHANGED <<opt, unix_fd, esp, said, count>>
\* Nothing for a millisecond, at the start of a line.
TimedOut ==
  /\ shell.at = "reply" /\ ~can_read /\ ~shell.begun
  /\ shell' = [shell EXCEPT !.at = Again]
  /\ UNCHANGED <<opt, unix_fd, esp_fd, esp, said, printed, count>>
\* Nothing for eight seconds inside a line: the tty's read returns 0, which is
\* taken for the end of the connection.
ReadsNothing ==
  /\ shell.at = "reply" /\ ~can_read /\ esp.out = <<>> /\ shell.begun
  /\ shell' = [shell EXCEPT !.at = "died"]
  /\ UNCHANGED <<opt, unix_fd, esp_fd, esp, said, printed, count>>

\* The shell's loop.
esp_echo == Command \/ Char \/ Line \/ TimedOut \/ ReadsNothing
Next == Type \/ Happen \/ Send \/ esp_echo
Spec == Init /\ [][Next]_shellvars /\ WF_shellvars(Send) /\ WF_shellvars(esp_echo)
-----------------------------------------------------------------------------
(* Whatever arrives when, the shell prints the chip's lines, each once, in *)
(* order; with --ack it sends no command while the chip answers another;   *)
(* it dies only over a line the chip begins and does not end; and unless   *)
(* it does, every line the user types is read, even if the chip has gone   *)
(* on to say other things.                                                 *)
PrintsInOrder == printed = SubSeq(said.lines, 1, Len(printed)) /\ (esp_fd = <<>> => printed = said.lines)
NeverEarly == ~shell.early
DiesMidLine == shell.at = "died" => shell.line # <<>> /\ said.line = shell.line
ShellSafe == PrintsInOrder /\ NeverEarly /\ DiesMidLine
ShellFaithful == [](PrintsInOrder /\ NeverEarly /\ DiesMidLine) /\ []<>(unix_fd = <<>> \/ shell.at = "died")
=============================================================================
