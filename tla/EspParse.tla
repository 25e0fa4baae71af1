------------------------------- MODULE EspParse -------------------------------
(***************************************************************************)
(* The receive path of libesp: the lexer that buffers what the ESP8266 has *)
(* sent (esp-lex.c, esp-lex-simple), the matchers (esp-parse.c) and the    *)
(* loops that wait for the answer to a command (esp-run.c).                *)
(*                                                                         *)
(* A lexer is a record [s, cuts, pos, n]: s is everything the chip will    *)
(* send, cuts the places where one read() ends, pos the cursor and n how   *)
(* much has been read in.  lex_readin is only called with the cursor at n, *)
(* so n is a function of how far the program has looked: looking at        *)
(* position k reads up to the next cut.  Looking past the end of s makes n *)
(* larger than Len(s): the program waits for the chip for ever (Waits).    *)
(*                                                                         *)
(* Characters are one-letter strings; the tokens of the code are shortened *)
(* (ERROR is E R, "busy s..." is b s).                                     *)
(***************************************************************************)
EXTENDS Integers, Sequences, SequencesExt, FiniteSets

CONSTANTS
    MaxLine,     \* size of the line and string buffers of the callers
    Wanted       \* [conversation |-> the streams that may answer it]

CR == "\r"
LF == "\n"
Eol == {CR, LF}
Blank == {" ", "\t"}
DigitValue == [d \in {"0", "1", "2"} |-> CASE d = "0" -> 0 [] d = "1" -> 1 [] d = "2" -> 2]
Digit == DOMAIN DigitValue
Alpha == {"A", "T", "O", "K", "E", "R", "b", "s", "j", "C", "S", "r", "h"}

-----------------------------------------------------------------------------
(* The lexer.                                                              *)

lex_init(s, cuts) == [s |-> s, cuts |-> cuts \cup {Len(s)}, pos |-> 0, n |-> 0]

Waits(l) == l.n > Len(l.s)

Ch(l, k) == IF k > Len(l.s) THEN "none" ELSE l.s[k]

(* The input read in once the program has looked at position k. *)
lex_readin(l, k) ==
    [l EXCEPT !.n = IF k <= @ THEN @
                    ELSE IF k > Len(l.s) THEN Len(l.s) + 1
                    ELSE Min({c \in l.cuts : c >= k})]

(* The cursor moved in front of position k, the character there looked at. *)
At(l, k) == [lex_readin(l, k) EXCEPT !.pos = k - 1]

lex_peek(l) == Ch(l, l.pos + 1)

lex_restore_ckpt(now, then) == [now EXCEPT !.pos = then.pos]

(* The first position from the cursor on whose character is outside S. *)
FirstNot(l, S) ==
    CHOOSE k \in l.pos + 1 .. Len(l.s) + 1 :
        Ch(l, k) \notin S /\ \A j \in l.pos + 1 .. k - 1 : l.s[j] \in S

-----------------------------------------------------------------------------
(* The matchers return [ok, die, l, got, vals, args, by]: the verdict,     *)
(* whether the program panicked, the lexer, the text accounted for, the    *)
(* numbers read, how many arguments have been taken from the va_list to    *)
(* store them in, and which alternative of a loop's body it was.           *)

Yes(l, got, vals) == [ok |-> TRUE, die |-> FALSE, l |-> l, got |-> got, vals |-> vals, args |-> 0,
                       by |-> "none"]
No(l) == [Yes(l, <<>>, <<>>) EXCEPT !.ok = FALSE]
Panic(l) == [No(l) EXCEPT !.die = TRUE]
(* A matcher that fails puts the cursor back. *)
Restore(r, l) == [r EXCEPT !.l = IF r.ok THEN @ ELSE lex_restore_ckpt(@, l)]

skip_blank_space(l) == At(l, FirstNot(l, Blank))

(* Takes the end of line and the end-of-line characters after it that have *)
(* already arrived, never waiting for more.                                *)
EolAt(here) ==
    LET k == here.pos + 1
    IN IF Ch(here, k) \notin Eol THEN No(here)
       ELSE Yes([here EXCEPT !.pos =
                     CHOOSE e \in k .. here.n :
                         /\ \A j \in k .. e : Ch(here, j) \in Eol
                         /\ e = here.n \/ Ch(here, e + 1) \notin Eol], <<>>, <<>>)
match_eol(l) == Restore(EolAt(skip_blank_space(l)), l)

match_blank_line(l) == Restore(match_eol(skip_blank_space(l)), l)

(* Fault: skips only what has already arrived. *)
skip_blank_linesArrived(l) ==
    At(l, CHOOSE k \in l.pos + 1 .. Len(l.s) + 1 :
              /\ \A j \in l.pos + 1 .. k - 1 : l.s[j] \in Blank \cup Eol
              /\ Ch(l, k) \notin Blank \cup Eol \/ k = Max({l.n, l.pos}) + 1)

(* skip_blank_lines, then skip_blank_space: to the first printed character. *)
skip_blank_lines(l) == At(l, FirstNot(l, Blank \cup Eol))

UintAt(l, e) ==
    LET ds == SubSeq(l.s, l.pos + 1, e - 1)
    IN IF ds = <<>> THEN No(l)
       ELSE Yes(At(l, e), ds, <<FoldLeft(LAMBDA x, d : x * 10 + DigitValue[d], 0, ds)>>)
match_uint(l) == UintAt(skip_blank_space(l), FirstNot(skip_blank_space(l), Digit))

(* Checks for the end of the line at every character: a line that is only  *)
(* half there is waited for.                                               *)
RECURSIVE TakeLine(_, _, _)
TakeLine(l, r, buf) ==
    IF r.ok THEN [r EXCEPT !.got = buf]
    ELSE IF Waits(r.l) \/ Len(buf) = MaxLine THEN Panic(r.l)
    ELSE LET on == At(r.l, l.pos + 2) IN TakeLine(on, match_eol(on), Append(buf, lex_peek(l)))

get_nonblank_line(l) ==
    LET b == match_blank_line(l)
        on == skip_blank_space(b.l)
    IN IF b.ok THEN No(b.l) ELSE TakeLine(on, match_eol(on), <<>>)

(* Fault: a token that does not match is not put back. *)
match_tokKeeps(l, tok) ==
    LET l1  == skip_blank_lines(l)
        bad == {i \in 1 .. Len(tok) : Ch(l1, l1.pos + i) # tok[i]}
    IN IF bad # {} THEN No(At(l1, l1.pos + Min(bad)))
       ELSE Yes(At(l1, l1.pos + Len(tok) + 1), tok, <<>>)

(* A prefix of the input, refused when a longer word starts with it. *)
match_tok(l, tok) ==
    LET l1    == skip_blank_lines(l)
        Here(i) == Ch(l1, l1.pos + i)
        bad   == {i \in 1 .. Len(tok) : Here(i) # tok[i]}
        next  == l1.pos + Len(tok) + 1
        longer == Last(tok) \in Alpha /\ Ch(l1, next) \in Alpha
    IN IF bad # {} THEN No(lex_restore_ckpt(lex_readin(l1, l1.pos + Min(bad)), l))
       ELSE LET l2 == lex_readin(l1, IF Last(tok) \in Alpha THEN next ELSE next - 1)
            IN IF longer THEN No(lex_restore_ckpt(l2, l))
               ELSE Yes([l2 EXCEPT !.pos = next - 1], tok, <<>>)

(* One element of a format: a space, a conversion or a literal character.  *)
(* After a conversion that is not the first thing in the format, a failure *)
(* is a panic: that far in, the line can be no other.                      *)
Literal(l, c) ==
    IF lex_peek(l) = c THEN Yes([l EXCEPT !.pos = @ + 1], <<c>>, <<>>) ELSE No(l)
Element(f, l) ==
    CASE lex_peek(l) \in Eol -> No(l)
      [] f = " "            -> Yes(l, <<>>, <<>>)
      [] f = "%u"           -> [match_uint(l) EXCEPT !.args = 1]
      [] OTHER              -> Literal(skip_blank_space(l), f)
FormatStep(r, f) ==
    IF ~r.ok THEN r
    ELSE LET m == Element(f, lex_readin(r.l, r.l.pos + 1))
         IN [m EXCEPT !.got = r.got \o @, !.vals = r.vals \o @, !.args = r.args + @]
matchv(l, fmt) ==
    LET r == FoldLeft(FormatStep, Yes(skip_blank_lines(l), <<>>, <<>>), fmt)
    IN [Restore(r, l) EXCEPT !.die = ~r.ok /\ fmt[1] # "%u" /\ r.args > 0]

LineEnd(r, e) == IF e.ok THEN [r EXCEPT !.l = e.l] ELSE Panic(e.l)
match_line(l, fmt) ==
    LET r == matchv(l, fmt) IN IF r.ok THEN LineEnd(r, match_eol(r.l)) ELSE r

-----------------------------------------------------------------------------
(* The loops of esp-run.c.  Over stands for "this call will not go on".    *)

OK == <<"O", "K">>
SEND_OK == <<"S", " ", "O", "K">>
ERROR == <<"E", "R">>
Busy == <<"b", " ", "s">>
Over(r) == r.die \/ Waits(r.l)

(* cmd_echo_line: print and drop the line, which may be blank. *)
cmd_echo_line(l) == get_nonblank_line(l)

(* The body of such a loop tries alternatives on the next line in turn. *)
Try(l, a, fmt) ==
    CASE a = "answer"  -> match_line(l, fmt)
      [] a = "error"   -> match_tok(l, ERROR)
      [] a = "ok"      -> match_tok(l, OK)
      [] a = "send_ok" -> match_tok(l, SEND_OK)
      [] a = "busy"    -> match_line(l, Busy)
      [] a = "blank"   -> match_blank_line(l)
      [] a = "echo"    -> cmd_echo_line(l)
      [] a = "other"   -> Panic(l)
After(p, a, r) == [r EXCEPT !.by = a, !.args = p.args + @]
Body(l, fmt, alternatives) ==
    FoldLeft(LAMBDA p, a : IF p.ok \/ Over(p) THEN p ELSE After(p, a, Try(p.l, a, fmt)),
             No(l), alternatives)

(* And goes round until the wanted line.  A va_list is an array on the hosts *)
(* this is built for: what a failed attempt has taken from it is gone for    *)
(* the next one.                                                             *)
RECURSIVE Await(_, _, _)
Around(r, fmt, alternatives) ==
    IF r.by = "answer" \/ Over(r) THEN r
    ELSE IF r.by \in {"error", "ok", "send_ok"} THEN Panic(r.l)
    ELSE LET more == Await(r.l, fmt, alternatives)
         IN [more EXCEPT !.got = r.got \o @, !.args = r.args + @]
Await(l, fmt, alternatives) == Around(Body(l, fmt, alternatives), fmt, alternatives)

(* cmd_responsev also panics at the end of another command.  Before the      *)
(* connection is active, cmd_ack hands everything that is not the echo of    *)
(* the command to default_handle_out_of_order_msg, which prints it.          *)
cmd_response(l, end, extra_p) ==
    Await(l, end, <<"answer", "error", "busy">> \o
                  IF extra_p THEN <<"echo">> ELSE <<"blank", "other">>)
cmd_responsev(l, fmt) ==
    Await(l, fmt, <<"answer", "error", "ok", "send_ok", "busy", "blank", "other">>)
cmd_ack(l, cmd) == Await(l, cmd, <<"answer", "blank", "busy", "echo">>)

(* The head and the body of a received message. *)
MessageBody(h, n) ==
    [h EXCEPT !.l = [lex_readin(@, @.pos + n) EXCEPT !.pos = @ + n],
              !.got = @ \o SubSeq(h.l.s, h.l.pos + 1, h.l.pos + n)]
esp_is_recv(l) ==
    LET h == matchv(l, <<"+", "%u", ":">>)
    IN IF h.ok THEN MessageBody(h, h.vals[1]) ELSE Panic(h.l)

-----------------------------------------------------------------------------
(* A conversation is a sequence of calls, made one after the other on one  *)
(* lexer; Call makes one of them.                                          *)

Command == <<"A", "T">>
Calls ==
    [at    |-> <<"ack", "ok">>,
     extra |-> <<"ack", "ok_extra">>,
     conn  |-> <<"ack", "connect", "ok">>,
     send  |-> <<"ack", "ok", "prompt", "recv", "send_ok">>,
     recv  |-> <<"is_recv", "is_recv">>]

Call(f, l) ==
    CASE f = "ack"      -> cmd_ack(l, Command)
      [] f = "ok"       -> cmd_response(l, OK, FALSE)
      [] f = "ok_extra" -> cmd_response(l, OK, TRUE)
      [] f = "connect"  -> cmd_responsev(l, <<"%u", ",", " ", "C">>)
      [] f = "prompt"   -> match_tok(l, <<">">>)
      [] f = "recv"     -> cmd_responsev(l, <<"R", " ", "%u", " ", "b">>)
      [] f = "send_ok"  -> cmd_response(l, SEND_OK, FALSE)
      [] f = "is_recv"  -> esp_is_recv(l)

VARIABLES
    talk,    \* which conversation
    lex,     \* the lexer
    log      \* the results of the calls made so far

vars == <<talk, lex, log>>

Outcome(r) == [ok |-> r.ok, die |-> r.die, waits |-> Waits(r.l), got |-> r.got,
               vals |-> r.vals, args |-> IF r.ok THEN r.args ELSE 0]

Init ==
    /\ talk \in DOMAIN Wanted
    /\ \E s \in Wanted[talk] :
         \E cuts \in {{i, j} : i, j \in 1 .. Len(s)} \cup {1 .. Len(s)} : lex = lex_init(s, cuts)
    /\ log = <<>>

Next ==
    /\ Len(log) < Len(Calls[talk])
    /\ \A i \in DOMAIN log : log[i].ok /\ ~log[i].waits
    /\ \E r \in {Call(Calls[talk][Len(log) + 1], lex)} :
         lex' = r.l /\ log' = Append(log, Outcome(r))
    /\ UNCHANGED talk

Spec == Init /\ [][Next]_vars

-----------------------------------------------------------------------------
(* The results of the first k calls when the whole stream is there at once. *)
RECURSIVE Whole(_, _)
Whole(l, k) ==
    IF k = 0 THEN <<>>
    ELSE LET r == Call(Calls[talk][Len(log) - k + 1], l)
         IN <<Outcome(r)>> \o Whole(r.l, k - 1)

Printed(text) == SelectSeq(text, LAMBDA c : c \notin Blank \cup Eol)

(* The pieces in which the input trickles in change nothing a caller sees: *)
(* every call returns what it would return had the whole stream been there *)
(* (esp-parse.c:6-9).                                                      *)
ChunkingInvisible == log = Whole(lex_init(lex.s, {}), Len(log))

(* A call that succeeds has accounted for every printed character it moved *)
(* past, in however many pieces and failed matches it was looked at, and   *)
(* has read no further than its answer: for a line its first end-of-line   *)
(* character, for the prompt and a message their last one.  The rest may   *)
(* only come once the program has spoken again, and waiting for it would   *)
(* be for ever.                                                            *)
InputAccounted ==
    LET printed == Max({0} \cup {k \in 1 .. lex.pos : lex.s[k] \notin Blank \cup Eol})
        enough  == IF talk # "recv" /\ printed < lex.pos
                   THEN FirstNot([lex EXCEPT !.pos = printed], Blank)
                   ELSE lex.pos
    IN /\ (\A i \in DOMAIN log : log[i].ok) =>
              Printed(FlattenSeq([i \in DOMAIN log |-> log[i].got])) = Printed(SubSeq(lex.s, 1, lex.pos))
       /\ log # <<>> /\ Last(log).ok => lex.n = lex_readin([lex EXCEPT !.n = 0], enough).n

(* A call that succeeds has stored each number it read where its caller    *)
(* asked: "we need to extract the channel from this" (esp-commands.c:218). *)
NumbersReachCaller == \A i \in DOMAIN log : log[i].ok => log[i].args = Len(log[i].vals)

===============================================================================
