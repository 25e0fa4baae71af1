------------------------------- MODULE BootUnix -------------------------------
(***************************************************************************)
(* The host side of the bootloader, labs/3-bootloader/unix-side, as far as *)
(* the source goes: the start of simple_boot that looks for the Pi's first *)
(* word in a stream that may begin with garbage, its end that waits for    *)
(* BOOT_SUCCESS, and pi_cat and pi_echo of libunix, which print what the   *)
(* program sends until it says that it is done, pi_echo passing on what    *)
(* the user types.  The Pi is labs/3-bootloader/pi-side/get-code.h: it     *)
(* repeats GET_PROG_INFO until it is answered and may print at any time.   *)
(* Steps 1 to 4 are left out in the source.                                *)
(***************************************************************************)
EXTENDS Integers, Sequences

CONSTANTS
  Garbage,  \* byte sequences that are in the tty before the Pi's first word
  Prints,   \* messages of boot_putk
  Texts     \* what a program prints

\* A program prints characters.
BootAssumption == Texts \subseteq Seq(STRING)

VARIABLES
  phase,    \* "drain", "success", "cat", "echo"; or how it ended
  tty,      \* bytes sent by the Pi and not yet read
  boot,     \* what the session began with
  pos,      \* pi_done's static
  seen      \* history: what pi_cat has printed

bootvars == <<phase, tty, boot, pos, seen>>

\* boot_put32 and get_uint32: least significant byte first.
GET_PROG_INFO == <<34, 34, 17, 17>>
PRINT_STRING == <<238, 238, 221, 221>>
BOOT_SUCCESS == <<170, 170, 153, 153>>
BOOT_ERROR == <<204, 204, 187, 187>>
put32(n) == <<n % 256, n \div 256, 0, 0>>
get32(s) == s[1] + 256 * (s[2] + 256 * s[3])  \* the top byte is dropped: only "< 512" is asked

boot_putk(msg) == PRINT_STRING \o put32(Len(msg)) \o msg

\* The text that stands for output of a program: characters, not bytes.
exit_string == <<"D", "O", "N", "E", "!", "!", "!", "nl">>

Init ==
  /\ pos = 0 /\ seen = <<>>
  /\ \/ /\ phase = "drain"
        /\ \E g \in Garbage, m \in Prints \cup {<<>>} :
             /\ boot = g
             /\ tty = g \o (IF m = <<>> THEN <<>> ELSE boot_putk(m))
     \/ /\ phase = "success" /\ boot = <<>>
        /\ \E m \in Prints, op \in {BOOT_SUCCESS, BOOT_ERROR} : tty = boot_putk(m) \o op
     \/ /\ phase = "cat" /\ boot \in Texts /\ tty = boot
     \/ phase = "echo" /\ boot = <<>> /\ tty = <<>>

\* What get_op returns when the stream runs dry, and when the length it reads of
\* a printed string makes it panic.
Dry == <<>>
Suspicious == <<-1>>

\* get_op past printed strings: the word it returns and what is left of s, or
\* that the read runs dry.  A length of 0 makes it print for ever.
get_op[s \in Seq(Int)] ==
  IF Len(s) < 4 THEN [op |-> Dry, left |-> s]
  ELSE IF SubSeq(s, 1, 4) # PRINT_STRING THEN [op |-> SubSeq(s, 1, 4), left |-> SubSeq(s, 5, Len(s))]
  ELSE IF Len(s) < 8 THEN [op |-> Dry, left |-> s]
  ELSE LET nbytes == get32(SubSeq(s, 5, 7))
       IN IF nbytes >= 512 \/ s[8] # 0 THEN [op |-> Suspicious, left |-> s]
          ELSE IF nbytes = 0 \/ Len(s) < 8 + nbytes THEN [op |-> Dry, left |-> s]
          ELSE get_op[SubSeq(s, 9 + nbytes, Len(s))]

\* Every 300 ms until it is answered.
WaitForData ==
  /\ phase = "drain" /\ Len(tty) < 16
  /\ tty' = tty \o GET_PROG_INFO
  /\ UNCHANGED <<phase, boot, pos, seen>>

\* Fault: after a mismatch it goes on with the next word.
drainNoShift ==
  /\ phase = "drain"
  /\ LET got == get_op[tty]
     IN /\ got.op # Dry
        /\ phase' = IF got.op = GET_PROG_INFO THEN "info" ELSE IF got.op = Suspicious THEN "dead" ELSE phase
        /\ tty' = got.left
  /\ UNCHANGED <<boot, pos, seen>>

\* Step 0: a mismatch drops one byte more, to get in step with the words.
drain ==
  /\ phase = "drain"
  /\ LET got == get_op[tty]
     IN \/ /\ got.op = GET_PROG_INFO
           /\ phase' = "info" /\ tty' = got.left
        \/ /\ got.op = Suspicious
           /\ phase' = "dead" /\ UNCHANGED tty
        \/ /\ got.op \notin {Dry, Suspicious, GET_PROG_INFO} /\ got.left # <<>>
           /\ tty' = Tail(got.left) /\ UNCHANGED phase
  /\ UNCHANGED <<boot, pos, seen>>

\* Step 5; a mismatch prints what the Pi still says and panics.
boot_success ==
  /\ phase = "success"
  /\ LET got == get_op[tty]
     IN \/ got.op = BOOT_SUCCESS /\ phase' = "booted" /\ tty' = got.left
        \/ got.op \notin {BOOT_SUCCESS, Dry} /\ phase' = "dead" /\ tty' = <<>>
        \/ got.op = Dry /\ phase' = "dead" /\ UNCHANGED tty  \* read_exact times out
  /\ UNCHANGED <<boot, pos, seen>>

\* Unprintable characters, the carriage return among them, become spaces.
remove_nonprint(s) == [i \in DOMAIN s |-> IF s[i] \in {"nul", "cr"} THEN "sp" ELSE s[i]]

\* A character that does not fit is skipped, not looked at again.
Matched(p, c) == IF p = Len(exit_string) THEN p ELSE IF c = exit_string[p + 1] THEN p + 1 ELSE 0

\* Fault: the position is forgotten between two reads.
pi_doneForgets(from, s) ==
  LET at[i \in 0 .. Len(s)] == IF i = 0 THEN 0 ELSE Matched(at[i - 1], s[i]) IN at[Len(s)]

\* pi_done: its static pos after s, Len(exit_string) when it has seen it all.
pi_done(from, s) ==
  LET at[i \in 0 .. Len(s)] == IF i = 0 THEN from ELSE Matched(at[i - 1], s[i]) IN at[Len(s)]

\* A read returns part of what was sent.
Reads ==
  /\ tty # <<>>
  /\ \E n \in 1 .. Len(tty) :
       LET s == remove_nonprint(SubSeq(tty, 1, n))
       IN /\ tty' = SubSeq(tty, n + 1, Len(tty))
          /\ seen' = seen \o s
          /\ pos' = pi_done(pos, s)
          /\ phase' = IF pos' = Len(exit_string) THEN "clean_exit" ELSE phase
  /\ UNCHANGED boot
pi_cat == phase = "cat" /\ Reads

\* What was typed goes to the Pi, whose program sends it back, and what comes
\* from the Pi is shown.
pi_echo ==
  /\ phase = "echo"
  /\ \/ /\ boot = <<>> /\ boot' \in Texts /\ tty' = boot'
        /\ UNCHANGED <<phase, pos, seen>>
     \/ Reads

\* Nothing to read, and the tty is gone: the Pi was unplugged or rebooted.
TtyGone ==
  /\ phase \in {"cat", "echo"} /\ tty = <<>>
  /\ phase' = "closed"
  /\ UNCHANGED <<tty, boot, pos, seen>>

Next == WaitForData \/ drain \/ boot_success \/ pi_cat \/ pi_echo \/ TtyGone

Spec == Init /\ [][Next]_bootvars /\ WF_bootvars(WaitForData) /\ WF_bootvars(drain)
-----------------------------------------------------------------------------
Repeated(w, s) == \A i \in DOMAIN s : s[i] = w[((i - 1) % Len(w)) + 1]
HasInside(s, w) == \E i \in 0 .. Len(s) - Len(w) : SubSeq(s, i + 1, i + Len(w)) = w

\* An exit string right behind the beginning of another.
Hidden(s) == \E k \in 1 .. Len(exit_string) - 1 : HasInside(s, SubSeq(exit_string, 1, k) \o exit_string)

(* The exit string is recognised however the reads cut it, and nothing     *)
(* else is; the one exception is an exit string right behind the beginning *)
(* of another, whose first character is taken for the mismatch.  Dropping  *)
(* one byte after each mismatch ends, on the Pi's words: what is left      *)
(* after the first GET_PROG_INFO is whole words.  The garbage may be       *)
(* anything but a GET_PROG_INFO, which the session then takes for the      *)
(* Pi's, or the word that announces a printed string.                      *)
ExitRecognised ==
  /\ phase = "clean_exit" => HasInside(seen, exit_string)
  /\ phase \in {"cat", "echo", "closed"} /\ HasInside(seen, exit_string) => Hidden(seen)
StreamUnderstood ==
  /\ [](phase \in {"cat", "echo", "closed", "clean_exit"} => ExitRecognised)
  /\ <>(\/ phase \notin {"drain", "info"}
        \/ HasInside(boot, PRINT_STRING) \/ HasInside(boot, GET_PROG_INFO)
        \/ phase = "info" /\ Len(tty) % 4 = 0 /\ Repeated(GET_PROG_INFO, tty))
=============================================================================
