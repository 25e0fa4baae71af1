------------------------------ MODULE PiRandom ------------------------------
(***************************************************************************)
(* pi-random.c of the two fake Pis: the C library's additive generator,    *)
(* whose state lies in an array of the caller's and can be exchanged for   *)
(* another between two calls.  The program makes any calls; the degrees,   *)
(* the word and the congruential generator's modulus are constants.        *)
(***************************************************************************)
EXTENDS Integers, Sequences, SequencesExt

CONSTANTS
  Arrays,    \* the caller's arrays
  Sizes,     \* sizes the caller gives them
  Seeds,
  breaks,    \* BREAK_1 .. BREAK_4 and BREAK_0, by type
  degrees,   \* by type, as in random_poly_info
  seps,
  Word,      \* 2^32
  lcg,       \* 2147483647 and 16807
  Rounds,    \* 10: numbers thrown away after the seeding, per degree
  MaxCalls   \* bound: calls

VARIABLES
  buf,      \* struct pi_random_data: type, array, front and rear index
  arr,      \* the arrays: the word at -1 and the state
  result,   \* what the last call returned
  ref,      \* history: the recurrence's last terms, by array
  lost,     \* history: arrays left without saving where they were
  calls

randvars == <<buf, arr, result, ref, lost, calls>>

MAX_TYPES == 5
Types == 0 .. MAX_TYPES - 1
\* The type for n bytes; -1 if there are too few.
TypeOf(n) == IF n < breaks[1] THEN -1 ELSE CHOOSE t \in Types : n >= breaks[t + 1] /\ \A u \in t + 1 .. 4 : n < breaks[u + 1]
deg(t) == degrees[t + 1]
sep(t) == seps[t + 1]
-----------------------------------------------------------------------------
\* Schrage's method: 16807 * word % 2147483647 without overflow.
Lcg(word) ==
  LET q == lcg.m \div lcg.a
      next == lcg.a * (word % q) - (lcg.m % lcg.a) * (word \div q)
  IN IF next < 0 THEN next + lcg.m ELSE next
RECURSIVE Filled(_, _)
Filled(words, k) == IF k = 0 THEN words ELSE Filled(Append(words, Lcg(Last(words))), k - 1)

\* Fault: after a step that wraps, both indices start again.
AdvanceBoth(b, words) ==
  LET d == deg(b.type)
      val == (words[b.front + 1] + words[b.rear + 1]) % Word
  IN [words |-> [words EXCEPT ![b.front + 1] = val],
      out |-> val \div 2,
      b |-> IF b.front + 1 >= d THEN [b EXCEPT !.front = 0, !.rear = 0]
            ELSE [b EXCEPT !.front = @ + 1, !.rear = IF @ + 1 >= d THEN 0 ELSE @ + 1]]

\* One step: the sum goes to the front, and both indices on, of which only
\* one can wrap in a call.
Advance(b, words) ==
  LET d == deg(b.type)
      val == (words[b.front + 1] + words[b.rear + 1]) % Word
  IN [words |-> [words EXCEPT ![b.front + 1] = val],
      out |-> val \div 2,
      b |-> IF b.front + 1 >= d THEN [b EXCEPT !.front = 0, !.rear = @ + 1]
            ELSE [b EXCEPT !.front = @ + 1, !.rear = IF @ + 1 >= d THEN 0 ELSE @ + 1]]

RECURSIVE Cycled(_, _, _)
Cycled(b, words, k) == IF k = 0 THEN <<b, words>> ELSE LET s == Advance(b, words) IN Cycled(s.b, s.words, k - 1)

\* pi_srandom_r on type t: the pointers and the words.
Seeded(b, seed) ==
  LET first == IF seed = 0 THEN 1 ELSE seed
      filled == Filled(<<first>>, deg(b.type) - 1)
  IN IF b.type = 0 THEN <<b, <<first>>>>
     ELSE Cycled([b EXCEPT !.front = sep(b.type), !.rear = 0], filled, Rounds * deg(b.type))

\* The state as the recurrence has it, oldest term first.
Terms(b, words) == [i \in 1 .. Len(words) |-> words[((b.front + i - 1) % Len(words)) + 1]]
Type0(word) == (word * 5 + 3) % (Word \div 2)
-----------------------------------------------------------------------------
\* memset(&r, 0, sizeof r).
Init ==
  /\ buf = [type |-> 0, of |-> "none", front |-> 0, rear |-> 0]
  /\ arr = [x \in Arrays |-> [info |-> 0, words |-> <<>>]]
  /\ result = -1 /\ ref = [x \in Arrays |-> <<>>] /\ lost = {} /\ calls = 0

Called == calls < MaxCalls /\ calls' = calls + 1

pi_srandom_r(seed) ==
  /\ buf.of # "none" /\ Called
  /\ LET s == Seeded(buf, seed)
     IN /\ buf' = s[1]
        /\ arr' = [arr EXCEPT ![buf.of].words = s[2]]
        /\ ref' = [ref EXCEPT ![buf.of] = Terms(s[1], s[2])]
  /\ lost' = lost \ {buf.of}
  /\ UNCHANGED result

\* The comment says it saves the current state first; it does not.
pi_initstate_r(seed, x, n) ==
  /\ Called
  /\ \/ TypeOf(n) = -1 /\ UNCHANGED <<buf, arr, ref, lost>>
     \/ /\ TypeOf(n) # -1
        /\ LET s == Seeded([buf EXCEPT !.type = TypeOf(n), !.of = x], seed)
           IN /\ buf' = s[1]
              /\ arr' = [arr EXCEPT ![x] = [info |-> IF s[1].type = 0 THEN 0 ELSE s[1].rear * MAX_TYPES + s[1].type,
                                            words |-> s[2]]]
              /\ ref' = [ref EXCEPT ![x] = Terms(s[1], s[2])]
        /\ lost' = (IF buf.of = "none" \/ buf.type = 0 THEN lost ELSE lost \cup {buf.of}) \ {x}
  /\ UNCHANGED result

\* The lab's fake_random_seed starts over, on its own array of BREAK_3 bytes,
\* with the seed 0 whatever its argument.
fake_random_seed(x) ==
  /\ Called
  /\ LET s == Seeded([type |-> TypeOf(breaks[4]), of |-> x, front |-> 0, rear |-> 0], 0)
     IN /\ buf' = s[1]
        /\ arr' = [arr EXCEPT ![x] = [info |-> s[1].rear * MAX_TYPES + s[1].type, words |-> s[2]]]
        /\ ref' = [ref EXCEPT ![x] = Terms(s[1], s[2])]
  /\ lost' = (IF buf.of = "none" \/ buf.type = 0 THEN lost ELSE lost \cup {buf.of}) \ {x}
  /\ UNCHANGED result

pi_setstate_r(x) ==
  /\ buf.of # "none" /\ arr[x].words # <<>> /\ Called
  /\ LET saved == [arr EXCEPT ![buf.of].info = IF buf.type = 0 THEN 0 ELSE MAX_TYPES * buf.rear + buf.type]
         t == saved[x].info % MAX_TYPES
         rear == saved[x].info \div MAX_TYPES
     IN /\ arr' = saved
        /\ buf' = IF t = 0 THEN [buf EXCEPT !.type = t, !.of = x]
                  ELSE [type |-> t, of |-> x, rear |-> rear, front |-> (rear + sep(t)) % deg(t)]
  /\ UNCHANGED <<result, ref, lost>>

pi_random_r ==
  /\ buf.of # "none" /\ Called
  /\ LET x == buf.of
         words == arr[x].words
         s == IF buf.type = 0 THEN [words |-> <<Type0(words[1])>>, out |-> Type0(words[1]), b |-> buf]
              ELSE Advance(buf, words)
         sum == (ref[x][1] + ref[x][deg(buf.type) - sep(buf.type) + 1]) % Word
     IN /\ arr' = [arr EXCEPT ![x].words = s.words]
        /\ buf' = s.b /\ result' = s.out
        /\ ref' = [ref EXCEPT ![x] = IF buf.type = 0 THEN s.words ELSE Append(Tail(@), sum)]
  /\ UNCHANGED lost

Next ==
  \/ pi_random_r
  \/ \E seed \in Seeds : pi_srandom_r(seed) \/ \E x \in Arrays, n \in Sizes : pi_initstate_r(seed, x, n)
  \/ \E x \in Arrays : pi_setstate_r(x)
  \/ fake_random_seed(CHOOSE x \in Arrays : TRUE)
-----------------------------------------------------------------------------
(* Whatever arrays are exchanged in between, an array's numbers follow the *)
(* recurrence from where it was left: the two indices stay a separation    *)
(* apart and the words are the recurrence's last ones.  (Not for an array  *)
(* that pi_initstate_r or a new start left.)  Every word of the seeding is *)
(* 16807 times the one before, modulo 2147483647.                          *)
NumbersResume ==
  /\ \A w \in 0 .. Word - 1 : Lcg(w) % lcg.m = (lcg.a * w) % lcg.m /\ Lcg(w) \in 0 .. lcg.m - 1
  /\ buf.of # "none" =>
       /\ buf.of \notin lost => Terms(buf, arr[buf.of].words) = ref[buf.of]
       /\ buf.type # 0 => buf.front = (buf.rear + sep(buf.type)) % deg(buf.type)
  /\ \A x \in Arrays \ (lost \cup {buf.of}) : arr[x].words # <<>> =>
       LET t == arr[x].info % MAX_TYPES
       IN t = 0 \/ ref[x] = Terms([front |-> ((arr[x].info \div MAX_TYPES) + sep(t)) % deg(t)], arr[x].words)
=============================================================================
