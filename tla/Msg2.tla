-------------------------------- MODULE Msg2 --------------------------------
(***************************************************************************)
(* labs/17-nrf24l01p/code/msg2.h and its test, tests/0-test-msg2.c: a      *)
(* message is filled by puts of any size up to its size, recast as one     *)
(* received, and emptied by gets of any size.  The data of the test is a   *)
(* sequence of bytes that are all different.                               *)
(***************************************************************************)
EXTENDS Integers, Sequences, SequencesExt

CONSTANTS
  Maxbytes,  \* message sizes tried: up to NRF_MAXPKT = 32
  Sizes      \* sizes of a put or get: 1, 2, 4 and 8 by value, the others msg_put_n

VARIABLES
  msgphase,  \* "put", "get", or the panic
  data,      \* what the test puts: as long as the message
  m,         \* msg_send_t, then msg_recv_t: the bytes, put_off or get_off, the size
  out        \* history: what the gets returned

msgvars == <<msgphase, data, m, out>>

NRF_MAXPKT == 32

msg_send_mk(maxbytes) == [msg |-> [i \in 1 .. maxbytes |-> 0], off |-> 0, nbytes |-> maxbytes]
\* msg_send_to_recv: only what was put is received.
msg_send_to_recv(s) == [msg |-> SubSeq(s.msg, 1, s.off), off |-> 0, nbytes |-> s.off]

Init ==
  /\ \E n \in Maxbytes : data = [i \in 1 .. n |-> i] /\ m = msg_send_mk(n)
  /\ msgphase = "put" /\ out = <<>>

\* data_val of data_ptr: the bytes of a put of k at off.
data_ptr(off, k) == SubSeq(data, off + 1, off + k)
\* The data as an array whose elements have size bytes.
data_get(off, size) == data_ptr(off * size, size)

Panics(why) == msgphase' = why /\ UNCHANGED <<data, m, out>>

\* Bytes that there is room for go to the offset.
Copied(to, off, src) == [i \in DOMAIN to |-> IF i \in off + 1 .. off + Len(src) THEN src[i - off] ELSE to[i]]

\* Fault: the offset is advanced before the pointer is taken.
m_put_ptr_incLate(s, src) ==
  LET off == s.off + Len(src) IN [s EXCEPT !.off = off, !.msg = Copied(@, off, src)]

\* m_put_ptr_inc, and the memcpy to the pointer it returns.
m_put_ptr_inc(s, src) == [s EXCEPT !.msg = Copied(@, s.off, src), !.off = @ + Len(src)]

\* m_put_ptr checks first that the message is not full, which a put of nothing
\* would not need.
msg_put_n(k) ==
  /\ msgphase = "put"
  /\ IF m.off >= m.nbytes \/ m.nbytes - m.off < k
     THEN Panics("not enough bytes left")
     ELSE m' = m_put_ptr_inc(m, data_ptr(m.off, k)) /\ UNCHANGED <<msgphase, data, out>>

\* Two bytes and one: the low byte first, three puts.
msg_put24 ==
  /\ msgphase = "put"
  /\ IF m.nbytes - m.off < 3
     THEN Panics("not enough bytes left")
     ELSE m' = m_put_ptr_inc(m, data_ptr(m.off, 3)) /\ UNCHANGED <<msgphase, data, out>>

\* m8, m16 and m32: a message filled by puts of one size.
filled(size) ==
  FoldLeft(LAMBDA s, i : m_put_ptr_inc(s, data_get(i, size)), msg_send_mk(Len(data)), [i \in 1 .. Len(data) \div size |-> i - 1])

\* What the test wants of two messages that hold the same.
msg_send_cmp(m1, m2) ==
  /\ m1.off = m2.off /\ m1.nbytes = m2.nbytes
  /\ \A i \in 1 .. m1.nbytes : m1.msg[i] = m2.msg[i]

\* The test receives what it has put once the message is full; a program may
\* send less.
Received ==
  /\ msgphase = "put" /\ m.off > 0
  /\ msgphase' = "get" /\ m' = msg_send_to_recv(m)
  /\ UNCHANGED <<data, out>>

msg_nbytes_get == m.nbytes - m.off

msg_peek_n(k) == SubSeq(m.msg, m.off + 1, m.off + k)

msg_get_n(k) ==
  /\ msgphase = "get"
  /\ IF msg_nbytes_get < k
     THEN Panics("not enough bytes to get")
     ELSE /\ out' = out \o msg_peek_n(k)
          /\ m' = [m EXCEPT !.off = @ + k]
          /\ UNCHANGED <<msgphase, data>>

\* Three gets, and the first is taken for the high byte: msg_put24 the other
\* way round.
msg_get24 ==
  /\ msgphase = "get"
  /\ IF msg_nbytes_get < 3
     THEN Panics("not enough bytes to get")
     ELSE /\ out' = out \o Reverse(msg_peek_n(3))
          /\ m' = [m EXCEPT !.off = @ + 3]
          /\ UNCHANGED <<msgphase, data>>

Next ==
  \/ \E k \in Sizes : msg_put_n(k) \/ msg_get_n(k)
  \/ msg_put24 \/ msg_get24 \/ Received
-----------------------------------------------------------------------------
(* However the puts and the gets cut it, a message holds the data put into *)
(* it and nothing behind, and what is got is what was put, in order (three *)
(* bytes fetched by msg_get24, backwards); a put or a get that does not    *)
(* fit panics and is the only one that does.  Full, it is the message that *)
(* puts of one size would have made, whatever the size.                    *)
MessagesReadBack ==
  /\ m.off <= m.nbytes /\ m.nbytes <= NRF_MAXPKT
  /\ msgphase = "put" => \A i \in DOMAIN m.msg : m.msg[i] = IF i <= m.off THEN data[i] ELSE 0
  /\ msgphase = "put" /\ m.off = m.nbytes =>
       \A size \in Sizes \ {0} : m.nbytes % size = 0 => msg_send_cmp(filled(size), m)
  /\ msgphase = "get" =>
       /\ IsPrefix(m.msg, data) /\ Len(out) = m.off
       /\ \A i \in DOMAIN out : out[i] = data[i] \/ \E c \in i - 2 .. i : \* inside a reversed three
            c \in DOMAIN out /\ c + 2 \in DOMAIN out /\ out[i] = data[2 * c + 2 - i]
=============================================================================
