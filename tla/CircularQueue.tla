--------------------------- MODULE CircularQueue ---------------------------
(***************************************************************************)
(* The single-producer, single-consumer circular queue of                  *)
(* libpi/libc/circular.h.  head is written by the producer alone and tail  *)
(* by the consumer alone; every operation is split at its accesses to the  *)
(* variable the other side writes, so that the two sides interleave as     *)
(* volatile accesses do.                                                   *)
(***************************************************************************)
EXTENDS Integers, Sequences

CONSTANTS
  CQ_N,         \* number of slots of c_buf; one of them always stays free
  UINT,         \* 2^32: unsigned arithmetic is modulo UINT
  Elem,         \* the elements, cqe_t
  Zero,         \* what memset leaves in a slot
  Atomic,       \* the side that runs with interrupts off, if any
  ConsumerOps,  \* the operations the consumer calls
  MaxN,         \* bound: elements moved by one call
  MaxSent       \* bound: elements pushed in a behaviour

AllConsumerOps == {"pop_nonblock", "pop_n", "pop_n_noblk", "peek", "peek_n"}

ASSUME SizeAssumption == CQ_N \in Nat \ {0, 1}
ASSUME UIntAssumption == UINT \in Nat \ {0} /\ UINT % CQ_N = 0
ASSUME ElemAssumption == Zero \in Elem
ASSUME AtomicAssumption == Atomic \in {"producer", "consumer", "neither"}
ASSUME OpsAssumption == ConsumerOps \subseteq AllConsumerOps
ASSUME BoundAssumption == MaxN \in Nat \ {0} /\ MaxSent \in Nat

VARIABLES
  c_buf, head, tail, overflow,  \* the fields of cq_t
  ppc, pvals, pbulk, pret,      \* the call the producer is executing
  cpc, cop, cneed, cdata, csz, cckpt, cret,  \* the consumer's call
  sent, rcvd                    \* history: what was pushed, what was popped

qvars == <<c_buf, head, tail, overflow>>
pvars == <<ppc, pvals, pbulk, pret>>
cvars == <<cpc, cop, cneed, cdata, csz, cckpt, cret>>
vars == <<qvars, pvars, cvars, sent, rcvd>>

Slots == 0 .. CQ_N - 1
-----------------------------------------------------------------------------
\* Faults: emptiness tested one slot off, two slots kept free instead of one.
cq_emptyOffByOne == head = ((tail + 1) % CQ_N)
cq_nspaceOffByOne == CQ_N - 2 - (((head - tail) % UINT) % CQ_N)

Succ(i) == (i + 1) % CQ_N
cq_empty == head = tail
cq_full == Succ(head) = tail
cq_nelem == ((head - tail) % UINT) % CQ_N
cq_nspace == CQ_N - 1 - cq_nelem

\* panic() reboots the machine: nothing runs after it.
Running == ppc # "panic" /\ cpc # "panic"

\* The side named in Atomic runs a call to completion: an interrupt handler
\* is never preempted by the code it interrupted.
ProducerRuns == Running /\ (Atomic = "consumer" => cpc = "idle")
ConsumerRuns == Running /\ (Atomic = "producer" => ppc = "idle")

\* A blocking pop may spin only where an interrupt can still add an element.
int_is_enabled == Atomic # "consumer"

Init ==  \* cq_init
  /\ c_buf = [i \in Slots |-> Zero]
  /\ head = 0 /\ tail = 0 /\ overflow = 0
  /\ ppc = "idle" /\ pvals = <<>> /\ pbulk = FALSE /\ pret = 0
  /\ cpc = "idle" /\ cop = "none" /\ cneed = 0 /\ cdata = <<>>
  /\ csz = 0 /\ cckpt = 0 /\ cret = 0
  /\ sent = <<>> /\ rcvd = <<>>

\* The value a call returns.
PushFinish(r) == ppc' = "ret" /\ pret' = r
PopFinish(r) == cpc' = "ret" /\ cret' = r
-----------------------------------------------------------------------------
(* Faults a change to circular.h could introduce, none of them part   *)
(* of Next.                                                                *)

\* Fault: cq_push_n does not check the space first.
PushNSpaceUnchecked ==
  /\ ppc = "space"
  /\ ppc' = "full"
  /\ UNCHANGED <<qvars, pvals, pbulk, pret, cvars, sent, rcvd>>

\* Fault: the element is stored behind head.
PushStoreBehind ==
  /\ ppc = "store"
  /\ c_buf' = [c_buf EXCEPT ![Succ(head)] = Head(pvals)]
  /\ ppc' = "publish"
  /\ UNCHANGED <<head, tail, overflow, pvals, pbulk, pret, cvars, sent, rcvd>>

\* Fault: cq_pop_n_noblk does not count first.
PopNCountUnchecked ==
  /\ cpc = "count"
  /\ cpc' = "empty"
  /\ UNCHANGED <<qvars, pvars, cop, cneed, cdata, csz, cckpt, cret, sent, rcvd>>

\* Fault: the slot after the oldest element is read.
PopLoadAhead ==
  /\ cpc = "load"
  /\ cdata' = Append(cdata, c_buf[Succ(tail)])
  /\ IF cop = "peek"
       THEN PopFinish(1)
       ELSE cpc' = "advance" /\ UNCHANGED cret
  /\ UNCHANGED <<qvars, pvars, cop, cneed, csz, cckpt, sent, rcvd>>
-----------------------------------------------------------------------------
(* The producer: cq_push, and cq_push_n when pbulk.                        *)

PushCall(vals, bulk) ==
  /\ ppc = "idle"
  /\ ppc' = IF bulk THEN "space" ELSE "full"
  /\ pvals' = vals
  /\ pbulk' = bulk
  /\ UNCHANGED <<qvars, pret, cvars, sent, rcvd>>

PushNSpace ==  \* cq_push_n: if(cq_nspace(c) < n) return 0;
  /\ ppc = "space"
  /\ IF cq_nspace < Len(pvals)
       THEN PushFinish(0)
       ELSE ppc' = "full" /\ UNCHANGED pret
  /\ UNCHANGED <<qvars, pvals, pbulk, cvars, sent, rcvd>>

PushFull ==  \* a full queue fails the push; inside push_n that is a panic
  /\ ppc = "full"
  /\ cq_full
  /\ IF pbulk
       THEN ppc' = "panic" /\ UNCHANGED pret
       ELSE PushFinish(0)
  /\ UNCHANGED <<qvars, pvals, pbulk, cvars, sent, rcvd>>

PushNotFull ==
  /\ ppc = "full"
  /\ ~cq_full
  /\ ppc' = "assert"
  /\ UNCHANGED <<qvars, pvals, pbulk, pret, cvars, sent, rcvd>>

PushAssert ==  \* assert(cq_nspace(c) > 0)
  /\ ppc = "assert"
  /\ ppc' = IF cq_nspace > 0 THEN "store" ELSE "panic"
  /\ UNCHANGED <<qvars, pvals, pbulk, pret, cvars, sent, rcvd>>

PushStore ==
  /\ ppc = "store"
  /\ c_buf' = [c_buf EXCEPT ![head] = Head(pvals)]
  /\ ppc' = "publish"
  /\ UNCHANGED <<head, tail, overflow, pvals, pbulk, pret, cvars, sent, rcvd>>

PushPublish ==
  /\ ppc = "publish"
  /\ head' = Succ(head)
  /\ sent' = Append(sent, Head(pvals))
  /\ pvals' = Tail(pvals)
  /\ IF Len(pvals) = 1
       THEN PushFinish(1)
       ELSE ppc' = "full" /\ UNCHANGED pret
  /\ UNCHANGED <<c_buf, tail, overflow, pbulk, cvars, rcvd>>

PushReturn ==
  /\ ppc = "ret"
  /\ ppc' = "idle"
  /\ pvals' = <<>> /\ pbulk' = FALSE /\ pret' = 0
  /\ UNCHANGED <<qvars, cvars, sent, rcvd>>

PushStep ==
  \/ PushNSpace \/ PushFull \/ PushNotFull \/ PushAssert
  \/ PushStore \/ PushPublish
-----------------------------------------------------------------------------
(* The consumer.  cq_pop is cq_pop_n of one element.                       *)

PopCall(op, n) ==
  /\ cpc = "idle"
  /\ cop' = op
  /\ cneed' = n
  /\ cpc' = IF op = "peek_n" THEN "size"
            ELSE IF op = "pop_n_noblk" THEN "count" ELSE "empty"
  /\ UNCHANGED <<qvars, pvars, cdata, csz, cckpt, cret, sent, rcvd>>

PeekNSize ==  \* cq_peek_n: sz = cq_nelem(c); tail = c->tail
  /\ cpc = "size"
  /\ csz' = cq_nelem
  /\ cckpt' = tail
  /\ IF cneed > cq_nelem
       THEN PopFinish(0)
       ELSE cpc' = "count" /\ UNCHANGED cret
  /\ UNCHANGED <<qvars, pvars, cop, cneed, cdata, sent, rcvd>>

PopNCount ==  \* cq_pop_n_noblk: if(cq_nelem(q) < n) return 0;
  /\ cpc = "count"
  /\ IF cq_nelem < cneed
       THEN PopFinish(0)
       ELSE cpc' = "empty" /\ UNCHANGED cret
  /\ UNCHANGED <<qvars, pvars, cop, cneed, cdata, csz, cckpt, sent, rcvd>>

PopEmpty ==  \* with interrupts on a blocking pop just looks again
  /\ cpc = "empty"
  /\ cq_empty
  /\ \/ cop \in {"pop_nonblock", "peek"} /\ PopFinish(0)
     \/ /\ cop \notin {"pop_nonblock", "peek"}
        /\ ~int_is_enabled
        /\ cpc' = "panic"
        /\ UNCHANGED cret
  /\ UNCHANGED <<qvars, pvars, cop, cneed, cdata, csz, cckpt, sent, rcvd>>

PopNotEmpty ==
  /\ cpc = "empty"
  /\ ~cq_empty
  /\ cpc' = "load"
  /\ UNCHANGED <<qvars, pvars, cop, cneed, cdata, csz, cckpt, cret, sent, rcvd>>

PopLoad ==
  /\ cpc = "load"
  /\ cdata' = Append(cdata, c_buf[tail])
  /\ IF cop = "peek"
       THEN PopFinish(1)
       ELSE cpc' = "advance" /\ UNCHANGED cret
  /\ UNCHANGED <<qvars, pvars, cop, cneed, csz, cckpt, sent, rcvd>>

PopAdvance ==
  /\ cpc = "advance"
  /\ tail' = Succ(tail)
  /\ cneed' = cneed - 1
  /\ rcvd' = IF cop = "peek_n" THEN rcvd ELSE Append(rcvd, cdata[Len(cdata)])
  /\ \/ cneed > 1 /\ cpc' = "empty" /\ UNCHANGED cret
     \/ cneed = 1 /\ cop = "peek_n" /\ cpc' = "rewind" /\ UNCHANGED cret
     \/ cneed = 1 /\ cop # "peek_n" /\ PopFinish(1)
  /\ UNCHANGED <<c_buf, head, overflow, pvars, cop, cdata, csz, cckpt, sent>>

PeekNRewind ==  \* c->tail = tail, which is cq_restore
  /\ cpc = "rewind"
  /\ tail' = cckpt
  /\ cpc' = "resize"
  /\ UNCHANGED <<c_buf, head, overflow, pvars, cop, cneed, cdata, csz, cckpt,
                 cret, sent, rcvd>>

PeekNAssert ==  \* assert(sz == cq_nelem(c))
  /\ cpc = "resize"
  /\ IF csz = cq_nelem
       THEN PopFinish(1)
       ELSE cpc' = "panic" /\ UNCHANGED cret
  /\ UNCHANGED <<qvars, pvars, cop, cneed, cdata, csz, cckpt, sent, rcvd>>

PopReturn ==
  /\ cpc = "ret"
  /\ cpc' = "idle"
  /\ cop' = "none" /\ cneed' = 0 /\ cdata' = <<>>
  /\ csz' = 0 /\ cckpt' = 0 /\ cret' = 0
  /\ UNCHANGED <<qvars, pvars, sent, rcvd>>

PopStep ==
  \/ PeekNSize \/ PopNCount \/ PopEmpty \/ PopNotEmpty \/ PopLoad
  \/ PopAdvance \/ PeekNRewind \/ PeekNAssert
-----------------------------------------------------------------------------
(* Clients that may call anything, within the bounds.                      *)

Singles == {"pop_nonblock", "peek"}

Batches == UNION {[1 .. n -> Elem] : n \in 1 .. MaxN}

Producer ==
  /\ ProducerRuns
  /\ \/ \E vals \in Batches, bulk \in BOOLEAN :
          /\ bulk \/ Len(vals) = 1
          /\ Len(sent) + Len(vals) <= MaxSent
          /\ PushCall(vals, bulk)
     \/ PushStep
     \/ PushReturn

Consumer ==
  /\ ConsumerRuns
  /\ \/ \E op \in ConsumerOps, n \in 1 .. MaxN :
          /\ op \in Singles => n = 1
          /\ PopCall(op, n)
     \/ PopStep
     \/ PopReturn

Next == Producer \/ Consumer

Spec == Init /\ [][Next]_vars
-----------------------------------------------------------------------------
ProducerPCs == {"idle", "space", "full", "assert", "store", "publish", "ret",
                "panic"}
ConsumerPCs == {"idle", "size", "count", "empty", "load", "advance", "rewind",
                "resize", "ret", "panic"}

(* Types of the fields and of the two calls in progress.                   *)
TypeOK ==
  /\ c_buf \in [Slots -> Elem]
  /\ head \in Slots /\ tail \in Slots /\ overflow = 0
  /\ ppc \in ProducerPCs /\ pvals \in Seq(Elem)
  /\ pbulk \in BOOLEAN /\ pret \in {0, 1}
  /\ ppc \notin {"idle", "ret"} => Len(pvals) > 0
  /\ cpc \in ConsumerPCs /\ cop \in AllConsumerOps \cup {"none"}
  /\ cneed \in Nat /\ cdata \in Seq(Elem)
  /\ csz \in Nat /\ cckpt \in Slots /\ cret \in {0, 1}
  /\ cpc \in {"size", "count", "empty", "load", "advance"} => cneed > 0
  /\ cpc = "advance" => Len(cdata) > 0
  /\ sent \in Seq(Elem) /\ rcvd \in Seq(Elem)

\* cq_peek_n moves tail back, so a push may not run in the middle of it.
PeekSafe == "peek_n" \in ConsumerOps => Atomic = "consumer"

\* Elements pushed and not yet popped; a peek has popped none.
Inside == Len(sent) - Len(rcvd)

(* The queue is a FIFO channel of CQ_N - 1 elements: whatever way the two  *)
(* sides' accesses to head, tail and the slots interleave, cq_pop* deliver *)
(* what cq_push* accepted, in order, once, and never more than fits.       *)
F == INSTANCE Fifo WITH Capacity <- CQ_N - 1
ImplementsFifo == F!Spec

(* No assertion or panic of circular.h is reached: cq_push finds the space *)
(* cq_full promised, cq_push_n the space cq_nspace promised ("impossible:  *)
(* buffer should have space"), cq_peek_n the count it started with.  What  *)
(* remains is the panic cq_pop announces: an empty queue and no interrupts.*)
OnlyDeadlockPanics ==
  /\ ppc # "panic"
  /\ cpc = "panic" => cop = "pop_n" /\ ~int_is_enabled /\ Inside = 0

(* Single mutator of head, single mutator of tail = lock free: the slot    *)
(* cq_push is filling is never the slot cq_pop is reading.                 *)
NoDataRace ==
  ~ (ppc \in {"store", "publish"} /\ cpc \in {"load", "advance"} /\ head = tail)

(* cq_pop_n_noblk and cq_peek_n call the blocking cq_pop, but only after   *)
(* counting: they never spin.                                              *)
NoblkNeverSpins ==
  cop \in {"pop_n_noblk", "peek_n"} /\ cpc = "empty" => ~cq_empty

(* A push is refused only when its elements do not fit, a pop or a peek    *)
(* only when there are fewer elements than it wants, as counted at the     *)
(* moment of the refusing test.                                            *)
RefusalIsHonest ==
  [][/\ ppc # "ret" /\ ppc' = "ret" /\ pret' = 0
          => Inside + Len(pvals) > CQ_N - 1
     /\ cpc # "ret" /\ cpc' = "ret" /\ cret' = 0
          => Inside < cneed]_vars

(* The assertion that closes cq_peek_n, "non-destructively peek ahead <n>  *)
(* entries": the count it finds is the count it started from.              *)
PeekNCountStable == cpc = "panic" => cop # "peek_n"

(* A successful peek returned the oldest elements inside and left them     *)
(* there for the next pop.                                                 *)
PeekIsNonDestructive ==
  cpc = "ret" /\ cop \in {"peek", "peek_n"} /\ cret = 1 =>
    /\ tail = Len(rcvd) % CQ_N
    /\ Len(cdata) > 0 /\ Len(cdata) <= Inside
    /\ \A j \in 1 .. Len(cdata) : cdata[j] = sent[Len(rcvd) + j]
-----------------------------------------------------------------------------
(* The inductive invariant.  Ahead is how far a peek has moved tail.       *)

Ahead ==
  IF cop = "peek_n" /\ cpc \in {"empty", "load", "advance", "rewind"}
    THEN Len(cdata) - (IF cpc = "advance" THEN 1 ELSE 0)
    ELSE 0

ReadPos == Len(rcvd) + Ahead

RingInv ==
  /\ ReadPos <= Len(sent)
  /\ Inside <= CQ_N - 1
  /\ head = Len(sent) % CQ_N
  /\ tail = ReadPos % CQ_N
  /\ \A i \in Len(rcvd) + 1 .. Len(sent) : c_buf[(i - 1) % CQ_N] = sent[i]
  /\ \A i \in 1 .. Len(rcvd) : rcvd[i] = sent[i]

ProducerInv ==
  /\ ppc # "panic"
  /\ ppc \in {"assert", "store", "publish"} => Inside < CQ_N - 1
  /\ ppc = "publish" => c_buf[head] = Head(pvals)
  /\ pbulk /\ ppc \in {"full", "assert", "store", "publish"} =>
       Inside + Len(pvals) <= CQ_N - 1

\* Between cq_nelem and the assertion of cq_peek_n.
Peeking ==
  /\ cop = "peek_n"
  /\ cpc \in {"count", "empty", "load", "advance", "rewind", "resize"}

ConsumerInv ==
  /\ cpc # "idle" => cop \in ConsumerOps
  /\ cpc \in {"rewind", "resize"} => cop = "peek_n"
  /\ cpc \in {"idle", "size", "count"} => Len(cdata) = 0
  /\ cop = "peek" /\ cpc \in {"empty", "load"} => Len(cdata) = 0
  /\ cpc = "advance" => cop # "peek"
  /\ cpc \in {"rewind", "resize"} => Len(cdata) > 0
  /\ cpc \in {"load", "advance"} => ReadPos < Len(sent)
  /\ cpc = "advance" => cdata[Len(cdata)] = sent[ReadPos + 1]
  /\ cop \in {"pop_n_noblk", "peek_n"} /\ cpc \in {"empty", "load", "advance"} =>
       ReadPos + cneed <= Len(sent)
  /\ cop \in {"peek", "peek_n"} =>
       /\ Len(cdata) <= Inside
       /\ \A j \in 1 .. Len(cdata) : cdata[j] = sent[Len(rcvd) + j]
  /\ cop \in {"peek", "peek_n"} /\ cpc = "ret" /\ cret = 1 => Len(cdata) > 0
  /\ Peeking => csz = Inside /\ cckpt = Len(rcvd) % CQ_N
  /\ cpc = "panic" => cop = "pop_n" /\ ~int_is_enabled /\ Inside = 0

IInv == TypeOK /\ RingInv /\ ProducerInv /\ ConsumerInv
=============================================================================
