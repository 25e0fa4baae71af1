------------------------ MODULE CircularQueueProofs ------------------------
(***************************************************************************)
(* The circular queue is a FIFO channel for every size, element set and    *)
(* interleaving, and no assertion or panic of circular.h is reachable,     *)
(* except the deadlock panic of a blocking pop.  The argument is the       *)
(* invariant IInv of CircularQueue.                                        *)
(***************************************************************************)
EXTENDS CircularQueue, Arithmetic, TLAPS

-----------------------------------------------------------------------------
(* The constants as the proofs use them.                                   *)
LEMMA Constants ==
  /\ CQ_N \in Nat \ {0} /\ CQ_N > 1
  /\ UINT \in Nat \ {0} /\ UINT % CQ_N = 0
  /\ 0 \in Slots /\ Zero \in Elem
  /\ ConsumerOps \subseteq AllConsumerOps
  /\ \A i \in Int : i % CQ_N \in Slots
  /\ \A i \in Slots : i \in Nat /\ Succ(i) \in Slots
<1>1. \A i \in Int : i % CQ_N \in Slots
  BY SizeAssumption, ModDef DEF Slots
<1>2. ASSUME NEW i \in Slots PROVE i \in Nat /\ Succ(i) \in Slots
  <2>1. i \in Nat /\ i + 1 \in Int
    BY SizeAssumption DEF Slots
  <2> QED BY <2>1, <1>1 DEF Succ
<1>3. 0 \in Slots
  BY SizeAssumption DEF Slots
<1> QED BY SizeAssumption, UIntAssumption, ElemAssumption, OpsAssumption,
           <1>1, <1>2, <1>3

(* The distance of two slots, as cq_nelem computes it, is the distance of  *)
(* the counts they stand for.                                              *)
LEMMA ModDistance ==
  \A a, b \in Nat : a <= b /\ b < a + CQ_N =>
    (((b % CQ_N) - (a % CQ_N)) % UINT) % CQ_N = b - a
<1> DEFINE m == CQ_N
           u == UINT
<1>0. m \in Nat \ {0} /\ u \in Nat \ {0} /\ u % m = 0
  BY Constants
<1> HIDE DEF m, u
<1> SUFFICES ASSUME NEW a \in Nat, NEW b \in Nat, a <= b, b < a + m
             PROVE  (((b % m) - (a % m)) % u) % m = b - a
  BY DEF m, u
<1> DEFINE qa == a \div m
           qb == b \div m
           ra == a % m
           rb == b % m
           k == u \div m
           d == rb - ra
           t == d \div u
           s == d % u
<1>1. ra \in 0 .. m - 1 /\ qa \in Int /\ a = qa * m + ra
  BY <1>0, ModDef
<1>2. rb \in 0 .. m - 1 /\ qb \in Int /\ b = qb * m + rb
  BY <1>0, ModDef
<1>3. k \in Int /\ u = k * m
  BY <1>0, ModDef
<1>4. d \in Int
  BY <1>0, <1>1, <1>2
<1>5. t \in Int /\ s \in Int /\ d = t * u + s
  BY <1>0, <1>4, ModDef
<1> HIDE DEF qa, qb, ra, rb, k, d, t, s
<1>6. d = (b - a) + (qa - qb) * m
  BY <1>1, <1>2, <1>0, Z3 DEF d
<1>7. s = ((qa - qb) - t * k) * m + (b - a)
  <2>1. t * u = (t * k) * m
    BY <1>3, <1>5, <1>0, Z3
  <2>2. DEFINE x == t * k
  <2>3. x \in Int
    BY <1>0, <1>3, <1>5
  <2> HIDE DEF x
  <2>4. ((qa - qb) - x) * m = (qa - qb) * m - x * m
    BY <2>3, <1>1, <1>2, <1>0, Z3
  <2>5. t * u = x * m
    BY <2>1 DEF x
  <2>6. x * m \in Int /\ (qa - qb) * m \in Int
    BY <1>0, <1>1, <1>2, <2>3
  <2>7. s = ((b - a) + (qa - qb) * m) - x * m
    BY <2>5, <2>6, <1>5, <1>6
  <2>8. s = ((qa - qb) - x) * m + (b - a)
    BY <2>4, <2>6, <2>7
  <2> QED BY <2>8 DEF x
<1>8. ((qa - qb) - t * k) \in Int /\ b - a \in 0 .. m - 1
  BY <1>0, <1>1, <1>2, <1>3, <1>5
<1>9. s % m = b - a
  BY <1>7, <1>8, <1>0, ModUnique
<1> QED BY <1>9 DEF s, d, ra, rb
(* cq_nelem and cq_nspace are natural numbers.                             *)
LEMMA CountType == TypeOK => cq_nelem \in Nat /\ cq_nspace \in Int
<1> SUFFICES ASSUME TypeOK PROVE cq_nelem \in Nat /\ cq_nspace \in Int
  OBVIOUS
<1>1. head - tail \in Int
  BY Constants DEF TypeOK, Slots
<1>2. (head - tail) % UINT \in Int
  BY <1>1, Constants, ModDef
<1>3. cq_nelem \in 0 .. CQ_N - 1
  BY <1>2, Constants, ModDef DEF cq_nelem
<1> QED BY <1>3, Constants DEF cq_nspace

(* Batches are nonempty sequences of elements.                             *)
LEMMA BatchType == \A b \in Batches : b \in Seq(Elem) /\ Len(b) > 0
<1> SUFFICES ASSUME NEW n \in 1 .. MaxN, NEW b \in [1 .. n -> Elem]
             PROVE  b \in Seq(Elem) /\ Len(b) > 0
  BY DEF Batches
<1>1. n \in Nat /\ MaxN \in Nat
  BY BoundAssumption
<1>2. b \in Seq(Elem) /\ Len(b) = n
  BY <1>1
<1> QED BY <1>1, <1>2

(* A producer step keeps the types.                                        *)
LEMMA ProducerType == TypeOK /\ Producer => TypeOK'
<1> SUFFICES ASSUME TypeOK, Producer PROVE TypeOK'
  OBVIOUS
<1> USE DEF TypeOK, ProducerPCs, qvars, cvars, PushFinish
<1>1. ASSUME NEW vals \in Batches, NEW bulk \in BOOLEAN, PushCall(vals, bulk)
      PROVE  TypeOK'
  BY <1>1, BatchType DEF PushCall
<1>2. CASE PushNSpace
  BY <1>2 DEF PushNSpace
<1>3. CASE PushFull
  BY <1>3 DEF PushFull
<1>4. CASE PushNotFull
  BY <1>4 DEF PushNotFull
<1>5. CASE PushAssert
  BY <1>5 DEF PushAssert
<1>6. CASE PushStore
  <2>1. Head(pvals) \in Elem
    BY <1>6 DEF PushStore
  <2> QED BY <1>6, <2>1 DEF PushStore
<1>7. CASE PushPublish
  <2>1. Head(pvals) \in Elem /\ Tail(pvals) \in Seq(Elem)
    BY <1>7 DEF PushPublish
  <2>2. Len(pvals) # 1 => Len(Tail(pvals)) > 0
    <3>1. pvals # <<>> /\ Len(pvals) \in Nat /\ Len(pvals) > 0
      BY <1>7 DEF PushPublish
    <3>2. Len(Tail(pvals)) = Len(pvals) - 1
      BY <3>1
    <3> QED BY <3>1, <3>2
  <2>3. Append(sent, Head(pvals)) \in Seq(Elem)
    BY <2>1
  <2>4. Succ(head) \in Slots
    BY Constants
  <2> QED BY <1>7, <2>1, <2>2, <2>3, <2>4 DEF PushPublish
<1>8. CASE PushReturn
  <2>1. <<>> \in Seq(Elem)
    OBVIOUS
  <2> QED BY <1>8, <2>1 DEF PushReturn
<1> HIDE DEF TypeOK
<1>9. PushStep => TypeOK'
  BY <1>2, <1>3, <1>4, <1>5, <1>6, <1>7 DEF PushStep
<1> QED BY <1>1, <1>8, <1>9, Zenon DEF Producer

(* A consumer step keeps the types.                                        *)
LEMMA ConsumerType == TypeOK /\ Consumer => TypeOK'
<1> SUFFICES ASSUME TypeOK, Consumer PROVE TypeOK'
  OBVIOUS
<1> USE DEF TypeOK, ConsumerPCs, qvars, pvars, PopFinish
<1>1. ASSUME NEW op \in ConsumerOps, NEW n \in 1 .. MaxN, PopCall(op, n)
      PROVE  TypeOK'
  <2>1. op \in AllConsumerOps /\ n \in Nat /\ n > 0
    BY Constants, BoundAssumption
  <2> QED BY <1>1, <2>1 DEF PopCall
<1>2. CASE PeekNSize
  BY <1>2, CountType DEF PeekNSize
<1>3. CASE PopNCount
  BY <1>3 DEF PopNCount
<1>4. CASE PopEmpty
  BY <1>4 DEF PopEmpty
<1>5. CASE PopNotEmpty
  BY <1>5 DEF PopNotEmpty
<1>6. CASE PopLoad
  <2>1. c_buf[tail] \in Elem
    OBVIOUS
  <2>2. Append(cdata, c_buf[tail]) \in Seq(Elem)
        /\ Len(Append(cdata, c_buf[tail])) > 0
    BY <2>1
  <2> QED BY <1>6, <2>2 DEF PopLoad
<1>7. CASE PopAdvance
  <2>1. cdata[Len(cdata)] \in Elem
    BY <1>7 DEF PopAdvance
  <2>2. rcvd' \in Seq(Elem)
    BY <1>7, <2>1 DEF PopAdvance
  <2>3. Succ(tail) \in Slots
    BY Constants
  <2> QED BY <1>7, <2>2, <2>3 DEF PopAdvance
<1>8. CASE PeekNRewind
  BY <1>8 DEF PeekNRewind
<1>9. CASE PeekNAssert
  BY <1>9 DEF PeekNAssert
<1>10. CASE PopReturn
  <2>1. <<>> \in Seq(Elem)
    OBVIOUS
  <2> QED BY <1>10, <2>1, Constants DEF PopReturn
<1> HIDE DEF TypeOK
<1>11. PopStep => TypeOK'
  BY <1>2, <1>3, <1>4, <1>5, <1>6, <1>7, <1>8, <1>9 DEF PopStep
<1> QED BY <1>1, <1>10, <1>11, Zenon DEF Consumer

(* The fields of cq_t and the calls in progress keep their types.          *)
THEOREM TypeCorrect == Spec => []TypeOK
<1>1. Init => TypeOK
  <2> SUFFICES ASSUME Init PROVE TypeOK
    OBVIOUS
  <2>1. c_buf \in [Slots -> Elem]
    BY Constants DEF Init
  <2>2. <<>> \in Seq(Elem)
    OBVIOUS
  <2> QED BY <2>1, <2>2, Constants DEF Init, TypeOK, ProducerPCs, ConsumerPCs
<1>2. TypeOK /\ [Next]_vars => TypeOK'
  <2>1. TypeOK /\ Next => TypeOK'
    BY ProducerType, ConsumerType DEF Next
  <2>2. TypeOK /\ UNCHANGED vars => TypeOK'
    BY DEF TypeOK, vars, qvars, pvars, cvars
  <2> QED BY <2>1, <2>2
<1> QED BY <1>1, <1>2, PTL DEF Spec
-----------------------------------------------------------------------------
(* Adding the size of the ring to a count does not move its slot.          *)
LEMMA ModShift ==
  ASSUME NEW m \in Nat \ {0}, NEW a \in Nat
  PROVE  (a + m) % m = a % m
<1> DEFINE q == a \div m
           r == a % m
<1>1. r \in 0 .. m - 1 /\ q \in Int /\ a = q * m + r
  BY ModDef
<1> HIDE DEF q, r
<1>2. a + m = (q + 1) * m + r /\ q + 1 \in Int
  BY <1>1, Z3
<1>3. ((q + 1) * m + r) % m = r
  BY <1>1, <1>2, ModUnique
<1> QED BY <1>2, <1>3 DEF r

(* What the helpers of circular.h compute from head and tail, in terms of  *)
(* the elements pushed and read: the tests of the code are exact.          *)
LEMMA View ==
  TypeOK /\ RingInv =>
    /\ Len(sent) \in Nat /\ Len(rcvd) \in Nat /\ Len(cdata) \in Nat
    /\ Ahead \in Nat /\ ReadPos \in Nat
    /\ ReadPos >= Len(rcvd) /\ ReadPos <= Len(sent)
    /\ cq_nelem = Len(sent) - ReadPos
    /\ cq_nspace = CQ_N - 1 - (Len(sent) - ReadPos)
    /\ cq_empty <=> ReadPos = Len(sent)
    /\ cq_full <=> Len(sent) - ReadPos = CQ_N - 1
<1> SUFFICES ASSUME TypeOK, RingInv
             PROVE
               /\ Len(sent) \in Nat /\ Len(rcvd) \in Nat /\ Len(cdata) \in Nat
               /\ Ahead \in Nat /\ ReadPos \in Nat
               /\ ReadPos >= Len(rcvd) /\ ReadPos <= Len(sent)
               /\ cq_nelem = Len(sent) - ReadPos
               /\ cq_nspace = CQ_N - 1 - (Len(sent) - ReadPos)
               /\ cq_empty <=> ReadPos = Len(sent)
               /\ cq_full <=> Len(sent) - ReadPos = CQ_N - 1
  OBVIOUS
<1>1. Len(sent) \in Nat /\ Len(rcvd) \in Nat /\ Len(cdata) \in Nat
  BY DEF TypeOK
<1>2. Ahead \in Nat
  BY <1>1 DEF Ahead, TypeOK
<1>3. ReadPos \in Nat /\ ReadPos >= Len(rcvd) /\ ReadPos <= Len(sent)
  BY <1>1, <1>2 DEF ReadPos, RingInv
<1>4. Len(sent) < ReadPos + CQ_N
  BY <1>1, <1>3, Constants DEF RingInv, Inside
<1>5. head = Len(sent) % CQ_N /\ tail = ReadPos % CQ_N
  BY DEF RingInv
<1> HIDE DEF ReadPos
<1>6. cq_nelem = Len(sent) - ReadPos
  <2>1. (((Len(sent) % CQ_N) - (ReadPos % CQ_N)) % UINT) % CQ_N
           = Len(sent) - ReadPos
    BY <1>1, <1>3, <1>4, ModDistance, Zenon
  <2> QED BY <2>1, <1>5 DEF cq_nelem
<1>7. cq_nspace = CQ_N - 1 - (Len(sent) - ReadPos)
  BY <1>6 DEF cq_nspace
<1>8. cq_empty <=> ReadPos = Len(sent)
  BY <1>1, <1>3, <1>4, <1>5, Constants, ModInjective DEF cq_empty
<1>9. Succ(head) = (Len(sent) + 1) % CQ_N
  BY <1>1, <1>5, Constants, SuccMod DEF Succ
<1>10. CASE Len(sent) - ReadPos = CQ_N - 1
  <2>1. Len(sent) + 1 = ReadPos + CQ_N
    BY <1>10, <1>1, <1>3, Constants
  <2>2. (ReadPos + CQ_N) % CQ_N = ReadPos % CQ_N
    BY <1>3, Constants, ModShift
  <2>3. cq_full
    BY <2>1, <2>2, <1>5, <1>9 DEF cq_full
  <2> QED BY <2>3, <1>10, <1>1, <1>2, <1>3, <1>6, <1>7, <1>8
<1>11. CASE Len(sent) - ReadPos # CQ_N - 1
  <2>1. Len(sent) + 1 \in Nat /\ ReadPos <= Len(sent) + 1
        /\ Len(sent) + 1 < ReadPos + CQ_N
    <3>1. CQ_N \in Nat
      BY Constants
    <3> QED BY <3>1, <1>11, <1>1, <1>3, <1>4
  <2>2. ASSUME cq_full PROVE FALSE
    <3>1. (Len(sent) + 1) % CQ_N = ReadPos % CQ_N
      BY <2>2, <1>5, <1>9 DEF cq_full
    <3>2. ReadPos = Len(sent) + 1
      BY <3>1, <2>1, <1>3, Constants, ModInjective
    <3> QED BY <3>2, <1>1, <1>3
  <2> QED BY <2>2, <1>11, <1>1, <1>2, <1>3, <1>6, <1>7, <1>8
<1> QED BY <1>10, <1>11

(* While the producer may run no peek is under way, so tail stands where   *)
(* the last pop left it.                                                   *)
LEMMA ProducerView ==
  PeekSafe /\ IInv /\ ProducerRuns => Ahead = 0 /\ ~Peeking /\ cpc # "panic"
<1> SUFFICES ASSUME PeekSafe, IInv, ProducerRuns
             PROVE  Ahead = 0 /\ ~Peeking /\ cpc # "panic"
  OBVIOUS
<1>1. ASSUME cop = "peek_n", cpc # "idle" PROVE FALSE
  <2>1. "peek_n" \in ConsumerOps
    BY <1>1 DEF IInv, ConsumerInv
  <2> QED BY <2>1, <1>1 DEF PeekSafe, ProducerRuns
<1> QED BY <1>1 DEF Ahead, Peeking, ProducerRuns, Running

(* A step of the producer that writes neither head nor a slot leaves the   *)
(* ring and the consumer's call as they are.                               *)
LEMMA RingUnchanged ==
  IInv /\ UNCHANGED <<qvars, cvars, sent, rcvd>> => RingInv' /\ ConsumerInv'
<1> SUFFICES ASSUME IInv, UNCHANGED <<qvars, cvars, sent, rcvd>>
             PROVE  RingInv' /\ ConsumerInv'
  OBVIOUS
<1>1. /\ Ahead' = Ahead /\ Inside' = Inside /\ Peeking' = Peeking
      /\ ReadPos' = ReadPos
  BY DEF Ahead, Inside, Peeking, ReadPos, cvars
<1>2. RingInv'
  BY <1>1 DEF IInv, RingInv, qvars
<1>3. ConsumerInv'
  BY <1>1 DEF IInv, ConsumerInv, cvars, qvars
<1> QED BY <1>2, <1>3

(* The tests of a push: cq_push_n's count, cq_full and the assertion of    *)
(* cq_push find the space they promise to the steps after them.            *)
LEMMA PushTestsInv ==
  ASSUME PeekSafe, IInv, ProducerRuns,
         PushNSpace \/ PushFull \/ PushNotFull \/ PushAssert
  PROVE  RingInv' /\ ProducerInv' /\ ConsumerInv'
<1> USE DEF IInv
<1>1. UNCHANGED <<qvars, cvars, sent, rcvd>>
  BY DEF PushNSpace, PushFull, PushNotFull, PushAssert, PushFinish
<1>2. RingInv' /\ ConsumerInv'
  BY <1>1, RingUnchanged
<1>3. /\ Inside \in Nat /\ Inside <= CQ_N - 1 /\ Len(pvals) \in Nat
      /\ CQ_N \in Nat
      /\ cq_nspace = CQ_N - 1 - Inside
      /\ cq_full <=> Inside = CQ_N - 1
  <2>1. Ahead = 0 /\ TypeOK /\ RingInv
    BY ProducerView
  <2>2. Len(sent) \in Nat /\ Len(rcvd) \in Nat /\ ReadPos = Len(rcvd)
    BY <2>1, View DEF ReadPos
  <2>3. CQ_N \in Nat /\ Len(pvals) \in Nat
    BY <2>1, Constants DEF TypeOK
  <2>4. /\ cq_nspace = CQ_N - 1 - Inside
        /\ cq_full <=> Inside = CQ_N - 1
        /\ Len(rcvd) <= Len(sent)
    BY <2>1, <2>2, View DEF Inside
  <2>5. Inside <= CQ_N - 1
    BY <2>1 DEF RingInv
  <2> QED BY <2>2, <2>3, <2>4, <2>5 DEF Inside
<1>4. Inside' = Inside /\ c_buf' = c_buf /\ head' = head
  BY <1>1 DEF Inside, qvars
<1> HIDE DEF IInv
<1>5. CASE PushNSpace
  BY <1>2, <1>3, <1>4, <1>5 DEF PushNSpace, PushFinish, ProducerInv, IInv
<1>6. CASE PushFull
  <2>1. Len(pvals) > 0
    BY <1>6 DEF PushFull, IInv, TypeOK
  <2>2. ~pbulk
    BY <2>1, <1>3, <1>6 DEF PushFull, ProducerInv, IInv
  <2> QED BY <2>2, <1>2, <1>4, <1>6 DEF PushFull, PushFinish, ProducerInv, IInv
<1>7. CASE PushNotFull
  BY <1>2, <1>3, <1>4, <1>7 DEF PushNotFull, ProducerInv, IInv
<1>8. CASE PushAssert
  BY <1>2, <1>3, <1>4, <1>8 DEF PushAssert, ProducerInv, IInv
<1> QED BY <1>2, <1>5, <1>6, <1>7, <1>8

(* The call and the return of a push touch neither ring nor consumer.      *)
LEMMA PushCallInv ==
  ASSUME IInv,
         PushReturn \/ \E vals \in Seq(Elem), bulk \in BOOLEAN : PushCall(vals, bulk)
  PROVE  RingInv' /\ ProducerInv' /\ ConsumerInv'
<1>1. UNCHANGED <<qvars, cvars, sent, rcvd>>
  BY DEF PushCall, PushReturn
<1>2. RingInv' /\ ConsumerInv'
  BY <1>1, RingUnchanged
<1>3. CASE PushReturn
  BY <1>2, <1>3 DEF PushReturn, ProducerInv
<1>4. ASSUME NEW vals \in Seq(Elem), NEW bulk \in BOOLEAN, PushCall(vals, bulk)
      PROVE  ProducerInv'
  BY <1>4 DEF PushCall, ProducerInv
<1> QED BY <1>2, <1>3, <1>4

(* The store goes to a slot that holds no element inside the queue.        *)
LEMMA PushStoreInv ==
  ASSUME PeekSafe, IInv, ProducerRuns, PushStore
  PROVE  RingInv' /\ ProducerInv' /\ ConsumerInv'
<1>1. /\ Len(sent) \in Nat /\ Len(rcvd) \in Nat /\ CQ_N \in Nat \ {0}
      /\ Inside < CQ_N - 1 /\ ppc = "store"
      /\ head = Len(sent) % CQ_N
      /\ c_buf \in [Slots -> Elem] /\ head \in Slots
      /\ pvals \in Seq(Elem) /\ Len(pvals) > 0
  BY View, Constants DEF PushStore, IInv, ProducerInv, RingInv, TypeOK
<1>2. /\ ppc' = "publish" /\ c_buf' = [c_buf EXCEPT ![head] = Head(pvals)]
      /\ UNCHANGED <<head, tail, overflow, pvals, pbulk, pret>>
      /\ UNCHANGED <<cvars, sent, rcvd>>
  BY DEF PushStore
<1>3. /\ Ahead' = Ahead /\ Inside' = Inside /\ Peeking' = Peeking
      /\ ReadPos' = ReadPos
  BY <1>2 DEF Ahead, Inside, Peeking, ReadPos, cvars
<1>4. ASSUME NEW i \in Len(rcvd) + 1 .. Len(sent)
      PROVE  c_buf'[(i - 1) % CQ_N] = sent[i]
  <2>1. i - 1 \in Nat /\ i - 1 <= Len(sent) /\ Len(sent) < (i - 1) + CQ_N
        /\ i - 1 # Len(sent)
    BY <1>1 DEF Inside
  <2>2. (i - 1) % CQ_N # Len(sent) % CQ_N
    BY <2>1, <1>1, ModInjective
  <2>3. (i - 1) % CQ_N \in Slots
    <3>1. i - 1 \in Int
      BY <2>1
    <3> QED BY <3>1, Constants, Zenon
  <2>4. c_buf[(i - 1) % CQ_N] = sent[i]
    BY DEF IInv, RingInv
  <2> HIDE DEF Slots
  <2> QED BY <2>2, <2>3, <2>4, <1>1, <1>2
<1>5. RingInv'
  BY <1>2, <1>3, <1>4 DEF IInv, RingInv
<1>6. c_buf'[head'] = Head(pvals')
  BY <1>1, <1>2
<1>7. ProducerInv'
  BY <1>1, <1>2, <1>3, <1>6 DEF IInv, ProducerInv
<1>8. ConsumerInv'
  BY <1>2, <1>3 DEF IInv, ConsumerInv, cvars
<1> QED BY <1>5, <1>7, <1>8

(* What Append leaves in place and what it adds.                           *)
LEMMA AppendFacts ==
  ASSUME NEW S, NEW q \in Seq(S), NEW e \in S
  PROVE  /\ Append(q, e) \in Seq(S)
         /\ Len(Append(q, e)) = Len(q) + 1
         /\ \A i \in 1 .. Len(q) : Append(q, e)[i] = q[i]
         /\ Append(q, e)[Len(q) + 1] = e
OBVIOUS

(* Publishing head adds exactly the stored element to the queue.           *)
LEMMA PushPublishInv ==
  ASSUME PeekSafe, IInv, ProducerRuns, PushPublish
  PROVE  RingInv' /\ ProducerInv' /\ ConsumerInv'
<1>1. /\ Ahead = 0 /\ ~Peeking /\ cpc # "panic"
      /\ Len(sent) \in Nat /\ Len(rcvd) \in Nat /\ Len(cdata) \in Nat
      /\ ReadPos = Len(rcvd) /\ Len(rcvd) <= Len(sent)
      /\ CQ_N \in Nat \ {0}
  BY ProducerView, View, Constants DEF ReadPos, IInv
<1>2. /\ Inside < CQ_N - 1 /\ c_buf[head] = Head(pvals)
      /\ head = Len(sent) % CQ_N
      /\ sent \in Seq(Elem) /\ pvals \in Seq(Elem) /\ Len(pvals) \in Nat
      /\ Len(pvals) > 0 /\ Head(pvals) \in Elem
  BY DEF PushPublish, IInv, TypeOK, ProducerInv, RingInv
<1>3. /\ head' = Succ(head) /\ sent' = Append(sent, Head(pvals))
      /\ pvals' = Tail(pvals) /\ ppc = "publish" /\ ppc' \in {"ret", "full"}
      /\ UNCHANGED <<c_buf, tail, overflow, pbulk>>
      /\ UNCHANGED <<cvars, rcvd>>
  BY DEF PushPublish, PushFinish
<1>4. /\ Len(sent') = Len(sent) + 1
      /\ \A i \in 1 .. Len(sent) : sent'[i] = sent[i]
      /\ sent'[Len(sent) + 1] = Head(pvals)
  BY <1>2, <1>3, AppendFacts
<1>5. /\ Ahead' = 0 /\ ~Peeking' /\ ReadPos' = ReadPos
      /\ Inside' = Inside + 1
  BY <1>1, <1>3, <1>4 DEF Ahead, Peeking, ReadPos, Inside, cvars
<1>6. head' = Len(sent') % CQ_N
  <2>1. ((Len(sent) % CQ_N) + 1) % CQ_N = (Len(sent) + 1) % CQ_N
    BY <1>1, SuccMod
  <2> QED BY <2>1, <1>2, <1>3, <1>4 DEF Succ
<1>7. ASSUME NEW i \in Len(rcvd) + 1 .. Len(sent')
      PROVE  c_buf[(i - 1) % CQ_N] = sent'[i]
  <2>1. CASE i = Len(sent) + 1
    <3>1. i - 1 = Len(sent)
      BY <2>1, <1>1
    <3> QED BY <3>1, <2>1, <1>2, <1>4
  <2>2. CASE i # Len(sent) + 1
    <3>1. i \in Len(rcvd) + 1 .. Len(sent) /\ i \in 1 .. Len(sent)
      BY <2>2, <1>1, <1>4
    <3>2. c_buf[(i - 1) % CQ_N] = sent[i]
      BY <3>1 DEF IInv, RingInv
    <3> QED BY <3>1, <3>2, <1>4
  <2> QED BY <2>1, <2>2
<1>8. RingInv'
  <2>1. ReadPos' <= Len(sent') /\ Inside' <= CQ_N - 1
    BY <1>1, <1>2, <1>4, <1>5 DEF Inside
  <2>2. tail' = ReadPos' % CQ_N
    BY <1>3, <1>5 DEF IInv, RingInv
  <2>3. \A i \in 1 .. Len(rcvd) : rcvd'[i] = sent'[i]
    BY <1>1, <1>3, <1>4 DEF IInv, RingInv
  <2> QED BY <1>3, <1>6, <1>7, <2>1, <2>2, <2>3 DEF RingInv
<1>9. ProducerInv'
  <2>1. Len(pvals') = Len(pvals) - 1
    BY <1>2, <1>3
  <2>2. pbulk => Inside + Len(pvals) <= CQ_N - 1
    BY <1>3 DEF IInv, ProducerInv
  <2>3. pbulk' => Inside' + Len(pvals') <= CQ_N - 1
    BY <2>1, <2>2, <1>1, <1>2, <1>3, <1>5 DEF Inside
  <2> QED BY <2>3, <1>3 DEF ProducerInv
<1>10. ConsumerInv'
  <2> USE DEF IInv, ConsumerInv, cvars
  <2>1. cpc \in {"load", "advance"} => ReadPos < Len(sent')
    BY <1>1, <1>4
  <2>2. cpc = "advance" => cdata[Len(cdata)] = sent'[ReadPos + 1]
    BY <1>1, <1>4
  <2>3. cop \in {"pop_n_noblk", "peek_n"} /\ cpc \in {"empty", "load", "advance"}
          => ReadPos + cneed <= Len(sent')
    BY <1>1, <1>4 DEF TypeOK
  <2>4. cop \in {"peek", "peek_n"} =>
          /\ Len(cdata) <= Inside'
          /\ \A j \in 1 .. Len(cdata) : cdata[j] = sent'[Len(rcvd) + j]
    <3> SUFFICES ASSUME cop \in {"peek", "peek_n"}
                 PROVE  /\ Len(cdata) <= Inside'
                        /\ \A j \in 1 .. Len(cdata) :
                             cdata[j] = sent'[Len(rcvd) + j]
      OBVIOUS
    <3>1. Len(cdata) <= Inside
      OBVIOUS
    <3>2. ASSUME NEW j \in 1 .. Len(cdata)
          PROVE  cdata[j] = sent'[Len(rcvd) + j]
      <4>1. Len(rcvd) + j \in 1 .. Len(sent)
        BY <1>1, <3>1 DEF Inside
      <4> QED BY <4>1, <1>4
    <3> QED BY <3>1, <3>2, <1>1, <1>5 DEF Inside
  <2> QED BY <2>1, <2>2, <2>3, <2>4, <1>1, <1>3, <1>5
<1> QED BY <1>8, <1>9, <1>10

(* A step of the consumer that leaves tail and the histories alone         *)
(* disturbs neither the ring nor the producer's call.                      *)
LEMMA ConsumerFrame ==
  ASSUME IInv, UNCHANGED <<qvars, pvars, sent, rcvd>>, Ahead' = Ahead
  PROVE  /\ RingInv' /\ ProducerInv'
         /\ ReadPos' = ReadPos /\ Inside' = Inside
<1>1. ReadPos' = ReadPos /\ Inside' = Inside
  BY DEF ReadPos, Inside
<1>2. RingInv'
  BY <1>1 DEF IInv, RingInv, qvars
<1>3. ProducerInv'
  BY <1>1 DEF IInv, ProducerInv, pvars, qvars
<1> QED BY <1>1, <1>2, <1>3

(* The call and the return of a consumer operation.                        *)
LEMMA PopCallInv ==
  ASSUME IInv,
         PopReturn \/ \E op \in ConsumerOps, n \in Nat \ {0} : PopCall(op, n)
  PROVE  RingInv' /\ ProducerInv' /\ ConsumerInv'
<1>1. Len(sent) \in Nat /\ Len(rcvd) \in Nat /\ ReadPos \in Nat
      /\ Len(rcvd) <= Len(sent)
  BY View DEF IInv
<1>2. CASE PopReturn
  <2>1. /\ UNCHANGED <<qvars, pvars, sent, rcvd>>
        /\ Ahead = 0 /\ Ahead' = 0
        /\ cpc' = "idle" /\ cop' = "none" /\ Len(cdata') = 0
    BY <1>2 DEF PopReturn, Ahead
  <2>2. RingInv' /\ ProducerInv'
    BY <2>1, ConsumerFrame
  <2> QED BY <2>1, <2>2 DEF ConsumerInv, Peeking
<1>3. ASSUME NEW op \in ConsumerOps, NEW n \in Nat \ {0}, PopCall(op, n)
      PROVE  RingInv' /\ ProducerInv' /\ ConsumerInv'
  <2>1. /\ UNCHANGED <<qvars, pvars, cdata, csz, cckpt, cret, sent, rcvd>>
        /\ cpc = "idle" /\ cop' = op /\ cneed' = n
        /\ op = "peek_n" => cpc' = "size"
        /\ op = "pop_n_noblk" => cpc' = "count"
        /\ op \notin {"peek_n", "pop_n_noblk"} => cpc' = "empty"
    BY <1>3 DEF PopCall
  <2>2. Len(cdata) = 0
    BY <2>1 DEF IInv, ConsumerInv
  <2>3. Ahead = 0 /\ Ahead' = 0
    BY <2>1 DEF Ahead
  <2>4. RingInv' /\ ProducerInv' /\ ReadPos' = ReadPos /\ Inside' = Inside
    BY <2>1, <2>3, ConsumerFrame
  <2>5. cpc' \in {"size", "count", "empty"}
    BY <2>1
  <2>6. Inside >= 0
    BY <1>1 DEF Inside
  <2>7. ~Peeking'
    BY <2>1 DEF Peeking
  <2>8. Len(cdata') = 0
    BY <2>1, <2>2
  <2>9. ConsumerInv'
    BY <2>1, <2>4, <2>5, <2>6, <2>7, <2>8 DEF ConsumerInv
  <2> QED BY <2>4, <2>9
<1> QED BY <1>2, <1>3

(* The tests before the first access to a slot: cq_nelem in cq_peek_n and  *)
(* cq_pop_n_noblk, cq_empty in cq_pop_nonblock.                            *)
LEMMA PopTestsInv ==
  ASSUME IInv, PeekNSize \/ PopNCount \/ PopEmpty \/ PopNotEmpty
  PROVE  RingInv' /\ ProducerInv' /\ ConsumerInv'
<1>1. /\ Len(sent) \in Nat /\ Len(rcvd) \in Nat /\ ReadPos \in Nat
      /\ Ahead \in Nat /\ Len(cdata) \in Nat /\ cneed \in Nat
      /\ ReadPos <= Len(sent) /\ ReadPos = Len(rcvd) + Ahead
      /\ cq_nelem = Len(sent) - ReadPos
      /\ cq_empty <=> ReadPos = Len(sent)
      /\ tail = ReadPos % CQ_N
  BY View DEF IInv, ReadPos, TypeOK, RingInv
<1>2. ConsumerInv
  BY DEF IInv
<1>3. CASE PeekNSize
  <2>1. /\ cpc = "size" /\ cpc' \in {"ret", "count"} /\ csz' = cq_nelem
        /\ cckpt' = tail
        /\ cpc' = "ret" => cret' = 0
        /\ UNCHANGED <<qvars, pvars, cop, cneed, cdata, sent, rcvd>>
    BY <1>3 DEF PeekNSize, PopFinish
  <2>2. Ahead = 0 /\ Ahead' = 0
    BY <2>1 DEF Ahead
  <2>3. RingInv' /\ ProducerInv' /\ ReadPos' = ReadPos /\ Inside' = Inside
    BY <2>1, <2>2, ConsumerFrame
  <2>4. csz' = Inside' /\ cckpt' = Len(rcvd) % CQ_N
    <3>1. ReadPos = Len(rcvd)
      BY <2>2, <1>1
    <3>2. csz' = Inside
      BY <3>1, <2>1, <1>1 DEF Inside
    <3>3. cckpt' = Len(rcvd) % CQ_N
      BY <3>1, <2>1, <1>1
    <3> QED BY <3>2, <3>3, <2>3
  <2>5. rcvd' = rcvd /\ sent' = sent /\ cop' = cop /\ cdata' = cdata
    BY <2>1
  <2>6. cpc' \in {"ret", "count"} /\ cpc # "idle" /\ Len(cdata) = 0
    BY <2>1, <1>2 DEF ConsumerInv
  <2>7. ConsumerInv'
    BY <1>2, <2>1, <2>3, <2>4, <2>5, <2>6 DEF ConsumerInv
  <2> QED BY <2>3, <2>7
<1>4. CASE PopNCount
  <2>1. /\ cpc = "count" /\ cpc' \in {"ret", "empty"}
        /\ cpc' = "empty" => cneed <= cq_nelem
        /\ cpc' = "ret" => cret' = 0
        /\ UNCHANGED <<qvars, pvars, cop, cneed, cdata, csz, cckpt, sent, rcvd>>
    BY <1>1, <1>4 DEF PopNCount, PopFinish
  <2>2. Ahead = 0 /\ Ahead' = 0
    BY <2>1, <1>2 DEF Ahead, ConsumerInv
  <2>3. RingInv' /\ ProducerInv' /\ ReadPos' = ReadPos /\ Inside' = Inside
    BY <2>1, <2>2, ConsumerFrame
  <2>4. cpc' = "empty" => ReadPos + cneed <= Len(sent)
    BY <2>1, <1>1
  <2>5. Peeking' => Peeking
    BY <2>1 DEF Peeking
  <2>6. ConsumerInv'
    BY <1>2, <2>1, <2>3, <2>4, <2>5 DEF ConsumerInv
  <2> QED BY <2>3, <2>6
<1>5. CASE PopEmpty
  <2>1. /\ cpc = "empty" /\ cq_empty /\ cneed > 0
        /\ UNCHANGED <<qvars, pvars, cop, cneed, cdata, csz, cckpt, sent, rcvd>>
        /\ \/ cop \in {"pop_nonblock", "peek"} /\ cpc' = "ret" /\ cret' = 0
           \/ /\ cop \notin {"pop_nonblock", "peek"}
              /\ ~int_is_enabled /\ cpc' = "panic"
    BY <1>5 DEF PopEmpty, PopFinish, IInv, TypeOK
  <2>2. cop \notin {"pop_n_noblk", "peek_n"}
    BY <2>1, <1>1, <1>2 DEF ConsumerInv
  <2>3. Ahead = 0 /\ Ahead' = 0
    BY <2>1, <2>2 DEF Ahead
  <2>4. RingInv' /\ ProducerInv' /\ ReadPos' = ReadPos /\ Inside' = Inside
    BY <2>1, <2>3, ConsumerFrame
  <2>5. Inside = 0
    BY <2>1, <2>3, <1>1 DEF Inside
  <2>6. cop \in AllConsumerOps
    BY <2>1, <1>2, Constants DEF ConsumerInv
  <2>7. cpc' = "panic" => cop = "pop_n"
    BY <2>1, <2>2, <2>6 DEF AllConsumerOps
  <2>8. ~Peeking'
    BY <2>1 DEF Peeking
  <2>9. ConsumerInv'
    BY <1>2, <2>1, <2>4, <2>5, <2>7, <2>8 DEF ConsumerInv, int_is_enabled
  <2> QED BY <2>4, <2>9
<1>6. CASE PopNotEmpty
  <2>1. /\ cpc = "empty" /\ ~cq_empty /\ cpc' = "load"
        /\ UNCHANGED <<qvars, pvars, cop, cneed, cdata, csz, cckpt, cret,
                       sent, rcvd>>
    BY <1>6 DEF PopNotEmpty
  <2>2. Ahead' = Ahead
    BY <2>1 DEF Ahead
  <2>3. RingInv' /\ ProducerInv' /\ ReadPos' = ReadPos /\ Inside' = Inside
    BY <2>1, <2>2, ConsumerFrame
  <2>4. ReadPos < Len(sent)
    BY <2>1, <1>1
  <2>5. Peeking' => Peeking
    BY <2>1 DEF Peeking
  <2>6. ConsumerInv'
    BY <1>2, <2>1, <2>3, <2>4, <2>5 DEF ConsumerInv
  <2> QED BY <2>3, <2>6
<1> QED BY <1>3, <1>4, <1>5, <1>6

(* The load takes the oldest element not read yet.                         *)
LEMMA PopLoadInv ==
  ASSUME IInv, PopLoad
  PROVE  RingInv' /\ ProducerInv' /\ ConsumerInv'
<1>1. /\ Len(sent) \in Nat /\ Len(rcvd) \in Nat /\ ReadPos \in Nat
      /\ Ahead \in Nat /\ Len(cdata) \in Nat /\ cneed \in Nat
      /\ ReadPos < Len(sent) /\ ReadPos = Len(rcvd) + Ahead
      /\ tail = ReadPos % CQ_N
      /\ c_buf \in [Slots -> Elem] /\ tail \in Slots
      /\ cdata \in Seq(Elem) /\ cpc = "load"
  BY View DEF IInv, ReadPos, TypeOK, RingInv, ConsumerInv, PopLoad
<1>2. ConsumerInv
  BY DEF IInv
<1>3. /\ cdata' = Append(cdata, c_buf[tail])
      /\ UNCHANGED <<qvars, pvars, cop, cneed, csz, cckpt, sent, rcvd>>
      /\ \/ cop = "peek" /\ cpc' = "ret"
         \/ cop # "peek" /\ cpc' = "advance"
  BY DEF PopLoad, PopFinish
<1>4. c_buf[tail] = sent[ReadPos + 1] /\ c_buf[tail] \in Elem
  <2>1. ReadPos + 1 \in Len(rcvd) + 1 .. Len(sent)
    BY <1>1
  <2>2. (ReadPos + 1) - 1 = ReadPos
    BY <1>1
  <2>3. c_buf[ReadPos % CQ_N] = sent[ReadPos + 1]
    BY <2>1, <2>2 DEF IInv, RingInv
  <2> QED BY <2>3, <1>1
<1>5. /\ Len(cdata') = Len(cdata) + 1
      /\ \A j \in 1 .. Len(cdata) : cdata'[j] = cdata[j]
      /\ cdata'[Len(cdata')] = sent[ReadPos + 1]
  BY <1>1, <1>3, <1>4, AppendFacts
<1>6. Ahead' = Ahead
  BY <1>1, <1>3, <1>5 DEF Ahead
<1>7. RingInv' /\ ProducerInv' /\ ReadPos' = ReadPos /\ Inside' = Inside
  BY <1>3, <1>6, ConsumerFrame
<1>8. ASSUME cop \in {"peek", "peek_n"}
      PROVE  /\ Len(cdata') <= Inside
             /\ \A j \in 1 .. Len(cdata') : cdata'[j] = sent[Len(rcvd) + j]
  <2>1. Ahead = Len(cdata)
    BY <1>8, <1>1, <1>2 DEF Ahead, ConsumerInv
  <2>2. Len(cdata') <= Inside
    BY <2>1, <1>1, <1>5 DEF Inside
  <2>3. ASSUME NEW j \in 1 .. Len(cdata')
        PROVE  cdata'[j] = sent[Len(rcvd) + j]
    <3>1. CASE j = Len(cdata')
      <4>1. Len(rcvd) + j = ReadPos + 1
        BY <3>1, <2>1, <1>1, <1>5
      <4> QED BY <4>1, <3>1, <1>5
    <3>2. CASE j # Len(cdata')
      <4>1. j \in 1 .. Len(cdata)
        BY <3>2, <1>1, <1>5
      <4> QED BY <4>1, <1>2, <1>5, <1>8 DEF ConsumerInv
    <3> QED BY <3>1, <3>2
  <2> QED BY <2>2, <2>3
<1>9. Len(cdata') > 0
  BY <1>1, <1>5
<1>10. Peeking' => Peeking
  BY <1>1, <1>3 DEF Peeking
<1>11. cop' = cop /\ cneed' = cneed /\ csz' = csz /\ cckpt' = cckpt
       /\ sent' = sent /\ rcvd' = rcvd
  BY <1>3
<1>12. cpc' \in {"ret", "advance"} /\ (cpc' = "ret" => cop = "peek")
       /\ (cpc' = "advance" => cop # "peek")
  BY <1>3
<1>13. ConsumerInv'
  BY <1>1, <1>2, <1>5, <1>7, <1>8, <1>9, <1>10, <1>11, <1>12 DEF ConsumerInv
<1> QED BY <1>7, <1>13

(* Advancing tail takes the loaded element out of the queue, or, inside a  *)
(* peek, only moves the reading position.                                  *)
LEMMA PopAdvanceInv ==
  ASSUME IInv, PopAdvance
  PROVE  RingInv' /\ ProducerInv' /\ ConsumerInv'
<1>1. /\ Len(sent) \in Nat /\ Len(rcvd) \in Nat /\ ReadPos \in Nat
      /\ Ahead \in Nat /\ Len(cdata) \in Nat /\ cneed \in Nat /\ cneed > 0
      /\ ReadPos < Len(sent) /\ ReadPos = Len(rcvd) + Ahead
      /\ tail = ReadPos % CQ_N /\ head = Len(sent) % CQ_N
      /\ sent \in Seq(Elem) /\ rcvd \in Seq(Elem) /\ cdata \in Seq(Elem)
      /\ cpc = "advance" /\ Len(cdata) > 0 /\ cop # "peek"
      /\ CQ_N \in Nat \ {0} /\ Inside <= CQ_N - 1
  BY View, Constants
     DEF IInv, ReadPos, TypeOK, RingInv, ConsumerInv, PopAdvance
<1>2. ConsumerInv
  BY DEF IInv
<1>3. /\ tail' = Succ(tail) /\ cneed' = cneed - 1
      /\ rcvd' = IF cop = "peek_n" THEN rcvd ELSE Append(rcvd, cdata[Len(cdata)])
      /\ UNCHANGED <<c_buf, head, overflow, pvars, cop, cdata, csz, cckpt, sent>>
      /\ \/ cneed > 1 /\ cpc' = "empty"
         \/ cneed = 1 /\ cop = "peek_n" /\ cpc' = "rewind"
         \/ cneed = 1 /\ cop # "peek_n" /\ cpc' = "ret"
  BY DEF PopAdvance, PopFinish
<1>4. tail' = (ReadPos + 1) % CQ_N
  BY <1>1, <1>3, SuccMod DEF Succ
<1>5. cdata[Len(cdata)] = sent[ReadPos + 1] /\ cdata[Len(cdata)] \in Elem
  BY <1>1, <1>2 DEF ConsumerInv
<1>6. c_buf' = c_buf /\ head' = head /\ sent' = sent /\ cop' = cop
      /\ cdata' = cdata /\ csz' = csz /\ cckpt' = cckpt
  BY <1>3
<1>7. UNCHANGED pvars
  BY <1>3
<1>8. CASE cop = "peek_n"
  <2>1. rcvd' = rcvd /\ cpc' \in {"empty", "rewind"}
    BY <1>3, <1>8
  <2>2. Ahead = Len(cdata) - 1 /\ Ahead' = Len(cdata)
    BY <2>1, <1>1, <1>6, <1>8 DEF Ahead
  <2>3. ReadPos' = ReadPos + 1 /\ Inside' = Inside
    BY <2>1, <2>2, <1>1, <1>6 DEF ReadPos, Inside
  <2>4. RingInv'
    BY <2>1, <2>3, <1>1, <1>4, <1>6 DEF IInv, RingInv
  <2>5. ProducerInv'
    BY <2>3, <1>6, <1>7 DEF IInv, ProducerInv, pvars
  <2>6. cpc' = "empty" => ReadPos' + cneed' <= Len(sent)
    BY <2>3, <1>1, <1>2, <1>3, <1>8 DEF ConsumerInv
  <2>7. Peeking
    BY <1>1, <1>8 DEF Peeking
  <2>8. ConsumerInv'
    BY <2>1, <2>3, <2>6, <2>7, <1>1, <1>2, <1>6, <1>8 DEF ConsumerInv
  <2> QED BY <2>4, <2>5, <2>8
<1>9. CASE cop # "peek_n"
  <2>1. rcvd' = Append(rcvd, sent[ReadPos + 1]) /\ cpc' \in {"empty", "ret"}
    BY <1>3, <1>5, <1>9
  <2>2. Ahead = 0 /\ Ahead' = 0 /\ ReadPos = Len(rcvd)
    BY <1>1, <1>6, <1>9 DEF Ahead
  <2>3. /\ Len(rcvd') = Len(rcvd) + 1
        /\ \A i \in 1 .. Len(rcvd) : rcvd'[i] = rcvd[i]
        /\ rcvd'[Len(rcvd) + 1] = sent[Len(rcvd) + 1]
    BY <2>1, <2>2, <1>1, <1>5, AppendFacts
  <2>4. ReadPos' = ReadPos + 1 /\ Inside' = Inside - 1
    BY <2>2, <2>3, <1>1, <1>6 DEF ReadPos, Inside
  <2>5. \A i \in 1 .. Len(rcvd') : rcvd'[i] = sent[i]
    <3> SUFFICES ASSUME NEW i \in 1 .. Len(rcvd) + 1 PROVE rcvd'[i] = sent[i]
      BY <2>3
    <3>1. CASE i = Len(rcvd) + 1
      BY <3>1, <2>3
    <3>2. CASE i # Len(rcvd) + 1
      <4>1. i \in 1 .. Len(rcvd)
        BY <3>2, <1>1
      <4> QED BY <4>1, <2>3 DEF IInv, RingInv
    <3> QED BY <3>1, <3>2
  <2>6. \A i \in Len(rcvd') + 1 .. Len(sent) : c_buf[(i - 1) % CQ_N] = sent[i]
    <3> SUFFICES ASSUME NEW i \in Len(rcvd) + 2 .. Len(sent)
                 PROVE  c_buf[(i - 1) % CQ_N] = sent[i]
      BY <2>3, <1>1
    <3>1. i \in Len(rcvd) + 1 .. Len(sent)
      BY <1>1
    <3> QED BY <3>1 DEF IInv, RingInv
  <2>7. ReadPos' <= Len(sent) /\ Inside' <= CQ_N - 1
    BY <2>4, <1>1 DEF Inside
  <2>8. RingInv'
    BY <2>4, <2>5, <2>6, <2>7, <1>1, <1>4, <1>6 DEF RingInv
  <2>9. ProducerInv'
    <3>1. Inside' < Inside /\ Inside \in Int /\ Inside' \in Int
      BY <2>4, <1>1 DEF Inside
    <3>2. Len(pvals) \in Nat
      BY DEF IInv, TypeOK
    <3> QED BY <3>1, <3>2, <1>1, <1>6, <1>7 DEF IInv, ProducerInv, pvars
  <2>10. cop = "pop_n_noblk" /\ cpc' = "empty" => ReadPos' + cneed' <= Len(sent)
    <3>1. cop = "pop_n_noblk" => ReadPos + cneed <= Len(sent)
      BY <1>1, <1>2 DEF ConsumerInv
    <3>2. ReadPos' = ReadPos + 1 /\ cneed' = cneed - 1
      BY <2>4, <1>3
    <3> QED BY <3>1, <3>2, <1>1
  <2>11. ~Peeking'
    BY <1>6, <1>9 DEF Peeking
  <2>12. ConsumerInv'
    BY <2>1, <2>10, <2>11, <1>1, <1>2, <1>6, <1>9 DEF ConsumerInv
  <2> QED BY <2>8, <2>9, <2>12
<1> QED BY <1>8, <1>9

(* The end of a peek puts tail back where the last pop left it, and the    *)
(* count is the one the peek started from.                                 *)
LEMMA PeekEndInv ==
  ASSUME IInv, PeekNRewind \/ PeekNAssert
  PROVE  RingInv' /\ ProducerInv' /\ ConsumerInv'
<1>1. /\ Len(sent) \in Nat /\ Len(rcvd) \in Nat /\ ReadPos \in Nat
      /\ ReadPos <= Len(sent) /\ ReadPos = Len(rcvd) + Ahead
      /\ Len(rcvd) <= Len(sent)
      /\ cq_nelem = Len(sent) - ReadPos
  BY View DEF IInv, ReadPos
<1>2. ConsumerInv
  BY DEF IInv
<1>3. CASE PeekNRewind
  <2>1. /\ cpc = "rewind" /\ cpc' = "resize" /\ tail' = cckpt
        /\ UNCHANGED <<c_buf, head, overflow, pvars, cop, cneed, cdata, csz,
                       cckpt, cret, sent, rcvd>>
    BY <1>3 DEF PeekNRewind
  <2>2. Peeking /\ cop = "peek_n"
    BY <2>1, <1>2 DEF Peeking, ConsumerInv
  <2>3. Ahead' = 0 /\ ReadPos' = Len(rcvd) /\ Inside' = Inside
    BY <2>1, <1>1 DEF Ahead, ReadPos, Inside
  <2>4. tail' = Len(rcvd) % CQ_N
    BY <2>1, <2>2, <1>2 DEF ConsumerInv
  <2>5. RingInv'
    BY <2>1, <2>3, <2>4, <1>1 DEF IInv, RingInv
  <2>6. ProducerInv'
    BY <2>1, <2>3 DEF IInv, ProducerInv, pvars
  <2>7. ConsumerInv'
    BY <2>1, <2>2, <2>3, <1>2 DEF ConsumerInv
  <2> QED BY <2>5, <2>6, <2>7
<1>4. CASE PeekNAssert
  <2>1. /\ cpc = "resize"
        /\ csz = cq_nelem => cpc' = "ret"
        /\ UNCHANGED <<qvars, pvars, cop, cneed, cdata, csz, cckpt, sent, rcvd>>
    BY <1>4 DEF PeekNAssert, PopFinish
  <2>2. Peeking /\ cop = "peek_n" /\ Len(cdata) > 0
    BY <2>1, <1>2 DEF Peeking, ConsumerInv
  <2>3. Ahead = 0
    BY <2>1 DEF Ahead
  <2>4. cq_nelem = Inside
    BY <2>3, <1>1 DEF Inside
  <2>5. cpc' = "ret"
    BY <2>1, <2>2, <2>4, <1>2 DEF ConsumerInv
  <2>6. Ahead' = Ahead
    BY <2>3, <2>5 DEF Ahead
  <2>7. RingInv' /\ ProducerInv' /\ ReadPos' = ReadPos /\ Inside' = Inside
    BY <2>1, <2>6, ConsumerFrame
  <2>8. ~Peeking'
    BY <2>5 DEF Peeking
  <2>9. ConsumerInv'
    BY <2>1, <2>2, <2>5, <2>7, <2>8, <1>2 DEF ConsumerInv
  <2> QED BY <2>7, <2>9
<1> QED BY <1>3, <1>4
-----------------------------------------------------------------------------
(* An initialised queue satisfies the invariant.                           *)
LEMMA RingInit == Init => IInv
<1> SUFFICES ASSUME Init PROVE IInv
  OBVIOUS
<1>1. TypeOK
  <2>1. c_buf \in [Slots -> Elem]
    BY Constants DEF Init
  <2>2. <<>> \in Seq(Elem)
    OBVIOUS
  <2> QED BY <2>1, <2>2, Constants DEF Init, TypeOK, ProducerPCs, ConsumerPCs
<1>2. Len(sent) = 0 /\ Len(rcvd) = 0 /\ Len(cdata) = 0
  BY DEF Init
<1>3. Ahead = 0 /\ Inside = 0 /\ ReadPos = 0 /\ ~Peeking
  BY <1>2 DEF Init, Ahead, Inside, ReadPos, Peeking
<1>4. 0 % CQ_N = 0
  <2>1. (0 * CQ_N + 0) % CQ_N = 0
    BY Constants, ModUnique
  <2>2. 0 * CQ_N + 0 = 0
    BY Constants
  <2> QED BY <2>1, <2>2
<1>5. RingInv
  BY <1>2, <1>3, <1>4, Constants DEF Init, RingInv
<1>6. ProducerInv
  BY DEF Init, ProducerInv
<1>7. ConsumerInv
  BY <1>2, <1>3 DEF Init, ConsumerInv
<1> QED BY <1>1, <1>5, <1>6, <1>7 DEF IInv

(* Every step of either side keeps it.                                     *)
LEMMA RingStep == PeekSafe /\ IInv /\ [Next]_vars => IInv'
<1> SUFFICES ASSUME PeekSafe, IInv, [Next]_vars PROVE IInv'
  OBVIOUS
<1>1. CASE Producer
  <2>1. TypeOK' /\ ProducerRuns
    BY <1>1, ProducerType DEF IInv, Producer
  <2>2. RingInv' /\ ProducerInv' /\ ConsumerInv'
    <3>1. CASE PushReturn \/ \E vals \in Batches, bulk \in BOOLEAN :
                               PushCall(vals, bulk)
      BY <3>1, BatchType, PushCallInv
    <3>2. CASE PushNSpace \/ PushFull \/ PushNotFull \/ PushAssert
      BY <3>2, <2>1, PushTestsInv
    <3>3. CASE PushStore
      BY <3>3, <2>1, PushStoreInv
    <3>4. CASE PushPublish
      BY <3>4, <2>1, PushPublishInv
    <3> QED BY <1>1, <3>1, <3>2, <3>3, <3>4, Zenon DEF Producer, PushStep
  <2> QED BY <2>1, <2>2 DEF IInv
<1>2. CASE Consumer
  <2>1. TypeOK'
    BY <1>2, ConsumerType DEF IInv
  <2>2. RingInv' /\ ProducerInv' /\ ConsumerInv'
    <3>1. CASE PopReturn \/ \E op \in ConsumerOps, n \in 1 .. MaxN :
                              PopCall(op, n)
      BY <3>1, BoundAssumption, PopCallInv
    <3>2. CASE PeekNSize \/ PopNCount \/ PopEmpty \/ PopNotEmpty
      BY <3>2, PopTestsInv
    <3>3. CASE PopLoad
      BY <3>3, PopLoadInv
    <3>4. CASE PopAdvance
      BY <3>4, PopAdvanceInv
    <3>5. CASE PeekNRewind \/ PeekNAssert
      BY <3>5, PeekEndInv
    <3> QED BY <1>2, <3>1, <3>2, <3>3, <3>4, <3>5, Zenon DEF Consumer, PopStep
  <2> QED BY <2>1, <2>2 DEF IInv
<1>3. CASE UNCHANGED vars
  <2>1. UNCHANGED <<qvars, pvars, cvars, sent, rcvd>>
    BY <1>3 DEF vars
  <2>2. TypeOK' /\ ProducerInv'
    BY <2>1 DEF IInv, TypeOK, ProducerInv, Inside, qvars, pvars, cvars
  <2>3. RingInv' /\ ConsumerInv'
    BY <2>1, RingUnchanged
  <2> QED BY <2>2, <2>3 DEF IInv
<1> QED BY <1>1, <1>2, <1>3 DEF Next

(* IInv holds in every state of every instance in which no push runs in    *)
(* the middle of a cq_peek_n.                                              *)
THEOREM RingInvariant == PeekSafe => (Spec => []IInv)
<1> SUFFICES ASSUME PeekSafe PROVE Spec => []IInv
  OBVIOUS
<1>1. PeekSafe /\ IInv /\ [Next]_vars => IInv'
  BY RingStep
<1>2. IInv /\ [Next]_vars => IInv'
  BY <1>1
<1> QED BY <1>2, RingInit, PTL DEF Spec

(* No assertion or panic of circular.h is reachable, except the panic with *)
(* which a blocking cq_pop reports that it would wait for ever.            *)
THEOREM NoPanics == PeekSafe => (Spec => []OnlyDeadlockPanics)
<1>1. IInv => OnlyDeadlockPanics
  BY DEF IInv, ProducerInv, ConsumerInv, OnlyDeadlockPanics
<1> QED BY <1>1, RingInvariant, PTL

(* The slot being filled is never the slot being read.                     *)
THEOREM DataRaceFree == PeekSafe => (Spec => []NoDataRace)
<1>1. IInv => NoDataRace
  <2> SUFFICES ASSUME IInv, ppc \in {"store", "publish"},
                      cpc \in {"load", "advance"}, head = tail
               PROVE  FALSE
    BY DEF NoDataRace
  <2>1. ReadPos < Len(sent)
    BY DEF IInv, ConsumerInv
  <2>2. cq_empty
    BY DEF cq_empty
  <2> QED BY <2>1, <2>2, View DEF IInv
<1> QED BY <1>1, RingInvariant, PTL

(* The counting operations never wait.                                     *)
THEOREM NoblkIsNonblocking == PeekSafe => (Spec => []NoblkNeverSpins)
<1>1. IInv => NoblkNeverSpins
  <2> SUFFICES ASSUME IInv, cop \in {"pop_n_noblk", "peek_n"}, cpc = "empty"
               PROVE  ~cq_empty
    BY DEF NoblkNeverSpins
  <2>1. ReadPos + cneed <= Len(sent) /\ cneed \in Nat /\ cneed > 0
    BY DEF IInv, ConsumerInv, TypeOK
  <2> QED BY <2>1, View DEF IInv
<1> QED BY <1>1, RingInvariant, PTL

(* A peek returns the oldest elements and takes none of them.              *)
THEOREM PeekCorrect == PeekSafe => (Spec => []PeekIsNonDestructive)
<1>1. IInv => PeekIsNonDestructive
  <2> SUFFICES ASSUME IInv, cpc = "ret", cop \in {"peek", "peek_n"}, cret = 1
               PROVE  /\ tail = Len(rcvd) % CQ_N
                      /\ Len(cdata) > 0 /\ Len(cdata) <= Inside
                      /\ \A j \in 1 .. Len(cdata) :
                           cdata[j] = sent[Len(rcvd) + j]
    BY DEF PeekIsNonDestructive
  <2>1. Ahead = 0
    BY DEF Ahead
  <2>2. ReadPos = Len(rcvd)
    BY <2>1 DEF ReadPos, IInv, TypeOK
  <2> QED BY <2>2 DEF IInv, RingInv, ConsumerInv
<1> QED BY <1>1, RingInvariant, PTL

(* circular.h implements a FIFO channel of CQ_N - 1 elements: the publish  *)
(* of head is the Enqueue and the advance of tail the Dequeue, every other *)
(* step stutters.                                                          *)
THEOREM FifoRefinement == PeekSafe => (Spec => ImplementsFifo)
<1> SUFFICES ASSUME PeekSafe PROVE Spec => ImplementsFifo
  OBVIOUS
<1>1. Init => F!Init
  BY DEF Init, F!Init
<1>2. IInv /\ [Next]_vars => [F!Next]_<<sent, rcvd>>
  <2> SUFFICES ASSUME IInv, [Next]_vars, ~UNCHANGED <<sent, rcvd>>
               PROVE  F!Next
    OBVIOUS
  <2>1. CASE PushPublish
    <3>1. /\ Inside < CQ_N - 1 /\ Head(pvals) \in Elem
          /\ sent' = Append(sent, Head(pvals)) /\ UNCHANGED rcvd
      BY <2>1 DEF PushPublish, IInv, ProducerInv, TypeOK
    <3>2. F!Enqueue(Head(pvals))
      BY <3>1 DEF F!Enqueue, Inside
    <3> QED BY <3>1, <3>2 DEF F!Next
  <2>2. CASE PopAdvance
    <3>1. cop # "peek_n"
      BY <2>2 DEF PopAdvance
    <3>2. Ahead = 0 /\ ReadPos = Len(rcvd)
      BY <3>1 DEF Ahead, ReadPos, IInv, TypeOK
    <3>3. /\ Len(rcvd) < Len(sent)
          /\ rcvd' = Append(rcvd, sent[Len(rcvd) + 1]) /\ UNCHANGED sent
      BY <2>2, <3>1, <3>2 DEF PopAdvance, IInv, ConsumerInv
    <3>4. F!Dequeue
      BY <3>3 DEF F!Dequeue
    <3> QED BY <3>4 DEF F!Next
  <2>3. CASE Producer /\ ~PushPublish
    <3>1. PushReturn \/ (\E vals \in Batches, bulk \in BOOLEAN :
             PushCall(vals, bulk)) \/ PushStep
      BY <2>3, Zenon DEF Producer
    <3> QED BY <2>3, <3>1 DEF PushStep, PushReturn, PushCall, PushNSpace,
               PushFull, PushNotFull, PushAssert, PushStore
  <2>4. CASE Consumer /\ ~PopAdvance
    <3>1. PopReturn \/ (\E op \in ConsumerOps, n \in 1 .. MaxN :
             PopCall(op, n)) \/ PopStep
      BY <2>4, Zenon DEF Consumer
    <3> QED BY <2>4, <3>1 DEF PopStep, PopReturn, PopCall, PeekNSize,
               PopNCount, PopEmpty, PopNotEmpty, PopLoad, PeekNRewind,
               PeekNAssert
  <2> QED BY <2>1, <2>2, <2>3, <2>4 DEF Next, vars
<1> QED BY <1>1, <1>2, RingInvariant, PTL DEF Spec, ImplementsFifo, F!Spec

(* A push is refused only for lack of room, a pop or peek only for lack of *)
(* elements, although each side tests with the other side's index in       *)
(* motion.                                                                 *)
THEOREM HonestRefusals == PeekSafe => (Spec => RefusalIsHonest)
<1> DEFINE PushRefused == ppc # "ret" /\ ppc' = "ret" /\ pret' = 0
           PopRefused == cpc # "ret" /\ cpc' = "ret" /\ cret' = 0
           Honest == /\ PushRefused => Inside + Len(pvals) > CQ_N - 1
                     /\ PopRefused => Inside < cneed
<1> SUFFICES ASSUME PeekSafe PROVE Spec => RefusalIsHonest
  OBVIOUS
<1>1. IInv /\ [Next]_vars => [Honest]_vars
  <2> SUFFICES ASSUME IInv, Next PROVE Honest
    OBVIOUS
  <2>1. /\ Len(sent) \in Nat /\ Len(rcvd) \in Nat /\ Len(pvals) \in Nat
        /\ cq_nelem = Len(sent) - ReadPos /\ ReadPos = Len(rcvd) + Ahead
        /\ cq_nspace = CQ_N - 1 - (Len(sent) - ReadPos)
        /\ cq_empty <=> ReadPos = Len(sent)
        /\ cq_full <=> Len(sent) - ReadPos = CQ_N - 1
        /\ CQ_N \in Nat
    <3>1. TypeOK /\ RingInv
      BY DEF IInv
    <3>2. CQ_N \in Nat /\ Len(pvals) \in Nat
      BY <3>1, Constants DEF TypeOK
    <3>3. ReadPos = Len(rcvd) + Ahead
      BY DEF ReadPos
    <3> QED BY <3>1, <3>2, <3>3, View
  <2>2. ASSUME PushRefused PROVE Inside + Len(pvals) > CQ_N - 1
    <3>1. Producer
      BY <2>2 DEF Next, Consumer, PopReturn, PopCall, PopStep, PeekNSize,
         PopNCount, PopEmpty, PopNotEmpty, PopLoad, PopAdvance, PeekNRewind,
         PeekNAssert, pvars
    <3>2. Ahead = 0
      BY <3>1, ProducerView DEF Producer
    <3>3. PushNSpace \/ PushFull
      BY <3>1, <2>2 DEF Producer, PushStep, PushCall, PushNotFull, PushAssert,
         PushStore, PushPublish, PushReturn, PushFinish
    <3>4. CASE PushNSpace
      BY <3>4, <3>2, <2>1, <2>2 DEF PushNSpace, Inside
    <3>5. CASE PushFull
      <4>1. Len(pvals) > 0
        BY <3>5 DEF PushFull, IInv, TypeOK
      <4> QED BY <4>1, <3>5, <3>2, <2>1 DEF PushFull, Inside
    <3> QED BY <3>3, <3>4, <3>5
  <2>3. ASSUME PopRefused PROVE Inside < cneed
    <3>1. Consumer
      BY <2>3 DEF Next, Producer, PushReturn, PushCall, PushStep, PushNSpace,
         PushFull, PushNotFull, PushAssert, PushStore, PushPublish, cvars
    <3>2. PeekNSize \/ PopNCount \/ PopEmpty
      BY <3>1, <2>3 DEF Consumer, PopStep, PopCall, PopNotEmpty, PopLoad,
         PopAdvance, PeekNRewind, PeekNAssert, PopReturn, PopFinish
    <3>3. cneed \in Nat /\ cneed > 0 /\ cpc \in {"size", "count", "empty"}
      BY <3>2 DEF PeekNSize, PopNCount, PopEmpty, IInv, TypeOK
    <3>4. CASE PeekNSize
      <4>1. Ahead = 0
        BY <3>4 DEF PeekNSize, Ahead
      <4> QED BY <4>1, <3>3, <3>4, <2>1, <2>3 DEF PeekNSize, Inside
    <3>5. CASE PopNCount
      <4>1. Ahead = 0
        BY <3>5 DEF PopNCount, Ahead, IInv, ConsumerInv
      <4> QED BY <4>1, <3>3, <3>5, <2>1, <2>3 DEF PopNCount, Inside
    <3>6. CASE PopEmpty
      <4>1. Ahead = 0
        BY <3>6, <2>3 DEF PopEmpty, Ahead
      <4> QED BY <4>1, <3>3, <3>6, <2>1 DEF PopEmpty, Inside
    <3> QED BY <3>2, <3>4, <3>5, <3>6
  <2> QED BY <2>2, <2>3
<1> QED BY <1>1, RingInvariant, PTL DEF Spec, RefusalIsHonest
=============================================================================
