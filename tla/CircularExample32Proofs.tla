---------------------- MODULE CircularExample32Proofs ----------------------
(***************************************************************************)
(* The interrupt example never sees a torn, lost or reordered integer, for *)
(* every size of the queue and of the integers and wherever the handler    *)
(* preempts the loop.  The argument adds to the invariant of the queue     *)
(* which byte of which integer is at each place of the stream.             *)
(***************************************************************************)
EXTENDS CircularExample32, CircularQueueProofs

\* The place in the stream of bytes of the k-th byte of the integer x.
Place(x, k) == WordBytes * x + k

\* What the queue has taken: the bytes of 0, 1, 2, ... one after another.
StreamInv ==
  \A x \in Nat, k \in 1 .. WordBytes :
    Place(x, k) <= Len(sent) => sent[Place(x, k)] = <<x, k>>

\* What remains of the integer the handler is passing, and that cq_push32
\* says truly whether it has passed all of it.
HandlerInv ==
  /\ push_success \in 0 .. max_push /\ push_fail \in 0 .. MaxFail
  /\ ppc # "idle" => push_success < max_push
  /\ ppc = "idle" => Len(sent) = WordBytes * push_success
  /\ ppc \in {"space", "full", "assert", "store", "publish"} =>
       /\ pbulk
       /\ Len(sent) + Len(pvals) = WordBytes * push_success + WordBytes
       /\ Len(pvals) <= WordBytes
       /\ \A k \in 1 .. Len(pvals) :
            pvals[k] = <<push_success, WordBytes - Len(pvals) + k>>
  /\ ppc = "space" => Len(pvals) = WordBytes
  /\ ppc = "ret" =>
       Len(sent) = WordBytes * push_success + (IF pret = 1 THEN WordBytes ELSE 0)

\* What the loop has received of the integer it expects.
MainInv ==
  /\ i \in 0 .. max_push /\ mismatch = FALSE
  /\ cpc \in {"idle", "empty", "load", "advance", "ret"}
  /\ cpc # "idle" => i < max_push
  /\ cpc = "idle" => Len(cdata) = 0
  /\ cpc \in {"empty", "load", "advance"} =>
       /\ cneed \in 1 .. WordBytes
       /\ Len(cdata) = WordBytes - cneed + (IF cpc = "advance" THEN 1 ELSE 0)
  /\ cpc = "ret" => Len(cdata) = WordBytes
  /\ Len(rcvd) = Place(i, Len(cdata)) - (IF cpc = "advance" THEN 1 ELSE 0)
  /\ \A k \in 1 .. Len(cdata) : cdata[k] = <<i, k>>

ExIInv == IInv /\ StreamInv /\ HandlerInv /\ MainInv
-----------------------------------------------------------------------------
(* A smaller multiple is smaller by the whole factor.                      *)
LEMMA TimesMono ==
  ASSUME NEW m \in Nat, NEW x \in Nat, NEW y \in Nat, x < y
  PROVE  m * x + m <= m * y
<1>1. PICK d \in Nat : y = x + 1 + d
  <2>1. y - (x + 1) \in Nat /\ y = x + 1 + (y - (x + 1))
    OBVIOUS
  <2> QED BY <2>1
<1>2. m * (x + 1 + d) = m * x + m + m * d
  BY Z3
<1>3. m * d \in Nat /\ m * x \in Nat
  BY Z3
<1> QED BY <1>1, <1>2, <1>3

(* A place is that of one byte of one integer.                             *)
LEMMA PlaceUnique ==
  \A x, y \in Nat, k, l \in 1 .. WordBytes :
    Place(x, k) = Place(y, l) => x = y /\ k = l
<1> SUFFICES ASSUME NEW x \in Nat, NEW y \in Nat, NEW k \in 1 .. WordBytes,
                    NEW l \in 1 .. WordBytes, Place(x, k) = Place(y, l)
             PROVE  x = y /\ k = l
  OBVIOUS
<1> DEFINE px == WordBytes * x
           py == WordBytes * y
<1>1. px \in Nat /\ py \in Nat /\ px + k = py + l /\ WordBytes \in Nat
  BY WordAssumption, Z3 DEF Place
<1>2. x < y => px + WordBytes <= py
  BY WordAssumption, TimesMono
<1>3. y < x => py + WordBytes <= px
  BY WordAssumption, TimesMono
<1>4. x = y => px = py
  OBVIOUS
<1> HIDE DEF px, py
<1>5. k \in Int /\ l \in Int /\ 1 <= k /\ k <= WordBytes /\ 1 <= l /\ l <= WordBytes
  OBVIOUS
<1> QED BY <1>1, <1>2, <1>3, <1>4, <1>5

(* The next byte is at the next place, and after the last byte of an       *)
(* integer comes the first of the next one.                                *)
LEMMA PlaceNext ==
  \A x, k \in Nat :
    /\ Place(x, k) \in Nat /\ Place(x, k + 1) = Place(x, k) + 1
    /\ Place(x, 0) = WordBytes * x /\ Place(x + 1, 0) = Place(x, WordBytes)
<1> SUFFICES ASSUME NEW x \in Nat, NEW k \in Nat
             PROVE  /\ Place(x, k) \in Nat /\ Place(x, k + 1) = Place(x, k) + 1
                    /\ Place(x, 0) = WordBytes * x
                    /\ Place(x + 1, 0) = Place(x, WordBytes)
  OBVIOUS
<1>1. WordBytes \in Nat
  BY WordAssumption
<1>2. WordBytes * x \in Nat /\ WordBytes * (x + 1) = WordBytes * x + WordBytes
  BY <1>1, Z3
<1> QED BY <1>1, <1>2 DEF Place

(* The bytes of an integer the handler passes.                             *)
LEMMA WordType ==
  \A x \in 0 .. max_push - 1 :
    /\ Word(x) \in Seq(Elem) /\ Len(Word(x)) = WordBytes
    /\ \A k \in 1 .. WordBytes : Word(x)[k] = <<x, k>>
BY WordAssumption DEF Word

(* The constants of the example, as the proofs use them.                   *)
LEMMA ExConstants ==
  /\ max_push \in Nat /\ WordBytes \in Nat \ {0} /\ MaxFail \in Nat
  /\ PeekSafe /\ int_is_enabled
BY WordAssumption, HandlerAssumption, MainAssumption, Constants
   DEF max_push, PeekSafe, int_is_enabled

(* The handler does not write what the loop owns.                          *)
LEMMA HandlerFrame == Handler => UNCHANGED <<cvars, rcvd, i, mismatch>>
BY DEF Handler, TimerInterrupt, HandlerReturn, PushCall, PushReturn, PushStep,
       PushNSpace, PushFull, PushNotFull, PushAssert, PushStore, PushPublish,
       exvars

(* The loop does not write what the handler owns.                          *)
LEMMA MainFrame ==
  Main => UNCHANGED <<pvars, sent, push_success, push_fail>>
BY DEF Main, MainPop, MainCheck, PopCall, PopReturn, PopStep, PeekNSize,
       PopNCount, PopEmpty, PopNotEmpty, PopLoad, PopAdvance, PeekNRewind,
       PeekNAssert, exvars

(* The calls of the handler are calls the queue is correct for.            *)
LEMMA HandlerRing == ExIInv /\ Handler => IInv'
<1> SUFFICES ASSUME ExIInv, Handler PROVE IInv'
  OBVIOUS
<1>1. IInv /\ PeekSafe /\ push_success \in 0 .. max_push
  BY ExConstants DEF ExIInv, HandlerInv
<1>2. CASE TimerInterrupt
  <2>0. push_success \in 0 .. max_push - 1
    BY <1>1, <1>2, ExConstants DEF TimerInterrupt
  <2>1. PushCall(Word(push_success), TRUE)
    BY <1>2, Zenon DEF TimerInterrupt
  <2>2. Word(push_success) \in Seq(Elem) /\ Len(Word(push_success)) > 0
    BY <2>0, WordType, ExConstants
  <2>3. TypeOK'
    BY <1>1, <2>1, <2>2 DEF PushCall, IInv, TypeOK, ProducerPCs, qvars, cvars
  <2>4. RingInv' /\ ProducerInv' /\ ConsumerInv'
    BY <1>1, <2>1, <2>2, PushCallInv
  <2> QED BY <2>3, <2>4 DEF IInv
<1>3. CASE HandlerReturn \/ PushStep
  <2>1. Producer
    BY <1>3, HandlerAssumption
       DEF Handler, HandlerReturn, Producer, ProducerRuns
  <2> QED BY <1>1, <2>1, RingStep DEF Next
<1> QED BY <1>2, <1>3 DEF Handler

(* So are those of the loop.                                               *)
LEMMA MainRing == ExIInv /\ Main => IInv'
<1> SUFFICES ASSUME ExIInv, Main PROVE IInv'
  OBVIOUS
<1>1. IInv /\ PeekSafe
  BY ExConstants DEF ExIInv
<1>2. CASE MainPop
  <2>1. PopCall("pop_n", WordBytes) /\ "pop_n" \in ConsumerOps
        /\ WordBytes \in Nat \ {0}
    BY <1>2, ExConstants, MainAssumption DEF MainPop
  <2>2. TypeOK'
    BY <1>1, <2>1 DEF PopCall, IInv, TypeOK, ConsumerPCs, AllConsumerOps,
                      qvars, pvars
  <2>3. RingInv' /\ ProducerInv' /\ ConsumerInv'
    BY <1>1, <2>1, PopCallInv
  <2> QED BY <2>2, <2>3 DEF IInv
<1>3. CASE MainCheck \/ PopStep
  <2>1. Consumer
    BY <1>3 DEF Main, MainCheck, Consumer
  <2> QED BY <1>1, <2>1, RingStep DEF Next
<1> QED BY <1>2, <1>3 DEF Main
-----------------------------------------------------------------------------
(* A push that adds the next byte of the integer being passed.             *)
LEMMA PublishInv ==
  ExIInv /\ PushPublish /\ UNCHANGED exvars => HandlerInv' /\ StreamInv'
<1> SUFFICES ASSUME ExIInv, PushPublish, UNCHANGED exvars
             PROVE  HandlerInv' /\ StreamInv'
  OBVIOUS
<1> DEFINE left == Len(pvals)
           taken == Len(sent)
           next == WordBytes - left + 1
<1>1. /\ ppc = "publish" /\ pbulk' = pbulk
      /\ sent' = Append(sent, Head(pvals)) /\ pvals' = Tail(pvals)
      /\ ppc' = IF left = 1 THEN "ret" ELSE "full"
      /\ left = 1 => pret' = 1
      /\ UNCHANGED <<push_success, push_fail>>
  BY DEF PushPublish, PushFinish, exvars
<1>2. /\ pvals \in Seq(Elem) /\ sent \in Seq(Elem) /\ left \in Nat /\ left > 0
      /\ taken \in Nat
  BY <1>1 DEF ExIInv, IInv, TypeOK
<1>3. /\ pbulk /\ left <= WordBytes /\ push_success \in 0 .. max_push
      /\ push_fail \in 0 .. MaxFail
      /\ push_success < max_push /\ WordBytes \in Nat \ {0} /\ max_push \in Nat
      /\ taken + left = WordBytes * push_success + WordBytes
      /\ \A k \in 1 .. left : pvals[k] = <<push_success, WordBytes - left + k>>
  BY <1>1, ExConstants DEF ExIInv, HandlerInv
<1>4. next \in 1 .. WordBytes /\ push_success \in Nat
  BY <1>2, <1>3
<1>5. WordBytes * push_success \in Int
  BY <1>3, <1>4
<1>6. taken + 1 = Place(push_success, next)
  <2> DEFINE base == WordBytes * push_success
  <2>1. Place(push_success, next) = base + next /\ base \in Int
        /\ taken + left = base + WordBytes
    BY <1>3, <1>5 DEF Place
  <2>2. next = WordBytes - left + 1
        /\ left \in Int /\ taken \in Int /\ WordBytes \in Int
    BY <1>2, <1>3
  <2> HIDE DEF base, taken, left, next
  <2>3. taken + 1 = base + next
    BY <2>1, <2>2
  <2> QED BY <2>1, <2>3
<1>7. Head(pvals) = <<push_success, next>> /\ Head(pvals) \in Elem
  BY <1>2, <1>3
<1>8. /\ Len(sent') = taken + 1 /\ sent'[taken + 1] = Head(pvals)
      /\ \A k \in 1 .. taken : sent'[k] = sent[k]
  BY <1>1, <1>2, <1>7, AppendFacts
<1>9. /\ Len(pvals') = left - 1
      /\ \A k \in 1 .. left - 1 : pvals'[k] = pvals[k + 1]
  BY <1>1, <1>2
<1> HIDE DEF left, taken, next
<1>10. StreamInv'
  <2> SUFFICES ASSUME NEW x \in Nat, NEW k \in 1 .. WordBytes,
                      Place(x, k) <= taken + 1
               PROVE  sent'[Place(x, k)] = <<x, k>>
    BY <1>8 DEF StreamInv, Place
  <2>1. WordBytes * x \in Nat
    BY <1>3, Z3
  <2>2. Place(x, k) \in Nat /\ Place(x, k) > 0
    BY <2>1, <1>3 DEF Place
  <2>3. CASE Place(x, k) <= taken
    BY <2>2, <2>3, <1>2, <1>8 DEF ExIInv, StreamInv, taken
  <2>4. CASE Place(x, k) = taken + 1
    <3>1. x = push_success /\ k = next
      BY <2>4, <1>4, <1>6, PlaceUnique
    <3> QED BY <3>1, <2>4, <1>7, <1>8
  <2> QED BY <2>2, <2>3, <2>4, <1>2
<1>11. \A k \in 1 .. left - 1 :
         pvals'[k] = <<push_success, WordBytes - (left - 1) + k>>
  <2> SUFFICES ASSUME NEW k \in 1 .. left - 1
               PROVE  pvals'[k] = <<push_success, WordBytes - (left - 1) + k>>
    OBVIOUS
  <2>1. k + 1 \in 1 .. left /\ WordBytes - left + (k + 1) = WordBytes - (left - 1) + k
    BY <1>2, <1>3
  <2> QED BY <2>1, <1>3, <1>9
<1>12. HandlerInv'
  <2>1. Len(sent') + Len(pvals') = WordBytes * push_success + WordBytes
    BY <1>2, <1>3, <1>5, <1>8, <1>9
  <2>2. Len(pvals') <= WordBytes
    BY <1>2, <1>3, <1>9
  <2>3. left = 1 => Len(sent') = WordBytes * push_success + WordBytes
    BY <1>2, <1>3, <1>5, <1>8
  <2> QED BY <1>1, <1>3, <1>9, <1>11, <2>1, <2>2, <2>3 DEF HandlerInv
<1> QED BY <1>10, <1>12

(* The other steps of the handler.                                         *)
LEMMA HandlerStep == ExIInv /\ Handler => HandlerInv' /\ StreamInv'
<1> SUFFICES ASSUME ExIInv, Handler PROVE HandlerInv' /\ StreamInv'
  OBVIOUS
<1>1. ppc' # "panic"
  BY HandlerRing DEF IInv, ProducerInv
<1>2. /\ push_success \in 0 .. max_push /\ max_push \in Nat /\ MaxFail \in Nat
      /\ WordBytes \in Nat \ {0} /\ WordBytes * push_success \in Int
      /\ Len(sent) \in Nat /\ Len(pvals) \in Nat
  BY ExConstants DEF ExIInv, HandlerInv, IInv, TypeOK
<1>3. ASSUME sent' = sent PROVE StreamInv'
  BY <1>3 DEF ExIInv, StreamInv, Place
<1>4. CASE TimerInterrupt
  <2>1. /\ ppc = "idle" /\ push_success < max_push /\ ppc' = "space"
        /\ pvals' = Word(push_success) /\ pbulk' /\ sent' = sent
        /\ UNCHANGED <<push_success, push_fail>>
    BY <1>4 DEF TimerInterrupt, PushCall, exvars
  <2>2. /\ Len(Word(push_success)) = WordBytes
        /\ \A k \in 1 .. WordBytes : Word(push_success)[k] = <<push_success, k>>
    BY <1>2, <2>1, WordType
  <2>3. HandlerInv'
    BY <1>2, <2>1, <2>2 DEF ExIInv, HandlerInv
  <2> QED BY <2>1, <2>3, <1>3
<1>5. CASE HandlerReturn
  <2>1. /\ ppc = "ret" /\ ppc' = "idle" /\ sent' = sent
        /\ push_success < max_push
        /\ \/ pret = 0 /\ push_success' = push_success
           \/ pret = 1 /\ push_success' = push_success + 1
        /\ push_fail' \in 0 .. MaxFail
    BY <1>2, <1>5 DEF HandlerReturn, PushReturn, ExIInv, HandlerInv
  <2>2. WordBytes * (push_success + 1) = WordBytes * push_success + WordBytes
    BY <1>2, Z3
  <2>3. Len(sent') = WordBytes * push_success'
    BY <1>2, <2>1, <2>2 DEF ExIInv, HandlerInv
  <2>4. push_success' \in 0 .. max_push
    BY <1>2, <2>1
  <2>5. HandlerInv'
    BY <2>1, <2>3, <2>4 DEF HandlerInv
  <2> QED BY <2>1, <2>5, <1>3
<1>6. CASE PushStep /\ UNCHANGED exvars
  <2> USE <1>6 DEF exvars
  <2>1. CASE PushPublish
    BY <2>1, PublishInv
  <2>2. CASE PushNSpace
    <3>1. /\ ppc = "space" /\ UNCHANGED <<sent, pvals, pbulk>>
          /\ (ppc' = "ret" /\ pret' = 0) \/ ppc' = "full"
      BY <2>2 DEF PushNSpace, PushFinish
    <3> QED BY <3>1, <1>2, <1>3 DEF ExIInv, HandlerInv
  <2>3. CASE PushFull
    <3>1. ppc = "full" /\ pbulk
      BY <2>3 DEF PushFull, ExIInv, HandlerInv
    <3> QED BY <3>1, <2>3, <1>1 DEF PushFull
  <2>4. CASE PushNotFull \/ PushAssert \/ PushStore
    <3>1. /\ ppc \in {"full", "assert", "store"}
          /\ ppc' \in {"assert", "store", "publish"}
          /\ UNCHANGED <<sent, pvals, pbulk>>
      BY <2>4, <1>1 DEF PushNotFull, PushAssert, PushStore
    <3> QED BY <3>1, <1>2, <1>3 DEF ExIInv, HandlerInv
  <2> QED BY <2>1, <2>2, <2>3, <2>4 DEF PushStep
<1> QED BY <1>4, <1>5, <1>6 DEF Handler

(* The load reads the byte the loop waits for.                             *)
LEMMA LoadInv ==
  ExIInv /\ PopLoad /\ UNCHANGED exvars => MainInv'
<1> SUFFICES ASSUME ExIInv, PopLoad, UNCHANGED exvars PROVE MainInv'
  OBVIOUS
<1> DEFINE have == Len(cdata)
<1>1. /\ cpc = "load" /\ cop = "pop_n" /\ i \in 0 .. max_push /\ mismatch = FALSE
      /\ i < max_push /\ cneed \in 1 .. WordBytes /\ have = WordBytes - cneed
      /\ Len(rcvd) = Place(i, have)
      /\ \A k \in 1 .. have : cdata[k] = <<i, k>>
      /\ WordBytes \in Nat \ {0} /\ max_push \in Nat
  <2>1. cpc = "load" /\ cop = "pop_n"
    BY MainAssumption DEF PopLoad, ExIInv, IInv, ConsumerInv
  <2>2. /\ i \in 0 .. max_push /\ mismatch = FALSE /\ i < max_push
        /\ cneed \in 1 .. WordBytes /\ have = WordBytes - cneed + 0
        /\ Len(rcvd) = Place(i, have) - 0
        /\ \A k \in 1 .. have : cdata[k] = <<i, k>>
    BY <2>1 DEF ExIInv, MainInv
  <2>3. max_push \in Nat /\ WordBytes \in Nat \ {0}
    BY ExConstants
  <2>4. i \in Nat /\ have \in Nat
    BY <2>2, <2>3
  <2>5. Place(i, have) \in Nat
    BY <2>4, PlaceNext
  <2> QED BY <2>1, <2>2, <2>3, <2>5
<1>2. /\ cdata' = Append(cdata, c_buf[tail]) /\ cpc' = "advance"
      /\ UNCHANGED <<cneed, rcvd, i, mismatch>>
  BY <1>1 DEF PopLoad, exvars
<1>3. /\ cdata \in Seq(Elem) /\ c_buf[tail] \in Elem /\ have \in Nat
      /\ Len(rcvd) \in Nat /\ Len(sent) \in Nat
  BY DEF ExIInv, IInv, TypeOK
<1>4. i \in Nat
  BY <1>1
<1>5. have + 1 \in 1 .. WordBytes
  BY <1>1, <1>3
<1>6. c_buf[tail] = sent[Len(rcvd) + 1] /\ Len(rcvd) + 1 <= Len(sent)
  <2>1. ReadPos = Len(rcvd) /\ ReadPos < Len(sent) /\ tail = ReadPos % CQ_N
    BY <1>1, <1>3 DEF ExIInv, IInv, RingInv, ConsumerInv, ReadPos, Ahead
  <2>2. Len(rcvd) + 1 \in Len(rcvd) + 1 .. Len(sent)
        /\ (Len(rcvd) + 1) - 1 = Len(rcvd)
    BY <2>1, <1>3
  <2>3. c_buf[((Len(rcvd) + 1) - 1) % CQ_N] = sent[Len(rcvd) + 1]
    BY <2>2 DEF ExIInv, IInv, RingInv
  <2> QED BY <2>1, <2>2, <2>3
<1>7. Place(i, have + 1) = Len(rcvd) + 1
  BY <1>1, <1>3, <1>4, PlaceNext
<1>8. c_buf[tail] = <<i, have + 1>>
  BY <1>4, <1>5, <1>6, <1>7 DEF ExIInv, StreamInv
<1>9. /\ Len(cdata') = have + 1 /\ cdata'[have + 1] = <<i, have + 1>>
      /\ \A k \in 1 .. have : cdata'[k] = cdata[k]
  BY <1>2, <1>3, <1>8, AppendFacts
<1> HIDE DEF have
<1>10. \A k \in 1 .. have + 1 : cdata'[k] = <<i, k>>
  BY <1>1, <1>3, <1>9
<1>11. Len(rcvd') = Place(i, Len(cdata')) - 1
  BY <1>2, <1>3, <1>7, <1>9
<1>12. Len(cdata') = WordBytes - cneed' + 1 /\ cneed' \in 1 .. WordBytes
  BY <1>1, <1>2, <1>9
<1> QED BY <1>1, <1>2, <1>9, <1>10, <1>11, <1>12 DEF MainInv, Place

(* The other steps of the loop: the integer it checks is the one it        *)
(* expects.                                                                *)
LEMMA MainStep == ExIInv /\ Main => MainInv'
<1> SUFFICES ASSUME ExIInv, Main PROVE MainInv'
  OBVIOUS
<1>1. /\ i \in 0 .. max_push /\ max_push \in Nat /\ mismatch = FALSE
      /\ WordBytes \in Nat \ {0} /\ i \in Nat
      /\ Len(rcvd) \in Nat /\ Len(cdata) \in Nat
      /\ cdata \in Seq(Elem) /\ rcvd \in Seq(Elem)
      /\ \A k \in 1 .. Len(cdata) : cdata[k] = <<i, k>>
  BY ExConstants DEF ExIInv, MainInv, IInv, TypeOK
<1>2. cpc # "idle" => cop = "pop_n"
  BY MainAssumption DEF ExIInv, IInv, ConsumerInv
<1>3. CASE MainPop
  <2>1. /\ cpc = "idle" /\ cpc' = "empty" /\ cneed' = WordBytes
        /\ i < max_push /\ UNCHANGED <<cdata, rcvd, i, mismatch>>
    BY <1>3 DEF MainPop, PopCall, exvars
  <2> QED BY <2>1, <1>1 DEF ExIInv, MainInv, Place
<1>4. CASE MainCheck
  <2>1. /\ cpc = "ret" /\ cpc' = "idle" /\ cdata' = <<>> /\ rcvd' = rcvd
        /\ i < max_push /\ Len(cdata) = WordBytes
        /\ Len(rcvd) = Place(i, WordBytes)
    BY <1>1, <1>4, PlaceNext DEF MainCheck, PopReturn, ExIInv, MainInv, exvars
  <2>2. Word(i) \in Seq(Elem) /\ Len(Word(i)) = WordBytes
        /\ \A k \in 1 .. WordBytes : Word(i)[k] = <<i, k>>
    BY <1>1, <2>1, WordType
  <2>3. cdata = Word(i)
    <3>1. \A k \in 1 .. Len(cdata) : cdata[k] = Word(i)[k]
      BY <1>1, <2>1, <2>2
    <3> QED BY <1>1, <2>1, <2>2, <3>1
  <2>4. i' = i + 1 /\ mismatch' = mismatch
    BY <2>3, <1>4 DEF MainCheck
  <2>5. Len(cdata') = 0 /\ Len(rcvd') = Place(i', 0)
    BY <1>1, <2>1, <2>4, PlaceNext
  <2>6. i' \in 0 .. max_push /\ i' \in Nat
    BY <1>1, <2>1, <2>4
  <2>7. Place(i', 0) \in Nat
    BY <2>6, PlaceNext
  <2> QED BY <1>1, <2>1, <2>4, <2>5, <2>6, <2>7 DEF MainInv, Place
<1>5. CASE PopStep /\ UNCHANGED exvars
  <2> USE <1>5 DEF exvars
  <2>1. CASE PopLoad
    BY <2>1, LoadInv
  <2>2. CASE PeekNSize \/ PopNCount \/ PeekNRewind \/ PeekNAssert
    BY <2>2 DEF PeekNSize, PopNCount, PeekNRewind, PeekNAssert, ExIInv, MainInv
  <2>3. CASE PopEmpty
    BY <2>3, <1>2, ExConstants DEF PopEmpty
  <2>4. CASE PopNotEmpty
    <3>1. /\ cpc = "empty" /\ cpc' = "load"
          /\ UNCHANGED <<cdata, cneed, rcvd, i, mismatch>>
      BY <2>4 DEF PopNotEmpty
    <3> QED BY <3>1, <1>1 DEF ExIInv, MainInv, Place
  <2>5. CASE PopAdvance
    <3>1. /\ cpc = "advance" /\ cneed' = cneed - 1
          /\ rcvd' = Append(rcvd, cdata[Len(cdata)])
          /\ \/ cneed > 1 /\ cpc' = "empty"
             \/ cneed = 1 /\ cpc' = "ret"
          /\ UNCHANGED <<cdata, i, mismatch>>
      BY <2>5, <1>2 DEF PopAdvance, PopFinish
    <3>2. /\ i < max_push /\ cneed \in 1 .. WordBytes
          /\ Len(cdata) = WordBytes - cneed + 1
          /\ Len(rcvd) = Place(i, Len(cdata)) - 1
      BY <3>1 DEF ExIInv, MainInv
    <3>3. Len(cdata) > 0 /\ cdata[Len(cdata)] \in Elem
      BY <1>1, <3>2
    <3>4. Len(rcvd') = Len(rcvd) + 1
      BY <1>1, <3>1, <3>3, AppendFacts
    <3>5. Len(rcvd') = Place(i, Len(cdata)) /\ Place(i, Len(cdata)) \in Nat
      <4>1. Place(i, Len(cdata)) \in Nat
        BY <1>1, PlaceNext
      <4> QED BY <1>1, <3>2, <3>4, <4>1
    <3>6. Len(rcvd') = Place(i, Len(cdata)) - 0
      BY <3>5
    <3>7. cpc' = "empty" =>
            cneed' \in 1 .. WordBytes /\ Len(cdata') = WordBytes - cneed' + 0
      BY <1>1, <3>1, <3>2
    <3>8. cpc' = "ret" => Len(cdata') = WordBytes
      BY <1>1, <3>1, <3>2
    <3> QED BY <1>1, <3>1, <3>2, <3>5, <3>6, <3>7, <3>8 DEF MainInv, Place
  <2> QED BY <2>1, <2>2, <2>3, <2>4, <2>5 DEF PopStep
<1> QED BY <1>3, <1>4, <1>5 DEF Main
-----------------------------------------------------------------------------
(* The invariant of the example holds in every reachable state.            *)
THEOREM ExampleInvariant == ExSpec => []ExIInv
<1>1. ExInit => ExIInv
  <2> SUFFICES ASSUME ExInit PROVE ExIInv
    OBVIOUS
  <2>1. IInv
    BY RingInit DEF ExInit
  <2>2. /\ Len(sent) = 0 /\ Len(rcvd) = 0 /\ Len(cdata) = 0
        /\ ppc = "idle" /\ cpc = "idle" /\ i = 0 /\ push_success = 0
        /\ push_fail = 0 /\ ~mismatch
    BY DEF ExInit, Init
  <2>3. 0 \in 0 .. max_push /\ 0 \in 0 .. MaxFail /\ WordBytes * 0 = 0
        /\ WordBytes \in Nat
    BY ExConstants
  <2>4. HandlerInv /\ MainInv
    BY <2>2, <2>3 DEF HandlerInv, MainInv, Place
  <2>5. StreamInv
    <3> SUFFICES ASSUME NEW x \in Nat, NEW k \in 1 .. WordBytes,
                        Place(x, k) <= 0
                 PROVE  FALSE
      BY <2>2 DEF StreamInv
    <3>1. WordBytes * x \in Nat
      BY <2>3, Z3
    <3> QED BY <2>3, <3>1 DEF Place
  <2> QED BY <2>1, <2>4, <2>5 DEF ExIInv
<1>2. ExIInv /\ [ExNext]_allvars => ExIInv'
  <2>1. CASE ExIInv /\ Handler
    <3>1. MainInv'
      BY <2>1, HandlerFrame DEF ExIInv, MainInv, Place, cvars
    <3> QED BY <2>1, <3>1, HandlerRing, HandlerStep DEF ExIInv
  <2>2. CASE ExIInv /\ Main
    <3>1. HandlerInv' /\ StreamInv'
      BY <2>2, MainFrame DEF ExIInv, HandlerInv, StreamInv, Place, pvars
    <3> QED BY <2>2, <3>1, MainRing, MainStep DEF ExIInv
  <2>3. CASE ExIInv /\ UNCHANGED allvars
    <3>1. IInv'
      BY <2>3, RingStep, ExConstants DEF allvars, ExIInv
    <3>2. StreamInv' /\ HandlerInv' /\ MainInv'
      BY <2>3 DEF allvars, vars, pvars, cvars, exvars, ExIInv, StreamInv,
                  HandlerInv, MainInv, Place
    <3> QED BY <3>1, <3>2 DEF ExIInv
  <2> QED BY <2>1, <2>2, <2>3 DEF ExNext
<1> QED BY <1>1, <1>2, PTL DEF ExSpec

(* The check of notmain never fails, cq_push32 is all or nothing, and      *)
(* outside the handler the queue has taken exactly the integers that       *)
(* push_success counts, however often it wraps or refuses and wherever     *)
(* the handler preempts the loop.                                          *)
THEOREM WordsStayWhole == ExSpec => []WordsAreWhole
<1>1. ExIInv => WordsAreWhole
  <2> SUFFICES ASSUME ExIInv PROVE WordsAreWhole
    OBVIOUS
  <2>1. ExTypeOK /\ ~mismatch /\ Running
    BY DEF ExIInv, IInv, ProducerInv, HandlerInv, MainInv, ExTypeOK, Running
  <2>2. ASSUME ppc = "idle" PROVE i <= push_success
    <3>1. /\ i \in Nat /\ push_success \in Nat /\ WordBytes \in Nat \ {0}
          /\ Len(cdata) \in Nat /\ Len(rcvd) \in Nat /\ Len(sent) \in Nat
      BY ExConstants DEF ExIInv, HandlerInv, MainInv, IInv, TypeOK
    <3>2. Len(sent) = WordBytes * push_success
      BY <2>2 DEF ExIInv, HandlerInv
    <3>3. WordBytes * i <= Len(rcvd)
      <4>1. Len(rcvd) = Place(i, Len(cdata)) - (IF cpc = "advance" THEN 1 ELSE 0)
            /\ (cpc = "advance" => Len(cdata) > 0)
        BY DEF ExIInv, MainInv, IInv, TypeOK
      <4>2. Place(i, Len(cdata)) = WordBytes * i + Len(cdata)
        BY DEF Place
      <4>3. WordBytes * i \in Nat
        BY <3>1, PlaceNext
      <4> QED BY <3>1, <4>1, <4>2, <4>3
    <3>4. Len(rcvd) <= Len(sent)
      BY View DEF ExIInv, IInv
    <3>5. push_success < i =>
            WordBytes * push_success + WordBytes <= WordBytes * i
      BY <3>1, TimesMono
    <3> QED BY <3>1, <3>2, <3>3, <3>4, <3>5
  <2>3. ASSUME cpc = "idle" PROVE Len(rcvd) = WordBytes * i
    BY <2>3, PlaceNext, ExConstants DEF ExIInv, MainInv
  <2> QED BY <2>1, <2>2, <2>3 DEF WordsAreWhole, ExIInv, HandlerInv
<1> QED BY <1>1, ExampleInvariant, PTL
=============================================================================
