------------------------- MODULE LinkedQueueProofs -------------------------
(***************************************************************************)
(* The queues of Q.h are well formed and implement lists, for any number   *)
(* of queues and elements.                                                 *)
(***************************************************************************)
EXTENDS LinkedQueue, TLAPS

(* A positive number other than one.                                       *)
LEMMA SmallNat ==
  ASSUME NEW n \in Nat, n > 0
  PROVE  n # 1 => n > 1
OBVIOUS

(* Behind an inserted element, neighbours stay neighbours.                 *)
LEMMA NextIndex ==
  ASSUME NEW n \in Nat, NEW i \in 0 .. n, NEW k \in 1 .. n + 1, k > i + 1, k # n + 1
  PROVE  k + 1 \in 1 .. n + 1 /\ ~(k + 1 <= i) /\ k + 1 # i + 1
OBVIOUS

(* What List!Insert puts at each place.                                    *)
LEMMA InsertLemma ==
  ASSUME NEW s \in Seq(Elem), NEW i \in 0 .. Len(s), NEW e \in Elem
  PROVE  /\ List!Insert(s, i, e) \in Seq(Elem)
         /\ Len(List!Insert(s, i, e)) = Len(s) + 1
         /\ \A k \in 1 .. Len(s) + 1 :
              List!Insert(s, i, e)[k] =
                IF k <= i THEN s[k] ELSE IF k = i + 1 THEN e ELSE s[k - 1]
<1> DEFINE t == List!Insert(s, i, e)
           n == Len(s)
<1>1. n \in Nat
  OBVIOUS
<1>2. \A k \in 1 .. n + 1 :
        (IF k <= i THEN s[k] ELSE IF k = i + 1 THEN e ELSE s[k - 1]) \in Elem
  <2> TAKE k \in 1 .. n + 1
  <2>1. CASE k <= i
    BY <2>1
  <2>2. CASE k = i + 1
    BY <2>2
  <2>3. CASE k > i + 1
    BY <2>3
  <2> QED
    BY <2>1, <2>2, <2>3
<1>3. t \in [1 .. n + 1 -> Elem]
  BY <1>2 DEF List!Insert
<1>4. t \in Seq(Elem) /\ Len(t) = n + 1
  BY <1>1, <1>3
<1> QED
  BY <1>4 DEF List!Insert

(* What the three insertions have in common: e becomes element i + 1.      *)
PutStep(q, i, e) ==
  LET s == list[q]
  IN /\ Free(e)
     /\ queue' \in [Queue -> QType]
     /\ queue'[q].cnt = Len(s) + 1
     /\ queue'[q].head = IF i = 0 THEN e ELSE s[1]
     /\ queue'[q].tail = IF i = Len(s) THEN e ELSE s[Len(s)]
     /\ \A p \in Queue : p # q => queue'[p] = queue[p]
     /\ next' \in LinkType
     /\ next'[e] = IF i = Len(s) THEN null ELSE s[i + 1]
     /\ i > 0 => next'[s[i]] = e
     /\ \A x \in Elem : x # e /\ (i = 0 \/ x # s[i]) => next'[x] = next[x]
     /\ list' = [list EXCEPT ![q] = List!Insert(s, i, e)]
     /\ UNCHANGED popped

(* The cells of a queue are those of its list.                             *)
LEMMA QueueFacts ==
  ASSUME IInv, NEW q \in Queue
  PROVE  /\ list[q] \in Seq(Elem) /\ Len(list[q]) \in Nat
         /\ queue[q].cnt = Len(list[q])
         /\ Len(list[q]) = 0 => queue[q].head = null /\ queue[q].tail = null
         /\ Len(list[q]) > 0 =>
              /\ queue[q].head = list[q][1] /\ list[q][1] \in Elem
              /\ queue[q].tail = list[q][Len(list[q])]
              /\ list[q][Len(list[q])] \in Elem
              /\ queue[q].head # null /\ queue[q].tail # null
         /\ \A i \in 1 .. Len(list[q]) :
              /\ list[q][i] \in Elem
              /\ next[list[q][i]] =
                   IF i = Len(list[q]) THEN null ELSE list[q][i + 1]
<1>1. list[q] \in Seq(Elem) /\ Len(list[q]) \in Nat
  BY DEF IInv, TypeOK
<1>2. \A i \in 1 .. Len(list[q]) : list[q][i] \in Elem
  BY <1>1
<1> QED
  BY <1>1, <1>2, NullAssumption DEF IInv, Chained

(* Q_append puts at the end.                                               *)
LEMMA AppendPuts ==
  ASSUME IInv, NEW q \in Queue, NEW e \in Elem, AppendTo(q, e)
  PROVE  PutStep(q, Len(list[q]), e)
<1> DEFINE s == list[q]
           n == Len(s)
<1>1. n \in Nat /\ (n = 0 => queue[q].tail = null)
      /\ (n > 0 => queue[q].tail = s[n] /\ s[n] \in Elem /\ s[n] # null)
  BY QueueFacts
<1>2. queue \in [Queue -> QType] /\ next \in LinkType /\ queue[q] \in QType
  BY DEF IInv, TypeOK
<1>3. n > 0 => s[n] # e
  BY <1>1, QueueFacts DEF AppendTo, Free, List!On
<1>4. Q_append(queue[q], e) \in QType
  BY <1>2 DEF Q_append, QType
<1>5. /\ queue' \in [Queue -> QType]
      /\ queue'[q] = Q_append(queue[q], e)
      /\ \A p \in Queue : p # q => queue'[p] = queue[p]
  BY <1>2, <1>4 DEF AppendTo
<1>6. /\ queue'[q].cnt = n + 1 /\ queue'[q].tail = e
      /\ queue'[q].head = IF n = 0 THEN e ELSE s[1]
  BY <1>1, <1>5, QueueFacts DEF Q_append
<1>7. /\ next' \in LinkType /\ next'[e] = null
      /\ n > 0 => next'[s[n]] = e
      /\ \A x \in Elem : x # e /\ (n = 0 \/ x # s[n]) => next'[x] = next[x]
  <2>1. CASE n = 0
    <3>1. next' = [next EXCEPT ![e] = null]
      BY <2>1, <1>1 DEF AppendTo, Q_appendLinks
    <3> QED
      BY <3>1, <2>1, <1>2 DEF LinkType
  <2>2. CASE n > 0
    <3>1. next' = [next EXCEPT ![e] = null, ![s[n]] = e]
      BY <2>2, <1>1 DEF AppendTo, Q_appendLinks
    <3> QED
      BY <3>1, <2>2, <1>1, <1>2, <1>3 DEF LinkType
  <2> QED
    BY <2>1, <2>2, <1>1
<1> QED
  BY <1>1, <1>5, <1>6, <1>7 DEF PutStep, AppendTo

(* Q_push puts in front.                                                   *)
LEMMA PushPuts ==
  ASSUME IInv, NEW q \in Queue, NEW e \in Elem, PushOn(q, e)
  PROVE  PutStep(q, 0, e)
<1> DEFINE s == list[q]
           n == Len(s)
<1>1. n \in Nat
  BY QueueFacts
<1>2. queue \in [Queue -> QType] /\ next \in LinkType /\ queue[q] \in QType
  BY DEF IInv, TypeOK
<1>3. Q_push(queue[q], e) \in QType
  BY <1>2 DEF Q_push, QType
<1>4. /\ queue' \in [Queue -> QType]
      /\ queue'[q] = Q_push(queue[q], e)
      /\ \A p \in Queue : p # q => queue'[p] = queue[p]
  BY <1>2, <1>3 DEF PushOn
<1>5. /\ queue'[q].cnt = n + 1 /\ queue'[q].head = e
      /\ queue'[q].tail = IF 0 = n THEN e ELSE s[n]
  BY <1>1, <1>4, QueueFacts DEF Q_push
<1>6. next' = [next EXCEPT ![e] = queue[q].head] /\ queue[q].head \in Elem \cup {null}
  BY <1>2 DEF PushOn, Q_pushLinks, QType
<1>7. next' \in LinkType /\ next'[e] = queue[q].head
      /\ \A x \in Elem : x # e => next'[x] = next[x]
  BY <1>2, <1>6 DEF LinkType
<1>8. next'[e] = IF 0 = n THEN null ELSE s[0 + 1]
  BY <1>1, <1>7, QueueFacts
<1> QED
  BY <1>1, <1>4, <1>5, <1>7, <1>8 DEF PutStep, PushOn

(* Q_insert_after puts behind the element it is given.                     *)
LEMMA InsertPuts ==
  ASSUME IInv, NEW q \in Queue, NEW e \in Elem, NEW i \in 0 .. Len(list[q]),
         InsertAfter(q, i, e)
  PROVE  PutStep(q, i, e)
<1> DEFINE s == list[q]
           n == Len(s)
           at == IF i = 0 THEN null ELSE s[i]
<1>1. n \in Nat /\ (i > 0 => at = s[i] /\ s[i] \in Elem /\ at # null)
  BY QueueFacts, NullAssumption
<1>2. queue \in [Queue -> QType] /\ next \in LinkType /\ queue[q] \in QType
  BY DEF IInv, TypeOK
<1>3. /\ queue' = [queue EXCEPT ![q] = Q_insert_after(queue[q], at, e)]
      /\ next' = Q_insert_afterLinks(queue[q], next, at, e)
      /\ Free(e) /\ UNCHANGED popped
      /\ list' = [list EXCEPT ![q] = List!Insert(@, i, e)]
  BY DEF InsertAfter
<1>4. CASE i = 0
  <2>1. PushOn(q, e)
    BY <1>3, <1>4 DEF PushOn, Q_insert_after, Q_insert_afterLinks
  <2> QED
    BY <2>1, <1>4, PushPuts
<1>5. CASE i > 0 /\ i = n
  <2>1. queue[q].tail = at
    BY <1>1, <1>5, QueueFacts
  <2>2. AppendTo(q, e)
    BY <2>1, <1>1, <1>3, <1>5 DEF AppendTo, Q_insert_after, Q_insert_afterLinks
  <2> QED
    BY <2>2, <1>5, AppendPuts
<1>6. CASE i > 0 /\ i < n
  <2>1. s[i] # s[n]
    BY <1>1, <1>6 DEF IInv, Disjoint
  <2>2. queue[q].tail # at
    BY <2>1, <1>1, <1>6, QueueFacts
  <2> DEFINE r == [head |-> queue[q].head, tail |-> queue[q].tail,
                   cnt |-> queue[q].cnt + 1]
  <2>3. queue' = [queue EXCEPT ![q] = r]
    BY <2>2, <1>1, <1>3, <1>6 DEF Q_insert_after
  <2>4. r \in QType
    BY <1>2 DEF QType
  <2>5. /\ queue' \in [Queue -> QType] /\ queue'[q] = r
        /\ \A p \in Queue : p # q => queue'[p] = queue[p]
    BY <2>3, <2>4, <1>2
  <2>6. /\ queue'[q].cnt = n + 1 /\ queue'[q].head = s[1]
        /\ queue'[q].tail = s[n]
    BY <2>5, <1>1, <1>6, QueueFacts
  <2>7. next' = [next EXCEPT ![e] = next[s[i]], ![s[i]] = e]
    BY <2>2, <1>1, <1>3, <1>6 DEF Q_insert_afterLinks
  <2>8. next[s[i]] = s[i + 1] /\ s[i + 1] \in Elem
    BY <1>1, <1>6, QueueFacts
  <2>9. s[i] # e
    BY <1>1, <1>3, <1>6, QueueFacts DEF Free, List!On
  <2>10. /\ next' \in LinkType /\ next'[e] = s[i + 1] /\ next'[s[i]] = e
         /\ \A x \in Elem : x # e /\ x # s[i] => next'[x] = next[x]
    BY <2>7, <2>8, <2>9, <1>1, <1>2, <1>6 DEF LinkType
  <2> QED
    BY <2>5, <2>6, <2>10, <1>1, <1>3, <1>6 DEF PutStep
<1> QED
  BY <1>1, <1>4, <1>5, <1>6

(* A put leaves every queue well formed.                                   *)
LEMMA PutKeepsIInv ==
  ASSUME IInv, NEW q \in Queue, NEW e \in Elem, NEW i \in 0 .. Len(list[q]),
         PutStep(q, i, e)
  PROVE  IInv'
<1> DEFINE s == list[q]
           n == Len(s)
           t == List!Insert(s, i, e)
<1>1. s \in Seq(Elem) /\ n \in Nat /\ list \in [Queue -> Seq(Elem)]
  BY DEF IInv, TypeOK
<1>2. /\ t \in Seq(Elem) /\ Len(t) = n + 1
      /\ \A k \in 1 .. n + 1 :
           t[k] = IF k <= i THEN s[k] ELSE IF k = i + 1 THEN e ELSE s[k - 1]
  <2>1. s \in Seq(Elem) /\ i \in 0 .. Len(s) /\ e \in Elem
    BY <1>1
  <2> HIDE DEF s
  <2> QED
    BY <2>1, InsertLemma, Zenon
<1>3. /\ list' \in [Queue -> Seq(Elem)] /\ list'[q] = t
      /\ \A p \in Queue : p # q => list'[p] = list[p]
  <2>1. list' = [list EXCEPT ![q] = t]
    BY DEF PutStep
  <2> HIDE DEF t
  <2> QED
    BY <2>1, <1>1, <1>2
<1>4. TypeOK'
  BY <1>3 DEF PutStep, IInv, TypeOK
<1>5. \A p \in Queue : \A k \in DOMAIN list[p] : list[p][k] # e
  BY DEF PutStep, Free, List!On
<1>6. \A p \in Queue, k \in Nat :
        k \in DOMAIN list[p] <=> k \in 1 .. Len(list[p])
  BY DEF IInv, TypeOK
<1>7. Disjoint'
  <2>1. SUFFICES ASSUME NEW p \in Queue, NEW r \in Queue,
                        NEW j \in 1 .. Len(list'[p]), NEW k \in 1 .. Len(list'[r]),
                        list'[p][j] = list'[r][k]
                 PROVE  p = r /\ j = k
    BY <1>3 DEF Disjoint
  \* Where element k of t stood in s.
  <2> DEFINE old(k1) == IF k1 <= i THEN k1 ELSE k1 - 1
  <2>2. \A k1 \in 1 .. n + 1 :
          k1 # i + 1 => old(k1) \in 1 .. n /\ t[k1] = s[old(k1)]
    BY <1>1, <1>2
  <2>3. t[i + 1] = e /\ i + 1 \in 1 .. n + 1
    BY <1>1, <1>2
  <2>4. \A p1 \in Queue, r1 \in Queue :
          \A j1 \in 1 .. Len(list[p1]), k1 \in 1 .. Len(list[r1]) :
            list[p1][j1] = list[r1][k1] => p1 = r1 /\ j1 = k1
    BY <1>6 DEF IInv, Disjoint
  <2>5. \A p1 \in Queue : \A j1 \in 1 .. Len(list[p1]) : list[p1][j1] # e
    BY <1>5, <1>6
  <2>6. CASE p = q /\ r = q
    <3>1. j \in 1 .. n + 1 /\ k \in 1 .. n + 1 /\ t[j] = t[k]
      BY <2>6, <2>1, <1>2, <1>3
    <3>2. CASE j = i + 1 /\ k # i + 1
      <4>1. s[old(k)] = e /\ old(k) \in 1 .. n
        BY <3>1, <3>2, <2>2, <2>3
      <4> QED
        BY <4>1, <2>5
    <3>3. CASE j # i + 1 /\ k = i + 1
      <4>1. s[old(j)] = e /\ old(j) \in 1 .. n
        BY <3>1, <3>3, <2>2, <2>3
      <4> QED
        BY <4>1, <2>5
    <3>4. CASE j # i + 1 /\ k # i + 1
      <4>1. /\ old(j) \in 1 .. n /\ old(k) \in 1 .. n
            /\ s[old(j)] = s[old(k)]
        BY <3>1, <3>4, <2>2
      <4>2. old(j) = old(k)
        BY <4>1, <2>4
      <4> QED
        BY <4>2, <3>1, <3>4, <2>6
    <3> QED
      BY <3>2, <3>3, <3>4, <2>6
  <2>7. CASE p = q /\ r # q
    <3>1. j \in 1 .. n + 1 /\ k \in 1 .. Len(list[r]) /\ t[j] = list[r][k]
      BY <2>7, <2>1, <1>2, <1>3
    <3>2. j # i + 1
      BY <3>1, <2>3, <2>5
    <3>3. s[old(j)] = list[r][k] /\ old(j) \in 1 .. n
      BY <3>1, <3>2, <2>2
    <3> QED
      BY <3>1, <3>3, <2>4, <2>7
  <2>8. CASE p # q /\ r = q
    <3>1. k \in 1 .. n + 1 /\ j \in 1 .. Len(list[p]) /\ t[k] = list[p][j]
      BY <2>8, <2>1, <1>2, <1>3
    <3>2. k # i + 1
      BY <3>1, <2>3, <2>5
    <3>3. s[old(k)] = list[p][j] /\ old(k) \in 1 .. n
      BY <3>1, <3>2, <2>2
    <3> QED
      BY <3>1, <3>3, <2>4, <2>8
  <2>9. CASE p # q /\ r # q
    BY <2>9, <2>1, <2>4, <1>3
  <2> QED
    BY <2>6, <2>7, <2>8, <2>9
<1>8. Chained'
  <2>1. SUFFICES ASSUME NEW p \in Queue
                 PROVE  /\ queue'[p].cnt = Len(list'[p])
                        /\ queue'[p].head =
                             IF Len(list'[p]) = 0 THEN null ELSE list'[p][1]
                        /\ queue'[p].tail =
                             IF Len(list'[p]) = 0 THEN null
                             ELSE list'[p][Len(list'[p])]
                        /\ \A k \in 1 .. Len(list'[p]) :
                             next'[list'[p][k]] =
                               IF k = Len(list'[p]) THEN null
                               ELSE list'[p][k + 1]
    BY DEF Chained
  <2>2. CASE p # q
    <3>1. \A k \in 1 .. Len(list[p]) :
            list[p][k] \in Elem /\ list[p][k] # e /\ (i > 0 => list[p][k] # s[i])
      <4>1. \A k \in 1 .. Len(list[p]) : list[p][k] \in Elem /\ list[p][k] # e
        BY <1>5, <1>6, QueueFacts
      <4>2. i > 0 => \A k \in 1 .. Len(list[p]) : list[p][k] # s[i]
        BY <2>2, <1>1, <1>6 DEF IInv, Disjoint
      <4> QED
        BY <4>1, <4>2
    <3>2. \A k \in 1 .. Len(list[p]) : next'[list[p][k]] = next[list[p][k]]
      BY <3>1 DEF PutStep
    <3>3. queue'[p] = queue[p] /\ list'[p] = list[p]
      BY <2>2, <1>3 DEF PutStep
    <3> QED
      BY <3>2, <3>3 DEF IInv, Chained
  <2>3. CASE p = q
    <3>1. /\ queue'[q].cnt = n + 1
          /\ queue'[q].head = IF i = 0 THEN e ELSE s[1]
          /\ queue'[q].tail = IF i = n THEN e ELSE s[n]
      BY DEF PutStep
    <3>2. t[1] = (IF i = 0 THEN e ELSE s[1])
      BY <1>1, <1>2
    <3>3. t[n + 1] = IF i = n THEN e ELSE s[n]
      BY <1>1, <1>2
    <3>4. ASSUME NEW k \in 1 .. n + 1
          PROVE  next'[t[k]] = IF k = n + 1 THEN null ELSE t[k + 1]
      <4>1. \A k1 \in 1 .. n : /\ s[k1] \in Elem /\ s[k1] # e
                               /\ next[s[k1]] = IF k1 = n THEN null ELSE s[k1 + 1]
        BY <1>5, <1>6, QueueFacts
      <4>2. \A j1, k1 \in 1 .. n : s[j1] = s[k1] => j1 = k1
        BY <1>6 DEF IInv, Disjoint
      <4>3. /\ next'[e] = IF i = n THEN null ELSE s[i + 1]
            /\ i > 0 => next'[s[i]] = e
            /\ \A x \in Elem : x # e /\ (i = 0 \/ x # s[i]) => next'[x] = next[x]
        BY DEF PutStep
      <4>4. CASE k = i + 1
        <5>1. t[k] = e /\ (i # n => t[k + 1] = s[i + 1])
          BY <4>4, <1>1, <1>2
        <5> QED
          BY <5>1, <4>3, <4>4, <1>1
      <4>5. CASE k = i
        <5>1. t[k] = s[i] /\ t[k + 1] = e /\ i > 0 /\ k # n + 1
          BY <4>5, <1>1, <1>2
        <5> QED
          BY <5>1, <4>3
      <4>6. CASE k < i
        <5>1. t[k] = s[k] /\ t[k + 1] = s[k + 1] /\ k \in 1 .. n /\ k # n
              /\ i \in 1 .. n /\ k # n + 1
          BY <4>6, <1>1, <1>2
        <5>2. s[k] # s[i]
          BY <5>1, <4>2, <4>6
        <5> QED
          BY <5>1, <5>2, <4>1, <4>3
      <4>7. CASE k > i + 1
        <5>1. /\ t[k] = s[k - 1] /\ k - 1 \in 1 .. n
              /\ k # n + 1 => t[k + 1] = s[(k - 1) + 1] /\ k - 1 # n
              /\ k = n + 1 => k - 1 = n
          <6>1. k - 1 \in 1 .. n /\ (k - 1) + 1 = k /\ (k + 1) - 1 = k
            BY <4>7, <1>1
          <6>2. t[k] = s[k - 1]
            BY <4>7, <1>1, <1>2
          <6>3. ASSUME k # n + 1 PROVE t[k + 1] = s[(k + 1) - 1]
            <7> DEFINE m == k + 1
            <7>1. m \in 1 .. n + 1 /\ ~(m <= i) /\ m # i + 1
              BY <6>3, <4>7, <1>1, NextIndex
            <7> HIDE DEF m
            <7>2. t[m] = s[m - 1]
              BY <7>1, <1>2
            <7> QED
              BY <7>2 DEF m
          <6> QED
            BY <6>1, <6>2, <6>3, <1>1
        <5>2. i = 0 \/ s[k - 1] # s[i]
          <6>1. i > 0 => i \in 1 .. n /\ k - 1 # i
            BY <4>7, <1>1
          <6> QED
            BY <6>1, <5>1, <4>2
        <5>3. next'[s[k - 1]] = next[s[k - 1]]
          BY <5>1, <5>2, <4>1, <4>3
        <5> QED
          BY <5>1, <5>3, <4>1
      <4> QED
        BY <4>4, <4>5, <4>6, <4>7, <1>1
    <3> QED
      BY <3>1, <3>2, <3>3, <3>4, <2>3, <1>1, <1>2, <1>3
  <2> QED
    BY <2>2, <2>3
<1> QED
  BY <1>4, <1>7, <1>8 DEF IInv

(* Q_pop leaves every queue well formed.                                   *)
LEMMA PopKeepsIInv ==
  ASSUME IInv, NEW q \in Queue, Pop(q)
  PROVE  IInv'
<1> DEFINE s == list[q]
           n == Len(s)
<1>1. s \in Seq(Elem) /\ n \in Nat /\ list \in [Queue -> Seq(Elem)]
  BY DEF IInv, TypeOK
<1>2. CASE n = 0
  <2>1. queue[q].head = null /\ queue \in [Queue -> QType]
    BY <1>2, QueueFacts DEF IInv, TypeOK
  <2>2. queue' = queue /\ list' = list /\ next' = next /\ popped' = null
    BY <2>1, <1>1, <1>2 DEF Pop, Q_pop
  <2> HIDE DEF s, n
  <2>3. TypeOK'
    BY <2>2 DEF IInv, TypeOK
  <2>4. Disjoint'
    BY <2>2 DEF IInv, Disjoint
  <2>5. Chained'
    BY <2>2 DEF IInv, Chained
  <2> QED
    BY <2>3, <2>4, <2>5 DEF IInv
<1>3. CASE n > 0
  <2> DEFINE t == Tail(s)
  <2>1. /\ t \in Seq(Elem) /\ Len(t) = n - 1
        /\ \A k \in 1 .. n - 1 : t[k] = s[k + 1]
    BY <1>1, <1>3
  <2>2. /\ list' \in [Queue -> Seq(Elem)] /\ list'[q] = t
        /\ \A p \in Queue : p # q => list'[p] = list[p]
    BY <1>1, <1>3, <2>1 DEF Pop
  <2>3. /\ queue[q].head = s[1] /\ s[1] \in Elem /\ s[1] # null
        /\ next[s[1]] = IF n = 1 THEN null ELSE s[2]
        /\ queue[q].tail = s[n] /\ queue[q].cnt = n
        /\ n > 1 => s[2] \in Elem /\ s[2] # null
    <3>1. /\ queue[q].head = s[1] /\ s[1] \in Elem /\ s[1] # null
          /\ queue[q].tail = s[n] /\ queue[q].cnt = n
      BY <1>3, QueueFacts, NullAssumption
    <3>2. next[s[1]] = IF 1 = n THEN null ELSE s[1 + 1]
      <4>1. 1 \in 1 .. n
        BY <1>1, <1>3
      <4> QED
        BY <4>1, QueueFacts
    <3>3. n > 1 => s[2] \in Elem
      BY <1>1, <1>3, QueueFacts
    <3> QED
      BY <3>1, <3>2, <3>3, NullAssumption
  <2> DEFINE r == [head |-> IF n = 1 THEN null ELSE s[2],
                   tail |-> IF n = 1 THEN null ELSE s[n],
                   cnt |-> n - 1]
  <2>4. Q_pop(queue[q], next) = r
    <3>1. Q_pop(queue[q], next) =
            [head |-> next[s[1]],
             tail |-> IF next[s[1]] = null THEN null ELSE s[n],
             cnt |-> n - 1]
      BY <2>3 DEF Q_pop
    <3>2. n = 1 => next[s[1]] = null
      BY <2>3
    <3>3. n # 1 => next[s[1]] = s[2] /\ s[2] # null
      <4>1. n # 1 => n > 1
        BY <1>1, <1>3, SmallNat
      <4> QED
        BY <4>1, <2>3
    <3> QED
      BY <3>1, <3>2, <3>3
  <2>5. r \in QType
    BY <2>3, <1>1, <1>3, QueueFacts DEF QType
  <2>6. /\ queue' \in [Queue -> QType] /\ queue'[q] = r
        /\ \A p \in Queue : p # q => queue'[p] = queue[p]
    BY <2>4, <2>5 DEF Pop, IInv, TypeOK
  <2>7. TypeOK'
    BY <2>2, <2>3, <2>6 DEF Pop, IInv, TypeOK
  <2>8. Disjoint'
    <3> DEFINE old(p, k) == IF p = q THEN k + 1 ELSE k
    <3>1. \A p \in Queue : \A k \in DOMAIN list'[p] :
            old(p, k) \in DOMAIN list[p] /\ list'[p][k] = list[p][old(p, k)]
      <4> TAKE p \in Queue
      <4>1. CASE p = q
        BY <4>1, <2>1, <2>2, <1>1
      <4>2. CASE p # q
        BY <4>2, <2>2
      <4> QED
        BY <4>1, <4>2
    <3>2. \A p \in Queue : DOMAIN list'[p] \subseteq Int
      BY <2>2
    <3>3. \A p \in Queue : \A j, k \in DOMAIN list'[p] :
            old(p, j) = old(p, k) => j = k
      BY <3>2
    <3> QED
      BY <3>1, <3>3 DEF IInv, Disjoint
  <2>9. Chained'
    <3>1. SUFFICES ASSUME NEW p \in Queue
                   PROVE  /\ queue'[p].cnt = Len(list'[p])
                          /\ queue'[p].head =
                               IF Len(list'[p]) = 0 THEN null ELSE list'[p][1]
                          /\ queue'[p].tail =
                               IF Len(list'[p]) = 0 THEN null
                               ELSE list'[p][Len(list'[p])]
                          /\ \A k \in 1 .. Len(list'[p]) :
                               next'[list'[p][k]] =
                                 IF k = Len(list'[p]) THEN null
                                 ELSE list'[p][k + 1]
      BY DEF Chained
    <3>2. CASE p # q
      BY <3>2, <2>2, <2>6 DEF Pop, IInv, Chained
    <3>3. CASE p = q
      <4>1. /\ n > 1 => t[1] = s[2] /\ t[n - 1] = s[n]
            /\ queue'[q] = r
        <5>1. n > 1 => t[1] = s[1 + 1]
          BY <2>1, <1>1, <1>3
        <5>2. n > 1 => t[n - 1] = s[(n - 1) + 1] /\ (n - 1) + 1 = n
          BY <2>1, <1>1, <1>3
        <5> QED
          BY <5>1, <5>2, <2>6
      <4>2. ASSUME NEW k \in 1 .. n - 1
            PROVE  next[t[k]] = IF k = n - 1 THEN null ELSE t[k + 1]
        <5>1. k + 1 \in 1 .. n /\ t[k] = s[k + 1]
          BY <2>1, <1>1
        <5>2. next[s[k + 1]] = IF k + 1 = n THEN null ELSE s[(k + 1) + 1]
          BY <5>1, QueueFacts
        <5>3. ASSUME k # n - 1 PROVE t[k + 1] = s[(k + 1) + 1]
          <6> DEFINE m == k + 1
          <6>1. m \in 1 .. n - 1
            BY <5>3, <1>1
          <6> HIDE DEF m
          <6>2. t[m] = s[m + 1]
            BY <6>1, <2>1
          <6> QED
            BY <6>2 DEF m
        <5> QED
          BY <5>1, <5>2, <5>3, <1>1
      <4> QED
        <5>1. next' = next /\ list'[p] = t /\ Len(list'[p]) = n - 1
          BY <3>3, <2>1, <2>2 DEF Pop
        <5>2. n - 1 = 0 <=> n = 1
          BY <1>1
        <5>3. n # 1 => n > 1
          BY <1>1, <1>3, SmallNat
        <5> QED
          BY <5>1, <5>2, <5>3, <4>1, <4>2, <3>3
    <3> QED
      BY <3>2, <3>3
  <2> QED
    BY <2>7, <2>8, <2>9 DEF IInv
<1> QED
  BY <1>1, <1>2, <1>3

(* Empty queues are well formed.                                           *)
LEMMA InitIInv == Init => IInv
<1> SUFFICES ASSUME Init PROVE IInv
  OBVIOUS
<1>1. <<>> \in Seq(Elem) /\ Q_init \in QType
  BY DEF Q_init, QType
<1>2. TypeOK
  BY <1>1 DEF Init, TypeOK
<1>3. Disjoint
  BY DEF Init, Disjoint
<1>4. Chained
  BY DEF Init, Chained, Q_init
<1> QED
  BY <1>2, <1>3, <1>4 DEF IInv

(* Every step is a pop or an insertion.                                    *)
LEMMA NextCases ==
  ASSUME IInv, Next
  PROVE  \E q \in Queue :
           \/ Pop(q)
           \/ \E e \in Elem, i \in 0 .. Len(list[q]) : PutStep(q, i, e)
<1>1. PICK q \in Queue :
        \/ Pop(q)
        \/ \E e \in Elem :
             \/ AppendTo(q, e) \/ PushOn(q, e)
             \/ \E i \in 0 .. Len(list[q]) : InsertAfter(q, i, e)
  BY DEF Next
<1>2. Len(list[q]) \in 0 .. Len(list[q]) /\ 0 \in 0 .. Len(list[q])
  BY QueueFacts
<1>3. CASE \E e \in Elem : AppendTo(q, e)
  BY <1>2, <1>3, AppendPuts
<1>4. CASE \E e \in Elem : PushOn(q, e)
  BY <1>2, <1>4, PushPuts
<1>5. CASE \E e \in Elem : \E i \in 0 .. Len(list[q]) : InsertAfter(q, i, e)
  BY <1>5, InsertPuts
<1> QED
  BY <1>1, <1>3, <1>4, <1>5

(* The queues are well formed: following next from head visits each        *)
(* element of the list once, for any number of queues sharing the links.   *)
THEOREM WellFormed == Spec => []IInv
<1>1. IInv /\ [Next]_vars => IInv'
  <2> SUFFICES ASSUME IInv, [Next]_vars PROVE IInv'
    OBVIOUS
  <2>1. CASE UNCHANGED vars
    BY <2>1 DEF vars, IInv, TypeOK, Disjoint, Chained
  <2>2. CASE Next
    BY <2>2, NextCases, PopKeepsIInv, PutKeepsIInv
  <2> QED
    BY <2>1, <2>2
<1> QED
  BY <1>1, InitIInv, PTL DEF Spec

(* The assertions inside Q_empty never fail.                               *)
THEOREM EmptyAsserts == Spec => []EmptyAssertsHold
<1>1. IInv => EmptyAssertsHold
  <2> SUFFICES ASSUME IInv, NEW q \in Queue, queue[q].head = null
               PROVE  queue[q].cnt = 0 /\ queue[q].tail = null
    BY DEF EmptyAssertsHold, Q_emptyAsserts
  <2> QED
    BY QueueFacts
<1> QED
  BY <1>1, WellFormed, PTL

(* The queues implement independent lists.                                 *)
THEOREM ListRefinement == Spec => ImplementsLists
<1>1. Init => List!Init
  BY DEF Init, List!Init
<1>2. IInv /\ [Next]_vars => [List!Next]_List!vars
  <2> SUFFICES ASSUME IInv, [Next]_vars PROVE [List!Next]_List!vars
    OBVIOUS
  <2>1. CASE UNCHANGED vars
    BY <2>1 DEF vars, List!vars
  <2>2. ASSUME NEW q \in Queue, Pop(q) PROVE List!Next
    <3>1. List!Pop(q)
      <4>1. list[q] \in Seq(Elem) /\ list \in [Queue -> Seq(Elem)]
        BY DEF IInv, TypeOK
      <4>2. CASE Len(list[q]) = 0
        <5>1. list[q] = <<>> /\ list' = list /\ popped' = null
          BY <2>2, <4>1, <4>2, QueueFacts DEF Pop
        <5> QED
          BY <5>1 DEF List!Pop
      <4>3. CASE Len(list[q]) > 0
        <5>1. list[q] # <<>> /\ popped' = list[q][1]
          BY <2>2, <4>1, <4>3, QueueFacts DEF Pop
        <5>2. list' = [list EXCEPT ![q] = Tail(@)]
          <6>1. list' = [list EXCEPT ![q] = IF Len(list[q]) = 0 THEN list[q]
                                            ELSE Tail(list[q])]
            BY <2>2 DEF Pop
          <6>2. (IF Len(list[q]) = 0 THEN list[q] ELSE Tail(list[q])) = Tail(list[q])
            BY <4>1, <4>3
          <6> QED
            BY <6>1, <6>2
        <5> QED
          BY <5>1, <5>2 DEF List!Pop
      <4> QED
        BY <4>1, <4>2, <4>3
    <3> QED
      BY <3>1 DEF List!Next
  <2>3. ASSUME NEW q \in Queue, NEW e \in Elem, NEW i \in 0 .. Len(list[q]),
               PutStep(q, i, e)
        PROVE  List!Next
    <3>1. List!Put(q, i, e)
      BY <2>3 DEF PutStep, Free, List!Put
    <3> QED
      BY <3>1 DEF List!Next
  <2>4. CASE Next
    BY <2>2, <2>3, <2>4, NextCases
  <2> QED
    BY <2>1, <2>4
<1> QED
  BY <1>1, <1>2, WellFormed, PTL DEF Spec, ImplementsLists, List!Spec
=============================================================================
