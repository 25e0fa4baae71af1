-------------------------- MODULE RpiThreadProofs --------------------------
(***************************************************************************)
(* The thread package never loses a block and never has one in two places, *)
(* for every number of threads and every order of forks, yields, exits and *)
(* starts.  The argument is that runq and freeq are two lists threaded     *)
(* through the next fields, without a block in common.                     *)
(***************************************************************************)
EXTENDS RpiThread, Arithmetic, TLAPS

Ran(s) == {s[j] : j \in 1 .. Len(s)}

Distinct(s) == \A j, k \in 1 .. Len(s) : s[j] = s[k] => j = k

\* The queue q holds the elements of s: following links from head visits
\* them in order and ends at tail.
Linked(q, s, links) ==
  /\ s \in Seq(Elem) /\ Distinct(s)
  /\ q \in [head : Elem \cup {null}, tail : Elem \cup {null}, cnt : Nat]
  /\ q.cnt = Len(s)
  /\ Len(s) = 0 => q.head = null /\ q.tail = null
  /\ Len(s) > 0 => q.head = s[1] /\ q.tail = s[Len(s)] /\ links[s[Len(s)]] = null
  /\ \A j \in 1 .. Len(s) - 1 : links[s[j]] = s[j + 1]

One(b) == IF b = null THEN 0 ELSE 1

\* r is on runq and f on freeq, and every block handed out is in one place.
Blocks(r, f) ==
  /\ Linked(runq, r, next) /\ Linked(freeq, f, next)
  /\ Ran(r) \cap Ran(f) = {}
  /\ cur_thread \notin Ran(r) \cup Ran(f)
  /\ scheduler_thread \notin Ran(r) \cup Ran(f) \cup Current
  /\ retired \cap (Ran(r) \cup Ran(f) \cup Current \cup Scheduler) = {}
  /\ Ran(r) \cup Ran(f) \cup Current \cup Scheduler \cup retired = 1 .. nalloced
  /\ Len(r) + Len(f) + One(cur_thread) + One(scheduler_thread)
       + Cardinality(retired) = nalloced
  /\ \A a, b \in Ran(r) \cup Current \cup Scheduler : tids[a] = tids[b] => a = b

\* The types of what Blocks does not speak of, and that ids are not reused.
FieldsOK ==
  /\ next \in LinkType /\ retired \subseteq Elem
  /\ cur_thread \in Elem \cup {null} /\ scheduler_thread \in Elem \cup {null}
  /\ tid \in 1 .. MaxTid + 1 /\ nalloced \in 0 .. MaxTid /\ nalloced < tid
  /\ tids \in [Elem -> 0 .. MaxTid] /\ \A b \in Elem : tids[b] < tid

IInv == FieldsOK /\ \E r, f : Blocks(r, f)
-----------------------------------------------------------------------------
(* The library's facts about Append and Tail, in the form used here.       *)
LEMMA AppendFacts ==
  ASSUME NEW S, NEW s \in Seq(S), NEW e \in S
  PROVE  /\ Append(s, e) \in Seq(S) /\ Len(Append(s, e)) = Len(s) + 1
         /\ Len(s) \in Nat
         /\ \A j \in 1 .. Len(s) : Append(s, e)[j] = s[j]
         /\ Append(s, e)[Len(s) + 1] = e
OBVIOUS

(* The same of an element put in front.                                    *)
LEMMA PrependFacts ==
  ASSUME NEW S, NEW s \in Seq(S), NEW e \in S
  PROVE  /\ <<e>> \o s \in Seq(S) /\ Len(<<e>> \o s) = Len(s) + 1
         /\ Len(s) \in Nat
         /\ (<<e>> \o s)[1] = e
         /\ \A j \in 1 .. Len(s) : (<<e>> \o s)[j + 1] = s[j]
OBVIOUS

(* And of the rest of a list.                                              *)
LEMMA TailFacts ==
  ASSUME NEW S, NEW s \in Seq(S), Len(s) > 0
  PROVE  /\ Tail(s) \in Seq(S) /\ Len(Tail(s)) = Len(s) - 1
         /\ Len(s) \in Nat /\ s[1] \in S
         /\ \A j \in 1 .. Len(s) - 1 : Tail(s)[j] = s[j + 1]
<1>1. s # <<>> /\ Len(s) \in Nat
  OBVIOUS
<1> QED BY <1>1

(* A linked list has no null in it, and its queue passes the assertions of *)
(* Q_empty.                                                                *)
LEMMA LinkedFacts ==
  ASSUME NEW q, NEW s, NEW links, Linked(q, s, links)
  PROVE  /\ Len(s) \in Nat /\ \A j \in 1 .. Len(s) : s[j] \in Elem /\ s[j] # null
         /\ q.head = null <=> Len(s) = 0
         /\ q.tail = null <=> Len(s) = 0
         /\ q.head = null <=> s = <<>>
         /\ Ran(s) \subseteq Elem /\ null \notin Ran(s)
         /\ Q_emptyAsserts(q)
<1>1. Len(s) \in Nat /\ \A j \in 1 .. Len(s) : s[j] \in Elem /\ s[j] # null
  BY NullAssumption DEF Linked
<1>2. Len(s) > 0 => 1 \in 1 .. Len(s) /\ Len(s) \in 1 .. Len(s)
  BY <1>1
<1>3. q.head = null <=> Len(s) = 0
  BY <1>1, <1>2 DEF Linked
<1>4. q.tail = null <=> Len(s) = 0
  BY <1>1, <1>2 DEF Linked
<1>5. Len(s) = 0 <=> s = <<>>
  BY DEF Linked
<1>6. Q_emptyAsserts(q)
  BY <1>1, <1>3, <1>4 DEF Q_emptyAsserts, Linked
<1> QED BY <1>1, <1>3, <1>4, <1>5, <1>6 DEF Ran

(* Chain follows the links: it finds the list.                             *)
LEMMA ChainIsList ==
  ASSUME NEW q, NEW s, Linked(q, s, next)
  PROVE  On(q) = Ran(s)
<1> DEFINE R(at) == [j \in 1 .. q.cnt |->
              IF j = 1 THEN q.head
              ELSE IF at[j - 1] = null THEN null ELSE next[at[j - 1]]]
           at == CHOOSE at : at = R(at)
<1>1. Chain(q) = [j \in 1 .. q.cnt |-> at[j]]
  BY Zenon DEF Chain
<1>2. /\ q.cnt = Len(s) /\ Len(s) \in Nat /\ s \in Seq(Elem)
      /\ \A j \in 1 .. Len(s) : s[j] \in Elem /\ s[j] # null
      /\ Len(s) > 0 => q.head = s[1]
      /\ \A j \in 1 .. Len(s) - 1 : next[s[j]] = s[j + 1]
  <2>1. Len(s) \in Nat /\ \A j \in 1 .. Len(s) : s[j] \in Elem /\ s[j] # null
    BY LinkedFacts
  <2> QED BY <2>1 DEF Linked
<1>3. s = R(s)
  <2>1. \A j \in 1 .. q.cnt : s[j] = R(s)[j]
    <3> SUFFICES ASSUME NEW j \in 1 .. q.cnt PROVE s[j] = R(s)[j]
      OBVIOUS
    <3>1. CASE j = 1
      BY <1>2, <3>1
    <3>2. CASE j # 1
      <4>1. j - 1 \in 1 .. Len(s) - 1 /\ j - 1 \in 1 .. Len(s) /\ (j - 1) + 1 = j
        BY <1>2, <3>2
      <4>2. s[j - 1] # null /\ next[s[j - 1]] = s[j]
        BY <1>2, <4>1
      <4> QED BY <3>2, <4>2
    <3> QED BY <3>1, <3>2
  <2>2. s = [j \in 1 .. q.cnt |-> s[j]]
    BY <1>2
  <2> QED BY <2>1, <2>2
<1>4. at = R(at)
  BY <1>3
<1> HIDE DEF at
<1>5. \A j \in 1 .. q.cnt : at[j] = s[j]
  <2> DEFINE Same == {k \in Nat : k + 1 \in 1 .. q.cnt => at[k + 1] = s[k + 1]}
  <2>1. \A j \in 1 .. q.cnt : at[j] = R(at)[j]
    BY <1>4
  <2>2. \A j \in 1 .. q.cnt : j = 1 => at[j] = s[j]
    BY <2>1, <1>2
  <2>3. ASSUME NEW k \in Nat, k \in Same PROVE k + 1 \in Same
    <3> SUFFICES ASSUME (k + 1) + 1 \in 1 .. q.cnt
                 PROVE  at[(k + 1) + 1] = s[(k + 1) + 1]
      OBVIOUS
    <3> DEFINE j == (k + 1) + 1
    <3>1. /\ k + 1 \in 1 .. q.cnt /\ j # 1 /\ j - 1 = k + 1
          /\ k + 1 \in 1 .. Len(s) - 1
      BY <1>2
    <3>2. at[k + 1] = s[k + 1]
      BY <2>3, <3>1
    <3>3. at[j] = IF at[k + 1] = null THEN null ELSE next[at[k + 1]]
      BY <2>1, <3>1
    <3>4. s[k + 1] # null /\ next[s[k + 1]] = s[j]
      BY <1>2, <3>1
    <3> QED BY <3>2, <3>3, <3>4
  <2>4. 0 \in Same
    BY <2>2
  <2>5. Nat \subseteq Same
    <3> HIDE DEF Same
    <3> QED BY <2>3, <2>4, SetInduction
  <2> SUFFICES ASSUME NEW j \in 1 .. q.cnt PROVE at[j] = s[j]
    OBVIOUS
  <2>6. j - 1 \in Nat /\ (j - 1) + 1 = j
    BY <1>2
  <2> QED BY <2>5, <2>6
<1>6. Chain(q) = [j \in 1 .. q.cnt |-> s[j]]
  BY <1>1, <1>5
<1> QED BY <1>2, <1>6 DEF On, Ran

(* Q_pop takes the front of the list and leaves the links as they are.     *)
LEMMA PopLinked ==
  ASSUME NEW q, NEW s, NEW links, Linked(q, s, links), q.head # null
  PROVE  /\ Linked(Q_pop(q, links), Tail(s), links)
         /\ Len(s) > 0 /\ q.head = s[1] /\ q.head \in Elem
         /\ Ran(s) = Ran(Tail(s)) \cup {q.head} /\ q.head \notin Ran(Tail(s))
<1>1. /\ Len(s) \in Nat /\ Len(s) > 0 /\ s \in Seq(Elem)
      /\ q.head = s[1] /\ s[1] # null /\ q.tail = s[Len(s)]
      /\ q.tail \in Elem \cup {null} /\ q.cnt = Len(s) /\ Distinct(s)
      /\ links[s[Len(s)]] = null
      /\ \A j \in 1 .. Len(s) - 1 : links[s[j]] = s[j + 1]
      /\ \A j \in 1 .. Len(s) : s[j] \in Elem /\ s[j] # null
  <2>1. /\ Len(s) \in Nat /\ Len(s) # 0
        /\ \A j \in 1 .. Len(s) : s[j] \in Elem /\ s[j] # null
    BY LinkedFacts
  <2>2. Len(s) > 0 /\ 1 \in 1 .. Len(s)
    BY <2>1
  <2>3. q.head = s[1] /\ q.tail = s[Len(s)] /\ links[s[Len(s)]] = null
    BY <2>2 DEF Linked
  <2> QED BY <2>1, <2>2, <2>3 DEF Linked
<1>0. Len(s) \in Nat /\ Len(s) > 0
  BY <1>1
<1> DEFINE t == Tail(s)
           p == Q_pop(q, links)
<1>2. /\ t \in Seq(Elem) /\ Len(t) = Len(s) - 1
      /\ \A j \in 1 .. Len(s) - 1 : t[j] = s[j + 1]
  BY <1>1, TailFacts
<1> HIDE DEF t
<1>3. p = [head |-> links[s[1]],
           tail |-> IF links[s[1]] = null THEN null ELSE q.tail,
           cnt |-> Len(s) - 1]
  BY <1>1 DEF Q_pop
<1> HIDE DEF p
<1>4. Distinct(t)
  <2> SUFFICES ASSUME NEW j \in 1 .. Len(t), NEW k \in 1 .. Len(t), t[j] = t[k]
               PROVE  j = k
    BY DEF Distinct
  <2>1. j + 1 \in 1 .. Len(s) /\ k + 1 \in 1 .. Len(s) /\ s[j + 1] = s[k + 1]
    BY <1>1, <1>2
  <2> QED BY <1>1, <2>1 DEF Distinct
<1>5. \A j \in 1 .. Len(t) - 1 : links[t[j]] = t[j + 1]
  <2> SUFFICES ASSUME NEW j \in 1 .. Len(t) - 1 PROVE links[t[j]] = t[j + 1]
    OBVIOUS
  <2>1. /\ j \in 1 .. Len(s) - 1 /\ j + 1 \in 1 .. Len(s) - 1
        /\ t[j] = s[j + 1] /\ t[j + 1] = s[(j + 1) + 1]
    BY <1>1, <1>2
  <2> QED BY <1>1, <2>1
<1>6. Linked(p, t, links)
  <2>1. CASE Len(s) = 1
    BY <2>1, <1>1, <1>2, <1>3, <1>4, <1>5 DEF Linked
  <2>2. CASE Len(s) # 1
    <3>1. /\ 1 \in 1 .. Len(s) - 1 /\ 2 \in 1 .. Len(s) /\ 1 + 1 = 2
          /\ Len(s) - 1 \in 1 .. Len(s) - 1 /\ (Len(s) - 1) + 1 = Len(s)
      BY <2>2, <1>0
    <3>2. links[s[1]] = s[2] /\ t[1] = s[2] /\ t[Len(s) - 1] = s[Len(s)]
          /\ s[2] \in Elem /\ s[2] # null
      BY <3>1, <1>1, <1>2
    <3>3. p.head = t[1] /\ p.tail = t[Len(t)] /\ p.cnt = Len(t)
          /\ links[t[Len(t)]] = null
      <4>1. /\ p.head = links[s[1]] /\ p.cnt = Len(s) - 1
            /\ p.tail = IF links[s[1]] = null THEN null ELSE q.tail
        BY <1>3
      <4>2. /\ Len(t) = Len(s) - 1 /\ q.tail = s[Len(s)]
            /\ links[s[Len(s)]] = null
        BY <1>1, <1>2
      <4> QED BY <3>2, <4>1, <4>2
    <3>4. p \in [head : Elem \cup {null}, tail : Elem \cup {null}, cnt : Nat]
      BY <3>2, <1>1, <1>3
    <3> QED BY <3>3, <3>4, <2>2, <1>1, <1>2, <1>4, <1>5 DEF Linked
  <2> QED BY <2>1, <2>2
<1>7. Ran(s) = Ran(t) \cup {s[1]}
  <2>1. ASSUME NEW j \in 1 .. Len(s) PROVE s[j] \in Ran(t) \cup {s[1]}
    <3>1. j # 1 => j - 1 \in 1 .. Len(t) /\ (j - 1) + 1 = j
      BY <1>1, <1>2
    <3>2. j # 1 => s[j] = t[j - 1]
      BY <3>1, <1>2
    <3> QED BY <3>1, <3>2 DEF Ran
  <2>2. ASSUME NEW j \in 1 .. Len(t) PROVE t[j] \in Ran(s)
    <3>1. j + 1 \in 1 .. Len(s) /\ t[j] = s[j + 1]
      BY <1>1, <1>2
    <3> QED BY <3>1 DEF Ran
  <2>3. 1 \in 1 .. Len(s)
    BY <1>1
  <2> QED BY <2>1, <2>2, <2>3 DEF Ran
<1>8. s[1] \notin Ran(t)
  <2> SUFFICES ASSUME NEW j \in 1 .. Len(t), t[j] = s[1] PROVE FALSE
    BY DEF Ran
  <2>1. j + 1 \in 1 .. Len(s) /\ 1 \in 1 .. Len(s) /\ j + 1 # 1
        /\ s[j + 1] = s[1]
    BY <1>1, <1>2
  <2> QED BY <1>1, <2>1 DEF Distinct
<1> QED BY <1>1, <1>6, <1>7, <1>8 DEF t, p

(* Q_append puts the element at the end and touches the links of the list  *)
(* and of the element alone.                                               *)
LEMMA AppendLinked ==
  ASSUME NEW q, NEW s, NEW links \in LinkType, NEW e \in Elem,
         Linked(q, s, links), e \notin Ran(s)
  PROVE  /\ Linked(Q_append(q, e), Append(s, e), Q_appendLinks(q, links, e))
         /\ Ran(Append(s, e)) = Ran(s) \cup {e}
         /\ Len(Append(s, e)) = Len(s) + 1
         /\ Q_appendLinks(q, links, e) \in LinkType
         /\ \A x \in Elem : x \notin Ran(s) \cup {e} =>
              Q_appendLinks(q, links, e)[x] = links[x]
<1> DEFINE n == Len(s)
           t == Append(s, e)
           nl == Q_appendLinks(q, links, e)
<1>1. /\ n \in Nat /\ s \in Seq(Elem) /\ Distinct(s) /\ q.cnt = n
      /\ (n = 0 => q.head = null /\ q.tail = null)
      /\ (n > 0 => q.head = s[1] /\ q.tail = s[n])
      /\ \A j \in 1 .. n - 1 : links[s[j]] = s[j + 1]
      /\ q.head \in Elem \cup {null}
  BY LinkedFacts DEF Linked
<1>2. /\ t \in Seq(Elem) /\ Len(t) = n + 1 /\ t[n + 1] = e
      /\ \A j \in 1 .. n : t[j] = s[j]
  BY <1>1, AppendFacts
<1>3. \A j \in 1 .. n : s[j] \in Elem /\ s[j] # null /\ s[j] # e
  <2>1. \A j \in 1 .. n : s[j] \in Elem /\ s[j] # null
    BY LinkedFacts
  <2> QED BY <2>1 DEF Ran
<1>4. n > 0 => 1 \in 1 .. n /\ n \in 1 .. n
  BY <1>1
<1>5. q.tail = null <=> n = 0
  BY <1>1, <1>3, <1>4
<1>6. Ran(t) = Ran(s) \cup {e}
  <2>1. n + 1 \in 1 .. Len(t) /\ 1 .. n \subseteq 1 .. Len(t)
        /\ \A j \in 1 .. Len(t) : j = n + 1 \/ j \in 1 .. n
    BY <1>1, <1>2
  <2> QED BY <2>1, <1>2 DEF Ran
<1> HIDE DEF t
<1>7. /\ nl \in LinkType /\ nl[e] = null
      /\ n > 0 => nl[s[n]] = e
      /\ \A x \in Elem : x # e /\ (n = 0 \/ x # s[n]) => nl[x] = links[x]
  <2>1. CASE n = 0
    BY <2>1, <1>5 DEF Q_appendLinks, LinkType
  <2>2. CASE n > 0
    <3>1. nl = [links EXCEPT ![e] = null, ![q.tail] = e]
      BY <2>2, <1>1, <1>5 DEF Q_appendLinks
    <3>2. q.tail = s[n] /\ q.tail \in Elem /\ q.tail # e
      BY <2>2, <1>1, <1>3, <1>4
    <3>3. /\ nl \in LinkType /\ nl[e] = null /\ nl[q.tail] = e
          /\ \A x \in Elem : x # e /\ x # q.tail => nl[x] = links[x]
      BY <3>1, <3>2 DEF LinkType
    <3> QED BY <3>2, <3>3, <2>2, <1>1
  <2> QED BY <1>1, <2>1, <2>2
<1> HIDE DEF nl
<1>8. \A j \in 1 .. n : s[j] \in Ran(s)
  BY DEF Ran
<1>9. \A x \in Elem : x \notin Ran(s) \cup {e} => nl[x] = links[x]
  BY <1>1, <1>4, <1>7, <1>8
<1>10. Distinct(t)
  <2> SUFFICES ASSUME NEW j \in 1 .. n + 1, NEW k \in 1 .. n + 1, t[j] = t[k]
               PROVE  j = k
    BY <1>2 DEF Distinct
  <2>1. (j = n + 1 \/ j \in 1 .. n) /\ (k = n + 1 \/ k \in 1 .. n)
    BY <1>1
  <2>2. j \in 1 .. n /\ k \in 1 .. n => j = k
    BY <1>1, <1>2 DEF Distinct
  <2> QED BY <2>1, <2>2, <1>2, <1>3
<1>11. \A j \in 1 .. Len(t) - 1 : nl[t[j]] = t[j + 1]
  <2> SUFFICES ASSUME NEW j \in 1 .. n PROVE nl[t[j]] = t[j + 1]
    BY <1>1, <1>2
  <2>1. CASE j = n
    BY <2>1, <1>1, <1>2, <1>7
  <2>2. CASE j # n
    <3>1. /\ j \in 1 .. n - 1 /\ j + 1 \in 1 .. n /\ n \in 1 .. n
      BY <2>2, <1>1
    <3>2. s[j] # s[n] /\ s[j] \in Elem /\ s[j] # e
      BY <3>1, <2>2, <1>1, <1>3 DEF Distinct
    <3>3. nl[s[j]] = links[s[j]]
      BY <3>2, <1>7
    <3> QED BY <3>1, <3>3, <1>1, <1>2
  <2> QED BY <2>1, <2>2
<1>12. Linked(Q_append(q, e), t, nl)
  <2> DEFINE a == Q_append(q, e)
  <2>1. a = [head |-> IF n = 0 THEN e ELSE q.head, tail |-> e, cnt |-> n + 1]
    BY <1>1, <1>5 DEF Q_append
  <2> HIDE DEF a
  <2>2. a.head = t[1] /\ a.tail = t[Len(t)] /\ a.cnt = Len(t)
        /\ nl[t[Len(t)]] = null
    <3>1. CASE n = 0
      BY <3>1, <2>1, <1>2, <1>7
    <3>2. CASE n > 0
      BY <3>2, <2>1, <1>1, <1>2, <1>4, <1>7
    <3> QED BY <3>1, <3>2, <1>1
  <2>3. a \in [head : Elem \cup {null}, tail : Elem \cup {null}, cnt : Nat]
    BY <2>1, <1>1
  <2>4. Len(t) > 0 /\ Len(t) # 0
    BY <1>1, <1>2
  <2> QED BY <2>2, <2>3, <2>4, <1>2, <1>10, <1>11 DEF Linked, a
<1> QED BY <1>2, <1>6, <1>7, <1>9, <1>12 DEF t, nl

(* Q_push puts the element in front and touches its link alone.            *)
LEMMA PushLinked ==
  ASSUME NEW q, NEW s, NEW links \in LinkType, NEW e \in Elem,
         Linked(q, s, links), e \notin Ran(s)
  PROVE  /\ Linked(Q_push(q, e), <<e>> \o s, Q_pushLinks(q, links, e))
         /\ Ran(<<e>> \o s) = Ran(s) \cup {e}
         /\ Len(<<e>> \o s) = Len(s) + 1
         /\ Q_pushLinks(q, links, e) \in LinkType
         /\ \A x \in Elem : x # e => Q_pushLinks(q, links, e)[x] = links[x]
<1> DEFINE n == Len(s)
           t == <<e>> \o s
           nl == Q_pushLinks(q, links, e)
<1>1. /\ n \in Nat /\ s \in Seq(Elem) /\ Distinct(s) /\ q.cnt = n
      /\ (n = 0 => q.head = null /\ q.tail = null)
      /\ (n > 0 => q.head = s[1] /\ q.tail = s[n] /\ links[s[n]] = null)
      /\ \A j \in 1 .. n - 1 : links[s[j]] = s[j + 1]
      /\ q.head \in Elem \cup {null} /\ q.tail \in Elem \cup {null}
  BY LinkedFacts DEF Linked
<1>2. /\ t \in Seq(Elem) /\ Len(t) = n + 1 /\ t[1] = e
      /\ \A j \in 1 .. n : t[j + 1] = s[j]
  BY <1>1, PrependFacts
<1>3. \A j \in 1 .. n : s[j] \in Elem /\ s[j] # null /\ s[j] # e
  <2>1. \A j \in 1 .. n : s[j] \in Elem /\ s[j] # null
    BY LinkedFacts
  <2> QED BY <2>1 DEF Ran
<1>4. n > 0 => 1 \in 1 .. n /\ n \in 1 .. n
  BY <1>1
<1>5. q.tail = null <=> n = 0
  BY <1>1, <1>3, <1>4
<1> HIDE DEF t
<1>6. \A j \in 1 .. Len(t) : j = 1 \/ (j - 1 \in 1 .. n /\ t[j] = s[j - 1])
  <2> SUFFICES ASSUME NEW j \in 1 .. Len(t), j # 1
               PROVE  j - 1 \in 1 .. n /\ t[j] = s[j - 1]
    OBVIOUS
  <2>1. j - 1 \in 1 .. n /\ (j - 1) + 1 = j
    BY <1>1, <1>2
  <2> QED BY <2>1, <1>2
<1>7. Ran(t) = Ran(s) \cup {e}
  <2>1. 1 \in 1 .. Len(t) /\ \A j \in 1 .. n : j + 1 \in 1 .. Len(t)
    BY <1>1, <1>2
  <2>2. Ran(t) \subseteq Ran(s) \cup {e}
    BY <1>2, <1>6 DEF Ran
  <2>3. Ran(s) \cup {e} \subseteq Ran(t)
    BY <2>1, <1>2 DEF Ran
  <2> QED BY <2>2, <2>3
<1>8. /\ nl \in LinkType /\ nl[e] = q.head
      /\ \A x \in Elem : x # e => nl[x] = links[x]
  BY <1>1 DEF Q_pushLinks, LinkType
<1> HIDE DEF nl
<1>9. Distinct(t)
  <2> SUFFICES ASSUME NEW j \in 1 .. Len(t), NEW k \in 1 .. Len(t), t[j] = t[k]
               PROVE  j = k
    BY DEF Distinct
  <2>1. CASE j = 1 \/ k = 1
    BY <2>1, <1>2, <1>3, <1>6
  <2>2. CASE j # 1 /\ k # 1
    <3>1. j - 1 = k - 1
      BY <2>2, <1>1, <1>6 DEF Distinct
    <3> QED BY <3>1, <1>1, <1>2
  <2> QED BY <2>1, <2>2
<1>10. \A j \in 1 .. Len(t) - 1 : nl[t[j]] = t[j + 1]
  <2> SUFFICES ASSUME NEW j \in 1 .. n PROVE nl[t[j]] = t[j + 1]
    BY <1>1, <1>2
  <2>1. CASE j = 1
    BY <2>1, <1>1, <1>2, <1>8
  <2>2. CASE j # 1
    <3>1. j - 1 \in 1 .. n - 1 /\ j - 1 \in 1 .. n /\ (j - 1) + 1 = j
      BY <2>2, <1>1
    <3>2. t[j] = s[j - 1] /\ t[j + 1] = s[j]
      BY <3>1, <1>2
    <3> QED BY <3>1, <3>2, <1>1, <1>3, <1>8
  <2> QED BY <2>1, <2>2
<1>11. Linked(Q_push(q, e), t, nl)
  <2> DEFINE a == Q_push(q, e)
  <2>1. a = [head |-> e, tail |-> IF n = 0 THEN e ELSE q.tail, cnt |-> n + 1]
    BY <1>1, <1>5 DEF Q_push
  <2> HIDE DEF a
  <2>2. a.head = t[1] /\ a.tail = t[Len(t)] /\ a.cnt = Len(t)
        /\ nl[t[Len(t)]] = null
    <3>1. CASE n = 0
      BY <3>1, <2>1, <1>1, <1>2, <1>8
    <3>2. CASE n > 0
      <4>1. t[n + 1] = s[n] /\ s[n] \in Elem /\ s[n] # e
        BY <3>2, <1>2, <1>3, <1>4
      <4> QED BY <4>1, <3>2, <2>1, <1>1, <1>2, <1>8
    <3> QED BY <3>1, <3>2, <1>1
  <2>3. a \in [head : Elem \cup {null}, tail : Elem \cup {null}, cnt : Nat]
    BY <2>1, <1>1
  <2>4. Len(t) > 0 /\ Len(t) # 0
    BY <1>1, <1>2
  <2> QED BY <2>2, <2>3, <2>4, <1>2, <1>9, <1>10 DEF Linked, a
<1> QED BY <1>2, <1>7, <1>8, <1>11 DEF t, nl

(* A list whose links are not written stays a list.                        *)
LEMMA FrameLinked ==
  ASSUME NEW q, NEW s, NEW links, NEW nl, Linked(q, s, links),
         \A x \in Ran(s) : nl[x] = links[x]
  PROVE  Linked(q, s, nl)
<1>1. Len(s) \in Nat
  BY LinkedFacts
<1>2. \A j \in 1 .. Len(s) : nl[s[j]] = links[s[j]]
  BY DEF Ran
<1>3. Len(s) > 0 => Len(s) \in 1 .. Len(s)
  BY <1>1
<1>4. 1 .. Len(s) - 1 \subseteq 1 .. Len(s)
  BY <1>1
<1> QED BY <1>2, <1>3, <1>4 DEF Linked
-----------------------------------------------------------------------------
(* The constants, and the cardinalities the count of the blocks needs.     *)
LEMMA Facts ==
  /\ MaxTid \in Nat \ {0} /\ Elem = 1 .. MaxTid /\ null \notin Elem
  /\ Cardinality({}) = 0 /\ \A b : Cardinality({b}) = 1
  /\ \A R \in SUBSET Elem : IsFiniteSet(R) /\ Cardinality(R) \in Nat
  /\ \A R \in SUBSET Elem : \A b \in Elem \ R :
       Cardinality(R \cup {b}) = Cardinality(R) + 1
<1>1. IsFiniteSet(Elem)
  BY BlockAssumption, FS_Interval
<1>2. \A R \in SUBSET Elem : IsFiniteSet(R) /\ Cardinality(R) \in Nat
  BY <1>1, FS_Subset, FS_CardinalityType
<1>3. \A R \in SUBSET Elem : \A b \in Elem \ R :
        Cardinality(R \cup {b}) = Cardinality(R) + 1
  BY <1>2, FS_AddElement
<1> QED BY <1>2, <1>3, BlockAssumption, NullAssumption, FS_EmptySet, FS_Singleton

\* th_alloc took the block e and left f1 of the list f on freeq.
Takes(f, f1, e) ==
  /\ e = Allocated /\ Linked(freeq', f1, next)
  /\ Ran(f1) = Ran(f) \ {e}
  /\ e \in Ran(f) \/ e \notin 1 .. nalloced
  /\ 1 .. nalloced' = (1 .. nalloced) \cup {e}
  /\ Len(f1) \in Nat /\ Len(f1) + 1 + nalloced = Len(f) + nalloced'
  /\ nalloced' \in 0 .. MaxTid /\ nalloced' < tid'
  /\ tid' \in 1 .. MaxTid + 1 /\ tid' = tid + 1
  /\ tids' = [tids EXCEPT ![e] = tid]

(* th_alloc takes the front of freeq or the next new block: a block that   *)
(* is in no other place.                                                   *)
LEMMA AllocTakes ==
  ASSUME FieldsOK, NEW f, Linked(freeq, f, next), Ran(f) \subseteq 1 .. nalloced,
         th_alloc
  PROVE  \E e \in Elem : \E f1 : Takes(f, f1, e)
<1> USE DEF Takes
<1>1. /\ tid <= MaxTid /\ tid' = tid + 1 /\ freeq' = Q_pop(freeq, next)
      /\ nalloced' = IF freeq.head = null THEN nalloced + 1 ELSE nalloced
      /\ tids' = [tids EXCEPT ![Allocated] = tid]
  BY DEF th_alloc
<1>2. /\ tid \in Nat /\ tid >= 1 /\ nalloced \in Nat /\ nalloced < tid
      /\ MaxTid \in Nat /\ Elem = 1 .. MaxTid
  BY Facts DEF FieldsOK
<1>3. Len(f) \in Nat
  BY LinkedFacts
<1>4. CASE freeq.head = null
  <2>1. Allocated = nalloced + 1 /\ freeq' = freeq /\ nalloced' = nalloced + 1
    BY <1>1, <1>4 DEF Allocated, Q_pop
  <2>2. /\ nalloced + 1 \in Elem /\ nalloced + 1 \notin 1 .. nalloced
        /\ 1 .. nalloced + 1 = (1 .. nalloced) \cup {nalloced + 1}
        /\ nalloced' \in 0 .. MaxTid /\ nalloced' < tid'
        /\ tid' \in 1 .. MaxTid + 1
        /\ Len(f) + 1 + nalloced = Len(f) + nalloced'
    BY <1>1, <1>2, <1>3, <2>1
  <2>3. Ran(f) = Ran(f) \ {nalloced + 1}
    BY <2>2
  <2> QED BY <1>1, <1>3, <2>1, <2>2, <2>3
<1>5. CASE freeq.head # null
  <2>1. Allocated = freeq.head /\ nalloced' = nalloced
    BY <1>1, <1>5 DEF Allocated
  <2>2. /\ Linked(freeq', Tail(f), next) /\ Len(f) > 0
        /\ freeq.head \in Elem /\ Ran(f) = Ran(Tail(f)) \cup {freeq.head}
        /\ freeq.head \notin Ran(Tail(f))
    BY <1>1, <1>5, PopLinked
  <2>3. Len(Tail(f)) = Len(f) - 1
    BY <1>3, <2>2, TailFacts DEF Linked
  <2>4. Ran(Tail(f)) = Ran(f) \ {freeq.head} /\ freeq.head \in Ran(f)
        /\ 1 .. nalloced = (1 .. nalloced) \cup {freeq.head}
    BY <2>2
  <2>5. /\ Len(Tail(f)) \in Nat /\ Len(Tail(f)) + 1 + nalloced = Len(f) + nalloced'
        /\ nalloced' \in 0 .. MaxTid /\ nalloced' < tid'
        /\ tid' \in 1 .. MaxTid + 1
    BY <1>1, <1>2, <1>3, <2>1, <2>2, <2>3
  <2> QED BY <1>1, <2>1, <2>2, <2>4, <2>5
<1> QED BY <1>4, <1>5

(* The ids stay apart when an allocated block gets the next one.           *)
LEMMA NewId ==
  ASSUME FieldsOK, NEW e \in Elem, tids' = [tids EXCEPT ![e] = tid],
         tid' = tid + 1, tid <= MaxTid
  PROVE  /\ tids' \in [Elem -> 0 .. MaxTid] /\ \A b \in Elem : tids'[b] < tid'
         /\ tids'[e] = tid
         /\ \A b \in Elem : b # e => tids'[b] = tids[b] /\ tids'[b] # tid
<1>1. /\ tid \in Nat /\ tid >= 1 /\ MaxTid \in Nat
      /\ tids \in [Elem -> 0 .. MaxTid] /\ \A b \in Elem : tids[b] < tid
  BY Facts DEF FieldsOK
<1>2. tid \in 0 .. MaxTid
  BY <1>1
<1>3. tids'[e] = tid /\ \A b \in Elem : b # e => tids'[b] = tids[b]
  BY <1>1
<1>4. tids' \in [Elem -> 0 .. MaxTid]
  BY <1>1, <1>2
<1>5. \A b \in Elem : tids[b] \in Nat
  BY <1>1
<1> QED BY <1>1, <1>3, <1>4, <1>5

(* The lists say how many blocks there are on each queue.                  *)
LEMMA BlocksFacts ==
  ASSUME FieldsOK, NEW r, NEW f, Blocks(r, f)
  PROVE  /\ Len(r) \in Nat /\ Len(f) \in Nat /\ Cardinality(retired) \in Nat
         /\ Ran(r) \subseteq Elem /\ Ran(f) \subseteq Elem
         /\ null \notin Ran(r) /\ null \notin Ran(f)
         /\ Ran(f) \subseteq 1 .. nalloced /\ Ran(r) \subseteq 1 .. nalloced
         /\ TypeOK
<1>1. Linked(runq, r, next) /\ Linked(freeq, f, next)
  BY DEF Blocks
<1>2. Len(r) \in Nat /\ Ran(r) \subseteq Elem /\ null \notin Ran(r)
  BY <1>1, LinkedFacts
<1>3. Len(f) \in Nat /\ Ran(f) \subseteq Elem /\ null \notin Ran(f)
  BY <1>1, LinkedFacts
<1>4. Cardinality(retired) \in Nat
  BY Facts DEF FieldsOK
<1>5. Ran(f) \subseteq 1 .. nalloced /\ Ran(r) \subseteq 1 .. nalloced
  BY DEF Blocks
<1>6. Len(r) \in 0 .. MaxTid /\ Len(f) \in 0 .. MaxTid
  <2>1. One(cur_thread) \in Nat /\ One(scheduler_thread) \in Nat
    BY DEF One
  <2>2. Len(r) + Len(f) + One(cur_thread) + One(scheduler_thread)
          + Cardinality(retired) = nalloced
    BY DEF Blocks
  <2>3. nalloced \in Nat /\ MaxTid \in Nat /\ nalloced <= MaxTid
    BY Facts DEF FieldsOK
  <2> QED BY <1>2, <1>3, <1>4, <2>1, <2>2, <2>3
<1>7. /\ runq \in [head : Elem \cup {null}, tail : Elem \cup {null}, cnt : 0 .. MaxTid]
      /\ freeq \in [head : Elem \cup {null}, tail : Elem \cup {null}, cnt : 0 .. MaxTid]
  BY <1>1, <1>6 DEF Linked
<1>8. TypeOK
  BY <1>7 DEF TypeOK, FieldsOK
<1> QED BY <1>2, <1>3, <1>4, <1>5, <1>8
-----------------------------------------------------------------------------
(* Nothing changes, and nothing is lost.                                   *)
LEMMA StutterInv == IInv /\ UNCHANGED vars => IInv'
<1> SUFFICES ASSUME IInv, UNCHANGED vars PROVE IInv'
  OBVIOUS
<1>1. /\ runq' = runq /\ freeq' = freeq /\ next' = next /\ tid' = tid
      /\ cur_thread' = cur_thread /\ scheduler_thread' = scheduler_thread
      /\ nalloced' = nalloced /\ tids' = tids /\ retired' = retired
  BY DEF vars
<1>2. FieldsOK'
  BY <1>1 DEF IInv, FieldsOK
<1>3. PICK r, f : Blocks(r, f)
  BY DEF IInv
<1>4. Blocks(r, f)'
  BY <1>1, <1>3 DEF Blocks, Current, Scheduler
<1> QED BY <1>2, <1>4 DEF IInv

(* Q_pop leaves the list without the block it found, if it found one.      *)
LEMMA PopTakes ==
  ASSUME NEW q, NEW s, NEW links, Linked(q, s, links)
  PROVE  \E s1 : /\ Linked(Q_pop(q, links), s1, links)
                 /\ Ran(s1) = Ran(s) \ {q.head}
                 /\ Len(s1) \in Nat /\ Len(s1) + One(q.head) = Len(s)
                 /\ (q.head \in Elem /\ q.head \in Ran(s)) \/ q.head = null
<1>1. Len(s) \in Nat /\ null \notin Ran(s)
  BY LinkedFacts
<1>2. CASE q.head = null
  <2>1. Q_pop(q, links) = q
    BY <1>2 DEF Q_pop
  <2>2. Ran(s) = Ran(s) \ {q.head} /\ Len(s) + One(q.head) = Len(s)
    BY <1>1, <1>2 DEF One
  <2> QED BY <1>1, <1>2, <2>1, <2>2
<1>3. CASE q.head # null
  <2>1. /\ Linked(Q_pop(q, links), Tail(s), links)
        /\ Len(s) > 0 /\ q.head \in Elem
        /\ Ran(s) = Ran(Tail(s)) \cup {q.head} /\ q.head \notin Ran(Tail(s))
    BY <1>3, PopLinked
  <2>2. Len(Tail(s)) = Len(s) - 1
    BY <2>1, TailFacts DEF Linked
  <2>3. Len(Tail(s)) \in Nat /\ Len(Tail(s)) + One(q.head) = Len(s)
    BY <1>1, <1>3, <2>1, <2>2 DEF One
  <2>4. Ran(Tail(s)) = Ran(s) \ {q.head} /\ q.head \in Ran(s)
    BY <2>1
  <2> QED BY <2>1, <2>3, <2>4
<1> QED BY <1>2, <1>3

(* A fork puts the block it allocates at the end of runq.                  *)
LEMMA ForkInv == IInv /\ rpi_fork => IInv'
<1> SUFFICES ASSUME IInv, rpi_fork PROVE IInv'
  OBVIOUS
<1>1. FieldsOK
  BY DEF IInv
<1>2. PICK r, f : Blocks(r, f)
  BY DEF IInv
<1>3. /\ Len(r) \in Nat /\ Len(f) \in Nat /\ Cardinality(retired) \in Nat
      /\ Ran(r) \subseteq Elem /\ Ran(f) \subseteq Elem
      /\ null \notin Ran(r) /\ null \notin Ran(f)
      /\ Ran(f) \subseteq 1 .. nalloced /\ Ran(r) \subseteq 1 .. nalloced
  BY <1>1, <1>2, BlocksFacts
<1>4. /\ th_alloc /\ tid <= MaxTid
      /\ runq' = Q_append(runq, Allocated)
      /\ next' = Q_appendLinks(runq, next, Allocated)
      /\ UNCHANGED <<cur_thread, scheduler_thread, retired>>
  BY DEF rpi_fork, th_alloc
<1>5. Linked(runq, r, next) /\ Linked(freeq, f, next)
  BY <1>2 DEF Blocks
<1>6. PICK e \in Elem : \E f1 : Takes(f, f1, e)
  BY <1>1, <1>3, <1>4, <1>5, AllocTakes
<1>7. PICK f1 : Takes(f, f1, e)
  BY <1>6
<1> USE DEF Takes
<1>8. e \notin Ran(r) \cup Current \cup Scheduler \cup retired /\ e # null
  BY <1>2, <1>7, Facts DEF Blocks, Current, Scheduler
<1>9. e # cur_thread /\ e # scheduler_thread
  BY <1>8 DEF Current, Scheduler
<1> DEFINE r1 == Append(r, e)
<1>10. /\ Linked(runq', r1, next') /\ Ran(r1) = Ran(r) \cup {e}
       /\ Len(r1) = Len(r) + 1 /\ next' \in LinkType
       /\ \A x \in Elem : x \notin Ran(r) \cup {e} => next'[x] = next[x]
  BY <1>1, <1>4, <1>5, <1>7, <1>8, AppendLinked DEF FieldsOK
<1> HIDE DEF r1
<1>11. Linked(freeq', f1, next')
  <2>1. \A x \in Ran(f1) : next'[x] = next[x]
    BY <1>2, <1>3, <1>7, <1>10 DEF Blocks
  <2> QED BY <1>7, <2>1, FrameLinked
<1>12. /\ tids' \in [Elem -> 0 .. MaxTid] /\ \A b \in Elem : tids'[b] < tid'
       /\ tids'[e] = tid
       /\ \A b \in Elem : b # e => tids'[b] = tids[b] /\ tids'[b] # tid
  BY <1>1, <1>4, <1>7, NewId
<1>13. FieldsOK'
  BY <1>1, <1>4, <1>7, <1>10, <1>12 DEF FieldsOK
<1>14. Current' = Current /\ Scheduler' = Scheduler
  BY <1>4 DEF Current, Scheduler
<1>15. Ran(r1) \cup Ran(f1) \cup Current \cup Scheduler \cup retired = 1 .. nalloced'
  BY <1>2, <1>7, <1>10 DEF Blocks
<1>16. Len(r1) + Len(f1) + One(cur_thread) + One(scheduler_thread)
         + Cardinality(retired) = nalloced'
  <2>1. Len(r) + Len(f) + One(cur_thread) + One(scheduler_thread)
          + Cardinality(retired) = nalloced
    BY <1>2 DEF Blocks
  <2>2. One(cur_thread) \in Nat /\ One(scheduler_thread) \in Nat
        /\ nalloced \in Nat /\ nalloced' \in Nat
    BY <1>1, <1>7, Facts DEF One, FieldsOK
  <2>3. /\ Len(r1) = Len(r) + 1 /\ Len(f1) + 1 + nalloced = Len(f) + nalloced'
        /\ Len(f1) \in Nat
    BY <1>7, <1>10
  <2>4. Len(r) \in Nat /\ Len(f) \in Nat /\ Cardinality(retired) \in Nat
    BY <1>3
  <2>5. PICK c \in Nat, z \in Nat, k \in Nat, m1 \in Nat :
          c = One(cur_thread) /\ z = One(scheduler_thread)
            /\ k = Cardinality(retired) /\ m1 = nalloced'
    BY <2>2, <2>4
  <2>6. Len(r) + Len(f) + c + z + k = nalloced /\ Len(f1) + 1 + nalloced = Len(f) + m1
    BY <2>1, <2>3, <2>5
  <2>7. Len(r) + 1 + Len(f1) + c + z + k = m1
    BY <2>2, <2>3, <2>4, <2>6
  <2> QED BY <2>3, <2>5, <2>7
<1>17. \A a, b \in Ran(r1) \cup Current \cup Scheduler : tids'[a] = tids'[b] => a = b
  <2>1. Ran(r) \cup Current \cup Scheduler \subseteq Elem
    BY <1>1, <1>3 DEF FieldsOK, Current, Scheduler
  <2> QED BY <1>2, <1>8, <1>10, <1>12, <2>1 DEF Blocks
<1>18. Blocks(r1, f1)'
  BY <1>2, <1>4, <1>7, <1>8, <1>9, <1>10, <1>11, <1>14, <1>15, <1>16, <1>17
     DEF Blocks, One
<1> QED BY <1>13, <1>18 DEF IInv

(* A yield swaps the running thread with the front of runq.                *)
LEMMA YieldInv == IInv /\ rpi_yield => IInv'
<1> SUFFICES ASSUME IInv, rpi_yield PROVE IInv'
  OBVIOUS
<1>1. FieldsOK
  BY DEF IInv
<1>2. PICK r, f : Blocks(r, f)
  BY DEF IInv
<1>3. /\ Len(r) \in Nat /\ Len(f) \in Nat /\ Cardinality(retired) \in Nat
      /\ Ran(r) \subseteq Elem /\ Ran(f) \subseteq Elem
      /\ null \notin Ran(r) /\ null \notin Ran(f)
  BY <1>1, <1>2, BlocksFacts
<1>4. CASE runq.head = null
  <2>1. UNCHANGED vars
    BY <1>4 DEF rpi_yield, vars
  <2> QED BY <2>1, StutterInv
<1>5. CASE runq.head # null
  <2>1. PICK c \in Elem : c = cur_thread
    BY <1>1 DEF rpi_yield, FieldsOK
  <2>2. PICK h : h = runq.head
    OBVIOUS
  <2> DEFINE rest == Q_pop(runq, next)
  <2>3. /\ cur_thread' = h /\ runq' = Q_append(rest, c)
        /\ next' = Q_appendLinks(rest, next, c)
        /\ UNCHANGED <<freeq, scheduler_thread, tid, nalloced, tids, retired>>
    BY <1>5, <2>1, <2>2 DEF rpi_yield
  <2>4. Linked(runq, r, next) /\ Linked(freeq, f, next)
    BY <1>2 DEF Blocks
  <2>5. PICK t : /\ Linked(rest, t, next)
                 /\ Ran(t) = Ran(r) \ {h} /\ h \in Elem /\ h \in Ran(r)
                 /\ Len(t) \in Nat /\ Len(t) + 1 = Len(r)
    BY <1>5, <2>2, <2>4, PopTakes DEF One
  <2> HIDE DEF rest
  <2>6. c \notin Ran(r) \cup Ran(f) \cup Scheduler \cup retired /\ c # h
        /\ Current = {c} /\ c # null /\ h # null
    BY <1>2, <2>1, <2>5, Facts DEF Blocks, Current, Scheduler
  <2> DEFINE r1 == Append(t, c)
  <2>7. /\ Linked(runq', r1, next') /\ Ran(r1) = Ran(t) \cup {c}
        /\ Len(r1) = Len(t) + 1 /\ next' \in LinkType
        /\ \A x \in Elem : x \notin Ran(t) \cup {c} => next'[x] = next[x]
    BY <1>1, <2>3, <2>5, <2>6, AppendLinked DEF FieldsOK
  <2> HIDE DEF r1
  <2>8. Linked(freeq', f, next')
    <3>1. \A x \in Ran(f) : next'[x] = next[x]
      BY <1>2, <1>3, <2>5, <2>6, <2>7 DEF Blocks
    <3> QED BY <2>3, <2>4, <3>1, FrameLinked
  <2>9. Current' = {h} /\ Scheduler' = Scheduler
    BY <2>3, <2>6 DEF Current, Scheduler
  <2>10. Ran(r1) \cup Current' = Ran(r) \cup Current
    BY <2>5, <2>6, <2>7, <2>9
  <2>11. h \notin Ran(r1) \cup Ran(f) \cup Scheduler \cup retired
         /\ Ran(r1) \cap Ran(f) = {}
    <3>1. h \notin Ran(f) \cup Scheduler \cup retired /\ Ran(r) \cap Ran(f) = {}
      BY <1>2, <2>5 DEF Blocks, Scheduler
    <3> QED BY <3>1, <2>5, <2>6, <2>7
  <2>12. scheduler_thread \notin Ran(r1) \cup Ran(f) \cup {h}
         /\ retired \cap (Ran(r1) \cup Ran(f) \cup {h} \cup Scheduler) = {}
    BY <1>2, <2>6, <2>9, <2>10, Facts DEF Blocks
  <2>13. Ran(r1) \cup Ran(f) \cup Current' \cup Scheduler \cup retired = 1 .. nalloced
    BY <1>2, <2>10 DEF Blocks
  <2>14. Len(r1) = Len(r) /\ One(cur_thread') = One(cur_thread)
    BY <2>1, <2>3, <2>5, <2>6, <2>7 DEF One
  <2>15. \A a, b \in Ran(r1) \cup Current' \cup Scheduler : tids[a] = tids[b] => a = b
    BY <1>2, <2>10 DEF Blocks
  <2>16. Blocks(r1, f)'
    <3>1. Len(r1) + Len(f) + One(cur_thread') + One(scheduler_thread)
            + Cardinality(retired) = nalloced
      BY <1>2, <2>14 DEF Blocks
    <3> QED BY <3>1, <2>3, <2>7, <2>8, <2>9, <2>11, <2>12, <2>13, <2>15 DEF Blocks
  <2>17. FieldsOK'
    BY <1>1, <2>3, <2>5, <2>7 DEF FieldsOK
  <2> QED BY <2>16, <2>17 DEF IInv
<1> QED BY <1>4, <1>5

(* An exit puts the running thread in front of freeq and runs the front of *)
(* runq, if there is one.                                                  *)
LEMMA ExitInv == IInv /\ rpi_exit => IInv'
<1> SUFFICES ASSUME IInv, rpi_exit PROVE IInv'
  OBVIOUS
<1>1. FieldsOK
  BY DEF IInv
<1>2. PICK r, f : Blocks(r, f)
  BY DEF IInv
<1>3. /\ Len(r) \in Nat /\ Len(f) \in Nat /\ Cardinality(retired) \in Nat
      /\ Ran(r) \subseteq Elem /\ Ran(f) \subseteq Elem
      /\ null \notin Ran(r) /\ null \notin Ran(f)
  BY <1>1, <1>2, BlocksFacts
<1>4. PICK c \in Elem : c = cur_thread
  BY <1>1 DEF rpi_exit, FieldsOK
<1>5. PICK h : h = runq.head
  OBVIOUS
<1>6. /\ freeq' = Q_push(freeq, c) /\ next' = Q_pushLinks(freeq, next, c)
      /\ cur_thread' = h /\ runq' = Q_pop(runq, next')
      /\ UNCHANGED <<scheduler_thread, tid, nalloced, tids, retired>>
  BY <1>4, <1>5 DEF rpi_exit
<1>7. Linked(runq, r, next) /\ Linked(freeq, f, next)
  BY <1>2 DEF Blocks
<1>8. c \notin Ran(r) \cup Ran(f) \cup Scheduler \cup retired
      /\ Current = {c} /\ c # null
  BY <1>2, <1>4, Facts DEF Blocks, Current, Scheduler
<1> DEFINE f1 == <<c>> \o f
<1>9. /\ Linked(freeq', f1, next') /\ Ran(f1) = Ran(f) \cup {c}
      /\ Len(f1) = Len(f) + 1 /\ next' \in LinkType
      /\ \A x \in Elem : x # c => next'[x] = next[x]
  BY <1>1, <1>6, <1>7, <1>8, PushLinked DEF FieldsOK
<1> HIDE DEF f1
<1>10. Linked(runq, r, next')
  <2>1. \A x \in Ran(r) : next'[x] = next[x]
    BY <1>3, <1>8, <1>9
  <2> QED BY <1>7, <2>1, FrameLinked
<1>11. PICK r1 : /\ Linked(runq', r1, next')
                 /\ Ran(r1) = Ran(r) \ {h}
                 /\ Len(r1) \in Nat /\ Len(r1) + One(h) = Len(r)
                 /\ (h \in Elem /\ h \in Ran(r)) \/ h = null
  BY <1>5, <1>6, <1>10, PopTakes
<1>12. Current' = {h} \ {null} /\ Scheduler' = Scheduler
  BY <1>6 DEF Current, Scheduler
<1>13. Ran(r1) \cup Current' = Ran(r) /\ h \notin Ran(r1)
  BY <1>3, <1>11, <1>12
<1>14. /\ Ran(r1) \cap Ran(f1) = {} /\ h \notin Ran(r1) \cup Ran(f1)
  <2>1. Ran(r) \cap Ran(f1) = {} /\ null \notin Ran(f1)
    BY <1>2, <1>3, <1>8, <1>9 DEF Blocks
  <2> QED BY <2>1, <1>11
<1>15. /\ scheduler_thread \notin Ran(r1) \cup Ran(f1) \cup Current'
       /\ retired \cap (Ran(r1) \cup Ran(f1) \cup Current' \cup Scheduler) = {}
  <2>1. Ran(r1) \cup Ran(f1) \cup Current' = Ran(r) \cup Ran(f) \cup Current
    BY <1>8, <1>9, <1>13
  <2> QED BY <2>1, <1>2 DEF Blocks
<1>16. Ran(r1) \cup Ran(f1) \cup Current' \cup Scheduler \cup retired = 1 .. nalloced
  BY <1>2, <1>8, <1>9, <1>13 DEF Blocks
<1>17. Len(r1) + Len(f1) + One(cur_thread') + One(scheduler_thread)
         + Cardinality(retired) = nalloced
  <2>1. PICK k \in Nat, z \in Nat, a \in Nat :
          k = Cardinality(retired) /\ z = One(scheduler_thread) /\ a = One(h)
    BY <1>3 DEF One
  <2>2. Len(r) + Len(f) + 1 + z + k = nalloced
    BY <1>2, <1>4, <1>8, <2>1 DEF Blocks, One
  <2>3. Len(r1) + a = Len(r) /\ Len(f1) = Len(f) + 1
    BY <1>9, <1>11, <2>1
  <2>4. Len(r1) + Len(f1) + a + z + k = nalloced
    BY <2>2, <2>3, <1>3, <1>11
  <2> QED BY <2>1, <2>4, <1>6
<1>18. \A a, b \in Ran(r1) \cup Current' \cup Scheduler : tids[a] = tids[b] => a = b
  BY <1>2, <1>13 DEF Blocks
<1>19. Blocks(r1, f1)'
  BY <1>6, <1>9, <1>11, <1>12, <1>14, <1>15, <1>16, <1>17, <1>18 DEF Blocks
<1>20. FieldsOK'
  BY <1>1, <1>6, <1>9, <1>11 DEF FieldsOK
<1> QED BY <1>19, <1>20 DEF IInv

(* The scheduler thread takes a block of its own and the front of runq     *)
(* runs; the block of the scheduler thread before it is not freed.         *)
LEMMA StartInv == IInv /\ rpi_thread_start => IInv'
<1> SUFFICES ASSUME IInv, rpi_thread_start PROVE IInv'
  OBVIOUS
<1>1. FieldsOK
  BY DEF IInv
<1>2. PICK r, f : Blocks(r, f)
  BY DEF IInv
<1>3. /\ Len(r) \in Nat /\ Len(f) \in Nat /\ Cardinality(retired) \in Nat
      /\ Ran(r) \subseteq Elem /\ Ran(f) \subseteq Elem
      /\ null \notin Ran(r) /\ null \notin Ran(f)
      /\ Ran(f) \subseteq 1 .. nalloced /\ Ran(r) \subseteq 1 .. nalloced
  BY <1>1, <1>2, BlocksFacts
<1>4. PICK h, z : h = runq.head /\ z = scheduler_thread
  OBVIOUS
<1>5. /\ th_alloc /\ tid <= MaxTid /\ cur_thread = null /\ h # null
      /\ runq' = Q_pop(runq, next) /\ next' = next
      /\ cur_thread' = h /\ scheduler_thread' = Allocated
      /\ retired' = retired \cup ({z} \ {null})
  BY <1>4 DEF rpi_thread_start, th_alloc
<1>6. Linked(runq, r, next) /\ Linked(freeq, f, next)
  BY <1>2 DEF Blocks
<1>7. PICK e \in Elem : \E f1 : Takes(f, f1, e)
  BY <1>1, <1>3, <1>5, <1>6, AllocTakes
<1>8. PICK f1 : Takes(f, f1, e)
  BY <1>7
<1>9. /\ e = Allocated /\ Linked(freeq', f1, next)
      /\ Ran(f1) = Ran(f) \ {e} /\ (e \in Ran(f) \/ e \notin 1 .. nalloced)
      /\ 1 .. nalloced' = (1 .. nalloced) \cup {e}
      /\ tids' = [tids EXCEPT ![e] = tid]
  BY <1>8 DEF Takes
<1>10. /\ Len(f1) \in Nat /\ Len(f1) + 1 + nalloced = Len(f) + nalloced'
       /\ nalloced' \in 0 .. MaxTid /\ nalloced' < tid'
       /\ tid' \in 1 .. MaxTid + 1 /\ tid' = tid + 1
  BY <1>8 DEF Takes
<1>11. Current = {}
  BY <1>5 DEF Current
<1>12. e \notin Ran(r) \cup Scheduler \cup retired /\ e # null /\ e # z
  <2>1. e \notin Ran(r) \cup Scheduler \cup retired /\ e # null
    BY <1>2, <1>9, Facts DEF Blocks, Scheduler
  <2> QED BY <2>1, <1>4 DEF Scheduler
<1>13. PICK r1 : /\ Linked(runq', r1, next)
                 /\ Ran(r1) = Ran(r) \ {h}
                 /\ Len(r1) \in Nat /\ Len(r1) + 1 = Len(r)
                 /\ h \in Elem /\ h \in Ran(r)
  BY <1>4, <1>5, <1>6, PopTakes DEF One
<1>14. Linked(runq', r1, next') /\ Linked(freeq', f1, next')
  BY <1>5, <1>9, <1>13
<1>15. Current' = {h} /\ Scheduler' = {e}
  BY <1>5, <1>9, <1>12 DEF Current, Scheduler
<1>16. retired' = retired \cup Scheduler /\ retired' \subseteq Elem
       /\ retired \subseteq Elem /\ Scheduler \subseteq Elem
  BY <1>1, <1>4, <1>5 DEF Scheduler, FieldsOK
<1>17. /\ Ran(r) \cap Ran(f) = {} /\ Scheduler \cap (Ran(r) \cup Ran(f)) = {}
       /\ retired \cap (Ran(r) \cup Ran(f) \cup Scheduler) = {}
       /\ Ran(r) \cup Ran(f) \cup Scheduler \cup retired = 1 .. nalloced
  BY <1>2, <1>11 DEF Blocks, Scheduler
<1>18. /\ Ran(r1) \cap Ran(f1) = {} /\ h \notin Ran(r1) \cup Ran(f1)
       /\ e \notin Ran(r1) \cup Ran(f1) \cup {h}
  BY <1>9, <1>12, <1>13, <1>17
<1>19. (retired \cup Scheduler) \cap (Ran(r1) \cup Ran(f1) \cup {h} \cup {e}) = {}
  BY <1>9, <1>12, <1>13, <1>17
<1>20. Ran(r1) \cup Ran(f1) \cup {h} \cup {e} \cup (retired \cup Scheduler)
         = 1 .. nalloced'
  BY <1>9, <1>13, <1>17
<1>21. Len(r1) + Len(f1) + One(h) + One(e) + Cardinality(retired') = nalloced'
  <2>1. Cardinality(retired') = Cardinality(retired) + One(z)
    <3>1. CASE z = null
      <4>1. retired' = retired /\ One(z) = 0
        BY <3>1, <1>4, <1>16 DEF One, Scheduler
      <4> QED BY <4>1, <1>3
    <3>2. CASE z # null
      <4>1. retired' = retired \cup {z} /\ z \in Elem \ retired
        BY <3>2, <1>4, <1>16, <1>17 DEF Scheduler
      <4> QED BY <3>2, <4>1, <1>16, Facts DEF One
    <3> QED BY <3>1, <3>2
  <2>2. PICK k \in Nat, o \in Nat, k1 \in Nat, m1 \in Nat :
          /\ k = Cardinality(retired) /\ o = One(z)
          /\ k1 = Cardinality(retired') /\ m1 = nalloced'
    <3>1. Cardinality(retired') \in Nat /\ Cardinality(retired) \in Nat
      BY <1>3, <1>16, Facts
    <3>2. One(z) \in Nat /\ nalloced' \in Nat
      BY <1>10 DEF One
    <3> QED BY <3>1, <3>2
  <2>3. Len(r) + Len(f) + o + k = nalloced
    <3>1. Len(r) + Len(f) + 0 + o + k = nalloced
      BY <1>2, <1>4, <1>5, <2>2 DEF Blocks, One
    <3> QED BY <3>1, <1>3, <2>2
  <2>4. k1 = k + o /\ Len(f1) + 1 + nalloced = Len(f) + m1 /\ Len(r1) + 1 = Len(r)
    BY <1>10, <1>13, <2>1, <2>2
  <2>5. Len(r1) + Len(f1) + 1 + 1 + k1 = m1
    <3>1. /\ Len(r) \in Nat /\ Len(f) \in Nat /\ Len(r1) \in Nat
          /\ Len(f1) \in Nat /\ nalloced \in Nat
      BY <1>1, <1>3, <1>10, <1>13 DEF FieldsOK
    <3> QED BY <2>3, <2>4, <3>1
  <2>6. One(h) = 1 /\ One(e) = 1
    BY <1>5, <1>12 DEF One
  <2> QED BY <2>2, <2>5, <2>6
<1>22. /\ tids' \in [Elem -> 0 .. MaxTid] /\ \A b \in Elem : tids'[b] < tid'
       /\ tids'[e] = tid
       /\ \A b \in Elem : b # e => tids'[b] = tids[b] /\ tids'[b] # tid
  BY <1>1, <1>5, <1>9, <1>10, NewId
<1>23. \A a, b \in Ran(r1) \cup {h} \cup {e} : tids'[a] = tids'[b] => a = b
  <2>1. \A a, b \in Ran(r) : tids[a] = tids[b] => a = b
    BY <1>2 DEF Blocks
  <2>2. Ran(r1) \cup {h} = Ran(r)
    BY <1>13
  <2> QED BY <2>1, <2>2, <1>3, <1>12, <1>22
<1>24. Blocks(r1, f1)'
  <2>1. cur_thread' = h /\ scheduler_thread' = e /\ retired' = retired \cup Scheduler
    BY <1>5, <1>9, <1>16
  <2> QED BY <2>1, <1>14, <1>15, <1>18, <1>19, <1>20, <1>21, <1>23 DEF Blocks
<1>25. FieldsOK'
  BY <1>1, <1>5, <1>9, <1>10, <1>13, <1>16, <1>22 DEF FieldsOK
<1> QED BY <1>24, <1>25 DEF IInv
-----------------------------------------------------------------------------
(* Every program of forks, yields, exits and starts keeps every block in   *)
(* one place: two lists without a common block, the running thread, the    *)
(* scheduler's and the blocks it left behind.                              *)
THEOREM BlocksInvariant == Spec => []IInv
<1>1. Init => IInv
  <2> SUFFICES ASSUME Init PROVE IInv
    OBVIOUS
  <2>1. FieldsOK
    BY Facts, NullAssumption DEF Init, FieldsOK, LinkType
  <2>2. Linked(runq, <<>>, next) /\ Linked(freeq, <<>>, next)
    BY DEF Init, Q_init, Linked, Distinct
  <2>3. /\ Ran(<<>>) = {} /\ Len(<<>>) = 0 /\ Current = {} /\ Scheduler = {}
        /\ One(cur_thread) = 0 /\ One(scheduler_thread) = 0
        /\ Cardinality(retired) = 0 /\ retired = {} /\ nalloced = 0
    BY Facts DEF Init, Ran, Current, Scheduler, One
  <2>4. 1 .. nalloced = {}
    BY <2>3
  <2>5. Blocks(<<>>, <<>>)
    BY <2>2, <2>3, <2>4 DEF Blocks
  <2> QED BY <2>1, <2>5 DEF IInv
<1>2. IInv /\ [Next]_vars => IInv'
  BY ForkInv, YieldInv, ExitInv, StartInv, StutterInv DEF Next
<1> QED BY <1>1, <1>2, PTL DEF Spec

(* No block is lost, none is in two places, and threads alive have         *)
(* different ids.                                                          *)
THEOREM EveryBlockIsOnce == Spec => []EveryBlockOnce
<1>1. IInv => EveryBlockOnce
  <2> SUFFICES ASSUME IInv PROVE EveryBlockOnce
    OBVIOUS
  <2>1. FieldsOK
    BY DEF IInv
  <2>2. PICK r, f : Blocks(r, f)
    BY DEF IInv
  <2>3. Linked(runq, r, next) /\ Linked(freeq, f, next)
    BY <2>2 DEF Blocks
  <2>4. On(runq) = Ran(r) /\ On(freeq) = Ran(f)
    BY <2>3, ChainIsList
  <2>5. Q_emptyAsserts(runq) /\ Q_emptyAsserts(freeq)
    BY <2>3, LinkedFacts
  <2>6. runq.cnt = Len(r) /\ freeq.cnt = Len(f)
    BY <2>3 DEF Linked
  <2>7. Cardinality(Current) = One(cur_thread)
        /\ Cardinality(Scheduler) = One(scheduler_thread)
    <3>1. \A b : Cardinality({b} \ {null}) = One(b)
      <4> SUFFICES ASSUME NEW b PROVE Cardinality({b} \ {null}) = One(b)
        OBVIOUS
      <4>1. CASE b = null
        <5>1. {b} \ {null} = {}
          BY <4>1
        <5> QED BY <4>1, <5>1, Facts DEF One
      <4>2. CASE b # null
        <5>1. {b} \ {null} = {b}
          BY <4>2
        <5> QED BY <4>2, <5>1, Facts DEF One
      <4> QED BY <4>1, <4>2
    <3> QED BY <3>1 DEF Current, Scheduler
  <2>8. TypeOK
    BY <2>1, <2>2, BlocksFacts
  <2> QED BY <2>2, <2>4, <2>5, <2>6, <2>7, <2>8 DEF Blocks, EveryBlockOnce
<1> QED BY <1>1, BlocksInvariant, PTL
=============================================================================
