----------------------------- MODULE RpiThread -----------------------------
(***************************************************************************)
(* The non-preemptive threads of labs/8-threads/code/rpi-thread.c over the *)
(* queues of libc/Q.h.  Thread blocks come from freeq, or from kmalloc     *)
(* when it is empty; runnable threads wait in runq.  The context switches  *)
(* are in the binaries linked with the file (staff-rpi-thread.o): what     *)
(* they do to the queues is taken from the comments of rpi-thread.c and    *)
(* from the recorded runs of the tests.                                    *)
(***************************************************************************)
EXTENDS LinkedQ, Sequences, FiniteSets

CONSTANT MaxTid  \* bound: thread ids handed out

ASSUME BlockAssumption ==
  /\ MaxTid \in Nat \ {0} /\ Elem = 1 .. MaxTid  \* kmalloc'ed in address order

VARIABLES
  runq, freeq, next,
  cur_thread,        \* null while the caller of rpi_thread_start runs
  scheduler_thread,
  tid, nalloced,     \* the next thread id, the number of blocks allocated
  tids,              \* the tid field of each block
  retired            \* history: blocks of earlier scheduler threads

vars == <<runq, freeq, next, cur_thread, scheduler_thread, tid, nalloced, tids,
          retired>>

Init ==
  /\ runq = Q_init /\ freeq = Q_init
  /\ next = [b \in Elem |-> null]
  /\ cur_thread = null /\ scheduler_thread = null
  /\ tid = 1 /\ nalloced = 0
  /\ tids = [b \in Elem |-> 0]
  /\ retired = {}

\* th_alloc: the block it returns, and its effect but for the links.
Allocated == IF freeq.head = null THEN nalloced + 1 ELSE freeq.head

th_alloc ==
  /\ tid <= MaxTid
  /\ freeq' = Q_pop(freeq, next)
  /\ nalloced' = IF freeq.head = null THEN nalloced + 1 ELSE nalloced
  /\ tids' = [tids EXCEPT ![Allocated] = tid]
  /\ tid' = tid + 1

\* Fault: the exiting thread's block is lost.
rpi_exitLeak ==
  /\ cur_thread # null
  /\ cur_thread' = runq.head
  /\ runq' = Q_pop(runq, next)
  /\ UNCHANGED <<freeq, next, scheduler_thread, tid, nalloced, tids, retired>>

\* Fault: the yielding thread goes to the front.
rpi_yieldFront ==
  /\ cur_thread # null
  /\ IF runq.head = null THEN UNCHANGED <<runq, next, cur_thread>>
     ELSE LET rest == Q_pop(runq, next)
          IN /\ cur_thread' = runq.head
             /\ runq' = Q_push(rest, cur_thread)
             /\ next' = Q_pushLinks(rest, next, cur_thread)
  /\ UNCHANGED <<freeq, scheduler_thread, tid, nalloced, tids, retired>>

\* Before rpi_thread_start, or from a thread.  The last id of the bound is
\* left to rpi_thread_start.
rpi_fork ==
  /\ tid < MaxTid
  /\ th_alloc
  /\ runq' = Q_append(runq, Allocated)
  /\ next' = Q_appendLinks(runq, next, Allocated)
  /\ UNCHANGED <<cur_thread, scheduler_thread, retired>>

rpi_yield ==
  /\ cur_thread # null
  /\ IF runq.head = null THEN UNCHANGED <<runq, next, cur_thread>>
     ELSE LET rest == Q_pop(runq, next)
          IN /\ cur_thread' = runq.head
             /\ runq' = Q_append(rest, cur_thread)
             /\ next' = Q_appendLinks(rest, next, cur_thread)
  /\ UNCHANGED <<freeq, scheduler_thread, tid, nalloced, tids, retired>>

\* th_free, and on to the next thread or back to the scheduler thread.
rpi_exit ==
  /\ cur_thread # null
  /\ LET freed == Q_pushLinks(freeq, next, cur_thread)
     IN /\ freeq' = Q_push(freeq, cur_thread)
        /\ next' = freed
        /\ cur_thread' = runq.head
        /\ runq' = Q_pop(runq, freed)
  /\ UNCHANGED <<scheduler_thread, tid, nalloced, tids, retired>>

\* The scheduler thread gets a new block; the old one is not freed.
rpi_thread_start ==
  /\ cur_thread = null /\ runq.head # null
  /\ th_alloc
  /\ scheduler_thread' = Allocated
  /\ retired' = retired \cup ({scheduler_thread} \ {null})
  /\ cur_thread' = runq.head
  /\ runq' = Q_pop(runq, next)
  /\ UNCHANGED next

Next == rpi_fork \/ rpi_yield \/ rpi_exit \/ rpi_thread_start

Spec == Init /\ [][Next]_vars
-----------------------------------------------------------------------------
\* The blocks on a queue, in order.
Chain(q) ==
  LET at[i \in 1 .. q.cnt] ==
        IF i = 1 THEN q.head
        ELSE IF at[i - 1] = null THEN null ELSE next[at[i - 1]]
  IN [i \in 1 .. q.cnt |-> at[i]]
On(q) == {Chain(q)[i] : i \in 1 .. q.cnt}

Scheduler == {scheduler_thread} \ {null}
Current == {cur_thread} \ {null}

(* The fields of the queues stay blocks, and no more are counted than kmalloc *)
(* handed out.                                                                *)
TypeOK ==
  /\ runq \in [head : Elem \cup {null}, tail : Elem \cup {null}, cnt : 0 .. MaxTid]
  /\ freeq \in [head : Elem \cup {null}, tail : Elem \cup {null}, cnt : 0 .. MaxTid]
  /\ next \in LinkType
  /\ cur_thread \in Elem \cup {null} /\ scheduler_thread \in Elem \cup {null}
  /\ tid \in 1 .. MaxTid + 1 /\ nalloced \in 0 .. MaxTid
  /\ tids \in [Elem -> 0 .. MaxTid] /\ retired \subseteq Elem

(* Every block kmalloc gave out is in one place: on runq, on freeq,        *)
(* running, or a scheduler thread's; no queue holds one twice, although    *)
(* both queues and the running thread share the next fields; and threads   *)
(* alive never share an id, blocks reused or not.                          *)
EveryBlockOnce ==
  /\ TypeOK
  /\ On(runq) \cup On(freeq) \cup Current \cup Scheduler \cup retired
       = 1 .. nalloced
  /\ runq.cnt + freeq.cnt + Cardinality(Current) + Cardinality(Scheduler)
       + Cardinality(retired) = nalloced
  /\ Q_emptyAsserts(runq) /\ Q_emptyAsserts(freeq)
  /\ \A a, b \in On(runq) \cup Current \cup Scheduler : tids[a] = tids[b] => a = b

(* A forked thread runs, and every thread that yields runs again.          *)
EveryThreadRuns == \A b \in Elem : b \in On(runq) ~> cur_thread = b
=============================================================================
