SPECIFICATION Spec
CONSTANTS
  Elem = {t1, t2, t3, t4}
  null = null
  Queue = {runq, freeq}
INVARIANT EmptyAssertsHold
PROPERTY ImplementsLists
