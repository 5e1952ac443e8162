\* Three overlapping transactions of any kinds.
SPECIFICATION Spec
CONSTANT Transactions = {t1, t2, t3}
INVARIANT DeadlockNeedsScan
PROPERTIES
  ImplementsAtomic
  OneGetsThrough
CHECK_DEADLOCK FALSE
