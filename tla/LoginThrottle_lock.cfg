SPECIFICATION FairTSpec
CONSTANTS
  Threads = {t1, t2}
  Ips = {i1}
  Names = {n1}
  Deques = {d1, d2, d3, d4}
  MaxFailures = 1
  Window = 1
  Nil = Nil
INVARIANTS
  OvershootIsBounded
PROPERTIES
  LockOpens
CHECK_DEADLOCK FALSE
