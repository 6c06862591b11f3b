SPECIFICATION Spec
CONSTANTS
  Producers = {p1, p2, p3}
  Workers = {w1, w2}
  MaxQueueSizes = {0, 1, 2}
  MaxPosts = 5
INVARIANT NeverFatal
CHECK_DEADLOCK FALSE
