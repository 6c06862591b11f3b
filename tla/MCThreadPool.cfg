SPECIFICATION FairSpec
CONSTANTS
  Producers = {p1, p2, p3}
  Workers = {w1, w2, w3}
  MaxQueueSizes = {0, 1, 2}
  MaxPosts = 5
INVARIANTS
  TypeOK
  NoLostWakeup
  PostIsSound
PROPERTY TasksAreTaken
CHECK_DEADLOCK FALSE
