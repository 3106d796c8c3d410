SPECIFICATION FairSpec
CONSTANTS
  w1 = w1
  t1 = t1
  NoKey = NoKey
  Workers = {w1}
  Topics = {t1}
  Urgent = {t1}
  Ids = {1}
  ReminderLimit = 1
  MaxGeneration = 3
  MaxEdge = 2
INVARIANTS
  EdgeNotLost
  BriefingIsCurrent
  HeldNotForgotten
PROPERTIES
  PromiseKept
  NoticeSettles
CHECK_DEADLOCK FALSE
