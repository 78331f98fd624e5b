SPECIFICATION FairSpec
CONSTANTS
  s1 = s1
  s2 = s2
  w1 = w1
  w2 = w2
  t1 = t1
  Senders = {s1, s2}
  Workers = {w1, w2}
  Topics = {t1}
  MaxFlows = 2
  Matches <- MCMatches
  Null = Null
INVARIANTS TypeOK OwnFlow CounterRight
PROPERTIES DeletedForGood FollowsCounter
