\* Two callers on a topic, one of them also on a topic that covers it: calls
\* overtaken by each other and by callbacks, restarts and reconnections.
CONSTANTS
  t1 = t1
  t2 = t2
  c1 = c1
  c2 = c2
  Topics = {t1, t2}
  Callers = {c1, c2}
  TopicsOf <- MCTopicsOf
  Matches <- MCMatches
  MaxStarts = 2
  MaxConnects = 2
  MaxPackets = 1
SPECIFICATION FairSpec
INVARIANTS TypeOK MapMatchesBroker ReadyMeansConnected
PROPERTIES TopicReachesBroker OwnerReturns
