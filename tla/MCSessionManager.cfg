\* Two sessions and a ring of two queries, so that the ring can be overrun.
CONSTANTS
  s1 = s1
  s2 = s2
  Sessions = {s1, s2}
  RingSize = 2
SPECIFICATION MCSpec
INVARIANTS TypeOK NoResurrection NewCallbackFindsSession RepliesRecognised
PROPERTIES NoWakeupLost OpenSessionKnown
