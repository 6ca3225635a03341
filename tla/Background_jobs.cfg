SPECIFICATION Spec
CONSTANTS
  c1 = c1  c2 = c2  c3 = c3
  Calls = {c1, c2, c3}
  Kind <- Mixed
  MaxRun = 2
  Faults = {"enqueue", "settle"}
CONSTRAINT FewAtOnce
INVARIANTS EndsOnce NothingLost AcceptedStopReachesJob
PROPERTIES NoResultWhileStopping
CHECK_DEADLOCK FALSE
