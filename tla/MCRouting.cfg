SPECIFICATION Spec
CONSTANTS
  t1 = t1
  t2 = t2
  k1 = k1
  k2 = k2
  Threads = {t1, t2}
  Keys = {k1, k2}
  Anyone = anyone
  Owner <- MCOwner
  MaxHandlers = 2
  MaxDepth = 2
INVARIANTS NotificationsBalance LastHeardIsRight VisitIsCurrent
