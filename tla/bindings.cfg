SPECIFICATION FairSpec
CONSTANTS
  worker1 = worker1  worker2 = worker2  undo1 = undo1  undo2 = undo2
  watch1 = watch1  watch2 = watch2
  Registrations = {worker1, worker2, undo1, undo2, watch1, watch2}
  Of <- Shop
  Work <- ShopWork
  None = None
  LeaveBound = 2
INVARIANTS TypeOK HandedItsOwn SharedOut
PROPERTIES Arrives
CHECK_DEADLOCK FALSE
