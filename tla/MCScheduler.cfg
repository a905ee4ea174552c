SPECIFICATION Spec
CONSTANTS
  c1 = c1
  c2 = c2
  t1 = t1
  t2 = t2
  Cpu = {c1, c2}
  Bsp = c1
  Task = {t1, t2}
  NEED_PREEMPT_MASK = 4
  MaxGuards = 1
CHECK_DEADLOCK FALSE
INVARIANTS
  TasksAccounted
  NoRequestLost
PROPERTIES
  IdleTaskWakes
