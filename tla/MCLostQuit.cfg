CONSTANTS
  Threads = {th1, th2}
  Tasks = {f1, f2}
  Callback = Callback
  Nobody = Nobody
  Owner = th1
SPECIFICATION ThreadSpec
CHECK_DEADLOCK FALSE
PROPERTIES
  DestructorEndsTheThread
