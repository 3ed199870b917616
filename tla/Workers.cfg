SPECIFICATION Workers
CONSTANTS
  CRDs = {k1}
  Versions = {v1, v2}
  Conditions <- GVKs
  Callbacks = {f1, f2}
  Threads = {w, t1}
  Worker = w
  MaxChanges = 3
  Items = {i1, i2, i3}
  Burst = 1
  MaxEvents = 5
  Controllers = {c1, c2}
  MaxOwners = 3
INVARIANTS GateFollowsCRDs NoLostRelease LimitedComesBack
PROPERTIES ControllersStart KeepsContract EveryRequestPasses ObjectIsGuarded DeletedGoes
CHECK_DEADLOCK FALSE
