SPECIFICATION Spec
CONSTANTS
  m1 = m1
  m2 = m2
  n1 = n1
  n2 = n2
  c1 = c1
  c2 = c2
  NoConfig = NoConfig
  Managed = {m1}
  Home <- Elsewhere
  Namespaces = {n1, n2}
  ConfigNames = {c1}
  MaxEdits = 2
  MaxFaults = 0
INVARIANT BlockedOnlyByUsages
CHECK_DEADLOCK FALSE
