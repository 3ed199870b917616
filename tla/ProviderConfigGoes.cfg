SPECIFICATION FairSpec
CONSTANTS
  m1 = m1
  m2 = m2
  n1 = n1
  n2 = n2
  c1 = c1
  c2 = c2
  NoConfig = NoConfig
  Managed = {m1, m2}
  Home <- OneNamespace
  Namespaces = {n1}
  ConfigNames = {c1}
  MaxEdits = 2
  MaxFaults = 1
INVARIANTS TypeOK BlockedOnlyByUsages CountedIsProtected
PROPERTY DeletedConfigGoes
CHECK_DEADLOCK FALSE
