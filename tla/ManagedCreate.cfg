SPECIFICATION Spec
CONSTANTS
  Names = {"n1", "n2"}
  NoName = "noname"
  ManagedName = "n1"
  Specs = {"s1"}
  PolicyChoices <- DefaultPolicy
  DeletionPolicy = "Modern"
  Preexisting = {}
  managementPoliciesEnabled = TRUE
  deterministicExternalName = FALSE
  NamedByInitializer = FALSE
  HasReferences = FALSE
  LateInitializes = FALSE
  FilterEvents = FALSE
  FailedCreateMayTakeEffect = FALSE
  creationGracePeriod = 1
  ConsistencyDelay = 0
  RetrySteps = 2
  MaxTime = 3
  MaxEdits = 2
  MaxFaults = 2
INVARIANTS TypeOK CreateUnderFinalizer LeakFlagged RestIsJustified
PROPERTIES CreateFromLatest FinalizerRemoval
CHECK_DEADLOCK FALSE
